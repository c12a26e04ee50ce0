SPECIFICATION DagSpec
CONSTANTS
    Responses <- AllResponses
    Weights <- AllWeights
    Unit = 3
INVARIANTS
    DagDenotesResponse
    DagIsCanonical
    MetricsVouch
