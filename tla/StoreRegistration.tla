------------------------- MODULE StoreRegistration -------------------------
(***************************************************************************)
(* How freeze_inputs.py registers a store: an access mode, two data files  *)
(* and up to three endpoints.  A freezer sees the endpoints themselves; it *)
(* writes only hashes of them into the frozen document, and a loader, which *)
(* never sees an endpoint, must accept from the hashes what the freezer     *)
(* accepted.  Sentinel queries tell the base endpoint from the reified one. *)
(* A hash is modelled by the value it is of: two values share no hash.      *)
(***************************************************************************)
EXTENDS Integers, Sequences, SequencesExt, FiniteSets, FiniteSetsExt

CONSTANTS Origins,    \* scheme and explicit port (0 for none) of an endpoint
          Segments,   \* what may stand between two slashes of a path
          MaxDepth,   \* bound on the segments of a path
          Content,    \* the frozen data files: a function of their names
          Names,      \* data names a store may be registered with
          Queries,    \* sentinel queries
          Values      \* what a sentinel query may return

ASSUME RegistrationAssumption == MaxDepth \in Nat

\* An update endpoint is given or not.
None == << >>

\* "/a/b/" is <<"a", "b", "">>; the empty path is << >>.
Paths == UNION {[1..n -> Segments] : n \in 0..MaxDepth}

-----------------------------------------------------------------------------
(* Endpoints and their hashed records. *)

DefaultPort(scheme) == IF scheme = "https" THEN 443 ELSE 80

OrRoot(path) == IF path = << >> THEN <<"">> ELSE path

\* _CanonicalEndpoint.
Canonical(e) ==
  [scheme |-> e.scheme,
   port |-> IF e.port = 0 THEN DefaultPort(e.scheme) ELSE e.port,
   path |-> OrRoot(e.path)]

Origin(c) == <<c.scheme, c.port>>

\* path.rstrip("/")
Stripped(path) == SubSeq(path, 1, Max({0} \cup {i \in DOMAIN path : path[i] # ""}))

Parent(path) == IF path = << >> THEN << >> ELSE Front(path)
Leaf(path) == IF path = << >> THEN "" ELSE Last(path)

\* The record of an endpoint, without the endpoint.
Safe(c) ==
  LET path == Stripped(c.path)
  IN [endpoint |-> c, origin |-> Origin(c),
      path |-> OrRoot(path), parent |-> OrRoot(Parent(path)),
      leaf |-> IF Leaf(path) \in {"query", "update", "statements"} THEN Leaf(path)
               ELSE "other"]

-----------------------------------------------------------------------------
(* The update endpoint writes the store that the reified endpoint reads. *)

Plain(path) == \A i \in DOMAIN path : path[i] \notin {"", ".", ".."}
Encoded(c) == \E i \in DOMAIN c.path : c.path[i] = "%"

\* Child of a path with at most one slash at its end.
StatementsChild(reified, update) ==
  LET parent == Stripped(reified.path)
  IN /\ reified.path \in {parent, Append(parent, "")}
     /\ ~Encoded(reified) /\ ~Encoded(update) /\ Plain(parent)
     /\ Origin(update) = Origin(reified)
     /\ update.path = Append(parent, "statements")

QuerySibling(reified, update) ==
  LET r == Stripped(reified.path)
      u == Stripped(update.path)
  IN /\ r # << >> /\ u # << >>
     /\ Origin(update) = Origin(reified)
     /\ Parent(r) = Parent(u) /\ Leaf(r) = "query" /\ Leaf(u) = "update"
     /\ ~Encoded(reified) /\ ~Encoded(update) /\ Plain(Parent(r))

\* _bind_update_endpoint.
Binding(reified, update) ==
  IF update = reified THEN "same"
  ELSE IF StatementsChild(reified, update) THEN "statements"
  ELSE IF QuerySibling(reified, update) THEN "sibling" ELSE "refused"

-----------------------------------------------------------------------------
(* Registration and its validation by a loader. *)

Bound(spec) ==
  IF spec.update = None THEN "absent"
  ELSE Binding(Canonical(spec.reified), Canonical(spec.update[1]))

DataDiffer(base, reified) ==
  {base, reified} \subseteq DOMAIN Content /\ Content[base] # Content[reified]

\* validate_store_specs and validate_store_data_references.
Registers(spec) ==
  /\ spec.baseData # spec.reifiedData
  /\ (spec.access = "writable") = (spec.update # None)
  /\ Canonical(spec.base) # Canonical(spec.reified)
  /\ Bound(spec) # "refused"
  /\ DataDiffer(spec.baseData, spec.reifiedData)

\* The canary has passed when a writable store is in a document.
StoreRecord(spec) ==
  [access |-> spec.access, baseData |-> spec.baseData, reifiedData |-> spec.reifiedData,
   base |-> Safe(Canonical(spec.base)), reified |-> Safe(Canonical(spec.reified)),
   update |-> IF spec.update = None THEN None ELSE <<Safe(Canonical(spec.update[1]))>>,
   binding |-> Bound(spec),
   proved |-> spec.access = "writable"]

\* What the hashes of a binding must show.
Consistent(binding, reified, update) ==
  CASE binding = "same" -> update = reified
    [] binding = "statements" ->
         /\ update.endpoint # reified.endpoint /\ update.origin = reified.origin
         /\ update.parent = reified.path /\ update.path # reified.path
         /\ update.leaf = "statements"
    [] binding = "sibling" ->
         /\ update.endpoint # reified.endpoint /\ update.origin = reified.origin
         /\ update.parent = reified.parent /\ update.path # reified.path
         /\ reified.leaf = "query" /\ update.leaf = "update"
    [] OTHER -> FALSE

\* _validate_frozen_stores, in the formal profile.
StoreLoads(record) ==
  /\ record.baseData # record.reifiedData
  /\ DataDiffer(record.baseData, record.reifiedData)
  /\ record.base.endpoint # record.reified.endpoint
  /\ (record.update = None) = (record.binding = "absent")
  /\ (record.access = "read-only") = (record.binding = "absent")
  /\ record.binding # "absent" => Consistent(record.binding, record.reified, record.update[1])
  /\ record.proved = (record.access = "writable")

-----------------------------------------------------------------------------
(* Sentinels of one store. *)

Roles == {"base", "reified"}

\* One sentinel per role and query.
Unique(sentinels) ==
  \A s, t \in sentinels : s.role = t.role /\ s.query = t.query => s = t

\* Some query was put to both endpoints and must return different values.
Discriminates_ByCoverage(sentinels) ==
  \A role \in Roles : \E s \in sentinels : s.role = role
Discriminates(sentinels) ==
  \E s, t \in sentinels : /\ s.role = "base" /\ t.role = "reified"
                          /\ s.query = t.query /\ s.expected # t.expected

\* run_sentinels; answers are those of the two endpoints.
SentinelsPass(sentinels, answers) ==
  /\ Unique(sentinels)
  /\ \A s \in sentinels : answers[s.role][s.query] = s.expected
  /\ \A role \in Roles : \E s \in sentinels : s.role = role
  /\ Discriminates(sentinels)

SentinelRecords(sentinels, answers) ==
  {[role |-> s.role, query |-> s.query, expected |-> s.expected,
    observed |-> answers[s.role][s.query]] : s \in sentinels}

\* _validate_frozen_sentinels.
SentinelsLoad(records) ==
  /\ \A s, t \in records : s.role = t.role /\ s.query = t.query => s = t
  /\ \A s \in records : s.observed = s.expected
  /\ \E s, t \in records : /\ s.role = "base" /\ t.role = "reified" /\ s.query = t.query
                           /\ s.expected # t.expected /\ s.observed # t.observed

-----------------------------------------------------------------------------
(* Properties. *)

Store(access, data, base, reified, update) ==
  [access |-> access, baseData |-> data[1], reifiedData |-> data[2],
   base |-> base, reified |-> reified, update |-> update]

Loads(spec) == Registers(spec) => StoreLoads(StoreRecord(spec))

Endpoints(o, paths) == {[scheme |-> o[1], port |-> o[2], path |-> p] : p \in paths}

\* Every store a freezer accepts is accepted by a loader that sees only hashes:
\* update and reified endpoints with any two paths, and stores with any origins,
\* data and access mode on short paths.
EveryStoreLoads ==
  LET o == CHOOSE any \in Origins : TRUE
      apart == CHOOSE d \in Names \X Names : DataDiffer(d[1], d[2])
      short == UNION {Endpoints(any, {p \in Paths : Len(p) <= 1}) : any \in Origins}
  IN /\ \A r, u \in Endpoints(o, Paths) :
          Loads(Store("writable", apart, [r EXCEPT !.path = Append(@, "base")], r, <<u>>))
     /\ \A access \in {"read-only", "writable"}, d \in Names \X Names, b, r \in short :
          \A update \in {None} \cup {<<u>> : u \in short} :
            Loads(Store(access, d, b, r, update))

\* On paths without dots, escapes, or doubled or trailing slashes the hashes
\* decide the binding exactly as the endpoints do.
HashesDecideTheBinding ==
  LET clear == {p \in Paths : Plain(p) /\ "%" \notin Range(p)}
      endpoints == {Canonical(e) : e \in UNION {Endpoints(o, clear) : o \in Origins}}
  IN \A r, u \in endpoints : \A binding \in {"same", "statements", "sibling"} :
       Consistent(binding, Safe(r), Safe(u)) <=> Binding(r, u) = binding

\* Sentinels that pass are accepted by a loader, and would not have passed had
\* the base and the reified endpoint been exchanged.
SentinelsTellRolesApart ==
  LET all == [role : Roles, query : Queries, expected : Values]
  IN \A answers \in [Roles -> [Queries -> Values]] :
       \A sentinels \in SUBSET all :
         SentinelsPass(sentinels, answers) =>
           /\ SentinelsLoad(SentinelRecords(sentinels, answers))
           /\ ~SentinelsPass(sentinels, [base |-> answers["reified"],
                                         reified |-> answers["base"]])

\* Registration and loading agree on every store.
RegistrationsHold == EveryStoreLoads /\ HashesDecideTheBinding /\ SentinelsTellRolesApart

=============================================================================
