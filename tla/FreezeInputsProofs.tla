------------------------- MODULE FreezeInputsProofs -------------------------
(***************************************************************************)
(* Proofs about FreezeInputs, for any number of freezers and of moves of   *)
(* the identity.  Two locks carry the argument.  A canary process writes   *)
(* only while its freezer, dead or alive, has the store's lock, unless an  *)
(* interrupt took the freezer from it (StoreInv);                          *)
(* and between the temporary file and its end a live freezer has the lock  *)
(* of the output directory (OutputInv), so that at most one freezer's link *)
(* is in the published name (CreatedInv).  A canary that lingers has an    *)
(* owner that is at it or failed (CanaryInv).  What is registered of a     *)
(* store is proved of its endpoints, for all paths: the bounds of the runs *)
(* play no part in it.                                                     *)
(***************************************************************************)
EXTENDS FreezeInputs, FiniteSetTheorems, SequenceTheorems, WellFoundedInduction, TLAPS

TypeOK ==
  /\ identity \in Nat \ {0}
  /\ store \subseteq Freezers \X {1, 2}
  /\ pending \subseteq [kind : {"insert", "delete"}, subject : Freezers \X {1, 2}]
  /\ target \in Nat
  /\ temp \in [Freezers -> {"none", "file", "linked"}]
  /\ outputLock \in Freezers \cup {NoOne} /\ storeLock \in Freezers \cup {NoOne}
  /\ pc \in [Freezers -> {"start", "sentinels", "canary", "check", "write", "link", "validated",
                          "unlinked", "done", "raised", "killed"}]
  /\ round \in [Freezers -> {1, 2}]
  /\ document \in [Freezers -> Nat]
  /\ worker \in [Freezers -> {"none", "insert", "see", "delete", "unsee", "cleanup", "proved",
                              "failed"}]
  /\ confirmed \subseteq Nat

LEMMA TypeInit == Init => TypeOK
BY DEF Init, TypeOK, Absent

\* What every end by an exception does to the types.
LEMMA TypeRaise ==
    ASSUME TypeOK, NEW p \in Freezers, Raise(p)
    PROVE  /\ target' \in Nat /\ temp' \in [Freezers -> {"none", "file", "linked"}]
           /\ outputLock' \in Freezers \cup {NoOne} /\ storeLock' \in Freezers \cup {NoOne}
           /\ pc' = [pc EXCEPT ![p] = "raised"]
           /\ UNCHANGED <<identity, round, document, confirmed>>
<1>1. target' \in Nat /\ temp' \in [Freezers -> {"none", "file", "linked"}]
  BY DEF TypeOK, Raise, RollsBack, Discarded, Absent
<1>2. outputLock' \in Freezers \cup {NoOne} /\ storeLock' \in Freezers \cup {NoOne}
  BY DEF TypeOK, Raise, Ends, Dropped
<1> QED BY <1>1, <1>2 DEF Raise, Ends, At

LEMMA TypeCanary ==
    ASSUME TypeOK, NEW p \in Freezers, Canary(p)
    PROVE  TypeOK'
<1> DEFINE W == {"none", "insert", "see", "delete", "unsee", "cleanup", "proved", "failed"}
           P == [kind : {"insert", "delete"}, subject : Freezers \X {1, 2}]
<1>1. \A kind \in {"insert", "delete"} : Update(p, kind) \in P
  BY DEF TypeOK, Update, Subject
<1>2. \A u \in P : Applied(store, u) \subseteq Freezers \X {1, 2}
  BY DEF TypeOK, Applied
<1>3. store' \subseteq Freezers \X {1, 2} /\ pending' \subseteq P
  BY <1>1, <1>2 DEF TypeOK, Canary, WorkerSends, WorkerAsks, WorkerCleansUp, WorkerProves,
     Answered, Lost, network
<1>4. worker' \in [Freezers -> W]
  BY DEF TypeOK, Canary, WorkerSends, WorkerAsks, WorkerCleansUp, WorkerProves, WorkerAt, Reported
<1>5. outputLock' \in Freezers \cup {NoOne} /\ storeLock' \in Freezers \cup {NoOne}
  BY DEF TypeOK, Canary, WorkerSends, WorkerAsks, WorkerCleansUp, WorkerProves, LocksOutlive,
     Dropped, locks
<1> QED BY <1>3, <1>4, <1>5 DEF TypeOK, Canary, name

LEMMA TypeStep == TypeOK /\ [Next]_vars => TypeOK'
<1> SUFFICES ASSUME TypeOK, [Next]_vars PROVE TypeOK'
  OBVIOUS
<1> USE DEF Absent
<1>1. CASE IdentityMoves
  BY <1>1 DEF TypeOK, IdentityMoves, network, name, locks
<1>2. CASE StoreApplies \/ StoreDrops
  <2>1. store' \subseteq Freezers \X {1, 2} /\ pending' \subseteq pending
    BY <1>2 DEF TypeOK, StoreApplies, StoreDrops, Applied
  <2> QED BY <1>2, <2>1, ZenonT(60) DEF TypeOK, StoreApplies, StoreDrops, name, locks
<1>3. ASSUME NEW p \in Freezers, Capture(p) PROVE TypeOK'
  BY <1>3 DEF TypeOK, Capture, Captured, At, network, name, locks
<1>4. ASSUME NEW p \in Freezers, Sentinels(p) PROVE TypeOK'
  <2>1. CASE Raise(p)
    BY <1>4, <2>1, TypeRaise DEF TypeOK, Sentinels, network
  <2> QED BY <1>4, <2>1 DEF TypeOK, Sentinels, At, network, name, locks
<1>5. ASSUME NEW p \in Freezers, LockStore(p) PROVE TypeOK'
  <2>1. CASE Raise(p) /\ UNCHANGED worker
    BY <1>5, <2>1, TypeRaise DEF TypeOK, LockStore, network
  <2> QED BY <1>5, <2>1 DEF TypeOK, LockStore, WorkerAt, network, name
<1>6. ASSUME NEW p \in Freezers, Canary(p) PROVE TypeOK'
  BY <1>6, TypeCanary
<1>7. ASSUME NEW p \in Freezers, CanarySucceeded(p) PROVE TypeOK'
  BY <1>7 DEF TypeOK, CanarySucceeded, At, WorkerAt, network, name
<1>8. ASSUME NEW p \in Freezers, CanaryFailed(p) PROVE TypeOK'
  <2> DEFINE P == [kind : {"insert", "delete"}, subject : Freezers \X {1, 2}]
  <2>1. \A kind \in {"insert", "delete"} : Update(p, kind) \in P
    BY DEF TypeOK, Update, Subject
  <2>2. \A u \in InRequest(p) : u \subseteq P
    BY <2>1 DEF InRequest
  <2>3. store' \subseteq Freezers \X {1, 2}
    BY <1>8, <2>1 DEF TypeOK, CanaryFailed, Applied
  <2>4. pending' \subseteq P
    BY <1>8, <2>1, <2>2 DEF TypeOK, CanaryFailed
  <2>5. Raise(p) /\ WorkerAt(p, "none")
    BY <1>8 DEF CanaryFailed
  <2> QED BY <2>3, <2>4, <2>5, TypeRaise, ZenonT(60) DEF TypeOK, WorkerAt
<1>9. ASSUME NEW p \in Freezers, Check(p) PROVE TypeOK'
  <2>1. CASE Raise(p)
    BY <1>9, <2>1, TypeRaise DEF TypeOK, Check, network
  <2>2. CASE IdentityHolds(p)
    <3>1. confirmed' \subseteq Nat
      BY <1>9, <2>2 DEF TypeOK, Check
    <3>2. pc' \in [Freezers -> {"start", "sentinels", "canary", "check", "write", "link",
                                "validated", "unlinked", "done", "raised", "killed"}]
      BY <1>9, <2>2 DEF TypeOK, Check, At
    <3> QED BY <1>9, <2>2, <3>1, <3>2 DEF TypeOK, Check, network, name, locks
  <2> QED BY <1>9, <2>1, <2>2 DEF Check
<1>10. ASSUME NEW p \in Freezers, WriteTemporary(p) PROVE TypeOK'
  BY <1>10 DEF TypeOK, WriteTemporary, At, network
<1>11. ASSUME NEW p \in Freezers, Link(p) PROVE TypeOK'
  <2>1. CASE Raise(p)
    BY <1>11, <2>1, TypeRaise, ZenonT(60) DEF TypeOK, Link, network
  <2>2. CASE ~Raise(p)
    <3>1. target' \in Nat /\ temp' \in [Freezers -> {"none", "file", "linked"}]
      BY <1>11, <2>2 DEF TypeOK, Link, name
    <3>2. /\ pc' \in [Freezers -> {"start", "sentinels", "canary", "check", "write", "link",
                                    "validated", "unlinked", "done", "raised", "killed"}]
          /\ round' \in [Freezers -> {1, 2}]
      BY <1>11, <2>2 DEF TypeOK, Link, At
    <3> QED BY <1>11, <2>2, <3>1, <3>2, ZenonT(60) DEF TypeOK, Link, network, locks
  <2> QED BY <2>1, <2>2
<1>12. ASSUME NEW p \in Freezers, Unlink(p) PROVE TypeOK'
  BY <1>12 DEF TypeOK, Unlink, At, network, locks
<1>13. ASSUME NEW p \in Freezers, Commit(p) PROVE TypeOK'
  BY <1>13 DEF TypeOK, Commit, Ends, At, Dropped, network, name
<1>14. ASSUME NEW p \in Freezers, Adopt(p) PROVE TypeOK'
  <2>1. CASE Raise(p)
    BY <1>14, <2>1, TypeRaise DEF TypeOK, Adopt, network
  <2> QED BY <1>14, <2>1 DEF TypeOK, Adopt, Ends, At, Dropped, network
<1>15. ASSUME NEW p \in Freezers, Fails(p) PROVE TypeOK'
  <2>1. worker' \in [Freezers -> {"none", "insert", "see", "delete", "unsee", "cleanup", "proved",
                                 "failed"}]
    BY <1>15 DEF TypeOK, Fails, WorkerAt
  <2> QED BY <1>15, <2>1, TypeRaise, ZenonT(60) DEF TypeOK, Fails, network
<1>18. ASSUME NEW p \in Freezers, Interrupt(p) PROVE TypeOK'
  BY <1>18, TypeRaise, ZenonT(60) DEF TypeOK, Interrupt, network
<1>16. ASSUME NEW p \in Freezers, Kill(p) PROVE TypeOK'
  <2>1. /\ pc' = [pc EXCEPT ![p] = "killed"]
        /\ \E w \in {worker[p], "none"} : worker' = [worker EXCEPT ![p] = w]
        /\ UNCHANGED <<identity, store, pending, target, temp, round, document, confirmed>>
        /\ outputLock' \in {outputLock, NoOne} /\ storeLock' \in {storeLock, NoOne}
    BY <1>16 DEF Kill, KilledLocks, At, WorkerAt, Dropped, network, name, locks
  <2> QED BY <2>1 DEF TypeOK
<1>17. CASE UNCHANGED vars
  BY <1>17 DEF TypeOK, vars
<1> QED
  BY <1>1, <1>2, <1>3, <1>4, <1>5, <1>6, <1>7, <1>8, <1>9, <1>10, <1>11, <1>12, <1>13, <1>14,
     <1>15, <1>16, <1>17, <1>18 DEF Next, Step

\* Every variable keeps its type.
THEOREM FreezeTypeCorrect == Spec => []TypeOK
BY TypeInit, TypeStep, PTL DEF Spec
-----------------------------------------------------------------------------
(* The store's lock                                                         *)

\* A canary process that writes, and a freezer that has not yet collected its own, hold
\* the store's lock, unless the freezer was interrupted under it.
StoreInv ==
  \A p \in Freezers :
    /\ worker[p] # "none" => pc[p] \in {"canary", "raised", "killed"}
    /\ Running(p) => Unguarded(p) \/ storeLock = p
    /\ pc[p] = "canary" /\ worker[p] # "none" => storeLock = p

LEMMA StoreRaise ==
    ASSUME TypeOK, StoreInv, NEW p \in Freezers, Raise(p), worker' = worker
           \/ worker' = [worker EXCEPT ![p] = "none"]
    PROVE  StoreInv'
<1>1. pc' = [pc EXCEPT ![p] = "raised"] /\ storeLock' = Dropped(storeLock, p)
  BY DEF Raise, Ends, At
<1>2. ASSUME NEW q \in Freezers
      PROVE  /\ worker'[q] # "none" => pc'[q] \in {"canary", "raised", "killed"}
             /\ Running(q)' => Unguarded(q)' \/ storeLock' = q
             /\ pc'[q] = "canary" /\ worker'[q] # "none" => storeLock' = q
  <2>1. CASE q = p
    BY <1>1, <2>1 DEF TypeOK, Unguarded
  <2>2. CASE q # p
    BY <1>1, <2>2 DEF TypeOK, StoreInv, Running, Unguarded, Dropped
  <2> QED BY <2>1, <2>2
<1> QED BY <1>2 DEF StoreInv

LEMMA StoreCanary ==
    ASSUME TypeOK, StoreInv, NEW p \in Freezers, Canary(p)
    PROVE  StoreInv'
<1>1. pc' = pc /\ Running(p)
  BY DEF Canary, WorkerSends, WorkerAsks, WorkerCleansUp, WorkerProves, Running
<1>2. \A q \in Freezers : q # p => worker'[q] = worker[q]
  BY <1>1 DEF TypeOK, Canary, WorkerSends, WorkerAsks, WorkerCleansUp, WorkerProves,
     WorkerAt
<1>3. worker[p] # "none"
  BY <1>1 DEF Running
<1>4. (Alive(p) \/ Running(p)') => storeLock' = storeLock
  BY DEF TypeOK, Canary, WorkerSends, WorkerAsks, WorkerCleansUp, WorkerProves, WorkerAt,
     LocksOutlive, Reported, Alive, locks, Running
<1>5. pc[p] = "canary" => Alive(p)
  BY DEF Alive
<1>7. \A q \in Freezers : q # p /\ storeLock = q => storeLock' = q
  BY DEF Canary, WorkerSends, WorkerAsks, WorkerCleansUp, WorkerProves, LocksOutlive, Dropped, locks
<1>6. ASSUME NEW q \in Freezers
      PROVE  /\ worker'[q] # "none" => pc'[q] \in {"canary", "raised", "killed"}
             /\ Running(q)' => Unguarded(q)' \/ storeLock' = q
             /\ pc'[q] = "canary" /\ worker'[q] # "none" => storeLock' = q
  <2>1. CASE q = p
    BY <1>1, <1>3, <1>4, <1>5, <2>1 DEF StoreInv, Running, Unguarded
  <2>2. CASE q # p
    BY <1>1, <1>2, <1>7, <2>2 DEF StoreInv, Running, Unguarded
  <2> QED BY <2>1, <2>2
<1> QED BY <1>6 DEF StoreInv

LEMMA StoreStep == TypeOK /\ StoreInv /\ [Next]_vars => StoreInv'
<1> SUFFICES ASSUME TypeOK, StoreInv, [Next]_vars PROVE StoreInv'
  OBVIOUS
<1>1. CASE IdentityMoves \/ StoreApplies \/ StoreDrops \/ UNCHANGED vars
  BY <1>1 DEF StoreInv, IdentityMoves, StoreApplies, StoreDrops, Running, Unguarded, locks, vars
<1>2. ASSUME NEW p \in Freezers, Capture(p) \/ WriteTemporary(p) \/ Unlink(p) PROVE StoreInv'
  BY <1>2 DEF TypeOK, StoreInv, Capture, Captured, WriteTemporary, Unlink, At, Running, Unguarded, locks
<1>3. ASSUME NEW p \in Freezers, pc[p] \notin {"canary", "raised", "killed"}, Raise(p),
             UNCHANGED worker
      PROVE  StoreInv'
  BY <1>3, StoreRaise DEF StoreInv, Running, Unguarded
<1>4. ASSUME NEW p \in Freezers, Sentinels(p) PROVE StoreInv'
  <2>1. CASE Raise(p)
    BY <1>3, <1>4, <2>1 DEF Sentinels
  <2> QED BY <1>4, <2>1 DEF TypeOK, StoreInv, Sentinels, At, Running, Unguarded, locks
<1>5. ASSUME NEW p \in Freezers, LockStore(p) PROVE StoreInv'
  <2>1. CASE Raise(p) /\ UNCHANGED worker
    BY <1>5, <2>1, StoreRaise DEF LockStore, Running, Unguarded
  <2>2. CASE storeLock = NoOne /\ storeLock' = p /\ WorkerAt(p, "insert") /\ UNCHANGED pc
    BY <1>5, <2>2, FreezeAssumption DEF TypeOK, StoreInv, LockStore, WorkerAt, Running, Unguarded
  <2> QED BY <1>5, <2>1, <2>2 DEF LockStore
<1>6. ASSUME NEW p \in Freezers, Canary(p) PROVE StoreInv'
  BY <1>6, StoreCanary
<1>7. ASSUME NEW p \in Freezers, CanarySucceeded(p) PROVE StoreInv'
  BY <1>7, FreezeAssumption DEF TypeOK, StoreInv, CanarySucceeded, At, WorkerAt, Running, Unguarded
<1>8. ASSUME NEW p \in Freezers, CanaryFailed(p) PROVE StoreInv'
  BY <1>8, StoreRaise DEF TypeOK, CanaryFailed, WorkerAt, Running, Unguarded
<1>9. ASSUME NEW p \in Freezers, Check(p) PROVE StoreInv'
  <2>1. CASE Raise(p)
    BY <1>3, <1>9, <2>1 DEF Check
  <2> QED BY <1>9, <2>1 DEF TypeOK, StoreInv, Check, At, Running, Unguarded, locks
<1>10. ASSUME NEW p \in Freezers, Link(p) PROVE StoreInv'
  <2>1. CASE Raise(p)
    BY <1>3, <1>10, <2>1 DEF Link
  <2> QED BY <1>10, <2>1 DEF TypeOK, StoreInv, Link, At, Running, Unguarded, locks
<1>11. ASSUME NEW p \in Freezers, Commit(p) PROVE StoreInv'
  BY <1>11 DEF TypeOK, StoreInv, Commit, Ends, At, Dropped, Running, Unguarded
<1>12. ASSUME NEW p \in Freezers, Adopt(p) PROVE StoreInv'
  <2>1. CASE Raise(p)
    BY <1>3, <1>12, <2>1 DEF Adopt
  <2> QED BY <1>12, <2>1 DEF TypeOK, StoreInv, Adopt, Ends, At, Dropped, Running, Unguarded
<1>13. ASSUME NEW p \in Freezers, Fails(p) \/ Interrupt(p) PROVE StoreInv'
  BY <1>13, StoreRaise DEF Fails, Interrupt, WorkerAt
<1>14. ASSUME NEW p \in Freezers, Kill(p) PROVE StoreInv'
  <2>1. /\ pc' = [pc EXCEPT ![p] = "killed"]
        /\ worker' = [worker EXCEPT ![p] = IF Running(p) THEN worker[p] ELSE "none"]
        /\ storeLock' = IF Running(p) THEN storeLock ELSE Dropped(storeLock, p)
    BY <1>14 DEF Kill, KilledLocks, At, WorkerAt, locks
  <2>2. pc[p] # "raised"
    BY <1>14 DEF Kill, Alive
  <2> QED BY <2>1, <2>2 DEF TypeOK, StoreInv, Running, Unguarded, Dropped
<1> QED
  BY <1>1, <1>2, <1>4, <1>5, <1>6, <1>7, <1>8, <1>9, <1>10, <1>11, <1>12, <1>13, <1>14
     DEF Next, Step

LEMMA StoreInit == Init => StoreInv
BY DEF Init, StoreInv, Running, Unguarded

\* Two canary processes write to the store together only if the freezer of one was
\* interrupted while it waited; killed freezers' processes take turns with the others.
THEOREM CanariesTakeTurns == Spec => []OneCanaryAtATime
<1>1. StoreInv => OneCanaryAtATime
  BY DEF StoreInv, OneCanaryAtATime
<1> QED BY <1>1, TypeInit, TypeStep, StoreInit, StoreStep, PTL DEF Spec
-----------------------------------------------------------------------------
(* The published name                                                       *)

\* Where a freezer is says whether it has the output directory, whether its temporary
\* name exists and whether its document was validated.
Progress(p) ==
  /\ pc[p] # "start" => document[p] # Absent
  /\ Alive(p) /\ (pc[p] = "link" \/ round[p] = 2) => outputLock = p
  /\ Alive(p) /\ pc[p] # "link" /\ round[p] = 1 => temp[p] = "none"
  /\ pc[p] \in {"start", "write", "link"} => round[p] = 1
  /\ pc[p] \in {"validated", "unlinked"} => round[p] = 2 /\ document[p] \in confirmed
  /\ pc[p] \in {"link", "unlinked"} => temp[p] # "linked"

OutputInv == \A p \in Freezers : Progress(p)

\* The published name is the link of at most one freezer that may withdraw it, and of
\* none once a freezer succeeded.
CreatedInv ==
  /\ \A p \in Freezers : Created(p) => target = document[p] /\ target # Absent
  /\ \A p, q \in Freezers : Created(p) /\ Created(q) => p = q
  /\ \A p, q \in Freezers : pc[p] = "done" => pc[q] # "unlinked"

PublishInv == OutputInv /\ CreatedInv /\ LoadableIsValidated /\ FreezersAgree

LEMMA PublishInit == Init => PublishInv
BY DEF Init, PublishInv, OutputInv, Progress, CreatedInv, Created, LoadableIsValidated, Loadable,
       FreezersAgree, Alive

\* A step that leaves the names alone and ends no publication.
LEMMA PublishQuiet ==
    ASSUME TypeOK, PublishInv, OutputInv', UNCHANGED <<target, temp, document>>,
           confirmed \subseteq confirmed',
           \A p \in Freezers : pc'[p] \in {"unlinked", "done"} => pc'[p] = pc[p]
    PROVE  PublishInv'
<1>1. \A p \in Freezers : Created(p)' => Created(p)
  BY DEF Created
<1>2. CreatedInv'
  BY <1>1 DEF PublishInv, CreatedInv
<1>3. LoadableIsValidated' /\ FreezersAgree'
  BY DEF PublishInv, LoadableIsValidated, FreezersAgree, Loadable, SingleLink
<1> QED BY <1>2, <1>3 DEF PublishInv

LEMMA PublishRaise ==
    ASSUME TypeOK, PublishInv, NEW p \in Freezers, Alive(p), pc[p] # "start", Raise(p)
    PROVE  PublishInv'
<1>1. /\ pc' = [pc EXCEPT ![p] = "raised"] /\ outputLock' = Dropped(outputLock, p)
      /\ UNCHANGED <<round, document, confirmed>>
  BY DEF Raise, Ends, At
<1>2. /\ \A q \in Freezers : q # p => temp'[q] = temp[q] /\ pc'[q] = pc[q]
      /\ temp'[p] # "linked" \/ (temp'[p] = temp[p] /\ target' = target)
      /\ target' = target \/ (Created(p) /\ target' = Absent)
      /\ temp[p] # "linked" \/ temp'[p] = "linked" \/ target' = Absent
  BY <1>1 DEF TypeOK, Raise, RollsBack, Discarded
<1>3. OutputInv'
  <2>1. ASSUME NEW q \in Freezers PROVE Progress(q)'
    <3>1. CASE q = p
      BY <1>1, <3>1 DEF TypeOK, PublishInv, OutputInv, Progress, Alive
    <3>2. CASE q # p
      BY <1>1, <1>2, <3>2 DEF TypeOK, PublishInv, OutputInv, Progress, Alive, Dropped
    <3> QED BY <3>1, <3>2
  <2> QED BY <2>1 DEF OutputInv
<1>4. \A q \in Freezers : Created(q)' => Created(q) /\ target' = target
  <2>1. ~Created(p)' \/ (Created(p) /\ target' = target)
    BY <1>1, <1>2 DEF TypeOK, Created
  <2>2. \A q \in Freezers : q # p /\ Created(q)' => Created(q)
    BY <1>2 DEF Created
  <2>3. \A q \in Freezers : q # p /\ Created(q) => ~Created(p)
    BY DEF PublishInv, CreatedInv
  <2> QED BY <1>2, <2>1, <2>2, <2>3
<1>5. CreatedInv'
  BY <1>1, <1>4 DEF TypeOK, PublishInv, CreatedInv
<1>6. Loadable' => Loadable /\ target' = target
  BY <1>2 DEF Loadable, SingleLink
<1>7. \A q \in Freezers : pc[q] = "done" => Loadable' /\ target' = target
  <2>1. \A q \in Freezers : pc[q] = "done" => ~Created(p)
    BY DEF PublishInv, CreatedInv, FreezersAgree, Loadable, SingleLink, Created
  <2> QED BY <1>2, <2>1 DEF PublishInv, FreezersAgree, Loadable, SingleLink, Created
<1>8. LoadableIsValidated' /\ FreezersAgree'
  BY <1>1, <1>6, <1>7 DEF TypeOK, PublishInv, LoadableIsValidated, FreezersAgree
<1> QED BY <1>3, <1>5, <1>8 DEF PublishInv

\* The lock of the output directory: a step of one freezer keeps the progress of all.
LEMMA OutputStep ==
    ASSUME TypeOK, OutputInv, NEW p \in Freezers, Progress(p)', confirmed \subseteq confirmed',
           \A q \in Freezers : q # p =>
             /\ pc'[q] = pc[q] /\ round'[q] = round[q]
             /\ document'[q] = document[q] /\ temp'[q] = temp[q]
             /\ outputLock = q => outputLock' = q
    PROVE  OutputInv'
<1>1. ASSUME NEW q \in Freezers, q # p PROVE Progress(q)'
  <2>1. Progress(q)
    BY DEF OutputInv
  <2>2. /\ pc'[q] = pc[q] /\ round'[q] = round[q] /\ document'[q] = document[q]
        /\ temp'[q] = temp[q]
    BY <1>1
  <2>3. outputLock = q => outputLock' = q
    BY <1>1
  <2> QED BY <2>1, <2>2, <2>3 DEF Progress, Alive
<1>2. \A q \in Freezers : Progress(q)'
  BY <1>1
<1> QED BY <1>2 DEF OutputInv

\* The steps before a name is made, and the canary's.
LEMMA PublishProbe ==
    ASSUME TypeOK, PublishInv, NEW p \in Freezers,
           \/ Capture(p) \/ Canary(p) \/ CanarySucceeded(p) \/ Kill(p)
           \/ (Sentinels(p) /\ ~Raise(p)) \/ (LockStore(p) /\ ~Raise(p))
    PROVE  PublishInv'
<1> USE DEF PublishInv
<1>1. CASE Capture(p)
  <2>1. document'[p] # Absent
    BY <1>1 DEF TypeOK, Capture, Captured, Absent
  <2>2. Progress(p)'
    BY <1>1, <2>1 DEF TypeOK, OutputInv, Progress, Capture, Captured, At, Alive, name, locks
  <2>3. OutputInv'
    BY <1>1, <2>2, OutputStep DEF TypeOK, Capture, Captured, At, name, locks
  <2>4. Created(p)' => Created(p)
    BY <1>1 DEF TypeOK, Capture, Captured, At, Created, name
  <2>5. ~Created(p) /\ pc[p] # "done"
    BY <1>1 DEF Capture, Captured, OutputInv, Progress, Created, Alive
  <2>6. CreatedInv'
    BY <1>1, <2>4, <2>5 DEF TypeOK, CreatedInv, Capture, Captured, At, Created, name
  <2> QED BY <1>1, <2>3, <2>6, <2>5
        DEF TypeOK, Capture, Captured, At, LoadableIsValidated, FreezersAgree, Loadable, SingleLink, name
<1>2. CASE Canary(p)
  <2>1. \A q \in Freezers : Alive(q) /\ outputLock = q => outputLock' = q
    BY <1>2 DEF Canary, WorkerSends, WorkerAsks, WorkerCleansUp, WorkerProves, LocksOutlive,
       Dropped, locks
  <2>2. OutputInv'
    BY <1>2, <2>1 DEF Canary, OutputInv, Progress, Alive, name
  <2> QED BY <1>2, <2>2, PublishQuiet DEF Canary, name
<1>3. CASE CanarySucceeded(p)
  <2>1. Progress(p)'
    BY <1>3 DEF TypeOK, OutputInv, Progress, CanarySucceeded, At, Alive, name
  <2>2. OutputInv'
    BY <1>3, <2>1, OutputStep DEF TypeOK, CanarySucceeded, At, name
  <2> QED BY <1>3, <2>2, PublishQuiet DEF TypeOK, CanarySucceeded, At, name
<1>4. CASE Kill(p)
  <2>1. Progress(p)'
    BY <1>4 DEF TypeOK, OutputInv, Progress, Kill, At, Alive, name
  <2>2. OutputInv'
    BY <1>4, <2>1, OutputStep DEF TypeOK, Kill, KilledLocks, Dropped, At, name, locks
  <2> QED BY <1>4, <2>2, PublishQuiet DEF TypeOK, Kill, At, name
<1>5. CASE Sentinels(p) /\ ~Raise(p)
  <2>1. Progress(p)'
    BY <1>5 DEF TypeOK, OutputInv, Progress, Sentinels, At, Alive, name, locks
  <2>2. OutputInv'
    BY <1>5, <2>1, OutputStep DEF TypeOK, Sentinels, At, name, locks
  <2> QED BY <1>5, <2>2, PublishQuiet DEF TypeOK, Sentinels, At, name
<1>6. CASE LockStore(p) /\ ~Raise(p)
  <2>1. OutputInv'
    BY <1>6 DEF OutputInv, Progress, LockStore, Alive, name
  <2> QED BY <1>6, <2>1, PublishQuiet DEF LockStore, name
<1> QED BY <1>1, <1>2, <1>3, <1>4, <1>5, <1>6

\* The check: an identity is confirmed only in the staged validation.
LEMMA PublishCheck ==
    ASSUME TypeOK, PublishInv, NEW p \in Freezers, Check(p), IdentityHolds(p)
    PROVE  PublishInv'
<1>1. document[p] = identity /\ document[p] # Absent /\ Alive(p)
  BY DEF TypeOK, Check, IdentityHolds, PublishInv, OutputInv, Progress, Alive
<1>2. /\ pc' = [pc EXCEPT ![p] = IF round[p] = 1 THEN "write" ELSE "validated"]
      /\ confirmed' = IF round[p] = 2 THEN confirmed \cup {identity} ELSE confirmed
      /\ UNCHANGED <<name, locks, round, document>>
  BY DEF Check, At
<1>3. Progress(p)'
  BY <1>1, <1>2 DEF TypeOK, PublishInv, OutputInv, Progress, Check, Alive, name, locks
<1>4. OutputInv'
  BY <1>2, <1>3, OutputStep DEF TypeOK, PublishInv, name, locks
<1> QED BY <1>2, <1>4, PublishQuiet DEF TypeOK, name

LEMMA PublishLink ==
    ASSUME TypeOK, PublishInv, NEW p \in Freezers, WriteTemporary(p) \/ (Link(p) /\ ~Raise(p))
    PROVE  PublishInv'
<1> USE DEF PublishInv
<1>1. CASE WriteTemporary(p)
  <2>1. Progress(p)'
    BY <1>1 DEF TypeOK, OutputInv, Progress, WriteTemporary, At, Alive
  <2>2. OutputInv'
    BY <1>1, <2>1, OutputStep, FreezeAssumption DEF TypeOK, WriteTemporary, OutputIsFree, At
  <2>3. \A q \in Freezers : Created(q)' <=> Created(q)
    BY <1>1 DEF TypeOK, WriteTemporary, At, Created, OutputInv, Progress, Alive
  <2>4. CreatedInv'
    BY <1>1, <2>3 DEF TypeOK, CreatedInv, WriteTemporary, At
  <2>5. Loadable' <=> Loadable
    BY <1>1 DEF TypeOK, WriteTemporary, Loadable, SingleLink, OutputInv, Progress, Alive
  <2> QED BY <1>1, <2>2, <2>4, <2>5
        DEF TypeOK, WriteTemporary, At, LoadableIsValidated, FreezersAgree
<1>2. CASE Link(p) /\ target = Absent
  <2>1. /\ target' = document[p] /\ temp' = [temp EXCEPT ![p] = "linked"]
        /\ round' = [round EXCEPT ![p] = 2] /\ pc' = [pc EXCEPT ![p] = "sentinels"]
        /\ UNCHANGED <<locks, document, confirmed>> /\ pc[p] = "link"
    BY <1>2 DEF Link, At
  <2>2. Progress(p)'
    BY <2>1 DEF TypeOK, OutputInv, Progress, Alive, locks
  <2>3. OutputInv'
    BY <2>1, <2>2, OutputStep DEF TypeOK, locks
  <2>4. \A q \in Freezers : ~Created(q) /\ pc[q] # "done"
    BY <1>2 DEF CreatedInv, FreezersAgree, Loadable
  <2>5. \A q \in Freezers : Created(q)' => q = p
    BY <2>1, <2>4 DEF TypeOK, Created
  <2>6. target' # Absent
    BY <2>1 DEF OutputInv, Progress
  <2>7. CreatedInv'
    BY <2>1, <2>4, <2>5, <2>6 DEF TypeOK, CreatedInv
  <2>8. ~Loadable'
    BY <2>1 DEF TypeOK, Loadable, SingleLink
  <2>9. \A q \in Freezers : pc'[q] # "done"
    BY <2>1, <2>4 DEF TypeOK
  <2> QED BY <2>3, <2>7, <2>8, <2>9 DEF LoadableIsValidated, FreezersAgree
<1>3. CASE Link(p) /\ target # Absent /\ ~Raise(p)
  <2>1. /\ UNCHANGED name /\ round' = [round EXCEPT ![p] = 2]
        /\ pc' = [pc EXCEPT ![p] = "sentinels"]
        /\ UNCHANGED <<locks, document, confirmed>> /\ pc[p] = "link"
    BY <1>3 DEF Link, At
  <2>2. Progress(p)'
    BY <2>1 DEF TypeOK, OutputInv, Progress, Alive, locks, name
  <2>3. OutputInv'
    BY <2>1, <2>2, OutputStep DEF TypeOK, locks, name
  <2> QED BY <2>1, <2>3, PublishQuiet DEF TypeOK, name
<1> QED BY <1>1, <1>2, <1>3

\* The ends that succeed: the output directory's lock keeps them apart.
LEMMA PublishEnd ==
    ASSUME TypeOK, PublishInv, NEW p \in Freezers,
           Unlink(p) \/ Commit(p) \/ (Adopt(p) /\ ~Raise(p))
    PROVE  PublishInv'
<1> USE DEF PublishInv
<1>1. pc[p] \in {"validated", "unlinked"} /\ round[p] = 2 /\ Alive(p) /\ outputLock = p
  BY DEF Unlink, Commit, Adopt, OutputInv, Progress, Alive
<1>2. \A q \in Freezers : pc[q] = "unlinked" => q = p
  BY <1>1, FreezeAssumption DEF OutputInv, Progress, Alive
<1>3. CASE Unlink(p)
  <2>1. /\ temp' = [temp EXCEPT ![p] = "none"] /\ pc' = [pc EXCEPT ![p] = "unlinked"]
        /\ UNCHANGED <<target, locks, round, document, confirmed>>
        /\ pc[p] = "validated" /\ temp[p] = "linked"
    BY <1>3 DEF Unlink, At
  <2>2. Progress(p)'
    BY <1>1, <2>1 DEF TypeOK, OutputInv, Progress, Alive, locks
  <2>3. OutputInv'
    BY <2>1, <2>2, OutputStep DEF TypeOK, locks
  <2>4. \A q \in Freezers : Created(q)' <=> Created(q)
    BY <2>1 DEF TypeOK, Created
  <2>5. \A q \in Freezers : pc[q] # "done" /\ pc'[q] # "done"
    BY <2>1 DEF TypeOK, FreezersAgree, Loadable, SingleLink
  <2>6. CreatedInv'
    BY <2>1, <2>4, <2>5 DEF CreatedInv
  <2>7. target' \in confirmed'
    BY <2>1 DEF CreatedInv, Created, OutputInv, Progress
  <2> QED BY <2>3, <2>5, <2>6, <2>7 DEF LoadableIsValidated, FreezersAgree
<1>4. CASE Commit(p)
  <2>1. /\ pc[p] = "unlinked" /\ pc' = [pc EXCEPT ![p] = "done"]
        /\ outputLock' = Dropped(outputLock, p) /\ UNCHANGED <<name, round, document, confirmed>>
    BY <1>4 DEF Commit, Ends, At
  <2>2. Progress(p)'
    BY <2>1 DEF TypeOK, OutputInv, Progress, Alive
  <2>3. OutputInv'
    BY <2>1, <2>2, OutputStep DEF TypeOK, Dropped, name
  <2>4. \A q \in Freezers : Created(q)' => Created(q)
    BY <2>1 DEF TypeOK, Created, name
  <2>5. CreatedInv'
    BY <1>2, <2>1, <2>4 DEF TypeOK, CreatedInv, name
  <2>6. Loadable /\ target = document[p]
    <3>1. Created(p) /\ temp[p] # "linked"
      BY <2>1 DEF Created, OutputInv, Progress
    <3>2. \A q \in Freezers : temp[q] # "linked"
      BY <3>1 DEF CreatedInv, Created
    <3> QED BY <3>1, <3>2 DEF CreatedInv, Loadable, SingleLink
  <2>7. Loadable' <=> Loadable
    BY <2>1 DEF Loadable, SingleLink, name
  <2> QED BY <2>1, <2>3, <2>5, <2>6, <2>7 DEF TypeOK, LoadableIsValidated, FreezersAgree, name
<1>5. CASE Adopt(p) /\ ~Raise(p)
  <2>1. /\ Loadable /\ target = document[p] /\ temp[p] = "file"
        /\ \E left \in {"none", "file"} : temp' = [temp EXCEPT ![p] = left]
        /\ pc' = [pc EXCEPT ![p] = "done"] /\ outputLock' = Dropped(outputLock, p)
        /\ UNCHANGED <<target, round, document, confirmed>> /\ pc[p] = "validated"
    BY <1>5 DEF Adopt, MatchesTarget, Ends, At
  <2>2. Progress(p)'
    BY <2>1 DEF TypeOK, OutputInv, Progress, Alive
  <2>3. OutputInv'
    BY <2>1, <2>2, OutputStep DEF TypeOK, Dropped
  <2>4. \A q \in Freezers : ~Created(q)'
    BY <1>2, <2>1 DEF TypeOK, Created, Loadable, SingleLink
  <2>5. \A q \in Freezers : pc'[q] # "unlinked"
    BY <1>2, <2>1 DEF TypeOK
  <2>6. CreatedInv'
    BY <2>4, <2>5 DEF CreatedInv
  <2>7. Loadable'
    BY <2>1 DEF TypeOK, Loadable, SingleLink
  <2> QED BY <2>1, <2>3, <2>6, <2>7 DEF TypeOK, LoadableIsValidated, FreezersAgree
<1> QED BY <1>3, <1>4, <1>5

LEMMA PublishStep == TypeOK /\ PublishInv /\ [Next]_vars => PublishInv'
<1> SUFFICES ASSUME TypeOK, PublishInv, [Next]_vars PROVE PublishInv'
  OBVIOUS
<1>1. CASE IdentityMoves \/ StoreApplies \/ StoreDrops \/ UNCHANGED vars
  <2>1. UNCHANGED <<target, temp, outputLock, pc, round, document, confirmed>>
    BY <1>1 DEF IdentityMoves, StoreApplies, StoreDrops, name, locks, vars
  <2>2. OutputInv'
    BY <2>1 DEF PublishInv, OutputInv, Progress, Alive
  <2> QED BY <2>1, <2>2, PublishQuiet
<1>2. ASSUME NEW p \in Freezers, Step(p), ~Raise(p) PROVE PublishInv'
  <2>1. Check(p) => IdentityHolds(p)
    BY <1>2 DEF Check
  <2>2. ~CanaryFailed(p)
    BY <1>2 DEF CanaryFailed
  <2>3. CASE Capture(p) \/ Canary(p) \/ CanarySucceeded(p) \/ Sentinels(p) \/ LockStore(p)
    BY <1>2, <2>3, PublishProbe
  <2>4. CASE Check(p)
    BY <2>1, <2>4, PublishCheck
  <2>5. CASE WriteTemporary(p) \/ Link(p)
    BY <1>2, <2>5, PublishLink
  <2>6. CASE Unlink(p) \/ Commit(p) \/ Adopt(p)
    BY <1>2, <2>6, PublishEnd
  <2> QED BY <1>2, <2>2, <2>3, <2>4, <2>5, <2>6 DEF Step
<1>3. ASSUME NEW p \in Freezers, Step(p), Raise(p) PROVE PublishInv'
  <2>1. CASE Capture(p) \/ Canary(p) \/ CanarySucceeded(p)
    BY <2>1, PublishProbe
  <2>2. CASE WriteTemporary(p) \/ Unlink(p) \/ Commit(p)
    BY <2>2, PublishLink, PublishEnd
  <2>3. CASE \/ Sentinels(p) \/ LockStore(p) \/ CanaryFailed(p) \/ Check(p) \/ Link(p)
             \/ Adopt(p)
    BY <1>3, <2>3, PublishRaise DEF Sentinels, LockStore, CanaryFailed, Check, Link, Adopt, Alive
  <2> QED BY <1>3, <2>1, <2>2, <2>3 DEF Step
<1>4. ASSUME NEW p \in Freezers, Fails(p) \/ Interrupt(p) \/ Kill(p) PROVE PublishInv'
  BY <1>4, PublishRaise, PublishProbe DEF Fails, Interrupt, Alive
<1> QED BY <1>1, <1>2, <1>3, <1>4 DEF Next

\* What a loader accepts was validated after it existed under its name, whoever was
\* killed, failed, or could not remove a name.
THEOREM LoadableWasValidated == Spec => []LoadableIsValidated
BY PublishInit, PublishStep, TypeInit, TypeStep, PTL DEF Spec, PublishInv

\* All freezers that succeed, succeed with the published document, for good.
THEOREM SuccessIsShared == Spec => []FreezersAgree
BY PublishInit, PublishStep, TypeInit, TypeStep, PTL DEF Spec, PublishInv
-----------------------------------------------------------------------------
(* The canary's owner                                                       *)

Insert(p, r) == [kind |-> "insert", subject |-> <<p, r>>]

\* The canary of a freezer's round is in the store or may still get there.
Lingers(p, r) == <<p, r>> \in store \/ Insert(p, r) \in pending

\* A canary lingers only while its freezer is at it, or when the freezer ended badly;
\* an insert is on its way only under a worker that goes on to clean up; and before its
\* insert, and when it has proved its case, a worker's canary is not in the store.
CanaryAt(p) ==
  /\ \A r \in {1, 2} : Lingers(p, r) =>
       pc[p] \in {"raised", "killed"} \/ (pc[p] = "canary" /\ round[p] = r)
  /\ pc[p] = "canary" /\ worker[p] \notin {"cleanup", "failed"} =>
       Insert(p, round[p]) \notin pending
  /\ pc[p] = "canary" /\ worker[p] \in {"none", "insert", "proved"} =>
       <<p, round[p]>> \notin store

CanaryInv == \A p \in Freezers : CanaryAt(p)

\* The step adds no canary of p and sends no insert of one.
AddsNone(p) ==
  \A r \in {1, 2} : /\ Lingers(p, r)' => Lingers(p, r)
                    /\ Insert(p, r) \in pending' => Insert(p, r) \in pending

Resting(p) == pc'[p] = pc[p] /\ round'[p] = round[p] /\ worker'[p] = worker[p]

LEMMA CanaryRests ==
    ASSUME TypeOK, CanaryInv, NEW p \in Freezers, Resting(p), AddsNone(p)
    PROVE  CanaryAt(p)'
<1>1. round[p] \in {1, 2} /\ CanaryAt(p)
  BY DEF TypeOK, CanaryInv
<1>2. \A r \in {1, 2} : Lingers(p, r)' =>
        pc'[p] \in {"raised", "killed"} \/ (pc'[p] = "canary" /\ round'[p] = r)
  BY <1>1 DEF CanaryAt, AddsNone, Resting
<1>3. pc'[p] = "canary" /\ worker'[p] \notin {"cleanup", "failed"} =>
        Insert(p, round[p]) \notin pending'
  BY <1>1 DEF CanaryAt, AddsNone, Resting
<1>4. pc'[p] = "canary" /\ worker'[p] \in {"none", "insert", "proved"} =>
        <<p, round[p]>> \notin store'
  <2>1. SUFFICES ASSUME pc[p] = "canary", worker[p] \in {"none", "insert", "proved"}
                 PROVE  <<p, round[p]>> \notin store'
    BY DEF Resting
  <2>2. ~Lingers(p, round[p])
    BY <1>1, <2>1 DEF CanaryAt, Lingers
  <2> QED BY <1>1, <2>2 DEF AddsNone, Lingers
<1> QED BY <1>2, <1>3, <1>4 DEF CanaryAt, Resting, Insert

\* A freezer that leaves off, ends, or starts over without a canary of its own.
LEMMA CanaryTurns ==
    ASSUME TypeOK, CanaryInv, NEW p \in Freezers, AddsNone(p), round'[p] \in {1, 2},
           \/ pc'[p] \in {"raised", "killed"}
           \/ \A r \in {1, 2} : ~Lingers(p, r)
    PROVE  CanaryAt(p)'
<1>1. CASE pc'[p] \in {"raised", "killed"}
  BY <1>1 DEF CanaryAt, Lingers, Insert
<1>2. CASE \A r \in {1, 2} : ~Lingers(p, r)
  <2>1. \A r \in {1, 2} : ~Lingers(p, r)'
    BY <1>2 DEF AddsNone
  <2> QED BY <2>1 DEF CanaryAt, Lingers, Insert
<1> QED BY <1>1, <1>2

LEMMA CanaryInit == Init => CanaryInv
BY DEF Init, CanaryInv, CanaryAt, Lingers

\* Nothing is sent.
LEMMA CanaryQuiet ==
    ASSUME TypeOK, CanaryInv, TypeOK', NEW p \in Freezers, UNCHANGED network,
           \A q \in Freezers : q # p => Resting(q),
           \/ pc'[p] \in {"raised", "killed"}
           \/ pc[p] \notin {"canary", "raised", "killed"}
    PROVE  CanaryInv'
<1>1. \A q \in Freezers : AddsNone(q)
  BY DEF AddsNone, Lingers, network, Insert
<1>2. \A q \in Freezers : q # p => CanaryAt(q)'
  BY <1>1, CanaryRests
<1>3. round'[p] \in {1, 2}
  BY DEF TypeOK
<1>4. pc[p] \notin {"canary", "raised", "killed"} => \A r \in {1, 2} : ~Lingers(p, r)
  BY DEF CanaryInv, CanaryAt
<1>5. CanaryAt(p)'
  BY <1>1, <1>3, <1>4, CanaryTurns
<1> QED BY <1>2, <1>5 DEF CanaryInv

\* A step of p's canary process or of p's last DELETE touches p's own canary alone.
OthersKept(p) ==
  \A q \in Freezers, r \in {1, 2} : q # p =>
    /\ <<q, r>> \in store' => <<q, r>> \in store
    /\ Insert(q, r) \in pending' => Insert(q, r) \in pending

LEMMA CanaryOwn ==
    ASSUME TypeOK, CanaryInv, NEW p \in Freezers, OthersKept(p),
           \A q \in Freezers : q # p => Resting(q),
           CanaryAt(p)'
    PROVE  CanaryInv'
<1>1. \A q \in Freezers : q # p => AddsNone(q)
  BY DEF OthersKept, AddsNone, Lingers, Insert
<1>2. \A q \in Freezers : q # p => CanaryAt(q)'
  BY <1>1, CanaryRests
<1> QED BY <1>2 DEF CanaryInv

\* A canary process, step by step.
LEMMA CanaryWorks ==
    ASSUME TypeOK, StoreInv, CanaryInv, NEW p \in Freezers, Canary(p)
    PROVE  CanaryInv'
<1> DEFINE r == round[p]
<1>1. UNCHANGED <<pc, round>> /\ worker[p] # "none" /\ r \in {1, 2}
      /\ Subject(p) = <<p, r>> /\ Update(p, "insert") = Insert(p, r)
      /\ Update(p, "delete") = [kind |-> "delete", subject |-> <<p, r>>]
  BY DEF TypeOK, Canary, WorkerSends, WorkerAsks, WorkerCleansUp, WorkerProves, Subject, Update,
     Insert
<1>2. worker' = [worker EXCEPT ![p] = worker'[p]]
  BY DEF TypeOK, Canary, WorkerSends, WorkerAsks, WorkerCleansUp, WorkerProves, WorkerAt
<1>3. \A q \in Freezers : q # p => Resting(q)
  BY <1>1, <1>2 DEF TypeOK, Resting
<1>4. store' \in {store, store \cup {<<p, r>>}, store \ {<<p, r>>}}
      /\ pending' \subseteq pending \cup {Insert(p, r), Update(p, "delete")}
  BY <1>1 DEF Canary, WorkerSends, WorkerAsks, WorkerCleansUp, WorkerProves, Answered, Lost,
     Applied, Update, network
<1>5. OthersKept(p)
  BY <1>1, <1>4 DEF OthersKept, Insert
<1>6. pc[p] \in {"canary", "raised", "killed"}
  BY <1>1 DEF StoreInv
<1>7. CASE pc[p] \in {"raised", "killed"}
  <2>1. CanaryAt(p)'
    BY <1>1, <1>7 DEF CanaryAt, Lingers, Insert
  <2> QED BY <1>3, <1>5, <2>1, CanaryOwn
<1>8. CASE pc[p] = "canary"
  <2>0. CanaryAt(p)
    BY DEF CanaryInv
  <2>1. \A i \in {1, 2} : i # r => ~Lingers(p, i)
    BY <1>8, <2>0 DEF CanaryAt
  <2>2. \A i \in {1, 2} : i # r => <<p, i>> \notin store' /\ Insert(p, i) \notin pending'
    BY <1>1, <1>4, <2>1 DEF Lingers, Insert
  <2>3. worker'[p] \notin {"cleanup", "failed"} =>
          worker[p] \notin {"cleanup", "failed"} /\ pending' = pending
    BY <1>8 DEF TypeOK, Canary, WorkerSends, WorkerAsks, WorkerCleansUp, WorkerProves, WorkerAt,
       Reported, Alive, Answered, Lost, network
  <2>4. worker'[p] \notin {"cleanup", "failed"} => Insert(p, r) \notin pending'
    BY <1>8, <2>0, <2>3 DEF CanaryAt
  <2>5. worker'[p] \in {"none", "insert", "proved"} => <<p, r>> \notin store'
    BY <1>1, <1>8 DEF TypeOK, Canary, WorkerSends, WorkerAsks, WorkerCleansUp, WorkerProves,
       WorkerAt, Reported, Alive, network
  <2>6. pc'[p] = "canary" /\ round'[p] = r
    BY <1>1, <1>8
  <2>7. \A i \in {1, 2} : Lingers(p, i)' => i = r
    BY <2>2 DEF Lingers, Insert
  <2>8. CanaryAt(p)'
    BY <2>4, <2>5, <2>6, <2>7 DEF CanaryAt, Insert
  <2> QED BY <1>3, <1>5, <2>8, CanaryOwn
<1> QED BY <1>6, <1>7, <1>8

\* The freezer around its canary process: before, after, and when it failed.
LEMMA CanaryAround ==
    ASSUME TypeOK, StoreInv, CanaryInv, NEW p \in Freezers,
           LockStore(p) \/ CanarySucceeded(p) \/ CanaryFailed(p)
    PROVE  CanaryInv'
<1>0. CanaryAt(p) /\ round[p] \in {1, 2}
  BY DEF CanaryInv, TypeOK
<1>1. \A q \in Freezers : q # p => Resting(q)
  BY DEF TypeOK, LockStore, CanarySucceeded, CanaryFailed, Raise, Ends, At, WorkerAt, Resting
<1>2. CASE CanaryFailed(p)
  <2>1. pc'[p] = "raised"
    BY <1>2 DEF TypeOK, CanaryFailed, Raise, Ends, At
  <2>2. CanaryAt(p)'
    BY <2>1 DEF CanaryAt, Lingers, Insert
  <2>3. /\ store' \subseteq store
        /\ \E u \in InRequest(p) : pending' \subseteq pending \cup u \cup {Update(p, "delete")}
    BY <1>2 DEF CanaryFailed, Applied, Update
  <2>4. \A u \in InRequest(p) : \A v \in {Update(p, "delete")} \cup u : v.subject = Subject(p)
    BY DEF InRequest, Update
  <2>5. \A q \in Freezers, i \in {1, 2} : q # p => Insert(q, i).subject # Subject(p)
    BY DEF Insert, Subject
  <2>6. OthersKept(p)
    BY <2>3, <2>4, <2>5 DEF OthersKept
  <2> QED BY <1>1, <2>2, <2>6, CanaryOwn
<1>3. CASE LockStore(p) \/ CanarySucceeded(p)
  <2>1. UNCHANGED <<store, pending>> /\ pc[p] = "canary"
    BY <1>3 DEF LockStore, CanarySucceeded, network
  <2>2. OthersKept(p)
    BY <2>1 DEF OthersKept, Insert
  <2>3. ~Lingers(p, round[p])
    BY <1>0, <1>3, <2>1 DEF CanaryAt, Lingers, LockStore, CanarySucceeded
  <2>4. \A i \in {1, 2} : ~Lingers(p, i)
    BY <1>0, <2>1, <2>3 DEF CanaryAt
  <2>5. \A i \in {1, 2} : <<p, i>> \notin store' /\ Insert(p, i) \notin pending'
    BY <2>1, <2>4 DEF Lingers
  <2>6. round'[p] \in {1, 2}
    BY <1>0, <1>3 DEF LockStore, CanarySucceeded, Raise
  <2>7. CanaryAt(p)'
    BY <2>5, <2>6 DEF CanaryAt, Lingers, Insert
  <2> QED BY <1>1, <2>2, <2>7, CanaryOwn
<1> QED BY <1>2, <1>3

LEMMA CanaryStep == TypeOK /\ TypeOK' /\ StoreInv /\ CanaryInv /\ [Next]_vars => CanaryInv'
<1> SUFFICES ASSUME TypeOK, TypeOK', StoreInv, CanaryInv, [Next]_vars PROVE CanaryInv'
  OBVIOUS
<1>1. CASE IdentityMoves \/ StoreApplies \/ StoreDrops \/ UNCHANGED vars
  <2>1. UNCHANGED <<pc, round, worker>>
    BY <1>1 DEF IdentityMoves, StoreApplies, StoreDrops, vars
  <2>2. pending' \subseteq pending
    BY <1>1 DEF IdentityMoves, StoreApplies, StoreDrops, vars, network
  <2>3. \A p \in Freezers, r \in {1, 2} :
          <<p, r>> \in store' => <<p, r>> \in store \/ Insert(p, r) \in pending
    <3>1. CASE StoreApplies
      <4>1. PICK u \in pending : store' = Applied(store, u)
        BY <3>1 DEF StoreApplies
      <4>2. u.kind = "insert" => u = [kind |-> "insert", subject |-> u.subject]
        BY DEF TypeOK
      <4> QED BY <4>1, <4>2 DEF Applied, Insert
    <3>2. CASE ~StoreApplies
      BY <1>1, <3>2 DEF IdentityMoves, StoreDrops, vars, network
    <3> QED BY <3>1, <3>2
  <2>4. \A p \in Freezers : AddsNone(p) /\ Resting(p)
    BY <2>1, <2>2, <2>3 DEF AddsNone, Lingers, Resting, Insert
  <2> QED BY <2>4, CanaryRests DEF CanaryInv
<1>2. ASSUME NEW p \in Freezers, Canary(p) PROVE CanaryInv'
  BY <1>2, CanaryWorks
<1>3. ASSUME NEW p \in Freezers, LockStore(p) \/ CanarySucceeded(p) \/ CanaryFailed(p)
      PROVE  CanaryInv'
  BY <1>3, CanaryAround
<1>4. ASSUME NEW p \in Freezers,
             \/ Capture(p) \/ Sentinels(p) \/ Check(p) \/ WriteTemporary(p) \/ Link(p)
             \/ Unlink(p) \/ Commit(p) \/ Adopt(p)
      PROVE  CanaryInv'
  <2>1. pc[p] \notin {"canary", "raised", "killed"}
    BY <1>4 DEF Capture, Sentinels, Check, WriteTemporary, Link, Unlink, Commit, Adopt
  <2>2. UNCHANGED network
    BY <1>4 DEF Capture, Sentinels, Check, WriteTemporary, Link, Unlink, Commit, Adopt, network
  <2>3. \A q \in Freezers : q # p => Resting(q)
    BY <1>4 DEF TypeOK, Capture, Sentinels, Check, WriteTemporary, Link, Unlink, Commit, Adopt,
       Raise, Ends, At, Resting
  <2> QED BY <2>1, <2>2, <2>3, CanaryQuiet
<1>5. ASSUME NEW p \in Freezers, Fails(p) \/ Interrupt(p) \/ Kill(p) PROVE CanaryInv'
  <2>1. /\ pc'[p] \in {"raised", "killed"} /\ UNCHANGED network
        /\ \A q \in Freezers : q # p => Resting(q)
    <3>1. CASE Fails(p) \/ Interrupt(p)
      BY <3>1 DEF TypeOK, Fails, Interrupt, Raise, Ends, At, WorkerAt, Resting, network
    <3>2. CASE Kill(p)
      BY <3>2 DEF TypeOK, Kill, At, WorkerAt, Resting, network
    <3> QED BY <1>5, <3>1, <3>2
  <2> QED BY <2>1, CanaryQuiet
<1> QED BY <1>1, <1>2, <1>3, <1>4, <1>5 DEF Next, Step

\* A canary triple in the store, or on its way there, has an owner that is at it or did
\* not succeed.
THEOREM CanariesAreOwned == Spec => []LeftoverCanaryHasAFailedOwner
<1>1. TypeOK /\ CanaryInv => LeftoverCanaryHasAFailedOwner
  <2> SUFFICES ASSUME TypeOK, CanaryInv,
                      NEW s \in store \cup {u.subject : u \in {v \in pending : v.kind = "insert"}}
               PROVE  \/ pc[s[1]] \in {"raised", "killed"}
                      \/ pc[s[1]] = "canary" /\ round[s[1]] = s[2]
    BY DEF LeftoverCanaryHasAFailedOwner
  <2>1. s \in Freezers \X {1, 2} /\ (s \in store \/ [kind |-> "insert", subject |-> s] \in pending)
    <3>1. CASE s \in store
      BY <3>1 DEF TypeOK
    <3>2. ASSUME NEW u \in pending, u.kind = "insert", s = u.subject
          PROVE  s \in Freezers \X {1, 2} /\ u = [kind |-> "insert", subject |-> s]
      BY <3>2 DEF TypeOK
    <3> QED BY <3>1, <3>2
  <2>2. PICK p \in Freezers, r \in {1, 2} : s = <<p, r>>
    BY <2>1
  <2>3. Lingers(p, r)
    BY <2>1, <2>2 DEF Lingers, Insert
  <2> QED BY <2>2, <2>3 DEF CanaryInv, CanaryAt
<1> QED BY <1>1, TypeInit, TypeStep, StoreInit, StoreStep, CanaryInit, CanaryStep, PTL DEF Spec

-----------------------------------------------------------------------------
(* Stores.  What a freezer accepts of endpoints, a loader accepts of their   *)
(* hashes.                                                                   *)

LEMMA NatOrder ==
    \E R : IsWellFoundedOn(R, Nat) /\ \A x, y \in Nat : (<<y, x>> \in R) <=> y < x
<1> DEFINE Less(a, b) == a < b
           R == OpToRel(Less, Nat)
<1>1. IsWellFoundedOn(R, Nat)
  BY NatLessThanWellFounded
<1>2. \A x, y \in Nat : (<<y, x>> \in R) <=> y < x
  BY DEF OpToRel
<1> HIDE DEF R
<1> QED BY <1>1, <1>2

LEMMA NatMin ==
    ASSUME NEW T \in SUBSET Nat, T # {}
    PROVE  \E x \in T : \A y \in T : x <= y
<1>1. PICK R : IsWellFoundedOn(R, Nat) /\ \A x, y \in Nat : (<<y, x>> \in R) <=> y < x
  BY NatOrder
<1>2. \E x \in T : \A y \in T : ~(<<y, x>> \in R)
  BY <1>1, WFMin
<1>3. PICK x \in T : \A y \in T : ~(<<y, x>> \in R)
  BY <1>2
<1>4. ASSUME NEW y \in T PROVE x <= y
  <2>1. x \in Nat /\ y \in Nat /\ ~(y < x)
    BY <1>1, <1>3
  <2> QED BY <2>1
<1> QED BY <1>4

LEMMA MaxUpTo ==
    ASSUME NEW n \in Nat, NEW S \in SUBSET (0 .. n), S # {}
    PROVE  Max(S) \in S /\ \A y \in S : y <= Max(S)
<1> DEFINE T == {n - x : x \in S}
<1>1. T \in SUBSET Nat /\ T # {}
  <2>1. \A x \in S : n - x \in Nat
    OBVIOUS
  <2> QED BY <2>1
<1>2. PICK t \in T : \A u \in T : t <= u
  <2> HIDE DEF T
  <2> QED BY <1>1, NatMin
<1>3. PICK x \in S : t = n - x
  BY <1>2
<1>4. ASSUME NEW y \in S PROVE x >= y
  <2>1. n - y \in T
    OBVIOUS
  <2>2. n - x <= n - y
    BY <1>2, <1>3, <2>1
  <2> QED BY <2>2
<1>5. Max(S) \in S /\ \A y \in S : Max(S) >= y
  BY <1>4 DEF Max
<1>6. \A y \in S : y \in Int
  OBVIOUS
<1> QED BY <1>5, <1>6

\* A path without the empty segments at its end.
LEMMA StrippedIs ==
    ASSUME NEW S, NEW path \in Seq(S)
    PROVE  /\ Stripped(path) \in Seq(S)
           /\ path # << >> /\ path[Len(path)] # "" => Stripped(path) = path
           /\ (\A i \in DOMAIN path : path[i] = "") => Stripped(path) = << >>
<1> DEFINE M == {0} \cup {i \in DOMAIN path : path[i] # ""}
           m == Max(M)
<1>1. Len(path) \in Nat /\ DOMAIN path = 1 .. Len(path)
  OBVIOUS
<1>2. m \in M /\ \A i \in M : i <= m
  <2>1. \A i \in 1 .. Len(path) : i \in 0 .. Len(path)
    BY <1>1
  <2>2. 0 \in 0 .. Len(path)
    BY <1>1
  <2>3. M \in SUBSET (0 .. Len(path)) /\ M # {}
    BY <1>1, <2>1, <2>2, Zenon
  <2> HIDE DEF M
  <2>4. Max(M) \in M /\ \A i \in M : i <= Max(M)
    BY <1>1, <2>3, MaxUpTo
  <2> QED BY <2>4
<1>3. m \in 0 .. Len(path)
  <2>1. m = 0 \/ m \in 1 .. Len(path)
    BY <1>1, <1>2
  <2> HIDE DEF m
  <2> QED BY <1>1, <2>1
<1>4. Stripped(path) = SubSeq(path, 1, m)
  BY DEF Stripped
<1> HIDE DEF m
<1>5. Stripped(path) \in Seq(S)
  BY <1>3, <1>4
<1>6. ASSUME path # << >>, path[Len(path)] # "" PROVE Stripped(path) = path
  <2>1. Len(path) \in M
    <3>1. Len(path) # 0
      BY <1>6, EmptySeq
    <3>2. Len(path) \in DOMAIN path
      BY <1>1, <3>1
    <3> QED BY <1>6, <3>2
  <2>2. Len(path) <= m
    <3> HIDE DEF M
    <3> QED BY <1>2, <2>1
  <2>3. m = Len(path)
    <3>1. PICK n \in Nat : n = Len(path)
      BY <1>1
    <3>2. m \in 0 .. n /\ n <= m
      BY <1>3, <2>2, <3>1
    <3> QED BY <3>1, <3>2
  <2> QED BY <1>4, <2>3
<1>7. ASSUME \A i \in DOMAIN path : path[i] = "" PROVE Stripped(path) = << >>
  <2>1. m = 0
    BY <1>2, <1>7
  <2> QED BY <1>4, <2>1
<1> QED BY <1>5, <1>6, <1>7

LEMMA LastSegment ==
    ASSUME NEW S, NEW path \in Seq(S), NEW segment
    PROVE  /\ Append(path, segment) # << >>
           /\ Parent(Append(path, segment)) = path
           /\ Leaf(Append(path, segment)) = segment
           /\ segment # "" => Stripped(Append(path, segment)) = Append(path, segment)
<1> DEFINE q == Append(path, segment)
           T == S \cup {segment}
<1>1. path \in Seq(T) /\ segment \in T
  OBVIOUS
<1> HIDE DEF T
<1>2. /\ q \in Seq(T) /\ Len(q) = Len(path) + 1 /\ Len(path) \in Nat /\ q[Len(q)] = segment
      /\ \A i \in 1 .. Len(path) : q[i] = path[i]
  BY <1>1
<1>3. q # << >>
  BY <1>2
<1> HIDE DEF q
<1>4. Front(q) = path
  <2> DEFINE f == SubSeq(q, 1, Len(q) - 1)
  <2>1. f \in Seq(T) /\ Len(f) = Len(path) /\ \A i \in 1 .. Len(path) : f[i] = path[i]
    BY <1>2
  <2> HIDE DEF f
  <2>2. f = path
    BY <1>1, <2>1
  <2> QED BY <2>2 DEF f, Front
<1>5. Parent(q) = path /\ Leaf(q) = segment
  BY <1>2, <1>3, <1>4 DEF Parent, Leaf, Last
<1>6. segment # "" => Stripped(q) = q
  BY <1>2, <1>3, StrippedIs
<1> QED BY <1>3, <1>5, <1>6 DEF q

\* A path that is not empty is its parent and its leaf.
LEMMA ParentAndLeaf ==
    ASSUME NEW S, NEW path \in Seq(S), path # << >>
    PROVE  /\ path = Append(Parent(path), Leaf(path)) /\ Parent(path) \in Seq(S)
           /\ \A i \in DOMAIN Parent(path) : i \in DOMAIN path /\ Parent(path)[i] = path[i]
<1> DEFINE f == SubSeq(path, 1, Len(path) - 1)
           q == Append(f, path[Len(path)])
<1>1. Parent(path) = f /\ Leaf(path) = path[Len(path)]
  BY DEF Parent, Leaf, Front, Last
<1>2. Len(path) \in Nat \ {0} /\ DOMAIN path = 1 .. Len(path)
  BY EmptySeq
<1>3. /\ f \in Seq(S) /\ Len(f) = Len(path) - 1 /\ DOMAIN f = 1 .. Len(path) - 1
      /\ \A i \in 1 .. Len(path) - 1 : f[i] = path[i]
  BY <1>2
<1> HIDE DEF f
<1>4. path[Len(path)] \in S
  BY <1>2
<1>5. q \in Seq(S) /\ Len(q) = Len(path) /\ \A i \in 1 .. Len(path) : q[i] = path[i]
  <2>1. /\ q \in Seq(S) /\ Len(q) = Len(f) + 1 /\ q[Len(f) + 1] = path[Len(path)]
        /\ \A i \in 1 .. Len(f) : q[i] = f[i]
    BY <1>3, <1>4, AppendProperties
  <2>2. Len(f) + 1 = Len(path)
    BY <1>2, <1>3
  <2>3. ASSUME NEW i \in 1 .. Len(path) PROVE q[i] = path[i]
    <3>0. PICK n \in Nat \ {0} : n = Len(path)
      BY <1>2
    <3>1. i = Len(path) \/ i \in 1 .. Len(path) - 1
      BY <3>0
    <3> QED BY <1>3, <2>1, <2>2, <3>1
  <2> QED BY <2>1, <2>2, <2>3
<1> HIDE DEF q
<1>6. q = path
  BY <1>5
<1> QED BY <1>1, <1>2, <1>3, <1>6 DEF q

Binds(kind, r, u) == Consistent(kind, Safe(r), Safe(u))

LEMMA SafeIs ==
    ASSUME NEW c
    PROVE  /\ Safe(c).endpoint = c /\ Safe(c).origin = Origin(c)
           /\ Safe(c).path = OrRoot(Stripped(c.path))
           /\ Safe(c).parent = OrRoot(Parent(Stripped(c.path)))
           /\ \A kind \in {"query", "update", "statements"} :
                Safe(c).leaf = kind <=> Leaf(Stripped(c.path)) = kind
BY DEF Safe

\* The hashes of a binding that the endpoints have, show it.
LEMMA BindingShows ==
    ASSUME NEW S, NEW r, NEW u, r.path \in Seq(S), u.path \in Seq(S), Binding(r, u) # "refused"
    PROVE  Binds(Binding(r, u), r, u)
<1>r. Stripped(r.path) \in Seq(S) /\ Stripped(u.path) \in Seq(S)
  BY StrippedIs
<1>1. CASE u = r
  BY <1>1 DEF Binding, Binds, Consistent
<1>2. CASE u # r /\ StatementsChild(r, u)
  <2> DEFINE p == Stripped(r.path)
             s == "statements"
  <2>1. /\ Binding(r, u) = s /\ u.path = Append(p, s) /\ Origin(u) = Origin(r)
    BY <1>2 DEF Binding, StatementsChild
  <2>p. p \in Seq(S) /\ s # ""
    BY <1>r
  <2> HIDE DEF p
  <2>2. Stripped(u.path) = u.path /\ Parent(u.path) = p /\ Leaf(u.path) = s /\ u.path # << >>
    <3> HIDE DEF s
    <3> QED BY <2>1, <2>p, LastSegment
  <2>3. OrRoot(u.path) # OrRoot(p)
    <3>1. OrRoot(u.path) = Append(p, s)
      BY <2>1, <2>2 DEF OrRoot
    <3>2. CASE p = << >>
      <4>1. Append(p, s)[1] = s /\ <<"">>[1] = ""
        BY <3>2
      <4>2. OrRoot(p) = <<"">>
        BY <3>2 DEF OrRoot
      <4> HIDE DEF s
      <4> QED BY <2>p, <3>1, <4>1, <4>2
    <3>3. CASE p # << >>
      <4>1. Append(p, s) # p
        <5>1. Len(Append(p, s)) = Len(p) + 1 /\ Len(p) \in Nat
          BY <2>p
        <5> QED BY <5>1
      <4> QED BY <3>1, <3>3, <4>1 DEF OrRoot
    <3> QED BY <3>2, <3>3
  <2>4. /\ Safe(u).endpoint # Safe(r).endpoint /\ Safe(u).origin = Safe(r).origin
        /\ Safe(u).parent = Safe(r).path /\ Safe(u).path # Safe(r).path
        /\ Safe(u).leaf = "statements"
    <3>1. Safe(u).path = OrRoot(u.path) /\ Safe(u).parent = OrRoot(p) /\ Safe(r).path = OrRoot(p)
      BY <2>2, SafeIs DEF p
    <3>2. Safe(u).leaf = "statements"
      BY <2>2, SafeIs
    <3>3. Safe(u).endpoint = u /\ Safe(r).endpoint = r /\ Safe(u).origin = Safe(r).origin
      BY <2>1, SafeIs
    <3> QED BY <1>2, <2>3, <3>1, <3>2, <3>3
  <2> QED BY <2>1, <2>4 DEF Binds, Consistent
<1>3. CASE u # r /\ ~StatementsChild(r, u) /\ QuerySibling(r, u)
  <2> DEFINE p == Stripped(r.path)
             q == Stripped(u.path)
  <2>1. /\ Binding(r, u) = "sibling" /\ p # << >> /\ q # << >> /\ Origin(u) = Origin(r)
        /\ Parent(p) = Parent(q) /\ Leaf(p) = "query" /\ Leaf(q) = "update"
    BY <1>3 DEF Binding, QuerySibling
  <2>2. p # q /\ OrRoot(p) = p /\ OrRoot(q) = q
    <3> HIDE DEF p, q
    <3> QED BY <2>1 DEF OrRoot
  <2>3. /\ Safe(u).endpoint # Safe(r).endpoint /\ Safe(u).origin = Safe(r).origin
        /\ Safe(u).parent = Safe(r).parent /\ Safe(u).path # Safe(r).path
        /\ Safe(r).leaf = "query" /\ Safe(u).leaf = "update"
    BY <1>3, <2>1, <2>2, SafeIs
  <2> QED BY <2>1, <2>3 DEF Binds, Consistent
<1> QED BY <1>1, <1>2, <1>3 DEF Binding

LEMMA Widened ==
    ASSUME NEW S, NEW path \in Seq(S), NEW segment
    PROVE  path \in Seq(S \cup {segment}) /\ <<segment>> \in Seq(S \cup {segment})
<1> DEFINE T == S \cup {segment}
<1>1. path \in Seq(T) /\ segment \in T
  OBVIOUS
<1> HIDE DEF T
<1>2. <<segment>> \in Seq(T)
  BY <1>1
<1> QED BY <1>1, <1>2 DEF T

LEMMA OrRootIs ==
    ASSUME NEW S, NEW path \in Seq(S)
    PROVE  OrRoot(path) \in Seq(S \cup {""})
BY Widened DEF OrRoot

LEMMA RegistersLoads ==
    ASSUME NEW S, NEW access \in {"read-only", "writable"}, NEW d, NEW b, NEW r, NEW update,
           r.path \in Seq(S),
           update = None \/ \E u : update = <<u>> /\ u.path \in Seq(S)
    PROVE  Loads(Store(access, d, b, r, update))
<1> DEFINE spec == Store(access, d, b, r, update)
           record == StoreRecord(spec)
<1> SUFFICES ASSUME Registers(spec) PROVE StoreLoads(record)
  BY DEF Loads
<1>1. /\ spec.access = access /\ spec.baseData = d[1] /\ spec.reifiedData = d[2]
      /\ spec.base = b /\ spec.reified = r /\ spec.update = update
  BY DEF Store
<1> HIDE DEF spec
<1>2. /\ record.access = access /\ record.baseData = d[1] /\ record.reifiedData = d[2]
      /\ record.base = Safe(Canonical(b)) /\ record.reified = Safe(Canonical(r))
      /\ record.update = (IF update = None THEN None ELSE <<Safe(Canonical(update[1]))>>)
      /\ record.binding = Bound(spec) /\ record.proved = (access = "writable")
  BY <1>1 DEF StoreRecord
<1> HIDE DEF record
<1>3. /\ d[1] # d[2] /\ (access = "writable") = (update # None)
      /\ Canonical(b) # Canonical(r) /\ Bound(spec) # "refused" /\ DataDiffer(d[1], d[2])
  BY <1>1 DEF Registers
<1>4. record.base.endpoint # record.reified.endpoint
  BY <1>2, <1>3, SafeIs
<1>5. (update = None) = (Bound(spec) = "absent")
  BY <1>1 DEF Bound, Binding
<1>6. (record.update = None) = (update = None)
  BY <1>2 DEF None
<1>7. ASSUME update # None PROVE Consistent(record.binding, record.reified, record.update[1])
  <2>1. PICK u : update = <<u>> /\ u.path \in Seq(S)
    BY <1>7
  <2> DEFINE cr == Canonical(r)
             cu == Canonical(u)
  <2>2. cr.path \in Seq(S \cup {""}) /\ cu.path \in Seq(S \cup {""})
    BY <2>1, OrRootIs DEF Canonical
  <2>3. Bound(spec) = Binding(cr, cu) /\ record.update[1] = Safe(cu)
    BY <1>1, <1>2, <1>7, <2>1 DEF Bound
  <2> HIDE DEF cr, cu
  <2>4. Binds(Binding(cr, cu), cr, cu)
    BY <1>3, <2>2, <2>3, BindingShows
  <2> QED BY <1>2, <2>3, <2>4 DEF Binds, cr
<1> QED BY <1>2, <1>3, <1>4, <1>5, <1>6, <1>7 DEF StoreLoads

LEMMA PathsAreSequences ==
    ASSUME NEW p \in Paths
    PROVE  p \in Seq(Segments)
<1>1. PICK n \in 0 .. MaxDepth : p \in [1 .. n -> Segments]
  BY DEF Paths
<1>2. n \in Nat
  BY <1>1, RegistrationAssumption DEF RegistrationAssumption
<1> QED BY <1>1, <1>2

LEMMA EveryStoreThatRegistersLoads ==
    EveryStoreLoads
<1>1. ASSUME NEW o, NEW P \in SUBSET Paths, NEW e \in Endpoints(o, P)
      PROVE  e.path \in Seq(Segments)
  <2>1. PICK p \in P : e = [scheme |-> o[1], port |-> o[2], path |-> p]
    BY <1>1 DEF Endpoints
  <2> QED BY <2>1, PathsAreSequences
<1>2. ASSUME NEW o, NEW d, NEW b, NEW r \in Endpoints(o, Paths), NEW u \in Endpoints(o, Paths)
      PROVE  Loads(Store("writable", d, b, r, <<u>>))
  <2>1. r.path \in Seq(Segments) /\ u.path \in Seq(Segments)
    BY <1>1, <1>2
  <2> QED BY <2>1, RegistersLoads
<1> DEFINE brief == {p \in Paths : Len(p) <= 1}
           short == UNION {Endpoints(any, brief) : any \in Origins}
<1>3. \A e \in short : e.path \in Seq(Segments)
  <2>1. brief \in SUBSET Paths
    OBVIOUS
  <2> HIDE DEF brief
  <2> QED BY <1>1, <2>1
<1> HIDE DEF short
<1>4. ASSUME NEW access \in {"read-only", "writable"}, NEW d, NEW b \in short, NEW r \in short,
             NEW update \in {None} \cup {<<u>> : u \in short}
      PROVE  Loads(Store(access, d, b, r, update))
  <2>1. update = None \/ \E u : update = <<u>> /\ u.path \in Seq(Segments)
    BY <1>3, <1>4
  <2>2. r.path \in Seq(Segments)
    BY <1>3, <1>4
  <2> QED BY <2>1, <2>2, RegistersLoads
<1> QED BY <1>2, <1>4 DEF EveryStoreLoads, short

\* What Canonical leaves of an endpoint whose path is clear.
ClearPath(p) == p \in Seq(Segments) /\ Plain(p) /\ "%" \notin Range(p)
ClearOf(p, c) == ClearPath(p) /\ c = [scheme |-> c.scheme, port |-> c.port, path |-> OrRoot(p)]

LEMMA OneSegment ==
    ASSUME NEW segment
    PROVE  /\ <<segment>> \in Seq({segment}) /\ DOMAIN <<segment>> = {1} /\ <<segment>>[1] = segment
           /\ Append(<< >>, segment) = <<segment>>
OBVIOUS

LEMMA ClearIs ==
    ASSUME NEW p, NEW c, ClearOf(p, c)
    PROVE  /\ Stripped(c.path) = p /\ ~Encoded(c) /\ Plain(p) /\ p \in Seq(Segments)
           /\ c.path = OrRoot(p) /\ c.path \in {p, Append(p, "")} /\ (p # << >> => c.path = p)
           /\ c.path \in Seq(Segments \cup {""})
<1>1. p \in Seq(Segments) /\ Plain(p) /\ (\A i \in DOMAIN p : p[i] # "%")
  BY DEF ClearOf, ClearPath, Range
<1>2. c.path = OrRoot(p)
  BY DEF ClearOf
<1>3. CASE p = << >>
  <2>1. c.path = <<"">>
    BY <1>2, <1>3 DEF OrRoot
  <2>2. c.path \in Seq({""}) /\ DOMAIN c.path = {1} /\ c.path[1] = "" /\ Append(<< >>, "") = c.path
    BY <2>1, OneSegment
  <2>3. Stripped(c.path) = << >>
    BY <2>2, StrippedIs
  <2>4. ~Encoded(c)
    BY <2>2 DEF Encoded
  <2>5. c.path = Append(p, "")
    BY <1>3, <2>2
  <2>6. c.path \in Seq(Segments \cup {""})
    BY <1>1, <1>2, OrRootIs
  <2> QED BY <1>1, <1>2, <1>3, <2>3, <2>4, <2>5, <2>6
<1>4. CASE p # << >>
  <2>1. c.path = p
    BY <1>2, <1>4 DEF OrRoot
  <2>2. Len(p) \in DOMAIN p
    <3>1. Len(p) \in Nat /\ Len(p) # 0 /\ DOMAIN p = 1 .. Len(p)
      BY <1>1, <1>4, EmptySeq
    <3> QED BY <3>1
  <2>3. p[Len(p)] # ""
    BY <1>1, <2>2 DEF Plain
  <2>4. Stripped(c.path) = p
    BY <1>1, <1>4, <2>1, <2>3, StrippedIs
  <2>5. ~Encoded(c)
    BY <1>1, <2>1 DEF Encoded
  <2>6. c.path \in Seq(Segments \cup {""})
    BY <1>1, <1>2, OrRootIs
  <2> QED BY <1>1, <1>2, <1>4, <2>1, <2>4, <2>5, <2>6
<1> QED BY <1>3, <1>4

\* Only the empty path is hashed as the root.
LEMMA OrRootTellsApart ==
    ASSUME NEW p, NEW q, Plain(p), Plain(q), OrRoot(p) = OrRoot(q)
    PROVE  p = q
<1>1. \A t : Plain(t) => t # <<"">>
  <2>1. 1 \in DOMAIN <<"">> /\ <<"">>[1] = ""
    OBVIOUS
  <2> QED BY <2>1 DEF Plain
<1> QED BY <1>1 DEF OrRoot

LEMMA HashesDecide ==
    ASSUME NEW p, NEW q, NEW r, NEW u, ClearOf(p, r), ClearOf(q, u),
           NEW kind \in {"same", "statements", "sibling"}
    PROVE  Consistent(kind, Safe(r), Safe(u)) <=> Binding(r, u) = kind
<1>1. /\ Stripped(r.path) = p /\ ~Encoded(r) /\ Plain(p) /\ p \in Seq(Segments)
      /\ r.path = OrRoot(p) /\ r.path \in {p, Append(p, "")}
      /\ r.path \in Seq(Segments \cup {""})
  BY ClearIs
<1>2. /\ Stripped(u.path) = q /\ ~Encoded(u) /\ Plain(q) /\ q \in Seq(Segments)
      /\ u.path = OrRoot(q) /\ (q # << >> => u.path = q)
      /\ u.path \in Seq(Segments \cup {""})
  BY ClearIs
<1>3. ASSUME Binding(r, u) = kind PROVE Consistent(kind, Safe(r), Safe(u))
  <2>1. kind # "refused"
    OBVIOUS
  <2> QED BY <1>1, <1>2, <1>3, <2>1, BindingShows DEF Binds
<1>4. /\ Safe(r).endpoint = r /\ Safe(u).endpoint = u
      /\ Safe(r).origin = Origin(r) /\ Safe(u).origin = Origin(u)
      /\ Safe(r).path = OrRoot(p) /\ Safe(u).path = OrRoot(q)
      /\ Safe(r).parent = OrRoot(Parent(p)) /\ Safe(u).parent = OrRoot(Parent(q))
      /\ \A k \in {"query", "update", "statements"} :
           (Safe(r).leaf = k <=> Leaf(p) = k) /\ (Safe(u).leaf = k <=> Leaf(q) = k)
  BY <1>1, <1>2, SafeIs
<1>5. ASSUME NEW t \in Seq(Segments), Plain(t), t # << >>
      PROVE  t = Append(Parent(t), Leaf(t)) /\ Plain(Parent(t))
  BY <1>5, ParentAndLeaf DEF Plain
<1>6. CASE kind = "same"
  <2>1. Consistent(kind, Safe(r), Safe(u)) => u = r
    BY <1>4, <1>6 DEF Consistent
  <2> QED BY <1>3, <1>6, <2>1 DEF Binding
<1>7. CASE kind = "statements"
  <2>1. ASSUME Consistent(kind, Safe(r), Safe(u)) PROVE Binding(r, u) = kind
    <3>1. /\ u # r /\ Origin(u) = Origin(r) /\ OrRoot(Parent(q)) = OrRoot(p)
          /\ Leaf(q) = "statements"
      BY <1>4, <1>7, <2>1 DEF Consistent
    <3>2. q # << >>
      BY <3>1 DEF Leaf
    <3>3. q = Append(Parent(q), "statements") /\ Plain(Parent(q))
      BY <1>2, <1>5, <3>1, <3>2
    <3>4. Parent(q) = p
      BY <1>1, <3>1, <3>3, OrRootTellsApart
    <3>5. StatementsChild(r, u)
      BY <1>1, <1>2, <3>1, <3>2, <3>3, <3>4 DEF StatementsChild
    <3> QED BY <1>7, <3>1, <3>5 DEF Binding
  <2> QED BY <1>3, <2>1
<1>8. CASE kind = "sibling"
  <2>1. ASSUME Consistent(kind, Safe(r), Safe(u)) PROVE Binding(r, u) = kind
    <3>1. /\ u # r /\ Origin(u) = Origin(r) /\ OrRoot(Parent(q)) = OrRoot(Parent(p))
          /\ Leaf(p) = "query" /\ Leaf(q) = "update"
      BY <1>4, <1>8, <2>1 DEF Consistent
    <3>2. p # << >> /\ q # << >>
      BY <3>1 DEF Leaf
    <3>3. Plain(Parent(p)) /\ Plain(Parent(q))
      BY <1>1, <1>2, <1>5, <3>2
    <3>4. Parent(p) = Parent(q)
      BY <3>1, <3>3, OrRootTellsApart
    <3>5. QuerySibling(r, u)
      BY <1>1, <1>2, <3>1, <3>2, <3>3, <3>4 DEF QuerySibling
    <3>6. ~StatementsChild(r, u)
      <4>1. Leaf(Append(p, "statements")) = "statements"
        BY <1>1, LastSegment
      <4> QED BY <1>1, <1>2, <3>1, <3>2, <4>1 DEF StatementsChild
    <3> QED BY <1>8, <3>1, <3>5, <3>6 DEF Binding
  <2> QED BY <1>3, <2>1
<1> QED BY <1>6, <1>7, <1>8

LEMMA HashesDecideEveryBinding ==
    HashesDecideTheBinding
<1> DEFINE clear == {p \in Paths : Plain(p) /\ "%" \notin Range(p)}
           endpoints == {Canonical(e) : e \in UNION {Endpoints(o, clear) : o \in Origins}}
<1>1. ASSUME NEW c \in endpoints PROVE \E p : ClearOf(p, c)
  <2>1. PICK o \in Origins : \E e \in Endpoints(o, clear) : c = Canonical(e)
    BY <1>1
  <2>2. PICK p \in clear : c = Canonical([scheme |-> o[1], port |-> o[2], path |-> p])
    <3> HIDE DEF clear
    <3> QED BY <2>1 DEF Endpoints
  <2>3. ClearPath(p)
    BY <2>2, PathsAreSequences DEF ClearPath
  <2> HIDE DEF clear
  <2>4. /\ c = [scheme |-> c.scheme, port |-> c.port, path |-> c.path]
        /\ c.path = OrRoot(p)
    BY <2>2 DEF Canonical
  <2> QED BY <2>3, <2>4 DEF ClearOf
<1> HIDE DEF endpoints
<1>2. ASSUME NEW r \in endpoints, NEW u \in endpoints,
             NEW kind \in {"same", "statements", "sibling"}
      PROVE  Consistent(kind, Safe(r), Safe(u)) <=> Binding(r, u) = kind
  <2>1. PICK p : ClearOf(p, r)
    BY <1>1
  <2>2. PICK q : ClearOf(q, u)
    BY <1>1
  <2> QED BY <2>1, <2>2, HashesDecide
<1> QED BY <1>2 DEF HashesDecideTheBinding, endpoints

LEMMA SentinelsDecideTheRoles ==
    SentinelsTellRolesApart
<1> SUFFICES ASSUME NEW answers, NEW sentinels \in SUBSET [role : Roles, query : Queries, expected : Values],
                    SentinelsPass(sentinels, answers)
             PROVE  /\ SentinelsLoad(SentinelRecords(sentinels, answers))
                    /\ ~SentinelsPass(sentinels, [base |-> answers["reified"],
                                                  reified |-> answers["base"]])
  BY DEF SentinelsTellRolesApart
<1> DEFINE RecordOf(s) == [role |-> s.role, query |-> s.query, expected |-> s.expected,
                           observed |-> answers[s.role][s.query]]
           records == SentinelRecords(sentinels, answers)
           swapped == [base |-> answers["reified"], reified |-> answers["base"]]
<1>1. /\ \A s, t \in sentinels : s.role = t.role /\ s.query = t.query => s = t
      /\ \A s \in sentinels : answers[s.role][s.query] = s.expected
  BY DEF SentinelsPass, Unique
<1>2. PICK s, t \in sentinels : /\ s.role = "base" /\ t.role = "reified"
                                /\ s.query = t.query /\ s.expected # t.expected
  BY DEF SentinelsPass, Discriminates
<1>3. records = {RecordOf(x) : x \in sentinels}
  BY DEF SentinelRecords
<1>4. SentinelsLoad(records)
  <2>1. \A x, y \in records : x.role = y.role /\ x.query = y.query => x = y
    BY <1>1, <1>3
  <2>2. \A x \in records : x.observed = x.expected
    BY <1>1, <1>3
  <2>3. /\ RecordOf(s) \in records /\ RecordOf(t) \in records
    BY <1>3
  <2>4. \E x, y \in records : /\ x.role = "base" /\ y.role = "reified" /\ x.query = y.query
                              /\ x.expected # y.expected /\ x.observed # y.observed
    BY <1>1, <1>2, <2>3
  <2> HIDE DEF records
  <2> QED BY <2>1, <2>2, <2>4 DEF SentinelsLoad
<1>5. ~SentinelsPass(sentinels, swapped)
  <2>1. answers["reified"][t.query] = t.expected
    BY <1>1, <1>2
  <2>2. swapped[s.role][s.query] # s.expected
    BY <1>2, <2>1
  <2> HIDE DEF swapped
  <2> QED BY <2>2 DEF SentinelsPass
<1> QED BY <1>4, <1>5

\* What the freezer accepts of any store, a loader accepts from its hashes:
\* no store is lost between them, the hashes of clear paths decide the binding, and
\* sentinels that pass would not pass with the two endpoints exchanged.
THEOREM EveryRegistrationHolds ==
    RegistrationsHold
BY EveryStoreThatRegistersLoads, HashesDecideEveryBinding, SentinelsDecideTheRoles
   DEF RegistrationsHold

\* A document that harnesses can read names stores that a loader accepts from their
\* hashes, and with the meaning that the freezer gave them: whatever the origins, the
\* segments and the depth of the paths, the data files, the sentinels and their answers.
THEOREM StoresOfADocumentLoad == Spec => []PublishedStoresLoad
<1>1. PublishedStoresLoad
  BY EveryRegistrationHolds DEF PublishedStoresLoad
<1> QED BY <1>1, PTL
=============================================================================
