---------------------------- MODULE FreezeInputs ----------------------------
(***************************************************************************)
(* freeze_inputs.py in formal mode: a freezer captures the identity of the *)
(* repository, the manifests, data and tools, probes the stores, proves    *)
(* with a canary triple that the update endpoint writes the registered     *)
(* store, and publishes one document that names all of it.  The document   *)
(* is written under a temporary name, hard-linked to its own, validated    *)
(* again while it has two links (a loader refuses it then), and only then  *)
(* loses the temporary name.  Several freezers may target one name and one *)
(* store; any may be killed, fail, be interrupted, time out or see the     *)
(* identity move.                                                          *)
(* What it accepts of the stores is in StoreRegistration.                  *)
(***************************************************************************)
EXTENDS StoreRegistration

CONSTANTS Freezers, MaxIdentity

NoOne == "no one"
Absent == 0

ASSUME FreezeAssumption == MaxIdentity \in Nat \ {0} /\ NoOne \notin Freezers

VARIABLES
  identity,   \* of HEAD, the manifests, the data files and the tools
  store,      \* canary triples in the store
  pending,    \* updates the store received and has not applied
  target,     \* the identity in the published name, or Absent
  temp,       \* the temporary name: none, file, or linked to the target too
  outputLock, \* flock of the output directory
  storeLock,  \* flock of the store
  pc, round,  \* of a freezer: where it is; before or during publication
  document,   \* the identity it captured
  worker,     \* the step of its canary process
  confirmed   \* history: identities that a staged validation found unchanged

vars == <<identity, store, pending, target, temp, outputLock, storeLock, pc,
          round, document, worker, confirmed>>
locks == <<outputLock, storeLock>>
name == <<target, temp>>
network == <<store, pending>>

Subject(p) == <<p, round[p]>>
Update(p, kind) == [kind |-> kind, subject |-> Subject(p)]

SingleLink == \A p \in Freezers : temp[p] # "linked"

\* What load_frozen_batch accepts.
Loadable == target # Absent /\ SingleLink

-----------------------------------------------------------------------------
(* The store.  An update whose answer was lost may be applied later or not. *)

Applied(s, u) == IF u.kind = "insert" THEN s \cup {u.subject} ELSE s \ {u.subject}

StoreApplies ==
  \E u \in pending :
    /\ store' = Applied(store, u) /\ pending' = pending \ {u}
    /\ UNCHANGED <<identity, name, locks, pc, round, document, worker, confirmed>>

StoreDrops ==
  \E u \in pending :
    /\ pending' = pending \ {u}
    /\ UNCHANGED <<identity, store, name, locks, pc, round, document, worker, confirmed>>

Answered(u) == store' = Applied(store, u) /\ UNCHANGED pending
Lost(u) == pending' = pending \cup {u} /\ UNCHANGED store

-----------------------------------------------------------------------------
(* The canary process: INSERT, ASK, DELETE, ASK, and one DELETE if any of   *)
(* them failed.  It is forked and holds whatever locks its freezer holds.   *)

Running(p) == worker[p] \in {"insert", "see", "delete", "unsee", "cleanup"}

Alive(p) == pc[p] \notin {"done", "raised", "killed"}

\* The locks a killed freezer still has last as long as its canary process.
Dropped(lock, p) == IF lock = p THEN NoOne ELSE lock
LocksOutlive(p) ==
  IF Alive(p) THEN UNCHANGED locks
  ELSE outputLock' = Dropped(outputLock, p) /\ storeLock' = Dropped(storeLock, p)

WorkerAt(p, step) == worker' = [worker EXCEPT ![p] = step]

WorkerSends(p, step, kind, next) ==
  /\ worker[p] = step
  /\ \/ Answered(Update(p, kind)) /\ WorkerAt(p, next)
     \/ Lost(Update(p, kind)) /\ WorkerAt(p, "cleanup")
     \/ UNCHANGED network /\ WorkerAt(p, "cleanup")
  /\ UNCHANGED locks

WorkerAsks(p, step, expected, next) ==
  /\ worker[p] = step
  /\ \/ ((Subject(p) \in store) = expected) /\ WorkerAt(p, next)
     \/ WorkerAt(p, "cleanup")
  /\ UNCHANGED <<network, locks>>

\* What the process reports, if there still is a freezer to hear it.
Reported(p, verdict) == IF Alive(p) THEN verdict ELSE "none"

WorkerCleansUp(p) ==
  /\ worker[p] = "cleanup"
  /\ \/ Answered(Update(p, "delete"))
     \/ Lost(Update(p, "delete"))
     \/ UNCHANGED network
  /\ WorkerAt(p, Reported(p, "failed"))
  /\ LocksOutlive(p)

WorkerProves(p) ==
  /\ worker[p] = "unsee" /\ Subject(p) \notin store
  /\ WorkerAt(p, Reported(p, "proved"))
  /\ UNCHANGED network /\ LocksOutlive(p)

Canary(p) ==
  /\ \/ WorkerSends(p, "insert", "insert", "see")
     \/ WorkerAsks(p, "see", TRUE, "delete")
     \/ WorkerSends(p, "delete", "delete", "unsee")
     \/ worker[p] = "unsee" /\ WorkerAt(p, "cleanup") /\ UNCHANGED <<network, locks>>
     \/ WorkerCleansUp(p) \/ WorkerProves(p)
  /\ UNCHANGED <<identity, name, pc, round, document, confirmed>>

-----------------------------------------------------------------------------
(* Ends of a freezer. *)

At(p, step) == pc' = [pc EXCEPT ![p] = step]
Ends(p, how) == /\ At(p, how)
                /\ outputLock' = Dropped(outputLock, p)
                /\ storeLock' = Dropped(storeLock, p)

\* The target carries the link this freezer made.
Created(p) == pc[p] = "unlinked" \/ temp[p] = "linked"

\* An exception: the rollback removes a name this freezer created, and the
\* temporary one, but keeps the second link of a target it cannot remove.  An
\* unlink may fail.
Discarded_KeepsNoLink(p) == {"none", "file"}
Discarded(p) == IF temp[p] = "linked" THEN {"linked"} ELSE {"none", temp[p]}
RollsBack(p) ==
  \/ /\ Created(p) /\ target' = Absent
     /\ \E left \in {"none", "file"} :
          temp' = [temp EXCEPT ![p] = IF @ = "none" THEN "none" ELSE left]
  \/ /\ UNCHANGED target
     /\ \E left \in Discarded(p) : temp' = [temp EXCEPT ![p] = left]

Raise(p) ==
  /\ RollsBack(p) /\ Ends(p, "raised")
  /\ UNCHANGED <<identity, round, document, confirmed>>

\* An I/O error or an interrupt while no canary process runs.
Fails(p) ==
  /\ Alive(p) /\ pc[p] # "start" /\ ~Running(p)
  /\ Raise(p) /\ WorkerAt(p, "none") /\ UNCHANGED network

\* Ctrl-C while the freezer waits for its canary process: the wait is not in the try that
\* would kill it, both locks are released on the way out, and the process, which has its
\* own session, goes on.
Interrupt(p) ==
  /\ pc[p] = "canary" /\ Running(p)
  /\ Raise(p) /\ UNCHANGED <<network, worker>>

\* SIGKILL: no handler runs, and a running canary process keeps the locks.
KilledLocks_Freed(p) == outputLock' = Dropped(outputLock, p)
                        /\ storeLock' = Dropped(storeLock, p)
KilledLocks(p) == IF Running(p) THEN UNCHANGED locks
                  ELSE outputLock' = Dropped(outputLock, p)
                       /\ storeLock' = Dropped(storeLock, p)
Kill(p) ==
  /\ Alive(p) /\ pc[p] # "start"
  /\ At(p, "killed") /\ KilledLocks(p)
  /\ WorkerAt(p, IF Running(p) THEN worker[p] ELSE "none")
  /\ UNCHANGED <<identity, network, name, round, document, confirmed>>

IdentityMoves ==
  /\ identity < MaxIdentity
  /\ identity' = identity + 1
  /\ UNCHANGED <<network, name, locks, pc, round, document, worker, confirmed>>

-----------------------------------------------------------------------------
(* A freezer: capture, probe, canary, check, publish. *)

\* What validate_manifest, hash_named_paths and git_identity read.
Captured == identity

Capture(p) ==
  /\ pc[p] = "start"
  /\ document' = [document EXCEPT ![p] = Captured]
  /\ At(p, "sentinels")
  /\ UNCHANGED <<identity, network, name, locks, round, worker, confirmed>>

\* A sentinel's fingerprint is of the store without a canary; some see one.
ProbeMayDiffer == store # {}

Sentinels(p) ==
  /\ pc[p] = "sentinels"
  /\ UNCHANGED <<network, worker>>
  /\ \/ /\ At(p, "canary")
        /\ UNCHANGED <<identity, name, locks, round, document, confirmed>>
     \/ ProbeMayDiffer /\ Raise(p)

LockStore(p) ==
  /\ pc[p] = "canary" /\ worker[p] = "none"
  /\ UNCHANGED network
  /\ \/ /\ storeLock = NoOne /\ storeLock' = p /\ WorkerAt(p, "insert")
        /\ UNCHANGED <<identity, name, outputLock, pc, round, document, confirmed>>
     \/ storeLock # NoOne /\ Raise(p) /\ UNCHANGED worker

CanarySucceeded(p) ==
  /\ pc[p] = "canary" /\ worker[p] = "proved"
  /\ At(p, "check") /\ WorkerAt(p, "none")
  /\ storeLock' = NoOne
  /\ UNCHANGED <<identity, network, name, outputLock, round, document, confirmed>>

\* A cleanup that was answered is taken for a proof.
CanaryFailed_ForgivesACleanup(p) ==
  /\ pc[p] = "canary" /\ worker[p] \notin {"none"}
  /\ \E u \in {{}, {Update(p, "insert")}} :
       /\ u = {} \/ worker[p] = "insert"
       /\ store' = Applied(store, Update(p, "delete")) /\ pending' = pending \cup u
  /\ WorkerAt(p, "none") /\ At(p, "check") /\ storeLock' = NoOne
  /\ UNCHANGED <<identity, name, outputLock, round, document, confirmed>>

\* The request a killed worker may leave behind.
InRequest(p) ==
  {{}} \cup {{Update(p, worker[p])} : k \in {worker[p]} \cap {"insert", "delete"}}
       \cup {{Update(p, "delete")} : k \in {worker[p]} \cap {"cleanup"}}

\* The deadline kills the worker under its request; then, and whenever the
\* worker did not prove its case, one more bounded DELETE, and the freeze fails.
CanaryFailed(p) ==
  /\ pc[p] = "canary" /\ worker[p] \notin {"none"}
  /\ \E u \in InRequest(p) :
       LET left == pending \cup u
           last == Update(p, "delete")
       IN \/ store' = Applied(store, last) /\ pending' = left
          \/ pending' = left \cup {last} /\ UNCHANGED store
          \/ pending' = left /\ UNCHANGED store
  /\ WorkerAt(p, "none")
  /\ Raise(p)

IdentityHolds(p) == identity = document[p]

\* Before publication: Git and every snapshot again; in the staged validation
\* the same, and the identity is confirmed.
Check(p) ==
  /\ pc[p] = "check"
  /\ UNCHANGED <<network, worker>>
  /\ IF ~IdentityHolds(p) THEN Raise(p)
     ELSE /\ At(p, IF round[p] = 1 THEN "write" ELSE "validated")
          /\ confirmed' = IF round[p] = 2 THEN confirmed \cup {identity} ELSE confirmed
          /\ UNCHANGED <<identity, name, locks, round, document>>

OutputIsFree_Always == TRUE
OutputIsFree == outputLock = NoOne

WriteTemporary(p) ==
  /\ pc[p] = "write" /\ OutputIsFree
  /\ outputLock' = p
  /\ temp' = [temp EXCEPT ![p] = "file"]
  /\ At(p, "link")
  /\ UNCHANGED <<identity, network, target, storeLock, round, document, worker, confirmed>>

MatchesTarget(p) == Loadable /\ target = document[p]

Link(p) ==
  /\ pc[p] = "link"
  /\ UNCHANGED <<network, worker>>
  /\ IF target # Absent /\ ~MatchesTarget(p) THEN Raise(p)
     ELSE /\ IF target = Absent
             THEN target' = document[p] /\ temp' = [temp EXCEPT ![p] = "linked"]
             ELSE UNCHANGED name
          /\ round' = [round EXCEPT ![p] = 2]
          /\ At(p, "sentinels")
          /\ UNCHANGED <<identity, locks, document, confirmed>>

\* The second name goes: from here on the target is loadable.
Unlink(p) ==
  /\ pc[p] = "validated" /\ temp[p] = "linked"
  /\ temp' = [temp EXCEPT ![p] = "none"]
  /\ At(p, "unlinked")
  /\ UNCHANGED <<identity, network, target, locks, round, document, worker, confirmed>>

\* The directory is synced, or (Fails) it is not and the name is withdrawn.
Commit(p) ==
  /\ pc[p] = "unlinked"
  /\ Ends(p, "done")
  /\ UNCHANGED <<identity, network, name, round, document, worker, confirmed>>

\* Another freezer had published the same bytes.
Adopt(p) ==
  /\ pc[p] = "validated" /\ temp[p] = "file"
  /\ UNCHANGED <<network, worker>>
  /\ IF ~MatchesTarget(p) THEN Raise(p)
     ELSE /\ \E left \in {"none", "file"} : temp' = [temp EXCEPT ![p] = left]
          /\ Ends(p, "done")
          /\ UNCHANGED <<identity, target, round, document, confirmed>>

-----------------------------------------------------------------------------
Init ==
  /\ identity = 1
  /\ store = {} /\ pending = {}
  /\ target = Absent
  /\ temp = [p \in Freezers |-> "none"]
  /\ outputLock = NoOne /\ storeLock = NoOne
  /\ pc = [p \in Freezers |-> "start"]
  /\ round = [p \in Freezers |-> 1]
  /\ document = [p \in Freezers |-> Absent]
  /\ worker = [p \in Freezers |-> "none"]
  /\ confirmed = {}

Step(p) ==
  \/ Capture(p) \/ Sentinels(p) \/ LockStore(p) \/ Canary(p)
  \/ CanarySucceeded(p) \/ CanaryFailed(p) \/ Check(p) \/ WriteTemporary(p)
  \/ Link(p) \/ Unlink(p) \/ Commit(p) \/ Adopt(p)

Next ==
  \/ IdentityMoves \/ StoreApplies \/ StoreDrops
  \/ \E p \in Freezers : Step(p) \/ Fails(p) \/ Interrupt(p) \/ Kill(p)

Spec == Init /\ [][Next]_vars

-----------------------------------------------------------------------------
(* Properties. *)

\* A document a loader accepts names an identity that a staged validation
\* found unchanged after the document existed, whoever was killed, failed or
\* could not remove a name.
LoadableIsValidated == Loadable => target \in confirmed

\* Every freezer that succeeded succeeded with the document that is published,
\* which stays loadable: no later freezer replaces, withdraws or aliases it.
FreezersAgree ==
  \A p \in Freezers : pc[p] = "done" => Loadable /\ target = document[p]

\* A canary triple that is in the store, or may still reach it, belongs to a
\* freezer that is at it or did not succeed.
LeftoverCanaryHasAFailedOwner ==
  \A s \in store \cup {u.subject : u \in {v \in pending : v.kind = "insert"}} :
    \/ pc[s[1]] \in {"raised", "killed"}
    \/ pc[s[1]] = "canary" /\ round[s[1]] = s[2]

\* A canary process whose freezer was interrupted under it.
Unguarded(p) == Running(p) /\ pc[p] = "raised"

\* Two canary processes write to the store together only if the freezer of one was
\* interrupted while it waited: the process of a killed freezer still holds the lock, and
\* a freezer that fails or times out has ended its own.
OneCanaryAtATime ==
  \A p, q \in Freezers : p # q /\ Running(p) /\ Running(q) => Unguarded(p) \/ Unguarded(q)

\* A document that has been validated and published can be read by the harnesses:
\* what validate_store_specs, _bind_update_endpoint and run_sentinels accepted,
\* load_frozen_batch accepts from the hashes, and with the same meaning.
PublishedStoresLoad == Loadable => RegistrationsHold

=============================================================================

