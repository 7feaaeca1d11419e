--------------------------- MODULE StateProjection ---------------------------
(***************************************************************************)
(* The State projection transaction of                                     *)
(* meta_flow/state/projection_transaction.py, which rewrites               *)
(* STATE.current.json, STATE.md and CURRENT.json together.                 *)
(*                                                                         *)
(* Unlike an exact-file transaction it has one manifest slot for all       *)
(* transactions, and its lock is a create-only file that names the         *)
(* transaction and is also flock'ed: after a crash the file stays, the     *)
(* flock does not, and recover may take the file over.                     *)
(*                                                                         *)
(* A transaction id is the digest of the planned before and after images,  *)
(* so here it is that plan: a set of records [ref, before, after].  The    *)
(* project has no Work-close generations, so every lineage is empty.       *)
(***************************************************************************)
EXTENDS Integers, FiniteSets

CONSTANTS
  Proc,         \* command processes
  Writer,       \* those that run apply
  Recoverer,    \* those that run recover
  Ref,          \* the projection files, numbered in sort order
  Content, Absent,
  InitialDisk,
  Request,      \* what a caller may ask for: functions from files to contents
  None,
  Blank,        \* the lock file exists but no id has been written into it
  FaultKinds, MaxFaults, MaxCrashes

Image == Content \union {Absent}

ASSUME ProcAssumption    == Proc = Writer \union Recoverer
ASSUME RefAssumption     == Ref \subseteq Int
ASSUME ContentAssumption == Absent \notin Content
ASSUME DiskAssumption    == InitialDisk \in [Ref -> Image]
ASSUME RequestAssumption == \A q \in Request : DOMAIN q \subseteq Ref /\ \A r \in DOMAIN q : q[r] \in Content
ASSUME FaultAssumption   == FaultKinds \subseteq {"lost", "landed"}
ASSUME BoundAssumption   == MaxFaults \in Nat /\ MaxCrashes \in Nat

Target == [ref : Ref, before : Image, after : Content]

\* The changes a request makes to the files as they are in d, and all that can be.
Changes(d, q) ==
  {[ref |-> r, before |-> d[r], after |-> q[r]] : r \in {s \in DOMAIN q : d[s] # q[s]}}
Transaction == {Changes(d, q) : d \in [Ref -> Image], q \in Request}

ASSUME NoneAssumption ==
  None \notin Proc /\ None \notin Transaction /\ None \notin {Blank, "apply", "recover"}

VARIABLES
  disk,      \* the projection files
  journal,   \* transaction.json
  lockId,    \* writer.lock: None when absent, Blank, or the transaction in it
  holder,    \* the live process that holds the flock on it
  pc,        \* what each process does next
  op,        \* the command it runs: apply or recover
  request,   \* what its caller asked for
  mem,       \* the manifest it holds in memory
  done, failed,   \* progress of its restore loop
  dirty,     \* history: files written and neither committed nor restored
  faults, crashes,
  upset      \* history: a recover has restored files without having the lock

vars == <<disk, journal, lockId, holder, pc, op, request, mem, done, failed, dirty,
          faults, crashes, upset>>

Terminal == {"COMMITTED", "RECOVERED"}
States == {"PREPARED", "APPLYING", "PARTIAL"} \union Terminal
Manifest == [tx : SUBSET Target, state : States, attempted : SUBSET Ref, applied : SUBSET Ref]
NoManifest == [tx |-> {}, state |-> "NONE", attempted |-> {}, applied |-> {}]

Unresolved(m) == m.state \in {"PREPARED", "APPLYING", "PARTIAL"}

\* The steps that write the files and the manifest.
Mutating == {"prepare", "begin", "next", "replace", "account", "restore"}

Refs(tx) == {t.ref : t \in tx}
TargetOf(tx, r) == CHOOSE t \in tx : t.ref = r

-----------------------------------------------------------------------------
\* The changes a request makes to the files as they are now.
PlanFor(q) == Changes(disk, q)

(* inspect_state_projection_transaction without the lock finding: nothing   *)
(* unresolved, and every target as the last transaction left it.            *)
JournalCurrent ==
  \/ journal = NoManifest
  \/ /\ journal.state \in Terminal
     /\ \A t \in journal.tx :
          disk[t.ref] = IF journal.state = "COMMITTED" THEN t.after ELSE t.before

InspectPass == lockId = None /\ JournalCurrent

Outcomes == {"ok"} \union (IF faults < MaxFaults THEN FaultKinds ELSE {})
Count(o) == faults' = IF o = "ok" THEN faults ELSE faults + 1
Goto(p, step) == pc' = [pc EXCEPT ![p] = step]

\* _write_manifest, then on to `good', or to `bad' if it raised.
Persist(p, m, good, bad) ==
  \E o \in Outcomes :
    /\ journal' = IF o = "lost" THEN journal ELSE m
    /\ Goto(p, IF o = "ok" THEN good ELSE bad)
    /\ mem' = [mem EXCEPT ![p] = m]
    /\ Count(o)

\* The command is over; its process keeps nothing.
Forget(p) ==
  /\ Goto(p, "idle")
  /\ op' = [op EXCEPT ![p] = None]
  /\ request' = [request EXCEPT ![p] = None]
  /\ mem' = [mem EXCEPT ![p] = NoManifest]
  /\ done' = [done EXCEPT ![p] = {}]
  /\ failed' = [failed EXCEPT ![p] = {}]

\* It raised or returned BLOCKED before it had the lock.
Refuse(p) == Forget(p) /\ UNCHANGED <<disk, journal, lockId, holder, dirty, faults, crashes, upset>>

Init ==
  /\ disk = InitialDisk
  /\ journal = NoManifest
  /\ lockId = None /\ holder = None
  /\ pc = [p \in Proc |-> "idle"]
  /\ op = [p \in Proc |-> None]
  /\ request = [p \in Proc |-> None]
  /\ mem = [p \in Proc |-> NoManifest]
  /\ done = [p \in Proc |-> {}]
  /\ failed = [p \in Proc |-> {}]
  /\ dirty = {}
  /\ faults = 0 /\ crashes = 0 /\ upset = FALSE

-----------------------------------------------------------------------------
(* apply_state_projection_transaction before the lock: inspect, then plan.  *)
(* An empty plan is NO_CHANGE.                                              *)
BeginApply(p, q) ==
  /\ pc[p] = "idle"
  /\ InspectPass
  /\ PlanFor(q) # {}
  /\ Goto(p, "planned")
  /\ op' = [op EXCEPT ![p] = "apply"]
  /\ request' = [request EXCEPT ![p] = q]
  /\ mem' = [mem EXCEPT ![p] = [tx |-> PlanFor(q), state |-> "PREPARED",
                                attempted |-> {}, applied |-> {}]]
  /\ UNCHANGED <<disk, journal, lockId, holder, done, failed, dirty, faults, crashes, upset>>

(* _acquire_lock: create the file (it must not exist) and flock it; the id  *)
(* is written in a step of its own.                                         *)
CreateLock(p) ==
  /\ lockId = None
  /\ lockId' = Blank /\ holder' = p
  /\ Goto(p, "naming")
  /\ UNCHANGED <<disk, journal, op, request, mem, done, failed, dirty, faults, crashes, upset>>

AcquireLock(p) ==
  /\ pc[p] = "planned"
  /\ \/ CreateLock(p)
     \/ lockId # None /\ Refuse(p)

NameLock(p) ==
  /\ pc[p] = "naming"
  /\ \/ /\ lockId' = mem[p].tx
        /\ Goto(p, IF op[p] = "apply" THEN "locked" ELSE "reread")
        /\ UNCHANGED <<holder, op, request, mem, done, failed, faults>>
     \/ /\ faults < MaxFaults /\ faults' = faults + 1   \* the file is removed again
        /\ lockId' = None /\ holder' = None
        /\ Forget(p)
  /\ UNCHANGED <<disk, journal, dirty, crashes, upset>>

(* Inspection and planning repeated under the lock, inside the try block: a *)
(* refusal here goes through the except clause like any failure.            *)
LockedAdmission(p) ==
  /\ pc[p] = "locked"
  /\ Goto(p, IF JournalCurrent /\ PlanFor(request[p]) = mem[p].tx THEN "prepare" ELSE "restore")
  /\ UNCHANGED <<disk, journal, lockId, holder, op, request, mem, done, failed, dirty,
                 faults, crashes, upset>>

WritePrepared(p) ==
  /\ pc[p] = "prepare"
  /\ Persist(p, mem[p], "begin", "restore")
  /\ UNCHANGED <<disk, lockId, holder, op, request, done, failed, dirty, crashes, upset>>

WriteApplying(p) ==
  /\ pc[p] = "begin"
  /\ Persist(p, [mem[p] EXCEPT !.state = "APPLYING"], "next", "restore")
  /\ UNCHANGED <<disk, lockId, holder, op, request, done, failed, dirty, crashes, upset>>

\* Mutant: the target is announced in memory only.
AttemptInMemory(p) ==
  /\ pc[p] = "next"
  /\ LET rest == Refs(mem[p].tx) \ mem[p].attempted IN
     \E r \in rest :
       /\ \A s \in rest : r <= s
       /\ mem' = [mem EXCEPT ![p].attempted = @ \union {r}]
  /\ Goto(p, "replace")
  /\ UNCHANGED <<disk, journal, lockId, holder, op, request, done, failed, dirty, faults, crashes, upset>>

\* The next target in sort order is announced in the manifest.
AttemptTarget(p) ==
  /\ pc[p] = "next"
  /\ LET rest == Refs(mem[p].tx) \ mem[p].attempted IN
     \E r \in rest :
       /\ \A s \in rest : r <= s
       /\ Persist(p, [mem[p] EXCEPT !.attempted = @ \union {r}], "replace", "restore")
  /\ UNCHANGED <<disk, lockId, holder, op, request, done, failed, dirty, crashes, upset>>

\* _replace_bytes on the announced target.
ReplaceTarget(p) ==
  /\ pc[p] = "replace"
  /\ \E r \in mem[p].attempted \ mem[p].applied, o \in Outcomes :
       /\ disk' = IF o = "lost" THEN disk ELSE [disk EXCEPT ![r] = TargetOf(mem[p].tx, r).after]
       /\ dirty' = IF o = "lost" THEN dirty ELSE dirty \union {r}
       /\ Goto(p, IF o = "ok" THEN "account" ELSE "restore")
       /\ Count(o)
  /\ UNCHANGED <<journal, lockId, holder, op, request, mem, done, failed, crashes, upset>>

AccountTarget(p) ==
  /\ pc[p] = "account"
  /\ Persist(p, [mem[p] EXCEPT !.applied = mem[p].attempted], "next", "restore")
  /\ UNCHANGED <<disk, lockId, holder, op, request, done, failed, dirty, crashes, upset>>

Commit(p) ==
  /\ pc[p] = "next"
  /\ Refs(mem[p].tx) \subseteq mem[p].attempted
  /\ Persist(p, [mem[p] EXCEPT !.state = "COMMITTED"], "release", "restore")
  /\ dirty' = IF journal'.state = "COMMITTED" THEN dirty \ Refs(mem[p].tx) ELSE dirty
  /\ UNCHANGED <<disk, lockId, holder, op, request, done, failed, crashes, upset>>

-----------------------------------------------------------------------------
(* One iteration of _restore_targets, last attempted target first.  A file  *)
(* with neither image is reported as drift; a write may fail.  Absent is    *)
(* restored by unlink, which has no directory fsync to fail afterwards.     *)
RestoreTarget(p) ==
  /\ pc[p] = "restore"
  /\ LET rest == mem[p].attempted \ done[p] IN
     \E r \in rest :
       LET t == TargetOf(mem[p].tx, r) IN
       /\ \A s \in rest : s <= r
       /\ done' = [done EXCEPT ![p] = @ \union {r}]
       /\ \/ /\ disk[r] = t.before
             /\ dirty' = dirty \ {r}
             /\ UNCHANGED <<disk, failed, faults>>
          \/ /\ disk[r] \notin {t.before, t.after}
             /\ failed' = [failed EXCEPT ![p] = @ \union {r}]
             /\ UNCHANGED <<disk, dirty, faults>>
          \/ /\ disk[r] = t.after /\ t.after # t.before
             /\ \E o \in (IF t.before = Absent THEN Outcomes \ {"landed"} ELSE Outcomes) :
                  /\ disk' = IF o = "lost" THEN disk ELSE [disk EXCEPT ![r] = t.before]
                  /\ dirty' = IF o = "lost" THEN dirty ELSE dirty \ {r}
                  /\ failed' = IF o = "ok" THEN failed ELSE [failed EXCEPT ![p] = @ \union {r}]
                  /\ Count(o)
  /\ UNCHANGED <<journal, lockId, holder, pc, op, request, mem, crashes, upset>>

\* Mutant: targets that could not be restored are forgotten.
FinishRestoreBlind(p) ==
  /\ pc[p] = "restore"
  /\ mem[p].attempted \subseteq done[p]
  /\ Persist(p, [mem[p] EXCEPT !.state = "RECOVERED"], "release", "release")
  /\ UNCHANGED <<disk, lockId, holder, op, request, done, failed, dirty, crashes, upset>>

\* Mutant: a failed rollback is recorded in a state manifests do not have.
FinishRestoreFailed(p) ==
  /\ pc[p] = "restore"
  /\ mem[p].attempted \subseteq done[p]
  /\ Persist(p, [mem[p] EXCEPT !.state = IF failed[p] = {} THEN "RECOVERED" ELSE "FAILED"],
             "release", "release")
  /\ UNCHANGED <<disk, lockId, holder, op, request, done, failed, dirty, crashes, upset>>

(* The except clause of apply, and recover, both end by writing their       *)
(* manifest whatever the slot holds.                                        *)
FinishRestore(p) ==
  /\ pc[p] = "restore"
  /\ mem[p].attempted \subseteq done[p]
  /\ Persist(p, [mem[p] EXCEPT !.state = IF failed[p] = {} THEN "RECOVERED" ELSE "PARTIAL"],
             "release", "release")
  /\ UNCHANGED <<disk, lockId, holder, op, request, done, failed, dirty, crashes, upset>>

\* What _release_lock and the death of the holder do to the lock of p.
DropLock(p, left) ==
  IF holder = p THEN holder' = None /\ lockId' \in left ELSE UNCHANGED <<holder, lockId>>

\* _release_lock, if this process has the lock: unlink, then drop the flock.
ReleaseLock(p) ==
  /\ pc[p] = "release"
  /\ DropLock(p, {None})
  /\ Forget(p)
  /\ UNCHANGED <<disk, journal, dirty, faults, crashes, upset>>

-----------------------------------------------------------------------------
\* recover_state_projection_transaction reads the manifest without a lock.
BeginRecover(p) ==
  /\ pc[p] = "idle"
  /\ Goto(p, "read")
  /\ op' = [op EXCEPT ![p] = "recover"]
  /\ mem' = [mem EXCEPT ![p] = journal]
  /\ UNCHANGED <<disk, journal, lockId, holder, request, done, failed, dirty, faults, crashes, upset>>

\* Mutant: recover opens the lock file without taking the flock.
ClaimableUnflocked(m) == lockId \notin {None, Blank} /\ (Unresolved(m) => lockId = m.tx)

\* Mutant: the lock must name the transaction in the slot even when that is over.
ClaimableOwn(m) == lockId \notin {None, Blank} /\ holder = None /\ lockId = m.tx

(* The lock file recover may take over: nobody alive holds it and it names  *)
(* the transaction, or, with nothing to recover, any transaction.           *)
Claimable(m) ==
  /\ lockId \notin {None, Blank} /\ holder = None
  /\ Unresolved(m) => lockId = m.tx

ClaimLock(p) ==
  /\ pc[p] = "read"
  /\ \/ /\ Claimable(mem[p])
        /\ holder' = p
        /\ Goto(p, "reread")
        /\ UNCHANGED <<disk, journal, lockId, op, request, mem, done, failed, dirty,
                       faults, crashes, upset>>
     \/ Unresolved(mem[p]) /\ CreateLock(p)
     \/ /\ mem[p].state \in Terminal /\ lockId = None    \* goes on without a lock
        /\ Goto(p, "reread")
        /\ UNCHANGED <<disk, journal, lockId, holder, op, request, mem, done, failed, dirty,
                       faults, crashes, upset>>
     \/ /\ ~Claimable(mem[p])
        /\ lockId # None \/ mem[p] = NoManifest
        /\ Refuse(p)

(* The manifest is read again; only an unresolved transaction with the id   *)
(* read before is restored.                                                 *)
RereadJournal(p) ==
  /\ pc[p] = "reread"
  /\ IF journal.tx = mem[p].tx /\ Unresolved(journal)
     THEN /\ Goto(p, "restore") /\ mem' = [mem EXCEPT ![p] = journal]
          /\ upset' = (upset \/ holder # p)
     ELSE Goto(p, "release") /\ UNCHANGED <<mem, upset>>
  /\ UNCHANGED <<disk, journal, lockId, holder, op, request, done, failed, dirty, faults, crashes>>

(* A process dies and leaves the lock file, or is interrupted and only its  *)
(* finally clause runs, which removes it (there is none around the creation *)
(* of the lock).                                                            *)
Crash(p) ==
  /\ pc[p] # "idle"
  /\ crashes < MaxCrashes /\ crashes' = crashes + 1
  /\ DropLock(p, IF pc[p] = "naming" THEN {lockId} ELSE {lockId, None})
  /\ Forget(p)
  /\ UNCHANGED <<disk, journal, dirty, faults, upset>>

Step(p) ==
  \/ AcquireLock(p) \/ NameLock(p) \/ LockedAdmission(p)
  \/ WritePrepared(p) \/ WriteApplying(p)
  \/ AttemptTarget(p) \/ ReplaceTarget(p) \/ AccountTarget(p) \/ Commit(p)
  \/ RestoreTarget(p) \/ FinishRestore(p) \/ ReleaseLock(p)
  \/ ClaimLock(p) \/ RereadJournal(p)

Next ==
  \/ \E p \in Proc : Step(p) \/ Crash(p)
  \/ \E p \in Recoverer : BeginRecover(p)
  \/ \E p \in Writer, q \in Request : BeginApply(p, q)

Spec == Init /\ [][Next]_vars

(* A command once started runs on: none of its steps waits.  An operator    *)
(* who finds the projection blocked repeats recover.                        *)
Fairness ==
  /\ \A p \in Proc : WF_vars(Step(p))
  /\ SF_vars(~InspectPass /\ holder = None /\ \E p \in Recoverer : BeginRecover(p))

FairSpec == Spec /\ Fairness

-----------------------------------------------------------------------------
TypeOK ==
  /\ disk \in [Ref -> Image]
  /\ journal \in Manifest \union {NoManifest}
  /\ lockId \in {None, Blank} \/ lockId \subseteq Target
  /\ holder \in Proc \union {None}
  /\ pc \in [Proc -> Mutating \union {"idle", "planned", "naming", "locked", "read", "reread", "release"}]
  /\ op \in [Proc -> {"apply", "recover", None}]
  /\ request \in [Proc -> Request \union {None}]
  /\ mem \in [Proc -> Manifest \union {NoManifest}]
  /\ done \in [Proc -> SUBSET Ref]
  /\ failed \in [Proc -> SUBSET Ref]
  /\ dirty \subseteq Ref
  /\ faults \in Nat /\ crashes \in Nat /\ upset \in BOOLEAN

(* A live writer cannot be taken over: whatever the others do, a process    *)
(* that holds the lock keeps it until it releases it or dies.               *)
LiveLockIsKept ==
  [][\A p \in Proc : holder = p /\ pc'[p] # "idle" => holder' = p /\ lockId' # None]_vars

(* No half-written file without a journal: every file written and neither   *)
(* committed nor restored is listed as attempted by the unresolved          *)
(* transaction in the slot, so that recover will restore it.                *)
NothingForgotten ==
  dirty # {} /\ ~upset => journal.state \in {"APPLYING", "PARTIAL"} /\ dirty \subseteq journal.attempted

(* A resolved slot is the truth: when nobody holds the lock and the         *)
(* transaction in the slot is terminal, the files are as it says and        *)
(* the next apply is admitted.                                              *)
ResolvedMeansCurrent ==
  (lockId = None /\ ~upset /\ journal.state \in Terminal) => JournalCurrent

(* If recover is repeated whenever inspection blocks, inspection passes     *)
(* again and again, unless a process died between creating the lock file    *)
(* and naming it, or after it named the transaction it had read while the   *)
(* slot has got another one, or the files were restored without a lock.     *)
Misnamed == Unresolved(journal) /\ lockId \notin {None, Blank, journal.tx}
UsableAgain ==
  []<>InspectPass \/ <>[](holder = None /\ (lockId = Blank \/ Misnamed)) \/ <>upset
=============================================================================
