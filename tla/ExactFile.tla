------------------------------ MODULE ExactFile ------------------------------
(***************************************************************************)
(* The bounded exact-file transaction of                                   *)
(* meta_flow/execution_control/exact_file_transaction.py: a plan names a   *)
(* set of files with the exact bytes each must have before and will have   *)
(* after; a one-shot authorization lets it be applied under a durable      *)
(* manifest; an interrupted transaction is rolled back by `recover'.       *)
(*                                                                         *)
(* Processes run apply and recover concurrently, may die at any step, and  *)
(* any file write may raise, either before the rename of write_atomic or   *)
(* after it (the directory fsync fails although the new bytes are there).  *)
(*                                                                         *)
(* File contents are opaque values; a digest identifies its content.  The  *)
(* plan, its digest and the authorization bound to it are one constant     *)
(* record per authorization id.                                            *)
(***************************************************************************)
EXTENDS Integers, FiniteSets

CONSTANTS
  Proc,        \* command processes
  Auth,        \* authorization ids; one manifest directory each
  Ref,         \* target paths, numbered in sort order
  Content,     \* file contents
  Absent,      \* the file does not exist
  InitialDisk, \* the files when the first plan is made
  Plan,        \* the frozen plan each authorization is bound to
  None,        \* no process, no authorization, no manifest
  FaultKinds,  \* how a write may fail: "lost" and/or "landed"
  MaxFaults, MaxCrashes, MaxEdits   \* bounds of a model

Image == Content \union {Absent}

PlanType == [targets : SUBSET Ref, before : [Ref -> Image], after : [Ref -> Content]]

ASSUME RefAssumption   == Ref \subseteq Int
ASSUME AbsentAssumption == Absent \notin Content
ASSUME DiskAssumption  == InitialDisk \in [Ref -> Image]
ASSUME PlanAssumption  == Plan \in [Auth -> PlanType]
ASSUME NoneAssumption  == None \notin Proc /\ None \notin Auth
ASSUME FaultAssumption == FaultKinds \subseteq {"lost", "landed"}
ASSUME BoundAssumption == MaxFaults \in Nat /\ MaxCrashes \in Nat /\ MaxEdits \in Nat

VARIABLES
  disk,      \* the target files
  journal,   \* authorization id -> manifest.json, or NoManifest
  lock,      \* holder of the shared projection writer flock
  pc,        \* what each process does next
  job,       \* the authorization each process works on
  mem,       \* the manifest each process holds in memory
  done,      \* targets the running rollback has dealt with
  failures,  \* of those, the ones it could not restore
  owner,     \* history: whose forward write produced a file's current bytes
  faults, crashes, edits

vars == <<disk, journal, lock, pc, job, mem, done, failures, owner,
          faults, crashes, edits>>

States == {"PREPARED", "APPLYING", "COMMITTED", "RECOVERED", "PARTIAL"}
Manifest == [state : States, attempted : SUBSET Ref, applied : SUBSET Ref]

(* A path with no manifest.json.  A record of the same shape keeps the      *)
(* journal a plain function; its state is not one a manifest can have.      *)
NoManifest == [state |-> "NONE", attempted |-> {}, applied |-> {}]

\* Steps at which a process holds the flock.
Critical == {"fresh", "prepare", "begin", "next", "replace", "account", "rollback", "release"}

Targets(a) == Plan[a].targets
Consumed(a) == journal[a] # NoManifest

-----------------------------------------------------------------------------
(* write_atomic: one rename.  A lost write raises before it, a landed one   *)
(* after it; both raise.                                                    *)
Outcomes == {"ok"} \union (IF faults < MaxFaults THEN FaultKinds ELSE {})

Count(o) == faults' = IF o = "ok" THEN faults ELSE faults + 1

\* write_json_atomic of manifest m, then on to `good', or to `bad' if it raised.
Persist(p, m, good, bad) ==
  \E o \in Outcomes :
    /\ journal' = IF o = "lost" THEN journal ELSE [journal EXCEPT ![job[p]] = m]
    /\ pc' = [pc EXCEPT ![p] = IF o = "ok" THEN good ELSE bad]
    /\ mem' = [mem EXCEPT ![p] = m]
    /\ Count(o)

\* replace_bytes of (or unlink for Absent) one target.
WriteTarget(r, image, o) ==
  disk' = IF o = "lost" THEN disk ELSE [disk EXCEPT ![r] = image]

Preimage(a, r) == disk[r] = Plan[a].before[r]
PreimagesExact(a) == \A r \in Targets(a) : Preimage(a, r)

-----------------------------------------------------------------------------
Init ==
  /\ disk = InitialDisk
  /\ journal = [a \in Auth |-> NoManifest]
  /\ lock = None
  /\ pc = [p \in Proc |-> "idle"]
  /\ job = [p \in Proc |-> None]
  /\ mem = [p \in Proc |-> NoManifest]
  /\ done = [p \in Proc |-> {}]
  /\ failures = [p \in Proc |-> {}]
  /\ owner = [r \in Ref |-> None]
  /\ faults = 0 /\ crashes = 0 /\ edits = 0

(* apply_exact_file_plan up to the lock: authorization unused, every target *)
(* at its preimage.  A refusal, for these reasons or because the            *)
(* authorization has expired, returns BLOCKED and changes nothing.          *)
Admit(p, a) ==
  /\ pc[p] = "idle"
  /\ ~Consumed(a)
  /\ PreimagesExact(a)
  /\ pc' = [pc EXCEPT ![p] = "admitted"]
  /\ job' = [job EXCEPT ![p] = a]
  /\ UNCHANGED <<disk, journal, lock, mem, done, failures, owner, faults, crashes, edits>>

\* The flock is non-blocking: BLOCKED when somebody holds it.
AcquireLock(p) ==
  /\ pc[p] = "admitted"
  /\ IF lock = None
     THEN /\ lock' = p
          /\ pc' = [pc EXCEPT ![p] = "fresh"]
          /\ UNCHANGED job
     ELSE /\ pc' = [pc EXCEPT ![p] = "idle"]
          /\ job' = [job EXCEPT ![p] = None]
          /\ UNCHANGED lock
  /\ UNCHANGED <<disk, journal, mem, done, failures, owner, faults, crashes, edits>>

\* Mutant: the authorization is not looked up again under the lock.
FreshAdmissionPreimagesOnly(p) ==
  /\ pc[p] = "fresh"
  /\ pc' = [pc EXCEPT ![p] = IF PreimagesExact(job[p]) THEN "prepare" ELSE "release"]
  /\ UNCHANGED <<disk, journal, lock, job, mem, done, failures, owner, faults, crashes, edits>>

(* Admission repeated under the lock; the before images are read here.      *)
FreshAdmission(p) ==
  /\ pc[p] = "fresh"
  /\ pc' = [pc EXCEPT ![p] = IF ~Consumed(job[p]) /\ PreimagesExact(job[p])
                             THEN "prepare" ELSE "release"]
  /\ UNCHANGED <<disk, journal, lock, job, mem, done, failures, owner, faults, crashes, edits>>

(* The PREPARED manifest is written outside the try block: if that raises,  *)
(* apply raises, and only the lock is released.                             *)
WritePrepared(p) ==
  /\ pc[p] = "prepare"
  /\ Persist(p, [state |-> "PREPARED", attempted |-> {}, applied |-> {}], "begin", "release")
  /\ UNCHANGED <<disk, lock, job, done, failures, owner, crashes, edits>>

WriteApplying(p) ==
  /\ pc[p] = "begin"
  /\ Persist(p, [mem[p] EXCEPT !.state = "APPLYING"], "next", "rollback")
  /\ UNCHANGED <<disk, lock, job, done, failures, owner, crashes, edits>>

\* The next target in sort order is r.
IsNext(p, r) ==
  /\ r \in Targets(job[p]) \ mem[p].attempted
  /\ \A s \in Targets(job[p]) \ mem[p].attempted : r <= s

\* Mutant: the target is announced in memory only.
AttemptInMemory(p) ==
  /\ pc[p] = "next"
  /\ \E r \in Ref :
       /\ IsNext(p, r)
       /\ mem' = [mem EXCEPT ![p].attempted = @ \union {r}]
  /\ pc' = [pc EXCEPT ![p] = "replace"]
  /\ UNCHANGED <<disk, journal, lock, job, done, failures, owner, faults, crashes, edits>>

\* The target is announced in the durable manifest before it is touched.
AttemptTarget(p) ==
  /\ pc[p] = "next"
  /\ \E r \in Ref :
       /\ IsNext(p, r)
       /\ IF Preimage(job[p], r)
          THEN Persist(p, [mem[p] EXCEPT !.attempted = @ \union {r}], "replace", "rollback")
          ELSE /\ pc' = [pc EXCEPT ![p] = "rollback"]
               /\ UNCHANGED <<journal, mem, faults>>
  /\ UNCHANGED <<disk, lock, job, done, failures, owner, crashes, edits>>

ReplaceTarget(p) ==
  /\ pc[p] = "replace"
  /\ \E r \in mem[p].attempted \ mem[p].applied, o \in Outcomes :
       /\ WriteTarget(r, Plan[job[p]].after[r], o)
       /\ owner' = IF o = "lost" THEN owner ELSE [owner EXCEPT ![r] = job[p]]
       /\ pc' = [pc EXCEPT ![p] = IF o = "ok" THEN "account" ELSE "rollback"]
       /\ Count(o)
  /\ UNCHANGED <<journal, lock, job, mem, done, failures, crashes, edits>>

AccountTarget(p) ==
  /\ pc[p] = "account"
  /\ Persist(p, [mem[p] EXCEPT !.applied = mem[p].attempted], "next", "rollback")
  /\ UNCHANGED <<disk, lock, job, done, failures, owner, crashes, edits>>

Commit(p) ==
  /\ pc[p] = "next"
  /\ Targets(job[p]) \subseteq mem[p].attempted
  /\ Persist(p, [mem[p] EXCEPT !.state = "COMMITTED"], "release", "rollback")
  /\ UNCHANGED <<disk, lock, job, done, failures, owner, crashes, edits>>

-----------------------------------------------------------------------------
\* The rollback visits the attempted targets last to first.
IsLast(p, r) ==
  /\ r \in mem[p].attempted \ done[p]
  /\ \A s \in mem[p].attempted \ done[p] : s <= r

\* Mutant: the rollback does not compare the file with its after image.
RollbackBlind(p) ==
  /\ pc[p] = "rollback"
  /\ \E r \in Ref :
       /\ IsLast(p, r)
       /\ done' = [done EXCEPT ![p] = @ \union {r}]
       /\ WriteTarget(r, Plan[job[p]].before[r], "ok")
       /\ owner' = [owner EXCEPT ![r] = None]
  /\ UNCHANGED <<journal, lock, pc, job, mem, failures, faults, crashes, edits>>

\* Absent is restored by unlink, which has no directory fsync to fail afterwards.
RestoreOutcomes(image) == IF image = Absent THEN Outcomes \ {"landed"} ELSE Outcomes

(* One iteration of _rollback_exact: a target still (or again) at its       *)
(* before image is skipped, one at its after image is restored, any other   *)
(* content is left alone and reported.                                      *)
RollbackTarget(p) ==
  /\ pc[p] = "rollback"
  /\ \E r \in Ref :
       /\ IsLast(p, r)
       /\ done' = [done EXCEPT ![p] = @ \union {r}]
       /\ \/ /\ Preimage(job[p], r)
             /\ owner' = [owner EXCEPT ![r] = IF @ = job[p] THEN None ELSE @]
             /\ UNCHANGED <<disk, failures, faults>>
          \/ /\ ~Preimage(job[p], r)
             /\ disk[r] # Plan[job[p]].after[r]
             /\ failures' = [failures EXCEPT ![p] = @ \union {r}]
             /\ UNCHANGED <<disk, owner, faults>>
          \/ /\ ~Preimage(job[p], r)
             /\ disk[r] = Plan[job[p]].after[r]
             /\ \E o \in RestoreOutcomes(Plan[job[p]].before[r]) :
                  /\ WriteTarget(r, Plan[job[p]].before[r], o)
                  /\ owner' = IF o = "lost" THEN owner ELSE [owner EXCEPT ![r] = None]
                  /\ failures' = IF o = "ok" THEN failures
                                 ELSE [failures EXCEPT ![p] = @ \union {r}]
                  /\ Count(o)
  /\ UNCHANGED <<journal, lock, pc, job, mem, crashes, edits>>

\* Mutant: targets that could not be restored are forgotten.
FinishRollbackBlind(p) ==
  /\ pc[p] = "rollback"
  /\ mem[p].attempted \subseteq done[p]
  /\ Persist(p, [mem[p] EXCEPT !.state = "RECOVERED"], "release", "release")
  /\ UNCHANGED <<disk, lock, job, done, failures, owner, crashes, edits>>

\* Mutant: a failed rollback is recorded in a state manifests do not have.
FinishRollbackFailed(p) ==
  /\ pc[p] = "rollback"
  /\ mem[p].attempted \subseteq done[p]
  /\ Persist(p, [mem[p] EXCEPT !.state = IF failures[p] = {} THEN "RECOVERED" ELSE "FAILED"],
             "release", "release")
  /\ UNCHANGED <<disk, lock, job, done, failures, owner, crashes, edits>>

FinishRollback(p) ==
  /\ pc[p] = "rollback"
  /\ mem[p].attempted \subseteq done[p]
  /\ Persist(p, [mem[p] EXCEPT !.state = IF failures[p] = {} THEN "RECOVERED" ELSE "PARTIAL"],
             "release", "release")
  /\ UNCHANGED <<disk, lock, job, done, failures, owner, crashes, edits>>

\* The state of a process that has returned.
Return(p) ==
  /\ lock' = IF lock = p THEN None ELSE lock
  /\ pc' = [pc EXCEPT ![p] = "idle"]
  /\ job' = [job EXCEPT ![p] = None]
  /\ mem' = [mem EXCEPT ![p] = NoManifest]
  /\ done' = [done EXCEPT ![p] = {}]
  /\ failures' = [failures EXCEPT ![p] = {}]

\* The finally clause.
ReleaseLock(p) ==
  /\ pc[p] = "release"
  /\ Return(p)
  /\ UNCHANGED <<disk, journal, owner, faults, crashes, edits>>

-----------------------------------------------------------------------------
\* Mutant: recover takes PARTIAL for a final state.
RecoverButPartial(p, a) ==
  /\ pc[p] = "idle" /\ Consumed(a) /\ lock = None
  /\ lock' = p
  /\ job' = [job EXCEPT ![p] = a]
  /\ mem' = [mem EXCEPT ![p] = journal[a]]
  /\ pc' = [pc EXCEPT ![p] = IF journal[a].state \in {"COMMITTED", "PARTIAL"}
                             THEN "release" ELSE "rollback"]
  /\ UNCHANGED <<disk, journal, done, failures, owner, faults, crashes, edits>>

(* recover_exact_file_transaction: the manifest is read under the lock; a   *)
(* COMMITTED one is NO_CHANGE, every other one is rolled back.              *)
Recover(p, a) ==
  /\ pc[p] = "idle"
  /\ Consumed(a)
  /\ lock = None
  /\ lock' = p
  /\ job' = [job EXCEPT ![p] = a]
  /\ mem' = [mem EXCEPT ![p] = journal[a]]
  /\ pc' = [pc EXCEPT ![p] = IF journal[a].state = "COMMITTED" THEN "release" ELSE "rollback"]
  /\ UNCHANGED <<disk, journal, done, failures, owner, faults, crashes, edits>>

(* A process is killed or interrupted: except Exception does not run, and   *)
(* the flock goes with the process (or with the finally clause).            *)
Crash(p) ==
  /\ pc[p] # "idle"
  /\ crashes < MaxCrashes
  /\ crashes' = crashes + 1
  /\ Return(p)
  /\ UNCHANGED <<disk, journal, owner, faults, edits>>

\* Somebody who does not take the lock edits or removes a target.
Edit(r, c) ==
  /\ edits < MaxEdits
  /\ c # disk[r]
  /\ edits' = edits + 1
  /\ disk' = [disk EXCEPT ![r] = c]
  /\ owner' = [owner EXCEPT ![r] = None]
  /\ UNCHANGED <<journal, lock, pc, job, mem, done, failures, faults, crashes>>

\* One step of a running command.
Step(p) ==
  \/ AcquireLock(p) \/ FreshAdmission(p)
  \/ WritePrepared(p) \/ WriteApplying(p)
  \/ AttemptTarget(p) \/ ReplaceTarget(p) \/ AccountTarget(p) \/ Commit(p)
  \/ RollbackTarget(p) \/ FinishRollback(p) \/ ReleaseLock(p)

Next ==
  \/ \E p \in Proc : Step(p) \/ Crash(p)
  \/ \E p \in Proc, a \in Auth : Admit(p, a) \/ Recover(p, a)
  \/ \E r \in Ref, c \in Image : Edit(r, c)

Spec == Init /\ [][Next]_vars

\* Mutant: inspection does not mind a transaction that is still APPLYING.
ResolvedOrApplying(a) == journal[a].state \in {"NONE", "APPLYING", "COMMITTED", "RECOVERED"}

(* A running command always goes on to its next step (no step of it waits), *)
(* and an operator repeats recover for an unresolved transaction until it   *)
(* gets the non-blocking lock.                                              *)
Resolved(a) == journal[a].state \in {"NONE", "COMMITTED", "RECOVERED"}
Fairness ==
  /\ \A p \in Proc : WF_vars(Step(p))
  /\ \A a \in Auth : SF_vars(~Resolved(a) /\ \E p \in Proc : Recover(p, a))

FairSpec == Spec /\ Fairness
-----------------------------------------------------------------------------
(* inspect_exact_file_transactions: a content is explained when committed   *)
(* plans lead to it from the content the transaction left.                  *)
Edges(r) == {<<Plan[a].before[r], Plan[a].after[r]>> :
               a \in {b \in Auth : journal[b].state = "COMMITTED" /\ r \in Targets(b)}}

Reachable(r, start, current) ==
  \A S \in SUBSET Image :
    (start \in S /\ \A e \in Edges(r) : e[1] \in S => e[2] \in S) => current \in S

Expected(a, r) == IF journal[a].state = "RECOVERED" THEN Plan[a].before[r] ELSE Plan[a].after[r]

InspectPass ==
  \A a \in {b \in Auth : Consumed(b)} :
    /\ Resolved(a)
    /\ \A r \in Targets(a) : Reachable(r, Expected(a, r), disk[r])

-----------------------------------------------------------------------------
TypeOK ==
  /\ disk \in [Ref -> Image]
  /\ journal \in [Auth -> Manifest \union {NoManifest}]
  /\ lock \in Proc \union {None}
  /\ pc \in [Proc -> Critical \union {"idle", "admitted"}]
  /\ job \in [Proc -> Auth \union {None}]
  /\ mem \in [Proc -> Manifest \union {NoManifest}]
  /\ done \in [Proc -> SUBSET Ref]
  /\ failures \in [Proc -> SUBSET Ref]
  /\ owner \in [Ref -> Auth \union {None}]
  /\ faults \in Nat /\ crashes \in Nat /\ edits \in Nat

(* Write-ahead: whatever the instant of a crash, every file that carries    *)
(* bytes of a transaction is named in attempted_refs of its manifest on     *)
(* disk, so recover will visit it.                                          *)
WriteAhead ==
  \A r \in Ref : owner[r] # None =>
    /\ Consumed(owner[r])
    /\ r \in journal[owner[r]].attempted

(* A transaction whose manifest says RECOVERED has left none of its bytes   *)
(* in any file, however many crashes, failed writes and repeated recoveries *)
(* led there.                                                               *)
RecoveredLeavesNothing ==
  \A a \in Auth : journal[a].state = "RECOVERED" => \A r \in Ref : owner[r] # a

(* An authorization is consumed once: no manifest is ever started over or   *)
(* removed, even when two processes were admitted with the same id.         *)
ConsumedOnce ==
  [][\A a \in Auth : Consumed(a) =>
       journal'[a] = journal[a] \/ journal'[a].state \notin {"NONE", "PREPARED"}]_vars

(* A rollback only ever replaces bytes its own transaction wrote (or a user *)
(* put there): it never takes back a file another transaction produced.     *)
NoForeignUndo ==
  [][\A r \in Ref : \A p \in Proc :
       (pc[p] = "rollback" /\ done'[p] # done[p] /\ disk'[r] # disk[r])
         => owner[r] \in {job[p], None}]_vars

(* Once every transaction is resolved, what a COMMITTED one wrote is still  *)
(* there, or was replaced by a chain of later commits: no recovery and no   *)
(* rollback has taken it back.                                              *)
CommittedSurvive ==
  (lock = None /\ edits = 0 /\ \A a \in Auth : Resolved(a)) =>
    \A a \in Auth : journal[a].state = "COMMITTED" =>
      \A r \in Targets(a) : Reachable(r, Plan[a].after[r], disk[r])

(* Inspection is sound: when it passes and nobody is writing, no file       *)
(* carries bytes of a transaction that did not commit.                      *)
InspectionIsSound ==
  (lock = None /\ InspectPass) =>
    \A r \in Ref : owner[r] # None => journal[owner[r]].state = "COMMITTED"

(* COMMITTED is final: recover answers NO_CHANGE to it and nothing rewrites *)
(* the manifest.                                                            *)
CommittedIsFinal ==
  [][\A a \in Auth : journal[a].state = "COMMITTED" => journal'[a] = journal[a]]_vars

(* Somebody else's bytes are in a file the transaction announced: a plan    *)
(* built on, or competing with, an unresolved transaction was applied.      *)
Overtaken(a) ==
  \E r \in journal[a].attempted : disk[r] \notin {Plan[a].before[r], Plan[a].after[r]}

(* Every transaction a crash or a failed write left behind is eventually    *)
(* resolved, when recover is repeated, unless another one was applied over  *)
(* it (apply does not ask whether earlier transactions are resolved): only  *)
(* then may its manifest stay PARTIAL for ever.                             *)
EventuallyResolved == \A a \in Auth : ~Resolved(a) ~> (Resolved(a) \/ Overtaken(a))

-----------------------------------------------------------------------------
(* The manifest as its reader sees it, and the abstract specification.      *)
Status(m) ==
  CASE m.state = "NONE"      -> "new"
    [] m.state = "COMMITTED" -> "committed"
    [] m.state = "RECOVERED" -> "undone"
    [] OTHER                 -> "open"

TxTargets == [a \in Auth |-> Targets(a)]
TxStatus  == [a \in Auth |-> Status(journal[a])]

Abstract == INSTANCE AtomicCommit WITH Target <- TxTargets, status <- TxStatus

(* Seen through its manifests, the transaction is an atomic commit: whatever *)
(* crashes, lost writes, late and repeated recoveries happen, it gives back *)
(* only its own bytes, commits in one step over files no other transaction  *)
(* holds, and is never reopened once committed.                             *)
ImplementsAtomicCommit == Abstract!Spec

-----------------------------------------------------------------------------
(* The inductive strengthening of WriteAhead and RecoveredLeavesNothing.    *)

\* Steps between a durable PREPARED manifest and the first failure.
Forward == {"begin", "next", "replace", "account"}

\* Only the holder of the flock is past AcquireLock.
LockHeld == \A p \in Proc : pc[p] \in Critical => lock = p

\* The manifest about to be created does not exist yet.
FreshManifest == \A p \in Proc : pc[p] = "prepare" => ~Consumed(job[p])

\* As long as nothing failed, memory and disk agree on the manifest.
InStep ==
  \A p \in Proc : pc[p] \in Forward =>
    /\ journal[job[p]] = mem[p]
    /\ mem[p].state = IF pc[p] = "begin" THEN "PREPARED" ELSE "APPLYING"

(* A rollback knows at least the targets the disk manifest names, and each  *)
(* target it has dealt with is free of its bytes or on the failure list.    *)
RollingBack ==
  \A p \in Proc : pc[p] = "rollback" =>
    /\ Consumed(job[p])
    /\ journal[job[p]].attempted \subseteq mem[p].attempted
    /\ \A r \in done[p] : owner[r] = job[p] => r \in failures[p]

\* The rollback starts with nothing dealt with.
RollbackStarts == \A p \in Proc : pc[p] \notin {"rollback", "release"} => done[p] = {}

\* A file owned by a transaction has exactly the bytes its plan names.
OwnerBytes == \A r \in Ref : owner[r] # None => disk[r] = Plan[owner[r]].after[r]

IInv ==
  /\ LockHeld /\ FreshManifest /\ InStep /\ RollingBack /\ RollbackStarts
  /\ OwnerBytes /\ WriteAhead /\ RecoveredLeavesNothing
=============================================================================
