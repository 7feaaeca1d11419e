---------------------------- MODULE CrStatusSync ----------------------------
(***************************************************************************)
(* The status synchronisation of change requests (workflow/                *)
(* cr_status_sync.py and cr_status_transaction.py).  A synchronisation     *)
(* writes two channels one after the other: the State projection, by a     *)
(* State transaction, and then the CR files, by a transaction of its own   *)
(* with a create-only lock file and a manifest that exists only while the  *)
(* transaction is unresolved.                                              *)
(*                                                                         *)
(* A file is the set of change requests whose new status it shows: the     *)
(* record of a change request shows its own, the index, derived from all   *)
(* records, everybody's.  The State transaction is seen as one write that   *)
(* succeeds or fails (module StateProjection has its steps).               *)
(***************************************************************************)
EXTENDS Integers, FiniteSets

CONSTANTS
  Proc,
  Cr,        \* change requests
  Auth,      \* authorizations, each for one transaction
  CrOf,      \* authorization -> its change request
  Shown,     \* the change requests whose status the State projection shows
  Task,      \* the authorizations each process may be asked to use
  Operator,  \* the processes that recover
  Index,     \* CR-INDEX.json
  Rebuild,   \* whether callers pass --rebuild: some of TRUE and FALSE
  None, Torn, Left,
  MaxFaults  \* failed writes and crashes, together

Ref == Cr \union {Index}

ASSUME IndexAssumption == Index \notin Cr
ASSUME TaskAssumption  ==
  Task \in [Proc -> SUBSET Auth] /\ CrOf \in [Auth -> Cr] /\ Shown \subseteq Cr
ASSUME NoneAssumption  ==
  None \notin Proc \union Auth /\ Left \notin Proc \union {None} /\ Torn # None

VARIABLES
  file,      \* the CR files
  state,     \* the State projection
  journal,   \* authorization -> manifest.json of its transaction, None or Torn
  claimed,   \* the authorizations used up
  lock,      \* status-sync.lock: its process, None, or Left behind by one that is gone
  pc,
  job,       \* the authorization a process uses or recovers
  plan,      \* what it saw when it planned: the CR files and State
  applied,   \* the targets it has replaced
  todo,      \* the targets a rollback or a recovery still has to visit
  failed,    \* whether it could not restore one of them
  apart,     \* history: synchronisations that ended neither committed nor undone
  overrun,   \* history: change requests that moved between a plan and its writes
  faults

local == <<pc, job, plan, applied, todo, failed>>
vars  == <<file, state, journal, claimed, lock, local, apart, overrun, faults>>

\* Images of files, the record of a change request showing at most its own, and manifests.
Images(T) == {f \in [T -> SUBSET Cr] : \A c \in T \intersect Cr : f[c] \subseteq {c}}
Manifests == UNION {[before : Images(T), after : Images(T)] : T \in SUBSET Ref}

ASSUME ManifestAssumption == \A m \in Manifests : m \notin {None, Torn}

NoPlan == [file |-> [r \in Ref |-> {}], state |-> {}, both |-> FALSE]
Diff(a, b) == (a \ b) \union (b \ a)

-----------------------------------------------------------------------------
\* The images of a plan for change request c; the index is rebuilt from the records.
After(seen, c, r) ==
  IF r = Index THEN (UNION {seen.file[d] : d \in Cr}) \union {c} ELSE {c}
Targets(seen, c) == {r \in {c, Index} : After(seen, c, r) # seen.file[r]}

Manifest(seen, c) ==
  [before |-> [r \in Targets(seen, c) |-> seen.file[r]],
   after  |-> [r \in Targets(seen, c) |-> After(seen, c, r)]]

Exists(a) == journal[a] # None
Readable(a) == journal[a] \notin {None, Torn}

\* The order of the targets: truth first, the index last.
IsFirst(r, refs) == r \in refs /\ (r = Index => refs = {Index})
IsLast(r, refs) == r \in refs /\ (Index \in refs => r = Index)

\* The formal records are those the plan was made from: the admission is unchanged.
SameRecords(p) == \A c \in Cr : file[c] = plan[p].file[c]
PreimagesExact(p) == \A r \in Targets(plan[p], CrOf[job[p]]) : file[r] = plan[p].file[r]

Goto(p, label) == pc' = [pc EXCEPT ![p] = label]
Faulty == faults < MaxFaults
Count(o) == faults' = IF o = "ok" THEN faults ELSE faults + 1

\* An atomic write, or a removal, is done or not; write_text may also leave a torn file.
Outcomes == {"ok"} \union (IF Faulty THEN {"lost"} ELSE {})
TextOutcomes == {"ok"} \union (IF Faulty THEN {"lost", "torn"} ELSE {})

\* manifest_path.write_text.
WriteManifest(p, good, bad) ==
  \E o \in TextOutcomes :
    /\ journal' = CASE o = "ok"   -> [journal EXCEPT ![job[p]] = Manifest(plan[p], CrOf[job[p]])]
                    [] o = "torn" -> [journal EXCEPT ![job[p]] = Torn]
                    [] o = "lost" -> journal
    /\ Goto(p, IF o = "ok" THEN good ELSE bad)
    /\ Count(o)

\* shutil.rmtree of the transaction directory.
RemoveTransaction(p, good, bad) ==
  \E o \in Outcomes :
    /\ journal' = IF o = "ok" THEN [journal EXCEPT ![job[p]] = None] ELSE journal
    /\ Goto(p, IF o = "ok" THEN good ELSE bad)
    /\ Count(o)

Forget(p) ==
  /\ Goto(p, "idle")
  /\ job' = [job EXCEPT ![p] = None]
  /\ plan' = [plan EXCEPT ![p] = NoPlan]
  /\ applied' = [applied EXCEPT ![p] = {}]
  /\ todo' = [todo EXCEPT ![p] = {}]
  /\ failed' = [failed EXCEPT ![p] = FALSE]

Init ==
  /\ file = [r \in Ref |-> {}] /\ state = {}
  /\ journal = [a \in Auth |-> None] /\ claimed = {} /\ lock = None
  /\ pc = [p \in Proc |-> "idle"] /\ job = [p \in Proc |-> None]
  /\ plan = [p \in Proc |-> NoPlan]
  /\ applied = [p \in Proc |-> {}] /\ todo = [p \in Proc |-> {}]
  /\ failed = [p \in Proc |-> FALSE]
  /\ apart = {} /\ overrun = {} /\ faults = 0

-----------------------------------------------------------------------------
\* What the records say is what the index says.
IndexIsCurrent == file[Index] = UNION {file[c] : c \in Cr}

(* plan_status_sync, and the revalidation at the start of apply_status_sync. *)
(* A stale index blocks the plan, unless it is to be rebuilt.  A plan that   *)
(* need not change State has one channel only.                              *)
Plan(p, a) ==
  /\ pc[p] = "idle" /\ a \in Task[p]
  /\ \E rebuild \in Rebuild : rebuild \/ IndexIsCurrent
  /\ LET c == CrOf[a]
         seen == [file |-> file, state |-> state, both |-> c \in Shown \ state]
     IN /\ seen.both \/ Targets(seen, c) # {}
        /\ plan' = [plan EXCEPT ![p] = seen]
        /\ Goto(p, IF seen.both THEN "prepare" ELSE "check")
  /\ job' = [job EXCEPT ![p] = a]
  /\ UNCHANGED <<file, state, journal, claimed, lock, applied, todo, failed, apart, overrun, faults>>

\* Two channels: State must still be as planned, ...
Prepare(p) ==
  /\ pc[p] = "prepare"
  /\ \/ /\ state = plan[p].state
        /\ Goto(p, "vlock")
        /\ UNCHANGED <<job, plan, applied, todo, failed>>
     \/ state # plan[p].state /\ Forget(p)
  /\ UNCHANGED <<file, state, journal, claimed, lock, apart, overrun, faults>>

\* ... and the admission is checked under the lock, which is given back.
LockToValidate(p) ==
  /\ pc[p] = "vlock"
  /\ \/ /\ lock = None
        /\ lock' = p
        /\ Goto(p, "validate")
        /\ UNCHANGED <<job, plan, applied, todo, failed>>
     \/ lock # None /\ Forget(p) /\ UNCHANGED lock
  /\ UNCHANGED <<file, state, journal, claimed, apart, overrun, faults>>

Validate(p) ==
  /\ pc[p] = "validate"
  /\ lock' = None
  /\ \/ /\ SameRecords(p)
        /\ Goto(p, "state")
        /\ UNCHANGED <<job, plan, applied, todo, failed>>
     \/ ~SameRecords(p) /\ Forget(p)
  /\ UNCHANGED <<file, state, journal, claimed, apart, overrun, faults>>

(* apply_state_projection_transaction with the images of the plan: it       *)
(* compares nothing with the State the plan was made from.  When it fails   *)
(* the command ends.                                                        *)
WriteState(p) ==
  /\ pc[p] = "state"
  /\ \E o \in Outcomes :
       /\ Count(o)
       /\ \/ /\ o = "ok"
             /\ state' = plan[p].state \union {CrOf[job[p]]}
             /\ overrun' = overrun \union Diff(state, plan[p].state)
             /\ Goto(p, "check")
             /\ UNCHANGED <<job, plan, applied, todo, failed>>
          \/ o = "lost" /\ Forget(p) /\ UNCHANGED <<state, overrun>>
  /\ UNCHANGED <<file, journal, claimed, lock, apart>>

-----------------------------------------------------------------------------
\* Mutant: a refusal of the CR transaction ends the command.
BlockedUncompensated(p) == Forget(p)

\* The CR transaction refuses before it wrote anything: State is compensated.
Blocked(p) ==
  IF plan[p].both
  THEN Goto(p, "compensate") /\ UNCHANGED <<job, plan, applied, todo, failed>>
  ELSE Forget(p)

\* No transaction may be unresolved; this is asked before the lock is taken.
CheckUnresolved(p) ==
  /\ pc[p] = "check"
  /\ \/ /\ \A a \in Auth : ~Exists(a)
        /\ Goto(p, "lock")
        /\ UNCHANGED <<job, plan, applied, todo, failed>>
     \/ (\E a \in Auth : Exists(a)) /\ Blocked(p)
  /\ UNCHANGED <<file, state, journal, claimed, lock, apart, overrun, faults>>

LockToApply(p) ==
  /\ pc[p] = "lock"
  /\ \/ /\ lock = None
        /\ lock' = p
        /\ Goto(p, "admit")
        /\ UNCHANGED <<job, plan, applied, todo, failed>>
     \/ lock # None /\ Blocked(p) /\ UNCHANGED lock
  /\ UNCHANGED <<file, state, journal, claimed, apart, overrun, faults>>

(* Under the lock: the admission (with one channel; with two it was checked *)
(* before State was written), the preimages, and the claim of the           *)
(* authorization.  An error other than a refusal ends the command with the  *)
(* lock file in place.                                                      *)
Admit(p) ==
  /\ pc[p] = "admit"
  /\ LET admitted == /\ plan[p].both \/ SameRecords(p)
                     /\ PreimagesExact(p)
                     /\ job[p] \notin claimed
     IN \/ /\ admitted
           /\ \E o \in Outcomes :
                /\ Count(o)
                /\ \/ /\ o = "ok"
                      /\ claimed' = claimed \union {job[p]}
                      /\ overrun' = overrun \union UNION {Diff(file[r], plan[p].file[r]) : r \in Ref}
                      /\ Goto(p, "journal")
                      /\ UNCHANGED <<lock, job, plan, applied, todo, failed, apart>>
                   \/ /\ o = "lost"
                      /\ lock' = Left
                      /\ apart' = IF plan[p].both THEN apart \union {CrOf[job[p]]} ELSE apart
                      /\ Forget(p)
                      /\ UNCHANGED <<claimed, overrun>>
        \/ /\ ~admitted
           /\ lock' = None
           /\ Blocked(p)
           /\ UNCHANGED <<claimed, apart, overrun, faults>>
  /\ UNCHANGED <<file, state, journal>>

\* The backups, the prepared images and the first manifest.
OpenTransaction(p) ==
  /\ pc[p] = "journal"
  /\ WriteManifest(p, "next", "rollback")
  /\ UNCHANGED <<file, state, claimed, lock, job, plan, applied, todo, failed, apart, overrun>>

ReplaceTarget(p) ==
  /\ pc[p] = "next"
  /\ \E r \in Ref, o \in Outcomes :
       /\ IsFirst(r, Targets(plan[p], CrOf[job[p]]) \ applied[p])
       /\ Count(o)
       /\ \/ /\ o = "ok"
             /\ file' = [file EXCEPT ![r] = After(plan[p], CrOf[job[p]], r)]
             /\ applied' = [applied EXCEPT ![p] = @ \union {r}]
             /\ todo' = [todo EXCEPT ![p] = @ \union {r}]
             /\ Goto(p, "receipt")
          \/ o = "lost" /\ Goto(p, "rollback") /\ UNCHANGED <<file, applied, todo>>
  /\ UNCHANGED <<state, journal, claimed, lock, job, plan, failed, apart, overrun>>

WriteReceipt(p) ==
  /\ pc[p] = "receipt"
  /\ WriteManifest(p, "next", "rollback")
  /\ UNCHANGED <<file, state, claimed, lock, job, plan, applied, todo, failed, apart, overrun>>

\* The read-back, and the manifest says committed.
Commit(p) ==
  /\ pc[p] = "next"
  /\ applied[p] = Targets(plan[p], CrOf[job[p]])
  /\ WriteManifest(p, "remove", "rollback")
  /\ UNCHANGED <<file, state, claimed, lock, job, plan, applied, todo, failed, apart, overrun>>

Remove(p) ==
  /\ pc[p] = "remove"
  /\ RemoveTransaction(p, "committed", "rollback")
  /\ UNCHANGED <<file, state, claimed, lock, job, plan, applied, todo, failed, apart, overrun>>

-----------------------------------------------------------------------------
\* The except clause writes the before images back, whatever the files say now.
RollbackTarget(p) ==
  /\ pc[p] = "rollback"
  /\ \E r \in Ref, o \in Outcomes :
       /\ IsLast(r, todo[p])
       /\ todo' = [todo EXCEPT ![p] = @ \ {r}]
       /\ file' = IF o = "ok" THEN [file EXCEPT ![r] = plan[p].file[r]] ELSE file
       /\ failed' = [failed EXCEPT ![p] = @ \/ o = "lost"]
       /\ Count(o)
  /\ UNCHANGED <<state, journal, claimed, lock, pc, job, plan, applied, apart, overrun>>

\* Mutant: a rollback that could not restore every file removes its transaction.
FinishRollbackBlind(p) ==
  /\ pc[p] = "rollback"
  /\ todo[p] = {}
  /\ WriteManifest(p, "discard", "end")
  /\ UNCHANGED <<file, state, claimed, lock, job, plan, applied, todo, failed, apart, overrun>>

\* Its verdict; if even this write raises, the command ends with the error.
FinishRollback(p) ==
  /\ pc[p] = "rollback"
  /\ todo[p] = {}
  /\ WriteManifest(p, IF failed[p] THEN "end" ELSE "discard", "end")
  /\ UNCHANGED <<file, state, claimed, lock, job, plan, applied, todo, failed, apart, overrun>>

\* Without an applied target the transaction was BLOCKED, else it is RECOVERED.
Discard(p) ==
  /\ pc[p] = "discard"
  /\ RemoveTransaction(p, IF applied[p] = {} THEN "blocked" ELSE "end", "end")
  /\ UNCHANGED <<file, state, claimed, lock, job, plan, applied, todo, failed, apart, overrun>>

(* The finally clause, and what the composite makes of the result: only a   *)
(* transaction that replaced nothing is compensated.                        *)
Release(p) ==
  /\ pc[p] \in {"committed", "blocked", "end"}
  /\ lock' = None
  /\ apart' = CASE pc[p] = "committed"                -> apart \ {CrOf[job[p]]}
                [] pc[p] = "end" /\ plan[p].both      -> apart \union {CrOf[job[p]]}
                [] OTHER                              -> apart
  /\ IF pc[p] = "blocked" THEN Blocked(p) ELSE Forget(p)
  /\ UNCHANGED <<file, state, journal, claimed, overrun, faults>>

\* The before images of State go back by another State transaction.
Compensate(p) ==
  /\ pc[p] = "compensate"
  /\ \E o \in Outcomes :
       /\ Count(o)
       /\ \/ /\ o = "ok"
             /\ state' = plan[p].state
             /\ overrun' = overrun \union Diff(state, plan[p].state \union {CrOf[job[p]]})
             /\ UNCHANGED apart
          \/ /\ o = "lost"
             /\ apart' = apart \union {CrOf[job[p]]}
             /\ UNCHANGED <<state, overrun>>
  /\ Forget(p)
  /\ UNCHANGED <<file, journal, claimed, lock>>

-----------------------------------------------------------------------------
(* recover_status_sync_transaction: resume or rollback, under the same      *)
(* lock.  A torn manifest cannot be read; abandon only relabels one.        *)
StartRecovery(p, a, action) ==
  /\ pc[p] = "idle" /\ p \in Operator
  /\ Readable(a) /\ lock = None
  /\ lock' = p
  /\ job' = [job EXCEPT ![p] = a]
  /\ todo' = [todo EXCEPT ![p] = DOMAIN journal[a].before]
  /\ Goto(p, action)
  /\ UNCHANGED <<file, state, journal, claimed, plan, applied, failed, apart, overrun, faults>>

\* The manifest is marked, atomically; a moved HEAD stops the recovery here as well.
MarkRecovery(p) ==
  /\ pc[p] \in {"resume", "undo"}
  /\ \E o \in Outcomes :
       /\ Goto(p, IF o = "lost" THEN "leave"
                  ELSE IF pc[p] = "resume" THEN "resuming" ELSE "undoing")
       /\ Count(o)
  /\ UNCHANGED <<file, state, journal, claimed, lock, job, plan, applied, todo, failed, apart, overrun>>

\* Mutant: a file in neither generation is written all the same.
RecoverTargetBlind(p) ==
  /\ pc[p] \in {"resuming", "undoing"}
  /\ \E r \in Ref :
       /\ IF pc[p] = "resuming" THEN IsFirst(r, todo[p]) ELSE IsLast(r, todo[p])
       /\ todo' = [todo EXCEPT ![p] = @ \ {r}]
       /\ file' = [file EXCEPT ![r] = IF pc[p] = "resuming" THEN journal[job[p]].after[r]
                                      ELSE journal[job[p]].before[r]]
  /\ UNCHANGED <<state, journal, claimed, lock, pc, job, plan, applied, failed, apart, overrun, faults>>

\* One target: left alone at the wanted image, an error in neither generation.
RecoverTarget(p) ==
  /\ pc[p] \in {"resuming", "undoing"}
  /\ \E r \in Ref :
       LET m == journal[job[p]]
           wanted == IF pc[p] = "resuming" THEN m.after[r] ELSE m.before[r]
       IN /\ IF pc[p] = "resuming" THEN IsFirst(r, todo[p]) ELSE IsLast(r, todo[p])
          /\ todo' = [todo EXCEPT ![p] = @ \ {r}]
          /\ \/ /\ file[r] = wanted
                /\ UNCHANGED <<file, failed, faults>>
             \/ /\ file[r] \notin {m.before[r], m.after[r]}
                /\ failed' = [failed EXCEPT ![p] = TRUE]
                /\ UNCHANGED <<file, faults>>
             \/ /\ file[r] # wanted /\ file[r] \in {m.before[r], m.after[r]}
                /\ \E o \in Outcomes :
                     /\ file' = IF o = "ok" THEN [file EXCEPT ![r] = wanted] ELSE file
                     /\ failed' = [failed EXCEPT ![p] = @ \/ o = "lost"]
                     /\ Count(o)
  /\ UNCHANGED <<state, journal, claimed, lock, pc, job, plan, applied, apart, overrun>>

\* Mutant: a recovery that restored every file leaves the transaction.
FinishRecoveryKept(p) ==
  /\ pc[p] \in {"resuming", "undoing"}
  /\ todo[p] = {}
  /\ Goto(p, "leave")
  /\ UNCHANGED <<file, state, journal, claimed, lock, job, plan, applied, todo, failed, apart, overrun, faults>>

\* With an error the transaction stays, PARTIAL; without, it is removed.
FinishRecovery(p) ==
  /\ pc[p] \in {"resuming", "undoing"}
  /\ todo[p] = {}
  /\ \/ failed[p] /\ Goto(p, "leave") /\ UNCHANGED <<journal, faults>>
     \/ ~failed[p] /\ RemoveTransaction(p, "leave", "leave")
  /\ UNCHANGED <<file, state, claimed, lock, job, plan, applied, todo, failed, apart, overrun>>

LeaveRecovery(p) ==
  /\ pc[p] = "leave"
  /\ lock' = None
  /\ Forget(p)
  /\ UNCHANGED <<file, state, journal, claimed, apart, overrun, faults>>

-----------------------------------------------------------------------------
\* A channel may be written and the other one not.
Between(p) == plan[p].both /\ pc[p] \notin {"prepare", "vlock", "validate", "state"}

(* A process is interrupted or killed.  Its finally clause removes the lock *)
(* file, unless it is killed, or interrupted after it took the lock and     *)
(* before the try statement.                                                *)
Crash(p) ==
  /\ pc[p] # "idle" /\ Faulty
  /\ faults' = faults + 1
  /\ \/ lock # p /\ UNCHANGED lock
     \/ lock = p /\ lock' = Left
     \/ lock = p /\ pc[p] # "admit" /\ lock' = None
  /\ apart' = IF Between(p) /\ pc[p] # "committed" THEN apart \union {CrOf[job[p]]} ELSE apart
  /\ Forget(p)
  /\ UNCHANGED <<file, state, journal, claimed, overrun>>

Step(p) ==
  \/ Prepare(p) \/ LockToValidate(p) \/ Validate(p) \/ WriteState(p)
  \/ CheckUnresolved(p) \/ LockToApply(p) \/ Admit(p) \/ OpenTransaction(p)
  \/ ReplaceTarget(p) \/ WriteReceipt(p) \/ Commit(p) \/ Remove(p)
  \/ RollbackTarget(p) \/ FinishRollback(p) \/ Discard(p) \/ Release(p) \/ Compensate(p)
  \/ MarkRecovery(p) \/ RecoverTarget(p) \/ FinishRecovery(p) \/ LeaveRecovery(p)

Next ==
  \E p \in Proc :
    \/ Step(p) \/ Crash(p)
    \/ \E a \in Auth : Plan(p, a) \/ \E action \in {"resume", "undo"} : StartRecovery(p, a, action)

Spec == Init /\ [][Next]_vars

\* Commands run on, and the operator of an unresolved transaction rolls it back while the lock is free.
FairSpec ==
  /\ Spec
  /\ \A p \in Proc : WF_vars(Step(p))
  /\ \A a \in Auth : SF_vars(\E p \in Proc : StartRecovery(p, a, "undo"))

-----------------------------------------------------------------------------
Quiet == lock = None /\ \A a \in Auth : ~Exists(a)

(* When nothing runs and no transaction is left, the index agrees with the  *)
(* records: every synchronisation is whole or gone, also after rollbacks    *)
(* and recoveries, unless records moved between a plan and its writes.      *)
IndexAgrees == Quiet => \A c \in Cr \ overrun : c \in file[Index] <=> c \in file[c]

(* When no command runs and no transaction is left, State and the CR files  *)
(* agree, apart from synchronisations that were reported PARTIAL or died    *)
(* between the channels, and from those whose State another one overwrote.  *)
Idle == \A p \in Proc : pc[p] = "idle"
ChannelsAgree ==
  Quiet /\ Idle => \A c \in Shown \ (apart \union overrun) : c \in state <=> c \in file[c]

(* A change request disappears from the CR files only at the hands of its   *)
(* own synchronisation: no rollback or recovery takes back another one's.   *)
(* (An index that shows a change request undone meanwhile may be corrected.) *)
NoForeignUndo ==
  [][\A r \in Ref : \A c \in (file[r] \ file'[r]) \ overrun :
       \E p \in Proc : job[p] # None /\ CrOf[job[p]] = c]_vars

(* A new synchronisation is blocked while a transaction is unresolved, so   *)
(* there is never more than one to resume or to roll back.  The question is *)
(* asked before the lock, so this is false: see CrStatusSyncOvertaken.cfg.  *)
OneUnresolved == \A a, b \in Auth : Exists(a) /\ Exists(b) => a = b

\* A file of the transaction is in neither of its generations.
Overtaken(a) ==
  \E r \in DOMAIN journal[a].before : file[r] \notin {journal[a].before[r], journal[a].after[r]}

(* An unresolved transaction is resolved by repeated rollback, unless its   *)
(* manifest is torn, its files were overtaken or the lock was left behind.  *)
Resolves ==
  \A a \in Auth : Exists(a) ~> (~Exists(a) \/ journal[a] = Torn \/ Overtaken(a) \/ lock = Left)
=============================================================================
