------------------------------ MODULE Worktree ------------------------------
(***************************************************************************)
(* The project worktree (workspace/project_worktree.py) and its intent     *)
(* journal (workspace/worktree_journal.py).  A branch switch is prepared    *)
(* as a sealed chain of records, which names the state it starts from and  *)
(* the commit it goes to, and executed once, under the project lock, after *)
(* a record that an observation is now required.  Creation and removal of  *)
(* the worktree run without the lock.                                      *)
(*                                                                         *)
(* Git is external: a worktree is on a branch, a branch is at a commit      *)
(* (numbered along one line of history), and "clean" stands for no change,  *)
(* nothing staged or untracked, no operation in progress.                  *)
(***************************************************************************)
EXTENDS Integers, FiniteSets

CONSTANTS
  Proc,
  Branch, Integration,   \* the branches of the project, and its integration branch
  Switch, Create,        \* attempts to switch, attempts to create the worktree
  Goal,                  \* attempt to switch -> branch
  Task,                  \* the attempts each process may be asked to prepare
  Times,                 \* the times execute_switch may be given an observation of
  None,
  MaxCommits, MaxTrouble

Attempt == Switch \union Create

ASSUME BranchAssumption ==
  Integration \in Branch /\ None \notin Branch \union Proc \union Attempt
ASSUME AttemptAssumption == Goal \in [Switch -> Branch] /\ Switch \intersect Create = {}

(* Every observation carries its time.  One that observe_worktree makes     *)
(* carries the present ("fresh"); a caller may pass the time of the one he   *)
(* planned with, or hand that one back ("planned").                          *)
ASSUME TimesAssumption == Times \subseteq {"fresh", "planned"}

VARIABLES
  tree,       \* the worktree: whether it is there, its branch, whether it is clean
  tip,        \* branch -> its commit
  remote,     \* the commit of the integration branch at the remote, or None
  chain,      \* attempt -> the last phase on record
  intent,     \* attempt -> the payload of its INTENT record
  verdict,    \* attempt -> the decision of its FINAL_OBSERVATION record
  calib,      \* the calibration on record: None, "good" or "revoked"
  lock,       \* the holder of project.lock
  pc,
  job,        \* the attempt a process works on
  mem,        \* the observation and the commit a process planned with
  seen,       \* what it made of the observation after a switch
  expired,    \* the attempts whose capacity proof is too old
  runs,       \* history: attempt -> how often "git switch" was run for it
  last,       \* history: the attempt whose "git switch" ran last, and what it did
  disturbed,  \* history: attempts since whose check another than the lock holder has acted
  trouble     \* how much has gone wrong or come from outside

git   == <<tree, tip, remote>>
local == <<pc, job, mem, seen>>
store == <<chain, intent, verdict, calib>>
hist  == <<runs, last, disturbed>>
vars  == <<git, store, lock, local, expired, hist, trouble>>

-----------------------------------------------------------------------------
\* observe_worktree: what an observation tells of the worktree, but for its time.
Observe ==
  IF tree.there
  THEN [there |-> TRUE, ref |-> tree.ref, oid |-> tip[tree.ref],
        base |-> tip[Integration], clean |-> tree.clean]
  ELSE [there |-> FALSE, ref |-> None, oid |-> -1, base |-> -1, clean |-> TRUE]

\* A plan: the observation it starts from and the commit its branch is to point at.
NoPlan == [before |-> [there |-> FALSE, ref |-> None, oid |-> -1, base |-> -1, clean |-> TRUE],
           oid |-> 0]

\* Mutant: the record that an observation is required may be repeated.
FollowsRepeated(old, new) ==
  \/ old = "EMPTY" /\ new \in {"CAPACITY_PROOF", "INTENT"}
  \/ old = "CAPACITY_PROOF" /\ new = "INTENT"
  \/ old = "INTENT" /\ new = "INTENT_SEAL"
  \/ old \in {"INTENT_SEAL", "OBSERVATION_REQUIRED"} /\ new = "OBSERVATION_REQUIRED"
  \/ old = "OBSERVATION_REQUIRED" /\ new = "FINAL_OBSERVATION"

\* The phases that may follow one another.
Follows(old, new) ==
  \/ old = "EMPTY" /\ new \in {"CAPACITY_PROOF", "INTENT"}
  \/ old = "CAPACITY_PROOF" /\ new = "INTENT"
  \/ old = "INTENT" /\ new = "INTENT_SEAL"
  \/ old = "INTENT_SEAL" /\ new = "OBSERVATION_REQUIRED"
  \/ old = "OBSERVATION_REQUIRED" /\ new = "FINAL_OBSERVATION"

\* scan_attempt passes with a durable intent: the intent has its seal.
Sealed(a) == chain[a] \in {"INTENT_SEAL", "OBSERVATION_REQUIRED", "FINAL_OBSERVATION"}
Announced(a) == chain[a] \in {"OBSERVATION_REQUIRED", "FINAL_OBSERVATION"}
Concluded(a) == chain[a] = "FINAL_OBSERVATION"

\* Mutant: a worktree that is not clean is classified by its branch.
ClassifyUnclean(a, plan, now) ==
  CASE now.ref = Goal[a] /\ now.oid = plan.oid -> "target"
    [] ~(now.ref = Goal[a] /\ now.oid = plan.oid)
         /\ now.ref = plan.before.ref /\ now.oid = plan.before.oid -> "original"
    [] OTHER -> "recover"

\* _classify_switch_observation.
Classify(a, plan, now) ==
  CASE ~now.there \/ ~now.clean -> "recover"
    [] now.there /\ now.clean /\ now.ref = Goal[a] /\ now.oid = plan.oid -> "target"
    [] now.there /\ now.clean /\ ~(now.ref = Goal[a] /\ now.oid = plan.oid)
         /\ now.ref = plan.before.ref /\ now.oid = plan.before.oid -> "original"
    [] OTHER -> "recover"

\* resume_worktree_operation: a fresh look, and nothing is run again.
Resume(a) == IF Sealed(a) THEN Classify(a, intent[a], Observe) ELSE "blocked"

Goto(p, label) == pc' = [pc EXCEPT ![p] = label]

\* A command ends: what it held in memory is gone, and so is its lock.
End(p) ==
  /\ Goto(p, "idle")
  /\ job' = [job EXCEPT ![p] = None]
  /\ mem' = [mem EXCEPT ![p] = NoPlan]
  /\ seen' = [seen EXCEPT ![p] = "none"]
Finish(p) == End(p) /\ lock' = IF lock = p THEN None ELSE lock
GoOn(p, label) == Goto(p, label) /\ UNCHANGED <<lock, job, mem, seen>>

\* _persist_json_document: a record is replaced whole; it may fail before the rename
\* ("lost") or after it, in the directory fsync or the readback ("landed").
Outcomes == {"ok"} \union (IF trouble < MaxTrouble THEN {"lost", "landed"} ELSE {})
Count(o) == trouble' = IF o = "ok" THEN trouble ELSE trouble + 1
Trouble == trouble < MaxTrouble /\ trouble' = trouble + 1

\* _persist_phase_unlocked and what its caller does next.
Append(p, phase, label) ==
  LET a == job[p] IN
  \/ /\ Follows(chain[a], phase)
     /\ \E o \in Outcomes :
          /\ chain' = IF o = "lost" THEN chain ELSE [chain EXCEPT ![a] = phase]
          /\ intent' = IF phase = "INTENT" /\ o # "lost"
                       THEN [intent EXCEPT ![a] = mem[p]] ELSE intent
          /\ verdict' = IF phase = "FINAL_OBSERVATION" /\ o # "lost"
                        THEN [verdict EXCEPT ![a] = seen[p]] ELSE verdict
          /\ IF o = "ok" /\ label # "idle" THEN GoOn(p, label) ELSE Finish(p)
          /\ Count(o)
  \/ /\ ~Follows(chain[a], phase)
     /\ Finish(p)
     /\ UNCHANGED <<chain, intent, verdict, trouble>>

Init ==
  /\ tree \in [there : BOOLEAN, ref : {Integration}, clean : {TRUE}]
  /\ tip = [b \in Branch |-> 0] /\ remote = None
  /\ chain = [a \in Attempt |-> "EMPTY"]
  /\ intent = [a \in Attempt |-> NoPlan]
  /\ verdict = [a \in Attempt |-> "none"]
  /\ calib = None /\ lock = None
  /\ pc = [p \in Proc |-> "idle"] /\ job = [p \in Proc |-> None]
  /\ mem = [p \in Proc |-> NoPlan] /\ seen = [p \in Proc |-> "none"]
  /\ expired = {} /\ runs = [a \in Attempt |-> 0] /\ last = [of |-> None, did |-> "none"]
  /\ disturbed = {} /\ trouble = 0

-----------------------------------------------------------------------------
(* Preparation.  plan_worktree_operation and prepare_switch_operation: only *)
(* from a clean worktree, with a calibration that is (still) good.          *)
PlanSwitch(p, a) ==
  /\ pc[p] = "idle" /\ a \in Switch \intersect Task[p] /\ ~Sealed(a)
  /\ tree.there /\ tree.clean /\ calib # "revoked"
  /\ job' = [job EXCEPT ![p] = a]
  /\ mem' = [mem EXCEPT ![p] = [before |-> Observe, oid |-> tip[Goal[a]]]]
  /\ Goto(p, "prepare")
  /\ UNCHANGED <<git, store, lock, seen, expired, hist, trouble>>

\* The plan of a creation names the commit the integration branch is seeded with.
PlanCreate(p, a) ==
  /\ pc[p] = "idle" /\ a \in Create \intersect Task[p] /\ ~Sealed(a) /\ ~tree.there
  /\ job' = [job EXCEPT ![p] = a]
  /\ mem' = [mem EXCEPT ![p] = [before |-> Observe, oid |-> tip[Integration]]]
  /\ Goto(p, "prepare")
  /\ UNCHANGED <<git, store, lock, seen, expired, hist, trouble>>

\* persist_switch_intent, persist_intent: all under one lock, which is not waited for.
LockToPrepare(p) ==
  /\ pc[p] = "prepare"
  /\ \/ /\ lock = None /\ lock' = p
        /\ Goto(p, IF job[p] \in Switch THEN "calibrate" ELSE "intend")
        /\ UNCHANGED <<job, mem, seen>>
     \/ lock # None /\ Finish(p)
  /\ UNCHANGED <<git, store, expired, hist, trouble>>

\* The calibration the plan was made with is written over the one on record.
SaveCalibration(p) ==
  /\ pc[p] = "calibrate"
  /\ \E o \in Outcomes :
       /\ calib' = IF o = "lost" THEN calib ELSE "good"
       /\ IF o = "ok" THEN GoOn(p, "prove") ELSE Finish(p)
       /\ Count(o)
  /\ UNCHANGED <<git, chain, intent, verdict, expired, hist>>

Prove(p) ==
  /\ pc[p] = "prove" /\ Append(p, "CAPACITY_PROOF", "intend")
  /\ UNCHANGED <<git, calib, expired, hist>>
Intend(p) ==
  /\ pc[p] = "intend" /\ Append(p, "INTENT", "seal")
  /\ UNCHANGED <<git, calib, expired, hist>>
Seal(p) ==
  /\ pc[p] = "seal" /\ Append(p, "INTENT_SEAL", "idle")
  /\ UNCHANGED <<git, calib, expired, hist>>

-----------------------------------------------------------------------------
\* Mutant: the lock is not taken.
ExecuteUnlocked(p, a) ==
  /\ pc[p] = "idle" /\ a \in Switch /\ Sealed(a)
  /\ job' = [job EXCEPT ![p] = a]
  /\ mem' = [mem EXCEPT ![p] = intent[a]]
  /\ Goto(p, "examine")
  /\ UNCHANGED <<git, store, lock, seen, expired, hist, trouble>>

(* execute_switch with a durable intent, its own or one found by a scan.    *)
Execute(p, a) ==
  /\ pc[p] = "idle" /\ a \in Switch /\ Sealed(a) /\ lock = None
  /\ lock' = p
  /\ job' = [job EXCEPT ![p] = a]
  /\ mem' = [mem EXCEPT ![p] = intent[a]]
  /\ Goto(p, "examine")
  /\ UNCHANGED <<git, store, seen, expired, hist, trouble>>

(* Under the lock: a concluded attempt is only looked at; otherwise the     *)
(* worktree must be as it was planned, and the proof and its calibration    *)
(* still hold.  Observations are compared by a digest that covers the time, *)
(* so one of any other time is before_observation_drift.                    *)
SameDigest(plan, time) == time = "planned" /\ Observe = plan.before

Examine(p) ==
  /\ pc[p] = "examine"
  /\ \/ Concluded(job[p]) /\ Finish(p) /\ UNCHANGED disturbed
     \/ /\ ~Concluded(job[p])
        /\ \/ \E time \in Times : ~SameDigest(mem[p], time)
           \/ job[p] \in expired \/ calib # "good"
        /\ Finish(p) /\ UNCHANGED disturbed
     \/ /\ ~Concluded(job[p])
        /\ \E time \in Times : SameDigest(mem[p], time)
        /\ job[p] \notin expired /\ calib = "good"
        /\ GoOn(p, "announce")
        /\ disturbed' = IF Announced(job[p]) THEN disturbed ELSE disturbed \ {job[p]}
  /\ UNCHANGED <<git, store, expired, runs, last, trouble>>

\* The write-ahead record.  An attempt that has it already is refused.
Announce(p) ==
  /\ pc[p] = "announce" /\ Append(p, "OBSERVATION_REQUIRED", "switch")
  /\ UNCHANGED <<git, calib, expired, hist>>

\* git switch: done, refused, or cut short by its timeout in the middle of the files.
GitSwitch(p) ==
  /\ pc[p] = "switch"
  /\ \E did \in IF tree.there THEN {"done", "refused", "broken"} ELSE {"refused"} :
       /\ \/ did = "done" /\ tree' = [tree EXCEPT !.ref = Goal[job[p]]]
          \/ did = "refused" /\ tree' = tree
          \/ /\ did = "broken"
             /\ \E b \in {tree.ref, Goal[job[p]]} :
                  tree' = [tree EXCEPT !.ref = b, !.clean = FALSE]
       /\ last' = [of |-> job[p], did |-> did]
       /\ IF did = "broken" THEN Trouble ELSE UNCHANGED trouble
  /\ runs' = [runs EXCEPT ![job[p]] = @ + 1]
  /\ GoOn(p, "look")
  /\ UNCHANGED <<tip, remote, store, expired, disturbed>>

\* What the command exited with is not believed: the worktree is observed again.
Look(p) ==
  /\ pc[p] = "look"
  /\ seen' = [seen EXCEPT ![p] = Classify(job[p], mem[p], Observe)]
  /\ Goto(p, "conclude")
  /\ UNCHANGED <<git, store, lock, job, mem, expired, hist, trouble>>

Conclude(p) ==
  /\ pc[p] = "conclude" /\ Append(p, "FINAL_OBSERVATION", "idle")
  /\ UNCHANGED <<git, calib, expired, hist>>

-----------------------------------------------------------------------------
(* Creation: bootstrap_integration with create_remote_ref_once, then        *)
(* create_project_worktree; the lock is not taken.                          *)
Bootstrap(p, a) ==
  /\ pc[p] = "idle" /\ a \in Create /\ Sealed(a)
  /\ remote \in {None, intent[a].oid}
  /\ job' = [job EXCEPT ![p] = a]
  /\ mem' = [mem EXCEPT ![p] = intent[a]]
  /\ Goto(p, IF remote = None THEN "push" ELSE "add")
  /\ UNCHANGED <<git, store, lock, seen, expired, hist, trouble>>

\* An ordinary push: it creates the branch or moves it forward; or it fails.
Push(p) ==
  /\ pc[p] = "push"
  /\ \/ /\ remote \in {None} \union 0..mem[p].oid
        /\ remote' = mem[p].oid
        /\ GoOn(p, "add") /\ UNCHANGED trouble
     \/ /\ remote \in mem[p].oid + 1 .. MaxCommits
        /\ Finish(p) /\ UNCHANGED <<remote, trouble>>
     \/ /\ Trouble /\ Finish(p) /\ UNCHANGED remote
  /\ UNCHANGED <<tree, tip, store, expired, hist>>

\* The remote branch is at the commit of the intent, the target must not be there: git
\* worktree add, and the observation that decides what is reported.
AddWorktree(p) ==
  /\ pc[p] = "add"
  /\ \/ /\ ~tree.there
        /\ tree' \in {tree, [there |-> TRUE, ref |-> Integration, clean |-> TRUE]}
     \/ tree.there /\ UNCHANGED tree
  /\ disturbed' = IF tree' = tree THEN disturbed ELSE Attempt
  /\ Finish(p)
  /\ UNCHANGED <<tip, remote, store, expired, runs, last, trouble>>

(* safe_remove, with the health of a moment before; no lock either.         *)
PlanRemove(p) ==
  /\ pc[p] = "idle"
  /\ tree.there /\ tree.clean /\ tree.ref = Integration
  /\ \A a \in Switch : chain[a] # "OBSERVATION_REQUIRED"
  /\ Goto(p, "remove")
  /\ UNCHANGED <<git, store, lock, job, mem, seen, expired, hist, trouble>>

\* git worktree remove refuses a worktree with changes, and only that.
Remove(p) ==
  /\ pc[p] = "remove"
  /\ \/ tree.there /\ tree.clean /\ tree' = [tree EXCEPT !.there = FALSE]
     \/ tree' = tree
  /\ disturbed' = IF tree' = tree THEN disturbed ELSE Attempt
  /\ Finish(p)
  /\ UNCHANGED <<tip, remote, store, expired, runs, last, trouble>>

-----------------------------------------------------------------------------
(* record_capacity_outcome and save_calibration: a profile that was wrong   *)
(* is revoked.                                                              *)
Revoke ==
  /\ lock = None /\ calib = "good" /\ Trouble
  /\ calib' = "revoked"
  /\ UNCHANGED <<git, chain, intent, verdict, lock, local, expired, hist>>

Expire(a) ==
  /\ a \in Switch \ expired /\ Sealed(a) /\ Trouble
  /\ expired' = expired \union {a}
  /\ UNCHANGED <<git, store, lock, local, hist>>

\* People and other tools: they edit, commit and check out as they like.
Meddle ==
  /\ Trouble
  /\ disturbed' = Attempt
  /\ \/ /\ tree.there
        /\ \/ tree' = [tree EXCEPT !.clean = ~@]
           \/ \E b \in Branch \ {tree.ref} : tree' = [tree EXCEPT !.ref = b]
        /\ UNCHANGED <<tip, remote>>
     \/ \E b \in Branch : tip[b] < MaxCommits
          /\ tip' = [tip EXCEPT ![b] = @ + 1] /\ UNCHANGED <<tree, remote>>
     \/ /\ remote = None
        /\ remote' \in 0..MaxCommits
        /\ UNCHANGED <<tree, tip>>
  /\ UNCHANGED <<store, lock, local, expired, runs, last>>

\* A process dies; the operating system gives its lock back.
Crash(p) ==
  /\ pc[p] # "idle" /\ Trouble
  /\ Finish(p)
  /\ UNCHANGED <<git, store, expired, hist>>

Step(p) ==
  \/ LockToPrepare(p) \/ SaveCalibration(p) \/ Prove(p) \/ Intend(p) \/ Seal(p)
  \/ Examine(p) \/ Announce(p) \/ GitSwitch(p) \/ Look(p) \/ Conclude(p)
  \/ Push(p) \/ AddWorktree(p) \/ Remove(p)

Next ==
  \/ \E p \in Proc, a \in Attempt :
       PlanSwitch(p, a) \/ PlanCreate(p, a) \/ Execute(p, a) \/ Bootstrap(p, a)
  \/ \E p \in Proc : PlanRemove(p) \/ Step(p) \/ Crash(p)
  \/ \E a \in Attempt : Expire(a)
  \/ Revoke \/ Meddle

Spec == Init /\ [][Next]_vars

(* A running command never waits; somebody repeats the execution of every   *)
(* sealed switch whenever the lock lets him.                                *)
FairSpec ==
  /\ Spec
  /\ \A p \in Proc : WF_vars(Step(p))
  /\ \A a \in Switch : SF_vars(\E p \in Proc : Execute(p, a))

-----------------------------------------------------------------------------
(* execute_switch runs "git switch" at most once for an attempt, whoever     *)
(* repeats it after whatever failure, and never before the record that       *)
(* demands an observation is on disk.                                        *)
SwitchedOnce == \A a \in Attempt : runs[a] <= 1 /\ (runs[a] > 0 => Announced(a))

(* A switch starts from the very state it was prepared and authorised for,   *)
(* unless somebody who takes no lock came between the check and the switch.  *)
StartsFromPlanned ==
  [][\A a \in Switch :
       runs'[a] # runs[a] => a \in disturbed \/ Observe = intent[a].before]_vars

(* As long as nobody else touches the worktree, what a later resume finds is *)
(* what git did, also when the process died before it could write it down,   *)
(* and the verdict on record says the same.                                  *)
ReportsAgree ==
  \A a \in Switch :
    last.of = a /\ a \notin disturbed =>
      /\ last.did = "broken" => Resume(a) = "recover"
      /\ last.did = "done" =>
           Resume(a) = IF tip[Goal[a]] = intent[a].oid THEN "target" ELSE "recover"
      /\ last.did = "refused" => Resume(a) \in {"original", "target"}
      /\ Concluded(a) => verdict[a] = Resume(a)

(* A prepared switch is started by repeating its execution, as long as the   *)
(* worktree is as it was planned and its proof stands: execute_switch        *)
(* promises to run it once.  False for fresh observations, whose digest      *)
(* differs by the time: see WorktreeFresh.cfg.                               *)
Stands(a) == Observe = intent[a].before /\ a \notin expired /\ calib = "good"
SealedIsStarted == \A a \in Switch : Sealed(a) ~> Announced(a) \/ ~Stands(a)
=============================================================================
