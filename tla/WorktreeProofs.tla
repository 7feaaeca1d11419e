--------------------------- MODULE WorktreeProofs ---------------------------
(***************************************************************************)
(* Proofs about Worktree for any processes, branches and attempts, any     *)
(* assignment of tasks, and any bounds on commits and trouble.              *)
(***************************************************************************)
EXTENDS Worktree, TLAPS

USE BranchAssumption, AttemptAssumption

-----------------------------------------------------------------------------
Phases == {"EMPTY", "CAPACITY_PROOF", "INTENT", "INTENT_SEAL", "OBSERVATION_REQUIRED",
           "FINAL_OBSERVATION"}
Seen == {"none", "target", "original", "recover"}
Observation == [there : BOOLEAN, ref : Branch \union {None}, oid : Int, base : Int, clean : BOOLEAN]
Plans == [before : Observation, oid : Int]
Preparing == {"calibrate", "prove", "intend", "seal"}
Executing == {"examine", "announce", "switch", "look", "conclude"}
Labels == {"idle", "prepare", "push", "add", "remove"} \union Preparing \union Executing

TypeOK ==
  /\ tree \in [there : BOOLEAN, ref : Branch, clean : BOOLEAN]
  /\ tip \in [Branch -> Int] /\ remote \in Int \union {None}
  /\ chain \in [Attempt -> Phases]
  /\ intent \in [Attempt -> Plans]
  /\ verdict \in [Attempt -> Seen]
  /\ calib \in {None, "good", "revoked"} /\ lock \in Proc \union {None}
  /\ pc \in [Proc -> Labels]
  /\ job \in [Proc -> Attempt \union {None}]
  /\ mem \in [Proc -> Plans]
  /\ seen \in [Proc -> Seen]
  /\ expired \subseteq Attempt
  /\ runs \in [Attempt -> Nat]
  /\ last \in [of : Attempt \union {None}, did : {"none", "done", "refused", "broken"}]
  /\ disturbed \subseteq Attempt

\* A command that works on an attempt has one, of the right kind.
Employed ==
  \A p \in Proc :
    /\ pc[p] \in Labels \ {"idle", "remove"} => job[p] \in Attempt
    /\ pc[p] \in Executing \union {"calibrate", "prove"} => job[p] \in Switch

\* Preparation and execution happen under project.lock.
Locked == \A p \in Proc : pc[p] \in Preparing \union Executing => lock = p

\* A switch is planned from a clean worktree; if it leads to the branch the worktree is on,
\* it leads to the commit the worktree is at.
PlanOf(a, plan) ==
  /\ plan.before.there /\ plan.before.clean
  /\ plan.before.ref = Goal[a] => plan.before.oid = plan.oid
Planned ==
  /\ \A p \in Proc : pc[p] \in Preparing \union {"prepare"} /\ job[p] \in Switch
                       => PlanOf(job[p], mem[p])
  /\ \A a \in Switch : chain[a] \notin {"EMPTY", "CAPACITY_PROOF"} => PlanOf(a, intent[a])

\* A process executes the intent on record, which is sealed and so does not change.
Faithful ==
  \A p \in Proc : pc[p] \in Executing => Sealed(job[p]) /\ mem[p] = intent[job[p]]

\* Where an execution is in the chain of its attempt, and how often it has run git.
Once ==
  /\ \A a \in Attempt : runs[a] <= 1 /\ (runs[a] > 0 => Announced(a))
  /\ \A p \in Proc :
       /\ pc[p] = "switch" => chain[job[p]] = "OBSERVATION_REQUIRED" /\ runs[job[p]] = 0
       /\ pc[p] \in {"look", "conclude"} =>
            chain[job[p]] = "OBSERVATION_REQUIRED" /\ last.of = job[p]
  /\ last.of # None => runs[last.of] > 0

\* The worktree is as the plan says, from the check to the switch.
Examined ==
  \A p \in Proc : pc[p] \in {"announce", "switch"} =>
    job[p] \in disturbed \/ Observe = mem[p].before

\* What git left behind stays, and so does what was made of it.
Left ==
  \A a \in Switch :
    last.of = a /\ a \notin disturbed =>
      /\ last.did \in {"done", "refused", "broken"}
      /\ last.did = "broken" => tree.there /\ ~tree.clean
      /\ last.did = "done" => tree.there /\ tree.clean /\ tree.ref = Goal[a]
      /\ last.did = "refused" => Observe = intent[a].before
      /\ \A p \in Proc : pc[p] = "conclude" => seen[p] = Classify(a, intent[a], Observe)
      /\ Concluded(a) => verdict[a] = Classify(a, intent[a], Observe)

Order == Employed /\ Locked /\ Faithful /\ Once
IInv == TypeOK /\ Order /\ Planned /\ Examined /\ Left

-----------------------------------------------------------------------------
\* An observation of a well-typed worktree is well typed.
LEMMA ObserveType == TypeOK => Observe \in Observation
  BY DEF TypeOK, Observe, Observation

LEMMA ClassifyType ==
  ASSUME NEW a, NEW plan, NEW now PROVE Classify(a, plan, now) \in Seen
  BY DEF Classify, Seen

LEMMA PlanTypes == NoPlan \in Plans
  BY DEF NoPlan, Plans, Observation

\* A command that ends leaves its own variables well typed.
LEMMA FinishType ==
  ASSUME TypeOK, NEW p \in Proc, Finish(p)
  PROVE  /\ lock' \in Proc \union {None} /\ pc' \in [Proc -> Labels]
         /\ job' \in [Proc -> Attempt \union {None}]
         /\ mem' \in [Proc -> Plans] /\ seen' \in [Proc -> Seen]
  BY PlanTypes DEF TypeOK, Finish, End, Goto, Labels, Seen

LEMMA AppendType ==
  ASSUME TypeOK, NEW p \in Proc, job[p] \in Attempt, NEW phase \in Phases, NEW label \in Labels,
         Append(p, phase, label)
  PROVE  /\ chain' \in [Attempt -> Phases] /\ intent' \in [Attempt -> Plans]
         /\ verdict' \in [Attempt -> Seen]
         /\ lock' \in Proc \union {None} /\ pc' \in [Proc -> Labels]
         /\ job' \in [Proc -> Attempt \union {None}]
         /\ mem' \in [Proc -> Plans] /\ seen' \in [Proc -> Seen]
<1>1. CASE Finish(p)
  BY <1>1, FinishType DEF TypeOK, Append
<1>2. CASE GoOn(p, label)
  BY <1>2 DEF TypeOK, Append, GoOn, Goto, Finish, End
<1> QED BY <1>1, <1>2 DEF Append

\* Every step keeps the state well typed.
LEMMA TypeStep == TypeOK /\ Employed /\ [Next]_vars => TypeOK'
<1> SUFFICES ASSUME TypeOK, Employed, [Next]_vars PROVE TypeOK'
  OBVIOUS
<1> USE ObserveType, PlanTypes
<1>1. CASE UNCHANGED vars
  BY <1>1 DEF TypeOK, vars, git, local, store, hist
<1>2. ASSUME NEW p \in Proc, LockToPrepare(p) PROVE TypeOK'
   BY <1>2, FinishType, AppendType, ClassifyType, ZenonT(60) DEF TypeOK, Employed, LockToPrepare,
     Goto, Labels, Preparing, Executing, Phases, Plans, git, store, hist
<1>3. ASSUME NEW p \in Proc, SaveCalibration(p) PROVE TypeOK'
   BY <1>3, FinishType, ZenonT(60) DEF TypeOK, Employed, SaveCalibration, Goto, GoOn, Count, Labels,
     Preparing, Executing, Phases, Plans, git, hist
<1>4. ASSUME NEW p \in Proc, Prove(p) PROVE TypeOK'
   BY <1>4, AppendType, ClassifyType, ZenonT(60) DEF TypeOK, Employed, Prove, Labels, Preparing,
     Executing, Phases, Plans, git, hist
<1>5. ASSUME NEW p \in Proc, Intend(p) PROVE TypeOK'
   BY <1>5, FinishType, AppendType, ClassifyType, ZenonT(60) DEF TypeOK, Employed, Intend, Labels,
     Preparing, Executing, Phases, Plans, git, hist
<1>6. ASSUME NEW p \in Proc, Seal(p) PROVE TypeOK'
   BY <1>6, FinishType, AppendType, ClassifyType, ZenonT(60) DEF TypeOK, Employed, Seal, Labels,
     Preparing, Executing, Phases, Plans, git, hist
<1>7. ASSUME NEW p \in Proc, Examine(p) PROVE TypeOK'
   BY <1>7, FinishType, ClassifyType DEF TypeOK, Employed, Examine, Goto, GoOn, Labels,
     Executing, Phases, Plans, git, store
<1>8. ASSUME NEW p \in Proc, Announce(p) PROVE TypeOK'
   BY <1>8, FinishType, AppendType, ClassifyType, ZenonT(60) DEF TypeOK, Employed, Announce, Labels,
     Preparing, Executing, Phases, Plans, git, hist
<1>9. ASSUME NEW p \in Proc, GitSwitch(p) PROVE TypeOK'
  <2>1. job[p] \in Switch /\ Goal[job[p]] \in Branch
    BY <1>9 DEF Employed, GitSwitch, Executing
  <2>2. tree' \in [there : BOOLEAN, ref : Branch, clean : BOOLEAN]
    BY <1>9, <2>1, ZenonT(60) DEF TypeOK, GitSwitch
  <2>3. last' \in [of : Attempt \union {None}, did : {"none", "done", "refused", "broken"}]
    BY <1>9, <2>1 DEF GitSwitch, Attempt
  <2>4. runs' \in [Attempt -> Nat]
    BY <1>9, <2>1 DEF TypeOK, GitSwitch, Attempt
  <2> QED
    BY <1>9, <2>2, <2>3, <2>4 DEF TypeOK, GitSwitch, GoOn, Goto, Labels, Executing, store
<1>10. ASSUME NEW p \in Proc, Look(p) PROVE TypeOK'
   BY <1>10, ClassifyType DEF TypeOK, Employed, Look, Goto, Labels, Executing, Phases, Plans,
     git, store, hist
<1>11. ASSUME NEW p \in Proc, Conclude(p) PROVE TypeOK'
   BY <1>11, FinishType, AppendType, ClassifyType, ZenonT(60) DEF TypeOK, Employed, Conclude,
     Labels, Preparing, Executing, Phases, Plans, git, hist
<1>12. ASSUME NEW p \in Proc, Push(p) PROVE TypeOK'
  <2>1. mem[p].oid \in Int
    BY DEF TypeOK, Plans
  <2>2. remote' \in Int \union {None}
    BY <1>12, <2>1 DEF TypeOK, Push
  <2>3. CASE Finish(p)
    BY <1>12, <2>2, <2>3, FinishType DEF TypeOK, Push, store, hist
  <2>4. CASE GoOn(p, "add")
    BY <1>12, <2>2, <2>4 DEF TypeOK, Push, GoOn, Goto, Labels, store, hist
  <2> QED BY <1>12, <2>3, <2>4 DEF Push
<1>13. ASSUME NEW p \in Proc, AddWorktree(p) PROVE TypeOK'
  <2> DEFINE new == [there |-> TRUE, ref |-> Integration, clean |-> TRUE]
  <2>1. new \in [there : BOOLEAN, ref : Branch, clean : BOOLEAN]
    OBVIOUS
  <2> HIDE DEF new
  <2>2. tree' \in [there : BOOLEAN, ref : Branch, clean : BOOLEAN]
    BY <1>13, <2>1 DEF TypeOK, AddWorktree, new
  <2>3. disturbed' \subseteq Attempt
    BY <1>13 DEF TypeOK, AddWorktree
  <2> QED BY <1>13, <2>2, <2>3, FinishType DEF TypeOK, AddWorktree, store
<1>14. ASSUME NEW p \in Proc, PlanRemove(p) PROVE TypeOK'
  BY <1>14 DEF TypeOK, Employed, PlanRemove, Goto, Labels, Phases, Plans, git, store, hist
<1>15. ASSUME NEW p \in Proc, Remove(p) PROVE TypeOK'
  BY <1>15, FinishType DEF TypeOK, Employed, Remove, Phases, Plans, store
<1>16. ASSUME NEW p \in Proc, Crash(p) PROVE TypeOK'
  BY <1>16, FinishType DEF TypeOK, Employed, Crash, Phases, Plans, git, store, hist
<1>17. ASSUME NEW p \in Proc, NEW a \in Attempt, PlanSwitch(p, a) PROVE TypeOK'
  BY <1>17 DEF TypeOK, PlanSwitch, Goto, Labels, Plans, git, store, hist
<1>18. ASSUME NEW p \in Proc, NEW a \in Attempt, PlanCreate(p, a) PROVE TypeOK'
  BY <1>18 DEF TypeOK, PlanCreate, Goto, Labels, Plans, git, store, hist
<1>19. ASSUME NEW p \in Proc, NEW a \in Attempt, Execute(p, a) PROVE TypeOK'
  BY <1>19 DEF TypeOK, Execute, Goto, Labels, Executing, Plans, git, store, hist
<1>20. ASSUME NEW p \in Proc, NEW a \in Attempt, Bootstrap(p, a) PROVE TypeOK'
  BY <1>20 DEF TypeOK, Bootstrap, Goto, Labels, Plans, git, store, hist
<1>21. ASSUME NEW a \in Attempt, Expire(a) PROVE TypeOK'
  BY <1>21 DEF TypeOK, Expire, git, local, store, hist
<1>22. ASSUME Revoke PROVE TypeOK'
  BY <1>22 DEF TypeOK, Revoke, git, local, hist
<1>23. ASSUME Meddle PROVE TypeOK'
  <2>1. tree' \in [there : BOOLEAN, ref : Branch, clean : BOOLEAN]
    BY <1>23 DEF TypeOK, Meddle
  <2>2. tip' \in [Branch -> Int]
    BY <1>23 DEF TypeOK, Meddle
  <2>3. remote' \in Int \union {None}
    BY <1>23 DEF TypeOK, Meddle
  <2> QED BY <1>23, <2>1, <2>2, <2>3 DEF TypeOK, Meddle, local, store
<1> QED BY <1>1, <1>2, <1>3, <1>4, <1>5, <1>6, <1>7, <1>8, <1>9, <1>10, <1>11, <1>12, <1>13,
           <1>14, <1>15, <1>16, <1>17, <1>18, <1>19, <1>20, <1>21, <1>22, <1>23 DEF Next, Step

-----------------------------------------------------------------------------
\* A command that ends keeps nothing, and the others what they have.
LEMMA FinishEffect ==
  ASSUME TypeOK, NEW p \in Proc, Finish(p)
  PROVE  /\ pc' = [pc EXCEPT ![p] = "idle"] /\ job' = [job EXCEPT ![p] = None]
         /\ mem' = [mem EXCEPT ![p] = NoPlan] /\ seen' = [seen EXCEPT ![p] = "none"]
         /\ pc'[p] = "idle"
         /\ \A q \in Proc \ {p} :
              /\ pc'[q] = pc[q] /\ job'[q] = job[q] /\ mem'[q] = mem[q] /\ seen'[q] = seen[q]
              /\ lock = q => lock' = q
  BY DEF TypeOK, Finish, End, Goto

\* A record is appended where it follows, or nothing is; only after a record that was
\* appended does the command go on.
LEMMA AppendEffect ==
  ASSUME TypeOK, NEW p \in Proc, job[p] \in Attempt, NEW phase, NEW label,
         Append(p, phase, label)
  PROVE  \/ Finish(p) /\ UNCHANGED <<chain, intent, verdict>>
         \/ /\ Follows(chain[job[p]], phase)
            /\ chain' = [chain EXCEPT ![job[p]] = phase]
            /\ intent' = IF phase = "INTENT" THEN [intent EXCEPT ![job[p]] = mem[p]] ELSE intent
            /\ verdict' = IF phase = "FINAL_OBSERVATION"
                          THEN [verdict EXCEPT ![job[p]] = seen[p]] ELSE verdict
            /\ Finish(p) \/ (GoOn(p, label) /\ label # "idle")
  BY DEF Append

\* Every step keeps commands in order: with an attempt, under the lock, where the chain is.
LEMMA OrderStep == TypeOK /\ Order /\ [Next]_vars => Order'
<1> SUFFICES ASSUME TypeOK, Order, [Next]_vars PROVE Order'
  OBVIOUS
<1> USE DEF Order
<1>1. CASE UNCHANGED vars
  <2>1. Employed'
    BY <1>1 DEF Employed, Locked, Faithful, Once, vars, local
  <2>2. Locked'
    BY <1>1 DEF Employed, Locked, Faithful, Once, vars, local
  <2>3. Faithful'
    BY <1>1 DEF Employed, Locked, Faithful, Sealed, Once, vars, local, store
  <2>4. Once'
    BY <1>1 DEF Employed, Locked, Faithful, Once, Announced, vars, local, store, hist
  <2> QED BY <2>1, <2>2, <2>3, <2>4
<1>2. ASSUME NEW p \in Proc, LockToPrepare(p) PROVE Order'
  <2>1. Employed'
     BY <1>2, FinishEffect DEF TypeOK, Employed, Locked, Faithful, Once, LockToPrepare, Goto,
       Executing
  <2>2. Locked'
     BY <1>2, FinishEffect DEF TypeOK, Employed, Locked, Faithful, Once, LockToPrepare, Goto,
       Preparing, Executing
  <2>3. Faithful'
     BY <1>2, FinishEffect DEF TypeOK, Employed, Locked, Faithful, Sealed, Once,
       LockToPrepare, Goto, Executing, store
  <2>4. Once'
     BY <1>2, FinishEffect DEF TypeOK, Employed, Locked, Faithful, Once, Announced,
       LockToPrepare, Goto, store, hist
  <2> QED BY <2>1, <2>2, <2>3, <2>4
<1>3. ASSUME NEW p \in Proc, SaveCalibration(p) PROVE Order'
  <2>1. Employed'
     BY <1>3, FinishEffect DEF TypeOK, Employed, Locked, Faithful, Once, SaveCalibration,
       GoOn, Goto, Executing
  <2>2. Locked'
     BY <1>3, FinishEffect DEF TypeOK, Employed, Locked, Faithful, Once, SaveCalibration,
       GoOn, Goto, Preparing, Executing
  <2>3. Faithful'
     BY <1>3, FinishEffect DEF TypeOK, Employed, Locked, Faithful, Once, SaveCalibration,
       GoOn, Goto, Preparing, Executing
  <2>4. Once'
     BY <1>3, FinishEffect DEF TypeOK, Employed, Locked, Faithful, Once, Announced,
       SaveCalibration, GoOn, Goto, hist
  <2> QED BY <2>1, <2>2, <2>3, <2>4
<1>4. ASSUME NEW p \in Proc, Prove(p) PROVE Order'
  <2>0. job[p] \in Attempt
    BY <1>4 DEF Employed, Prove, Labels, Preparing
  <2>1. Employed'
     BY <1>4, <2>0, AppendEffect, FinishEffect DEF TypeOK, Employed, Locked, Faithful, Once,
       Prove, GoOn, Goto, Executing
  <2>2. Locked'
     BY <1>4, <2>0, AppendEffect, FinishEffect DEF TypeOK, Employed, Locked, Faithful, Once,
       Prove, GoOn, Goto, Preparing, Executing
  <2>3. Faithful'
     BY <1>4, <2>0, AppendEffect, FinishEffect DEF TypeOK, Employed, Locked, Faithful, Once,
       Prove, GoOn, Goto, Preparing, Executing
  <2>4. Once'
     BY <1>4, <2>0, AppendEffect, FinishEffect DEF TypeOK, Employed, Locked, Faithful, Once,
       Announced, Follows, Prove, GoOn, Goto, hist
  <2> QED BY <2>1, <2>2, <2>3, <2>4
<1>5. ASSUME NEW p \in Proc, Intend(p) PROVE Order'
  <2>0. job[p] \in Attempt
    BY <1>5 DEF Employed, Intend, Labels, Preparing
  <2>1. Employed'
     BY <1>5, <2>0, AppendEffect, FinishEffect DEF TypeOK, Employed, Locked, Faithful, Once,
       Intend, GoOn, Goto, Executing
  <2>2. Locked'
     BY <1>5, <2>0, AppendEffect, FinishEffect DEF TypeOK, Employed, Locked, Faithful, Once,
       Intend, GoOn, Goto, Preparing, Executing
  <2>3. Faithful'
     BY <1>5, <2>0, AppendEffect, FinishEffect DEF TypeOK, Employed, Locked, Faithful, Once,
       Intend, GoOn, Goto, Preparing, Executing
  <2>4. Once'
     BY <1>5, <2>0, AppendEffect, FinishEffect DEF TypeOK, Employed, Locked, Faithful, Once,
       Announced, Follows, Intend, GoOn, Goto, Labels, hist
  <2> QED BY <2>1, <2>2, <2>3, <2>4
<1>6. ASSUME NEW p \in Proc, Seal(p) PROVE Order'
  <2>0. job[p] \in Attempt
    BY <1>6 DEF Employed, Seal, Labels, Preparing
  <2>1. Employed'
     BY <1>6, <2>0, AppendEffect, FinishEffect DEF Employed, Locked, Faithful, Once, Seal,
       Goto, Executing
  <2>2. Locked'
     BY <1>6, <2>0, AppendEffect, FinishEffect DEF Employed, Locked, Faithful, Once, Seal,
       Goto, Preparing, Executing
  <2>3. Faithful'
     BY <1>6, <2>0, AppendEffect, FinishEffect DEF Employed, Locked, Faithful, Once, Seal,
       Goto, Preparing, Executing
  <2>4. Once'
     BY <1>6, <2>0, AppendEffect, FinishEffect DEF TypeOK, Employed, Locked, Faithful, Sealed,
       Once, Announced, Follows, Seal, Goto, Labels, Executing, git, hist
  <2> QED BY <2>1, <2>2, <2>3, <2>4
<1>7. ASSUME NEW p \in Proc, Examine(p) PROVE Order'
  <2>1. Employed'
     BY <1>7, FinishEffect DEF TypeOK, Employed, Locked, Faithful, Once, Examine, GoOn, Goto,
       Executing
  <2>2. Locked'
     BY <1>7, FinishEffect DEF TypeOK, Employed, Locked, Faithful, Once, Examine, GoOn, Goto,
       Preparing, Executing
  <2>3. Faithful'
     BY <1>7, FinishEffect DEF TypeOK, Employed, Locked, Faithful, Sealed, Once, Examine,
       GoOn, Goto, Executing, store
  <2>4. Once'
     BY <1>7, FinishEffect DEF TypeOK, Employed, Locked, Faithful, Once, Announced, Examine,
       GoOn, Goto, store
  <2> QED BY <2>1, <2>2, <2>3, <2>4
<1>8. ASSUME NEW p \in Proc, Announce(p) PROVE Order'
  <2>0. job[p] \in Attempt
    BY <1>8 DEF Employed, Announce, Labels, Executing
  <2>1. Employed'
     BY <1>8, <2>0, AppendEffect, FinishEffect DEF TypeOK, Employed, Locked, Faithful, Once,
       Announce, GoOn, Goto, Executing
  <2>2. Locked'
     BY <1>8, <2>0, AppendEffect, FinishEffect DEF TypeOK, Employed, Locked, Faithful, Once,
       Announce, GoOn, Goto, Preparing, Executing
  <2>3. Faithful'
     BY <1>8, <2>0, AppendEffect, FinishEffect DEF TypeOK, Employed, Locked, Faithful, Sealed,
       Once, Announce, GoOn, Goto, Executing
  <2>4. Once'
     BY <1>8, <2>0, AppendEffect, FinishEffect DEF TypeOK, Employed, Locked, Faithful, Once,
       Announced, Follows, Announce, GoOn, Goto, hist
  <2> QED BY <2>1, <2>2, <2>3, <2>4
<1>9. ASSUME NEW p \in Proc, GitSwitch(p) PROVE Order'
  <2>1. Employed'
    BY <1>9 DEF Employed, Locked, Faithful, Once, GitSwitch, GoOn, Goto, Labels, Executing
  <2>2. Locked'
    BY <1>9 DEF Employed, Locked, Faithful, Once, GitSwitch, GoOn, Goto, Executing
  <2>3. Faithful'
     BY <1>9 DEF Employed, Locked, Faithful, Sealed, Once, GitSwitch, GoOn, Goto, Executing,
       store
  <2>4. Once'
     BY <1>9 DEF TypeOK, Employed, Locked, Faithful, Once, Announced, GitSwitch, GoOn, Goto,
       Executing, store
  <2> QED BY <2>1, <2>2, <2>3, <2>4
<1>10. ASSUME NEW p \in Proc, Look(p) PROVE Order'
  <2>1. Employed'
    BY <1>10 DEF Employed, Locked, Faithful, Once, Look, Goto, Labels, Executing
  <2>2. Locked'
    BY <1>10 DEF Employed, Locked, Faithful, Once, Look, Goto, Executing
  <2>3. Faithful'
    BY <1>10 DEF Employed, Locked, Faithful, Sealed, Once, Look, Goto, Executing, store
  <2>4. Once'
    BY <1>10 DEF Employed, Locked, Faithful, Once, Announced, Look, Goto, store, hist
  <2> QED BY <2>1, <2>2, <2>3, <2>4
<1>11. ASSUME NEW p \in Proc, Conclude(p) PROVE Order'
  <2>0. job[p] \in Attempt
    BY <1>11 DEF Employed, Conclude, Labels, Executing
  <2>1. Employed'
     BY <1>11, <2>0, AppendEffect, FinishEffect DEF Employed, Locked, Faithful, Once,
       Conclude, Goto, Executing
  <2>2. Locked'
     BY <1>11, <2>0, AppendEffect, FinishEffect DEF Employed, Locked, Faithful, Once,
       Conclude, Goto, Preparing, Executing
  <2>3. Faithful'
     BY <1>11, <2>0, AppendEffect, FinishEffect DEF Employed, Locked, Faithful, Once,
       Conclude, Goto, Executing
  <2>4. Once'
     BY <1>11, <2>0, AppendEffect, FinishEffect DEF TypeOK, Employed, Locked, Faithful, Once,
       Announced, Follows, Conclude, Goto, Preparing, Executing, git, hist
  <2> QED BY <2>1, <2>2, <2>3, <2>4
<1>12. ASSUME NEW p \in Proc, Push(p) PROVE Order'
  <2>1. Employed'
     BY <1>12, FinishEffect DEF TypeOK, Employed, Locked, Faithful, Once, Push, GoOn, Goto,
       Executing
  <2>2. Locked'
     BY <1>12, FinishEffect DEF TypeOK, Employed, Locked, Faithful, Once, Push, GoOn, Goto,
       Preparing, Executing
  <2>3. Faithful'
     BY <1>12, FinishEffect DEF TypeOK, Employed, Locked, Faithful, Sealed, Once, Push, GoOn,
       Goto, Executing, store
  <2>4. Once'
     BY <1>12, FinishEffect DEF TypeOK, Employed, Locked, Faithful, Once, Announced, Push,
       GoOn, Goto, store, hist
  <2> QED BY <2>1, <2>2, <2>3, <2>4
<1>13. ASSUME NEW p \in Proc, AddWorktree(p) PROVE Order'
  <2>1. Employed'
    BY <1>13, FinishEffect DEF Employed, Locked, Faithful, Once, AddWorktree, Executing
  <2>2. Locked'
     BY <1>13, FinishEffect DEF Employed, Locked, Faithful, Once, AddWorktree, Preparing,
       Executing
  <2>3. Faithful'
     BY <1>13, FinishEffect DEF Employed, Locked, Faithful, Sealed, Once, AddWorktree,
       Executing, store
  <2>4. Once'
    BY <1>13, FinishEffect DEF Employed, Locked, Faithful, Once, Announced, AddWorktree, store
  <2> QED BY <2>1, <2>2, <2>3, <2>4
<1>14. ASSUME NEW p \in Proc, PlanRemove(p) PROVE Order'
  <2>1. Employed'
    BY <1>14 DEF Employed, Locked, Faithful, Once, PlanRemove, Goto, Executing
  <2>2. Locked'
    BY <1>14 DEF Employed, Locked, Faithful, Once, PlanRemove, Goto, Preparing, Executing
  <2>3. Faithful'
    BY <1>14 DEF Employed, Locked, Faithful, Sealed, Once, PlanRemove, Goto, Executing, store
  <2>4. Once'
    BY <1>14 DEF Employed, Locked, Faithful, Once, Announced, PlanRemove, Goto, store, hist
  <2> QED BY <2>1, <2>2, <2>3, <2>4
<1>15. ASSUME NEW p \in Proc, Remove(p) PROVE Order'
  <2>1. Employed'
    BY <1>15, FinishEffect DEF Employed, Locked, Faithful, Once, Remove, Executing
  <2>2. Locked'
    BY <1>15, FinishEffect DEF Employed, Locked, Faithful, Once, Remove, Preparing, Executing
  <2>3. Faithful'
     BY <1>15, FinishEffect DEF Employed, Locked, Faithful, Sealed, Once, Remove, Executing,
       store
  <2>4. Once'
    BY <1>15, FinishEffect DEF Employed, Locked, Faithful, Once, Announced, Remove, store
  <2> QED BY <2>1, <2>2, <2>3, <2>4
<1>16. ASSUME NEW p \in Proc, Crash(p) PROVE Order'
  <2>1. Employed'
    BY <1>16, FinishEffect DEF Employed, Locked, Faithful, Once, Crash, Executing
  <2>2. Locked'
    BY <1>16, FinishEffect DEF Employed, Locked, Faithful, Once, Crash, Preparing, Executing
  <2>3. Faithful'
    BY <1>16, FinishEffect DEF Employed, Locked, Faithful, Sealed, Once, Crash, Executing, store
  <2>4. Once'
    BY <1>16, FinishEffect DEF Employed, Locked, Faithful, Once, Announced, Crash, store, hist
  <2> QED BY <2>1, <2>2, <2>3, <2>4
<1>17. ASSUME NEW p \in Proc, NEW a \in Attempt, PlanSwitch(p, a) PROVE Order'
  <2>1. Employed'
    BY <1>17 DEF TypeOK, Employed, Locked, Faithful, Once, PlanSwitch, Goto
  <2>2. Locked'
    BY <1>17 DEF Employed, Locked, Faithful, Once, PlanSwitch, Goto, Preparing, Executing
  <2>3. Faithful'
    BY <1>17 DEF Employed, Locked, Faithful, Sealed, Once, PlanSwitch, Goto, Executing, store
  <2>4. Once'
    BY <1>17 DEF Employed, Locked, Faithful, Once, Announced, PlanSwitch, Goto, store, hist
  <2> QED BY <2>1, <2>2, <2>3, <2>4
<1>18. ASSUME NEW p \in Proc, NEW a \in Attempt, PlanCreate(p, a) PROVE Order'
  <2>1. Employed'
    BY <1>18 DEF TypeOK, Employed, Locked, Faithful, Once, PlanCreate, Goto, Executing
  <2>2. Locked'
    BY <1>18 DEF Employed, Locked, Faithful, Once, PlanCreate, Goto, Preparing, Executing
  <2>3. Faithful'
    BY <1>18 DEF Employed, Locked, Faithful, Sealed, Once, PlanCreate, Goto, Executing, store
  <2>4. Once'
    BY <1>18 DEF Employed, Locked, Faithful, Once, Announced, PlanCreate, Goto, store, hist
  <2> QED BY <2>1, <2>2, <2>3, <2>4
<1>19. ASSUME NEW p \in Proc, NEW a \in Attempt, Execute(p, a) PROVE Order'
  <2>1. Employed'
    BY <1>19 DEF TypeOK, Employed, Locked, Faithful, Once, Execute, Goto
  <2>2. Locked'
    BY <1>19 DEF Employed, Locked, Faithful, Once, Execute, Goto
  <2>3. Faithful'
    BY <1>19 DEF TypeOK, Employed, Locked, Faithful, Sealed, Once, Execute, Goto, store
  <2>4. Once'
    BY <1>19 DEF Employed, Locked, Faithful, Once, Announced, Execute, Goto, store, hist
  <2> QED BY <2>1, <2>2, <2>3, <2>4
<1>20. ASSUME NEW p \in Proc, NEW a \in Attempt, Bootstrap(p, a) PROVE Order'
  <2>1. Employed'
    BY <1>20 DEF TypeOK, Employed, Locked, Faithful, Once, Bootstrap, Goto, Executing
  <2>2. Locked'
    BY <1>20 DEF Employed, Locked, Faithful, Once, Bootstrap, Goto, Preparing, Executing
  <2>3. Faithful'
    BY <1>20 DEF Employed, Locked, Faithful, Sealed, Once, Bootstrap, Goto, Executing, store
  <2>4. Once'
    BY <1>20 DEF Employed, Locked, Faithful, Once, Announced, Bootstrap, Goto, store, hist
  <2> QED BY <2>1, <2>2, <2>3, <2>4
<1>21. ASSUME NEW a \in Attempt, Expire(a) PROVE Order'
  <2>1. Employed'
    BY <1>21 DEF Employed, Locked, Faithful, Once, Expire, local
  <2>2. Locked'
    BY <1>21 DEF Employed, Locked, Faithful, Once, Expire, local
  <2>3. Faithful'
    BY <1>21 DEF Employed, Locked, Faithful, Sealed, Once, Expire, local, store
  <2>4. Once'
    BY <1>21 DEF Employed, Locked, Faithful, Once, Announced, Expire, local, store, hist
  <2> QED BY <2>1, <2>2, <2>3, <2>4
<1>22. ASSUME Revoke PROVE Order'
  <2>1. Employed'
    BY <1>22 DEF Employed, Locked, Faithful, Once, Revoke, local
  <2>2. Locked'
    BY <1>22 DEF Employed, Locked, Faithful, Once, Revoke, local
  <2>3. Faithful'
    BY <1>22 DEF Employed, Locked, Faithful, Once, Revoke, local
  <2>4. Once'
    BY <1>22 DEF Employed, Locked, Faithful, Once, Announced, Revoke, local, hist
  <2> QED BY <2>1, <2>2, <2>3, <2>4
<1>23. ASSUME Meddle PROVE Order'
  <2>1. Employed'
    BY <1>23 DEF Employed, Locked, Faithful, Once, Meddle, local
  <2>2. Locked'
    BY <1>23 DEF Employed, Locked, Faithful, Once, Meddle, local
  <2>3. Faithful'
    BY <1>23 DEF Employed, Locked, Faithful, Sealed, Once, Meddle, local, store
  <2>4. Once'
    BY <1>23 DEF Employed, Locked, Faithful, Once, Announced, Meddle, local, store
  <2> QED BY <2>1, <2>2, <2>3, <2>4
<1> QED BY <1>1, <1>2, <1>3, <1>4, <1>5, <1>6, <1>7, <1>8, <1>9, <1>10, <1>11, <1>12, <1>13,
           <1>14, <1>15, <1>16, <1>17, <1>18, <1>19, <1>20, <1>21, <1>22, <1>23 DEF Next, Step

-----------------------------------------------------------------------------
\* What an observation, and what is made of it, depends on.
LEMMA ObserveKept == UNCHANGED <<tree, tip>> => Observe' = Observe
  BY DEF Observe

\* The plan of a switch that is made now.
LEMMA PlanMade ==
  ASSUME TypeOK, NEW a \in Switch, tree.there, tree.clean
  PROVE  PlanOf(a, [before |-> Observe, oid |-> tip[Goal[a]]])
  BY DEF PlanOf, Observe

\* A record appended while preparing carries the plan in hand, and none replaces the plan
\* of an intent.
LEMMA AppendPlanned ==
  ASSUME TypeOK, Planned, NEW p \in Proc, job[p] \in Attempt, NEW phase \in Phases, NEW label,
         Append(p, phase, label), phase = "INTENT" => pc[p] \in Preparing,
         label \in Preparing => pc[p] \in Preparing, label # "prepare"
  PROVE  Planned'
<1>1. CASE Finish(p) /\ UNCHANGED <<chain, intent, verdict>>
  BY <1>1, FinishEffect DEF Planned, Preparing
<1>2. CASE ~(Finish(p) /\ UNCHANGED <<chain, intent, verdict>>)
  <2>1. /\ Follows(chain[job[p]], phase) /\ chain' = [chain EXCEPT ![job[p]] = phase]
        /\ intent' = IF phase = "INTENT" THEN [intent EXCEPT ![job[p]] = mem[p]] ELSE intent
        /\ Finish(p) \/ (GoOn(p, label) /\ label # "idle")
    BY <1>2, AppendEffect
  <2>2. ASSUME NEW q \in Proc, pc'[q] \in Preparing \union {"prepare"}, job'[q] \in Switch
        PROVE  PlanOf(job'[q], mem'[q])
    <3>1. CASE Finish(p)
      BY <2>2, <3>1, FinishEffect DEF Planned, Preparing
    <3>2. CASE GoOn(p, label)
      BY <2>2, <3>2 DEF Planned, GoOn, Goto
    <3> QED BY <2>1, <3>1, <3>2
  <2>3. ASSUME NEW a \in Switch, chain'[a] \notin {"EMPTY", "CAPACITY_PROOF"}
        PROVE  PlanOf(a, intent'[a])
    <3>1. CASE a # job[p]
      BY <2>1, <2>3, <3>1 DEF Planned, Attempt
    <3>2. CASE a = job[p] /\ phase = "INTENT"
      BY <2>1, <2>3, <3>2 DEF Planned, TypeOK, Attempt
    <3>3. CASE a = job[p] /\ phase # "INTENT"
      BY <2>1, <2>3, <3>3 DEF Planned, Attempt, Follows
    <3> QED BY <3>1, <3>2, <3>3
  <2> QED BY <2>2, <2>3 DEF Planned, PlanOf
<1> QED BY <1>1, <1>2

\* A record appended before the switch is not of an attempt that has run git.
LEMMA AppendLeft ==
  ASSUME TypeOK, Once, Left, NEW p \in Proc, job[p] \in Attempt, NEW phase \in Phases, NEW label,
         Append(p, phase, label), phase # "FINAL_OBSERVATION", label # "conclude",
         UNCHANGED <<tree, tip, last, disturbed>>
  PROVE  Left'
<1>1. Observe' = Observe
  BY ObserveKept
<1>2. \A q \in Proc : pc'[q] = "conclude" => pc[q] = "conclude" /\ seen'[q] = seen[q]
  <2>1. CASE Finish(p)
    BY <2>1, FinishEffect
  <2>2. CASE GoOn(p, label)
    BY <2>2 DEF GoOn, Goto
  <2> QED BY <2>1, <2>2, AppendEffect
<1>3. ASSUME NEW a \in Switch, last.of = a
      PROVE  chain'[a] = chain[a] /\ intent'[a] = intent[a] /\ verdict'[a] = verdict[a]
  <2>1. CASE UNCHANGED <<chain, intent, verdict>>
    BY <2>1
  <2>2. CASE ~UNCHANGED <<chain, intent, verdict>>
    <3>1. Follows(chain[job[p]], phase)
      BY <2>2, AppendEffect
    <3>2. Announced(a)
      BY <1>3 DEF Once, Attempt
    <3>3. a # job[p]
      BY <3>1, <3>2 DEF Announced, Follows
    <3> QED BY <2>2, <3>3, AppendEffect DEF TypeOK, Attempt
  <2> QED BY <2>1, <2>2
<1> QED BY <1>1, <1>2, <1>3 DEF Left, Concluded, Classify

\* Every step keeps the plans of switches as they were made.
LEMMA PlannedStep == TypeOK /\ Order /\ Planned /\ [Next]_vars => Planned'
<1> SUFFICES ASSUME TypeOK, Order, Planned, [Next]_vars PROVE Planned'
  OBVIOUS
<1>1. CASE UNCHANGED vars
  BY <1>1 DEF vars, Order, Employed, Locked, Faithful, Once, local, store, Planned
<1>2. ASSUME NEW p \in Proc, LockToPrepare(p) PROVE Planned'
   BY <1>2, FinishEffect DEF LockToPrepare, TypeOK, Order, Employed, Locked, Faithful, Once,
     Goto, Preparing, store, Planned
<1>3. ASSUME NEW p \in Proc, SaveCalibration(p) PROVE Planned'
   BY <1>3, FinishEffect DEF SaveCalibration, TypeOK, Order, Employed, Locked, Faithful, Once,
     GoOn, Goto, Preparing, Planned
<1>4. ASSUME NEW p \in Proc, Prove(p) PROVE Planned'
  <2>0. job[p] \in Attempt
    BY <1>4 DEF Order, Employed, Prove, Labels, Preparing
  <2> QED
    BY <1>4, <2>0, AppendPlanned DEF Prove, Order, Phases, Preparing
<1>5. ASSUME NEW p \in Proc, Intend(p) PROVE Planned'
  <2>0. job[p] \in Attempt
    BY <1>5 DEF Order, Employed, Intend, Labels, Preparing
  <2> QED
    BY <1>5, <2>0, AppendPlanned DEF Intend, Order, Phases, Preparing
<1>6. ASSUME NEW p \in Proc, Seal(p) PROVE Planned'
  <2>0. job[p] \in Attempt
    BY <1>6 DEF Order, Employed, Seal, Labels, Preparing
  <2> QED
    BY <1>6, <2>0, AppendPlanned DEF Seal, Order, Phases, Preparing
<1>7. ASSUME NEW p \in Proc, Examine(p) PROVE Planned'
   BY <1>7, FinishEffect DEF Examine, TypeOK, Order, Employed, Locked, Faithful, Once, GoOn,
     Goto, Preparing, store, Planned
<1>8. ASSUME NEW p \in Proc, Announce(p) PROVE Planned'
  <2>0. job[p] \in Attempt
    BY <1>8 DEF Order, Employed, Announce, Labels, Executing
  <2> QED
    BY <1>8, <2>0, AppendPlanned DEF Announce, Order, Phases, Preparing
<1>9. ASSUME NEW p \in Proc, GitSwitch(p) PROVE Planned'
   BY <1>9 DEF GitSwitch, Order, Employed, Locked, Faithful, Once, GoOn, Goto, Executing,
     store, Planned
<1>10. ASSUME NEW p \in Proc, Look(p) PROVE Planned'
  BY <1>10 DEF Look, Order, Employed, Locked, Faithful, Once, Goto, Executing, store, Planned
<1>11. ASSUME NEW p \in Proc, Conclude(p) PROVE Planned'
  <2>0. job[p] \in Attempt
    BY <1>11 DEF Order, Employed, Conclude, Labels, Executing
  <2> QED
    BY <1>11, <2>0, AppendPlanned DEF Conclude, Order, Phases, Preparing
<1>12. ASSUME NEW p \in Proc, Push(p) PROVE Planned'
   BY <1>12, FinishEffect DEF Push, TypeOK, Order, Employed, Locked, Faithful, Once, GoOn,
     Goto, Preparing, store, Planned
<1>13. ASSUME NEW p \in Proc, AddWorktree(p) PROVE Planned'
   BY <1>13, FinishEffect DEF AddWorktree, Order, Employed, Locked, Faithful, Once, Preparing,
     store, Planned
<1>14. ASSUME NEW p \in Proc, PlanRemove(p) PROVE Planned'
   BY <1>14 DEF PlanRemove, Order, Employed, Locked, Faithful, Once, Goto, Preparing, store,
     Planned
<1>15. ASSUME NEW p \in Proc, Remove(p) PROVE Planned'
   BY <1>15, FinishEffect DEF Remove, Order, Employed, Locked, Faithful, Once, Preparing,
     store, Planned
<1>16. ASSUME NEW p \in Proc, Crash(p) PROVE Planned'
   BY <1>16, FinishEffect DEF Crash, Order, Employed, Locked, Faithful, Once, Preparing,
     store, Planned
<1>17. ASSUME NEW p \in Proc, NEW a \in Attempt, PlanSwitch(p, a) PROVE Planned'
   BY <1>17, PlanMade DEF PlanSwitch, TypeOK, Order, Employed, Locked, Faithful, Once, Goto,
     store, Planned
<1>18. ASSUME NEW p \in Proc, NEW a \in Attempt, PlanCreate(p, a) PROVE Planned'
  BY <1>18 DEF PlanCreate, TypeOK, Order, Employed, Locked, Faithful, Once, Goto, store, Planned
<1>19. ASSUME NEW p \in Proc, NEW a \in Attempt, Execute(p, a) PROVE Planned'
  BY <1>19 DEF Execute, Order, Employed, Locked, Faithful, Once, Goto, Preparing, store, Planned
<1>20. ASSUME NEW p \in Proc, NEW a \in Attempt, Bootstrap(p, a) PROVE Planned'
   BY <1>20 DEF Bootstrap, Order, Employed, Locked, Faithful, Once, Goto, Preparing, store,
     Planned
<1>21. ASSUME NEW a \in Attempt, Expire(a) PROVE Planned'
  BY <1>21 DEF Expire, Order, Employed, Locked, Faithful, Once, local, store, Planned
<1>22. ASSUME Revoke PROVE Planned'
  BY <1>22 DEF Revoke, Order, Employed, Locked, Faithful, Once, local, Planned
<1>23. ASSUME Meddle PROVE Planned'
  BY <1>23 DEF Meddle, Order, Employed, Locked, Faithful, Once, local, store, Planned
<1> QED BY <1>1, <1>2, <1>3, <1>4, <1>5, <1>6, <1>7, <1>8, <1>9, <1>10, <1>11, <1>12, <1>13,
           <1>14, <1>15, <1>16, <1>17, <1>18, <1>19, <1>20, <1>21, <1>22, <1>23 DEF Next, Step

\* Every step keeps the worktree as it was examined, or disturbs the attempt.
LEMMA ExaminedStep == TypeOK /\ Order /\ Examined /\ [Next]_vars => Examined'
<1> SUFFICES ASSUME TypeOK, Order, Examined, [Next]_vars PROVE Examined'
  OBVIOUS
<1> USE ObserveKept
<1>1. CASE UNCHANGED vars
  BY <1>1 DEF vars, Order, Employed, Locked, Faithful, Once, git, local, hist, Examined
<1>2. ASSUME NEW p \in Proc, LockToPrepare(p) PROVE Examined'
   BY <1>2, FinishEffect DEF LockToPrepare, TypeOK, Order, Employed, Locked, Faithful, Once,
     Goto, git, hist, Examined
<1>3. ASSUME NEW p \in Proc, SaveCalibration(p) PROVE Examined'
   BY <1>3, FinishEffect DEF SaveCalibration, TypeOK, Order, Employed, Locked, Faithful, Once,
     GoOn, Goto, git, hist, Examined
<1>4. ASSUME NEW p \in Proc, Prove(p) PROVE Examined'
  <2>0. job[p] \in Attempt
    BY <1>4 DEF Order, Employed, Prove, Labels, Preparing
  <2> QED
     BY <1>4, <2>0, AppendEffect, FinishEffect DEF Prove, TypeOK, Order, Employed, Locked,
       Faithful, Once, GoOn, Goto, git, hist, Examined
<1>5. ASSUME NEW p \in Proc, Intend(p) PROVE Examined'
  <2>0. job[p] \in Attempt
    BY <1>5 DEF Order, Employed, Intend, Labels, Preparing
  <2> QED
     BY <1>5, <2>0, AppendEffect, FinishEffect DEF Intend, TypeOK, Order, Employed, Locked,
       Faithful, Once, GoOn, Goto, git, hist, Examined
<1>6. ASSUME NEW p \in Proc, Seal(p) PROVE Examined'
  <2>0. job[p] \in Attempt
    BY <1>6 DEF Order, Employed, Seal, Labels, Preparing
  <2> QED
     BY <1>6, <2>0, AppendEffect, FinishEffect DEF Seal, Order, Employed, Locked, Faithful,
       Once, Goto, git, hist, Examined
<1>7. ASSUME NEW p \in Proc, Examine(p) PROVE Examined'
   BY <1>7, FinishEffect DEF Examine, TypeOK, Order, Employed, Locked, Faithful, Once, GoOn,
     SameDigest, Goto, Executing, git, Examined
<1>8. ASSUME NEW p \in Proc, Announce(p) PROVE Examined'
  <2>0. job[p] \in Attempt
    BY <1>8 DEF Order, Employed, Announce, Labels, Executing
  <2> QED
     BY <1>8, <2>0, AppendEffect, FinishEffect DEF Announce, TypeOK, Order, Employed, Locked,
       Faithful, Once, GoOn, Goto, git, hist, Examined
<1>9. ASSUME NEW p \in Proc, GitSwitch(p) PROVE Examined'
   BY <1>9 DEF GitSwitch, TypeOK, Order, Employed, Locked, Faithful, Once, GoOn, Goto,
     Executing, Examined
<1>10. ASSUME NEW p \in Proc, Look(p) PROVE Examined'
  BY <1>10 DEF Look, Order, Employed, Locked, Faithful, Once, Goto, git, hist, Examined
<1>11. ASSUME NEW p \in Proc, Conclude(p) PROVE Examined'
  <2>0. job[p] \in Attempt
    BY <1>11 DEF Order, Employed, Conclude, Labels, Executing
  <2> QED
     BY <1>11, <2>0, AppendEffect, FinishEffect DEF Conclude, Order, Employed, Locked,
       Faithful, Once, Goto, git, hist, Examined
<1>12. ASSUME NEW p \in Proc, Push(p) PROVE Examined'
   BY <1>12, FinishEffect DEF Push, TypeOK, Order, Employed, Locked, Faithful, Once, GoOn,
     Goto, hist, Examined
<1>13. ASSUME NEW p \in Proc, AddWorktree(p) PROVE Examined'
   BY <1>13, FinishEffect DEF AddWorktree, Order, Employed, Locked, Faithful, Once, Labels,
     Executing, Examined
<1>14. ASSUME NEW p \in Proc, PlanRemove(p) PROVE Examined'
  BY <1>14 DEF PlanRemove, Order, Employed, Locked, Faithful, Once, Goto, git, hist, Examined
<1>15. ASSUME NEW p \in Proc, Remove(p) PROVE Examined'
   BY <1>15, FinishEffect DEF Remove, Order, Employed, Locked, Faithful, Once, Labels,
     Executing, Examined
<1>16. ASSUME NEW p \in Proc, Crash(p) PROVE Examined'
  BY <1>16, FinishEffect DEF Crash, Order, Employed, Locked, Faithful, Once, git, hist, Examined
<1>17. ASSUME NEW p \in Proc, NEW a \in Attempt, PlanSwitch(p, a) PROVE Examined'
  BY <1>17 DEF PlanSwitch, Order, Employed, Locked, Faithful, Once, Goto, git, hist, Examined
<1>18. ASSUME NEW p \in Proc, NEW a \in Attempt, PlanCreate(p, a) PROVE Examined'
  BY <1>18 DEF PlanCreate, Order, Employed, Locked, Faithful, Once, Goto, git, hist, Examined
<1>19. ASSUME NEW p \in Proc, NEW a \in Attempt, Execute(p, a) PROVE Examined'
  BY <1>19 DEF Execute, Order, Employed, Locked, Faithful, Once, Goto, git, hist, Examined
<1>20. ASSUME NEW p \in Proc, NEW a \in Attempt, Bootstrap(p, a) PROVE Examined'
  BY <1>20 DEF Bootstrap, Order, Employed, Locked, Faithful, Once, Goto, git, hist, Examined
<1>21. ASSUME NEW a \in Attempt, Expire(a) PROVE Examined'
  BY <1>21 DEF Expire, Order, Employed, Locked, Faithful, Once, git, local, hist, Examined
<1>22. ASSUME Revoke PROVE Examined'
  BY <1>22 DEF Revoke, Order, Employed, Locked, Faithful, Once, git, local, hist, Examined
<1>23. ASSUME Meddle PROVE Examined'
   BY <1>23 DEF Meddle, Order, Employed, Locked, Faithful, Once, Labels, Executing, local,
     Examined
<1> QED BY <1>1, <1>2, <1>3, <1>4, <1>5, <1>6, <1>7, <1>8, <1>9, <1>10, <1>11, <1>12, <1>13,
           <1>14, <1>15, <1>16, <1>17, <1>18, <1>19, <1>20, <1>21, <1>22, <1>23 DEF Next, Step

\* Every step leaves what the last switch left, and what was made of it.
LEMMA LeftStep == TypeOK /\ Order /\ Planned /\ Examined /\ Left /\ [Next]_vars => Left'
<1> SUFFICES ASSUME TypeOK, Order, Planned, Examined, Left, [Next]_vars PROVE Left'
  OBVIOUS
<1> USE ObserveKept
<1>1. CASE UNCHANGED vars
   BY <1>1 DEF vars, Order, Employed, Locked, Faithful, Once, git, local, store, hist, Left,
     Concluded
<1>2. ASSUME NEW p \in Proc, LockToPrepare(p) PROVE Left'
   BY <1>2, FinishEffect DEF LockToPrepare, TypeOK, Order, Employed, Locked, Faithful, Once,
     Goto, git, store, hist, Left, Concluded
<1>3. ASSUME NEW p \in Proc, SaveCalibration(p) PROVE Left'
   BY <1>3, FinishEffect DEF SaveCalibration, TypeOK, Order, Employed, Locked, Faithful, Once,
     GoOn, Goto, git, hist, Left, Concluded
<1>4. ASSUME NEW p \in Proc, Prove(p) PROVE Left'
  <2>0. job[p] \in Attempt
    BY <1>4 DEF Order, Employed, Prove, Labels, Preparing
  <2> QED
    BY <1>4, <2>0, AppendLeft DEF Prove, Order, Phases, hist, git
<1>5. ASSUME NEW p \in Proc, Intend(p) PROVE Left'
  <2>0. job[p] \in Attempt
    BY <1>5 DEF Order, Employed, Intend, Labels, Preparing
  <2> QED
    BY <1>5, <2>0, AppendLeft DEF Intend, Order, Phases, hist, git
<1>6. ASSUME NEW p \in Proc, Seal(p) PROVE Left'
  <2>0. job[p] \in Attempt
    BY <1>6 DEF Order, Employed, Seal, Labels, Preparing
  <2> QED
    BY <1>6, <2>0, AppendLeft DEF Seal, Order, Phases, hist, git
<1>7. ASSUME NEW p \in Proc, Examine(p) PROVE Left'
   BY <1>7, FinishEffect DEF Examine, TypeOK, Order, Employed, Locked, Faithful, Once, GoOn,
     Goto, git, store, Left, Concluded
<1>8. ASSUME NEW p \in Proc, Announce(p) PROVE Left'
  <2>0. job[p] \in Attempt
    BY <1>8 DEF Order, Employed, Announce, Labels, Executing
  <2> QED
    BY <1>8, <2>0, AppendLeft DEF Announce, Order, Phases, hist, git
<1>9. ASSUME NEW p \in Proc, GitSwitch(p) PROVE Left'
  <2>0. PICK b \in Switch : b = job[p]
    BY <1>9 DEF GitSwitch, Order, Employed, Executing
  <2>1. chain[b] = "OBSERVATION_REQUIRED" /\ mem[p] = intent[b] /\ lock = p
    BY <1>9, <2>0 DEF GitSwitch, Order, Once, Faithful, Locked, Executing
  <2>2. PlanOf(b, intent[b])
    BY <2>1 DEF Planned
  <2>3. b \in disturbed \/ Observe = intent[b].before
    BY <1>9, <2>0, <2>1 DEF GitSwitch, Examined
  <2>4. b \notin disturbed => tree.there /\ tree.clean
    BY <2>2, <2>3 DEF PlanOf, Observe
  <2>5. \A q \in Proc : pc'[q] # "conclude"
    BY <1>9, <2>1 DEF GitSwitch, GoOn, Goto, Order, Locked, Executing
  <2>6. last'.of = b /\ intent' = intent /\ chain' = chain /\ disturbed' = disturbed /\ tip' = tip
    BY <1>9, <2>0 DEF GitSwitch, store
  <2>7. ~Concluded(b)'
    BY <2>1, <2>6 DEF Concluded
  <2>8. last'.did \in {"done", "refused", "broken"}
    BY <1>9 DEF GitSwitch
  <2>9. CASE last'.did = "done"
    <3>1. tree' = [tree EXCEPT !.ref = Goal[b]]
      BY <1>9, <2>0, <2>9 DEF GitSwitch
    <3> QED BY <2>1, <2>4, <2>5, <2>6, <2>7, <2>9, <3>1 DEF Left
  <2>10. CASE last'.did = "refused"
    <3>1. tree' = tree
      BY <1>9, <2>10 DEF GitSwitch
    <3>2. Observe' = Observe
      BY <2>6, <3>1
    <3> QED BY <2>1, <2>3, <2>5, <2>6, <2>7, <2>10, <3>2 DEF Left
  <2>11. CASE last'.did = "broken"
    <3>1. PICK did \in IF tree.there THEN {"done", "refused", "broken"} ELSE {"refused"} :
            /\ last' = [of |-> job[p], did |-> did]
            /\ did = "broken" =>
                 \E c \in {tree.ref, Goal[job[p]]} : tree' = [tree EXCEPT !.ref = c, !.clean = FALSE]
      BY <1>9 DEF GitSwitch
    <3>2. did = "broken" /\ tree.there
      BY <2>11, <3>1
    <3>3. tree'.there /\ ~tree'.clean
      BY <3>1, <3>2 DEF TypeOK
    <3> QED BY <2>1, <2>5, <2>6, <2>7, <2>11, <3>3 DEF Left
  <2> QED BY <2>8, <2>9, <2>10, <2>11
<1>10. ASSUME NEW p \in Proc, Look(p) PROVE Left'
   BY <1>10 DEF Look, TypeOK, Order, Employed, Locked, Faithful, Once, Goto, Executing, git,
     store, hist, Left, Concluded
<1>11. ASSUME NEW p \in Proc, Conclude(p) PROVE Left'
  <2>0. job[p] \in Attempt
    BY <1>11 DEF Order, Employed, Conclude, Labels, Executing
  <2> QED
     BY <1>11, <2>0, AppendEffect, FinishEffect DEF Conclude, TypeOK, Order, Employed, Locked,
       Faithful, Once, Announced, Goto, Labels, git, hist, Left, Concluded
<1>12. ASSUME NEW p \in Proc, Push(p) PROVE Left'
   BY <1>12, FinishEffect DEF Push, TypeOK, Order, Employed, Locked, Faithful, Once, GoOn,
     Goto, store, hist, Left, Concluded
<1>13. ASSUME NEW p \in Proc, AddWorktree(p) PROVE Left'
  <2>1. CASE tree' = tree
    BY <1>13, <2>1, FinishEffect DEF AddWorktree, Left, Concluded, Classify, store
  <2>2. CASE tree' # tree
    BY <1>13, <2>2 DEF AddWorktree, Left, Attempt
  <2> QED BY <2>1, <2>2
<1>14. ASSUME NEW p \in Proc, PlanRemove(p) PROVE Left'
   BY <1>14 DEF PlanRemove, Order, Employed, Locked, Faithful, Once, Goto, git, store, hist,
     Left, Concluded
<1>15. ASSUME NEW p \in Proc, Remove(p) PROVE Left'
  <2>1. CASE tree' = tree
    BY <1>15, <2>1, FinishEffect DEF Remove, Left, Concluded, Classify, store
  <2>2. CASE tree' # tree
    BY <1>15, <2>2 DEF Remove, Left, Attempt
  <2> QED BY <2>1, <2>2
<1>16. ASSUME NEW p \in Proc, Crash(p) PROVE Left'
   BY <1>16, FinishEffect DEF Crash, Order, Employed, Locked, Faithful, Once, git, store,
     hist, Left, Concluded
<1>17. ASSUME NEW p \in Proc, NEW a \in Attempt, PlanSwitch(p, a) PROVE Left'
   BY <1>17 DEF PlanSwitch, Order, Employed, Locked, Faithful, Once, Goto, git, store, hist,
     Left, Concluded
<1>18. ASSUME NEW p \in Proc, NEW a \in Attempt, PlanCreate(p, a) PROVE Left'
   BY <1>18 DEF PlanCreate, Order, Employed, Locked, Faithful, Once, Goto, git, store, hist,
     Left, Concluded
<1>19. ASSUME NEW p \in Proc, NEW a \in Attempt, Execute(p, a) PROVE Left'
   BY <1>19 DEF Execute, Order, Employed, Locked, Faithful, Once, Goto, git, store, hist,
     Left, Concluded
<1>20. ASSUME NEW p \in Proc, NEW a \in Attempt, Bootstrap(p, a) PROVE Left'
   BY <1>20 DEF Bootstrap, Order, Employed, Locked, Faithful, Once, Goto, git, store, hist,
     Left, Concluded
<1>21. ASSUME NEW a \in Attempt, Expire(a) PROVE Left'
   BY <1>21 DEF Expire, Order, Employed, Locked, Faithful, Once, git, local, store, hist,
     Left, Concluded
<1>22. ASSUME Revoke PROVE Left'
   BY <1>22 DEF Revoke, Order, Employed, Locked, Faithful, Once, git, local, hist, Left,
     Concluded
<1>23. ASSUME Meddle PROVE Left'
  BY <1>23 DEF Meddle, Left, Attempt
<1> QED BY <1>1, <1>2, <1>3, <1>4, <1>5, <1>6, <1>7, <1>8, <1>9, <1>10, <1>11, <1>12, <1>13,
           <1>14, <1>15, <1>16, <1>17, <1>18, <1>19, <1>20, <1>21, <1>22, <1>23 DEF Next, Step

-----------------------------------------------------------------------------
LEMMA InitInv == Init => IInv
<1> SUFFICES ASSUME Init PROVE IInv
  OBVIOUS
<1>1. TypeOK
  <2>1. tree \in [there : BOOLEAN, ref : Branch, clean : BOOLEAN]
    BY DEF Init
  <2>2. last \in [of : Attempt \union {None}, did : {"none", "done", "refused", "broken"}]
    BY DEF Init
  <2> QED BY <2>1, <2>2, PlanTypes DEF Init, TypeOK, Phases, Seen, Labels
<1>2. Order
  BY DEF Init, Order, Employed, Locked, Faithful, Once, Preparing, Executing
<1>3. Planned /\ Examined /\ Left
  BY DEF Init, Planned, Examined, Left, Attempt
<1> QED BY <1>1, <1>2, <1>3 DEF IInv

LEMMA InvStep == IInv /\ [Next]_vars => IInv'
  BY TypeStep, OrderStep, PlannedStep, ExaminedStep, LeftStep DEF IInv, Order

(* The inductive invariant holds: commands prepare and execute only under   *)
(* project.lock, what they execute is the sealed intent, and an attempt     *)
(* nobody has disturbed finds the worktree as its last step left it.        *)
THEOREM Invariance == Spec => []IInv
  BY InitInv, InvStep, PTL DEF Spec

(* execute_switch runs "git switch" at most once for an attempt, whatever   *)
(* processes repeat it and wherever they die, and only when the record that *)
(* demands an observation is on disk.                                       *)
THEOREM SwitchesOnce == Spec => []SwitchedOnce
<1>1. IInv => SwitchedOnce
  BY DEF IInv, Order, Once, SwitchedOnce
<1> QED BY <1>1, Invariance, PTL

(* A switch starts from the state its sealed intent names, unless somebody  *)
(* who takes no lock came between the check and "git switch".               *)
THEOREM SwitchStartsFromPlanned == Spec => StartsFromPlanned
<1> DEFINE Starts == \A a \in Switch :
                       runs'[a] # runs[a] => a \in disturbed \/ Observe = intent[a].before
<1>1. ASSUME IInv, [Next]_vars PROVE [Starts]_vars
  <2>1. ASSUME NEW p \in Proc, GitSwitch(p) PROVE Starts
    <3>1. job[p] \in disturbed \/ Observe = intent[job[p]].before
      BY <1>1, <2>1 DEF GitSwitch, IInv, Order, Faithful, Examined, Executing
    <3>2. \A a \in Switch : runs'[a] # runs[a] => a = job[p]
      BY <1>1, <2>1 DEF GitSwitch, IInv, Attempt
    <3> QED BY <3>1, <3>2
  <2>2. CASE UNCHANGED vars
    BY <2>2
  <2>3. CASE runs' = runs
    BY <2>3
  <2>4. UNCHANGED vars \/ runs' = runs \/ \E p \in Proc : GitSwitch(p)
     BY <1>1 DEF Next, Step, LockToPrepare, SaveCalibration, Prove, Intend, Seal, Examine,
       Announce, Look, Conclude, Push, AddWorktree, PlanRemove, Remove, Crash, PlanSwitch,
       PlanCreate, Execute, Bootstrap, Expire, Revoke, Meddle, hist
  <2> QED BY <2>1, <2>2, <2>3, <2>4
<1>2. IInv /\ [Next]_vars => [Starts]_vars
  BY <1>1
<1> QED BY <1>2, Invariance, PTL DEF Spec, StartsFromPlanned

(* As long as nobody else touches the worktree, resume_worktree_operation   *)
(* finds what git did, also after a crash before it was written down, and   *)
(* the FINAL_OBSERVATION on record says the same.                           *)
THEOREM ResumeAgrees == Spec => []ReportsAgree
<1>1. ASSUME IInv, NEW a \in Switch, last.of = a, a \notin disturbed
      PROVE  /\ last.did = "broken" => Resume(a) = "recover"
             /\ last.did = "done" =>
                  Resume(a) = IF tip[Goal[a]] = intent[a].oid THEN "target" ELSE "recover"
             /\ last.did = "refused" => Resume(a) \in {"original", "target"}
             /\ Concluded(a) => verdict[a] = Resume(a)
  <2>1. Announced(a)
    BY <1>1 DEF IInv, Order, Once, Attempt
  <2>2. Resume(a) = Classify(a, intent[a], Observe) /\ PlanOf(a, intent[a])
    BY <1>1, <2>1 DEF IInv, Planned, Resume, Sealed, Announced
  <2>3. last.did = "broken" => Resume(a) = "recover"
    BY <1>1, <2>2 DEF IInv, Left, Observe, Classify
  <2>4. ASSUME last.did = "done"
        PROVE  Resume(a) = IF tip[Goal[a]] = intent[a].oid THEN "target" ELSE "recover"
    <3>1. Observe.there /\ Observe.clean /\ Observe.ref = Goal[a] /\ Observe.oid = tip[Goal[a]]
      BY <1>1, <2>4 DEF IInv, Left, Observe
    <3> QED BY <2>2, <3>1 DEF Classify, PlanOf
  <2>5. last.did = "refused" => Resume(a) \in {"original", "target"}
    BY <1>1, <2>2 DEF IInv, Left, Classify, PlanOf
  <2>6. Concluded(a) => verdict[a] = Resume(a)
    BY <1>1, <2>2 DEF IInv, Left
  <2> QED BY <2>3, <2>4, <2>5, <2>6
<1>2. IInv => ReportsAgree
  BY <1>1 DEF ReportsAgree
<1> QED BY <1>2, Invariance, PTL
=============================================================================
