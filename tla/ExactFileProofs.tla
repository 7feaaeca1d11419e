--------------------------- MODULE ExactFileProofs ---------------------------
(***************************************************************************)
(* Proofs about ExactFile for any number of processes, authorizations,     *)
(* targets and contents, any plans, and any bounds on faults, crashes and  *)
(* outside edits.                                                          *)
(***************************************************************************)
EXTENDS ExactFile, TLAPS

-----------------------------------------------------------------------------
(* The constant part of a step: what a successful or failed manifest write  *)
(* leaves well typed.                                                       *)
LEMMA PersistType ==
  ASSUME TypeOK, NEW p \in Proc, NEW m \in Manifest, job[p] \in Auth,
         NEW good \in Critical, NEW bad \in Critical, Persist(p, m, good, bad)
  PROVE  /\ journal' \in [Auth -> Manifest \union {NoManifest}]
         /\ pc' \in [Proc -> Critical \union {"idle", "admitted"}]
         /\ mem' \in [Proc -> Manifest \union {NoManifest}]
         /\ faults' \in Nat
  BY DEF TypeOK, Persist, Count

\* What a plan says of its targets is well typed.
LEMMA PlanFacts ==
  ASSUME NEW a \in Auth, NEW r \in Ref
  PROVE  /\ Plan[a].before[r] \in Image /\ Plan[a].after[r] \in Image
         /\ Targets(a) \subseteq Ref
  BY PlanAssumption DEF PlanType, Image, Targets

\* A process that is not idle works on an authorization; one past PREPARED has a manifest.
Busy ==
  /\ \A p \in Proc : pc[p] # "idle" => job[p] \in Auth
  /\ \A p \in Proc : pc[p] \in {"begin", "next", "replace", "account", "rollback"}
                       => mem[p] \in Manifest

\* A process that returns or dies leaves a well-typed state.
LEMMA ReturnType ==
  ASSUME TypeOK, Busy, NEW p \in Proc, Return(p)
  PROVE  /\ lock' \in Proc \union {None}
         /\ pc' \in [Proc -> Critical \union {"idle", "admitted"}]
         /\ job' \in [Proc -> Auth \union {None}]
         /\ mem' \in [Proc -> Manifest \union {NoManifest}]
         /\ done' \in [Proc -> SUBSET Ref]
         /\ failures' \in [Proc -> SUBSET Ref]
         /\ Busy'
  BY DEF TypeOK, Return, Busy, Critical

\* Every step keeps the state well typed, and every running command busy with a job.
LEMMA TypeStep == TypeOK /\ Busy /\ [Next]_vars => TypeOK' /\ Busy'
<1> SUFFICES ASSUME TypeOK, Busy, [Next]_vars PROVE TypeOK' /\ Busy'
    OBVIOUS
<1>1. CASE UNCHANGED vars
  BY <1>1 DEF TypeOK, Busy, vars
<1>2. ASSUME NEW p \in Proc, AcquireLock(p) PROVE TypeOK' /\ Busy'
  BY <1>2 DEF TypeOK, Busy, AcquireLock, Critical
<1>3. ASSUME NEW p \in Proc, FreshAdmission(p) PROVE TypeOK' /\ Busy'
  BY <1>3 DEF TypeOK, Busy, FreshAdmission, Critical
<1>4. ASSUME NEW p \in Proc, WritePrepared(p) PROVE TypeOK' /\ Busy'
  <2> DEFINE m == [state |-> "PREPARED", attempted |-> {}, applied |-> {}]
  <2>1. m \in Manifest /\ job[p] \in Auth /\ {"begin", "release"} \subseteq Critical
    BY <1>4 DEF Manifest, States, Busy, WritePrepared, Critical
  <2>2. Persist(p, m, "begin", "release")
    BY <1>4 DEF WritePrepared
  <2> HIDE DEF m
  <2>3. TypeOK'
    BY <1>4, <2>1, <2>2, PersistType DEF TypeOK, WritePrepared
  <2>4. Busy'
    BY <1>4, <2>1, <2>2 DEF TypeOK, Busy, WritePrepared, Persist
  <2> QED BY <2>3, <2>4
<1>5. ASSUME NEW p \in Proc, WriteApplying(p) PROVE TypeOK' /\ Busy'
  <2> DEFINE m == [mem[p] EXCEPT !.state = "APPLYING"]
  <2>1. m \in Manifest /\ job[p] \in Auth /\ {"next", "rollback"} \subseteq Critical
    BY <1>5 DEF Manifest, States, Busy, WriteApplying, Critical
  <2>2. Persist(p, m, "next", "rollback")
    BY <1>5 DEF WriteApplying
  <2> HIDE DEF m
  <2>3. TypeOK'
    BY <1>5, <2>1, <2>2, PersistType DEF TypeOK, WriteApplying
  <2>4. Busy'
    BY <1>5, <2>1, <2>2 DEF TypeOK, Busy, WriteApplying, Persist
  <2> QED BY <2>3, <2>4
<1>6. ASSUME NEW p \in Proc, AttemptTarget(p) PROVE TypeOK' /\ Busy'
  <2> PICK r \in Ref :
        IF Preimage(job[p], r)
        THEN Persist(p, [mem[p] EXCEPT !.attempted = @ \union {r}], "replace", "rollback")
        ELSE /\ pc' = [pc EXCEPT ![p] = "rollback"]
             /\ UNCHANGED <<journal, mem, faults>>
    BY <1>6 DEF AttemptTarget
  <2> DEFINE m == [mem[p] EXCEPT !.attempted = @ \union {r}]
  <2>1. m \in Manifest /\ mem[p] \in Manifest /\ job[p] \in Auth
    BY <1>6 DEF Manifest, States, Busy, AttemptTarget
  <2>2. {"replace", "rollback"} \subseteq Critical
    BY DEF Critical
  <2>3. CASE Preimage(job[p], r)
    <3>1. Persist(p, m, "replace", "rollback")
      BY <2>3
    <3> HIDE DEF m
    <3>2. TypeOK'
      BY <1>6, <2>1, <2>2, <3>1, PersistType DEF TypeOK, AttemptTarget
    <3>3. Busy'
      BY <1>6, <2>1, <3>1 DEF TypeOK, Busy, AttemptTarget, Persist
    <3> QED BY <3>2, <3>3
  <2>4. CASE ~Preimage(job[p], r)
    BY <1>6, <2>1, <2>2, <2>4 DEF TypeOK, Busy, AttemptTarget
  <2> QED BY <2>3, <2>4
<1>7. ASSUME NEW p \in Proc, ReplaceTarget(p) PROVE TypeOK' /\ Busy'
  <2> PICK r \in mem[p].attempted \ mem[p].applied, o \in Outcomes :
        /\ WriteTarget(r, Plan[job[p]].after[r], o)
        /\ owner' = IF o = "lost" THEN owner ELSE [owner EXCEPT ![r] = job[p]]
        /\ pc' = [pc EXCEPT ![p] = IF o = "ok" THEN "account" ELSE "rollback"]
        /\ Count(o)
    BY <1>7 DEF ReplaceTarget
  <2>1. r \in Ref /\ job[p] \in Auth
    BY <1>7 DEF ReplaceTarget, Busy, Manifest
  <2>2. Plan[job[p]].after[r] \in Image
    BY <2>1, PlanFacts
  <2> QED BY <1>7, <2>1, <2>2 DEF TypeOK, Busy, ReplaceTarget, WriteTarget, Count, Critical
<1>8. ASSUME NEW p \in Proc, AccountTarget(p) PROVE TypeOK' /\ Busy'
  <2> DEFINE m == [mem[p] EXCEPT !.applied = mem[p].attempted]
  <2>1. m \in Manifest /\ job[p] \in Auth /\ {"next", "rollback"} \subseteq Critical
    BY <1>8 DEF Manifest, States, Busy, AccountTarget, Critical
  <2>2. Persist(p, m, "next", "rollback")
    BY <1>8 DEF AccountTarget
  <2> HIDE DEF m
  <2>3. TypeOK'
    BY <1>8, <2>1, <2>2, PersistType DEF TypeOK, AccountTarget
  <2>4. Busy'
    BY <1>8, <2>1, <2>2 DEF TypeOK, Busy, AccountTarget, Persist
  <2> QED BY <2>3, <2>4
<1>9. ASSUME NEW p \in Proc, Commit(p) PROVE TypeOK' /\ Busy'
  <2> DEFINE m == [mem[p] EXCEPT !.state = "COMMITTED"]
  <2>1. m \in Manifest /\ job[p] \in Auth /\ {"release", "rollback"} \subseteq Critical
    BY <1>9 DEF Manifest, States, Busy, Commit, Critical
  <2>2. Persist(p, m, "release", "rollback")
    BY <1>9 DEF Commit
  <2> HIDE DEF m
  <2>3. TypeOK'
    BY <1>9, <2>1, <2>2, PersistType DEF TypeOK, Commit
  <2>4. Busy'
    BY <1>9, <2>1, <2>2 DEF TypeOK, Busy, Commit, Persist
  <2> QED BY <2>3, <2>4
<1>10. ASSUME NEW p \in Proc, RollbackTarget(p) PROVE TypeOK' /\ Busy'
  <2>1. job[p] \in Auth
    BY <1>10 DEF RollbackTarget, Busy
  <2>2. \A r \in Ref : Plan[job[p]].before[r] \in Image
    BY <2>1, PlanFacts
  <2> QED BY <1>10, <2>1, <2>2 DEF TypeOK, Busy, RollbackTarget, WriteTarget, Count
<1>11. ASSUME NEW p \in Proc, FinishRollback(p) PROVE TypeOK' /\ Busy'
  <2> DEFINE m == [mem[p] EXCEPT !.state = IF failures[p] = {} THEN "RECOVERED" ELSE "PARTIAL"]
  <2>1. m \in Manifest /\ job[p] \in Auth /\ "release" \in Critical
    BY <1>11 DEF Manifest, States, Busy, FinishRollback, Critical
  <2>2. Persist(p, m, "release", "release")
    BY <1>11 DEF FinishRollback
  <2> HIDE DEF m
  <2>3. TypeOK'
    BY <1>11, <2>1, <2>2, PersistType DEF TypeOK, FinishRollback
  <2>4. Busy'
    BY <1>11, <2>1, <2>2 DEF TypeOK, Busy, FinishRollback, Persist
  <2> QED BY <2>3, <2>4
<1>12. ASSUME NEW p \in Proc, ReleaseLock(p) PROVE TypeOK' /\ Busy'
  BY <1>12, ReturnType DEF TypeOK, ReleaseLock
<1>13. ASSUME NEW p \in Proc, Crash(p) PROVE TypeOK' /\ Busy'
  BY <1>13, ReturnType DEF TypeOK, Crash
<1>14. ASSUME NEW p \in Proc, NEW a \in Auth, Admit(p, a) PROVE TypeOK' /\ Busy'
  BY <1>14 DEF TypeOK, Busy, Admit, Critical
<1>15. ASSUME NEW p \in Proc, NEW a \in Auth, Recover(p, a) PROVE TypeOK' /\ Busy'
  BY <1>15 DEF TypeOK, Busy, Recover, Consumed, Critical
<1>16. ASSUME NEW r \in Ref, NEW c \in Image, Edit(r, c) PROVE TypeOK' /\ Busy'
  BY <1>16 DEF TypeOK, Busy, Edit
<1> QED
  BY <1>1, <1>2, <1>3, <1>4, <1>5, <1>6, <1>7, <1>8, <1>9, <1>10, <1>11, <1>12, <1>13,
     <1>14, <1>15, <1>16 DEF Next, Step

(* Type correctness of the transaction: every reachable state is well       *)
(* formed, in particular every manifest on disk has one of the five states  *)
(* _validate_exact_manifest accepts.                                        *)
THEOREM TypeCorrect == Spec => []TypeOK
<1>1. Init => TypeOK /\ Busy
  BY DiskAssumption, BoundAssumption, NoneAssumption DEF Init, TypeOK, Busy, Critical
<1>2. TypeOK /\ Busy /\ [Next]_vars => TypeOK' /\ Busy'
  BY TypeStep
<1> QED BY <1>1, <1>2, PTL DEF Spec

-----------------------------------------------------------------------------
(* No process but the lock holder is inside the transaction.                *)
LEMMA Exclusive ==
  ASSUME LockHeld, NEW p \in Proc, NEW q \in Proc, pc[p] \in Critical, q # p
  PROVE  pc[q] \notin Critical
  BY DEF LockHeld

(* A manifest write of the lock holder that announces at least the targets  *)
(* announced before, and says RECOVERED only if no bytes are left, keeps    *)
(* the two promises of the journal.                                         *)
LEMMA PersistKeepsPromises ==
  ASSUME TypeOK, WriteAhead, RecoveredLeavesNothing,
         NEW p \in Proc, job[p] \in Auth, NEW m \in Manifest,
         NEW good, NEW bad, Persist(p, m, good, bad), UNCHANGED owner,
         journal[job[p]].attempted \subseteq m.attempted,
         m.state = "RECOVERED" => \A r \in Ref : owner[r] # job[p]
  PROVE  WriteAhead' /\ RecoveredLeavesNothing'
<1>1. m # NoManifest
  BY DEF Manifest, States, NoManifest
<1>2. PICK o \in Outcomes :
        journal' = IF o = "lost" THEN journal ELSE [journal EXCEPT ![job[p]] = m]
  BY DEF Persist
<1>3. WriteAhead'
  BY <1>1, <1>2 DEF TypeOK, WriteAhead, Consumed
<1>4. RecoveredLeavesNothing'
  BY <1>2 DEF TypeOK, RecoveredLeavesNothing
<1> QED BY <1>3, <1>4

(* What a manifest write does to the control part of the invariant.  The    *)
(* step stays inside the critical section, and what holds of the written    *)
(* manifest is what the next step relies on.                                *)
LEMMA PersistControl ==
  ASSUME TypeOK, Busy, LockHeld, FreshManifest, InStep, RollingBack, RollbackStarts,
         NEW p \in Proc, pc[p] \in Critical, NEW m \in Manifest,
         NEW good \in Critical \ {"prepare"}, NEW bad \in {"rollback", "release"},
         Persist(p, m, good, bad), UNCHANGED <<lock, job, done, failures, owner>>,
         good \in Forward => m.state = IF good = "begin" THEN "PREPARED" ELSE "APPLYING",
         good # "rollback",
         good \in {"release"} \/ done[p] = {},
         bad = "rollback" =>
           /\ Consumed(job[p]) /\ done[p] = {}
           /\ journal[job[p]].attempted \subseteq m.attempted
  PROVE  LockHeld' /\ FreshManifest' /\ InStep' /\ RollingBack' /\ RollbackStarts'
<1>1. PICK o \in Outcomes :
        /\ journal' = IF o = "lost" THEN journal ELSE [journal EXCEPT ![job[p]] = m]
        /\ pc' = [pc EXCEPT ![p] = IF o = "ok" THEN good ELSE bad]
        /\ mem' = [mem EXCEPT ![p] = m]
  BY DEF Persist
<1>2. \A q \in Proc : q # p => pc'[q] \notin Critical /\ pc'[q] = pc[q]
  BY <1>1, Exclusive DEF TypeOK
<1>3. pc'[p] \in Critical /\ pc'[p] # "prepare" /\ job[p] \in Auth
  BY <1>1 DEF TypeOK, Busy, Critical
<1>4. LockHeld'
  BY <1>2 DEF LockHeld
<1>5. FreshManifest'
  BY <1>2, <1>3 DEF FreshManifest, Critical
<1>6. InStep'
  BY <1>1, <1>2, <1>3 DEF TypeOK, InStep, Forward, Critical
<1>7. RollingBack'
  <2>1. m # NoManifest
    BY DEF Manifest, States, NoManifest
  <2> SUFFICES ASSUME pc'[p] = "rollback"
               PROVE  /\ Consumed(job[p])'
                      /\ journal'[job[p]].attempted \subseteq mem'[p].attempted
                      /\ done[p] = {}
    BY <1>2 DEF RollingBack, Critical
  <2> QED BY <1>1, <1>3, <2>1 DEF TypeOK, Consumed
<1>8. RollbackStarts'
  <2> SUFFICES ASSUME NEW q \in Proc, pc'[q] \notin {"rollback", "release"}
               PROVE  done[q] = {}
    BY DEF RollbackStarts
  <2>1. CASE q = p
    BY <1>1, <2>1 DEF TypeOK
  <2>2. CASE q # p
    BY <1>2, <2>2 DEF RollbackStarts
  <2> QED BY <2>1, <2>2
<1> QED BY <1>4, <1>5, <1>6, <1>7, <1>8

\* A step that touches neither files nor ownership keeps OwnerBytes.
LEMMA OwnerBytesKept ==
  ASSUME OwnerBytes, UNCHANGED <<disk, owner>>
  PROVE  OwnerBytes'
  BY DEF OwnerBytes

(* One iteration of the rollback: a file is either freed of its owner or    *)
(* left exactly as it was, and the target dealt with is freed of this       *)
(* transaction or listed as a failure.                                      *)
LEMMA RollbackEffect ==
  ASSUME TypeOK, NEW p \in Proc, job[p] \in Auth, RollbackTarget(p)
  PROVE  /\ \A s \in Ref : owner'[s] = None \/ (owner'[s] = owner[s] /\ disk'[s] = disk[s])
         /\ \A q \in Proc \ {p} : done'[q] = done[q]
         /\ \A s \in done'[p] :
              \/ owner'[s] # job[p]
              \/ s \in failures'[p]
              \/ s \in done[p] /\ owner'[s] = owner[s] /\ failures[p] \subseteq failures'[p]
<1> PICK r \in Ref :
      /\ done' = [done EXCEPT ![p] = @ \union {r}]
      /\ \/ /\ Preimage(job[p], r)
            /\ owner' = [owner EXCEPT ![r] = IF @ = job[p] THEN None ELSE @]
            /\ UNCHANGED <<disk, failures, faults>>
         \/ /\ ~Preimage(job[p], r)
            /\ disk[r] # Plan[job[p]].after[r]
            /\ failures' = [failures EXCEPT ![p] = @ \union {r}]
            /\ UNCHANGED <<disk, owner, faults>>
         \/ \E o \in RestoreOutcomes(Plan[job[p]].before[r]) :
              /\ WriteTarget(r, Plan[job[p]].before[r], o)
              /\ owner' = IF o = "lost" THEN owner ELSE [owner EXCEPT ![r] = None]
              /\ failures' = IF o = "ok" THEN failures
                             ELSE [failures EXCEPT ![p] = @ \union {r}]
  BY DEF RollbackTarget
<1>1. /\ \A q \in Proc \ {p} : done'[q] = done[q]
      /\ done'[p] = done[p] \union {r}
      /\ done[p] \subseteq Ref
  BY DEF TypeOK
<1>2. \A s \in Ref : owner'[s] = None \/ (owner'[s] = owner[s] /\ disk'[s] = disk[s])
  BY DEF TypeOK, WriteTarget
<1>3. owner'[r] # job[p] \/ r \in failures'[p]
  BY NoneAssumption DEF TypeOK
<1>4. failures[p] \subseteq failures'[p]
  BY DEF TypeOK
<1>5. \A s \in done[p] : owner'[s] # job[p] \/ owner'[s] = owner[s]
  BY <1>1, <1>2, NoneAssumption
<1> QED BY <1>1, <1>2, <1>3, <1>4, <1>5

(* A step that leaves every manifest alone and at most clears owners keeps  *)
(* what the manifests promise about the files.                              *)
LEMMA ClearingKeepsPromises ==
  ASSUME WriteAhead, RecoveredLeavesNothing, journal' = journal,
         \A s \in Ref : owner'[s] = None \/ owner'[s] = owner[s]
  PROVE  WriteAhead' /\ RecoveredLeavesNothing'
<1>1. \A a \in Auth : a # None
  BY NoneAssumption
<1>2. WriteAhead'
  BY DEF WriteAhead, Consumed
<1>3. RecoveredLeavesNothing'
  BY <1>1 DEF RecoveredLeavesNothing
<1> QED BY <1>2, <1>3

(* Every step keeps the inductive invariant: one case per action, one step  *)
(* per conjunct the action can disturb.                                     *)
LEMMA InvariantStep == TypeOK /\ Busy /\ IInv /\ [Next]_vars => IInv'
<1> SUFFICES ASSUME TypeOK, Busy, IInv, [Next]_vars PROVE IInv'
    OBVIOUS
<1> USE DEF IInv
<1>1. CASE UNCHANGED vars
  BY <1>1 DEF vars, LockHeld, FreshManifest, InStep, RollingBack, RollbackStarts, OwnerBytes,
              WriteAhead, RecoveredLeavesNothing, Consumed
<1>2. ASSUME NEW p \in Proc, AcquireLock(p) PROVE IInv'
  BY NoneAssumption, <1>2 DEF TypeOK, AcquireLock, LockHeld, FreshManifest, InStep, RollingBack, RollbackStarts,
              OwnerBytes, WriteAhead, RecoveredLeavesNothing, Consumed, Critical, Forward
<1>3. ASSUME NEW p \in Proc, FreshAdmission(p) PROVE IInv'
  BY <1>3 DEF TypeOK, FreshAdmission, LockHeld, FreshManifest, InStep, RollingBack,
              RollbackStarts, OwnerBytes, WriteAhead, RecoveredLeavesNothing, Consumed,
              Critical, Forward
<1>4. ASSUME NEW p \in Proc, WritePrepared(p) PROVE IInv'
  <2> DEFINE m == [state |-> "PREPARED", attempted |-> {}, applied |-> {}]
  <2>1. m \in Manifest /\ job[p] \in Auth /\ pc[p] \in Critical /\ done[p] = {}
    BY <1>4 DEF WritePrepared, Busy, RollbackStarts, Critical, Manifest, States
  <2>2. journal[job[p]].attempted \subseteq m.attempted /\ m.state # "RECOVERED"
    BY <1>4, <2>1 DEF WritePrepared, Busy, InStep, Forward, FreshManifest, Consumed, NoManifest, Manifest
  <2>3. m.state = "PREPARED" \/ "begin" = "release"
    BY <1>4 DEF WritePrepared, Busy, InStep, Forward, Manifest
  <2>4. "release" = "rollback" => Consumed(job[p])
    BY <1>4 DEF WritePrepared, Busy, InStep, Forward, Consumed, NoManifest, Manifest, States
  <2>5. Persist(p, m, "begin", "release")
    BY <1>4 DEF WritePrepared
  <2>6. UNCHANGED <<disk, lock, job, done, failures, owner>>
    BY <1>4 DEF WritePrepared
  <2> HIDE DEF m
  <2>7. "begin" \in Critical \ {"prepare"} /\ ("begin" = "release" => "begin" \notin Forward)
    BY DEF Critical, Forward
  <2>8. LockHeld' /\ FreshManifest' /\ InStep' /\ RollingBack' /\ RollbackStarts'
    BY <2>1, <2>2, <2>3, <2>4, <2>5, <2>6, <2>7, PersistControl
  <2>9. WriteAhead' /\ RecoveredLeavesNothing'
    BY <2>1, <2>2, <2>5, <2>6, PersistKeepsPromises
  <2> QED BY <2>6, <2>8, <2>9, OwnerBytesKept
<1>5. ASSUME NEW p \in Proc, WriteApplying(p) PROVE IInv'
  <2> DEFINE m == [mem[p] EXCEPT !.state = "APPLYING"]
  <2>1. m \in Manifest /\ job[p] \in Auth /\ pc[p] \in Critical /\ done[p] = {}
    BY <1>5 DEF WriteApplying, Busy, RollbackStarts, Critical, Manifest, States
  <2>2. journal[job[p]].attempted \subseteq m.attempted /\ m.state # "RECOVERED"
    BY <1>5, <2>1 DEF WriteApplying, Busy, InStep, Forward, FreshManifest, Consumed, NoManifest, Manifest
  <2>3. m.state = "APPLYING" \/ "next" = "release"
    BY <1>5 DEF WriteApplying, Busy, InStep, Forward, Manifest
  <2>4. "rollback" = "rollback" => Consumed(job[p])
    BY <1>5 DEF WriteApplying, Busy, InStep, Forward, Consumed, NoManifest, Manifest, States
  <2>5. Persist(p, m, "next", "rollback")
    BY <1>5 DEF WriteApplying
  <2>6. UNCHANGED <<disk, lock, job, done, failures, owner>>
    BY <1>5 DEF WriteApplying
  <2> HIDE DEF m
  <2>7. "next" \in Critical \ {"prepare"} /\ ("next" = "release" => "next" \notin Forward)
    BY DEF Critical, Forward
  <2>8. LockHeld' /\ FreshManifest' /\ InStep' /\ RollingBack' /\ RollbackStarts'
    BY <2>1, <2>2, <2>3, <2>4, <2>5, <2>6, <2>7, PersistControl
  <2>9. WriteAhead' /\ RecoveredLeavesNothing'
    BY <2>1, <2>2, <2>5, <2>6, PersistKeepsPromises
  <2> QED BY <2>6, <2>8, <2>9, OwnerBytesKept
<1>6. ASSUME NEW p \in Proc, AccountTarget(p) PROVE IInv'
  <2> DEFINE m == [mem[p] EXCEPT !.applied = mem[p].attempted]
  <2>1. m \in Manifest /\ job[p] \in Auth /\ pc[p] \in Critical /\ done[p] = {}
    BY <1>6 DEF AccountTarget, Busy, RollbackStarts, Critical, Manifest, States
  <2>2. journal[job[p]].attempted \subseteq m.attempted /\ m.state # "RECOVERED"
    BY <1>6, <2>1 DEF AccountTarget, Busy, InStep, Forward, FreshManifest, Consumed, NoManifest, Manifest
  <2>3. m.state = "APPLYING" \/ "next" = "release"
    BY <1>6 DEF AccountTarget, Busy, InStep, Forward, Manifest
  <2>4. "rollback" = "rollback" => Consumed(job[p])
    BY <1>6 DEF AccountTarget, Busy, InStep, Forward, Consumed, NoManifest, Manifest, States
  <2>5. Persist(p, m, "next", "rollback")
    BY <1>6 DEF AccountTarget
  <2>6. UNCHANGED <<disk, lock, job, done, failures, owner>>
    BY <1>6 DEF AccountTarget
  <2> HIDE DEF m
  <2>7. "next" \in Critical \ {"prepare"} /\ ("next" = "release" => "next" \notin Forward)
    BY DEF Critical, Forward
  <2>8. LockHeld' /\ FreshManifest' /\ InStep' /\ RollingBack' /\ RollbackStarts'
    BY <2>1, <2>2, <2>3, <2>4, <2>5, <2>6, <2>7, PersistControl
  <2>9. WriteAhead' /\ RecoveredLeavesNothing'
    BY <2>1, <2>2, <2>5, <2>6, PersistKeepsPromises
  <2> QED BY <2>6, <2>8, <2>9, OwnerBytesKept
<1>7. ASSUME NEW p \in Proc, Commit(p) PROVE IInv'
  <2> DEFINE m == [mem[p] EXCEPT !.state = "COMMITTED"]
  <2>1. m \in Manifest /\ job[p] \in Auth /\ pc[p] \in Critical /\ done[p] = {}
    BY <1>7 DEF Commit, Busy, RollbackStarts, Critical, Manifest, States
  <2>2. journal[job[p]].attempted \subseteq m.attempted /\ m.state # "RECOVERED"
    BY <1>7, <2>1 DEF Commit, Busy, InStep, Forward, FreshManifest, Consumed, NoManifest, Manifest
  <2>3. m.state = "APPLYING" \/ "release" = "release"
    BY <1>7 DEF Commit, Busy, InStep, Forward, Manifest
  <2>4. "rollback" = "rollback" => Consumed(job[p])
    BY <1>7 DEF Commit, Busy, InStep, Forward, Consumed, NoManifest, Manifest, States
  <2>5. Persist(p, m, "release", "rollback")
    BY <1>7 DEF Commit
  <2>6. UNCHANGED <<disk, lock, job, done, failures, owner>>
    BY <1>7 DEF Commit
  <2> HIDE DEF m
  <2>7. "release" \in Critical \ {"prepare"} /\ ("release" = "release" => "release" \notin Forward)
    BY DEF Critical, Forward
  <2>8. LockHeld' /\ FreshManifest' /\ InStep' /\ RollingBack' /\ RollbackStarts'
    BY <2>1, <2>2, <2>3, <2>4, <2>5, <2>6, <2>7, PersistControl
  <2>9. WriteAhead' /\ RecoveredLeavesNothing'
    BY <2>1, <2>2, <2>5, <2>6, PersistKeepsPromises
  <2> QED BY <2>6, <2>8, <2>9, OwnerBytesKept
<1>8. ASSUME NEW p \in Proc, AttemptTarget(p) PROVE IInv'
  <2> PICK r \in Ref :
        IF Preimage(job[p], r)
        THEN Persist(p, [mem[p] EXCEPT !.attempted = @ \union {r}], "replace", "rollback")
        ELSE /\ pc' = [pc EXCEPT ![p] = "rollback"]
             /\ UNCHANGED <<journal, mem, faults>>
    BY <1>8 DEF AttemptTarget
  <2> DEFINE m == [mem[p] EXCEPT !.attempted = @ \union {r}]
  <2>1. /\ m \in Manifest /\ mem[p] \in Manifest /\ job[p] \in Auth
        /\ pc[p] \in Critical /\ done[p] = {}
    BY <1>8 DEF AttemptTarget, Busy, RollbackStarts, Critical, Manifest, States
  <2>2. /\ journal[job[p]] = mem[p] /\ Consumed(job[p])
        /\ mem[p].state = "APPLYING"
    BY <1>8, <2>1 DEF AttemptTarget, InStep, Forward, Consumed, NoManifest, Manifest, States
  <2>3. mem[p].attempted \subseteq m.attempted /\ m.state = mem[p].state
    BY <2>1 DEF Manifest
  <2>4. UNCHANGED <<disk, lock, job, done, failures, owner>>
    BY <1>8 DEF AttemptTarget
  <2>5. CASE Preimage(job[p], r)
    <3>1. Persist(p, m, "replace", "rollback")
      BY <2>5
    <3>2. "replace" \in Critical \ {"prepare"}
      BY DEF Critical
    <3> HIDE DEF m
    <3>3. LockHeld' /\ FreshManifest' /\ InStep' /\ RollingBack' /\ RollbackStarts'
      BY <2>1, <2>2, <2>3, <2>4, <3>1, <3>2, PersistControl
    <3>4. WriteAhead' /\ RecoveredLeavesNothing'
      BY <2>1, <2>2, <2>3, <2>4, <3>1, PersistKeepsPromises
    <3> QED BY <2>4, <3>3, <3>4, OwnerBytesKept
  <2>6. CASE ~Preimage(job[p], r)
    BY <2>1, <2>2, <2>4, <2>6 DEF TypeOK, LockHeld, FreshManifest, InStep, RollingBack,
       RollbackStarts, OwnerBytes, WriteAhead, RecoveredLeavesNothing, Consumed, Critical, Forward
  <2> QED BY <2>5, <2>6
<1>9. ASSUME NEW p \in Proc, ReplaceTarget(p) PROVE IInv'
  <2> PICK r \in mem[p].attempted \ mem[p].applied, o \in Outcomes :
        /\ WriteTarget(r, Plan[job[p]].after[r], o)
        /\ owner' = IF o = "lost" THEN owner ELSE [owner EXCEPT ![r] = job[p]]
        /\ pc' = [pc EXCEPT ![p] = IF o = "ok" THEN "account" ELSE "rollback"]
    BY <1>9 DEF ReplaceTarget
  <2>1. /\ mem[p] \in Manifest /\ r \in Ref /\ job[p] \in Auth
        /\ pc[p] \in Critical /\ done[p] = {}
    BY <1>9 DEF ReplaceTarget, Busy, RollbackStarts, Critical, Manifest
  <2>2. /\ journal[job[p]] = mem[p] /\ Consumed(job[p])
        /\ mem[p].state = "APPLYING"
    BY <1>9, <2>1 DEF ReplaceTarget, InStep, Forward, Consumed, NoManifest, Manifest, States
  <2>3. UNCHANGED <<journal, lock, job, mem, done, failures>>
    BY <1>9 DEF ReplaceTarget
  <2>4. \A q \in Proc : q # p => pc'[q] \notin Critical /\ pc'[q] = pc[q]
    BY <2>1, Exclusive DEF TypeOK
  <2>5. pc'[p] \in {"account", "rollback"}
    BY DEF TypeOK
  <2>6. LockHeld' /\ FreshManifest' /\ InStep' /\ RollbackStarts'
    BY <2>1, <2>2, <2>3, <2>4, <2>5 DEF LockHeld, FreshManifest, InStep, RollbackStarts,
       Critical, Forward
  <2>7. RollingBack'
    BY <2>1, <2>2, <2>3, <2>4, <2>5 DEF RollingBack, Critical, Consumed
  <2>8. OwnerBytes'
    BY <2>1 DEF TypeOK, OwnerBytes, WriteTarget
  <2>9. WriteAhead' /\ RecoveredLeavesNothing'
    BY <2>1, <2>2, <2>3 DEF TypeOK, WriteAhead, RecoveredLeavesNothing, Consumed
  <2> QED BY <2>6, <2>7, <2>8, <2>9
<1>10. ASSUME NEW p \in Proc, RollbackTarget(p) PROVE IInv'
  <2>1. pc[p] = "rollback" /\ pc[p] \in Critical /\ job[p] \in Auth
    BY <1>10 DEF RollbackTarget, Busy, Critical
  <2>2. UNCHANGED <<journal, lock, pc, job, mem>>
    BY <1>10 DEF RollbackTarget
  <2>3. \A q \in Proc : q # p => pc[q] \notin Critical
    BY <2>1, Exclusive
  <2>4. \A s \in Ref : owner'[s] = None \/ (owner'[s] = owner[s] /\ disk'[s] = disk[s])
    BY <1>10, <2>1, RollbackEffect
  <2>5. LockHeld' /\ FreshManifest' /\ InStep' /\ RollbackStarts'
    BY <1>10, <2>1, <2>2, <2>3, RollbackEffect
       DEF LockHeld, FreshManifest, InStep, RollbackStarts, Consumed, Critical, Forward
  <2>6. \A s \in done'[p] : owner'[s] = job[p] => s \in failures'[p]
    BY <1>10, <2>1, RollbackEffect DEF RollingBack
  <2>7. RollingBack'
    BY <2>1, <2>2, <2>3, <2>6 DEF RollingBack, Consumed, Critical
  <2>8. OwnerBytes'
    BY <2>4 DEF OwnerBytes
  <2>9. WriteAhead' /\ RecoveredLeavesNothing'
    BY <2>2, <2>4, ClearingKeepsPromises
  <2> QED BY <2>5, <2>7, <2>8, <2>9
<1>11. ASSUME NEW p \in Proc, FinishRollback(p) PROVE IInv'
  <2> DEFINE m == [mem[p] EXCEPT !.state = IF failures[p] = {} THEN "RECOVERED" ELSE "PARTIAL"]
  <2>1. /\ m \in Manifest /\ mem[p] \in Manifest /\ job[p] \in Auth
        /\ pc[p] \in Critical /\ pc[p] = "rollback"
    BY <1>11 DEF FinishRollback, Busy, Critical, Manifest, States
  <2>2. m.attempted = mem[p].attempted /\ (m.state = "RECOVERED" => failures[p] = {})
    BY <2>1 DEF Manifest
  <2>3. journal[job[p]].attempted \subseteq m.attempted
    BY <2>1, <2>2 DEF RollingBack
  <2>4. UNCHANGED <<disk, lock, job, done, failures, owner>>
    BY <1>11 DEF FinishRollback
  <2>5. Persist(p, m, "release", "release")
    BY <1>11 DEF FinishRollback
  <2> HIDE DEF m
  <2>6. ASSUME m.state = "RECOVERED", NEW r \in Ref PROVE owner[r] # job[p]
    <3>1. owner[r] = job[p] => r \in journal[job[p]].attempted
      BY NoneAssumption, <2>1 DEF WriteAhead
    <3>2. mem[p].attempted \subseteq done[p]
      BY <1>11 DEF FinishRollback
    <3> QED BY <2>1, <2>2, <2>3, <2>6, <3>1, <3>2 DEF RollingBack
  <2>7. "release" \in Critical \ {"prepare"} /\ "release" \notin Forward
    BY DEF Critical, Forward
  <2>8. LockHeld' /\ FreshManifest' /\ InStep' /\ RollingBack' /\ RollbackStarts'
    BY <2>1, <2>3, <2>4, <2>5, <2>7, PersistControl
  <2>9. WriteAhead' /\ RecoveredLeavesNothing'
    BY <2>1, <2>3, <2>4, <2>5, <2>6, PersistKeepsPromises
  <2> QED BY <2>4, <2>8, <2>9, OwnerBytesKept
<1>12. ASSUME NEW p \in Proc, ReleaseLock(p) \/ Crash(p) PROVE IInv'
  <2>1. Return(p) /\ UNCHANGED <<disk, journal, owner>>
    BY <1>12 DEF ReleaseLock, Crash
  <2>2. \A q \in Proc : pc'[q] = IF q = p THEN "idle" ELSE pc[q]
    BY <2>1 DEF Return, TypeOK
  <2>3. \A q \in Proc \ {p} :
          job'[q] = job[q] /\ mem'[q] = mem[q] /\ done'[q] = done[q] /\ failures'[q] = failures[q]
    BY <2>1 DEF Return, TypeOK
  <2>4. LockHeld'
    BY <2>1, <2>2 DEF LockHeld, Return, Critical, TypeOK
  <2>5. done'[p] = {}
    BY <2>1 DEF Return, TypeOK
  <2>6. FreshManifest' /\ InStep' /\ RollbackStarts'
    BY <2>1, <2>2, <2>3, <2>5 DEF FreshManifest, InStep, RollbackStarts, Consumed, Forward
  <2>7. RollingBack'
    BY <2>1, <2>2, <2>3 DEF RollingBack, Consumed
  <2>8. WriteAhead' /\ RecoveredLeavesNothing' /\ OwnerBytes'
    BY <2>1 DEF WriteAhead, RecoveredLeavesNothing, OwnerBytes, Consumed
  <2> QED BY <2>4, <2>6, <2>7, <2>8
<1>13. ASSUME NEW p \in Proc, NEW a \in Auth, Admit(p, a) PROVE IInv'
  BY <1>13 DEF TypeOK, Admit, LockHeld, FreshManifest, InStep, RollingBack, RollbackStarts,
               OwnerBytes, WriteAhead, RecoveredLeavesNothing, Consumed, Critical, Forward
<1>14. ASSUME NEW p \in Proc, NEW a \in Auth, Recover(p, a) PROVE IInv'
  <2>1. pc'[p] \in {"release", "rollback"} /\ job'[p] = a /\ mem'[p] = journal[a] /\ done[p] = {}
    BY <1>14 DEF Recover, TypeOK, RollbackStarts
  <2>2. \A q \in Proc : q # p => pc'[q] = pc[q] /\ pc[q] \notin Critical
    BY NoneAssumption, <1>14 DEF Recover, TypeOK, LockHeld
  <2>3. UNCHANGED <<disk, journal, done, failures, owner>> /\ lock' = p /\ Consumed(a)
    BY <1>14 DEF Recover
  <2>4. LockHeld' /\ FreshManifest' /\ InStep' /\ RollbackStarts'
    BY <2>1, <2>2, <2>3 DEF LockHeld, FreshManifest, InStep, RollbackStarts, Critical, Forward
  <2>5. RollingBack'
    BY <2>1, <2>2, <2>3 DEF RollingBack, Critical, Consumed
  <2>6. WriteAhead' /\ RecoveredLeavesNothing' /\ OwnerBytes'
    BY <2>3 DEF WriteAhead, RecoveredLeavesNothing, OwnerBytes, Consumed
  <2> QED BY <2>4, <2>5, <2>6
<1>15. ASSUME NEW r \in Ref, NEW c \in Image, Edit(r, c) PROVE IInv'
  <2>1. UNCHANGED <<journal, lock, pc, job, mem, done, failures>>
    BY <1>15 DEF Edit
  <2>2. \A s \in Ref : owner'[s] = None \/ (owner'[s] = owner[s] /\ disk'[s] = disk[s])
    BY <1>15 DEF Edit, TypeOK
  <2>3. LockHeld' /\ FreshManifest' /\ InStep' /\ RollbackStarts'
    BY <2>1 DEF LockHeld, FreshManifest, InStep, RollbackStarts, Consumed
  <2>4. RollingBack'
    <3> SUFFICES ASSUME NEW q \in Proc, pc[q] = "rollback", NEW s \in done[q], owner'[s] = job[q]
                 PROVE  s \in failures[q]
      BY <2>1 DEF RollingBack, Consumed
    <3>1. s \in Ref /\ job[q] # None
      BY NoneAssumption DEF TypeOK, Busy
    <3> QED BY <2>2, <3>1 DEF RollingBack
  <2>5. WriteAhead' /\ RecoveredLeavesNothing'
    BY <2>1, <2>2, ClearingKeepsPromises
  <2>6. OwnerBytes'
    BY <2>2 DEF OwnerBytes
  <2> QED BY <2>3, <2>4, <2>5, <2>6
<1> QED
  BY <1>1, <1>2, <1>3, <1>4, <1>5, <1>6, <1>7, <1>8, <1>9, <1>10, <1>11, <1>12, <1>13,
     <1>14, <1>15 DEF Next, Step

\* The invariant holds initially.
LEMMA InvariantInit == Init => TypeOK /\ Busy /\ IInv
<1>1. Init => TypeOK /\ Busy
  BY DiskAssumption, BoundAssumption, NoneAssumption DEF Init, TypeOK, Busy, Critical
<1>2. Init => IInv
  BY NoneAssumption
     DEF Init, Critical, IInv, LockHeld, FreshManifest, InStep, Forward, RollingBack,
         RollbackStarts, OwnerBytes, WriteAhead, RecoveredLeavesNothing, NoManifest
<1> QED BY <1>1, <1>2

\* The invariant holds always.
LEMMA Invariance == Spec => [](TypeOK /\ Busy /\ IInv)
<1>1. TypeOK /\ Busy /\ IInv /\ [Next]_vars => (TypeOK /\ Busy /\ IInv)'
  BY TypeStep, InvariantStep
<1> QED BY <1>1, InvariantInit, PTL DEF Spec

(* Every file that carries a transaction's bytes is named in that           *)
(* transaction's durable manifest, at every instant at which apply or       *)
(* recover may be killed.                                                   *)
THEOREM WriteAheadHolds == Spec => []WriteAhead
  BY Invariance, PTL DEF IInv

(* RECOVERED is the truth: nothing the transaction wrote is left.           *)
THEOREM RecoveredHolds == Spec => []RecoveredLeavesNothing
  BY Invariance, PTL DEF IInv

(* Inspection is sound: when inspect_exact_file_transactions passes and     *)
(* nobody is writing, no file carries bytes of a transaction that did not   *)
(* commit.                                                                  *)
THEOREM InspectionHolds == Spec => []InspectionIsSound
<1>1. TypeOK /\ IInv => InspectionIsSound
  <2> SUFFICES ASSUME TypeOK, IInv, InspectPass, NEW r \in Ref, owner[r] # None
               PROVE  journal[owner[r]].state = "COMMITTED"
    BY DEF InspectionIsSound
  <2>1. owner[r] \in Auth /\ Consumed(owner[r]) /\ journal[owner[r]].state # "RECOVERED"
    BY DEF TypeOK, IInv, WriteAhead, RecoveredLeavesNothing
  <2>2. Resolved(owner[r])
    BY <2>1 DEF InspectPass
  <2>3. journal[owner[r]].state # "NONE"
    BY <2>1 DEF TypeOK, Consumed, Manifest, States
  <2> QED BY <2>1, <2>2, <2>3 DEF Resolved
<1> QED BY <1>1, Invariance, PTL

-----------------------------------------------------------------------------
(* What one step may do to the journal: leave it, or write one manifest, by *)
(* a process that the invariant constrains.                                 *)
LEMMA JournalStep ==
  ASSUME TypeOK, Busy, IInv, [Next]_vars, NEW a \in Auth, journal'[a] # journal[a]
  PROVE  \E p \in Proc :
           /\ job[p] = a
           /\ \/ pc[p] = "prepare" /\ ~Consumed(a)
              \/ pc[p] \in Forward \union {"rollback"}
           /\ pc[p] # "prepare" => journal'[a].state \notin {"NONE", "PREPARED"}
<1> USE DEF IInv
<1>1. ~UNCHANGED vars
  BY DEF vars
<1>2. ASSUME NEW p \in Proc, NEW m, NEW good, NEW bad, Persist(p, m, good, bad),
             job[p] \in Auth
      PROVE  job[p] = a /\ journal'[a] = m
  BY <1>2 DEF Persist, TypeOK
<1>3. ASSUME NEW p \in Proc, WritePrepared(p) PROVE job[p] = a /\ pc[p] = "prepare" /\ ~Consumed(a)
  <2>1. job[p] \in Auth /\ pc[p] = "prepare" /\ ~Consumed(job[p])
    BY <1>3 DEF WritePrepared, Busy, FreshManifest
  <2>2. job[p] = a
    BY <1>2, <1>3, <2>1 DEF WritePrepared
  <2> QED BY <2>1, <2>2
<1>4. ASSUME NEW p \in Proc, WriteApplying(p) \/ AccountTarget(p) \/ Commit(p)
      PROVE  job[p] = a /\ pc[p] \in Forward /\ journal'[a].state \in {"APPLYING", "COMMITTED"}
  <2>1. job[p] \in Auth /\ pc[p] \in Forward /\ mem[p] \in Manifest
    BY <1>4 DEF WriteApplying, AccountTarget, Commit, Busy, Forward
  <2>2. CASE WriteApplying(p)
    BY <1>2, <2>1, <2>2 DEF WriteApplying, Manifest
  <2>3. CASE AccountTarget(p)
    BY <1>2, <2>1, <2>3 DEF AccountTarget, Manifest, InStep
  <2>4. CASE Commit(p)
    BY <1>2, <2>1, <2>4 DEF Commit, Manifest
  <2> QED BY <1>4, <2>2, <2>3, <2>4
<1>5. ASSUME NEW p \in Proc, AttemptTarget(p)
      PROVE  job[p] = a /\ pc[p] \in Forward /\ journal'[a].state = "APPLYING"
  <2>1. /\ job[p] \in Auth /\ pc[p] \in Forward /\ mem[p] \in Manifest
        /\ mem[p].state = "APPLYING"
    BY <1>5 DEF AttemptTarget, Busy, Forward, InStep
  <2>2. PICK r \in Ref : Persist(p, [mem[p] EXCEPT !.attempted = @ \union {r}], "replace", "rollback")
    BY <1>5 DEF AttemptTarget
  <2> QED BY <1>2, <2>1, <2>2 DEF Manifest
<1>6. ASSUME NEW p \in Proc, FinishRollback(p)
      PROVE  job[p] = a /\ pc[p] = "rollback" /\ journal'[a].state \in {"RECOVERED", "PARTIAL"}
  <2>1. job[p] \in Auth /\ pc[p] = "rollback" /\ mem[p] \in Manifest
    BY <1>6 DEF FinishRollback, Busy
  <2> QED BY <1>2, <1>6, <2>1 DEF FinishRollback, Manifest
<1>7. ASSUME NEW p \in Proc,
             \/ AcquireLock(p) \/ FreshAdmission(p) \/ ReplaceTarget(p) \/ RollbackTarget(p)
             \/ ReleaseLock(p) \/ Crash(p)
      PROVE  FALSE
  BY <1>7 DEF AcquireLock, FreshAdmission, ReplaceTarget, RollbackTarget, ReleaseLock, Crash
<1>8. ASSUME NEW p \in Proc, NEW b \in Auth, Admit(p, b) \/ Recover(p, b) PROVE FALSE
  BY <1>8 DEF Admit, Recover
<1>9. ASSUME NEW r \in Ref, NEW c \in Image, Edit(r, c) PROVE FALSE
  BY <1>9 DEF Edit
<1>10. \E p \in Proc :
         \/ WritePrepared(p)
         \/ WriteApplying(p) \/ AccountTarget(p) \/ Commit(p)
         \/ AttemptTarget(p) \/ FinishRollback(p)
  <2>1. Next
    BY <1>1
  <2>2. PICK p \in Proc : Step(p) \/ Crash(p)
    BY <1>8, <1>9, <2>1 DEF Next
  <2> QED BY <1>7, <2>2 DEF Step
<1> QED BY <1>3, <1>4, <1>5, <1>6, <1>10 DEF Forward

(* A manifest, once there, is never removed and never started over, so an   *)
(* authorization is consumed at most once although its absence was checked  *)
(* before the lock was taken.                                               *)
THEOREM ConsumedOnceHolds == Spec => ConsumedOnce
<1>1. TypeOK /\ Busy /\ IInv /\ [Next]_vars =>
        [\A a \in Auth : Consumed(a) =>
           journal'[a] = journal[a] \/ journal'[a].state \notin {"NONE", "PREPARED"}]_vars
  <2> SUFFICES ASSUME TypeOK, Busy, IInv, [Next]_vars, NEW a \in Auth, Consumed(a),
                      journal'[a] # journal[a]
               PROVE  journal'[a].state \notin {"NONE", "PREPARED"}
    OBVIOUS
  <2> QED BY JournalStep DEF Forward
<1> QED BY <1>1, Invariance, PTL DEF Spec, ConsumedOnce

(* When no two plans give a file the same new bytes, the bytes of a file    *)
(* identify the transaction that wrote them, and a rollback, also a late or *)
(* a repeated one, never takes back another transaction's write.            *)
DistinctGenerations ==
  \A a, b \in Auth : \A r \in Ref : a # b => Plan[a].after[r] # Plan[b].after[r]

(* If no two plans write the same bytes to a file, a rollback never takes   *)
(* back a file that another transaction produced.                           *)
THEOREM NoForeignUndoHolds == DistinctGenerations => (Spec => NoForeignUndo)
<1> SUFFICES ASSUME DistinctGenerations PROVE Spec => NoForeignUndo
    OBVIOUS
<1>1. ASSUME TypeOK, Busy, IInv, [Next]_vars, NEW r \in Ref, NEW p \in Proc,
             pc[p] = "rollback", done'[p] # done[p], disk'[r] # disk[r]
      PROVE  owner[r] \in {job[p], None}
  <2>1. job[p] \in Auth /\ pc[p] \in Critical
    BY <1>1 DEF Busy, Critical
  <2>2. ASSUME NEW q \in Proc, ReplaceTarget(q) PROVE FALSE
    BY <1>1, <2>2 DEF ReplaceTarget
  <2>3. ASSUME NEW s \in Ref, NEW c \in Image, Edit(s, c) PROVE FALSE
    BY <1>1, <2>3 DEF Edit
  <2>4. \E q \in Proc : RollbackTarget(q)
    BY <1>1, <2>2, <2>3 DEF Next, Step, vars, AcquireLock, FreshAdmission, WritePrepared,
       WriteApplying, AttemptTarget, AccountTarget, Commit, FinishRollback, ReleaseLock, Crash,
       Admit, Recover
  <2>5. RollbackTarget(p)
    BY <1>1, <2>1, <2>4, Exclusive, ZenonT(60) DEF RollbackTarget, IInv
  <2>6. disk[r] = Plan[job[p]].after[r]
    BY <1>1, <2>5 DEF RollbackTarget, WriteTarget, TypeOK
  <2>7. owner[r] # None => owner[r] \in Auth /\ disk[r] = Plan[owner[r]].after[r]
    BY <1>1 DEF IInv, OwnerBytes, TypeOK
  <2> QED BY <2>1, <2>6, <2>7 DEF DistinctGenerations
<1>2. TypeOK /\ Busy /\ IInv /\ [Next]_vars =>
        [\A r \in Ref : \A p \in Proc :
           (pc[p] = "rollback" /\ done'[p] # done[p] /\ disk'[r] # disk[r])
             => owner[r] \in {job[p], None}]_vars
  BY <1>1
<1> QED BY <1>2, Invariance, PTL DEF Spec, NoForeignUndo

-----------------------------------------------------------------------------
(***************************************************************************)
(* The exact-file transaction implements AtomicCommit, for any number of   *)
(* processes, authorizations, targets and contents, when no write raises   *)
(* after it took effect and no two plans give a file the same new bytes.   *)
(* Under the same conditions what was committed survives until it is        *)
(* replaced by later commits.                                               *)
(***************************************************************************)

\* A write that raises has not taken effect.
LostOnly == "landed" \notin FaultKinds

\* A rollback is never that of a committed transaction.
RollbackOpen == \A p \in Proc : pc[p] = "rollback" => journal[job[p]].state # "COMMITTED"

\* A transaction announces targets of its plan only.
Planned ==
  /\ \A a \in Auth : journal[a].attempted \subseteq Targets(a)
  /\ \A p \in Proc : pc[p] \in Forward \union {"rollback"}
     => mem[p].attempted \subseteq Targets(job[p])

(* Of the announced targets at most the last one is not yet applied, and no *)
(* other transaction has taken over an applied one.                         *)
Applied(p) ==
  /\ pc[p] \in {"begin", "next"} => mem[p].attempted = mem[p].applied
  /\ \A r, s \in mem[p].attempted \ mem[p].applied : r = s
  /\ \A r \in mem[p].applied : owner[r] \in {job[p], None}
  /\ pc[p] = "account" => \A r \in mem[p].attempted : owner[r] \in {job[p], None}

Ours == \A p \in Proc : pc[p] \in Forward => Applied(p)

RInv == RollbackOpen /\ Planned /\ Ours

-----------------------------------------------------------------------------
\* A manifest write either takes effect and succeeds, or does neither.
LEMMA PersistLost ==
  ASSUME LostOnly, TypeOK, NEW p \in Proc, job[p] \in Auth, NEW m, NEW good, NEW bad,
         Persist(p, m, good, bad)
  PROVE  /\ pc' \in [Proc -> {good, bad} \union (Critical \union {"idle", "admitted"})]
         /\ \A q \in Proc \ {p} : pc'[q] = pc[q] /\ mem'[q] = mem[q]
         /\ mem'[p] = m
         /\ \/ journal' = [journal EXCEPT ![job[p]] = m] /\ pc'[p] = good
            \/ journal' = journal /\ pc'[p] = bad
<1>1. PICK o \in Outcomes :
        /\ journal' = IF o = "lost" THEN journal ELSE [journal EXCEPT ![job[p]] = m]
        /\ pc' = [pc EXCEPT ![p] = IF o = "ok" THEN good ELSE bad]
        /\ mem' = [mem EXCEPT ![p] = m]
  BY DEF Persist
<1>2. o \in {"ok", "lost"}
  BY FaultAssumption DEF Outcomes, LostOnly
<1> QED BY <1>1, <1>2 DEF TypeOK

(* What a manifest write of a running transaction does to the invariant.    *)
LEMMA PersistRefines ==
  ASSUME LostOnly, TypeOK, Busy, IInv, RInv, NEW p \in Proc, pc[p] \in Critical,
         NEW m \in Manifest, NEW good \in Critical \ {"rollback"}, NEW bad \in Critical,
         Persist(p, m, good, bad), UNCHANGED <<job, owner>>,
         m.attempted \subseteq Targets(job[p]),
         bad \notin Forward,
         bad = "rollback" => journal[job[p]].state # "COMMITTED",
         good \in Forward =>
           /\ good \in {"begin", "next"} => m.attempted = m.applied
           /\ \A r, s \in m.attempted \ m.applied : r = s
           /\ \A r \in m.applied : owner[r] \in {job[p], None}
           /\ good = "account" => \A r \in m.attempted : owner[r] \in {job[p], None}
  PROVE  RInv'
<1>1. job[p] \in Auth
  BY DEF Busy, Critical
<1>2. /\ \A q \in Proc \ {p} : pc'[q] = pc[q] /\ mem'[q] = mem[q]
      /\ mem'[p] = m
      /\ \/ journal' = [journal EXCEPT ![job[p]] = m] /\ pc'[p] = good
         \/ journal' = journal /\ pc'[p] = bad
  BY <1>1, PersistLost
<1>3. \A q \in Proc \ {p} : pc'[q] \notin Critical
  BY <1>2, Exclusive DEF IInv
<1>4. RollbackOpen'
  BY <1>1, <1>2, <1>3 DEF RInv, RollbackOpen, Critical, TypeOK
<1>5. Planned'
  BY <1>1, <1>2, <1>3 DEF RInv, Planned, Forward, Critical, TypeOK
<1>6. Ours'
  BY <1>2, <1>3 DEF RInv, Ours, Applied, Forward, Critical
<1> QED BY <1>4, <1>5, <1>6 DEF RInv

(* Every step keeps the facts the refinement rests on.                      *)
LEMMA RefinementInvariantStep ==
  ASSUME LostOnly, TypeOK, Busy, IInv, RInv, [Next]_vars
  PROVE  RInv'
<1>1. CASE UNCHANGED vars
  BY <1>1 DEF vars, RInv, RollbackOpen, Planned, Ours, Applied
<1>2. ASSUME NEW p \in Proc, AcquireLock(p) PROVE RInv'
  BY <1>2 DEF AcquireLock, TypeOK, RInv, RollbackOpen, Planned, Ours, Applied, Forward
<1>3. ASSUME NEW p \in Proc, FreshAdmission(p) PROVE RInv'
  BY <1>3 DEF FreshAdmission, TypeOK, RInv, RollbackOpen, Planned, Ours, Applied, Forward
<1>4. ASSUME NEW p \in Proc, WritePrepared(p) PROVE RInv'
  <2> DEFINE m == [state |-> "PREPARED", attempted |-> {}, applied |-> {}]
  <2>1. m \in Manifest /\ m.attempted = {} /\ m.applied = {}
    BY DEF Manifest, States
  <2>2. pc[p] \in Critical /\ Persist(p, m, "begin", "release") /\ UNCHANGED <<job, owner>>
    BY <1>4 DEF WritePrepared, Critical
  <2>3. "begin" \in Critical \ {"rollback"} /\ "release" \in Critical /\ "release" \notin Forward
    BY DEF Critical, Forward
  <2> HIDE DEF m
  <2> QED BY <2>1, <2>2, <2>3, PersistRefines
<1>5. ASSUME NEW p \in Proc, WriteApplying(p) PROVE RInv'
  <2> DEFINE m == [mem[p] EXCEPT !.state = "APPLYING"]
  <2>1. pc[p] = "begin" /\ Persist(p, m, "next", "rollback") /\ UNCHANGED <<job, owner>>
    BY <1>5 DEF WriteApplying
  <2>2. mem[p] \in Manifest /\ journal[job[p]] = mem[p] /\ mem[p].state = "PREPARED"
    BY <2>1 DEF Busy, IInv, InStep, Forward
  <2>3. m \in Manifest /\ m.attempted = mem[p].attempted /\ m.applied = mem[p].applied
    BY <2>2 DEF Manifest, States
  <2>4. Applied(p) /\ mem[p].attempted \subseteq Targets(job[p])
    BY <2>1 DEF RInv, Ours, Planned, Forward
  <2>5. /\ pc[p] \in Critical /\ "next" \in Critical \ {"rollback"} /\ "rollback" \in Critical
        /\ "rollback" \notin Forward
    BY <2>1 DEF Critical, Forward
  <2> HIDE DEF m
  <2> QED BY <2>1, <2>2, <2>3, <2>4, <2>5, PersistRefines DEF Applied
<1>6. ASSUME NEW p \in Proc, AttemptTarget(p) PROVE RInv'
  <2>1. pc[p] = "next" /\ UNCHANGED <<job, owner, lock>> /\ pc[p] \in Critical /\ pc[p] \in Forward
    BY <1>6 DEF AttemptTarget, Critical, Forward
  <2>2. mem[p] \in Manifest /\ journal[job[p]] = mem[p] /\ mem[p].state = "APPLYING"
        /\ job[p] \in Auth
    BY <2>1 DEF Busy, IInv, InStep, Forward
  <2>3. Applied(p) /\ mem[p].attempted \subseteq Targets(job[p])
    BY <2>1 DEF RInv, Ours, Planned, Forward
  <2>4. PICK r \in Ref :
          /\ IsNext(p, r)
          /\ IF Preimage(job[p], r)
             THEN Persist(p, [mem[p] EXCEPT !.attempted = @ \union {r}], "replace", "rollback")
             ELSE /\ pc' = [pc EXCEPT ![p] = "rollback"]
                  /\ UNCHANGED <<journal, mem, faults>>
    BY <1>6 DEF AttemptTarget
  <2> DEFINE m == [mem[p] EXCEPT !.attempted = @ \union {r}]
  <2>5. CASE Preimage(job[p], r)
    <3>1. m \in Manifest /\ m.attempted = mem[p].attempted \union {r} /\ m.applied = mem[p].applied
      BY <2>2 DEF Manifest, States
    <3>2. Persist(p, m, "replace", "rollback") /\ r \in Targets(job[p])
      BY <2>4, <2>5 DEF IsNext
    <3>3. /\ "replace" \in Critical \ {"rollback"} /\ "rollback" \in Critical
          /\ "rollback" \notin Forward
      BY DEF Critical, Forward
    <3> HIDE DEF m
    <3> QED BY <2>1, <2>2, <2>3, <3>1, <3>2, <3>3, PersistRefines DEF Applied
  <2>6. CASE ~Preimage(job[p], r)
    <3>1. pc' = [pc EXCEPT ![p] = "rollback"] /\ journal' = journal /\ mem' = mem
      BY <2>4, <2>6
    <3> QED BY <2>1, <2>2, <3>1 DEF TypeOK, RInv, RollbackOpen, Planned, Ours, Applied, Forward
  <2> QED BY <2>5, <2>6
<1>7. ASSUME NEW p \in Proc, ReplaceTarget(p) PROVE RInv'
  <2>1. pc[p] = "replace" /\ UNCHANGED <<journal, job, mem>> /\ pc[p] \in Critical
        /\ pc[p] \in Forward
    BY <1>7 DEF ReplaceTarget, Critical, Forward
  <2>2. PICK r \in mem[p].attempted \ mem[p].applied, o \in Outcomes :
          /\ owner' = IF o = "lost" THEN owner ELSE [owner EXCEPT ![r] = job[p]]
          /\ pc' = [pc EXCEPT ![p] = IF o = "ok" THEN "account" ELSE "rollback"]
    BY <1>7 DEF ReplaceTarget
  <2>3. \A q \in Proc \ {p} : pc'[q] = pc[q] /\ pc[q] \notin Critical
    BY <2>1, <2>2, Exclusive DEF IInv, TypeOK
  <2>4. /\ mem[p] \in Manifest /\ journal[job[p]].state = "APPLYING" /\ Applied(p)
        /\ mem[p].attempted \subseteq Targets(job[p])
    BY <2>1 DEF Busy, IInv, InStep, RInv, Ours, Planned, Forward
  <2>5. RollbackOpen'
    BY <2>1, <2>3, <2>4 DEF RollbackOpen, Critical
  <2>6. Planned'
    BY <2>1, <2>3, <2>4 DEF RInv, Planned, Forward, Critical
  <2>7. pc'[p] \in {"account", "rollback"} /\ r \in Ref
    BY <2>2, <2>4 DEF TypeOK, Manifest
  <2>8. pc'[p] = "account" => Applied(p)'
    BY <2>1, <2>2, <2>4, <2>7 DEF Applied, TypeOK
  <2>9. Ours'
    BY <2>3, <2>7, <2>8 DEF Ours, Forward, Critical
  <2> QED BY <2>5, <2>6, <2>9 DEF RInv
<1>8. ASSUME NEW p \in Proc, AccountTarget(p) PROVE RInv'
  <2> DEFINE m == [mem[p] EXCEPT !.applied = mem[p].attempted]
  <2>1. pc[p] = "account" /\ Persist(p, m, "next", "rollback") /\ UNCHANGED <<job, owner>>
    BY <1>8 DEF AccountTarget
  <2>2. mem[p] \in Manifest /\ journal[job[p]] = mem[p] /\ mem[p].state = "APPLYING"
    BY <2>1 DEF Busy, IInv, InStep, Forward
  <2>3. m \in Manifest /\ m.attempted = mem[p].attempted /\ m.applied = mem[p].attempted
    BY <2>2 DEF Manifest, States
  <2>4. Applied(p) /\ mem[p].attempted \subseteq Targets(job[p])
    BY <2>1 DEF RInv, Ours, Planned, Forward
  <2>5. /\ pc[p] \in Critical /\ "next" \in Critical \ {"rollback"} /\ "rollback" \in Critical
        /\ "rollback" \notin Forward
    BY <2>1 DEF Critical, Forward
  <2> HIDE DEF m
  <2> QED BY <2>1, <2>2, <2>3, <2>4, <2>5, PersistRefines DEF Applied
<1>9. ASSUME NEW p \in Proc, Commit(p) PROVE RInv'
  <2> DEFINE m == [mem[p] EXCEPT !.state = "COMMITTED"]
  <2>1. pc[p] = "next" /\ Persist(p, m, "release", "rollback") /\ UNCHANGED <<job, owner>>
    BY <1>9 DEF Commit
  <2>2. mem[p] \in Manifest /\ journal[job[p]] = mem[p] /\ mem[p].state = "APPLYING"
    BY <2>1 DEF Busy, IInv, InStep, Forward
  <2>3. m \in Manifest /\ m.attempted = mem[p].attempted
    BY <2>2 DEF Manifest, States
  <2>4. mem[p].attempted \subseteq Targets(job[p])
    BY <2>1 DEF RInv, Planned, Forward
  <2>5. /\ pc[p] \in Critical /\ "release" \in Critical \ {"rollback"} /\ "rollback" \in Critical
        /\ "rollback" \notin Forward /\ "release" \notin Forward
    BY <2>1 DEF Critical, Forward
  <2> HIDE DEF m
  <2> QED BY <2>1, <2>2, <2>3, <2>4, <2>5, PersistRefines
<1>10. ASSUME NEW p \in Proc, RollbackTarget(p) PROVE RInv'
  <2>1. pc[p] \in Critical /\ pc[p] \notin Forward /\ UNCHANGED <<journal, pc, job, mem>>
    BY <1>10 DEF RollbackTarget, Critical, Forward
  <2>2. \A q \in Proc : pc[q] \notin Forward
    BY <2>1, Exclusive DEF IInv, Forward, Critical
  <2> QED BY <2>1, <2>2 DEF RInv, RollbackOpen, Planned, Ours
<1>11. ASSUME NEW p \in Proc, FinishRollback(p) PROVE RInv'
  <2> DEFINE m == [mem[p] EXCEPT !.state = IF failures[p] = {} THEN "RECOVERED" ELSE "PARTIAL"]
  <2>1. pc[p] = "rollback" /\ Persist(p, m, "release", "release") /\ UNCHANGED <<job, owner>>
    BY <1>11 DEF FinishRollback
  <2>2. mem[p] \in Manifest /\ mem[p].attempted \subseteq Targets(job[p])
    BY <2>1 DEF Busy, RInv, Planned
  <2>3. m \in Manifest /\ m.attempted = mem[p].attempted
    BY <2>2 DEF Manifest, States
  <2>4. pc[p] \in Critical /\ "release" \in Critical \ {"rollback"} /\ "release" \notin Forward
    BY <2>1 DEF Critical, Forward
  <2> HIDE DEF m
  <2> QED BY <2>1, <2>2, <2>3, <2>4, PersistRefines
<1>12. ASSUME NEW p \in Proc, ReleaseLock(p) \/ Crash(p) PROVE RInv'
  <2>1. /\ UNCHANGED <<journal, owner>> /\ pc'[p] = "idle"
        /\ \A q \in Proc \ {p} : pc'[q] = pc[q] /\ job'[q] = job[q] /\ mem'[q] = mem[q]
    BY <1>12 DEF ReleaseLock, Crash, Return, TypeOK
  <2> QED BY <2>1 DEF RInv, RollbackOpen, Planned, Ours, Applied, Forward
<1>13. ASSUME NEW p \in Proc, NEW a \in Auth, Admit(p, a) PROVE RInv'
  BY <1>13 DEF Admit, TypeOK, RInv, RollbackOpen, Planned, Ours, Applied, Forward
<1>14. ASSUME NEW p \in Proc, NEW a \in Auth, Recover(p, a) PROVE RInv'
  <2>1. /\ UNCHANGED <<journal, owner>> /\ job'[p] = a /\ mem'[p] = journal[a]
        /\ pc'[p] = IF journal[a].state = "COMMITTED" THEN "release" ELSE "rollback"
        /\ \A q \in Proc \ {p} : pc'[q] = pc[q] /\ job'[q] = job[q] /\ mem'[q] = mem[q]
    BY <1>14 DEF Recover, TypeOK
  <2> QED BY <2>1 DEF RInv, RollbackOpen, Planned, Ours, Applied, Forward
<1>15. ASSUME NEW r \in Ref, NEW c \in Image, Edit(r, c) PROVE RInv'
  <2>1. UNCHANGED <<journal, pc, job, mem>> /\ \A s \in Ref : owner'[s] \in {owner[s], None}
    BY <1>15 DEF Edit, TypeOK
  <2>2. \A p \in Proc : mem[p].applied \subseteq Ref /\ mem[p].attempted \subseteq Ref
    BY DEF TypeOK, Manifest, NoManifest
  <2>3. \A p \in Proc : Applied(p) => Applied(p)'
    BY <2>1, <2>2 DEF Applied
  <2> QED BY <2>1, <2>3 DEF RInv, RollbackOpen, Planned, Ours
<1> QED
  BY <1>1, <1>2, <1>3, <1>4, <1>5, <1>6, <1>7, <1>8, <1>9, <1>10, <1>11, <1>12, <1>13, <1>14,
     <1>15 DEF Next, Step

-----------------------------------------------------------------------------
(* A step that leaves every manifest and every owner alone is a stutter.    *)
LEMMA Stutter ==
  ASSUME UNCHANGED <<journal, owner, edits>>
  PROVE  UNCHANGED Abstract!avars
  BY DEF Abstract!avars, TxStatus

(* A manifest write that changes one status is the abstract change of that  *)
(* status; one that keeps it is a stutter.                                  *)
LEMMA StatusStep ==
  ASSUME TypeOK, NEW a \in Auth, NEW m, journal' = [journal EXCEPT ![a] = m],
         UNCHANGED <<owner, edits>>
  PROVE  /\ Status(m) = Status(journal[a]) => UNCHANGED Abstract!avars
         /\ Abstract!SetStatus(a, Status(journal[a]), Status(m))
<1>1. TxStatus' = [TxStatus EXCEPT ![a] = Status(m)] /\ TxStatus[a] = Status(journal[a])
  BY DEF TypeOK, TxStatus
<1>2. Status(m) = Status(journal[a]) => TxStatus' = TxStatus
  BY <1>1 DEF TxStatus
<1>3. Status(m) = Status(journal[a]) => UNCHANGED Abstract!avars
  BY <1>2 DEF Abstract!avars
<1>4. Abstract!SetStatus(a, Status(journal[a]), Status(m))
  BY <1>1 DEF Abstract!SetStatus
<1> QED BY <1>3, <1>4

(* Every step of the transaction is an abstract step or a stutter.          *)
LEMMA RefinementStep ==
  ASSUME LostOnly, DistinctGenerations, TypeOK, Busy, IInv, RInv, [Next]_vars
  PROVE  [Abstract!Next]_Abstract!avars
<1>1. CASE UNCHANGED vars
  BY <1>1, Stutter DEF vars
<1>2. ASSUME NEW p \in Proc,
             \/ AcquireLock(p) \/ FreshAdmission(p) \/ ReleaseLock(p) \/ Crash(p)
      PROVE  UNCHANGED Abstract!avars
  <2>1. UNCHANGED <<journal, owner, edits>>
    BY <1>2 DEF AcquireLock, FreshAdmission, ReleaseLock, Crash
  <2> QED BY <2>1, Stutter
<1>3. ASSUME NEW p \in Proc, NEW a \in Auth, Admit(p, a) \/ Recover(p, a)
      PROVE  UNCHANGED Abstract!avars
  <2>1. UNCHANGED <<journal, owner, edits>>
    BY <1>3 DEF Admit, Recover
  <2> QED BY <2>1, Stutter
<1>4. ASSUME NEW p \in Proc, NEW m, NEW good, NEW bad, Persist(p, m, good, bad),
             UNCHANGED <<owner, edits>>, job[p] \in Auth
      PROVE  \/ UNCHANGED Abstract!avars
             \/ /\ journal' = [journal EXCEPT ![job[p]] = m]
                /\ Abstract!SetStatus(job[p], Status(journal[job[p]]), Status(m))
                /\ Status(m) # Status(journal[job[p]])
  <2>1. journal' = [journal EXCEPT ![job[p]] = m] \/ journal' = journal
    BY <1>4, PersistLost
  <2>2. CASE journal' = journal
    BY <1>4, <2>2, Stutter
  <2>3. CASE journal' = [journal EXCEPT ![job[p]] = m]
    BY <1>4, <2>3, StatusStep
  <2> QED BY <2>1, <2>2, <2>3
<1>5. ASSUME NEW p \in Proc, WritePrepared(p) PROVE [Abstract!Next]_Abstract!avars
  <2> DEFINE m == [state |-> "PREPARED", attempted |-> {}, applied |-> {}]
  <2>1. job[p] \in Auth /\ Persist(p, m, "begin", "release") /\ UNCHANGED <<owner, edits>>
    BY <1>5 DEF WritePrepared, Busy
  <2>2. Status(m) = "open" /\ Status(journal[job[p]]) = "new"
    BY <1>5 DEF WritePrepared, IInv, FreshManifest, Consumed, NoManifest, Status
  <2> HIDE DEF m
  <2>3. UNCHANGED Abstract!avars \/ Abstract!Open(job[p])
    BY <1>4, <2>1, <2>2 DEF Abstract!Open
  <2> QED BY <2>1, <2>3 DEF Abstract!Next
<1>6. ASSUME NEW p \in Proc, WriteApplying(p) \/ AccountTarget(p) PROVE UNCHANGED Abstract!avars
  <2>1. pc[p] \in Forward /\ UNCHANGED <<owner, edits>>
    BY <1>6 DEF WriteApplying, AccountTarget, Forward
  <2>2. /\ mem[p] \in Manifest /\ job[p] \in Auth /\ Status(journal[job[p]]) = "open"
        /\ mem[p].state \in {"PREPARED", "APPLYING"}
    BY <2>1 DEF Busy, IInv, InStep, Forward, Status
  <2>3. CASE WriteApplying(p)
    <3> DEFINE m == [mem[p] EXCEPT !.state = "APPLYING"]
    <3>1. Persist(p, m, "next", "rollback")
      BY <2>3 DEF WriteApplying
    <3>2. Status(m) = "open"
      BY <2>2 DEF Status, Manifest
    <3> HIDE DEF m
    <3> QED BY <1>4, <2>1, <2>2, <3>1, <3>2
  <2>4. CASE AccountTarget(p)
    <3> DEFINE m == [mem[p] EXCEPT !.applied = mem[p].attempted]
    <3>1. Persist(p, m, "next", "rollback")
      BY <2>4 DEF AccountTarget
    <3>2. Status(m) = "open"
      BY <2>2 DEF Status, Manifest
    <3> HIDE DEF m
    <3> QED BY <1>4, <2>1, <2>2, <3>1, <3>2
  <2> QED BY <1>6, <2>3, <2>4
<1>7. ASSUME NEW p \in Proc, AttemptTarget(p) PROVE UNCHANGED Abstract!avars
  <2>1. pc[p] = "next" /\ pc[p] \in Forward /\ UNCHANGED <<owner, edits>>
    BY <1>7 DEF AttemptTarget, Forward
  <2>2. /\ mem[p] \in Manifest /\ job[p] \in Auth /\ Status(journal[job[p]]) = "open"
        /\ mem[p].state = "APPLYING"
    BY <2>1 DEF Busy, IInv, InStep, Forward, Status
  <2>3. PICK r \in Ref :
          IF Preimage(job[p], r)
          THEN Persist(p, [mem[p] EXCEPT !.attempted = @ \union {r}], "replace", "rollback")
          ELSE /\ pc' = [pc EXCEPT ![p] = "rollback"]
               /\ UNCHANGED <<journal, mem, faults>>
    BY <1>7 DEF AttemptTarget
  <2> DEFINE m == [mem[p] EXCEPT !.attempted = @ \union {r}]
  <2>4. Status(m) = "open"
    BY <2>2 DEF Status, Manifest
  <2>5. Persist(p, m, "replace", "rollback") \/ journal' = journal
    BY <2>3
  <2> HIDE DEF m
  <2> QED BY <1>4, <2>1, <2>2, <2>4, <2>5, Stutter
<1>8. ASSUME NEW p \in Proc, Commit(p) PROVE [Abstract!Next]_Abstract!avars
  <2> DEFINE m == [mem[p] EXCEPT !.state = "COMMITTED"]
  <2>1. /\ pc[p] = "next" /\ pc[p] \in Forward /\ UNCHANGED <<owner, edits>>
        /\ Persist(p, m, "release", "rollback") /\ Targets(job[p]) \subseteq mem[p].attempted
    BY <1>8 DEF Commit, Forward
  <2>2. mem[p] \in Manifest /\ job[p] \in Auth /\ Status(journal[job[p]]) = "open"
    BY <2>1 DEF Busy, IInv, InStep, Forward, Status
  <2>3. Status(m) = "committed"
    BY <2>2 DEF Status, Manifest
  <2>4. \A r \in Targets(job[p]) : owner[r] \in {job[p], None}
    BY <2>1 DEF RInv, Ours, Applied
  <2>5. \A r \in TxTargets[job[p]] : owner[r] \in {job[p], None}
    BY <2>2, <2>4 DEF TxTargets
  <2> HIDE DEF m
  <2>6. UNCHANGED Abstract!avars \/ Abstract!Commit(job[p])
    BY <1>4, <2>1, <2>2, <2>3, <2>5 DEF Abstract!Commit
  <2> QED BY <2>2, <2>6 DEF Abstract!Next
<1>9. ASSUME NEW p \in Proc, FinishRollback(p) PROVE [Abstract!Next]_Abstract!avars
  <2> DEFINE m == [mem[p] EXCEPT !.state = IF failures[p] = {} THEN "RECOVERED" ELSE "PARTIAL"]
  <2>1. pc[p] = "rollback" /\ Persist(p, m, "release", "release") /\ UNCHANGED <<owner, edits>>
    BY <1>9 DEF FinishRollback
  <2>2. mem[p] \in Manifest /\ job[p] \in Auth /\ m \in Manifest
    BY <2>1 DEF Busy, Manifest, States
  <2>3. m.state \in {"RECOVERED", "PARTIAL"}
    BY <2>2 DEF Manifest
  <2>4. Status(journal[job[p]]) \in {"open", "undone"}
    <3>1. /\ journal[job[p]].state # "COMMITTED" /\ journal[job[p]] # NoManifest
          /\ journal[job[p]] \in Manifest \union {NoManifest}
      BY <2>1, <2>2 DEF RInv, RollbackOpen, IInv, RollingBack, Consumed, TypeOK
    <3> QED BY <3>1 DEF Manifest, States, Status
  <2>5. CASE m.state = "RECOVERED"
    <3>1. Status(m) = "undone"
      BY <2>5 DEF Status
    <3>2. RecoveredLeavesNothing'
      BY InvariantStep DEF IInv
    <3> HIDE DEF m
    <3>3. journal' = [journal EXCEPT ![job[p]] = m] => \A r \in Ref : owner[r] # job[p]
      BY <2>1, <2>2, <2>5, <3>2 DEF RecoveredLeavesNothing, TypeOK
    <3>4. UNCHANGED Abstract!avars \/ Abstract!Undone(job[p])
      BY <1>4, <2>1, <2>2, <2>4, <3>1, <3>3 DEF Abstract!Undone
    <3> QED BY <2>2, <3>4 DEF Abstract!Next
  <2>6. CASE m.state = "PARTIAL"
    <3>1. Status(m) = "open"
      BY <2>6 DEF Status
    <3> HIDE DEF m
    <3>2. UNCHANGED Abstract!avars \/ Abstract!Reopen(job[p])
      BY <1>4, <2>1, <2>2, <2>4, <3>1 DEF Abstract!Reopen
    <3> QED BY <2>2, <3>2 DEF Abstract!Next
  <2> QED BY <2>3, <2>5, <2>6
<1>10. ASSUME NEW p \in Proc, ReplaceTarget(p) PROVE [Abstract!Next]_Abstract!avars
  <2>1. pc[p] = "replace" /\ UNCHANGED <<journal, edits>>
    BY <1>10 DEF ReplaceTarget
  <2>2. /\ mem[p] \in Manifest /\ job[p] \in Auth /\ Status(journal[job[p]]) = "open"
        /\ mem[p].attempted \subseteq Targets(job[p])
    BY <2>1 DEF Busy, IInv, InStep, RInv, Planned, Forward, Status
  <2>3. PICK r \in mem[p].attempted :
          owner' = owner \/ owner' = [owner EXCEPT ![r] = job[p]]
    BY <1>10 DEF ReplaceTarget
  <2>4. r \in Ref /\ TxStatus[job[p]] = "open" /\ r \in TxTargets[job[p]] /\ TxStatus' = TxStatus
    BY <2>1, <2>2 DEF TxStatus, TxTargets, Manifest
  <2>5. CASE owner' = owner
    BY <2>1, <2>5, Stutter
  <2>6. CASE owner' = [owner EXCEPT ![r] = job[p]]
    <3>1. Abstract!Take(job[p], r)
      BY <2>1, <2>4, <2>6 DEF Abstract!Take
    <3> QED BY <2>2, <2>4, <3>1 DEF Abstract!Next
  <2> QED BY <2>3, <2>5, <2>6
<1>11. ASSUME NEW p \in Proc, RollbackTarget(p) PROVE [Abstract!Next]_Abstract!avars
  <2>1. pc[p] = "rollback" /\ job[p] \in Auth /\ UNCHANGED <<journal, edits>>
    BY <1>11 DEF RollbackTarget, Busy
  <2>2. PICK r \in Ref :
          \/ owner' = owner
          \/ owner' = [owner EXCEPT ![r] = IF @ = job[p] THEN None ELSE @]
          \/ owner' = [owner EXCEPT ![r] = None] /\ disk[r] = Plan[job[p]].after[r]
    BY <1>11 DEF RollbackTarget
  <2>3. owner' = owner \/ (owner[r] = job[p] /\ owner' = [owner EXCEPT ![r] = None])
    <3>1. owner \in [Ref -> Auth \union {None}]
      BY DEF TypeOK
    <3>2. CASE owner' = [owner EXCEPT ![r] = None] /\ disk[r] = Plan[job[p]].after[r]
      <4>1. owner[r] \in {job[p], None}
        BY <2>1, <3>1, <3>2 DEF IInv, OwnerBytes, DistinctGenerations
      <4> QED BY <3>1, <3>2, <4>1
    <3> QED BY <2>2, <3>1, <3>2
  <2>4. CASE owner' = owner
    BY <2>1, <2>4, Stutter
  <2>5. CASE owner[r] = job[p] /\ owner' = [owner EXCEPT ![r] = None]
    <3>1. Status(journal[job[p]]) = "open"
      <4>1. /\ journal[job[p]].state \notin {"COMMITTED", "RECOVERED"}
            /\ journal[job[p]] # NoManifest
            /\ journal[job[p]] \in Manifest \union {NoManifest}
        BY <2>1, <2>5 DEF RInv, RollbackOpen, IInv, RollingBack, RecoveredLeavesNothing, Consumed,
           TypeOK
      <4> QED BY <4>1 DEF Manifest, States, Status
    <3>2. TxStatus[job[p]] = "open" /\ TxStatus' = TxStatus
      BY <2>1, <3>1 DEF TxStatus
    <3>3. Abstract!GiveBack(job[p], r)
      BY <2>1, <2>5, <3>2 DEF Abstract!GiveBack
    <3> QED BY <2>1, <3>3 DEF Abstract!Next
  <2> QED BY <2>3, <2>4, <2>5
<1>12. ASSUME NEW r \in Ref, NEW c \in Image, Edit(r, c) PROVE [Abstract!Next]_Abstract!avars
  <2>1. Abstract!Overwrite(r)
    BY <1>12 DEF Edit, Abstract!Overwrite, TxStatus
  <2> QED BY <2>1 DEF Abstract!Next
<1> QED
  BY <1>1, <1>2, <1>3, <1>5, <1>6, <1>7, <1>8, <1>9, <1>10, <1>11, <1>12 DEF Next, Step

(* Refinement: when a write that raises has not taken effect and no two     *)
(* plans give a file the same new bytes, the exact-file transaction, with   *)
(* its lock, manifests, crashes, lost writes, late and repeated recoveries  *)
(* and user edits, implements an atomic commit.                             *)
THEOREM Refinement == LostOnly /\ DistinctGenerations => (Spec => ImplementsAtomicCommit)
<1> SUFFICES ASSUME LostOnly, DistinctGenerations PROVE Spec => Abstract!Spec
    BY DEF ImplementsAtomicCommit
<1>1. Init => RInv
  BY DEF Init, RInv, RollbackOpen, Planned, Ours, NoManifest, Forward
<1>2. Init => Abstract!Init
  BY DEF Init, Abstract!Init, TxStatus, Status, NoManifest
<1>3. TypeOK /\ Busy /\ IInv /\ RInv /\ [Next]_vars => RInv'
  BY RefinementInvariantStep
<1>4. TypeOK /\ Busy /\ IInv /\ RInv /\ [Next]_vars => [Abstract!Next]_Abstract!avars
  BY RefinementStep
<1> QED BY <1>1, <1>2, <1>3, <1>4, Invariance, PTL DEF Spec, Abstract!Spec

(* COMMITTED is final when a write that raises has not taken effect: no     *)
(* failed commit, late recovery or crash leads to a rewritten manifest.     *)
THEOREM CommittedIsFinalHolds == LostOnly => (Spec => CommittedIsFinal)
<1> SUFFICES ASSUME LostOnly PROVE Spec => CommittedIsFinal
    OBVIOUS
<1>1. Init => RInv
  BY DEF Init, RInv, RollbackOpen, Planned, Ours, NoManifest, Forward
<1>2. TypeOK /\ Busy /\ IInv /\ RInv /\ [Next]_vars => RInv'
  BY RefinementInvariantStep
<1>3. TypeOK /\ Busy /\ IInv /\ RInv /\ [Next]_vars =>
        [\A a \in Auth : journal[a].state = "COMMITTED" => journal'[a] = journal[a]]_vars
  <2> SUFFICES ASSUME TypeOK, Busy, IInv, RInv, [Next]_vars, NEW a \in Auth,
                      journal[a].state = "COMMITTED", journal'[a] # journal[a]
               PROVE  FALSE
    OBVIOUS
  <2>1. Consumed(a)
    BY DEF Consumed, NoManifest
  <2>2. PICK p \in Proc : job[p] = a /\ (pc[p] \in Forward \/ pc[p] = "rollback")
    BY <2>1, JournalStep
  <2>3. CASE pc[p] \in Forward
    BY <2>2, <2>3 DEF IInv, InStep
  <2>4. CASE pc[p] = "rollback"
    BY <2>2, <2>4 DEF RInv, RollbackOpen
  <2> QED BY <2>2, <2>3, <2>4
<1> QED BY <1>1, <1>2, <1>3, Invariance, PTL DEF Spec, CommittedIsFinal

-----------------------------------------------------------------------------
(* What a committed transaction wrote survives the recovery of the others.  *)
(* Nobody asks, when a plan is applied, whether earlier transactions are    *)
(* resolved: a committed transaction may rest on one that is rolled back    *)
(* later.  So the chain from its bytes to those in the file is followed     *)
(* over the transactions that may still have written, and survives as these *)
(* give their files back.                                                   *)

\* With manifest m transaction b may stand behind the bytes of file r.
LiveIn(m, b, r) ==
  \/ m.state = "COMMITTED" /\ r \in Targets(b)
  \/ m.state \notin {"NONE", "COMMITTED", "RECOVERED"} /\ r \in m.attempted
Live(b, r) == LiveIn(journal[b], b, r)

Leads(r, from, to) ==
  \A S \in SUBSET Image :
    (from \in S /\ \A b \in Auth : Live(b, r) /\ Plan[b].before[r] \in S => Plan[b].after[r] \in S)
      => to \in S

Chained ==
  \A a \in Auth : journal[a].state = "COMMITTED" =>
    \A r \in Targets(a) : Leads(r, Plan[a].after[r], disk[r])

\* Without users' edits the files are as the process that writes them believes.
Written(p) ==
  /\ pc[p] \in Forward => \A r \in mem[p].applied : disk[r] = Plan[job[p]].after[r]
  /\ pc[p] = "account" => \A r \in mem[p].attempted : disk[r] = Plan[job[p]].after[r]
  /\ pc[p] = "replace" => \A r \in mem[p].attempted \ mem[p].applied : Preimage(job[p], r)
  /\ pc[p] = "rollback" => \A r \in done[p] \ failures[p] : Preimage(job[p], r)

SInv == edits = 0 => Chained /\ \A p \in Proc : Written(p)

\* More transactions that may have written make no chain shorter.
LEMMA LeadsMore ==
  ASSUME NEW r, NEW from, NEW to, Leads(r, from, to), \A b \in Auth : Live(b, r) => Live(b, r)'
  PROVE  Leads(r, from, to)'
  BY DEF Leads

\* A transaction that may have written carries the chain on.
LEMMA LeadsOn ==
  ASSUME NEW r, NEW from, NEW b \in Auth, Live(b, r), Leads(r, from, Plan[b].before[r])
  PROVE  Leads(r, from, Plan[b].after[r])
  BY DEF Leads

(* The new bytes of b are nobody else's, so a chain that ends at them came  *)
(* through the bytes b replaced.                                            *)
LEMMA LeadsBack ==
  ASSUME DistinctGenerations, NEW r \in Ref, NEW a \in Auth, NEW b \in Auth, a # b,
         Leads(r, Plan[a].after[r], Plan[b].after[r])
  PROVE  Leads(r, Plan[a].after[r], Plan[b].before[r])
<1> SUFFICES ASSUME NEW S \in SUBSET Image, Plan[a].after[r] \in S,
                    \A c \in Auth : Live(c, r) /\ Plan[c].before[r] \in S => Plan[c].after[r] \in S,
                    Plan[b].before[r] \notin S
             PROVE  FALSE
  BY DEF Leads
<1> DEFINE T == S \ {Plan[b].after[r]}
<1>1. T \in SUBSET Image /\ Plan[a].after[r] \in T
  BY DEF DistinctGenerations
<1>2. ASSUME NEW c \in Auth, Live(c, r), Plan[c].before[r] \in T PROVE Plan[c].after[r] \in T
  BY <1>2 DEF DistinctGenerations
<1> QED BY <1>1, <1>2 DEF Leads

\* The bytes b replaced are reached without b.
LEMMA LeadsWithout ==
  ASSUME NEW r, NEW from, NEW b \in Auth, Leads(r, from, Plan[b].before[r]),
         \A c \in Auth \ {b} : Live(c, r) => Live(c, r)'
  PROVE  Leads(r, from, Plan[b].before[r])'
  BY DEF Leads

\* Files and manifests unchanged: nothing happens to the chains.
LEMMA ChainedKept ==
  ASSUME Chained, UNCHANGED <<disk, journal>> PROVE Chained'
  BY LeadsMore DEF Chained, Live

(* The lock holder writes a manifest from which at least as much may have   *)
(* been written as from the one before.                                     *)
LEMMA PersistChains ==
  ASSUME LostOnly, TypeOK, NEW p \in Proc, job[p] \in Auth, NEW m, NEW good, NEW bad,
         Persist(p, m, good, bad), UNCHANGED disk, Chained,
         \A r : Live(job[p], r) => LiveIn(m, job[p], r),
         m.state = "COMMITTED" => \A r \in Targets(job[p]) : disk[r] = Plan[job[p]].after[r]
  PROVE  Chained'
<1>1. CASE UNCHANGED journal
  BY <1>1, ChainedKept
<1>2. CASE journal' = [journal EXCEPT ![job[p]] = m]
  <2>1. \A b \in Auth : \A r : Live(b, r) => Live(b, r)'
    BY <1>2 DEF Live, TypeOK
  <2> SUFFICES ASSUME NEW a \in Auth, journal'[a].state = "COMMITTED", NEW r \in Targets(a)
               PROVE  Leads(r, Plan[a].after[r], disk[r])'
    BY DEF Chained
  <2>2. CASE journal[a].state = "COMMITTED"
    BY <2>1, <2>2, LeadsMore DEF Chained
  <2>3. CASE journal[a].state # "COMMITTED"
    <3>1. a = job[p] /\ m.state = "COMMITTED"
      BY <1>2, <2>3 DEF TypeOK
    <3> QED BY <3>1 DEF Leads
  <2> QED BY <2>2, <2>3
<1> QED BY <1>1, <1>2, PersistLost

\* Every step without an edit keeps the chains and what the processes believe.
LEMMA SurvivalStep ==
  ASSUME LostOnly, DistinctGenerations, TypeOK, Busy, IInv, RInv, SInv, [Next]_vars
  PROVE  SInv'
<1>1. CASE UNCHANGED vars
  BY <1>1, ChainedKept DEF vars, SInv, Written, Preimage
<1>2. ASSUME NEW r \in Ref, NEW c \in Image, Edit(r, c) PROVE SInv'
  BY <1>2 DEF Edit, SInv, TypeOK
<1> SUFFICES ASSUME edits = 0, Chained, \A p \in Proc : Written(p),
                    \/ \E p \in Proc : Step(p) \/ Crash(p)
                    \/ \E p \in Proc, a \in Auth : Admit(p, a) \/ Recover(p, a)
             PROVE  Chained' /\ \A p \in Proc : Written(p)'
  <2>1. UNCHANGED edits \/ (\E r \in Ref, c \in Image : Edit(r, c)) \/ UNCHANGED vars
    BY DEF Next, Step, AcquireLock, FreshAdmission, WritePrepared, WriteApplying, AttemptTarget,
       ReplaceTarget, AccountTarget, Commit, RollbackTarget, FinishRollback, ReleaseLock, Crash,
       Admit, Recover
  <2> QED BY <1>1, <1>2, <2>1 DEF SInv, Next
<1>3. ASSUME NEW p \in Proc, pc[p] \in Critical, NEW q \in Proc, q # p, pc'[q] = pc[q]
      PROVE  Written(q)'
  <2>1. pc[q] \notin Critical
    BY <1>3, Exclusive DEF IInv
  <2> QED BY <1>3, <2>1 DEF Written, Forward, Critical
<1>4. ASSUME NEW p \in Proc, UNCHANGED <<disk, journal>>, pc'[p] \notin Forward \union {"rollback"},
             \A q \in Proc \ {p} : pc'[q] = pc[q] /\ job'[q] = job[q] /\ mem'[q] = mem[q]
                                   /\ done'[q] = done[q] /\ failures'[q] = failures[q]
      PROVE  Chained' /\ \A q \in Proc : Written(q)'
  <2>1. Written(p)'
    BY <1>4 DEF Written, Forward
  <2>2. ASSUME NEW q \in Proc, q # p PROVE Written(q)'
    BY <1>4, <2>2 DEF Written, Preimage
  <2> QED BY <1>4, <2>1, <2>2, ChainedKept
<1>5. ASSUME NEW p \in Proc, AcquireLock(p) \/ FreshAdmission(p) \/ ReleaseLock(p) \/ Crash(p)
      PROVE  Chained' /\ \A q \in Proc : Written(q)'
  BY <1>4, <1>5 DEF AcquireLock, FreshAdmission, ReleaseLock, Crash, Return, TypeOK, Forward
<1>6. ASSUME NEW p \in Proc, NEW a \in Auth, Admit(p, a)
      PROVE  Chained' /\ \A q \in Proc : Written(q)'
  BY <1>4, <1>6 DEF Admit, TypeOK, Forward
<1>7. ASSUME NEW p \in Proc, NEW a \in Auth, Recover(p, a)
      PROVE  Chained' /\ \A q \in Proc : Written(q)'
  <2>1. done[p] = {}
    BY <1>7 DEF Recover, IInv, RollbackStarts
  <2>2. Written(p)'
    BY <1>7, <2>1 DEF Recover, TypeOK, Written, Forward
  <2>3. ASSUME NEW q \in Proc, q # p PROVE Written(q)'
    BY <1>7, <2>3 DEF Recover, TypeOK, Written, Preimage
  <2> QED BY <1>7, <2>2, <2>3, ChainedKept DEF Recover
(* A manifest written between two targets, or at the end.                   *)
<1>8. ASSUME NEW p \in Proc, pc[p] \in Critical, job[p] \in Auth,
             NEW m, NEW good, NEW bad, Persist(p, m, good, bad), UNCHANGED <<disk, job, done>>,
             \A r : Live(job[p], r) => LiveIn(m, job[p], r),
             m.state = "COMMITTED" => \A r \in Targets(job[p]) : disk[r] = Plan[job[p]].after[r],
             good \in Forward =>
               /\ \A r \in m.applied : disk[r] = Plan[job[p]].after[r]
               /\ good # "account"
               /\ good = "replace" => \A r \in m.attempted \ m.applied : Preimage(job[p], r),
             good # "rollback", bad \notin Forward, bad = "rollback" => done[p] = {}
      PROVE  Chained' /\ \A q \in Proc : Written(q)'
  <2>1. /\ \A q \in Proc \ {p} : pc'[q] = pc[q]
        /\ mem'[p] = m /\ pc'[p] \in {good, bad}
    BY <1>8, PersistLost
  <2>2. Written(p)'
    BY <1>8, <2>1 DEF Written, Preimage, Forward
  <2>3. Chained'
    BY <1>8, PersistChains
  <2> QED BY <1>3, <1>8, <2>1, <2>2, <2>3
<1>9. ASSUME NEW p \in Proc, WritePrepared(p) PROVE Chained' /\ \A q \in Proc : Written(q)'
  <2> DEFINE m == [state |-> "PREPARED", attempted |-> {}, applied |-> {}]
  <2>1. /\ pc[p] \in Critical /\ job[p] \in Auth /\ Persist(p, m, "begin", "release")
        /\ UNCHANGED <<disk, job, done>>
    BY <1>9 DEF WritePrepared, Busy, Critical
  <2>2. journal[job[p]] = NoManifest
    BY <1>9 DEF WritePrepared, IInv, FreshManifest, Consumed
  <2>3. \A r : ~Live(job[p], r)
    BY <2>2 DEF Live, LiveIn, NoManifest
  <2>4. m.applied = {} /\ m.state = "PREPARED"
    OBVIOUS
  <2> HIDE DEF m
  <2> QED BY <1>8, <2>1, <2>3, <2>4 DEF Forward
<1>10. ASSUME NEW p \in Proc, pc[p] \in Forward
       PROVE  /\ pc[p] \in Critical /\ job[p] \in Auth /\ mem[p] \in Manifest /\ done[p] = {}
              /\ journal[job[p]] = mem[p]
              /\ mem[p].state \in {"PREPARED", "APPLYING"}
              /\ mem[p].attempted \subseteq Targets(job[p]) /\ Targets(job[p]) \subseteq Ref
              /\ Applied(p) /\ Written(p)
  <2>1. pc[p] \in Critical /\ job[p] \in Auth /\ mem[p] \in Manifest /\ done[p] = {}
    BY <1>10 DEF Busy, Critical, Forward, IInv, RollbackStarts
  <2>2. journal[job[p]] = mem[p] /\ mem[p].state \in {"PREPARED", "APPLYING"}
    BY <1>10 DEF IInv, InStep
  <2>3. mem[p].attempted \subseteq Targets(job[p]) /\ Applied(p)
    BY <1>10 DEF RInv, Planned, Ours
  <2>4. Targets(job[p]) \subseteq Ref
    BY <2>1, PlanAssumption DEF PlanType, Targets
  <2> QED BY <2>1, <2>2, <2>3, <2>4
<1>11. ASSUME NEW p \in Proc, WriteApplying(p) PROVE Chained' /\ \A q \in Proc : Written(q)'
  <2> DEFINE m == [mem[p] EXCEPT !.state = "APPLYING"]
  <2>1. /\ pc[p] \in Forward /\ Persist(p, m, "next", "rollback") /\ UNCHANGED <<disk, job, done>>
    BY <1>11 DEF WriteApplying, Forward
  <2>2. m.applied = mem[p].applied /\ m.attempted = mem[p].attempted /\ m.state = "APPLYING"
    BY <1>10, <2>1 DEF Manifest
  <2> HIDE DEF m
  <2>3. \A r : Live(job[p], r) => LiveIn(m, job[p], r)
    BY <1>10, <2>1, <2>2 DEF Live, LiveIn
  <2> QED BY <1>8, <1>10, <2>1, <2>2, <2>3 DEF Written, Forward
<1>12. ASSUME NEW p \in Proc, AttemptTarget(p) PROVE Chained' /\ \A q \in Proc : Written(q)'
  <2>1. pc[p] \in Forward /\ UNCHANGED <<disk, job, done, failures>>
    BY <1>12 DEF AttemptTarget, Forward
  <2> PICK r \in Ref :
        IF Preimage(job[p], r)
        THEN Persist(p, [mem[p] EXCEPT !.attempted = @ \union {r}], "replace", "rollback")
        ELSE /\ pc' = [pc EXCEPT ![p] = "rollback"]
             /\ UNCHANGED <<journal, mem, faults>>
    BY <1>12 DEF AttemptTarget
  <2> DEFINE m == [mem[p] EXCEPT !.attempted = @ \union {r}]
  <2>2. CASE Preimage(job[p], r)
    <3>1. Persist(p, m, "replace", "rollback")
      BY <2>2
    <3>2. /\ m.applied = mem[p].applied /\ m.attempted = mem[p].attempted \union {r}
          /\ m.state = mem[p].state
      BY <1>10, <2>1 DEF Manifest
    <3> HIDE DEF m
    <3>3. \A s : Live(job[p], s) => LiveIn(m, job[p], s)
      BY <1>10, <2>1, <3>2 DEF Live, LiveIn
    <3>4. \A s \in m.attempted \ m.applied : s = r
      BY <1>10, <1>12, <2>1, <3>2 DEF AttemptTarget, Applied
    <3> QED BY <1>8, <1>10, <2>1, <2>2, <3>1, <3>2, <3>3, <3>4 DEF Written, Forward
  <2>3. CASE ~Preimage(job[p], r)
    <3>1. pc'[p] = "rollback" /\ (\A q \in Proc \ {p} : pc'[q] = pc[q]) /\ done'[p] = {}
      BY <1>10, <2>1, <2>3 DEF TypeOK
    <3>2. Written(p)'
      BY <3>1 DEF Written, Forward
    <3> QED BY <1>3, <1>10, <2>1, <2>3, <3>1, <3>2, ChainedKept
  <2> QED BY <2>2, <2>3
<1>13. ASSUME NEW p \in Proc, ReplaceTarget(p) PROVE Chained' /\ \A q \in Proc : Written(q)'
  <2>1. pc[p] = "replace" /\ pc[p] \in Forward /\ UNCHANGED <<journal, job, mem, done>>
    BY <1>13 DEF ReplaceTarget, Forward
  <2> PICK r \in mem[p].attempted \ mem[p].applied, o \in Outcomes :
        /\ WriteTarget(r, Plan[job[p]].after[r], o)
        /\ pc' = [pc EXCEPT ![p] = IF o = "ok" THEN "account" ELSE "rollback"]
    BY <1>13 DEF ReplaceTarget
  <2>2. o \in {"ok", "lost"} /\ (\A q \in Proc \ {p} : pc'[q] = pc[q])
    BY FaultAssumption DEF Outcomes, LostOnly, TypeOK
  <2>3. /\ job[p] \in Auth /\ r \in Ref /\ disk[r] = Plan[job[p]].before[r]
        /\ done[p] = {} /\ Live(job[p], r)
        /\ \A s \in mem[p].attempted : s = r \/ s \in mem[p].applied
    BY <1>10, <2>1 DEF Written, Preimage, Live, LiveIn, Applied
  <2>4. CASE o = "lost"
    <3>1. pc'[p] = "rollback" /\ UNCHANGED disk
      BY <2>4 DEF WriteTarget, TypeOK
    <3>2. Written(p)'
      BY <2>1, <2>3, <3>1 DEF Written, Forward
    <3> QED BY <1>3, <1>10, <2>1, <2>2, <3>1, <3>2, ChainedKept
  <2>5. CASE o = "ok"
    <3>1. /\ pc'[p] = "account" /\ disk'[r] = Plan[job[p]].after[r]
          /\ \A s \in Ref \ {r} : disk'[s] = disk[s]
      BY <2>3, <2>5 DEF WriteTarget, TypeOK
    <3>2. \A s \in mem[p].applied \union mem[p].attempted : disk'[s] = Plan[job[p]].after[s]
      <4>1. mem[p].applied \subseteq Ref
        BY <1>10, <2>1 DEF Manifest
      <4> QED BY <1>10, <2>1, <2>3, <3>1, <4>1 DEF Written
    <3>3. Written(p)'
      BY <2>1, <3>1, <3>2 DEF Written
    <3>4. Chained'
      <4> SUFFICES ASSUME NEW a \in Auth, journal[a].state = "COMMITTED", NEW s \in Targets(a)
                   PROVE  Leads(s, Plan[a].after[s], disk[s])'
        BY <2>1 DEF Chained
      <4>1. Leads(s, Plan[a].after[s], disk[s]) /\ s \in Ref
        BY PlanAssumption DEF Chained, PlanType, Targets
      <4>2. Leads(s, Plan[a].after[s], disk'[s])
        BY <2>3, <3>1, <4>1, LeadsOn
      <4>3. PICK to : to = disk'[s]
        OBVIOUS
      <4>4. Leads(s, Plan[a].after[s], to)'
        BY <2>1, <4>2, <4>3, LeadsMore DEF Live
      <4> QED BY <4>3, <4>4
    <3> QED BY <1>3, <1>10, <2>1, <2>2, <3>3, <3>4
  <2> QED BY <2>2, <2>4, <2>5
<1>14. ASSUME NEW p \in Proc, AccountTarget(p) PROVE Chained' /\ \A q \in Proc : Written(q)'
  <2> DEFINE m == [mem[p] EXCEPT !.applied = mem[p].attempted]
  <2>1. /\ pc[p] = "account" /\ pc[p] \in Forward /\ Persist(p, m, "next", "rollback")
        /\ UNCHANGED <<disk, job, done>>
    BY <1>14 DEF AccountTarget, Forward
  <2>2. /\ m.applied = mem[p].attempted /\ m.attempted = mem[p].attempted
        /\ m.state = mem[p].state
    BY <1>10, <2>1 DEF Manifest
  <2> HIDE DEF m
  <2>3. \A r : Live(job[p], r) => LiveIn(m, job[p], r)
    BY <1>10, <2>1, <2>2 DEF Live, LiveIn
  <2> QED BY <1>8, <1>10, <2>1, <2>2, <2>3 DEF Written, Forward
<1>15. ASSUME NEW p \in Proc, Commit(p) PROVE Chained' /\ \A q \in Proc : Written(q)'
  <2> DEFINE m == [mem[p] EXCEPT !.state = "COMMITTED"]
  <2>1. /\ pc[p] = "next" /\ pc[p] \in Forward /\ Persist(p, m, "release", "rollback")
        /\ UNCHANGED <<disk, job, done>> /\ Targets(job[p]) \subseteq mem[p].attempted
    BY <1>15 DEF Commit, Forward
  <2>2. m.state = "COMMITTED"
    BY <1>10, <2>1 DEF Manifest
  <2> HIDE DEF m
  <2>3. \A r : Live(job[p], r) => LiveIn(m, job[p], r)
    BY <1>10, <2>1, <2>2 DEF Live, LiveIn
  <2>4. \A r \in Targets(job[p]) : disk[r] = Plan[job[p]].after[r]
    BY <1>10, <2>1 DEF Applied, Written
  <2> QED BY <1>8, <1>10, <2>1, <2>2, <2>3, <2>4 DEF Forward
<1>16. ASSUME NEW p \in Proc, pc[p] = "rollback"
       PROVE  /\ pc[p] \in Critical /\ job[p] \in Auth /\ mem[p] \in Manifest /\ Written(p)
              /\ journal[job[p]].attempted \subseteq mem[p].attempted
              /\ journal[job[p]].state \notin {"NONE", "COMMITTED"}
  <2>1. journal[job[p]] # NoManifest /\ journal[job[p]] \in Manifest \union {NoManifest}
    BY <1>16 DEF Busy, IInv, RollingBack, Consumed, TypeOK
  <2>2. journal[job[p]].state # "NONE"
    BY <2>1 DEF Manifest, States
  <2> QED BY <1>16, <2>2 DEF Busy, Critical, IInv, RollingBack, RInv, RollbackOpen
<1>17. ASSUME NEW p \in Proc, RollbackTarget(p) PROVE Chained' /\ \A q \in Proc : Written(q)'
  <2>1. /\ pc[p] = "rollback" /\ UNCHANGED <<journal, pc, job, mem>>
    BY <1>17 DEF RollbackTarget
  <2>2. PICK r \in Ref :
        /\ IsLast(p, r)
        /\ done' = [done EXCEPT ![p] = @ \union {r}]
        /\ \/ /\ Preimage(job[p], r)
              /\ UNCHANGED <<disk, failures>>
           \/ /\ disk[r] # Plan[job[p]].after[r]
              /\ failures' = [failures EXCEPT ![p] = @ \union {r}]
              /\ UNCHANGED disk
           \/ /\ disk[r] = Plan[job[p]].after[r]
              /\ \E o \in RestoreOutcomes(Plan[job[p]].before[r]) :
                   /\ WriteTarget(r, Plan[job[p]].before[r], o)
                   /\ failures' = IF o = "ok" THEN failures
                                  ELSE [failures EXCEPT ![p] = @ \union {r}]
    BY <1>17 DEF RollbackTarget
  <2>3. done'[p] = done[p] \union {r}
    BY <2>2 DEF TypeOK
  <2>4. \/ disk' = disk
        \/ /\ disk[r] = Plan[job[p]].after[r]
           /\ disk' = [disk EXCEPT ![r] = Plan[job[p]].before[r]]
    BY <2>2 DEF WriteTarget
  <2>5. failures[p] \subseteq failures'[p] /\ (r \notin failures'[p] => Preimage(job[p], r)')
    <3>1. \A o \in RestoreOutcomes(Plan[job[p]].before[r]) : o \in {"ok", "lost"}
      BY FaultAssumption DEF RestoreOutcomes, Outcomes, LostOnly
    <3> QED BY <2>1, <2>2, <3>1 DEF WriteTarget, Preimage, TypeOK
  <2>6. Written(p)'
    <3>1. ASSUME NEW s \in done[p] \ failures[p] PROVE Preimage(job[p], s)'
      <4>1. s \in Ref /\ disk[s] = Plan[job[p]].before[s]
        BY <1>16, <2>1 DEF Written, Preimage, TypeOK
      <4> QED BY <2>1, <2>4, <4>1 DEF Preimage, TypeOK
    <3> QED BY <2>1, <2>3, <2>5, <3>1 DEF Written, Forward
  <2>7. Chained'
    <3> SUFFICES ASSUME NEW a \in Auth, journal[a].state = "COMMITTED", NEW s \in Targets(a)
                 PROVE  Leads(s, Plan[a].after[s], disk[s])'
      BY <2>1 DEF Chained
    <3>1. Leads(s, Plan[a].after[s], disk[s]) /\ s \in Ref /\ a # job[p]
      BY <1>16, <2>1, PlanAssumption DEF Chained, PlanType, Targets
    <3>2. Leads(s, Plan[a].after[s], disk'[s])
      BY <1>16, <2>1, <2>4, <3>1, LeadsBack DEF TypeOK
    <3>3. PICK to : to = disk'[s]
      OBVIOUS
    <3>4. Leads(s, Plan[a].after[s], to)'
      BY <2>1, <3>2, <3>3, LeadsMore DEF Live
    <3> QED BY <3>3, <3>4
  <2> QED BY <1>3, <1>16, <2>1, <2>6, <2>7
<1>18. ASSUME NEW p \in Proc, FinishRollback(p) PROVE Chained' /\ \A q \in Proc : Written(q)'
  <2> DEFINE m == [mem[p] EXCEPT !.state = IF failures[p] = {} THEN "RECOVERED" ELSE "PARTIAL"]
  <2>1. /\ pc[p] = "rollback" /\ mem[p].attempted \subseteq done[p]
        /\ Persist(p, m, "release", "release") /\ UNCHANGED <<disk, job, done>>
    BY <1>18 DEF FinishRollback
  <2>2. /\ m.attempted = mem[p].attempted
        /\ m.state = IF failures[p] = {} THEN "RECOVERED" ELSE "PARTIAL"
    BY <1>16, <2>1 DEF Manifest
  <2> HIDE DEF m
  <2>3. CASE failures[p] # {}
    <3>1. \A r : Live(job[p], r) => LiveIn(m, job[p], r)
      BY <1>16, <2>1, <2>2, <2>3 DEF Live, LiveIn
    <3> QED BY <1>8, <1>16, <2>1, <2>2, <2>3, <3>1 DEF Forward
  <2>4. CASE failures[p] = {}
    <3>1. /\ \A q \in Proc \ {p} : pc'[q] = pc[q]
          /\ pc'[p] = "release"
          /\ journal' = [journal EXCEPT ![job[p]] = m] \/ journal' = journal
      BY <1>16, <2>1, PersistLost
    <3>2. Written(p)'
      BY <3>1 DEF Written, Forward
    <3>3. Chained'
      <4>1. CASE UNCHANGED journal
        BY <2>1, <4>1, ChainedKept
      <4>2. CASE journal' = [journal EXCEPT ![job[p]] = m]
        <5>1. \A c \in Auth \ {job[p]} : journal'[c] = journal[c]
          BY <4>2 DEF TypeOK
        <5> SUFFICES ASSUME NEW a \in Auth, journal'[a].state = "COMMITTED", NEW s \in Targets(a)
                     PROVE  Leads(s, Plan[a].after[s], disk[s])'
          BY DEF Chained
        <5>2. a # job[p] /\ journal[a].state = "COMMITTED"
          BY <1>16, <2>1, <2>2, <2>4, <4>2, <5>1 DEF TypeOK
        <5>3. Leads(s, Plan[a].after[s], disk[s])
          BY <5>2 DEF Chained
        <5>4. CASE s \in mem[p].attempted
          <6>1. disk[s] = Plan[job[p]].before[s]
            BY <1>16, <2>1, <2>4, <5>4 DEF Written, Preimage
          <6> QED BY <1>16, <2>1, <5>1, <5>3, <6>1, LeadsWithout DEF Live
        <5>5. CASE s \notin mem[p].attempted
          <6>1. ~Live(job[p], s)
            BY <1>16, <2>1, <5>5 DEF Live, LiveIn
          <6> QED BY <2>1, <5>1, <5>3, <6>1, LeadsMore DEF Live
        <5> QED BY <5>4, <5>5
      <4> QED BY <3>1, <4>1, <4>2
    <3> QED BY <1>3, <1>16, <2>1, <3>1, <3>2, <3>3
  <2> QED BY <2>3, <2>4
<1> QED
  BY <1>5, <1>6, <1>7, <1>9, <1>11, <1>12, <1>13, <1>14, <1>15, <1>17, <1>18 DEF Step

(* Once every transaction is resolved and no user has edited a file, what a *)
(* COMMITTED transaction wrote is still there or was replaced by a chain of *)
(* later commits, whatever was rolled back, how often and how late.         *)
THEOREM CommittedSurviveHolds == LostOnly /\ DistinctGenerations => (Spec => []CommittedSurvive)
<1> SUFFICES ASSUME LostOnly, DistinctGenerations PROVE Spec => []CommittedSurvive
    OBVIOUS
<1>1. Init => RInv /\ SInv
  BY DEF Init, RInv, RollbackOpen, Planned, Ours, NoManifest, Forward, SInv, Chained, Written
<1>2. TypeOK /\ Busy /\ IInv /\ RInv /\ SInv /\ [Next]_vars => RInv' /\ SInv'
  BY RefinementInvariantStep, SurvivalStep
<1>3. TypeOK /\ SInv => CommittedSurvive
  <2> SUFFICES ASSUME SInv, edits = 0, \A a \in Auth : Resolved(a),
                      NEW a \in Auth, journal[a].state = "COMMITTED", NEW r \in Targets(a)
               PROVE  Reachable(r, Plan[a].after[r], disk[r])
    BY DEF CommittedSurvive
  <2>1. Leads(r, Plan[a].after[r], disk[r])
    BY DEF SInv, Chained
  <2>2. \A b \in Auth : Live(b, r) => <<Plan[b].before[r], Plan[b].after[r]>> \in Edges(r)
    BY DEF Live, LiveIn, Resolved, Edges
  <2> QED BY <2>1, <2>2 DEF Leads, Reachable
<1> QED BY <1>1, <1>2, <1>3, Invariance, PTL DEF Spec
=============================================================================
