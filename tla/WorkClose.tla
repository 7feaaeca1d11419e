------------------------------ MODULE WorkClose ------------------------------
(***************************************************************************)
(* The Work-close transaction of meta_flow/work/lifecycle_transaction.py.  *)
(* A close takes two locks: the shared flock, which dies with its process, *)
(* and writer.lock, a file created exclusively.                            *)
(***************************************************************************)
EXTENDS SharedProjection

(* plan_work_close: the images are frozen with the generations they         *)
(* succeed.  A plan without targets writes nothing and is left out.         *)
PlanClose(p, c) ==
  /\ pc[p] = "idle"
  /\ ~Exists(c) /\ Readable(c)
  /\ LET m == PlanFor(c)
     IN /\ Targets(m) # {}
        /\ LineageDefined(m)
        /\ mem' = [mem EXCEPT ![p] = [m EXCEPT !.lineage = LineageFor(m)]]
  /\ job' = [job EXCEPT ![p] = c]
  /\ Goto(p, "planned")
  /\ UNCHANGED <<disk, locks, todo, failed, mine, env>>

\* apply_work_close up to the locks: BLOCKED when the id is used or a lock is taken.
LockClose(p) ==
  /\ pc[p] = "planned"
  /\ \/ /\ ~Exists(job[p]) /\ flock = None /\ wlock = None
        /\ flock' = p /\ wlock' = job[p]
        /\ Goto(p, "build")
        /\ UNCHANGED <<job, mem, todo, failed, mine>>
     \/ /\ Exists(job[p]) \/ flock # None \/ wlock # None
        /\ Return(p)
  /\ UNCHANGED <<disk, env>>

\* build_work_close_manifest: refused when the lineage changed after planning.
BuildManifest(p) ==
  /\ pc[p] = "build"
  /\ \/ /\ LineageDefined(mem[p]) /\ LineageFor(mem[p]) = mem[p].lineage
        /\ Goto(p, "attach")
        /\ UNCHANGED <<locks, job, mem, todo, failed, mine>>
     \/ /\ ~(LineageDefined(mem[p]) /\ LineageFor(mem[p]) = mem[p].lineage)
        /\ Return(p)
  /\ UNCHANGED <<disk, env>>

(* attach_before_bytes, in target order: at the first file that is not at   *)
(* its preimage it raises, inside the try block, with the before bytes of   *)
(* that file and the later ones not attached.                               *)
AttachBytes(p) ==
  /\ pc[p] = "attach"
  /\ LET targets == Targets(mem[p])
         drifted == {r \in targets : file[r] # mem[p].before[r]}
     IN /\ mem' = [mem EXCEPT ![p].kept = {r \in targets : \A s \in drifted : r < s}]
        /\ todo' = [todo EXCEPT ![p] = targets]
        /\ Goto(p, IF drifted = {} THEN "prepare" ELSE "rollback")
  /\ UNCHANGED <<disk, locks, job, failed, mine, env>>

WritePrepared(p) ==
  /\ pc[p] = "prepare"
  /\ Persist(p, mem[p], "begin", "rollback")
  /\ UNCHANGED <<file, receipts, locks, job, todo, failed, mine, repairs, upset, crashes>>

WriteApplying(p) ==
  /\ pc[p] = "begin"
  /\ Persist(p, [mem[p] EXCEPT !.state = "APPLYING"], "next", "rollback")
  /\ UNCHANGED <<file, receipts, locks, job, todo, failed, mine, repairs, upset, crashes>>

\* The target is announced in attempted_refs before it is written.
AttemptTarget(p) ==
  /\ pc[p] = "next"
  /\ \E r \in Ref :
       /\ IsFirst(r, Targets(mem[p]) \ mem[p].attempted)
       /\ \/ /\ file[r] = mem[p].before[r]
             /\ Persist(p, [mem[p] EXCEPT !.attempted = @ \union {r}], "replace", "rollback")
          \/ /\ file[r] # mem[p].before[r]
             /\ Goto(p, "rollback")
             /\ UNCHANGED <<journal, mem, faults>>
  /\ UNCHANGED <<file, receipts, locks, job, todo, failed, mine, repairs, upset, crashes>>

(* _replace_bytes.  The applied_refs update that follows changes nothing    *)
(* anybody reads; if it fails, so might the manifest write after it.        *)
ReplaceTarget(p) ==
  /\ pc[p] = "replace"
  /\ \E r \in Ref, o \in Outcomes :
       /\ IsLast(r, mem[p].attempted)
       /\ file' = IF o = "lost" THEN file ELSE [file EXCEPT ![r] = mem[p].after[r]]
       /\ Goto(p, IF o = "ok" THEN "next" ELSE "rollback")
       /\ Count(o)
  /\ UNCHANGED <<journal, receipts, locks, job, mem, todo, failed, mine, repairs, upset, crashes>>

CommitClose(p) ==
  /\ pc[p] = "next"
  /\ mem[p].attempted = Targets(mem[p])
  /\ Persist(p, [mem[p] EXCEPT !.state = "COMMITTED"], "release", "rollback")
  /\ UNCHANGED <<file, receipts, locks, job, todo, failed, mine, repairs, upset, crashes>>

-----------------------------------------------------------------------------
\* Mutant: the rollback restores the announced targets from the first one on.
RollbackUnchecked(p) ==
  /\ pc[p] = "rollback"
  /\ \E r \in Ref :
       /\ IsLast(r, todo[p])
       /\ todo' = [todo EXCEPT ![p] = @ \ {r}]
       /\ file' = [file EXCEPT ![r] = mem[p].before[r]]
  /\ UNCHANGED <<journal, receipts, locks, pc, job, mem, failed, mine, repairs, upset, faults, crashes>>

\* What before_bytes_b64 decodes to: nothing, when it was never attached.
BeforeBytes(m, r) == IF r \in m.kept THEN m.before[r] ELSE Lost

(* One iteration of rollback_work_close_transaction, which visits every     *)
(* target, last to first: one that is in neither generation is a failure,   *)
(* one at its after image is overwritten with the before bytes.             *)
RollbackTarget(p) ==
  /\ pc[p] = "rollback"
  /\ \E r \in Ref :
       /\ IsLast(r, todo[p])
       /\ todo' = [todo EXCEPT ![p] = @ \ {r}]
       /\ \/ /\ file[r] \notin {mem[p].before[r], mem[p].after[r]}
             /\ failed' = [failed EXCEPT ![p] = TRUE]
             /\ UNCHANGED <<file, faults>>
          \/ /\ file[r] = mem[p].before[r]
             /\ UNCHANGED <<file, failed, faults>>
          \/ /\ file[r] = mem[p].after[r]
             /\ \E o \in Outcomes :
                  /\ file' = IF o = "lost" THEN file ELSE [file EXCEPT ![r] = BeforeBytes(mem[p], r)]
                  /\ failed' = [failed EXCEPT ![p] = @ \/ o = "lost"]
                  /\ Count(o)
  /\ UNCHANGED <<journal, receipts, locks, pc, job, mem, mine, repairs, upset, crashes>>

\* updated_at of the latest rollback, as an ordinal.
LastStamp(others) ==
  CHOOSE n \in {journal[t].stamp : t \in others} \union {0} : \A t \in others : journal[t].stamp <= n

FinishRollback(p) ==
  /\ pc[p] = "rollback"
  /\ todo[p] = {}
  /\ Persist(p, IF failed[p] THEN [mem[p] EXCEPT !.state = "PARTIAL"]
                ELSE [mem[p] EXCEPT !.state = "RECOVERED", !.stamp = LastStamp(CloseId \ {job[p]}) + 1],
             "release", "release")
  /\ UNCHANGED <<file, receipts, locks, job, todo, failed, mine, repairs, upset, crashes>>

-----------------------------------------------------------------------------
(* recover_work_close_transaction reads the manifest before it has a lock:  *)
(* an invalid one raises, a finished one is NO_CHANGE.                      *)
ReadForRecovery(p, c) ==
  /\ pc[p] = "idle"
  /\ Exists(c) /\ Valid(journal[c]) /\ journal[c].state \notin Terminal
  /\ job' = [job EXCEPT ![p] = c]
  /\ mem' = [mem EXCEPT ![p] = journal[c]]
  /\ todo' = [todo EXCEPT ![p] = Targets(journal[c])]
  /\ Goto(p, "recover")
  /\ UNCHANGED <<disk, locks, failed, mine, env>>

\* Mutant: recover does without writer.lock and does not wait for the flock.
LockForRecoveryNever(p) ==
  /\ pc[p] = "recover"
  /\ Return(p)
  /\ UNCHANGED <<disk, env>>

\* Mutant: the recovering process writes its own name into writer.lock.
LockForRecoveryByProcess(p) ==
  /\ pc[p] = "recover"
  /\ flock = None /\ wlock = None
  /\ flock' = p /\ wlock' = p
  /\ Goto(p, "rollback")
  /\ UNCHANGED <<disk, job, mem, todo, failed, mine, env>>

(* It then takes both locks, writer.lock by creating it, and rolls back     *)
(* what it read.                                                            *)
LockForRecovery(p) ==
  /\ pc[p] = "recover"
  /\ \/ /\ flock = None /\ wlock = None
        /\ flock' = p /\ wlock' = job[p]
        /\ Goto(p, "rollback")
        /\ upset' = (upset \/ journal[job[p]].state \in Terminal)
        /\ UNCHANGED <<job, mem, todo, failed, mine>>
     \/ /\ flock # None \/ wlock # None
        /\ Return(p)
        /\ UNCHANGED upset
  /\ UNCHANGED <<disk, repairs, faults, crashes>>

CloseStep(p) ==
  \/ LockClose(p) \/ BuildManifest(p) \/ AttachBytes(p)
  \/ WritePrepared(p) \/ WriteApplying(p)
  \/ AttemptTarget(p) \/ ReplaceTarget(p) \/ CommitClose(p)
  \/ RollbackTarget(p) \/ FinishRollback(p)
  \/ LockForRecovery(p)

CloseCommand(p, c) == PlanClose(p, c) \/ ReadForRecovery(p, c)
=============================================================================
