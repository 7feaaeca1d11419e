------------------------------- MODULE WorkInit -------------------------------
(***************************************************************************)
(* Work init (meta_flow/work/store.py) and scope amendment                 *)
(* (meta_flow/work/scope_amend.py), both on the transaction of             *)
(* meta_flow/work/init_transaction.py.  An init registers its successor    *)
(* receipt before it commits and takes it back when it fails; an amendment *)
(* registers it after its commit and never takes it back.                  *)
(***************************************************************************)
EXTENDS SharedProjection

Operation(t) == IF t \in InitId THEN "init" ELSE "amend"
Writer(t) == IF t \in InitId THEN WorkOf[t] ELSE t

\* The anchor and predecessor plan_shared_projection_successor_preflight returns.
Preflight(before) ==
  [r \in Anchored(DOMAIN before) |-> <<Head(r), Ends(r, Head(r))>>]

(* plan_work_init and plan_scope_amend_from_release_root: the images, and   *)
(* for an init the place of its receipt.                                    *)
PlanInit(p, t) ==
  /\ pc[p] = "idle"
  /\ ~Exists(t) /\ Readable(t)
  /\ LET m == PlanFor(t)
     IN /\ Targets(m) # {}
        /\ LineageCurrent
        /\ t \in InitId => PreflightDefined("init", Writer(t), m.before)
        /\ mem' = [mem EXCEPT ![p] =
                     [m EXCEPT !.lineage = IF t \in InitId THEN Preflight(m.before) ELSE NoFiles]]
  /\ job' = [job EXCEPT ![p] = t]
  /\ Goto(p, "init")
  /\ UNCHANGED <<disk, locks, todo, failed, mine, env>>

LockInit(p) ==
  /\ pc[p] = "init"
  /\ \/ flock = None /\ flock' = p /\ Goto(p, "admit")
        /\ UNCHANGED <<wlock, job, mem, todo, failed, mine>>
     \/ flock # None /\ Return(p)
  /\ UNCHANGED <<disk, env>>

(* Under the lock the lineage is asserted again and every file must still   *)
(* be at its planned preimage; an id whose manifest exists is refused.      *)
AdmitInit(p) ==
  /\ pc[p] = "admit"
  /\ LET admitted == /\ LineageCurrent
                     /\ \A r \in Targets(mem[p]) : file[r] = mem[p].before[r]
                     /\ ~Exists(job[p])
     IN \/ /\ admitted
           /\ Goto(p, "open")
           /\ UNCHANGED <<locks, job, mem, todo, failed, mine>>
        \/ ~admitted /\ Return(p)
  /\ UNCHANGED <<disk, env>>

\* begin_work_init_transaction.  Before it returns there is nothing to roll back.
OpenInit(p) ==
  /\ pc[p] = "open"
  /\ Persist(p, [mem[p] EXCEPT !.kept = Targets(mem[p])], "start", "release")
  /\ todo' = [todo EXCEPT ![p] = Targets(mem[p])]
  /\ UNCHANGED <<file, receipts, locks, job, failed, mine, repairs, upset, crashes>>

StartInit(p) ==
  /\ pc[p] = "start"
  /\ Persist(p, [journal[job[p]] EXCEPT !.state = "APPLYING"], "change", "undo")
  /\ UNCHANGED <<file, receipts, locks, job, todo, failed, mine, repairs, upset, crashes>>

\* apply_work_init_transaction_targets, up to the announcement of one target.
AttemptChange(p) ==
  /\ pc[p] = "change"
  /\ LET m == journal[job[p]]
     IN \E r \in Ref :
          /\ IsFirst(r, Targets(m) \ m.attempted)
          /\ \/ /\ file[r] = m.before[r]
                /\ Persist(p, [m EXCEPT !.attempted = @ \union {r}], "write", "undo")
             \/ /\ file[r] # m.before[r]
                /\ Goto(p, "undo")
                /\ UNCHANGED <<journal, mem, faults>>
  /\ UNCHANGED <<file, receipts, locks, job, todo, failed, mine, repairs, upset, crashes>>

WriteChange(p) ==
  /\ pc[p] = "write"
  /\ LET m == journal[job[p]]
     IN \E r \in Ref, o \in Outcomes :
          /\ IsLast(r, m.attempted)
          /\ file' = IF o = "lost" THEN file ELSE [file EXCEPT ![r] = m.after[r]]
          /\ Goto(p, IF o = "lost" THEN "undo"
                     ELSE IF m.attempted # Targets(m) THEN "change"
                     ELSE IF job[p] \in InitId THEN "record" ELSE "refresh")
          /\ Count(o)
  /\ UNCHANGED <<journal, receipts, locks, job, mem, todo, failed, mine, repairs, upset, crashes>>

\* Mutant: the receipt of an init hangs on the close, not on the last receipt.
RecordInitUnchained(p) ==
  /\ pc[p] \in {"record", "register"}
  /\ LET q == ReceiptFor(Operation(job[p]), Writer(job[p]), mem[p].before)
         loose == [q EXCEPT !.at = [r \in DOMAIN q.at |-> [q.at[r] EXCEPT !.pred = {}]]]
     IN receipts' = receipts \union {loose}
  /\ Goto(p, IF pc[p] = "record" THEN "refresh" ELSE "release")
  /\ UNCHANGED <<file, journal, locks, job, mem, todo, failed, mine, env>>

(* record_shared_projection_successor.  Without a Work close there is no    *)
(* lineage to continue.  An init (record) that cannot register fails; an    *)
(* amendment (register), already committed, reports PARTIAL.                *)
RecordInit(p) ==
  /\ pc[p] \in {"record", "register"}
  /\ LET t == job[p]
         good == IF pc[p] = "record" THEN "refresh" ELSE "release"
         bad  == IF pc[p] = "record" THEN "undo" ELSE "release"
         preflight == /\ PreflightDefined(Operation(t), Writer(t), mem[p].before)
                      /\ pc[p] = "record" => Preflight(mem[p].before) = mem[p].lineage
         q == ReceiptFor(Operation(t), Writer(t), mem[p].before)
     IN \/ /\ preflight /\ DOMAIN q.at = {}
           /\ Goto(p, good)
           /\ UNCHANGED <<receipts, mine, faults>>
        \/ /\ preflight /\ DOMAIN q.at # {}
           /\ \E o \in Outcomes :
                /\ receipts' = IF o = "lost" THEN receipts ELSE receipts \union {q}
                /\ mine' = IF o = "ok" /\ t \in InitId THEN [mine EXCEPT ![p] = {q}] ELSE mine
                /\ Goto(p, IF o = "ok" THEN good ELSE bad)
                /\ Count(o)
        \/ /\ ~preflight
           /\ Goto(p, bad)
           /\ UNCHANGED <<receipts, mine, faults>>
  /\ UNCHANGED <<file, journal, locks, job, mem, todo, failed, repairs, upset, crashes>>

\* refresh_state_projection_if_initialized and the validation of the result, which may raise.
RefreshState(p) ==
  /\ pc[p] = "refresh"
  /\ \E o \in Outcomes :
       /\ Goto(p, IF o = "ok" THEN "commit" ELSE "undo")
       /\ Count(o)
  /\ UNCHANGED <<disk, locks, job, mem, todo, failed, mine, repairs, upset, crashes>>

CommitInit(p) ==
  /\ pc[p] = "commit"
  /\ Persist(p, [journal[job[p]] EXCEPT !.state = "COMMITTED"],
             IF job[p] \in InitId THEN "release" ELSE "register", "undo")
  /\ UNCHANGED <<file, receipts, locks, job, todo, failed, mine, repairs, upset, crashes>>

-----------------------------------------------------------------------------
\* Mutant: a failed init leaves its receipt where it is.
KeepReceipt(p) ==
  /\ pc[p] = "undo"
  /\ Goto(p, "restore")
  /\ UNCHANGED <<disk, locks, job, mem, todo, failed, mine, env>>

\* A failed init takes its receipt back first; if that raises it goes on all the same.
DiscardReceipt(p) ==
  /\ pc[p] = "undo"
  /\ \/ /\ mine[p] = {}
        /\ UNCHANGED <<receipts, upset, faults>>
     \/ /\ mine[p] # {}
        /\ \E o \in Outcomes :
             /\ receipts' = IF o = "lost" THEN receipts ELSE receipts \ mine[p]
             /\ upset' = (upset \/ o = "lost")
             /\ Count(o)
  /\ Goto(p, "restore")
  /\ UNCHANGED <<file, journal, locks, job, mem, todo, failed, mine, repairs, crashes>>

\* One iteration of rollback_work_init_transaction, last target first.
RestoreTarget(p) ==
  /\ pc[p] = "restore"
  /\ LET m == journal[job[p]]
     IN \E r \in Ref :
          /\ IsLast(r, todo[p])
          /\ todo' = [todo EXCEPT ![p] = @ \ {r}]
          /\ \/ /\ file[r] \notin {m.before[r], m.after[r]}
                /\ failed' = [failed EXCEPT ![p] = TRUE]
                /\ UNCHANGED <<file, faults>>
             \/ /\ file[r] = m.before[r]
                /\ UNCHANGED <<file, failed, faults>>
             \/ /\ file[r] = m.after[r]
                /\ \E o \in Outcomes :
                     /\ file' = IF o = "lost" THEN file ELSE [file EXCEPT ![r] = m.before[r]]
                     /\ failed' = [failed EXCEPT ![p] = @ \/ o = "lost"]
                     /\ Count(o)
  /\ UNCHANGED <<journal, receipts, locks, pc, job, mem, mine, repairs, upset, crashes>>

FinishRestore(p) ==
  /\ pc[p] = "restore"
  /\ todo[p] = {}
  /\ Persist(p, [journal[job[p]] EXCEPT !.state = IF failed[p] THEN "PARTIAL" ELSE "RECOVERED"],
             "release", "release")
  /\ UNCHANGED <<file, receipts, locks, job, todo, failed, mine, repairs, upset, crashes>>

-----------------------------------------------------------------------------
\* The receipts recover_partial_work_init_transaction removes.
RecoveryDiscards(t) == ReceiptsOf("init", WorkOf[t])

\* History: does it remove one that is in force, or that another hangs on?
Misplaced(t) ==
  \E q \in RecoveryDiscards(t) :
    \/ journal[t].state \in Terminal
    \/ t \in AmendId
    \/ \E s \in receipts : \E r \in DOMAIN s.at : q \in s.at[r].pred

(* recover_partial_work_init_transaction, under the flock: the receipt of   *)
(* the Work's init goes first; then the call is refused if the transaction  *)
(* is finished, or if a repository's HEAD has moved since it began, and     *)
(* otherwise rolls it back.                                                 *)
RecoverInit(p, t) ==
  /\ pc[p] = "idle"
  /\ flock = None
  /\ Exists(t)
  /\ receipts' = receipts \ RecoveryDiscards(t)
  /\ upset' = (upset \/ Misplaced(t))
  /\ \/ UNCHANGED <<flock, pc, job, mem, todo>>
     \/ /\ journal[t].state \notin Terminal
        /\ flock' = p
        /\ job' = [job EXCEPT ![p] = t]
        /\ mem' = [mem EXCEPT ![p] = journal[t]]
        /\ todo' = [todo EXCEPT ![p] = Targets(journal[t])]
        /\ Goto(p, "restore")
  /\ UNCHANGED <<file, journal, wlock, failed, mine, repairs, faults, crashes>>

InitStep(p) ==
  \/ LockInit(p) \/ AdmitInit(p) \/ OpenInit(p) \/ StartInit(p)
  \/ AttemptChange(p) \/ WriteChange(p)
  \/ RecordInit(p) \/ RefreshState(p) \/ CommitInit(p)
  \/ DiscardReceipt(p) \/ RestoreTarget(p) \/ FinishRestore(p)

InitCommand(p, t) == PlanInit(p, t) \/ RecoverInit(p, t)
=============================================================================
