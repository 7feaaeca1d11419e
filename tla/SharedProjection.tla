--------------------------- MODULE SharedProjection ---------------------------
(***************************************************************************)
(* The files several commands write in turn (PROJECT.yaml, PHASE.yaml,     *)
(* WORK.yaml) and what ties their generations together:                    *)
(*   - every Work close leaves a manifest naming, per file, the close whose *)
(*     generation it replaced (semantics/generation_lineage.py);           *)
(*   - every other writer leaves a successor receipt, chained to the head   *)
(*     close or to the previous receipt (work/lifecycle_transaction.py);   *)
(*   - a file is current when it is at the end of its chain.               *)
(* All writers hold one flock.  This module has the state, the lineage and *)
(* the steps that the transactions of WorkClose and WorkInit share.        *)
(*                                                                         *)
(* A file is the set of facts written in it; a transaction adds some and   *)
(* removes others.  A digest identifies its content.                       *)
(***************************************************************************)
EXTENDS Integers, FiniteSets

CONSTANTS
  Proc,        \* command processes
  Ref,         \* shared files, numbered in the order transactions visit them
  Fact,        \* what a file may say
  CloseId,     \* Work-close authorizations
  InitId,      \* Work-init transactions
  AmendId,     \* scope-amend transactions
  Effect,      \* transaction -> file -> [add, del], for the files it writes
  WorkOf,      \* the Work of an init or amend transaction
  InitialFile, \* the files at first,
  FirstJournal, FirstReceipts, \* and the manifests and receipts that led to them
  Lost,        \* the bytes of a file overwritten with nothing
  None,
  CrashKinds,  \* how a process may die: "kill" and/or "interrupt"
  MaxFaults,   \* failed writes and crashes, together
  MaxRepairs

Tx == CloseId \union InitId \union AmendId
Image == (SUBSET Fact) \union {Lost}

\* A manifest path belongs to one kind of transaction; an effect concerns known files and facts.
ASSUME TxAssumption ==
  /\ CloseId \intersect (InitId \union AmendId) = {}
  /\ None \notin Tx /\ None \notin Proc
ASSUME EffectAssumption ==
  \A t \in Tx : /\ DOMAIN Effect[t] \subseteq Ref
                /\ \A r \in DOMAIN Effect[t] : Effect[t][r].add \subseteq Fact
ASSUME RefAssumption == Ref \subseteq Int \* files are visited in this order
ASSUME FirstFileAssumption == InitialFile \in [Ref -> SUBSET Fact]
ASSUME FiniteAssumption == IsFiniteSet(CloseId) /\ IsFiniteSet(FirstReceipts)

VARIABLES
  file,      \* the shared files
  journal,   \* transaction -> its manifest.json, or NoManifest
  receipts,  \* the successor receipts
  flock,     \* holder of the shared projection writer lock
  wlock,     \* work-close/writer.lock: the transaction named in it, or None
  pc, job,   \* what each process does next, and for which transaction
  mem,       \* the manifest each process holds in memory
  todo,      \* targets a rollback still has to visit
  failed,    \* whether it could not restore one of them
  mine,      \* the receipt a Work init knows it has written, if any
  repairs,   \* repairs made so far
  upset,     \* history: a recovery or repair acted on what it should have left alone
  faults, crashes

disk  == <<file, journal, receipts>>
locks == <<flock, wlock>>
local == <<pc, job, mem, todo, failed, mine>>
env   == <<repairs, upset, faults, crashes>>
vars  == <<disk, locks, local, env>>

States == {"PREPARED", "APPLYING", "COMMITTED", "RECOVERED", "PARTIAL"}
Terminal == {"COMMITTED", "RECOVERED"}

NoFiles == [r \in {} |-> {}]
NoManifest == [state |-> "NONE", before |-> NoFiles, after |-> NoFiles, kept |-> {},
               attempted |-> {}, lineage |-> NoFiles, stamp |-> 0]

Targets(m) == DOMAIN m.before
Exists(t) == journal[t] # NoManifest
Change(t, r, image) == (image \ Effect[t][r].del) \union Effect[t][r].add

-----------------------------------------------------------------------------
(* Work-close generations.  A manifest is valid when the before bytes it    *)
(* carries are those its digests name.                                      *)
Valid(m) == m.kept = Targets(m)

\* _load_terminal_manifests succeeds.
AllTerminal ==
  \A c \in CloseId : Exists(c) => Valid(journal[c]) /\ journal[c].state \in Terminal

CommittedFor(r) == {c \in CloseId : journal[c].state = "COMMITTED" /\ r \in Targets(journal[c])}
SuccessorsOf(r, c) ==
  {d \in CommittedFor(r) : r \in DOMAIN journal[d].lineage /\ journal[d].lineage[r] = c}
HeadsOf(r) == {c \in CommittedFor(r) : SuccessorsOf(r, c) = {}}

\* committed_generation_heads succeeds for refs.
HeadsDefined(refs) ==
  /\ \A c \in CloseId : \A r \in DOMAIN journal[c].lineage :
       journal[c].lineage[r] \in CommittedFor(r)
  /\ \A r \in refs : CommittedFor(r) # {} =>
       /\ Cardinality(HeadsOf(r)) = 1
       /\ \A c \in CommittedFor(r) : Cardinality(SuccessorsOf(r, c)) <= 1

Head(r) == CHOOSE c \in HeadsOf(r) : TRUE
HeadImage(r) == journal[Head(r)].after[r]

-----------------------------------------------------------------------------
(* Successor receipts of a file, anchored to close c.  A receipt names the  *)
(* one it follows, pred: a set with that receipt, or {} for the first.      *)
Links(r, c) == {q \in receipts : r \in DOMAIN q.at /\ q.at[r].anchor = c}
Ends(r, c) == {q \in Links(r, c) : \A s \in Links(r, c) : q \notin s.at[r].pred}

\* _shared_successor_head succeeds.
ChainDefined(r, c) ==
  /\ \A q \in Links(r, c) :
       /\ q.at[r].pred = {} => q.at[r].before = journal[c].after[r]
       /\ \A s \in q.at[r].pred : s \in Links(r, c) /\ s.at[r].after = q.at[r].before
  /\ \A q, s \in Links(r, c) : q.at[r].pred = s.at[r].pred => q = s
  /\ Links(r, c) # {} => Cardinality(Ends(r, c)) = 1

ChainEnd(r, c) == CHOOSE q \in Ends(r, c) : TRUE
ChainImage(r, c) == IF Links(r, c) = {} THEN journal[c].after[r] ELSE ChainEnd(r, c).at[r].after

Anchored(refs) == {r \in refs : CommittedFor(r) # {}}
ChainsDefined(refs) == HeadsDefined(refs) /\ \A r \in Anchored(refs) : ChainDefined(r, Head(r))
ExpectedImage(r) == ChainImage(r, Head(r))

(* lineage_for_targets: which close each file of a plan succeeds; the file  *)
(* must be at the end of its chain, or already be what the plan makes it.   *)
LineageDefined(m) ==
  /\ AllTerminal
  /\ ChainsDefined(Targets(m))
  /\ \A r \in Anchored(Targets(m)) : ExpectedImage(r) \in {m.before[r], m.after[r]}
LineageFor(m) == [r \in Anchored(Targets(m)) |-> Head(r)]

(* assert_work_close_shared_projection_lineage: every file some close wrote *)
(* is at the end of its chain, or, if no close of it committed, at what the *)
(* last recovered one restored.                                             *)
LineageCurrent ==
  LET refs == UNION {Targets(journal[c]) : c \in CloseId}
      Undone(r) == {c \in CloseId : r \in Targets(journal[c]) /\ journal[c].state = "RECOVERED"}
  IN /\ AllTerminal
     /\ ChainsDefined(refs)
     /\ \A r \in refs :
          IF CommittedFor(r) # {} THEN file[r] = ExpectedImage(r)
          ELSE \A c \in Undone(r) :
                 (\A d \in Undone(r) : journal[d].stamp <= journal[c].stamp)
                   => file[r] = journal[c].before[r]

(* What the writers leave behind them: a receipt hangs on a committed close *)
(* and follows one receipt at most, none follow each other in a circle, and *)
(* a repair takes a number that no receipt carries.                         *)
ReceiptsInOrder ==
  /\ \A q \in receipts : \A r \in DOMAIN q.at :
       /\ q.at[r].anchor \in CommittedFor(r)
       /\ q.at[r].pred \subseteq receipts /\ \A s, u \in q.at[r].pred : s = u
  /\ \A Q \in SUBSET receipts : Q # {} =>
       \E q \in Q : \A s \in Q : \A r \in DOMAIN s.at : q \notin s.at[r].pred
  /\ \A q \in receipts : q.op = "repair" /\ q.writer \in Nat => q.writer < repairs

\* The receipts of one writer.
ReceiptsOf(op, writer) == {q \in receipts : q.op = op /\ q.writer = writer}

(* plan_shared_projection_successor_preflight: anchor and predecessor of    *)
(* each file a writer is about to change.                                   *)
PreflightDefined(op, writer, before) ==
  /\ AllTerminal
  /\ (\E c \in CloseId : Exists(c)) =>
       /\ ReceiptsOf(op, writer) = {}
       /\ ChainsDefined(DOMAIN before)
       /\ \A r \in Anchored(DOMAIN before) : ExpectedImage(r) = before[r]

\* record_shared_projection_successor: the receipt for files changed since `before'.
ReceiptFor(op, writer, before) ==
  [op |-> op, writer |-> writer,
   at |-> [r \in {s \in Anchored(DOMAIN before) : file[s] # before[s]} |->
             [anchor |-> Head(r), pred |-> Ends(r, Head(r)),
              before |-> before[r], after |-> file[r]]]]

-----------------------------------------------------------------------------
(* Writes.  A write that fails raises without effect.                       *)
Outcomes == {"ok"} \union (IF faults + crashes < MaxFaults THEN {"lost"} ELSE {})
Count(o) == faults' = IF o = "ok" THEN faults ELSE faults + 1
Goto(p, label) == pc' = [pc EXCEPT ![p] = label]

\* write_json_atomic of the manifest of p's transaction.
Persist(p, m, good, bad) ==
  \E o \in Outcomes :
    /\ journal' = IF o = "lost" THEN journal ELSE [journal EXCEPT ![job[p]] = m]
    /\ Goto(p, IF o = "ok" THEN good ELSE bad)
    /\ mem' = [mem EXCEPT ![p] = m]
    /\ Count(o)

\* The process returns; both locks are released if it holds them.
Return(p) ==
  /\ flock' = IF flock = p THEN None ELSE flock
  /\ wlock' = IF flock = p /\ wlock = job[p] THEN None ELSE wlock
  /\ Goto(p, "idle")
  /\ job' = [job EXCEPT ![p] = None]
  /\ mem' = [mem EXCEPT ![p] = NoManifest]
  /\ todo' = [todo EXCEPT ![p] = {}]
  /\ failed' = [failed EXCEPT ![p] = FALSE]
  /\ mine' = [mine EXCEPT ![p] = {}]

\* The finally clauses: the locks are released, last taken first.
Release(p) ==
  /\ pc[p] = "release"
  /\ Return(p)
  /\ UNCHANGED <<disk, env>>

(* The history the commands start from is one that the writers can have     *)
(* left: its generations form chains.                                       *)
Init ==
  /\ file = InitialFile
  /\ journal = FirstJournal
  /\ receipts = FirstReceipts
  /\ flock = None /\ wlock = None
  /\ pc = [p \in Proc |-> "idle"] /\ job = [p \in Proc |-> None]
  /\ mem = [p \in Proc |-> NoManifest]
  /\ todo = [p \in Proc |-> {}] /\ failed = [p \in Proc |-> FALSE]
  /\ mine = [p \in Proc |-> {}]
  /\ repairs = 0 /\ upset = FALSE /\ faults = 0 /\ crashes = 0
  /\ ChainsDefined(Ref) /\ ReceiptsInOrder

\* load_project and load_work refuse bytes that hold no object.
Readable(t) == \A r \in DOMAIN Effect[t] : file[r] # Lost

\* The files and images a plan made now would have.
PlanFor(t) ==
  LET targets == {r \in DOMAIN Effect[t] : file[r] # Change(t, r, file[r])}
  IN [NoManifest EXCEPT !.state = "PREPARED",
        !.before = [r \in targets |-> file[r]],
        !.after = [r \in targets |-> Change(t, r, file[r])]]

\* The next target in order, forwards and backwards.
IsFirst(r, refs) == r \in refs /\ \A s \in refs : r <= s
IsLast(r, refs) == r \in refs /\ \A s \in refs : s <= r

-----------------------------------------------------------------------------
(* A process is interrupted, and its finally clause runs, or it is killed:  *)
(* the flock goes with it, writer.lock stays.  While a close builds its     *)
(* manifest (pc "build") an interrupt is no better: only an Exception       *)
(* releases the locks there.                                                *)
Crash(p) ==
  /\ pc[p] # "idle"
  /\ faults + crashes < MaxFaults
  /\ crashes' = crashes + 1
  /\ \E kind \in CrashKinds :
       \/ kind = "interrupt" /\ pc[p] # "build" /\ Return(p) /\ UNCHANGED <<disk, repairs, upset, faults>>
       \/ /\ kind = "kill" \/ pc[p] = "build"
          /\ flock' = IF flock = p THEN None ELSE flock
          /\ Goto(p, "idle")
          /\ job' = [job EXCEPT ![p] = None]
          /\ mem' = [mem EXCEPT ![p] = NoManifest]
          /\ todo' = [todo EXCEPT ![p] = {}]
          /\ failed' = [failed EXCEPT ![p] = FALSE]
          /\ mine' = [mine EXCEPT ![p] = {}]
          /\ UNCHANGED <<disk, wlock, repairs, upset, faults>>

(* apply_shared_projection_repair: under the flock, a receipt is appended   *)
(* for every file that is not at the end of its chain; no file changes.     *)
(* Unresolved Work inits and amendments are not looked at.                  *)
RepairRefs == {r \in Anchored(UNION {Targets(journal[c]) : c \in CloseId}) : file[r] # ExpectedImage(r)}

Repair(p) ==
  /\ pc[p] = "idle" /\ flock = None
  /\ repairs < MaxRepairs
  /\ AllTerminal
  /\ ChainsDefined(UNION {Targets(journal[c]) : c \in CloseId})
  /\ RepairRefs # {}
  /\ repairs' = repairs + 1
  /\ receipts' = receipts \union
       {ReceiptFor("repair", repairs, [r \in RepairRefs |-> ExpectedImage(r)])}
  /\ upset' = (upset \/ \E t \in InitId \union AmendId :
                          /\ Exists(t) /\ journal[t].state \notin Terminal
                          /\ Targets(journal[t]) \intersect RepairRefs # {})
  /\ UNCHANGED <<file, journal, locks, local, faults, crashes>>
=============================================================================
