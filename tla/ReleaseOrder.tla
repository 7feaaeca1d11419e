---------------------------- MODULE ReleaseOrder ----------------------------
(***************************************************************************)
(* The aggregate release lineage (workflow/release_order.py, driven by      *)
(* "meta-flow package release-advance" in package_cli.py).  A release goes  *)
(* through nine actions in one order.  Each is planned on the state on      *)
(* disk, authorised, and written without any lock: PREPARED to the ledger,  *)
(* the new state to the projection, COMMITTED to the ledger.  What was      *)
(* interrupted is finished by recover, which marks it RECOVERED.            *)
(*                                                                         *)
(* A state is the sequence of the events that led to it: its digest covers  *)
(* its predecessor's.  The operator reads the files he plans with honestly; *)
(* the digests he writes down are compared with the files by commit only.   *)
(***************************************************************************)
EXTENDS Integers, Sequences, Functions

CONSTANTS
  Proc,
  Event,          \* the release events the operator may submit
  ActionOf,       \* event -> its action
  None,
  MaxTrouble      \* failed writes and deaths

Actions ==
  <<"candidate-ready", "freeze-source", "decide-version", "fingerprint",
    "qualify-provider-source", "build-artifacts", "pass-canary", "approve-cp8", "release">>

ASSUME EventAssumption == ActionOf \in [Event -> Range(Actions)] /\ None \notin Event
ASSUME TroubleAssumption == MaxTrouble \in Nat

VARIABLES
  ledger,      \* the records of the release ledger
  projection,  \* the state in the projection file; no file is the initial state
  approved,    \* the plans with an authorization; their files are kept
  pc,
  job,         \* the plan a command works on and the mark it will leave
  snap,        \* its snapshot: the ledger and the projection at planning
  mem,         \* the ledger it read to append to
  overlapped,  \* history: two commands have been writing at once; a bound: no command
               \* starts any more, since nothing is claimed after it
  trouble

vars == <<ledger, projection, approved, pc, job, snap, mem, overlapped, trouble>>

Marks == {"COMMITTED", "RECOVERED"}
NoJob == [ev |-> None, before |-> <<>>, mark |-> "COMMITTED"]
NoSnap == [ledger |-> <<>>, projection |-> <<>>]

-----------------------------------------------------------------------------
\* Mutant: the current state is not asked for.
CheckTransitionUnordered(state, e) == e \notin Range(state)

\* check_release_transition: a new event whose action is the next one.  The counters and
\* the consumed bootstrap key follow from it; the rest is about the event alone.
CheckTransition(state, e) ==
  /\ e \notin Range(state)
  /\ Len(state) < Len(Actions) /\ ActionOf[e] = Actions[Len(state) + 1]

\* FileReleaseWriter.inspect, inspect_release_journal.
StartsPrepared(led, e) ==
  \E i \in DOMAIN led : /\ led[i].ev = e /\ led[i].is = "PREPARED"
                        /\ \A j \in 1..(i-1) : led[j].ev # e
Has(led, e, is) == \E i \in DOMAIN led : led[i].ev = e /\ led[i].is = is
Partial(led, e) == Has(led, e, "PREPARED") /\ \A m \in Marks : ~Has(led, e, m)
JournalStatus(led) == IF \E e \in Event : Partial(led, e) THEN "partial" ELSE "clean"

\* The commands between their last look at the files and their last write.
Writing(pcs) == {p \in Proc : pcs[p] \in {"read", "prepare", "project", "reread", "mark"}}

Goto(p, label) ==
  /\ pc' = [pc EXCEPT ![p] = label]
  /\ overlapped' = (overlapped \/ \E q \in Writing(pc') \ {p} : p \in Writing(pc'))
End(p) ==
  /\ Goto(p, "idle")
  /\ job' = [job EXCEPT ![p] = NoJob]
  /\ snap' = [snap EXCEPT ![p] = NoSnap]
  /\ mem' = [mem EXCEPT ![p] = <<>>]
GoOn(p, label) == Goto(p, label) /\ UNCHANGED <<job, snap, mem>>

\* atomic_replace_bytes: replaced or not; it may also raise after the rename.
Write(p, file, value, label) ==
  \E o \in {"ok"} \union (IF trouble < MaxTrouble THEN {"lost", "landed"} ELSE {}) :
    /\ file' = IF o = "lost" THEN file ELSE value
    /\ IF o = "ok" /\ label # "idle" THEN GoOn(p, label) ELSE End(p)
    /\ trouble' = IF o = "ok" THEN trouble ELSE trouble + 1

Init ==
  /\ ledger = <<>> /\ projection = <<>> /\ approved = {}
  /\ pc = [p \in Proc |-> "idle"] /\ job = [p \in Proc |-> NoJob]
  /\ snap = [p \in Proc |-> NoSnap] /\ mem = [p \in Proc |-> <<>>]
  /\ overlapped = FALSE /\ trouble = 0

-----------------------------------------------------------------------------
(* plan_release_advance, on the state of the projection and a snapshot of   *)
(* both files whose journal is clean; then the authorization for it.        *)
Plan(p, e) ==
  /\ pc[p] = "idle" /\ ~overlapped
  /\ CheckTransition(projection, e) /\ JournalStatus(ledger) = "clean"
  /\ approved' = approved \union {[ev |-> e, before |-> projection]}
  /\ job' = [job EXCEPT ![p] = [ev |-> e, before |-> projection, mark |-> "COMMITTED"]]
  /\ snap' = [snap EXCEPT ![p] = [ledger |-> ledger, projection |-> projection]]
  /\ Goto(p, "commit")
  /\ UNCHANGED <<ledger, projection, mem, trouble>>

\* Mutant: only the projection is compared with the snapshot.
CommitLedgerUnseen(p) ==
  /\ pc[p] = "commit"
  /\ IF snap[p].projection = projection THEN GoOn(p, "read") ELSE End(p)
  /\ UNCHANGED <<ledger, projection, approved, trouble>>

\* FileReleaseWriter.commit: both files are as in the snapshot, or nothing is written.
Commit(p) ==
  /\ pc[p] = "commit"
  /\ IF snap[p] = [ledger |-> ledger, projection |-> projection]
     THEN GoOn(p, "read") ELSE End(p)
  /\ UNCHANGED <<ledger, projection, approved, trouble>>

\* _append reads the ledger and replaces it.
ReadLedger(p) ==
  /\ pc[p] \in {"read", "reread"}
  /\ mem' = [mem EXCEPT ![p] = ledger]
  /\ Goto(p, IF pc[p] = "read" THEN "prepare" ELSE "mark")
  /\ UNCHANGED <<ledger, projection, approved, job, snap, trouble>>

AppendPrepared(p) ==
  /\ pc[p] = "prepare"
  /\ Write(p, ledger,
           Append(mem[p], [is |-> "PREPARED", ev |-> job[p].ev, before |-> job[p].before]),
           "project")
  /\ UNCHANGED <<projection, approved>>

\* _advance_state, the state after the event, to the projection.
WriteProjection(p) ==
  /\ pc[p] = "project"
  /\ Write(p, projection, Append(job[p].before, job[p].ev), "reread")
  /\ UNCHANGED <<ledger, approved>>

AppendMark(p) ==
  /\ pc[p] = "mark"
  /\ Write(p, ledger,
           Append(mem[p], [is |-> job[p].mark, ev |-> job[p].ev, before |-> job[p].before]),
           "idle")
  /\ UNCHANGED <<projection, approved>>

-----------------------------------------------------------------------------
(* recover_release_transition with the files of an approved plan and a      *)
(* fresh snapshot that says "partial"; the snapshot's digests of the two     *)
(* files are not compared with anything.                                    *)
PlanRecovery(p, plan) ==
  /\ pc[p] = "idle" /\ ~overlapped /\ plan \in approved
  /\ JournalStatus(ledger) = "partial"
  /\ job' = [job EXCEPT ![p] = [ev |-> plan.ev, before |-> plan.before, mark |-> "RECOVERED"]]
  /\ Goto(p, "inspect")
  /\ UNCHANGED <<ledger, projection, approved, snap, mem, trouble>>

\* Mutant: only an untouched projection is recovered.
InspectUntouched(p) ==
  /\ pc[p] = "inspect"
  /\ IF Partial(ledger, job[p].ev) /\ projection = job[p].before
     THEN GoOn(p, "project") ELSE End(p)
  /\ UNCHANGED <<ledger, projection, approved, trouble>>

\* FileReleaseWriter.recover: the event is prepared and has no other mark.
Inspect(p) ==
  /\ pc[p] = "inspect"
  /\ IF Partial(ledger, job[p].ev) /\ StartsPrepared(ledger, job[p].ev)
     THEN GoOn(p, "project") ELSE End(p)
  /\ UNCHANGED <<ledger, projection, approved, trouble>>

Crash(p) ==
  /\ pc[p] # "idle" /\ trouble < MaxTrouble
  /\ trouble' = trouble + 1
  /\ End(p)
  /\ UNCHANGED <<ledger, projection, approved>>

Step(p) ==
  \/ Commit(p) \/ ReadLedger(p) \/ AppendPrepared(p) \/ WriteProjection(p) \/ AppendMark(p)
  \/ Inspect(p)

Next ==
  \/ \E p \in Proc, e \in Event : Plan(p, e)
  \/ \E p \in Proc, plan \in approved : PlanRecovery(p, plan)
  \/ \E p \in Proc : Step(p) \/ Crash(p)

Spec == Init /\ [][Next]_vars

(* A running command does not wait, and the operator repeats the recovery    *)
(* of every interrupted event.                                              *)
FairSpec ==
  /\ Spec
  /\ \A p \in Proc : WF_vars(Step(p))
  /\ \A e \in Event :
       SF_vars(\E p \in Proc, plan \in approved :
                 plan.ev = e /\ Partial(ledger, e) /\ PlanRecovery(p, plan))

-----------------------------------------------------------------------------
States ==
  {s \in Seq(Event) : Len(s) <= Len(Actions) /\ \A i \in DOMAIN s : ActionOf[s[i]] = Actions[i]}
Record == [is : {"PREPARED"} \union Marks, ev : Event, before : States]
Labels == {"idle", "commit", "read", "prepare", "project", "reread", "mark", "inspect"}

TypeOK ==
  /\ ledger \in Seq(Record) /\ projection \in States
  /\ approved \in SUBSET [ev : Event, before : States]
  /\ pc \in [Proc -> Labels]
  /\ job \in [Proc -> [ev : Event \union {None}, before : States, mark : Marks]]
  /\ snap \in [Proc -> [ledger : Seq(Record), projection : States]] /\ mem \in [Proc -> Seq(Record)]
  /\ \A p \in Proc : (pc[p] = "idle") <=> (job[p].ev = None)
  /\ overlapped \in BOOLEAN /\ trouble \in 0..MaxTrouble

\* The state that the first n records lead to: that after the last event prepared.
Entered(n) == {i \in 1..n : ledger[i].is = "PREPARED"}
Reached(n) ==
  IF Entered(n) = {} THEN <<>>
  ELSE LET last == CHOOSE i \in Entered(n) : \A j \in Entered(n) : j <= i
       IN Append(ledger[last].before, ledger[last].ev)

(* One lineage.  Every event on record was prepared on the state that the    *)
(* events before it led to, all of them finished; the projection is the     *)
(* state they all lead to, or one event behind while that is half done.  It *)
(* needs commands that do not write at the same time: there is no lock.     *)
OneLineage ==
  ~overlapped =>
    /\ \A i \in DOMAIN ledger :
         ledger[i].is = "PREPARED" =>
           /\ ledger[i].before = Reached(i - 1)
           /\ JournalStatus(SubSeq(ledger, 1, i - 1)) = "clean"
    /\ \/ projection = Reached(Len(ledger))
       \/ \E e \in Event : Partial(ledger, e) /\ Reached(Len(ledger)) = Append(projection, e)

(* An interrupted event is finished by repeating its recovery, wherever it   *)
(* was interrupted and although a recovery may be interrupted too.          *)
Finishes == \A e \in Event : Partial(ledger, e) ~> ~Partial(ledger, e) \/ overlapped
=============================================================================
