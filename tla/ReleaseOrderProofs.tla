------------------------- MODULE ReleaseOrderProofs -------------------------
(***************************************************************************)
(* Type correctness of ReleaseOrder and its lineage, for any processes,    *)
(* events and troubles.                                                    *)
(*                                                                         *)
(* The argument: while no two commands have written at the same time the   *)
(* records lead to the state in the projection, or to the one after it      *)
(* while the last event is half done; a writer's own place in its writes    *)
(* says which.  A recovery works with a plan made earlier, maybe for        *)
(* another state: it is the right one because states only ever grow, and    *)
(* an event fits states of one length.                                     *)
(***************************************************************************)
EXTENDS ReleaseOrder, SequenceTheorems, WellFoundedInduction, TLAPS

Follows(s, e) == Len(s) < Len(Actions) /\ ActionOf[e] = Actions[Len(s) + 1]
Begins(s, t) == Len(s) <= Len(t) /\ \A i \in 1..Len(s) : s[i] = t[i]

\* Every plan, and every job, is for an event that follows its state.
Planned ==
  /\ \A plan \in approved : Follows(plan.before, plan.ev)
  /\ \A p \in Proc : pc[p] # "idle" => Follows(job[p].before, job[p].ev)

\* Only one command writes.
Alone == \A p, q \in Writing(pc) : p = q

Now == Reached(Len(ledger))

\* What the records say of the projection.
Recorded ==
  /\ \A i \in DOMAIN ledger :
       ledger[i].is = "PREPARED" =>
         /\ ledger[i].before = Reached(i - 1)
         /\ JournalStatus(SubSeq(ledger, 1, i - 1)) = "clean"
  /\ Now \in States
  /\ \A i \in DOMAIN ledger : ledger[i].ev \in Range(Now)
  /\ \A e \in Event : Partial(ledger, e) => Now # <<>> /\ Now[Len(Now)] = e
  /\ \/ projection = Now
     \/ \E e \in Event : Partial(ledger, e) /\ Now = Append(projection, e)

\* Plans were made on states that the projection has been through.
Grown ==
  /\ \A plan \in approved : Begins(plan.before, projection)
  /\ \A p \in Proc : pc[p] # "idle" => Begins(job[p].before, projection)

\* What a command knows of the files.
Knows(p) ==
  /\ pc[p] = "commit" => JournalStatus(snap[p].ledger) = "clean" /\ snap[p].projection = job[p].before
  /\ pc[p] \in {"read", "prepare"} => JournalStatus(ledger) = "clean" /\ projection = job[p].before
  /\ pc[p] \in {"project", "reread", "mark"} =>
       Partial(ledger, job[p].ev) /\ Now = Append(job[p].before, job[p].ev)
  /\ pc[p] \in {"reread", "mark"} => projection = Now
  /\ pc[p] \in {"prepare", "mark"} => mem[p] = ledger

TypeInv == TypeOK /\ Planned
LineInv == Alone /\ Recorded /\ Grown /\ \A p \in Proc : Knows(p)
Inv == TypeInv /\ (~overlapped => LineInv)
-----------------------------------------------------------------------------
(* States.                                                                  *)

\* No action comes twice.
LEMMA ActionsDistinct ==
  /\ Len(Actions) = 9
  /\ \A i, j \in 1..9 : Actions[i] = Actions[j] => i = j
<1>1. Len(Actions) = 9
  BY DEF Actions
<1>2. ASSUME NEW i \in 1..9, NEW j \in 1..9, i < j  PROVE Actions[i] # Actions[j]
  BY <1>2 DEF Actions
<1> QED  BY <1>1, <1>2

LEMMA StateGrows ==
  ASSUME NEW s \in States, NEW e \in Event, Follows(s, e)
  PROVE  Append(s, e) \in States /\ e \notin Range(s)
<1>1. s \in Seq(Event) /\ Len(s) \in Nat /\ DOMAIN s = 1..Len(s)
  BY DEF States
<1>2. /\ Append(s, e) \in Seq(Event) /\ Len(Append(s, e)) = Len(s) + 1
      /\ DOMAIN Append(s, e) = 1..(Len(s) + 1)
      /\ \A i \in 1..Len(s) : Append(s, e)[i] = s[i]
      /\ Append(s, e)[Len(s) + 1] = e
  BY <1>1, AppendProperties
<1>3. \A i \in 1..(Len(s) + 1) : ActionOf[Append(s, e)[i]] = Actions[i]
  BY <1>1, <1>2 DEF States, Follows
<1>4. Len(s) + 1 <= Len(Actions)
  BY <1>1, ActionsDistinct DEF Follows
<1>5. ASSUME NEW i \in 1..Len(s), s[i] = e  PROVE FALSE
  <2>1. Actions[i] = Actions[Len(s) + 1]
    BY <1>1, <1>5 DEF States, Follows
  <2> QED  BY <1>1, <1>4, <2>1, ActionsDistinct
<1> QED  BY <1>1, <1>2, <1>3, <1>4, <1>5 DEF States, Range

LEMMA StateBefore ==
  ASSUME NEW s \in Seq(Event), NEW e \in Event, Append(s, e) \in States
  PROVE  s \in States /\ Follows(s, e)
<1>1. Len(s) \in Nat /\ DOMAIN s = 1..Len(s)
  OBVIOUS
<1>2. /\ Len(Append(s, e)) = Len(s) + 1 /\ DOMAIN Append(s, e) = 1..(Len(s) + 1)
      /\ \A i \in 1..Len(s) : Append(s, e)[i] = s[i]
      /\ Append(s, e)[Len(s) + 1] = e
  BY <1>1, AppendProperties
<1>3. /\ Len(s) + 1 <= Len(Actions)
      /\ \A i \in 1..(Len(s) + 1) : ActionOf[Append(s, e)[i]] = Actions[i]
  BY <1>2 DEF States
<1>4. Follows(s, e)
  <2>1. ActionOf[e] = Actions[Len(s) + 1]
    BY <1>1, <1>2, <1>3
  <2> QED  BY <1>1, <1>3, <2>1, ActionsDistinct DEF Follows
<1>5. s \in States
  <2>1. \A i \in 1..Len(s) : ActionOf[s[i]] = Actions[i]
    BY <1>1, <1>2, <1>3
  <2> QED  BY <1>1, <1>3, <2>1, ActionsDistinct DEF States
<1> QED  BY <1>4, <1>5

\* The states that an event follows have one length.
LEMMA FollowsOne ==
  ASSUME NEW s \in States, NEW t \in States, NEW e \in Event, Follows(s, e), Follows(t, e)
  PROVE  Len(s) = Len(t)
<1>1. Len(s) \in Nat /\ Len(t) \in Nat
  BY DEF States
<1>2. Len(s) + 1 \in 1..9 /\ Len(t) + 1 \in 1..9 /\ Actions[Len(s) + 1] = Actions[Len(t) + 1]
  BY <1>1, ActionsDistinct DEF Follows
<1>3. Len(s) + 1 = Len(t) + 1
  <2> HIDE DEF Actions
  <2> QED  BY <1>2, ActionsDistinct
<1> QED  BY <1>1, <1>3

LEMMA BeginsGrows ==
  ASSUME NEW s \in Seq(Event), NEW t \in Seq(Event), NEW e \in Event, Begins(s, t)
  PROVE  Begins(s, Append(t, e)) /\ (Len(s) = Len(t) => s = t)
<1>1. Begins(s, Append(t, e))
  <2>1. Len(Append(t, e)) = Len(t) + 1 /\ \A i \in 1..Len(t) : Append(t, e)[i] = t[i]
    BY AppendProperties
  <2> QED  BY <2>1 DEF Begins
<1>2. Len(s) = Len(t) => s = t
  BY SeqEqual DEF Begins
<1> QED  BY <1>1, <1>2

LEMMA BeginsBefore ==
  ASSUME NEW s \in Seq(Event), NEW t \in Seq(Event), NEW e \in Event,
         Begins(s, Append(t, e)), Len(s) = Len(t)
  PROVE  s = t
<1>1. \A i \in 1..Len(t) : Append(t, e)[i] = t[i]
  BY AppendProperties
<1> QED  BY <1>1, SeqEqual DEF Begins

-----------------------------------------------------------------------------
(* Type correctness.                                                        *)

LEMMA Empty == <<>> \in States /\ <<>> \in Seq(Record)
  BY EmptySeq, ActionsDistinct DEF States

LEMMA EndTyped ==
  ASSUME TypeInv, NEW p \in Proc, End(p), UNCHANGED approved
  PROVE  /\ pc' \in [Proc -> Labels]
         /\ job' \in [Proc -> [ev : Event \union {None}, before : States, mark : Marks]]
         /\ snap' \in [Proc -> [ledger : Seq(Record), projection : States]]
         /\ mem' \in [Proc -> Seq(Record)]
         /\ \A q \in Proc : (pc'[q] = "idle") <=> (job'[q].ev = None)
         /\ overlapped' \in BOOLEAN /\ Planned'
<1>1. /\ pc' = [pc EXCEPT ![p] = "idle"] /\ job' = [job EXCEPT ![p] = NoJob]
      /\ snap' = [snap EXCEPT ![p] = NoSnap] /\ mem' = [mem EXCEPT ![p] = <<>>]
  BY DEF End, Goto
<1>2. NoJob \in [ev : Event \union {None}, before : States, mark : Marks] /\ NoJob.ev = None
  BY Empty DEF NoJob, Marks
<1>3. NoSnap \in [ledger : Seq(Record), projection : States]
  BY Empty DEF NoSnap
<1>4. overlapped' \in BOOLEAN
  BY DEF End, Goto, TypeInv, TypeOK
<1>5. "idle" \in Labels
  BY DEF Labels
<1>6. /\ pc \in [Proc -> Labels] /\ mem \in [Proc -> Seq(Record)]
      /\ job \in [Proc -> [ev : Event \union {None}, before : States, mark : Marks]]
      /\ snap \in [Proc -> [ledger : Seq(Record), projection : States]]
  BY DEF TypeInv, TypeOK
<1>7. /\ pc' \in [Proc -> Labels] /\ mem' \in [Proc -> Seq(Record)]
      /\ job' \in [Proc -> [ev : Event \union {None}, before : States, mark : Marks]]
      /\ snap' \in [Proc -> [ledger : Seq(Record), projection : States]]
  BY <1>1, <1>2, <1>3, <1>5, <1>6, Empty
<1>8. \A q \in Proc : IF q = p THEN pc'[q] = "idle" /\ job'[q] = NoJob
                              ELSE pc'[q] = pc[q] /\ job'[q] = job[q]
  BY <1>1, <1>6
<1>9. Planned'
  BY <1>8 DEF TypeInv, Planned
<1>10. \A q \in Proc : (pc'[q] = "idle") <=> (job'[q].ev = None)
  BY <1>2, <1>8 DEF TypeInv, TypeOK
<1> QED  BY <1>4, <1>7, <1>9, <1>10

\* A busy command goes on to another label.
LEMMA GotoTyped ==
  ASSUME TypeInv, NEW p \in Proc, NEW l \in Labels \ {"idle"}, pc[p] # "idle", Goto(p, l),
         UNCHANGED <<approved, job>>
  PROVE  /\ pc' \in [Proc -> Labels] /\ overlapped' \in BOOLEAN /\ Planned'
         /\ \A q \in Proc : (pc'[q] = "idle") <=> (job'[q].ev = None)
  BY DEF TypeInv, TypeOK, Planned, Goto


\* A command may start and stop writing: all that changes is typed.
Tidy ==
  /\ pc \in [Proc -> Labels]
  /\ job \in [Proc -> [ev : Event \union {None}, before : States, mark : Marks]]
  /\ snap \in [Proc -> [ledger : Seq(Record), projection : States]]
  /\ mem \in [Proc -> Seq(Record)]
  /\ \A p \in Proc : (pc[p] = "idle") <=> (job[p].ev = None)
  /\ overlapped \in BOOLEAN /\ Planned

LEMMA TypeParts ==
  /\ TypeInv <=> /\ ledger \in Seq(Record) /\ projection \in States
                 /\ approved \in SUBSET [ev : Event, before : States]
                 /\ trouble \in 0..MaxTrouble /\ Tidy
  BY DEF TypeInv, TypeOK, Tidy

LEMMA TypePartsNext ==
  ASSUME ledger' \in Seq(Record), projection' \in States,
         approved' \in SUBSET [ev : Event, before : States], trouble' \in 0..MaxTrouble, Tidy'
  PROVE  TypeInv'
  BY DEF TypeInv, TypeOK, Tidy

LEMMA EndTidy ==
  ASSUME TypeInv, NEW p \in Proc, End(p), UNCHANGED approved
  PROVE  Tidy'
  BY EndTyped DEF Tidy

LEMMA GotoTidy ==
  ASSUME TypeInv, NEW p \in Proc, NEW l \in Labels \ {"idle"}, pc[p] # "idle", GoOn(p, l),
         UNCHANGED approved
  PROVE  Tidy'
<1>1. Goto(p, l) /\ job' = job /\ snap' = snap /\ mem' = mem
  BY DEF GoOn
<1>2. /\ pc' \in [Proc -> Labels] /\ overlapped' \in BOOLEAN /\ Planned'
      /\ \A q \in Proc : (pc'[q] = "idle") <=> (job'[q].ev = None)
  BY <1>1, GotoTyped
<1> QED  BY <1>1, <1>2, TypeParts DEF Tidy

\* A file is replaced, or the write of it fails.
LEMMA WriteTyped ==
  ASSUME TypeInv, NEW p \in Proc, pc[p] # "idle", NEW old, NEW new, NEW value, NEW l \in Labels,
         NEW o \in {"ok", "lost", "landed"}, o = "ok" \/ trouble < MaxTrouble,
         new = IF o = "lost" THEN old ELSE value,
         IF o = "ok" /\ l # "idle" THEN GoOn(p, l) ELSE End(p),
         trouble' = IF o = "ok" THEN trouble ELSE trouble + 1,
         UNCHANGED approved
  PROVE  new \in {old, value} /\ trouble' \in 0..MaxTrouble /\ Tidy'
<1>1. Tidy'
  BY EndTidy, GotoTidy
<1>2. trouble' \in 0..MaxTrouble
  BY TypeParts, TroubleAssumption
<1> QED  BY <1>1, <1>2

\* The event of a job follows its state, so the next state is one.
LEMMA JobFits ==
  ASSUME TypeInv, NEW p \in Proc, pc[p] # "idle"
  PROVE  /\ job[p].ev \in Event /\ job[p].before \in States /\ job[p].mark \in Marks
         /\ Append(job[p].before, job[p].ev) \in States
         /\ \A m \in {"PREPARED"} \union Marks :
              [is |-> m, ev |-> job[p].ev, before |-> job[p].before] \in Record
<1>1. job[p].ev \in Event /\ job[p].before \in States /\ job[p].mark \in Marks
  BY DEF TypeInv, TypeOK
<1>2. Follows(job[p].before, job[p].ev)
  BY DEF TypeInv, Planned
<1> QED  BY <1>1, <1>2, StateGrows DEF Record

LEMMA InitTyped == Init => TypeInv
<1> SUFFICES ASSUME Init PROVE TypeInv
  OBVIOUS
<1>1. /\ NoJob \in [ev : Event \union {None}, before : States, mark : Marks] /\ NoJob.ev = None
      /\ NoSnap \in [ledger : Seq(Record), projection : States]
  BY Empty DEF NoJob, NoSnap, Marks
<1>2. Planned
  BY DEF Init, Planned
<1>3. Tidy
  BY <1>1, <1>2, Empty DEF Init, Tidy, Labels
<1> QED  BY <1>3, Empty, TypeParts, TroubleAssumption DEF Init

\* Planning an event, or the recovery of one.
LEMMA PlanTyped ==
  ASSUME TypeInv, NEW p \in Proc,
         (\E e \in Event : Plan(p, e)) \/ (\E plan \in approved : PlanRecovery(p, plan))
  PROVE  TypeInv'
<1>1. CASE \E e \in Event : Plan(p, e)
  <2>1. PICK e \in Event : Plan(p, e)
    BY <1>1
  <2>2. Follows(projection, e)
    BY <2>1 DEF Plan, CheckTransition, Follows
  <2>3. PICK plan : plan = [ev |-> e, before |-> projection]
    OBVIOUS
  <2>4. plan \in [ev : Event, before : States] /\ Follows(plan.before, plan.ev)
    BY <2>2, <2>3, TypeParts
  <2>5. PICK j : j = [ev |-> e, before |-> projection, mark |-> "COMMITTED"]
    OBVIOUS
  <2>6. /\ j \in [ev : Event \union {None}, before : States, mark : Marks] /\ j.ev # None
        /\ Follows(j.before, j.ev)
    BY <2>2, <2>5, TypeParts, EventAssumption DEF Marks
  <2>7. /\ approved' = approved \union {plan} /\ job' = [job EXCEPT ![p] = j]
        /\ snap' = [snap EXCEPT ![p] = [ledger |-> ledger, projection |-> projection]]
        /\ pc' = [pc EXCEPT ![p] = "commit"] /\ overlapped' \in BOOLEAN
        /\ UNCHANGED <<ledger, projection, mem, trouble>>
    BY <2>1, <2>3, <2>5, TypeParts DEF Plan, Goto, Tidy
  <2>8. approved' \in SUBSET [ev : Event, before : States]
    BY <2>4, <2>7, TypeParts
  <2>9. Planned'
    BY <2>4, <2>6, <2>7, TypeParts DEF Planned, Tidy
  <2>10. Tidy'
    <3>1. [ledger |-> ledger, projection |-> projection] \in [ledger : Seq(Record), projection : States]
      BY TypeParts
    <3> QED  BY <2>6, <2>7, <2>9, <3>1, TypeParts DEF Tidy, Labels
  <2> QED  BY <2>7, <2>8, <2>10, TypeParts, TypePartsNext
<1>2. CASE \E plan \in approved : PlanRecovery(p, plan)
  <2>1. PICK plan \in approved : PlanRecovery(p, plan)
    BY <1>2
  <2>2. plan \in [ev : Event, before : States] /\ Follows(plan.before, plan.ev)
    BY TypeParts DEF Tidy, Planned
  <2>3. PICK j : j = [ev |-> plan.ev, before |-> plan.before, mark |-> "RECOVERED"]
    OBVIOUS
  <2>4. /\ j \in [ev : Event \union {None}, before : States, mark : Marks] /\ j.ev # None
        /\ Follows(j.before, j.ev)
    BY <2>2, <2>3, EventAssumption DEF Marks
  <2>5. /\ job' = [job EXCEPT ![p] = j] /\ pc' = [pc EXCEPT ![p] = "inspect"] /\ overlapped' \in BOOLEAN
        /\ UNCHANGED <<ledger, projection, approved, snap, mem, trouble>>
    BY <2>1, <2>3, TypeParts DEF PlanRecovery, Goto, Tidy
  <2>6. Planned'
    BY <2>4, <2>5, TypeParts DEF Planned, Tidy
  <2>7. Tidy'
    BY <2>4, <2>5, <2>6, TypeParts DEF Tidy, Labels
  <2> QED  BY <2>5, <2>7, TypeParts, TypePartsNext
<1> QED  BY <1>1, <1>2

LEMMA NextTyped == TypeInv /\ [Next]_vars => TypeInv'
<1> SUFFICES ASSUME TypeInv, [Next]_vars PROVE TypeInv'
  OBVIOUS
<1>1. CASE UNCHANGED vars
  BY <1>1 DEF vars, TypeInv, TypeOK, Planned
<1>2. ASSUME NEW p \in Proc, Commit(p) \/ Inspect(p)  PROVE TypeInv'
  <2>1. /\ pc[p] # "idle"
        /\ GoOn(p, "read") \/ GoOn(p, "project") \/ End(p)
        /\ UNCHANGED <<ledger, projection, approved, trouble>>
    BY <1>2 DEF Commit, Inspect
  <2>2. Tidy'
    BY <2>1, EndTidy, GotoTidy DEF Labels
  <2> QED  BY <2>1, <2>2, TypeParts, TypePartsNext
<1>3. ASSUME NEW p \in Proc, ReadLedger(p)  PROVE TypeInv'
  <2>1. /\ pc[p] # "idle" /\ mem' = [mem EXCEPT ![p] = ledger]
        /\ Goto(p, "prepare") \/ Goto(p, "mark")
        /\ UNCHANGED <<ledger, projection, approved, job, snap, trouble>>
    BY <1>3 DEF ReadLedger
  <2>2. /\ pc' \in [Proc -> Labels] /\ overlapped' \in BOOLEAN /\ Planned'
        /\ \A q \in Proc : (pc'[q] = "idle") <=> (job'[q].ev = None)
    BY <2>1, GotoTyped DEF Labels
  <2>3. Tidy'
    BY <2>1, <2>2, TypeParts DEF Tidy
  <2> QED  BY <2>1, <2>3, TypeParts, TypePartsNext
<1>4. ASSUME NEW p \in Proc, AppendPrepared(p) \/ AppendMark(p)  PROVE TypeInv'
  <2>1. PICK m \in {"PREPARED", job[p].mark}, l \in {"project", "idle"} :
          /\ pc[p] \in {"prepare", "mark"}
          /\ Write(p, ledger, Append(mem[p], [is |-> m, ev |-> job[p].ev, before |-> job[p].before]), l)
          /\ UNCHANGED <<projection, approved>>
    BY <1>4 DEF AppendPrepared, AppendMark
  <2>2. PICK r : r = [is |-> m, ev |-> job[p].ev, before |-> job[p].before]
    OBVIOUS
  <2>3. r \in Record
    BY <2>1, <2>2, JobFits
  <2>4. Append(mem[p], r) \in Seq(Record)
    BY <2>3, TypeParts, AppendProperties DEF Tidy
  <2>5. ledger' \in {ledger, Append(mem[p], r)} /\ trouble' \in 0..MaxTrouble /\ Tidy'
    BY <2>1, <2>2, WriteTyped DEF Write, Labels
  <2> QED  BY <2>1, <2>4, <2>5, TypeParts, TypePartsNext
<1>5. ASSUME NEW p \in Proc, WriteProjection(p)  PROVE TypeInv'
  <2>1. /\ pc[p] = "project"
        /\ Write(p, projection, Append(job[p].before, job[p].ev), "reread")
        /\ UNCHANGED <<ledger, approved>>
    BY <1>5 DEF WriteProjection
  <2>2. Append(job[p].before, job[p].ev) \in States
    BY <2>1, JobFits
  <2>3. /\ projection' \in {projection, Append(job[p].before, job[p].ev)}
        /\ trouble' \in 0..MaxTrouble /\ Tidy'
    BY <2>1, WriteTyped DEF Write, Labels
  <2> QED  BY <2>1, <2>2, <2>3, TypeParts, TypePartsNext
<1>6. ASSUME NEW p \in Proc, Crash(p)  PROVE TypeInv'
  <2>1. End(p) /\ trouble' = trouble + 1 /\ trouble < MaxTrouble
        /\ UNCHANGED <<ledger, projection, approved>>
    BY <1>6 DEF Crash
  <2>2. trouble' \in 0..MaxTrouble
    BY <2>1, TypeParts, TroubleAssumption
  <2> QED  BY <2>1, <2>2, EndTidy, TypeParts, TypePartsNext
<1> QED  BY <1>1, <1>2, <1>3, <1>4, <1>5, <1>6, PlanTyped DEF Next, Step

(* Type correctness: the ledger, the projection and every command's plan    *)
(* stay states of the release, each event at its place in the order.        *)
THEOREM TypeCorrect == Spec => []TypeOK
<1>1. TypeInv => TypeOK
  BY DEF TypeInv
<1> QED  BY <1>1, InitTyped, NextTyped, PTL DEF Spec
-----------------------------------------------------------------------------
(* The state that a part of the ledger leads to.                            *)

\* A nonempty set of numbers up to n has a greatest one.
LEMMA LastOne ==
  ASSUME NEW n \in Nat, NEW S \in SUBSET (1..n), S # {}
  PROVE  \E m \in S : \A s \in S : s <= m
<1> DEFINE U == {m \in Nat : \A s \in S : s <= m}
           R == OpToRel(<, Nat)
<1>1. U \in SUBSET Nat /\ n \in U
  OBVIOUS
<1>2. \A x, y \in Nat : y < x => <<y, x>> \in R
  BY DEF OpToRel
<1>3. IsWellFoundedOn(R, Nat)
  BY NatLessThanWellFounded
<1>4. PICK u \in U : \A y \in U : ~ (<<y, u>> \in R)
  <2> HIDE DEF U, R
  <2> QED  BY <1>1, <1>3, WFMin
<1>5. \A y \in U : ~ (y < u)
  <2>1. \A y \in U : y \in Nat
    BY <1>1
  <2> HIDE DEF U, R
  <2> QED  BY <1>2, <1>4, <2>1
<1>6. u \in Nat /\ \A s \in S : s <= u
  BY <1>4
<1>7. CASE u \in S
  BY <1>6, <1>7
<1>8. CASE u \notin S
  <2>1. \A s \in S : s <= u - 1
    BY <1>6, <1>8
  <2>2. PICK s \in S : s \in 1..n
    <3> HIDE DEF U, R
    <3> QED  OBVIOUS
  <2>3. u - 1 \in Nat
    BY <1>6, <2>1, <2>2
  <2>4. u - 1 \in U
    BY <2>1, <2>3
  <2> QED  BY <1>5, <1>6, <2>4
<1> QED  BY <1>7, <1>8

\* A record prepared is where the ledger leads; any other leaves the state as it was.
LEMMA ReachedStep ==
  /\ Reached(0) = <<>>
  /\ \A n \in Nat \ {0} :
       Reached(n) = IF ledger[n].is = "PREPARED" THEN Append(ledger[n].before, ledger[n].ev)
                    ELSE Reached(n - 1)
<1>1. Reached(0) = <<>>
  BY DEF Reached, Entered
<1>2. ASSUME NEW n \in Nat \ {0}, ledger[n].is = "PREPARED"
      PROVE  Reached(n) = Append(ledger[n].before, ledger[n].ev)
  <2>1. n \in Entered(n) /\ \A j \in Entered(n) : j <= n
    BY <1>2 DEF Entered
  <2>2. \A i \in Entered(n) : (\A j \in Entered(n) : j <= i) => i = n
    BY <2>1 DEF Entered
  <2>3. n = CHOOSE i \in Entered(n) : \A j \in Entered(n) : j <= i
    BY <2>1, <2>2
  <2> QED  BY <2>1, <2>3 DEF Reached
<1>3. ASSUME NEW n \in Nat \ {0}, ledger[n].is # "PREPARED"
      PROVE  Reached(n) = Reached(n - 1)
  <2>1. Entered(n) = Entered(n - 1)
    BY <1>3 DEF Entered
  <2> QED  BY <2>1 DEF Reached
<1> QED  BY <1>1, <1>2, <1>3

\* Records that stay lead to the same states.
LEMMA ReachedSame ==
  ASSUME NEW k \in Nat, \A i \in 1..k : ledger'[i] = ledger[i], NEW n \in 0..k
  PROVE  Reached(n)' = Reached(n)
<1>1. Entered(n)' = Entered(n)
  BY DEF Entered
<1>2. CASE Entered(n) = {}
  BY <1>1, <1>2 DEF Reached
<1>3. CASE Entered(n) # {}
  <2>1. Entered(n) \in SUBSET (1..n)
    BY DEF Entered
  <2>2. PICK i \in Entered(n) : i = CHOOSE j \in Entered(n) : \A s \in Entered(n) : s <= j
    <3>1. \E j \in Entered(n) : \A s \in Entered(n) : s <= j
      <4>1. n \in Nat
        OBVIOUS
      <4> QED  BY <1>3, <2>1, <4>1, LastOne
    <3> QED  BY <3>1
  <2>3. ledger'[i] = ledger[i]
    BY <2>1
  <2>4. Reached(n) = Append(ledger[i].before, ledger[i].ev)
    BY <1>3, <2>2 DEF Reached
  <2>5. Reached(n)' = Append(ledger'[i].before, ledger'[i].ev)
    BY <1>1, <1>3, <2>2 DEF Reached
  <2> QED  BY <2>3, <2>4, <2>5
<1> QED  BY <1>2, <1>3

\* Where the ledger leads is a state.
LEMMA NowIsState ==
  ASSUME TypeInv, Recorded
  PROVE  Now \in States /\ Now \in Seq(Event)
  BY DEF Recorded, States

LEMMA Clean ==
  ASSUME NEW led
  PROVE  JournalStatus(led) = "clean" <=> \A e \in Event : ~Partial(led, e)
  BY DEF JournalStatus

LEMMA CleanNow ==
  ASSUME Recorded, JournalStatus(ledger) = "clean"
  PROVE  projection = Now
  BY Clean DEF Recorded

\* A record is appended.
LEMMA Appended ==
  ASSUME ledger \in Seq(Record), NEW r \in Record, ledger' = Append(ledger, r)
  PROVE  /\ Len(ledger') = Len(ledger) + 1 /\ Len(ledger) \in Nat
         /\ DOMAIN ledger = 1..Len(ledger) /\ DOMAIN ledger' = 1..(Len(ledger) + 1)
         /\ \A i \in 1..Len(ledger) : ledger'[i] = ledger[i]
         /\ ledger'[Len(ledger) + 1] = r
         /\ \A n \in 0..Len(ledger) : Reached(n)' = Reached(n)
         /\ Now' = IF r.is = "PREPARED" THEN Append(r.before, r.ev) ELSE Now
         /\ \A e, is : Has(ledger', e, is) <=> Has(ledger, e, is) \/ (r.ev = e /\ r.is = is)
         /\ \A n \in 0..Len(ledger) : SubSeq(ledger', 1, n) = SubSeq(ledger, 1, n)
         /\ SubSeq(ledger, 1, Len(ledger)) = ledger
<1>1. /\ Len(ledger') = Len(ledger) + 1 /\ Len(ledger) \in Nat
      /\ DOMAIN ledger = 1..Len(ledger) /\ DOMAIN ledger' = 1..(Len(ledger) + 1)
      /\ \A i \in 1..Len(ledger) : ledger'[i] = ledger[i]
      /\ ledger'[Len(ledger) + 1] = r
      /\ ledger' \in Seq(Record)
  BY AppendProperties
<1>2. \A n \in 0..Len(ledger) : Reached(n)' = Reached(n)
  <2>1. PICK k \in Nat : k = Len(ledger)
    BY <1>1
  <2> QED  BY <1>1, <2>1, ReachedSame
<1>3. Now' = IF r.is = "PREPARED" THEN Append(r.before, r.ev) ELSE Now
  <2>1. PICK n : n = Len(ledger) + 1
    OBVIOUS
  <2>2. Reached(n)' = IF ledger'[n].is = "PREPARED" THEN Append(ledger'[n].before, ledger'[n].ev)
                      ELSE Reached(n - 1)'
    <3>1. n \in Nat \ {0}
      BY <1>1, <2>1
    <3>2. n - 1 \in 0..Len(ledger)
      BY <1>1, <2>1
    <3>3. CASE r.is = "PREPARED"
      <4>1. n \in Entered(n)' /\ \A j \in Entered(n)' : j <= n
        BY <1>1, <2>1, <3>1, <3>3 DEF Entered
      <4>2. \A i \in Entered(n)' : (\A j \in Entered(n)' : j <= i) => i = n
        <5>1. \A i \in Entered(n)' : i \in 1..n
          BY DEF Entered
        <5> HIDE DEF Entered
        <5> QED  BY <3>1, <4>1, <5>1
      <4>3. n = CHOOSE i \in Entered(n)' : \A j \in Entered(n)' : j <= i
        BY <4>1, <4>2
      <4> QED  BY <1>1, <2>1, <3>3, <4>1, <4>3 DEF Reached
    <3>4. CASE r.is # "PREPARED"
      <4>1. Entered(n)' = Entered(n - 1)'
        BY <1>1, <2>1, <3>1, <3>4 DEF Entered
      <4>2. Reached(n)' = Reached(n - 1)'
        BY <4>1 DEF Reached
      <4> QED  BY <1>1, <2>1, <3>4, <4>2
    <3> QED  BY <3>3, <3>4
  <2>3. Now' = Reached(n)'
    BY <1>1, <2>1 DEF Now, Reached, Entered
  <2>4. n - 1 = Len(ledger)
    BY <1>1, <2>1
  <2>5. Reached(n - 1)' = Now
    BY <1>1, <1>2, <2>4 DEF Now
  <2> QED  BY <1>1, <2>1, <2>2, <2>3, <2>5
<1>4. \A e, is : Has(ledger', e, is) <=> Has(ledger, e, is) \/ (r.ev = e /\ r.is = is)
  BY <1>1 DEF Has
<1>5. ASSUME NEW n \in 0..Len(ledger)  PROVE SubSeq(ledger', 1, n) = SubSeq(ledger, 1, n)
  <2>1. /\ \A i \in 1..n : ledger[i] \in Record /\ ledger'[i] = ledger[i]
        /\ n \in Int /\ 1 \in Int
    BY <1>1
  <2>2. /\ SubSeq(ledger, 1, n) \in Seq(Record) /\ SubSeq(ledger', 1, n) \in Seq(Record)
        /\ Len(SubSeq(ledger, 1, n)) = n /\ Len(SubSeq(ledger', 1, n)) = n
        /\ \A i \in 1..n : SubSeq(ledger, 1, n)[i] = SubSeq(ledger', 1, n)[i]
    BY <2>1
  <2> QED  BY <2>2, SeqEqual
<1>6. SubSeq(ledger, 1, Len(ledger)) = ledger
  BY SubSeqFull
<1> QED  BY <1>1, <1>2, <1>3, <1>4, <1>5, <1>6
-----------------------------------------------------------------------------
(* What the three writes do to the lineage.                                 *)

\* An event is prepared on a finished ledger.
LEMMA PreparedRecorded ==
  ASSUME TypeInv, Recorded, JournalStatus(ledger) = "clean",
         NEW e \in Event, Follows(projection, e),
         NEW r \in Record, r.is = "PREPARED", r.ev = e, r.before = projection,
         ledger' = Append(ledger, r), projection' = projection
  PROVE  Recorded' /\ Partial(ledger', e) /\ Now' = Append(projection, e)
<1>1. ledger \in Seq(Record) /\ projection \in States /\ projection \in Seq(Event)
  BY TypeParts DEF States
<1>2. projection = Now
  BY CleanNow
<1>3. Append(projection, e) \in States /\ e \notin Range(projection)
  BY <1>1, StateGrows
<1>4. /\ Len(ledger') = Len(ledger) + 1 /\ Len(ledger) \in Nat
      /\ DOMAIN ledger = 1..Len(ledger) /\ DOMAIN ledger' = 1..(Len(ledger) + 1)
      /\ \A i \in 1..Len(ledger) : ledger'[i] = ledger[i]
      /\ ledger'[Len(ledger) + 1] = r
      /\ \A n \in 0..Len(ledger) : Reached(n)' = Reached(n)
      /\ Now' = Append(projection, e)
      /\ \A f, is : Has(ledger', f, is) <=> Has(ledger, f, is) \/ (r.ev = f /\ r.is = is)
      /\ \A n \in 0..Len(ledger) : SubSeq(ledger', 1, n) = SubSeq(ledger, 1, n)
      /\ SubSeq(ledger, 1, Len(ledger)) = ledger
  BY <1>1, Appended
<1>5. \A f \in Event : ~Partial(ledger, f)
  BY Clean
<1>6. Partial(ledger', e)
  <2>1. ASSUME NEW m \in Marks, Has(ledger, e, m)  PROVE FALSE
    <3>1. PICK i \in DOMAIN ledger : ledger[i].ev = e
      BY <2>1 DEF Has
    <3> QED  BY <1>2, <1>3, <3>1 DEF Recorded
  <2> QED  BY <1>4, <2>1 DEF Partial, Marks
<1>7. \A f \in Event : Partial(ledger', f) => f = e
  BY <1>4, <1>5 DEF Partial
<1>8. \A i \in DOMAIN ledger' :
        ledger'[i].is = "PREPARED" =>
          /\ ledger'[i].before = Reached(i - 1)'
          /\ JournalStatus(SubSeq(ledger', 1, i - 1)) = "clean"
  <2>1. ASSUME NEW i \in 1..Len(ledger), ledger'[i].is = "PREPARED"
        PROVE  /\ ledger'[i].before = Reached(i - 1)'
               /\ JournalStatus(SubSeq(ledger', 1, i - 1)) = "clean"
    <3>1. i - 1 \in 0..Len(ledger)
      BY <1>4
    <3>2. PICK k \in 0..Len(ledger) : k = i - 1
      BY <3>1
    <3>3. ledger[i].before = Reached(k) /\ JournalStatus(SubSeq(ledger, 1, k)) = "clean"
      BY <1>4, <2>1, <3>2 DEF Recorded
    <3>4. ledger'[i].before = Reached(k)' /\ JournalStatus(SubSeq(ledger', 1, k)) = "clean"
      BY <1>4, <3>3
    <3> QED  BY <3>2, <3>4 DEF Reached, Entered
  <2>2. ASSUME NEW i, i = Len(ledger) + 1
        PROVE  /\ ledger'[i].before = Reached(i - 1)'
               /\ JournalStatus(SubSeq(ledger', 1, i - 1)) = "clean"
    <3>1. PICK k : k = Len(ledger)
      OBVIOUS
    <3>2. k \in Nat /\ k \in 0..Len(ledger) /\ i - 1 = k /\ ledger'[i] = r
      BY <1>4, <2>2, <3>1
    <3>3. ledger'[i].before = Reached(i - 1)
      BY <1>2, <3>1, <3>2 DEF Now
    <3>4. Reached(i - 1)' = Reached(i - 1)
      BY <1>4, <3>2
    <3>5. SubSeq(ledger', 1, i - 1) = ledger
      BY <1>4, <3>1, <3>2
    <3> QED  BY <3>3, <3>4, <3>5
  <2> QED  BY <1>4, <2>1, <2>2
<1>9. Now' \in States /\ \A i \in DOMAIN ledger' : ledger'[i].ev \in Range(Now')
  <2>1. /\ DOMAIN Append(projection, e) = 1..(Len(projection) + 1) /\ Len(projection) \in Nat
        /\ \A i \in 1..Len(projection) : Append(projection, e)[i] = projection[i]
        /\ Append(projection, e)[Len(projection) + 1] = e
        /\ DOMAIN projection = 1..Len(projection)
    BY <1>1, AppendProperties
  <2>2. \A f : f \in Range(projection) \/ f = e => f \in Range(Append(projection, e))
    BY <2>1 DEF Range
  <2>3. \A i \in DOMAIN ledger : ledger[i].ev \in Range(projection)
    BY <1>2 DEF Recorded
  <2> QED  BY <1>3, <1>4, <2>2, <2>3
<1>10. Now' # <<>> /\ Now'[Len(Now')] = e
  BY <1>1, <1>4, AppendProperties
<1> QED  BY <1>4, <1>6, <1>7, <1>8, <1>9, <1>10 DEF Recorded

\* The projection follows.
LEMMA ProjectedRecorded ==
  ASSUME Recorded, ledger' = ledger, projection' = Now
  PROVE  Recorded' /\ Now' = Now
<1>1. Now' = Now /\ \A n : Reached(n)' = Reached(n)
  BY DEF Now, Reached, Entered
<1>2. \A i \in DOMAIN ledger' :
        ledger'[i].is = "PREPARED" =>
          /\ ledger'[i].before = Reached(i - 1)'
          /\ JournalStatus(SubSeq(ledger', 1, i - 1)) = "clean"
  BY <1>1 DEF Recorded
<1> QED  BY <1>1, <1>2 DEF Recorded

\* Nothing is written.
LEMMA SameRecorded ==
  ASSUME Recorded, ledger' = ledger, projection' = projection
  PROVE  Recorded' /\ Now' = Now
<1>1. Now' = Now /\ \A n : Reached(n)' = Reached(n)
  BY DEF Now, Reached, Entered
<1>2. \A i \in DOMAIN ledger' :
        ledger'[i].is = "PREPARED" =>
          /\ ledger'[i].before = Reached(i - 1)'
          /\ JournalStatus(SubSeq(ledger', 1, i - 1)) = "clean"
  BY <1>1 DEF Recorded
<1> QED  BY <1>1, <1>2 DEF Recorded

\* The last event is marked: the ledger is finished again.
LEMMA MarkedRecorded ==
  ASSUME TypeInv, Recorded, NEW e \in Event, Partial(ledger, e), projection = Now,
         NEW r \in Record, r.is \in Marks, r.ev = e,
         ledger' = Append(ledger, r), projection' = projection
  PROVE  Recorded'
<1>1. ledger \in Seq(Record)
  BY TypeParts
<1>2. r.is # "PREPARED"
  BY DEF Marks
<1>3. /\ Len(ledger') = Len(ledger) + 1 /\ Len(ledger) \in Nat
      /\ DOMAIN ledger = 1..Len(ledger) /\ DOMAIN ledger' = 1..(Len(ledger) + 1)
      /\ \A i \in 1..Len(ledger) : ledger'[i] = ledger[i]
      /\ ledger'[Len(ledger) + 1] = r
      /\ \A n \in 0..Len(ledger) : Reached(n)' = Reached(n)
      /\ Now' = Now
      /\ \A f, is : Has(ledger', f, is) <=> Has(ledger, f, is) \/ (r.ev = f /\ r.is = is)
      /\ \A n \in 0..Len(ledger) : SubSeq(ledger', 1, n) = SubSeq(ledger, 1, n)
  BY <1>1, <1>2, Appended
<1>4. \A f \in Event : Partial(ledger, f) => f = e
  BY DEF Recorded
<1>5. \A f \in Event : ~Partial(ledger', f)
  <2>1. ASSUME NEW f \in Event, Partial(ledger', f)  PROVE FALSE
    <3>1. Has(ledger, f, "PREPARED") /\ \A m \in Marks : ~Has(ledger, f, m) /\ ~(r.ev = f /\ r.is = m)
      BY <1>2, <1>3, <2>1 DEF Partial
    <3>2. f = e
      BY <1>4, <3>1 DEF Partial
    <3> QED  BY <3>1, <3>2
  <2> QED  BY <2>1
<1>6. \A i \in DOMAIN ledger' :
        ledger'[i].is = "PREPARED" =>
          /\ ledger'[i].before = Reached(i - 1)'
          /\ JournalStatus(SubSeq(ledger', 1, i - 1)) = "clean"
  <2>1. ASSUME NEW i \in 1..Len(ledger), ledger'[i].is = "PREPARED"
        PROVE  /\ ledger'[i].before = Reached(i - 1)'
               /\ JournalStatus(SubSeq(ledger', 1, i - 1)) = "clean"
    <3>1. i - 1 \in 0..Len(ledger)
      BY <1>3
    <3>2. PICK k \in 0..Len(ledger) : k = i - 1
      BY <3>1
    <3>3. ledger[i].before = Reached(k) /\ JournalStatus(SubSeq(ledger, 1, k)) = "clean"
      BY <1>3, <2>1, <3>2 DEF Recorded
    <3>4. ledger'[i].before = Reached(k)' /\ JournalStatus(SubSeq(ledger', 1, k)) = "clean"
      BY <1>3, <3>3
    <3> QED  BY <3>2, <3>4 DEF Reached, Entered
  <2> QED  BY <1>2, <1>3, <2>1
<1>7. e \in Range(Now)
  <2>1. PICK i \in DOMAIN ledger : ledger[i].ev = e
    BY DEF Partial, Has
  <2> QED  BY <2>1 DEF Recorded
<1>8. Now' \in States /\ \A i \in DOMAIN ledger' : ledger'[i].ev \in Range(Now')
  BY <1>3, <1>7 DEF Recorded
<1> QED  BY <1>3, <1>5, <1>6, <1>8 DEF Recorded

(* The half done event, and a plan for it: the state it was planned on is   *)
(* the one that it was prepared on.                                         *)
LEMMA PlanIsFor ==
  ASSUME TypeInv, Recorded, NEW e \in Event, Partial(ledger, e),
         NEW s \in States, Follows(s, e), Begins(s, projection)
  PROVE  Now = Append(s, e)
<1>1. Now \in States /\ Now \in Seq(Event) /\ s \in Seq(Event) /\ projection \in Seq(Event)
  BY NowIsState, TypeParts DEF States
<1>2. Now # <<>> /\ Now[Len(Now)] = e
  BY DEF Recorded
<1>3. PICK t \in Seq(Event), f \in Event : Now = Append(t, f)
  BY <1>1, <1>2, SequenceEmptyOrAppend
<1>4. f = e
  BY <1>2, <1>3, AppendProperties
<1>5. t \in States /\ Follows(t, e)
  BY <1>1, <1>3, <1>4, StateBefore
<1>6. Len(s) = Len(t)
  BY <1>5, FollowsOne
<1>7. CASE projection = Now
  BY <1>1, <1>3, <1>4, <1>6, <1>7, BeginsBefore
<1>8. CASE projection # Now
  <2>1. PICK g \in Event : Now = Append(projection, g)
    BY <1>8 DEF Recorded
  <2>2. Append(projection, g) = Append(t, f)
    BY <1>3, <2>1
  <2>3. projection = t
    <3>1. /\ Len(Append(projection, g)) = Len(projection) + 1 /\ Len(projection) \in Nat
          /\ \A i \in 1..Len(projection) : Append(projection, g)[i] = projection[i]
      BY <1>1, AppendProperties
    <3>2. /\ Len(Append(t, f)) = Len(t) + 1 /\ Len(t) \in Nat
          /\ \A i \in 1..Len(t) : Append(t, f)[i] = t[i]
      BY AppendProperties
    <3>3. Len(projection) = Len(t)
      BY <2>2, <3>1, <3>2
    <3>4. \A i \in 1..Len(t) : projection[i] = t[i]
      <4> HIDE <1>3
      <4> QED  BY <2>2, <3>1, <3>2, <3>3
    <3> QED  BY <1>1, <3>2, <3>3, <3>4, SeqEqual
  <2> QED  BY <1>1, <1>3, <1>4, <1>6, <2>3, BeginsGrows
<1> QED  BY <1>7, <1>8

-----------------------------------------------------------------------------
(* What a step leaves to the commands that do not take it.                  *)

\* While nobody overlaps, nobody writes with a command that goes on to write.
LEMMA Moves ==
  ASSUME TypeInv, Alone, NEW p \in Proc, NEW l \in Labels, Goto(p, l), ~overlapped'
  PROVE  /\ ~overlapped /\ Alone'
         /\ pc'[p] = l /\ \A q \in Proc \ {p} : pc'[q] = pc[q]
<1>1. ~overlapped /\ (p \in Writing(pc') => Writing(pc') \ {p} = {})
  BY DEF Goto
<1>2. pc'[p] = l /\ \A q \in Proc \ {p} : pc'[q] = pc[q]
  BY TypeParts DEF Goto, Tidy
<1>3. ASSUME NEW q \in Writing(pc'), NEW r \in Writing(pc')  PROVE q = r
  <2>1. CASE q # p /\ r # p
    <3>1. q \in Writing(pc) /\ r \in Writing(pc)
      BY <1>2, <2>1 DEF Writing
    <3> QED  BY <3>1 DEF Alone
  <2>2. CASE q = p \/ r = p
    BY <1>1, <2>2
  <2> QED  BY <2>1, <2>2
<1> QED  BY <1>1, <1>2, <1>3 DEF Alone

\* States that the projection has been through, it has still been through.
LEMMA BeginsStays ==
  ASSUME TypeInv, Recorded, projection' \in {projection, Now}, NEW s \in States, Begins(s, projection)
  PROVE  Begins(s, projection')
<1>1. CASE projection' = projection
  BY <1>1
<1>2. CASE projection' # projection
  <2>1. PICK g \in Event : Now = Append(projection, g)
    BY <1>2 DEF Recorded
  <2>2. s \in Seq(Event) /\ projection \in Seq(Event)
    BY TypeParts DEF States
  <2>3. Begins(s, Append(projection, g))
    BY <2>2, BeginsGrows
  <2> QED  BY <1>2, <2>1, <2>3
<1> QED  BY <1>1, <1>2

\* The files change under nobody who has looked at them.
LEMMA OtherKnows ==
  ASSUME LineInv, NEW p \in Proc, NEW q \in Proc, q # p,
         pc'[q] = pc[q], job'[q] = job[q], snap'[q] = snap[q], mem'[q] = mem[q],
         UNCHANGED <<ledger, projection>> \/ p \in Writing(pc)
  PROVE  Knows(q)'
<1>1. Knows(q)
  BY DEF LineInv
<1>2. CASE UNCHANGED <<ledger, projection>>
  <2>1. Now' = Now
    BY <1>2 DEF Now, Reached, Entered
  <2> QED  BY <1>1, <1>2, <2>1 DEF Knows
<1>3. CASE p \in Writing(pc)
  <2>1. q \notin Writing(pc)
    BY <1>3 DEF LineInv, Alone
  <2>2. pc[q] \notin {"read", "prepare", "project", "reread", "mark"}
    BY <2>1 DEF Writing
  <2> QED  BY <1>1, <2>2 DEF Knows
<1> QED  BY <1>2, <1>3

\* The step of a command that has its plan.
LEMMA Kept ==
  ASSUME TypeInv, LineInv, NEW p \in Proc, NEW l \in Labels, Goto(p, l), ~overlapped', pc[p] # "idle",
         UNCHANGED approved,
         \A q \in Proc \ {p} : job'[q] = job[q] /\ snap'[q] = snap[q] /\ mem'[q] = mem[q],
         l # "idle" => job'[p] = job[p],
         projection' \in {projection, Now},
         UNCHANGED <<ledger, projection>> \/ p \in Writing(pc),
         Recorded', Knows(p)'
  PROVE  LineInv'
<1>1. Alone' /\ pc'[p] = l /\ \A q \in Proc \ {p} : pc'[q] = pc[q]
  BY Moves DEF LineInv
<1>2. \A q \in Proc : Knows(q)'
  BY <1>1, OtherKnows
<1>3. Grown'
  <2>1. ASSUME NEW plan \in approved'  PROVE Begins(plan.before, projection')
    <3>1. plan \in approved /\ plan.before \in States /\ Begins(plan.before, projection)
      BY TypeParts DEF LineInv, Grown
    <3> QED  BY <3>1, BeginsStays DEF LineInv
  <2>2. ASSUME NEW q \in Proc, pc'[q] # "idle"  PROVE Begins(job'[q].before, projection')
    <3>1. pc[q] # "idle" /\ job'[q] = job[q]
      BY <1>1, <2>2
    <3>2. job[q].before \in States /\ Begins(job[q].before, projection)
      BY <3>1, JobFits DEF LineInv, Grown
    <3> QED  BY <3>1, <3>2, BeginsStays DEF LineInv
  <2> QED  BY <2>1, <2>2 DEF Grown
<1> QED  BY <1>1, <1>2, <1>3 DEF LineInv

LEMMA EndKept ==
  ASSUME TypeInv, LineInv, NEW p \in Proc, End(p), ~overlapped', pc[p] # "idle", UNCHANGED approved,
         projection' \in {projection, Now},
         UNCHANGED <<ledger, projection>> \/ p \in Writing(pc), Recorded'
  PROVE  LineInv'
<1>1. "idle" \in Labels /\ Goto(p, "idle")
  BY DEF End, Labels
<1>2. \A q \in Proc \ {p} : job'[q] = job[q] /\ snap'[q] = snap[q] /\ mem'[q] = mem[q]
  BY TypeParts DEF End, Tidy
<1>3. pc'[p] = "idle"
  BY <1>1, Moves DEF LineInv
<1>4. Knows(p)'
  BY <1>3 DEF Knows
<1> QED  BY <1>1, <1>2, <1>4, Kept

LEMMA GoOnKept ==
  ASSUME TypeInv, LineInv, NEW p \in Proc, NEW l \in Labels \ {"idle"}, GoOn(p, l), ~overlapped',
         pc[p] # "idle", UNCHANGED approved,
         projection' \in {projection, Now},
         UNCHANGED <<ledger, projection>> \/ p \in Writing(pc), Recorded', Knows(p)'
  PROVE  LineInv'
BY Kept DEF GoOn

\* A label that a command goes on to.
LEMMA GoneOn ==
  ASSUME TypeInv, LineInv, NEW p \in Proc, NEW l \in Labels, GoOn(p, l), ~overlapped'
  PROVE  pc'[p] = l /\ job'[p] = job[p] /\ snap'[p] = snap[p] /\ mem'[p] = mem[p]
BY Moves DEF GoOn, LineInv

-----------------------------------------------------------------------------
(* Every action keeps the lineage.                                          *)

LEMMA PlanKept ==
  ASSUME TypeInv, LineInv, NEW p \in Proc, NEW e \in Event, Plan(p, e), ~overlapped'
  PROVE  LineInv'
<1>1. /\ Goto(p, "commit") /\ "commit" \in Labels /\ UNCHANGED <<ledger, projection, mem>>
      /\ JournalStatus(ledger) = "clean" /\ pc[p] = "idle"
  BY DEF Plan, Labels
<1>2. Alone' /\ pc'[p] = "commit" /\ \A q \in Proc \ {p} : pc'[q] = pc[q]
  BY <1>1, Moves DEF LineInv
<1>3. Recorded' /\ Now' = Now
  BY <1>1, SameRecorded DEF LineInv
<1>4. /\ job'[p].before = projection /\ snap'[p].ledger = ledger /\ snap'[p].projection = projection
      /\ \A q \in Proc \ {p} : job'[q] = job[q] /\ snap'[q] = snap[q]
  BY TypeParts DEF Plan, Tidy
<1>5. Knows(p)'
  BY <1>1, <1>2, <1>4 DEF Knows
<1>6. \A q \in Proc : Knows(q)'
  BY <1>1, <1>2, <1>4, <1>5, OtherKnows
<1>7. Begins(projection, projection)
  BY TypeParts DEF States, Begins
<1>8. Grown'
  <2>1. ASSUME NEW plan \in approved'  PROVE Begins(plan.before, projection')
    <3>1. plan \in approved \/ plan.before = projection
      BY <2>1 DEF Plan
    <3> QED  BY <1>1, <1>7, <3>1 DEF LineInv, Grown
  <2>2. \A q \in Proc : pc'[q] # "idle" => Begins(job'[q].before, projection')
    BY <1>1, <1>2, <1>4, <1>7 DEF LineInv, Grown
  <2> QED  BY <2>1, <2>2 DEF Grown
<1> QED  BY <1>2, <1>3, <1>6, <1>8 DEF LineInv

LEMMA PlanRecoveryKept ==
  ASSUME TypeInv, LineInv, NEW p \in Proc, NEW plan \in approved, PlanRecovery(p, plan), ~overlapped'
  PROVE  LineInv'
<1>1. /\ Goto(p, "inspect") /\ "inspect" \in Labels
      /\ UNCHANGED <<ledger, projection, approved, snap, mem>> /\ pc[p] = "idle"
  BY DEF PlanRecovery, Labels
<1>2. Alone' /\ pc'[p] = "inspect" /\ \A q \in Proc \ {p} : pc'[q] = pc[q]
  BY <1>1, Moves DEF LineInv
<1>3. Recorded' /\ Now' = Now
  BY <1>1, SameRecorded DEF LineInv
<1>4. job'[p].before = plan.before /\ \A q \in Proc \ {p} : job'[q] = job[q]
  BY TypeParts DEF PlanRecovery, Tidy
<1>5. Knows(p)'
  BY <1>2 DEF Knows
<1>6. \A q \in Proc : Knows(q)'
  BY <1>1, <1>2, <1>4, <1>5, OtherKnows
<1>7. Grown'
  BY <1>1, <1>2, <1>4 DEF LineInv, Grown
<1> QED  BY <1>2, <1>3, <1>6, <1>7 DEF LineInv

LEMMA CommitKept ==
  ASSUME TypeInv, LineInv, NEW p \in Proc, Commit(p), ~overlapped'
  PROVE  LineInv'
<1>1. pc[p] = "commit" /\ UNCHANGED <<ledger, projection, approved>>
  BY DEF Commit
<1>2. Recorded' /\ Now' = Now
  BY <1>1, SameRecorded DEF LineInv
<1>3. CASE End(p)
  BY <1>1, <1>2, <1>3, EndKept
<1>4. CASE GoOn(p, "read") /\ snap[p] = [ledger |-> ledger, projection |-> projection]
  <2>1. "read" \in Labels \ {"idle"}
    BY DEF Labels
  <2>2. pc'[p] = "read" /\ job'[p] = job[p]
    BY <1>4, <2>1, GoneOn
  <2>3. JournalStatus(ledger) = "clean" /\ projection = job[p].before
    BY <1>1, <1>4 DEF LineInv, Knows
  <2>4. Knows(p)'
    BY <1>1, <2>2, <2>3 DEF Knows
  <2> QED  BY <1>1, <1>2, <1>4, <2>1, <2>4, GoOnKept
<1> QED  BY <1>3, <1>4 DEF Commit

LEMMA ReadLedgerKept ==
  ASSUME TypeInv, LineInv, NEW p \in Proc, ReadLedger(p), ~overlapped'
  PROVE  LineInv'
<1> DEFINE l == IF pc[p] = "read" THEN "prepare" ELSE "mark"
<1>1. /\ pc[p] \in {"read", "reread"} /\ Goto(p, l) /\ l \in Labels
      /\ UNCHANGED <<ledger, projection, approved, job, snap>>
  BY DEF ReadLedger, Labels
<1>2. Recorded' /\ Now' = Now
  BY <1>1, SameRecorded DEF LineInv
<1>3. mem'[p] = ledger /\ \A q \in Proc \ {p} : mem'[q] = mem[q]
  BY TypeParts DEF ReadLedger, Tidy
<1>4. pc'[p] = l
  BY <1>1, Moves DEF LineInv
<1>5. Knows(p)'
  BY <1>1, <1>2, <1>3, <1>4 DEF LineInv, Knows
<1> QED
  <2> HIDE DEF l
  <2> QED  BY <1>1, <1>2, <1>3, <1>5, Kept

LEMMA AppendPreparedKept ==
  ASSUME TypeInv, LineInv, NEW p \in Proc, AppendPrepared(p), ~overlapped'
  PROVE  LineInv'
<1>1. PICK r : r = [is |-> "PREPARED", ev |-> job[p].ev, before |-> job[p].before]
  OBVIOUS
<1>2. pc[p] = "prepare" /\ UNCHANGED <<projection, approved>> /\ p \in Writing(pc)
  BY DEF AppendPrepared, Writing
<1>3. /\ JournalStatus(ledger) = "clean" /\ projection = job[p].before /\ mem[p] = ledger
      /\ Recorded
  BY <1>2 DEF LineInv, Knows
<1>4. /\ r \in Record /\ r.is = "PREPARED" /\ r.ev = job[p].ev /\ r.before = projection
      /\ job[p].ev \in Event
  BY <1>1, <1>2, <1>3, JobFits
<1>5. Follows(projection, job[p].ev)
  BY <1>2, <1>3 DEF TypeInv, Planned
<1>6. PICK o \in {"ok", "lost", "landed"} :
        /\ ledger' = IF o = "lost" THEN ledger ELSE Append(ledger, r)
        /\ IF o = "ok" THEN GoOn(p, "project") ELSE End(p)
  BY <1>1, <1>3 DEF AppendPrepared, Write
<1>7. CASE o = "lost"
  <2>1. Recorded'
    BY <1>2, <1>3, <1>6, <1>7, SameRecorded
  <2> QED  BY <1>2, <1>6, <1>7, <2>1, EndKept
<1>8. CASE o # "lost"
  <2>1. Recorded' /\ Partial(ledger', job[p].ev) /\ Now' = Append(projection, job[p].ev)
    BY <1>2, <1>3, <1>4, <1>5, <1>6, <1>8, PreparedRecorded
  <2>2. CASE End(p)
    BY <1>2, <2>1, <2>2, EndKept
  <2>3. CASE GoOn(p, "project")
    <3>1. "project" \in Labels \ {"idle"}
      BY DEF Labels
    <3>2. pc'[p] = "project" /\ job'[p] = job[p]
      BY <2>3, <3>1, GoneOn
    <3>3. Knows(p)'
      BY <1>3, <2>1, <3>2 DEF Knows
    <3> QED  BY <1>2, <2>1, <2>3, <3>1, <3>3, GoOnKept
  <2> QED  BY <1>6, <2>2, <2>3
<1> QED  BY <1>7, <1>8

LEMMA WriteProjectionKept ==
  ASSUME TypeInv, LineInv, NEW p \in Proc, WriteProjection(p), ~overlapped'
  PROVE  LineInv'
<1>1. pc[p] = "project" /\ UNCHANGED <<ledger, approved>> /\ p \in Writing(pc)
  BY DEF WriteProjection, Writing
<1>2. Partial(ledger, job[p].ev) /\ Now = Append(job[p].before, job[p].ev) /\ Recorded
  BY <1>1 DEF LineInv, Knows
<1>3. PICK o \in {"ok", "lost", "landed"} :
        /\ projection' = IF o = "lost" THEN projection ELSE Now
        /\ IF o = "ok" THEN GoOn(p, "reread") ELSE End(p)
  BY <1>2 DEF WriteProjection, Write
<1>4. CASE o = "lost"
  <2>1. Recorded'
    BY <1>1, <1>2, <1>3, <1>4, SameRecorded
  <2> QED  BY <1>1, <1>3, <1>4, <2>1, EndKept
<1>5. CASE o # "lost"
  <2>1. projection' = Now /\ Recorded' /\ Now' = Now
    BY <1>1, <1>2, <1>3, <1>5, ProjectedRecorded
  <2>2. CASE End(p)
    BY <1>1, <2>1, <2>2, EndKept
  <2>3. CASE GoOn(p, "reread")
    <3>1. "reread" \in Labels \ {"idle"}
      BY DEF Labels
    <3>2. pc'[p] = "reread" /\ job'[p] = job[p]
      BY <2>3, <3>1, GoneOn
    <3>3. Knows(p)'
      BY <1>1, <1>2, <2>1, <3>2 DEF Knows
    <3> QED  BY <1>1, <2>1, <2>3, <3>1, <3>3, GoOnKept
  <2> QED  BY <1>3, <2>2, <2>3
<1> QED  BY <1>4, <1>5

LEMMA AppendMarkKept ==
  ASSUME TypeInv, LineInv, NEW p \in Proc, AppendMark(p), ~overlapped'
  PROVE  LineInv'
<1>1. PICK r : r = [is |-> job[p].mark, ev |-> job[p].ev, before |-> job[p].before]
  OBVIOUS
<1>2. pc[p] = "mark" /\ UNCHANGED <<projection, approved>> /\ p \in Writing(pc)
  BY DEF AppendMark, Writing
<1>3. /\ Partial(ledger, job[p].ev) /\ projection = Now /\ mem[p] = ledger
      /\ Recorded
  BY <1>2 DEF LineInv, Knows
<1>4. r \in Record /\ r.is \in Marks /\ r.ev = job[p].ev /\ job[p].ev \in Event
  BY <1>1, <1>2, JobFits
<1>5. (ledger' = ledger \/ ledger' = Append(ledger, r)) /\ End(p)
  BY <1>1, <1>3 DEF AppendMark, Write
<1>6. Recorded'
  <2>1. CASE ledger' = ledger
    BY <1>2, <1>3, <2>1, SameRecorded
  <2>2. CASE ledger' = Append(ledger, r)
    BY <1>2, <1>3, <1>4, <2>2, MarkedRecorded
  <2> QED  BY <1>5, <2>1, <2>2
<1> QED  BY <1>2, <1>5, <1>6, EndKept

LEMMA InspectKept ==
  ASSUME TypeInv, LineInv, NEW p \in Proc, Inspect(p), ~overlapped'
  PROVE  LineInv'
<1>1. pc[p] = "inspect" /\ UNCHANGED <<ledger, projection, approved>>
  BY DEF Inspect
<1>2. Recorded' /\ Now' = Now
  BY <1>1, SameRecorded DEF LineInv
<1>3. CASE End(p)
  BY <1>1, <1>2, <1>3, EndKept
<1>4. CASE GoOn(p, "project") /\ Partial(ledger, job[p].ev)
  <2>1. "project" \in Labels \ {"idle"}
    BY DEF Labels
  <2>2. pc'[p] = "project" /\ job'[p] = job[p]
    BY <1>4, <2>1, GoneOn
  <2>3. /\ Follows(job[p].before, job[p].ev) /\ Begins(job[p].before, projection)
        /\ job[p].before \in States /\ job[p].ev \in Event
    BY <1>1, JobFits DEF TypeInv, Planned, LineInv, Grown
  <2>4. Now = Append(job[p].before, job[p].ev)
    BY <1>4, <2>3, PlanIsFor DEF LineInv
  <2>5. Knows(p)'
    BY <1>1, <1>2, <1>4, <2>2, <2>4 DEF Knows
  <2> QED  BY <1>1, <1>2, <1>4, <2>1, <2>5, GoOnKept
<1> QED  BY <1>3, <1>4 DEF Inspect

LEMMA CrashKept ==
  ASSUME TypeInv, LineInv, NEW p \in Proc, Crash(p), ~overlapped'
  PROVE  LineInv'
<1>1. pc[p] # "idle" /\ End(p) /\ UNCHANGED <<ledger, projection, approved>>
  BY DEF Crash
<1>2. Recorded'
  BY <1>1, SameRecorded DEF LineInv
<1> QED  BY <1>1, <1>2, EndKept

-----------------------------------------------------------------------------
LEMMA InitInv == Init => Inv
<1> SUFFICES ASSUME Init PROVE Inv
  OBVIOUS
<1>1. ledger = <<>> /\ projection = <<>> /\ Len(ledger) = 0 /\ DOMAIN ledger = {}
  BY DEF Init
<1>2. Now = <<>>
  BY <1>1, ReachedStep DEF Now
<1>3. \A e \in Event : ~Partial(ledger, e)
  BY <1>1 DEF Partial, Has
<1>4. Recorded
  BY <1>1, <1>2, <1>3, Empty DEF Recorded
<1>5. \A p \in Proc : pc[p] = "idle"
  BY DEF Init
<1>6. Alone /\ \A p \in Proc : Knows(p)
  BY <1>5 DEF Alone, Writing, Knows
<1>7. Grown
  BY <1>5 DEF Init, Grown
<1> QED  BY <1>4, <1>6, <1>7, InitTyped DEF Inv, LineInv

\* Commands that have overlapped have overlapped.
LEMMA OverlapStays == [Next]_vars /\ ~overlapped' => ~overlapped
<1>1. ASSUME NEW p \in Proc, NEW l, Goto(p, l), ~overlapped'  PROVE ~overlapped
  BY <1>1 DEF Goto
<1>2. ASSUME NEW p \in Proc, NEW e \in Event, Plan(p, e)  PROVE Goto(p, "commit")
  BY <1>2 DEF Plan
<1>3. ASSUME NEW p \in Proc, NEW plan \in approved, PlanRecovery(p, plan)  PROVE Goto(p, "inspect")
  BY <1>3 DEF PlanRecovery
<1>4. ASSUME NEW p \in Proc, Step(p) \/ Crash(p)  PROVE \E l : Goto(p, l)
  <2>1. CASE Commit(p) \/ Inspect(p)
    BY <2>1 DEF Commit, Inspect, End, GoOn
  <2>2. CASE ReadLedger(p)
    BY <2>2 DEF ReadLedger
  <2>3. CASE AppendPrepared(p) \/ WriteProjection(p) \/ AppendMark(p)
    BY <2>3 DEF AppendPrepared, WriteProjection, AppendMark, Write, End, GoOn
  <2>4. CASE Crash(p)
    BY <2>4 DEF Crash, End
  <2> QED  BY <1>4, <2>1, <2>2, <2>3, <2>4 DEF Step
<1> QED  BY <1>1, <1>2, <1>3, <1>4 DEF Next, vars

LEMMA NextInv == Inv /\ [Next]_vars => Inv'
<1> SUFFICES ASSUME Inv, [Next]_vars PROVE Inv'
  OBVIOUS
<1>1. TypeInv /\ TypeInv'
  BY NextTyped DEF Inv
<1>2. ASSUME ~overlapped'  PROVE LineInv'
  <2>1. LineInv
    BY <1>2, OverlapStays DEF Inv
  <2>2. CASE UNCHANGED vars
    <3>1. UNCHANGED <<ledger, projection, approved, pc, job, snap, mem>>
      BY <2>2 DEF vars
    <3>2. Recorded' /\ Now' = Now
      BY <2>1, <3>1, SameRecorded DEF LineInv
    <3>3. \A p \in Proc : Knows(p)'
      BY <2>1, <3>1, <3>2 DEF LineInv, Knows
    <3>4. Alone' /\ Grown'
      BY <2>1, <3>1 DEF LineInv, Alone, Grown, Writing
    <3> QED  BY <3>2, <3>3, <3>4 DEF LineInv
  <2>3. ASSUME NEW p \in Proc, NEW e \in Event, Plan(p, e)  PROVE LineInv'
    BY <1>1, <1>2, <2>1, <2>3, PlanKept
  <2>4. ASSUME NEW p \in Proc, NEW plan \in approved, PlanRecovery(p, plan)  PROVE LineInv'
    BY <1>1, <1>2, <2>1, <2>4, PlanRecoveryKept
  <2>5. ASSUME NEW p \in Proc, Step(p)  PROVE LineInv'
    BY <1>1, <1>2, <2>1, <2>5, CommitKept, ReadLedgerKept, AppendPreparedKept,
       WriteProjectionKept, AppendMarkKept, InspectKept DEF Step
  <2>6. ASSUME NEW p \in Proc, Crash(p)  PROVE LineInv'
    BY <1>1, <1>2, <2>1, <2>6, CrashKept
  <2> QED  BY <2>2, <2>3, <2>4, <2>5, <2>6 DEF Next
<1> QED  BY <1>1, <1>2 DEF Inv

(* One lineage: while no two commands have been writing at once, every event *)
(* of the release ledger was prepared on the state that those before it led  *)
(* to, all of them finished, and the projection is where they lead or one    *)
(* half done event behind.                                                  *)
THEOREM LineageHolds == Spec => []OneLineage
<1>1. Inv => OneLineage
  BY DEF Inv, LineInv, Recorded, Now, OneLineage
<1> QED  BY <1>1, InitInv, NextInv, PTL DEF Spec
=============================================================================
