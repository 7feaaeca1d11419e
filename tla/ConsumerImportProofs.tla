------------------------ MODULE ConsumerImportProofs ------------------------
(***************************************************************************)
(* Proofs about ConsumerImport, for any number of processes, results and   *)
(* authorizations: the consumption row is on record before any effect, and *)
(* a finished import is whole when one process at a time imports a result. *)
(***************************************************************************)
EXTENDS ConsumerImport, TLAPS

\* Appending a row to the ledger adds it to the rows and keeps the others.
LEMMA AppendRow ==
  ASSUME ledger \in Seq(Row), NEW row \in Row, ledger' = Append(ledger, row)
  PROVE  /\ ledger' \in Seq(Row)
         /\ Rows' = Rows \union {row}
<1>1. ledger' \in Seq(Row)
  OBVIOUS
<1>2. Len(ledger') = Len(ledger) + 1 /\ ledger'[Len(ledger) + 1] = row
  OBVIOUS
<1>3. \A i \in 1..Len(ledger) : ledger'[i] = ledger[i]
  OBVIOUS
<1>4. DOMAIN ledger = 1..Len(ledger) /\ DOMAIN ledger' = 1..(Len(ledger) + 1) /\ Len(ledger) \in Nat
  BY <1>1, <1>2
<1>5. \A x : x \in Rows' <=> x \in Rows \union {row}
  <2>1. ASSUME NEW x \in Rows' PROVE x \in Rows \union {row}
    <3>1. PICK i \in 1..(Len(ledger) + 1) : x = ledger'[i]
      BY <2>1, <1>4 DEF Rows
    <3>2. CASE i = Len(ledger) + 1
      BY <3>1, <3>2, <1>2
    <3>3. CASE i # Len(ledger) + 1
      <4>1. i \in 1..Len(ledger)
        BY <3>3, <1>4
      <4>2. QED BY <4>1, <3>1, <1>3, <1>4 DEF Rows
    <3>4. QED BY <3>2, <3>3
  <2>2. ASSUME NEW x \in Rows PROVE x \in Rows'
    <3>1. PICK i \in 1..Len(ledger) : x = ledger[i]
      BY <2>2, <1>4 DEF Rows
    <3>2. i \in 1..(Len(ledger) + 1) /\ ledger'[i] = x
      BY <3>1, <1>3, <1>4
    <3>3. QED BY <3>2, <1>4 DEF Rows
  <2>3. row \in Rows'
    <3>1. Len(ledger) + 1 \in 1..(Len(ledger) + 1)
      BY <1>4
    <3>2. QED BY <3>1, <1>2, <1>4 DEF Rows
  <2>4. QED BY <2>1, <2>2, <2>3
<1>6. QED BY <1>1, <1>5

\* What a job and the stages of its result are.
LEMMA JobFacts ==
  ASSUME NEW j \in Job
  PROVE  /\ j.proc \in Proc /\ j.result \in Result /\ j.auth \in Auth
         /\ Stages(j.result) \subseteq 1..3
         /\ \A i \in 1..3 : Artifact[i] \in Name
BY JobAssumption DEF Stages, Artifact, Name

\* The bytes written for an artifact are bytes an archive file may have.
LEMMA ExpectedType ==
  ASSUME NEW j \in Journal, NEW a
  PROVE  Expected(j, a) \in Bytes
BY DEF Expected, Bytes, Journal

\* The initial state satisfies the inductive invariant.
LEMMA InvariantInit == Init => IInv
<1>1. SUFFICES ASSUME Init PROVE IInv
  OBVIOUS
<1>2. Rows = {}
  BY <1>1 DEF Init, Rows
<1>3. TypeOK
  BY <1>1, ReturnedAssumption, BoundAssumption DEF Init, TypeOK
<1>4. RegisteredBeforeEffects
  BY <1>1 DEF Init, RegisteredBeforeEffects
<1>5. Running /\ OwnAuthorization /\ RowWritten /\ JournalWritten
  BY <1>1 DEF Init, Running, OwnAuthorization, RowWritten, JournalWritten
<1>6. QED BY <1>3, <1>4, <1>5 DEF IInv

(* A command that ends (it returned, refused or crashed) without touching   *)
(* the store keeps the invariant.                                           *)
LEMMA ReturnKeeps ==
  ASSUME IInv, NEW p \in Proc, Return(p), UNCHANGED <<source, store>>,
         edits' \in 0..MaxEdits, crashes' \in 0..MaxCrashes
  PROVE  IInv'
<1>1. TypeOK'
  BY DEF IInv, TypeOK, Return, Goto, store
<1>2. Rows' = Rows
  BY DEF Rows, store
<1>3. \A q \in Proc : pc'[q] # "idle" => pc'[q] = pc[q] /\ job'[q] = job[q] /\ mem'[q] = mem[q]
  BY DEF IInv, TypeOK, Return, Goto
<1>4. Running' /\ OwnAuthorization'
  BY <1>3 DEF IInv, Running, OwnAuthorization
<1>5. RowWritten' /\ JournalWritten'
  BY <1>2, <1>3 DEF IInv, RowWritten, JournalWritten, store
<1>6. RegisteredBeforeEffects'
  BY <1>2 DEF IInv, RegisteredBeforeEffects, store
<1>7. QED BY <1>1, <1>4, <1>5, <1>6 DEF IInv

\* Every step keeps the inductive invariant.
LEMMA InvariantStep == IInv /\ [Next]_vars => IInv'
<1>1. SUFFICES ASSUME IInv, [Next]_vars PROVE IInv'
  OBVIOUS
<1> USE DEF IInv
<1>2. ASSUME NEW p \in Proc, pc[p] # "idle"
      PROVE  /\ job[p] \in Job /\ job[p].result \in Result /\ job[p].auth \in Auth
             /\ mem[p] \in Journal /\ mem[p] # None
  BY <1>1, <1>2, JobFacts, JournalAssumption DEF Running
<1>3. CASE UNCHANGED vars
  <2>1. Rows' = Rows
    BY <1>3 DEF vars, Rows
  <2>2. QED
    BY <1>1, <1>3, <2>1 DEF vars, TypeOK, Running, OwnAuthorization, RowWritten, JournalWritten,
       RegisteredBeforeEffects
<1>4. ASSUME NEW p \in Proc, Gate(p) PROVE IInv'
  <2>1. CASE Refuse(p)
    BY <1>1, <2>1, ReturnKeeps DEF Refuse, TypeOK
  <2>2. CASE /\ Resumable(p)
             /\ mem' = [mem EXCEPT ![p] = journal[job[p].result]]
             /\ Goto(p, "artifact")
             /\ UNCHANGED <<source, store, job, stage, fresh, edits, crashes>>
    <3>1. Rows' = Rows
      BY <2>2 DEF Rows, store
    <3>2. journal[job[p].result] # None /\ journal[job[p].result] \in Journal
      BY <1>1, <1>2, <1>4, <2>2 DEF Gate, Resumable, TypeOK
    <3>3. TypeOK'
      BY <1>1, <2>2, <3>2 DEF TypeOK, Goto, store
    <3>4. Running' /\ OwnAuthorization' /\ JournalWritten'
      BY <1>1, <1>2, <1>4, <2>2, <3>2
      DEF Gate, TypeOK, Running, OwnAuthorization, JournalWritten, Goto, store
    <3>5. RowWritten'
      BY <1>1, <1>2, <1>4, <2>2, <3>1, <3>2
      DEF Gate, TypeOK, RowWritten, RegisteredBeforeEffects, Goto
    <3>6. RegisteredBeforeEffects'
      BY <1>1, <2>2, <3>1 DEF RegisteredBeforeEffects, store
    <3>7. QED BY <3>3, <3>4, <3>5, <3>6
  <2>3. CASE /\ Admissible(p)
             /\ Goto(p, "consume")
             /\ UNCHANGED <<source, store, job, mem, stage, fresh, edits, crashes>>
    <3>1. Rows' = Rows
      BY <2>3 DEF Rows, store
    <3>2. TypeOK'
      BY <1>1, <2>3 DEF TypeOK, Goto, store
    <3>3. Running' /\ OwnAuthorization' /\ JournalWritten' /\ RowWritten'
      BY <1>1, <1>2, <1>4, <2>3, <3>1
      DEF Gate, TypeOK, Running, OwnAuthorization, JournalWritten, RowWritten, Goto, store
    <3>4. RegisteredBeforeEffects'
      BY <1>1, <2>3, <3>1 DEF RegisteredBeforeEffects, store
    <3>5. QED BY <3>2, <3>3, <3>4
  <2>4. QED BY <1>4, <2>1, <2>2, <2>3 DEF Gate
<1>5. ASSUME NEW p \in Proc, Consume(p) PROVE IInv'
  <2>1. CASE Refuse(p)
    BY <1>1, <2>1, ReturnKeeps DEF Refuse, TypeOK
  <2>2. CASE /\ Goto(p, "append")
             /\ UNCHANGED <<source, store, job, mem, stage, fresh, edits, crashes>>
    <3>1. Rows' = Rows
      BY <2>2 DEF Rows, store
    <3>2. TypeOK'
      BY <1>1, <2>2 DEF TypeOK, Goto, store
    <3>3. Running' /\ OwnAuthorization' /\ JournalWritten' /\ RowWritten'
      BY <1>1, <1>2, <1>5, <2>2, <3>1
      DEF Consume, TypeOK, Running, OwnAuthorization, JournalWritten, RowWritten, Goto, store
    <3>4. RegisteredBeforeEffects'
      BY <1>1, <2>2, <3>1 DEF RegisteredBeforeEffects, store
    <3>5. QED BY <3>2, <3>3, <3>4
  <2>3. QED BY <1>5, <2>1, <2>2 DEF Consume
<1>6. ASSUME NEW p \in Proc, AppendStarted(p) PROVE IInv'
  <2> DEFINE row == [auth |-> job[p].auth, attempt |-> job[p].result]
  <2>1. row \in Row /\ row = [auth |-> mem[p].auth, attempt |-> job[p].result]
    BY <1>1, <1>2, <1>6 DEF AppendStarted, Row, OwnAuthorization
  <2>2. ledger' \in Seq(Row) /\ Rows' = Rows \union {row}
    BY <1>1, <1>6, <2>1, AppendRow DEF AppendStarted, TypeOK
  <2> HIDE DEF row
  <2>3. TypeOK'
    BY <1>1, <1>6, <2>2 DEF AppendStarted, TypeOK, Goto
  <2>4. Running' /\ OwnAuthorization' /\ JournalWritten'
    BY <1>1, <1>2, <1>6
    DEF AppendStarted, TypeOK, Running, OwnAuthorization, JournalWritten, Goto
  <2>5. RowWritten'
    BY <1>1, <1>2, <1>6, <2>1, <2>2 DEF AppendStarted, TypeOK, RowWritten, Goto
  <2>6. RegisteredBeforeEffects'
    BY <1>1, <1>6, <2>2 DEF AppendStarted, RegisteredBeforeEffects
  <2>7. QED BY <2>3, <2>4, <2>5, <2>6
<1>7. ASSUME NEW p \in Proc, MakeDirectory(p) PROVE IInv'
  <2>1. Rows' = Rows
    BY <1>7 DEF MakeDirectory, Rows
  <2>2. TypeOK'
    BY <1>1, <1>2, <1>7 DEF MakeDirectory, TypeOK, Goto
  <2>3. Running' /\ OwnAuthorization' /\ JournalWritten' /\ RowWritten'
    BY <1>1, <1>2, <1>7, <2>1
    DEF MakeDirectory, TypeOK, Running, OwnAuthorization, JournalWritten, RowWritten, Goto
  <2>4. \E x \in Rows : x.attempt = job[p].result
    BY <1>1, <1>7 DEF MakeDirectory, RowWritten
  <2>5. RegisteredBeforeEffects'
    BY <1>1, <1>7, <2>1, <2>4 DEF MakeDirectory, RegisteredBeforeEffects
  <2>6. QED BY <2>2, <2>3, <2>5
<1>8. ASSUME NEW p \in Proc, pc[p] # "idle",
             NEW m \in Journal, m.auth = mem[p].auth,
             [auth |-> mem[p].auth, attempt |-> job[p].result] \in Rows,
             journal' = [journal EXCEPT ![job[p].result] = m],
             UNCHANGED <<ledger, dir, files>>
      PROVE  /\ Rows' = Rows
             /\ journal' \in [Result -> Journal \union {None}]
             /\ journal'[job[p].result] # None
             /\ \A r \in Result : journal[r] # None => journal'[r] # None
             /\ RegisteredBeforeEffects'
  <2>1. Rows' = Rows
    BY <1>8 DEF Rows
  <2>2. /\ journal' \in [Result -> Journal \union {None}]
        /\ journal'[job[p].result] # None
        /\ \A r \in Result : journal[r] # None => journal'[r] # None
    BY <1>1, <1>2, <1>8, JournalAssumption DEF TypeOK
  <2>3. RegisteredBeforeEffects'
    BY <1>1, <1>2, <1>8, <2>1, <2>2 DEF TypeOK, RegisteredBeforeEffects
  <2>4. QED BY <2>1, <2>2, <2>3
<1>9. ASSUME NEW p \in Proc, WriteJournal(p) PROVE IInv'
  <2>1. /\ Rows' = Rows
        /\ journal' \in [Result -> Journal \union {None}]
        /\ journal'[job[p].result] # None
        /\ \A r \in Result : journal[r] # None => journal'[r] # None
        /\ RegisteredBeforeEffects'
    BY <1>1, <1>2, <1>8, <1>9 DEF WriteJournal, RowWritten
  <2>2. TypeOK'
    BY <1>1, <1>9, <2>1 DEF WriteJournal, TypeOK, Goto
  <2>3. Running' /\ OwnAuthorization' /\ RowWritten'
    BY <1>1, <1>2, <1>9, <2>1
    DEF WriteJournal, TypeOK, Running, OwnAuthorization, RowWritten, Goto
  <2>4. JournalWritten'
    BY <1>1, <1>2, <1>9, <2>1 DEF WriteJournal, TypeOK, JournalWritten, Goto
  <2>5. QED BY <2>1, <2>2, <2>3, <2>4
<1>10. ASSUME NEW p \in Proc, WriteArtifact(p) PROVE IInv'
  <2> DEFINE a == Artifact[stage[p]]
  <2>1. a \in Name
    BY <1>1, <1>2, <1>10, JobFacts DEF WriteArtifact, TypeOK
  <2>2. CASE Refuse(p)
    BY <1>1, <2>2, ReturnKeeps DEF Refuse, TypeOK
  <2>3. CASE /\ files' = [files EXCEPT ![job[p].result][a] = Expected(mem[p], a)]
             /\ Goto(p, "mark")
             /\ UNCHANGED <<source, ledger, dir, journal, job, mem, stage, fresh, edits, crashes>>
    <3>1. Rows' = Rows
      BY <2>3 DEF Rows
    <3>2. Expected(mem[p], a) \in Bytes
      BY <1>2, <1>10, ExpectedType DEF WriteArtifact
    <3> HIDE DEF a
    <3>3. TypeOK'
      BY <1>1, <1>2, <1>10, <2>1, <2>3, <3>2 DEF WriteArtifact, TypeOK, Goto
    <3>4. Running' /\ OwnAuthorization' /\ RowWritten' /\ JournalWritten'
      BY <1>1, <1>2, <1>10, <2>3, <3>1
      DEF WriteArtifact, TypeOK, Running, OwnAuthorization, RowWritten, JournalWritten, Goto
    <3>5. journal[job[p].result] # None
      BY <1>1, <1>10 DEF WriteArtifact, JournalWritten
    <3>6. \A r \in Result : r # job[p].result => files'[r] = files[r]
      BY <1>1, <2>3 DEF TypeOK
    <3>7. RegisteredBeforeEffects'
      BY <1>1, <2>3, <3>1, <3>5, <3>6 DEF RegisteredBeforeEffects
    <3>8. QED BY <3>3, <3>4, <3>7
  <2>4. QED BY <1>10, <2>2, <2>3 DEF WriteArtifact
<1>11. ASSUME NEW p \in Proc, MarkStep(p) PROVE IInv'
  <2> DEFINE m == [mem[p] EXCEPT !.steps = @ \union {Artifact[stage[p]]}]
  <2>1. m \in Journal /\ m.auth = mem[p].auth
    <3>1. job[p] \in Job /\ mem[p] \in Journal
      BY <1>2, <1>11 DEF MarkStep
    <3>2. stage[p] \in 1..3
      BY <1>1 DEF TypeOK
    <3>3. Artifact[stage[p]] \in Name
      BY <3>1, <3>2, JobFacts
    <3>4. QED BY <3>1, <3>3 DEF Journal
  <2>2. mem' = [mem EXCEPT ![p] = m] /\ mem'[p] = m
    BY <1>1, <1>11 DEF MarkStep, TypeOK
  <2> HIDE DEF m
  <2>3. /\ Rows' = Rows
        /\ journal' \in [Result -> Journal \union {None}]
        /\ journal'[job[p].result] # None
        /\ \A r \in Result : journal[r] # None => journal'[r] # None
        /\ RegisteredBeforeEffects'
    BY <1>1, <1>2, <1>8, <1>11, <2>1, <2>2 DEF MarkStep, RowWritten
  <2>4. stage' \in [Proc -> 1..3]
    <3>1. Stages(job[p].result) \subseteq 1..3
      BY <1>2, <1>11, JobFacts DEF MarkStep
    <3>2. stage' = stage \/ (stage' = [stage EXCEPT ![p] = stage[p] + 1] /\ stage[p] + 1 \in 1..3)
      BY <1>11, <3>1 DEF MarkStep
    <3>3. stage \in [Proc -> 1..3]
      BY <1>1 DEF TypeOK
    <3>4. QED BY <3>2, <3>3
  <2>5. pc'[p] \in {"artifact", "finish"} /\ \A q \in Proc : q # p => pc'[q] = pc[q]
    BY <1>1, <1>11 DEF MarkStep, TypeOK, Goto
  <2>6. TypeOK'
    <3>1. mem' \in [Proc -> Journal \union {None}]
      BY <1>1, <2>1, <2>2 DEF TypeOK
    <3>2. pc' \in [Proc -> {"idle", "read", "consume", "append", "mkdir", "journal", "artifact",
                            "mark", "finish"}]
      BY <1>1, <1>11 DEF MarkStep, TypeOK, Goto
    <3>3. UNCHANGED <<source, ledger, dir, files, job, fresh, edits, crashes>>
      BY <1>11 DEF MarkStep
    <3>4. QED BY <1>1, <2>3, <2>4, <3>1, <3>2, <3>3 DEF TypeOK
  <2>7. Running' /\ OwnAuthorization' /\ RowWritten'
    BY <1>1, <1>2, <1>11, <2>1, <2>2, <2>3, <2>5
    DEF MarkStep, TypeOK, Running, OwnAuthorization, RowWritten
  <2>8. JournalWritten'
    BY <1>1, <1>2, <1>11, <2>3, <2>5 DEF MarkStep, TypeOK, JournalWritten
  <2>9. QED BY <2>3, <2>6, <2>7, <2>8
<1>12. ASSUME NEW p \in Proc, Finish(p) PROVE IInv'
  <2> DEFINE m == [mem[p] EXCEPT !.done = TRUE]
  <2>1. m \in Journal /\ m.auth = mem[p].auth
    BY <1>1, <1>2, <1>12 DEF Finish, Journal
  <2>2. journal' = [journal EXCEPT ![job[p].result] = m]
    BY <1>12 DEF Finish
  <2> HIDE DEF m
  <2>3. /\ Rows' = Rows
        /\ journal' \in [Result -> Journal \union {None}]
        /\ \A r \in Result : journal[r] # None => journal'[r] # None
        /\ RegisteredBeforeEffects'
    BY <1>1, <1>2, <1>8, <1>12, <2>1, <2>2 DEF Finish, RowWritten
  <2>4. TypeOK'
    BY <1>1, <1>12, <2>3 DEF Finish, Return, TypeOK, Goto
  <2>5. \A q \in Proc : pc'[q] # "idle" => pc'[q] = pc[q] /\ job'[q] = job[q] /\ mem'[q] = mem[q]
    BY <1>1, <1>12 DEF Finish, Return, TypeOK, Goto
  <2>6. Running' /\ OwnAuthorization' /\ RowWritten' /\ JournalWritten'
    BY <1>1, <1>2, <2>3, <2>5 DEF Running, OwnAuthorization, RowWritten, JournalWritten
  <2>7. QED BY <2>3, <2>4, <2>6
<1>13. ASSUME NEW p \in Proc, Crash(p) PROVE IInv'
  BY <1>1, <1>13, ReturnKeeps, BoundAssumption DEF Crash, TypeOK
<1>14. ASSUME NEW j \in Job, ReadResult(j) PROVE IInv'
  <2> DEFINE m == [digest |-> source[j.result], auth |-> j.auth, steps |-> {}, done |-> FALSE]
  <2>1. m \in Journal /\ m.auth = j.auth /\ j.proc \in Proc
    BY <1>1, JobFacts DEF TypeOK, Journal
  <2>2. mem' = [mem EXCEPT ![j.proc] = m]
    BY <1>14 DEF ReadResult
  <2> HIDE DEF m
  <2>3. Rows' = Rows
    BY <1>14 DEF ReadResult, store, Rows
  <2>4. TypeOK'
    BY <1>1, <1>14, <2>1, <2>2 DEF ReadResult, store, TypeOK, Goto
  <2>5. Running' /\ OwnAuthorization' /\ RowWritten' /\ JournalWritten'
    BY <1>1, <1>14, <2>1, <2>2, <2>3
    DEF ReadResult, store, TypeOK, Goto, Running, OwnAuthorization, RowWritten, JournalWritten
  <2>6. RegisteredBeforeEffects'
    BY <1>1, <1>14, <2>3 DEF ReadResult, store, RegisteredBeforeEffects
  <2>7. QED BY <2>4, <2>5, <2>6
<1>15. ASSUME NEW r \in Result, Edit(r) PROVE IInv'
  <2>1. Rows' = Rows
    BY <1>15 DEF Edit, store, Rows
  <2>2. TypeOK'
    BY <1>1, <1>15, BoundAssumption DEF Edit, store, local, TypeOK
  <2>3. Running' /\ OwnAuthorization' /\ RowWritten' /\ JournalWritten'
    BY <1>1, <1>15, <2>1
    DEF Edit, store, local, Running, OwnAuthorization, RowWritten, JournalWritten
  <2>4. RegisteredBeforeEffects'
    BY <1>1, <1>15, <2>1 DEF Edit, store, RegisteredBeforeEffects
  <2>5. QED BY <2>2, <2>3, <2>4
<1>16. QED
  BY <1>1, <1>3, <1>4, <1>5, <1>6, <1>7, <1>9, <1>10, <1>11, <1>12, <1>13, <1>14, <1>15
  DEF Next, Step

\* Type correctness of the import for every instance.
THEOREM TypeCorrect == Spec => []TypeOK
<1>1. IInv => TypeOK
  BY DEF IInv
<1>2. QED BY <1>1, InvariantInit, InvariantStep, PTL DEF Spec

(* Whatever processes interleave and wherever they die, an archive exists   *)
(* only for a result whose STARTED row is in the ledger, its journal names  *)
(* that row's authorization, and no archived file precedes its journal.     *)
THEOREM RegisteredHolds == Spec => []RegisteredBeforeEffects
<1>1. IInv => RegisteredBeforeEffects
  BY DEF IInv
<1>2. QED BY <1>1, InvariantInit, InvariantStep, PTL DEF Spec

-----------------------------------------------------------------------------
(* A finished import is whole, when every result has one process that       *)
(* imports it: two of them would write each other's journal.                *)
OneImporter == \A i, j \in Job : i.result = j.result => i.proc = j.proc

Early == {"consume", "append", "mkdir", "journal"}
Late == {"artifact", "mark", "finish"}
Archived(p, i) == files[job[p].result][Artifact[i]] = Expected(mem[p], Artifact[i])
Marked(p, i) == Artifact[i] \in mem[p].steps

\* The journal on disk and the one in memory are the same, until the last write.
JournalInHand(p) ==
  /\ pc[p] \in Early => journal[job[p].result] = None
  /\ pc[p] \in Late => journal[job[p].result] = mem[p]
  /\ pc[p] # "idle" => ~mem[p].done

\* An import at a stage has archived and marked everything before it.
AtStage(p) ==
  /\ pc[p] \notin Late => stage[p] = 1
  /\ pc[p] # "idle" => stage[p] \in Stages(job[p].result)
  /\ pc[p] \in Late => \A i \in 1..3 : i < stage[p] => Archived(p, i) /\ Marked(p, i)
  /\ pc[p] = "mark" => Archived(p, stage[p])
  /\ pc[p] = "finish" => \A i \in Stages(job[p].result) : Archived(p, i) /\ Marked(p, i)

InOrder(p) == /\ pc[p] # "idle" => job[p].proc = p
              /\ JournalInHand(p) /\ AtStage(p)
WInv == (\A p \in Proc : InOrder(p)) /\ DoneIsWhole

\* What no step touched stays in order.
LEMMA Untouched ==
  ASSUME NEW q \in Proc, InOrder(q),
         pc'[q] = pc[q], job'[q] = job[q], mem'[q] = mem[q], stage'[q] = stage[q],
         pc[q] # "idle" => /\ journal'[job[q].result] = journal[job[q].result]
                           /\ files'[job[q].result] = files[job[q].result]
  PROVE  InOrder(q)'
<1>1. pc[q] # "idle" => \A i : (Archived(q, i) <=> Archived(q, i)') /\ (Marked(q, i) <=> Marked(q, i)')
  BY DEF Archived, Marked
<1>2. JournalInHand(q)'
  BY DEF InOrder, JournalInHand, Early, Late
<1>3. AtStage(q)'
  BY <1>1 DEF InOrder, AtStage, Late
<1> QED BY <1>2, <1>3 DEF InOrder

(* A step of one process writes the archive of its own result only, and no  *)
(* other process works on that result.                                      *)
LEMMA OthersInOrder ==
  ASSUME IInv, WInv, OneImporter, NEW p \in Proc, pc[p] # "idle",
         \A q \in Proc \ {p} :
           pc'[q] = pc[q] /\ job'[q] = job[q] /\ mem'[q] = mem[q] /\ stage'[q] = stage[q],
         \A r \in Result \ {job[p].result} : journal'[r] = journal[r] /\ files'[r] = files[r],
         InOrder(p)'
  PROVE  \A q \in Proc : InOrder(q)'
<1> SUFFICES ASSUME NEW q \in Proc, q # p PROVE InOrder(q)'
  OBVIOUS
<1>1. pc[q] # "idle" => job[q].result \in Result /\ job[q].result # job[p].result
  BY JobFacts DEF IInv, Running, WInv, InOrder, OneImporter
<1> QED BY <1>1, Untouched DEF WInv

\* A step that leaves the archives alone leaves the finished ones whole.
LEMMA ArchivesKept ==
  ASSUME DoneIsWhole, UNCHANGED <<journal, files>> PROVE DoneIsWhole'
  BY DEF DoneIsWhole, Imported

\* Finished archives stay whole while an unfinished one is written.
LEMMA WritesKeepWhole ==
  ASSUME IInv, DoneIsWhole, NEW r \in Result,
         \A s \in Result \ {r} : journal'[s] = journal[s] /\ files'[s] = files[s],
         journal'[r] = None \/ ~journal'[r].done
  PROVE  DoneIsWhole'
<1> SUFFICES ASSUME NEW s \in Result, Imported(s)', NEW a \in Names(s)
             PROVE  a \in journal'[s].steps /\ files'[s][a] = Expected(journal'[s], a)
  BY DEF DoneIsWhole
<1>1. s # r
  BY DEF Imported
<1> QED BY <1>1 DEF DoneIsWhole, Imported

\* A command that ends without touching the archives.
LEMMA ReturnInOrder ==
  ASSUME IInv, WInv, NEW p \in Proc, Return(p), UNCHANGED store PROVE WInv'
<1>1. InOrder(p)'
  BY DEF IInv, TypeOK, Return, Goto, InOrder, JournalInHand, AtStage, Early, Late
<1>2. ASSUME NEW q \in Proc, q # p PROVE InOrder(q)'
  BY <1>2, Untouched DEF IInv, TypeOK, WInv, Return, Goto, store
<1>3. DoneIsWhole'
  BY ArchivesKept DEF WInv, store
<1> QED BY <1>1, <1>2, <1>3 DEF WInv

\* The three stages and their artifacts.
LEMMA Stage ==
  ASSUME NEW r
  PROVE  /\ 1 \in Stages(r) /\ Stages(r) \subseteq 1..3
         /\ \A i \in Stages(r), k \in 1..3 : k < i => k \in Stages(r)
         /\ \A i \in Stages(r), k \in Stages(r) : i + 1 \notin Stages(r) => k < i \/ k = i
         /\ \A i, k \in 1..3 : i # k => Artifact[i] # Artifact[k]
  BY DEF Stages, Artifact

LEMMA WholeInit == Init => WInv
  BY Stage DEF Init, WInv, InOrder, JournalInHand, AtStage, DoneIsWhole, Imported, Early, Late

LEMMA WholeStep == OneImporter /\ IInv /\ WInv /\ [Next]_vars => WInv'
<1> SUFFICES ASSUME OneImporter, IInv, WInv, [Next]_vars PROVE WInv'
  OBVIOUS
<1> USE Stage
<1>1. ASSUME NEW p \in Proc, pc[p] # "idle"
      PROVE  /\ job[p] \in Job /\ job[p].result \in Result /\ job[p].proc = p
             /\ mem[p] \in Journal /\ mem[p] # None
             /\ JournalInHand(p) /\ AtStage(p)
  BY <1>1, JobFacts, JournalAssumption DEF IInv, Running, WInv, InOrder
<1>2. CASE UNCHANGED vars
  BY <1>2, Untouched, ArchivesKept DEF vars, WInv
<1>3. ASSUME NEW p \in Proc, Gate(p) PROVE WInv'
  <2>1. CASE Refuse(p)
    BY <2>1, ReturnInOrder DEF Refuse
  <2>2. CASE UNCHANGED <<store, job, stage>> /\ Resumable(p) /\ Goto(p, "artifact")
             /\ mem' = [mem EXCEPT ![p] = journal[job[p].result]]
    <3>1. InOrder(p)'
      BY <1>1, <1>3, <2>2 DEF IInv, TypeOK, Gate, Resumable, Goto, store, InOrder,
         JournalInHand, AtStage, Early, Late
    <3>2. \A q \in Proc : InOrder(q)'
      BY <1>3, <2>2, <3>1, OthersInOrder DEF IInv, TypeOK, Gate, Goto, store
    <3> QED BY <2>2, <3>2, ArchivesKept DEF WInv, store
  <2>3. CASE UNCHANGED <<store, job, mem, stage>> /\ Admissible(p) /\ Goto(p, "consume")
    <3>1. InOrder(p)'
      BY <1>1, <1>3, <2>3 DEF IInv, TypeOK, Gate, Admissible, Goto, store, InOrder,
         JournalInHand, AtStage, Early, Late
    <3>2. \A q \in Proc : InOrder(q)'
      BY <1>3, <2>3, <3>1, OthersInOrder DEF IInv, TypeOK, Gate, Goto, store
    <3> QED BY <2>3, <3>2, ArchivesKept DEF WInv, store
  <2> QED BY <1>3, <2>1, <2>2, <2>3 DEF Gate
<1>4. ASSUME NEW p \in Proc, NEW label \in Early,
             pc[p] \in Early, Goto(p, label), UNCHANGED <<journal, files, job, mem, stage>>
      PROVE  WInv'
  <2>1. InOrder(p)'
    BY <1>1, <1>4 DEF IInv, TypeOK, Goto, InOrder, JournalInHand, AtStage, Early, Late
  <2>2. \A q \in Proc : InOrder(q)'
    BY <1>4, <2>1, OthersInOrder DEF IInv, TypeOK, Goto, Early
  <2> QED BY <1>4, <2>2, ArchivesKept DEF WInv
<1>5. ASSUME NEW p \in Proc, Consume(p) \/ AppendStarted(p) \/ MakeDirectory(p) PROVE WInv'
  <2>1. CASE Refuse(p)
    BY <2>1, ReturnInOrder DEF Refuse
  <2> QED BY <1>4, <1>5, <2>1 DEF Consume, AppendStarted, MakeDirectory, store, Early
<1>6. ASSUME NEW p \in Proc, WriteJournal(p) PROVE WInv'
  <2>1. journal'[job[p].result] = mem[p]
    BY <1>1, <1>6 DEF WriteJournal, IInv, TypeOK
  <2>2. InOrder(p)'
    BY <1>1, <1>6, <2>1 DEF WriteJournal, IInv, TypeOK, Goto, InOrder, JournalInHand,
       AtStage, Early, Late
  <2>3. \A q \in Proc : InOrder(q)'
    BY <1>6, <2>2, OthersInOrder DEF WriteJournal, IInv, TypeOK, Goto
  <2>4. DoneIsWhole'
    BY <1>1, <1>6, <2>1, WritesKeepWhole DEF WriteJournal, IInv, TypeOK, WInv, JournalInHand
  <2> QED BY <2>3, <2>4 DEF WInv
<1>7. ASSUME NEW p \in Proc, WriteArtifact(p) PROVE WInv'
  <2> DEFINE r == job[p].result
             a == Artifact[stage[p]]
  <2>1. CASE Refuse(p)
    BY <2>1, ReturnInOrder DEF Refuse
  <2>2. CASE /\ files' = [files EXCEPT ![r][a] = Expected(mem[p], a)]
             /\ Goto(p, "mark")
             /\ UNCHANGED <<journal, job, mem, stage>>
    <3>1. a \in Name /\ stage[p] \in 1..3 /\ \A i \in 1..3 : Artifact[i] \in Name
      BY <1>1, <1>7, JobFacts DEF WriteArtifact, AtStage
    <3>2. /\ files'[r][a] = Expected(mem[p], a)
          /\ \A b \in Name : b # a => files'[r][b] = files[r][b]
      BY <1>1, <1>7, <2>2, <3>1 DEF WriteArtifact, IInv, TypeOK
    <3>3. \A i \in 1..3 : i < stage[p] => Archived(p, i)' /\ Marked(p, i)'
      BY <1>1, <1>7, <2>2, <3>1, <3>2 DEF WriteArtifact, AtStage, Archived, Marked, Late
    <3>4. Archived(p, stage[p])'
      BY <2>2, <3>2 DEF Archived
    <3>5. InOrder(p)'
      BY <1>1, <1>7, <2>2, <3>3, <3>4 DEF WriteArtifact, IInv, TypeOK, Goto, InOrder,
         JournalInHand, AtStage, Early, Late
    <3>6. \A q \in Proc : InOrder(q)'
      BY <1>7, <2>2, <3>5, OthersInOrder DEF WriteArtifact, IInv, TypeOK, Goto
    <3>7. DoneIsWhole'
      BY <1>1, <1>7, <2>2, WritesKeepWhole
      DEF WriteArtifact, IInv, TypeOK, WInv, JournalInHand, Late
    <3> QED BY <3>6, <3>7 DEF WInv
  <2> QED BY <1>7, <2>1, <2>2 DEF WriteArtifact
<1>8. ASSUME NEW p \in Proc, MarkStep(p) PROVE WInv'
  <2> DEFINE r == job[p].result
             m == [mem[p] EXCEPT !.steps = @ \union {Artifact[stage[p]]}]
  <2>1. /\ m.steps = mem[p].steps \union {Artifact[stage[p]]}
        /\ m.digest = mem[p].digest /\ m.auth = mem[p].auth /\ ~m.done
    BY <1>1, <1>8 DEF MarkStep, Journal, JournalInHand
  <2>2. mem'[p] = m /\ journal'[r] = m /\ \A s \in Result \ {r} : journal'[s] = journal[s]
    BY <1>1, <1>8 DEF MarkStep, IInv, TypeOK
  <2>3. stage[p] \in Stages(r)
    BY <1>1, <1>8 DEF MarkStep, AtStage
  <2> HIDE DEF m
  <2>4. \A i \in 1..3 : Archived(p, i) <=> Archived(p, i)'
    BY <1>8, <2>1, <2>2 DEF MarkStep, Archived, Expected
  <2>5. \A i \in 1..3 : i < stage[p] \/ i = stage[p] => Archived(p, i)' /\ Marked(p, i)'
    BY <1>1, <1>8, <2>1, <2>2, <2>4 DEF MarkStep, AtStage, Marked, Late
  <2>6. ASSUME stage[p] + 1 \in Stages(r) PROVE InOrder(p)'
    <3>1. /\ stage'[p] = stage[p] + 1 /\ pc'[p] = "artifact" /\ job' = job
          /\ \A q \in Proc \ {p} : stage'[q] = stage[q]
      BY <1>8, <2>6 DEF MarkStep, IInv, TypeOK, Goto
    <3>2. \A i \in 1..3 : i < stage'[p] => Archived(p, i)' /\ Marked(p, i)'
      BY <2>3, <2>5, <3>1
    <3>3. JournalInHand(p)'
      BY <2>1, <2>2, <3>1 DEF JournalInHand, Early, Late
    <3>4. AtStage(p)'
      BY <2>6, <3>1, <3>2 DEF AtStage, Late
    <3>5. job'[p].proc = p
      BY <1>1, <1>8, <3>1 DEF MarkStep
    <3> QED BY <3>3, <3>4, <3>5 DEF InOrder
  <2>7. ASSUME stage[p] + 1 \notin Stages(r) PROVE InOrder(p)'
    <3>1. UNCHANGED stage /\ pc'[p] = "finish" /\ job' = job
      BY <1>8, <2>7 DEF MarkStep, IInv, TypeOK, Goto
    <3>2. \A i \in Stages(r) : Archived(p, i)' /\ Marked(p, i)'
      BY <2>3, <2>5, <2>7
    <3>3. \A i \in 1..3 : i < stage'[p] => Archived(p, i)' /\ Marked(p, i)'
      BY <2>5, <3>1
    <3> QED BY <1>1, <1>8, <2>1, <2>2, <2>3, <3>1, <3>2, <3>3
            DEF MarkStep, InOrder, JournalInHand, AtStage, Early, Late
  <2>8. InOrder(p)'
    BY <2>6, <2>7
  <2>9. \A q \in Proc : InOrder(q)'
    BY <1>8, <2>8, OthersInOrder DEF MarkStep, IInv, TypeOK, Goto
  <2>10. DoneIsWhole'
    <3>1. r \in Result /\ files' = files
      BY <1>1, <1>8 DEF MarkStep
    <3>2. ~journal'[r].done
      BY <2>1, <2>2
    <3> HIDE DEF r
    <3> QED BY <2>2, <3>1, <3>2, WritesKeepWhole DEF WInv
  <2> QED BY <2>9, <2>10 DEF WInv
<1>9. ASSUME NEW p \in Proc, Finish(p) PROVE WInv'
  <2> DEFINE r == job[p].result
             m == [mem[p] EXCEPT !.done = TRUE]
  <2>1. m.steps = mem[p].steps /\ m.digest = mem[p].digest /\ m.auth = mem[p].auth
    BY <1>1, <1>9 DEF Finish, Journal
  <2>2. journal'[r] = m /\ \A s \in Result \ {r} : journal'[s] = journal[s]
    BY <1>1, <1>9 DEF Finish, IInv, TypeOK
  <2> HIDE DEF m
  <2>3. InOrder(p)'
    BY <1>9 DEF Finish, Return, IInv, TypeOK, Goto, InOrder, JournalInHand, AtStage, Early, Late
  <2>4. \A q \in Proc : InOrder(q)'
    BY <1>9, <2>2, <2>3, OthersInOrder DEF Finish, Return, IInv, TypeOK, Goto
  <2>5. \A a \in Names(r) : a \in mem[p].steps /\ files[r][a] = Expected(mem[p], a)
    BY <1>1, <1>9 DEF Finish, AtStage, Names, Archived, Marked
  <2>6. \A a \in Names(r) : a \in journal'[r].steps /\ files'[r][a] = Expected(journal'[r], a)
    BY <1>9, <2>1, <2>2, <2>5 DEF Finish, Expected
  <2>7. DoneIsWhole'
    <3> SUFFICES ASSUME NEW s \in Result, Imported(s)', NEW a \in Names(s)
                 PROVE  a \in journal'[s].steps /\ files'[s][a] = Expected(journal'[s], a)
      BY DEF DoneIsWhole
    <3>1. CASE s = r
      BY <2>6, <3>1
    <3>2. CASE s # r
      BY <1>9, <2>2, <3>2 DEF Finish, WInv, DoneIsWhole, Imported
    <3> QED BY <3>1, <3>2
  <2> QED BY <2>4, <2>7 DEF WInv
<1>10. ASSUME NEW p \in Proc, Crash(p) PROVE WInv'
  BY <1>10, ReturnInOrder DEF Crash
<1>11. ASSUME NEW j \in Job, ReadResult(j) PROVE WInv'
  <2>1. j.proc \in Proc
    BY JobFacts
  <2>2. /\ pc'[j.proc] = "read" /\ job'[j.proc] = j /\ ~mem'[j.proc].done /\ stage'[j.proc] = 1
    BY <1>11, <2>1 DEF ReadResult, IInv, TypeOK, Goto, WInv, InOrder, AtStage, Late
  <2>3. InOrder(j.proc)'
    BY <2>2 DEF InOrder, JournalInHand, AtStage, Early, Late
  <2>4. ASSUME NEW q \in Proc, q # j.proc PROVE InOrder(q)'
    BY <1>11, <2>4, Untouched DEF ReadResult, IInv, TypeOK, Goto, WInv, store
  <2> QED BY <1>11, <2>3, <2>4, ArchivesKept DEF ReadResult, store, WInv
<1>12. ASSUME NEW r \in Result, Edit(r) PROVE WInv'
  BY <1>12, Untouched, ArchivesKept DEF Edit, store, local, WInv
<1> QED
  BY <1>2, <1>3, <1>5, <1>6, <1>7, <1>8, <1>9, <1>10, <1>11, <1>12 DEF Next, Step

(* A finished import is whole, for any number of results and processes and  *)
(* however many runs died on the way, as long as every result is imported   *)
(* by one process at a time.                                                *)
THEOREM WholeHolds ==
  ASSUME OneImporter PROVE Spec => []DoneIsWhole
<1>1. Init => IInv /\ WInv
  BY InvariantInit, WholeInit
<1>2. IInv /\ WInv /\ [Next]_vars => (IInv /\ WInv)'
  BY InvariantStep, WholeStep
<1>3. WInv => DoneIsWhole
  BY DEF WInv
<1> QED BY <1>1, <1>2, <1>3, PTL DEF Spec
=============================================================================
