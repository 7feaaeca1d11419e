------------------------- MODULE CrTerminationProofs -------------------------
(***************************************************************************)
(* Proofs about CrTermination for any processes, change requests,          *)
(* authorizations and tasks, and any number of faults.                     *)
(***************************************************************************)
EXTENDS CrTermination, TLAPS

USE AuthAssumption, NoneAssumption

-----------------------------------------------------------------------------
File == Cr \union {Index}
Image == SUBSET (Cr \union {Foreign})
Images(a) == [Targets(a) -> Image]
Resting == {"ABORTED", "COMMITTED", "RECOVERED"}
Undoable == {"ATTEMPTED", "APPLIED", "RESTORED"}
Record ==
  [is  : Resting \union Undoable \union {"PREPARED", "PARTIAL"},
   ref : File \union {None} \union UNION {Images(a) : a \in Auth},
   n   : Nat]

\* A command holds the lock; it is about to begin a transaction; it carries out its own.
Beginning == {"admit", "claim", "prepare"}
Own == {"next", "replace", "account", "over"}
Held == Beginning \union Own \union {"promote", "scan", "recover", "note", "end", "release"}
Labels == Held \union {"idle", "planned"}

TypeOK ==
  /\ file \in [File -> Image] /\ claimed \subseteq Auth
  /\ dir \in [Auth -> {"none", "active", "terminal"}] /\ log \in [Auth -> Seq(Record)]
  /\ lock \in Proc \union {None, Left}
  /\ pc \in [Proc -> Labels] /\ job \in [Proc -> Auth \union {None}]
  /\ seen \in [Proc -> {<<>>} \union UNION {Images(a) : a \in Auth}]
  /\ fixing \in [Proc -> Auth \union {None}]
  /\ visited \in [Proc -> SUBSET File] /\ restored \in [Proc -> Nat]

\* What a plan saw: files that do not show the change request as terminated.
Drawn(a, images) == images \in Images(a) /\ \A r \in Targets(a) : CrOf[a] \notin images[r]

\* The lock excludes; who needs a plan or a transaction has one.
Controlled(p) ==
  /\ pc[p] \in Held <=> lock = p
  /\ pc[p] = "idle" => job[p] = None
  /\ seen[p] # <<>> => job[p] \in Auth /\ Drawn(job[p], seen[p])
  /\ pc[p] \in {"planned", "promote"} => job[p] = None \/ seen[p] # <<>>
  /\ pc[p] \in {"scan"} \union Beginning => seen[p] # <<>>
  /\ pc[p] \in {"recover", "note", "end"} \union Own => fixing[p] \in Auth
  /\ pc[p] \in Own => job[p] = fixing[p]
Control == \A p \in Proc : Controlled(p)

\* The records of a transaction begin with its only PREPARED, which holds the images seen.
Sequence(a) ==
  \A i \in DOMAIN log[a] :
    /\ log[a][i].is = "PREPARED" <=> i = 1
    /\ i = 1 => Drawn(a, log[a][i].ref)

\* A transaction is prepared once, after its claim, and while no other one is open.
Recorded(a) ==
  /\ Sequence(a)
  /\ a \notin claimed => log[a] = <<>>
  /\ Open(a) => dir[a] = "active"
OneOpen == \A a, b \in Auth : Open(a) /\ Open(b) => a = b
Stage(p) ==
  /\ pc[p] \in Beginning => Active = {}
  /\ pc[p] = "prepare" => log[job[p]] = <<>> /\ job[p] \in claimed
  /\ pc[p] = "next" => LastIs(fixing[p], {"PREPARED", "APPLIED"})
  /\ pc[p] \in {"replace", "account"} => LastIs(fixing[p], {"ATTEMPTED"})
  /\ pc[p] = "over" => LastIs(fixing[p], {"COMMITTED"})
  /\ pc[p] = "note" => LastIs(fixing[p], Undoable)
  /\ pc[p] = "end" => LastIs(fixing[p], {"ABORTED", "RECOVERED"})
Accounts == (\A a \in Auth : Recorded(a)) /\ OneOpen /\ \A p \in Proc : Stage(p)

Applied(a) == {r \in Targets(a) : Has(a, "APPLIED", r)}
Committed(a) == LastIs(a, {"COMMITTED"})
Showing(a) == {r \in Targets(a) : CrOf[a] \in file[r]}

\* What the files show of a transaction that is open, whoever works on it...
Begun(a) ==
  Open(a) => /\ Showing(a) \subseteq Attempts(a)
             /\ \A b \in Auth : CrOf[b] = CrOf[a] => ~Committed(b)

\* ... of one that a process carries out or undoes, or is about to begin.
InHand(p) ==
  /\ pc[p] \in {"claim", "prepare"} => \A r \in Targets(job[p]) : seen[p][r] = file[r]
  /\ pc[p] = "next" => Applied(fixing[p]) = Attempts(fixing[p])
  /\ pc[p] \in {"replace", "account"} =>
       /\ Applied(fixing[p]) \subseteq Attempts(fixing[p])
       /\ \E r \in Targets(fixing[p]) : Attempts(fixing[p]) \ Applied(fixing[p]) = {r}
  /\ pc[p] \in {"next", "replace"} => Applied(fixing[p]) \subseteq Showing(fixing[p])
  /\ pc[p] = "account" => Attempts(fixing[p]) \subseteq Showing(fixing[p])
  /\ pc[p] \in Beginning \union Own => visited[p] = {}
  /\ pc[p] \in {"recover", "note"} => visited[p] \intersect Showing(fixing[p]) = {}

\* A change request without open transactions: terminated in all of its files, or in none.
True(c) ==
  (\A a \in Auth : CrOf[a] = c => ~Open(a)) =>
    \A r \in {c, Index} : c \in file[r] <=> \E a \in Auth : CrOf[a] = c /\ Committed(a)

Truth ==
  /\ \A a \in Auth : Begun(a)
  /\ \A p \in Proc : InHand(p)
  /\ \A c \in Cr : True(c)

IInv == TypeOK /\ Control /\ Accounts /\ Truth

-----------------------------------------------------------------------------
\* A transaction and its files.
LEMMA TargetFacts ==
  ASSUME NEW a \in Auth
  PROVE  /\ CrOf[a] \in Cr /\ Targets(a) \subseteq File /\ Targets(a) # {}
         /\ \A images \in Images(a) : images # <<>> /\ DOMAIN images = Targets(a)
<1>1. CrOf[a] \in Cr /\ CrOf[a] \in Targets(a)
  BY DEF Targets
<1>2. ASSUME NEW images \in Images(a) PROVE images # <<>> /\ DOMAIN images = Targets(a)
  <2>1. DOMAIN images = Targets(a) /\ DOMAIN <<>> = {}
    BY DEF Images
  <2> QED BY <1>1, <2>1
<1> QED BY <1>1, <1>2 DEF Targets, File

\* What a command that ends does to its process.
LEMMA ForgetEffect ==
  ASSUME TypeOK, NEW p \in Proc, Goto(p, "idle"), Forget(p)
  PROVE  /\ pc' = [pc EXCEPT ![p] = "idle"] /\ job' = [job EXCEPT ![p] = None]
         /\ seen' = [seen EXCEPT ![p] = <<>>] /\ fixing' = [fixing EXCEPT ![p] = None]
         /\ visited' = [visited EXCEPT ![p] = {}] /\ restored' = [restored EXCEPT ![p] = 0]
  BY DEF Goto, Forget

\* What appending, replacing and promoting may do, and when they did it.
LEMMA AppendEffect ==
  ASSUME TypeOK, NEW p \in Proc, NEW a, NEW rec, NEW good, NEW bad,
         AppendRecord(p, a, rec, good, bad)
  PROVE  /\ log' = log \/ log' = [log EXCEPT ![a] = Append(@, rec)]
         /\ pc' = [pc EXCEPT ![p] = pc'[p]] /\ pc'[p] \in {good, bad}
         /\ pc'[p] # bad => log' = [log EXCEPT ![a] = Append(@, rec)]
  BY DEF TypeOK, AppendRecord, Goto

LEMMA ReplaceEffect ==
  ASSUME TypeOK, NEW p \in Proc, NEW r, NEW image, NEW good, NEW bad,
         Replace(p, r, image, good, bad)
  PROVE  /\ file' = file \/ file' = [file EXCEPT ![r] = image]
         /\ pc' = [pc EXCEPT ![p] = pc'[p]] /\ pc'[p] \in {good, bad}
         /\ pc'[p] # bad => file' = [file EXCEPT ![r] = image]
  BY DEF TypeOK, Replace, Goto

LEMMA PromoteEffect ==
  ASSUME TypeOK, NEW p \in Proc, NEW a, NEW good, NEW bad, Promote(p, a, good, bad)
  PROVE  /\ dir' = dir \/ dir' = [dir EXCEPT ![a] = "terminal"]
         /\ pc' = [pc EXCEPT ![p] = pc'[p]] /\ pc'[p] \in {good, bad}
  BY DEF TypeOK, Promote, Goto

LEMMA RecordType ==
  ASSUME NEW is \in Resting \union Undoable \union {"PARTIAL"}, NEW r \in File \union {None},
         NEW n \in Nat
  PROVE  Rec(is, r, n) \in Record /\ Rec(is, r, n).is = is /\ Rec(is, r, n).ref = r
  BY DEF Rec, Record

\* ... and the types of what they leave.
LEMMA ForgetType ==
  ASSUME TypeOK, NEW p \in Proc, Goto(p, "idle"), Forget(p)
  PROVE  /\ pc' \in [Proc -> Labels] /\ job' \in [Proc -> Auth \union {None}]
         /\ seen' \in [Proc -> {<<>>} \union UNION {Images(a) : a \in Auth}]
         /\ fixing' \in [Proc -> Auth \union {None}]
         /\ visited' \in [Proc -> SUBSET File] /\ restored' \in [Proc -> Nat]
<1>1. /\ pc \in [Proc -> Labels] /\ job \in [Proc -> Auth \union {None}]
      /\ seen \in [Proc -> {<<>>} \union UNION {Images(a) : a \in Auth}]
      /\ fixing \in [Proc -> Auth \union {None}]
      /\ visited \in [Proc -> SUBSET File] /\ restored \in [Proc -> Nat]
  BY DEF TypeOK, Labels
<1>2. /\ pc' = [pc EXCEPT ![p] = "idle"] /\ job' = [job EXCEPT ![p] = None]
      /\ seen' = [seen EXCEPT ![p] = <<>>] /\ fixing' = [fixing EXCEPT ![p] = None]
      /\ visited' = [visited EXCEPT ![p] = {}] /\ restored' = [restored EXCEPT ![p] = 0]
  BY ForgetEffect
<1>3. seen' \in [Proc -> {<<>>} \union UNION {Images(a) : a \in Auth}]
  BY <1>1, <1>2
<1> QED BY <1>1, <1>2, <1>3 DEF Labels

LEMMA AppendType ==
  ASSUME TypeOK, NEW p \in Proc, NEW a \in Auth, NEW rec \in Record, NEW good \in Held,
         NEW bad \in Held, AppendRecord(p, a, rec, good, bad)
  PROVE  log' \in [Auth -> Seq(Record)] /\ pc' \in [Proc -> Labels]
<1>1. log \in [Auth -> Seq(Record)] /\ Append(log[a], rec) \in Seq(Record)
      /\ pc \in [Proc -> Labels]
  BY DEF TypeOK, Labels
<1>2. log' \in [Auth -> Seq(Record)]
  <2>1. log' = log \/ log' = [log EXCEPT ![a] = Append(@, rec)]
    BY AppendEffect
  <2> QED BY <1>1, <2>1
<1>3. pc' = [pc EXCEPT ![p] = pc'[p]] /\ pc'[p] \in {good, bad}
  BY AppendEffect
<1> QED BY <1>1, <1>2, <1>3, SMTT(40) DEF Labels

LEMMA ReplaceType ==
  ASSUME TypeOK, NEW p \in Proc, NEW r \in File, NEW image \in Image, NEW good \in Held,
         NEW bad \in Held, Replace(p, r, image, good, bad)
  PROVE  file' \in [File -> Image] /\ pc' \in [Proc -> Labels]
<1>1. file \in [File -> Image] /\ pc \in [Proc -> Labels]
  BY DEF TypeOK, Labels
<1>2. /\ file' = file \/ file' = [file EXCEPT ![r] = image]
      /\ pc' = [pc EXCEPT ![p] = pc'[p]] /\ pc'[p] \in {good, bad}
  BY ReplaceEffect
<1> QED BY <1>1, <1>2 DEF Labels

LEMMA PromoteType ==
  ASSUME TypeOK, NEW p \in Proc, NEW a, NEW good \in Held, NEW bad \in Held,
         Promote(p, a, good, bad)
  PROVE  dir' \in [Auth -> {"none", "active", "terminal"}] /\ pc' \in [Proc -> Labels]
<1>1. dir \in [Auth -> {"none", "active", "terminal"}] /\ pc \in [Proc -> Labels]
  BY DEF TypeOK, Labels
<1>2. /\ dir' = dir \/ dir' = [dir EXCEPT ![a] = "terminal"]
      /\ pc' = [pc EXCEPT ![p] = pc'[p]] /\ pc'[p] \in {good, bad}
  BY PromoteEffect
<1> QED BY <1>1, <1>2 DEF Labels

LEMMA LastType ==
  ASSUME TypeOK, NEW a \in Auth, NEW S, LastIs(a, S)
  PROVE  Len(log[a]) \in DOMAIN log[a] /\ Len(log[a]) >= 1 /\ 1 \in DOMAIN log[a]
  BY DEF TypeOK, LastIs

\* The images of a prepared transaction.
LEMMA PreparedFacts ==
  ASSUME TypeOK, Accounts, NEW a \in Auth, NEW S, LastIs(a, S)
  PROVE  Drawn(a, log[a][1].ref) /\ \A r \in Targets(a) : Before(a, r) \in Image
         /\ After(a, r) \in Image
<1>1. Drawn(a, log[a][1].ref)
  BY LastType DEF Accounts, Recorded, Sequence
<1> QED BY <1>1, TargetFacts DEF Drawn, Images, Before, After, Image

\* The target that is attempted and not applied.
LEMMA CurrentFacts ==
  ASSUME Truth, NEW p \in Proc, pc[p] \in {"replace", "account"}, fixing[p] = job[p]
  PROVE  /\ Current(p) \in Targets(job[p])
         /\ Attempts(job[p]) \ Applied(job[p]) = {Current(p)}
<1>1. PICK r \in Targets(job[p]) : Attempts(job[p]) \ Applied(job[p]) = {r}
  BY DEF Truth, InHand
<1>2. \A s \in Attempts(job[p]) : ~Has(job[p], "APPLIED", s) <=> s = r
  BY <1>1 DEF Attempts, Applied
<1>3. Current(p) = r
  BY <1>1, <1>2 DEF Current
<1> QED BY <1>1, <1>3

\* Every step keeps the state well typed.
LEMMA TypeStep == IInv /\ [Next]_vars => TypeOK'
<1> SUFFICES ASSUME TypeOK, Control, Accounts, Truth, [Next]_vars PROVE TypeOK'
  BY DEF IInv
<1> USE DEF Held, Own, Beginning, Labels
<1>1. CASE UNCHANGED vars
  BY <1>1 DEF TypeOK, vars, journal, local
<1>2. ASSUME NEW p \in Proc, NEW a \in Auth, Plan(p, a) PROVE TypeOK'
  <2>1. Snapshot(a) \in Images(a)
    BY TargetFacts DEF Snapshot, Images, TypeOK
  <2> QED BY <1>2, <2>1 DEF TypeOK, Plan, Goto, journal
<1>3. ASSUME NEW p \in Proc, NEW c \in Cr, PlanNothing(p, c) PROVE TypeOK'
  BY <1>3 DEF TypeOK, PlanNothing, Goto, journal
<1>4. ASSUME NEW p \in Proc, Lock(p) PROVE TypeOK'
  <2>1. CASE lock' = p /\ Goto(p, "promote") /\ UNCHANGED <<job, seen, fixing, visited, restored>>
    BY <1>4, <2>1 DEF TypeOK, Lock, Goto, journal
  <2>2. CASE Goto(p, "idle") /\ Forget(p) /\ UNCHANGED lock
    BY <1>4, <2>2, ForgetType DEF TypeOK, Lock, journal, Labels
  <2> QED BY <1>4, <2>1, <2>2 DEF Lock
<1>5. ASSUME NEW p \in Proc, RetryPromotion(p) PROVE TypeOK'
  <2>1. ASSUME NEW a \in Active, Promote(p, a, "promote", "release"),
               UNCHANGED <<file, log, claimed, lock, job, seen, fixing, visited, restored>>
        PROVE TypeOK'
    <3>1. dir' \in [Auth -> {"none", "active", "terminal"}] /\ pc' \in [Proc -> Labels]
      BY <2>1, PromoteType
    <3> QED BY <2>1, <3>1 DEF TypeOK, Labels
  <2>2. ASSUME NEW l \in {"release", "scan"}, GoOn(p, l) PROVE TypeOK'
    BY <2>2 DEF TypeOK, GoOn, Goto, journal
  <2> QED BY <1>5, <2>1, <2>2 DEF RetryPromotion
<1>6. ASSUME NEW p \in Proc, NextActive(p) PROVE TypeOK'
  <2>1. visited' \in [Proc -> SUBSET File] /\ restored' \in [Proc -> Nat]
        /\ fixing' \in [Proc -> Auth \union {None}]
    BY <1>6, ZenonT(60) DEF TypeOK, NextActive, Active
  <2>2. pc' \in [Proc -> Labels]
    <3>1. Goto(p, "admit") \/ Goto(p, "recover")
      BY <1>6 DEF NextActive
    <3> QED BY <3>1 DEF TypeOK, Goto
  <2> QED BY <1>6, <2>1, <2>2 DEF TypeOK, NextActive, journal, Labels
<1>7. ASSUME NEW p \in Proc, LeaveUnrecovered(p) PROVE TypeOK'
  BY <1>7 DEF TypeOK, LeaveUnrecovered, GoOn, Goto, journal
<1>8. ASSUME NEW p \in Proc, AbortUnattempted(p) PROVE TypeOK'
  <2>1. fixing[p] \in Auth /\ Rec("ABORTED", None, 0) \in Record
    BY <1>8, RecordType DEF AbortUnattempted, Control, Controlled, Resting
  <2>2. log' \in [Auth -> Seq(Record)] /\ pc' \in [Proc -> Labels]
    BY <1>8, <2>1, AppendType DEF AbortUnattempted
  <2> QED BY <1>8, <2>2 DEF TypeOK, AbortUnattempted, Labels
<1>9. ASSUME NEW p \in Proc, Undo(p) PROVE TypeOK'
  <2>1. fixing[p] \in Auth
    BY <1>9 DEF Undo, Control, Controlled
  <2>2. PICK r \in Targets(fixing[p]) :
          /\ visited' = [visited EXCEPT ![p] = @ \union {r}]
          /\ \/ UNCHANGED <<file, log, pc, faults>>
             \/ AppendRecord(p, fixing[p], Rec("PARTIAL", r, 0), "release", "release")
                /\ UNCHANGED file
             \/ Replace(p, r, Before(fixing[p], r), "note", "release") /\ UNCHANGED log
    BY <1>9 DEF Undo, ToUndo, Attempts
  <2>3. r \in File /\ Rec("PARTIAL", r, 0) \in Record
    BY <2>1, RecordType, TargetFacts
  <2>4. visited' \in [Proc -> SUBSET File]
    BY <2>2, <2>3 DEF TypeOK
  <2>5. Before(fixing[p], r) \in Image
    BY <1>9, <2>1, PreparedFacts DEF Undo
  <2>6. log' \in [Auth -> Seq(Record)] /\ pc' \in [Proc -> Labels] /\ file' \in [File -> Image]
    <3>0. log \in [Auth -> Seq(Record)] /\ pc \in [Proc -> Labels] /\ file \in [File -> Image]
      BY DEF TypeOK, Labels
    <3>1. CASE UNCHANGED <<file, log, pc, faults>>
      BY <3>0, <3>1
    <3>2. CASE AppendRecord(p, fixing[p], Rec("PARTIAL", r, 0), "release", "release")
               /\ UNCHANGED file
      BY <2>1, <2>3, <3>0, <3>2, AppendType
    <3>3. CASE Replace(p, r, Before(fixing[p], r), "note", "release") /\ UNCHANGED log
      BY <2>3, <2>5, <3>0, <3>3, ReplaceType
    <3> QED BY <2>2, <3>1, <3>2, <3>3
  <2> QED BY <1>9, <2>4, <2>6 DEF TypeOK, Undo, Labels
<1>10. ASSUME NEW p \in Proc, NoteRestored(p) PROVE TypeOK'
  <2>1. PICK r \in visited[p] :
          AppendRecord(p, fixing[p], Rec("RESTORED", r, 0), "recover", "release")
    BY <1>10 DEF NoteRestored
  <2>2. fixing[p] \in Auth /\ r \in File
    BY <1>10 DEF NoteRestored, Control, Controlled, TypeOK
  <2>3. Rec("RESTORED", r, 0) \in Record
    BY <2>2, RecordType DEF Undoable
  <2>4. log' \in [Auth -> Seq(Record)] /\ pc' \in [Proc -> Labels]
    BY <2>1, <2>2, <2>3, AppendType
  <2>5. restored' \in [Proc -> Nat]
    BY <1>10 DEF TypeOK, NoteRestored
  <2> QED BY <1>10, <2>4, <2>5 DEF TypeOK, NoteRestored, Labels
<1>11. ASSUME NEW p \in Proc, FinishUndo(p) PROVE TypeOK'
  <2>1. fixing[p] \in Auth /\ restored[p] \in Nat
    BY <1>11 DEF FinishUndo, Control, Controlled, TypeOK
  <2>2. Rec("RECOVERED", None, restored[p]) \in Record
    BY <2>1, RecordType DEF Resting
  <2>3. log' \in [Auth -> Seq(Record)] /\ pc' \in [Proc -> Labels]
    BY <1>11, <2>1, <2>2, AppendType DEF FinishUndo
  <2> QED BY <1>11, <2>3 DEF TypeOK, FinishUndo, Labels
<1>12. ASSUME NEW p \in Proc, EndRecovery(p) PROVE TypeOK'
  <2>1. CASE GoOn(p, "release")
    BY <2>1 DEF TypeOK, GoOn, Goto, journal
  <2>2. CASE /\ Promote(p, fixing[p], Resumed(p), "release")
             /\ UNCHANGED <<file, log, claimed, lock, job, seen, fixing, visited, restored>>
    <3>1. Resumed(p) \in Held
      BY DEF Resumed
    <3>2. dir' \in [Auth -> {"none", "active", "terminal"}] /\ pc' \in [Proc -> Labels]
      BY <2>2, <3>1, PromoteType
    <3> QED BY <2>2, <3>2 DEF TypeOK, Labels
  <2> QED BY <1>12, <2>1, <2>2 DEF EndRecovery
<1>13. ASSUME NEW p \in Proc, Admit(p) PROVE TypeOK'
  BY <1>13 DEF TypeOK, Admit, GoOn, Goto, journal
<1>14. ASSUME NEW p \in Proc, Claim(p) PROVE TypeOK'
  <2>1. job[p] \in Auth
    BY <1>14 DEF Claim, Control, Controlled
  <2> QED BY <1>14, <2>1, ZenonT(60) DEF TypeOK, Claim, Goto, journal
<1>15. ASSUME NEW p \in Proc, Prepare(p) PROVE TypeOK'
  <2>1. job[p] \in Auth /\ Prepared(seen[p]) \in Record
    BY <1>15 DEF Prepare, Control, Controlled, Drawn, Prepared, Record
  <2>2. log' \in [Auth -> Seq(Record)] /\ pc' \in [Proc -> Labels]
    BY <1>15, <2>1, AppendType DEF Prepare
  <2>3. /\ dir' \in [Auth -> {"none", "active", "terminal"}]
        /\ fixing' \in [Proc -> Auth \union {None}]
        /\ seen' \in [Proc -> {<<>>} \union UNION {Images(a) : a \in Auth}]
    BY <1>15, <2>1 DEF TypeOK, Prepare
  <2> QED BY <1>15, <2>2, <2>3 DEF TypeOK, Prepare, Labels
<1>16. ASSUME NEW p \in Proc, Attempt(p) PROVE TypeOK'
  <2>1. PICK r \in Targets(job[p]) :
          AppendRecord(p, job[p], Rec("ATTEMPTED", r, 0), "replace", "recover")
    BY <1>16 DEF Attempt
  <2>2. job[p] \in Auth /\ Rec("ATTEMPTED", r, 0) \in Record
    BY <1>16, RecordType, TargetFacts DEF Attempt, Control, Controlled, Undoable
  <2>3. log' \in [Auth -> Seq(Record)] /\ pc' \in [Proc -> Labels]
    BY <2>1, <2>2, AppendType
  <2> QED BY <1>16, <2>3 DEF TypeOK, Attempt, Labels
<1>17. ASSUME NEW p \in Proc, ReplaceTarget(p) PROVE TypeOK'
  <2>1. job[p] \in Auth /\ fixing[p] = job[p] /\ LastIs(job[p], {"ATTEMPTED"})
    BY <1>17 DEF ReplaceTarget, Control, Controlled, Accounts, Stage
  <2>2. Current(p) \in Targets(job[p])
    BY <1>17, <2>1, CurrentFacts DEF ReplaceTarget
  <2>3. Current(p) \in File /\ After(job[p], Current(p)) \in Image
    BY <2>1, <2>2, PreparedFacts, TargetFacts
  <2>4. CASE Replace(p, Current(p), After(job[p], Current(p)), "account", "recover")
    <3>1. file' \in [File -> Image] /\ pc' \in [Proc -> Labels]
      BY <2>3, <2>4, ReplaceType
    <3> QED BY <1>17, <3>1 DEF TypeOK, ReplaceTarget, Labels, journal
  <2>5. CASE Goto(p, "recover") /\ UNCHANGED <<file, faults>>
    BY <1>17, <2>5 DEF TypeOK, ReplaceTarget, Goto, journal
  <2> QED BY <1>17, <2>4, <2>5 DEF ReplaceTarget
<1>18. ASSUME NEW p \in Proc, Account(p) PROVE TypeOK'
  <2>1. job[p] \in Auth /\ fixing[p] = job[p]
    BY <1>18 DEF Account, Control, Controlled
  <2>2. Current(p) \in File
    BY <1>18, <2>1, CurrentFacts, TargetFacts DEF Account
  <2>3. Rec("APPLIED", Current(p), 0) \in Record
    BY <2>2, RecordType DEF Undoable
  <2>4. log' \in [Auth -> Seq(Record)] /\ pc' \in [Proc -> Labels]
    BY <1>18, <2>1, <2>3, AppendType DEF Account
  <2> QED BY <1>18, <2>4 DEF TypeOK, Account, Labels
<1>19. ASSUME NEW p \in Proc, Commit(p) PROVE TypeOK'
  <2>1. job[p] \in Auth /\ Rec("COMMITTED", None, 0) \in Record
    BY <1>19, RecordType DEF Commit, Control, Controlled, Resting
  <2>2. log' \in [Auth -> Seq(Record)] /\ pc' \in [Proc -> Labels]
    BY <1>19, <2>1, AppendType DEF Commit
  <2> QED BY <1>19, <2>2 DEF TypeOK, Commit, Labels
<1>20. ASSUME NEW p \in Proc, PromoteOwn(p) PROVE TypeOK'
  <2>1. dir' \in [Auth -> {"none", "active", "terminal"}] /\ pc' \in [Proc -> Labels]
    BY <1>20, PromoteType DEF PromoteOwn
  <2> QED BY <1>20, <2>1 DEF TypeOK, PromoteOwn, Labels
<1>21. ASSUME NEW p \in Proc, Release(p) PROVE TypeOK'
  BY <1>21, ForgetType DEF TypeOK, Release, journal, Labels
<1>22. ASSUME NEW p \in Proc, Crash(p) PROVE TypeOK'
  <2>1. lock' \in Proc \union {None, Left}
    BY <1>22 DEF TypeOK, Crash
  <2> QED BY <1>22, <2>1, ForgetType DEF TypeOK, Crash, journal, Labels
<1>23. CASE ForeignWrite
  BY <1>23 DEF TypeOK, ForeignWrite, File, Image, journal, local
<1> QED
   BY <1>1, <1>2, <1>3, <1>4, <1>5, <1>6, <1>7, <1>8, <1>9, <1>10, <1>11, <1>12, <1>13, <1>14,
     <1>15, <1>16, <1>17, <1>18, <1>19, <1>20, <1>21, <1>22, <1>23 DEF Next, Step

-----------------------------------------------------------------------------
Act(p) ==
  Step(p) \/ Crash(p) \/ (\E a \in Auth : Plan(p, a)) \/ \E c \in Cr : PlanNothing(p, c)

\* Who has the lock is alone, and a step leaves the other processes alone.
LEMMA Alone ==
  ASSUME Control, NEW p \in Proc, NEW q \in Proc, pc[p] \in Held, pc[q] \in Held
  PROVE  p = q
  BY DEF Control, Controlled

Same(q) == /\ pc'[q] = pc[q] /\ job'[q] = job[q] /\ seen'[q] = seen[q]
           /\ fixing'[q] = fixing[q] /\ visited'[q] = visited[q]
           /\ lock' = q <=> lock = q

LEMMA Locality ==
  ASSUME TypeOK, Control, NEW p \in Proc, Act(p), NEW q \in Proc, q # p
  PROVE  Same(q)
<1> USE DEF Same
<1>1. ASSUME NEW a \in Auth, Plan(p, a) PROVE Same(q)
  BY <1>1 DEF TypeOK, Plan, Goto
<1>2. ASSUME NEW c \in Cr, PlanNothing(p, c) PROVE Same(q)
  BY <1>2 DEF TypeOK, PlanNothing, Goto
<1>3. CASE Lock(p)
  <2>1. CASE lock = None /\ lock' = p /\ Goto(p, "promote")
             /\ UNCHANGED <<job, seen, fixing, visited, restored>>
    BY <2>1 DEF TypeOK, Goto
  <2>2. CASE Goto(p, "idle") /\ Forget(p) /\ UNCHANGED lock
    BY <2>2 DEF TypeOK, Goto, Forget
  <2> QED BY <1>3, <2>1, <2>2 DEF Lock
<1>4. ASSUME NEW l, GoOn(p, l) PROVE Same(q)
  BY <1>4 DEF TypeOK, GoOn, Goto
<1>5. ASSUME NEW a, NEW good, NEW bad, Promote(p, a, good, bad),
             UNCHANGED <<file, log, claimed, lock, job, seen, fixing, visited, restored>>
      PROVE  Same(q)
  BY <1>5 DEF TypeOK, Promote, Goto
<1>6. CASE RetryPromotion(p)
  BY <1>4, <1>5, <1>6 DEF RetryPromotion
<1>7. CASE NextActive(p)
  BY <1>7 DEF TypeOK, NextActive, Goto
<1>8. CASE LeaveUnrecovered(p) \/ Admit(p)
  BY <1>4, <1>8 DEF LeaveUnrecovered, Admit
<1>9. CASE EndRecovery(p) \/ PromoteOwn(p)
  BY <1>4, <1>5, <1>9 DEF EndRecovery, PromoteOwn
<1>10. ASSUME NEW a, NEW rec, NEW good, NEW bad, AppendRecord(p, a, rec, good, bad)
       PROVE  pc'[q] = pc[q]
  BY <1>10 DEF TypeOK, AppendRecord, Goto
<1>11. ASSUME NEW r, NEW image, NEW good, NEW bad, Replace(p, r, image, good, bad)
       PROVE  pc'[q] = pc[q]
  BY <1>11 DEF TypeOK, Replace, Goto
<1>12. CASE AbortUnattempted(p) \/ FinishUndo(p) \/ Commit(p)
  BY <1>10, <1>12 DEF AbortUnattempted, FinishUndo, Commit
<1>13. CASE Attempt(p) \/ Account(p)
  BY <1>10, <1>13 DEF Attempt, Account
<1>14. CASE NoteRestored(p)
  BY <1>10, <1>14 DEF NoteRestored
<1>15. CASE Undo(p)
  <2>1. PICK r : visited' = [visited EXCEPT ![p] = @ \union {r}]
    BY <1>15 DEF Undo
  <2>2. pc'[q] = pc[q]
    BY <1>10, <1>11, <1>15 DEF Undo
  <2> QED BY <1>15, <2>1, <2>2 DEF TypeOK, Undo
<1>16. CASE ReplaceTarget(p)
  <2>1. pc'[q] = pc[q]
    BY <1>11, <1>16 DEF TypeOK, ReplaceTarget, Goto
  <2> QED BY <1>16, <2>1 DEF ReplaceTarget
<1>17. CASE Claim(p)
  BY <1>17 DEF TypeOK, Claim, Goto
<1>18. CASE Prepare(p)
  <2>1. pc'[q] = pc[q]
    BY <1>10, <1>18 DEF Prepare
  <2> QED BY <1>18, <2>1 DEF TypeOK, Prepare
<1>19. CASE Release(p)
  <2>1. lock = p /\ lock' = None
    BY <1>19 DEF Release, Control, Controlled, Held
  <2> QED BY <1>19, <2>1 DEF TypeOK, Release, Goto, Forget
<1>20. CASE Crash(p)
  BY <1>20 DEF TypeOK, Crash, Goto, Forget
<1> QED
   BY <1>1, <1>2, <1>3, <1>6, <1>7, <1>8, <1>9, <1>12, <1>13, <1>14, <1>15, <1>16, <1>17,
     <1>18, <1>19, <1>20 DEF Act, Step

\* What a step goes on to, and with what.
LEMMA ControlStep == IInv /\ [Next]_vars => Control'
<1> SUFFICES ASSUME TypeOK, Control, Accounts, Truth, [Next]_vars PROVE Control'
  BY DEF IInv
<1> USE DEF Held, Own, Beginning
<1>0. ASSUME NEW p \in Proc, Controlled(p)', Act(p) PROVE Control'
  BY <1>0, Locality DEF Control, Controlled, Same
<1>1. ASSUME NEW p \in Proc, Act(p) PROVE Controlled(p)'
  <2> USE DEF Controlled
  <2>0. Controlled(p) /\ pc[p] \in Labels
    BY DEF Control, TypeOK
  <2>1. ASSUME NEW a \in Auth, Plan(p, a) PROVE Controlled(p)'
    <3>1. seen'[p] = Snapshot(a) /\ job'[p] = a /\ pc'[p] = "planned" /\ lock' = lock
      BY <2>1 DEF TypeOK, Plan, Goto
    <3>2. Drawn(a, Snapshot(a)) /\ Snapshot(a) # <<>>
      <4>1. Snapshot(a) \in Images(a)
        BY TargetFacts DEF Snapshot, Images, TypeOK
      <4>2. \A r \in Targets(a) : CrOf[a] \notin Snapshot(a)[r]
        BY <2>1 DEF Plan, Ready, Snapshot, Targets
      <4> QED BY <4>1, <4>2, TargetFacts DEF Drawn
    <3>3. lock # p
      BY <2>0, <2>1 DEF Plan
    <3> QED BY <3>1, <3>2, <3>3 DEF Drawn
  <2>2. ASSUME NEW c \in Cr, PlanNothing(p, c) PROVE Controlled(p)'
    <3>1. pc'[p] = "planned" /\ pc[p] = "idle" /\ UNCHANGED <<lock, job, seen, fixing>>
      BY <2>2 DEF TypeOK, PlanNothing, Goto
    <3>2. job[p] = None
      BY <2>0, <3>1
    <3> QED BY <2>0, <3>1, <3>2
  <2>3. CASE Lock(p)
    <3>1. CASE lock' = p /\ Goto(p, "promote") /\ UNCHANGED <<job, seen, fixing, visited, restored>>
      BY <2>0, <2>3, <3>1 DEF TypeOK, Lock, Goto
    <3>2. CASE Goto(p, "idle") /\ Forget(p) /\ UNCHANGED lock
      BY <2>0, <2>3, <3>2 DEF TypeOK, Lock, Goto, Forget
    <3> QED BY <2>3, <3>1, <3>2 DEF Lock
  <2>4. ASSUME NEW l, GoOn(p, l)
        PROVE  pc'[p] = l /\ UNCHANGED <<lock, job, seen, fixing, visited>>
    BY <2>4 DEF TypeOK, GoOn, Goto
  <2>5. CASE RetryPromotion(p)
    <3>1. UNCHANGED <<lock, job, seen, fixing>>
      BY <2>4, <2>5 DEF RetryPromotion
    <3>2. pc'[p] \in {"promote", "release"} \/ (pc'[p] = "scan" /\ job[p] # None)
      <4>1. ASSUME NEW a, Promote(p, a, "promote", "release")
            PROVE pc'[p] \in {"promote", "release"}
        BY <4>1, PromoteEffect
      <4> QED BY <2>4, <2>5, <4>1 DEF RetryPromotion
    <3> QED BY <2>0, <2>5, <3>1, <3>2 DEF RetryPromotion
  <2>6. CASE NextActive(p)
    <3>1. UNCHANGED <<lock, job, seen>> /\ pc[p] = "scan"
      BY <2>6 DEF NextActive
    <3>2. pc'[p] = "admit" \/ (pc'[p] = "recover" /\ fixing'[p] \in Auth)
      BY <2>6 DEF TypeOK, NextActive, Goto, Active
    <3> QED BY <2>0, <3>1, <3>2
  <2>7. CASE LeaveUnrecovered(p)
    BY <2>0, <2>4, <2>7 DEF LeaveUnrecovered
  <2>8. CASE Admit(p)
    BY <2>0, <2>4, <2>8 DEF Admit
  <2>9. CASE EndRecovery(p)
    <3>1. UNCHANGED <<lock, job, seen, fixing>> /\ pc[p] \in {"end", "recover"}
      BY <2>4, <2>9 DEF EndRecovery
    <3>2. pc'[p] = "release" \/ (pc'[p] = "scan" /\ seen[p] # <<>>)
      <4>1. ASSUME Promote(p, fixing[p], Resumed(p), "release")
            PROVE pc'[p] \in {Resumed(p), "release"}
        BY <4>1, PromoteEffect
      <4> QED BY <2>4, <2>9, <4>1 DEF EndRecovery, Resumed
    <3> QED BY <2>0, <3>1, <3>2
  <2>10. CASE PromoteOwn(p)
    <3>1. pc'[p] \in {"release", "recover"}
      BY <2>10, PromoteEffect DEF PromoteOwn
    <3> QED BY <2>0, <2>10, <3>1 DEF PromoteOwn
  <2>11. ASSUME NEW a, NEW rec, NEW good, NEW bad, AppendRecord(p, a, rec, good, bad)
         PROVE  pc'[p] \in {good, bad}
    BY <2>11, AppendEffect
  <2>12. CASE AbortUnattempted(p)
    BY <2>0, <2>11, <2>12 DEF AbortUnattempted
  <2>13. CASE Undo(p)
    <3>1. pc'[p] \in {"recover", "release", "note"}
      <4>1. ASSUME NEW r, Replace(p, r, Before(fixing[p], r), "note", "release")
            PROVE  pc'[p] \in {"note", "release"}
        BY <4>1, ReplaceEffect
      <4> QED BY <2>11, <2>13, <4>1 DEF Undo
    <3> QED BY <2>0, <2>13, <3>1 DEF Undo
  <2>14. CASE NoteRestored(p)
    BY <2>0, <2>11, <2>14 DEF NoteRestored
  <2>15. CASE FinishUndo(p)
    BY <2>0, <2>11, <2>15 DEF FinishUndo
  <2>16. CASE Claim(p)
    <3>1. pc'[p] \in {"release", "prepare"}
      BY <2>16 DEF TypeOK, Claim, Goto
    <3> QED BY <2>0, <2>16, <3>1 DEF Claim
  <2>17. CASE Prepare(p)
    <3>1. pc'[p] \in {"next", "release"} /\ seen'[p] = <<>> /\ fixing'[p] = job[p]
      BY <2>11, <2>17 DEF TypeOK, Prepare
    <3> QED BY <2>0, <2>17, <3>1 DEF Prepare
  <2>18. CASE Attempt(p)
    BY <2>0, <2>11, <2>18 DEF Attempt
  <2>19. CASE ReplaceTarget(p)
    <3>1. pc'[p] \in {"account", "recover"}
      <4>1. ASSUME Replace(p, Current(p), After(job[p], Current(p)), "account", "recover")
            PROVE  pc'[p] \in {"account", "recover"}
        BY <4>1, ReplaceEffect
      <4> QED BY <2>19, <4>1 DEF TypeOK, ReplaceTarget, Goto
    <3> QED BY <2>0, <2>19, <3>1 DEF ReplaceTarget
  <2>20. CASE Account(p)
    BY <2>0, <2>11, <2>20 DEF Account
  <2>21. CASE Commit(p)
    BY <2>0, <2>11, <2>21 DEF Commit
  <2>22. CASE Release(p)
    <3>1. pc'[p] = "idle" /\ seen'[p] = <<>> /\ job'[p] = None /\ lock' = None
      BY <2>22 DEF TypeOK, Release, Goto, Forget
    <3>2. lock' # p
      BY <3>1
    <3> QED BY <3>1, <3>2
  <2>23. CASE Crash(p)
    <3>1. pc'[p] = "idle" /\ seen'[p] = <<>> /\ job'[p] = None /\ lock' # p
      BY <2>23 DEF TypeOK, Crash, Goto, Forget
    <3> QED BY <3>1
  <2> QED
     BY <1>1, <2>1, <2>2, <2>3, <2>5, <2>6, <2>7, <2>8, <2>9, <2>10, <2>12, <2>13, <2>14,
       <2>15, <2>16, <2>17, <2>18, <2>19, <2>20, <2>21, <2>22, <2>23 DEF Act, Step
<1>2. CASE UNCHANGED vars
  BY <1>2 DEF vars, journal, local, Control, Controlled, Drawn, Images
<1>3. CASE ForeignWrite
  BY <1>3 DEF ForeignWrite, journal, local, Control, Controlled, Drawn, Images
<1> QED BY <1>0, <1>1, <1>2, <1>3 DEF Next, Act

-----------------------------------------------------------------------------
\* A process whose command is under way when another one acts finds everything as it was.
LEMMA Bystander ==
  ASSUME TypeOK, Control, NEW p \in Proc, Act(p), NEW q \in Proc, q # p, pc'[q] \in Held
  PROVE  UNCHANGED <<file, log, dir, claimed>>
<1>1. pc[q] \in Held
  BY Locality DEF Same
<1>2. pc[p] \notin Held
  BY <1>1, Alone
<1>3. pc[p] \in {"idle", "planned"}
  BY <1>2 DEF TypeOK, Labels
<1>4. CASE Lock(p) \/ Crash(p)
  BY <1>4 DEF Lock, Crash, journal
<1>5. CASE (\E a \in Auth : Plan(p, a)) \/ \E c \in Cr : PlanNothing(p, c)
  BY <1>5 DEF Plan, PlanNothing, journal
<1>6. CASE Step(p) /\ ~Lock(p)
   BY <1>3, <1>6 DEF Step, RetryPromotion, NextActive, LeaveUnrecovered, AbortUnattempted,
     Undo, NoteRestored, FinishUndo, EndRecovery, Admit, Claim, Prepare, Attempt,
     ReplaceTarget, Account, Commit, PromoteOwn, Release
<1> QED BY <1>4, <1>5, <1>6 DEF Act

\* What the records say of a transaction that gets none, and of one that gets one more.
LEMMA SameLog ==
  ASSUME NEW a \in Auth, log'[a] = log[a]
  PROVE  /\ Sequence(a)' = Sequence(a) /\ Open(a)' = Open(a) /\ Committed(a)' = Committed(a)
         /\ Attempts(a)' = Attempts(a) /\ Applied(a)' = Applied(a)
         /\ \A S : LastIs(a, S)' = LastIs(a, S)
  BY DEF Sequence, Drawn, Images, Open, Committed, Attempts, Applied, Has, LastIs, Targets

LEMMA AppendFacts ==
  ASSUME TypeOK, NEW a \in Auth, NEW rec \in Record, log' = [log EXCEPT ![a] = Append(@, rec)],
         rec.is # "PREPARED", log[a] # <<>>
  PROVE  /\ \A b \in Auth \ {a} : log'[b] = log[b]
         /\ log'[a] # <<>> /\ \A S : LastIs(a, S)' <=> rec.is \in S
         /\ Sequence(a) => Sequence(a)'
         /\ Attempts(a)' = IF rec.is = "ATTEMPTED" THEN Attempts(a)
            \union ({rec.ref} \intersect Targets(a)) ELSE Attempts(a)
         /\ Applied(a)' = IF rec.is = "APPLIED" THEN Applied(a)
            \union ({rec.ref} \intersect Targets(a)) ELSE Applied(a)
<1> DEFINE s == log[a]
           t == log'[a]
<1>1. s \in Seq(Record) /\ s # <<>> /\ t = Append(s, rec)
  BY DEF TypeOK
<1>2. /\ Len(s) \in Nat /\ Len(s) >= 1 /\ Len(t) = Len(s) + 1 /\ t[Len(t)] = rec
      /\ DOMAIN s = 1..Len(s) /\ DOMAIN t = 1..Len(t) /\ \A i \in 1..Len(s) : t[i] = s[i]
  BY <1>1
<1>3. \A b \in Auth \ {a} : log'[b] = log[b]
  BY DEF TypeOK
<1>4. t # <<>> /\ \A S : LastIs(a, S)' <=> rec.is \in S
  BY <1>2 DEF LastIs
<1>5. \A is, r : (\E i \in DOMAIN t : t[i].is = is /\ t[i].ref = r)
                   <=> (\E i \in DOMAIN s : s[i].is = is /\ s[i].ref = r)
                       \/ (rec.is = is /\ rec.ref = r)
  BY <1>2
<1>6. Sequence(a) => Sequence(a)'
  BY <1>2 DEF Sequence, Drawn, Images
<1>7. \A is, r : Has(a, is, r)' <=> Has(a, is, r) \/ (rec.is = is /\ rec.ref = r)
  BY <1>5 DEF Has
<1>8. /\ \A r : Has(a, "ATTEMPTED", r)'
         <=> Has(a, "ATTEMPTED", r) \/ (rec.is = "ATTEMPTED" /\ rec.ref = r)
      /\ \A r : Has(a, "APPLIED", r)'
         <=> Has(a, "APPLIED", r) \/ (rec.is = "APPLIED" /\ rec.ref = r)
  BY <1>7
<1> HIDE DEF s, t
<1>9. /\ Attempts(a)' = {r \in Targets(a) : Has(a, "ATTEMPTED", r)'}
      /\ Applied(a)' = {r \in Targets(a) : Has(a, "APPLIED", r)'}
  BY DEF Attempts, Applied, Targets
<1>10. Attempts(a)' = IF rec.is = "ATTEMPTED" THEN Attempts(a)
       \union ({rec.ref} \intersect Targets(a)) ELSE Attempts(a)
  BY <1>8, <1>9 DEF Attempts
<1>11. Applied(a)' = IF rec.is = "APPLIED" THEN Applied(a)
       \union ({rec.ref} \intersect Targets(a)) ELSE Applied(a)
  BY <1>8, <1>9 DEF Applied
<1> QED BY <1>3, <1>4, <1>6, <1>10, <1>11

LEMMA PrepareFacts ==
  ASSUME TypeOK, NEW a \in Auth, NEW images, Drawn(a, images), log[a] = <<>>,
         log' = [log EXCEPT ![a] = Append(@, Prepared(images))]
  PROVE  /\ \A b \in Auth \ {a} : log'[b] = log[b]
         /\ Sequence(a)' /\ Attempts(a)' = {} /\ Applied(a)' = {}
         /\ \A S : LastIs(a, S)' <=> "PREPARED" \in S
<1>1. log'[a] = <<Prepared(images)>> /\ \A b \in Auth \ {a} : log'[b] = log[b]
  BY DEF TypeOK
<1>2. Prepared(images).is = "PREPARED" /\ Prepared(images).ref = images
  BY DEF Prepared
<1>3. Sequence(a)'
  BY <1>1, <1>2 DEF Sequence, Drawn, Images
<1>4. \A S : LastIs(a, S)' <=> "PREPARED" \in S
  BY <1>1, <1>2 DEF LastIs
<1>5. Attempts(a)' = {} /\ Applied(a)' = {}
  BY <1>1, <1>2 DEF Attempts, Applied, Has
<1> QED BY <1>1, <1>3, <1>4, <1>5

\* The accounts hold when nothing is recorded, and when an open transaction gets a record.
LEMMA RestKept ==
  ASSUME Accounts, log' = log, claimed \subseteq claimed',
         \A a \in Auth : Open(a) => dir'[a] = dir[a]
  PROVE  (\A a \in Auth : Recorded(a)') /\ OneOpen'
<1>1. \A a \in Auth : Sequence(a)' = Sequence(a) /\ Open(a)' = Open(a)
  BY SameLog
<1> QED BY <1>1 DEF Accounts, Recorded, OneOpen

LEMMA AppendKept ==
  ASSUME TypeOK, Accounts, NEW a \in Auth, Open(a), NEW rec \in Record, rec.is # "PREPARED",
         log' = [log EXCEPT ![a] = Append(@, rec)], UNCHANGED <<dir, claimed>>
  PROVE  /\ (\A b \in Auth : Recorded(b)') /\ OneOpen'
         /\ \A b \in Auth : Open(b)' => b = a
<1>1. log[a] # <<>>
  BY DEF Open, LastIs
<1>2. \A b \in Auth \ {a} : Sequence(b)' = Sequence(b) /\ Open(b)' = Open(b) /\ log'[b] = log[b]
  BY <1>1, AppendFacts, SameLog
<1>3. Sequence(a)'
  BY <1>1, AppendFacts DEF Accounts, Recorded
<1>4. \A b \in Auth : Open(b)' => b = a
  BY <1>2 DEF Accounts, OneOpen
<1> QED BY <1>1, <1>2, <1>3, <1>4 DEF Accounts, Recorded, OneOpen

LEMMA AppendsKept ==
  ASSUME TypeOK, Accounts, NEW p \in Proc, NEW a \in Auth, Open(a),
         NEW is \in Resting \union Undoable \union {"PARTIAL"}, NEW r \in File \union {None},
         NEW n \in Nat, NEW good, NEW bad,
         AppendRecord(p, a, Rec(is, r, n), good, bad), UNCHANGED <<dir, claimed>>
  PROVE  /\ (\A b \in Auth : Recorded(b)') /\ OneOpen'
         /\ pc'[p] \in {good, bad}
         /\ pc'[p] # bad => \A S : LastIs(a, S)' <=> is \in S
<1>1. Rec(is, r, n) \in Record /\ Rec(is, r, n).is = is /\ is # "PREPARED"
  BY RecordType DEF Resting, Undoable
<1>2. /\ log' = log \/ log' = [log EXCEPT ![a] = Append(@, Rec(is, r, n))]
      /\ pc'[p] \in {good, bad}
      /\ pc'[p] # bad => log' = [log EXCEPT ![a] = Append(@, Rec(is, r, n))]
  BY AppendEffect
<1>3. log' = log => (\A b \in Auth : Recorded(b)') /\ OneOpen'
  BY RestKept
<1>4. log' = [log EXCEPT ![a] = Append(@, Rec(is, r, n))] =>
        (\A b \in Auth : Recorded(b)') /\ OneOpen'
  BY <1>1, AppendKept
<1>5. log[a] # <<>>
  BY DEF Open, LastIs
<1>6. pc'[p] # bad => \A S : LastIs(a, S)' <=> is \in S
  BY <1>1, <1>2, <1>5, AppendFacts
<1> QED BY <1>2, <1>3, <1>4, <1>6

LEMMA AccountsStep == IInv /\ [Next]_vars => Accounts'
<1> SUFFICES ASSUME TypeOK, Control, Accounts, Truth, [Next]_vars PROVE Accounts'
  BY DEF IInv
<1> DEFINE Kept == (\A a \in Auth : Recorded(a)') /\ OneOpen'
<1>0. ASSUME NEW p \in Proc, Act(p), NEW q \in Proc, q # p PROVE Stage(q)'
  <2>1. CASE pc'[q] \in Held
    <3>1. UNCHANGED <<file, log, dir, claimed>> /\ Same(q)
      BY <1>0, <2>1, Bystander, Locality
    <3> QED BY <3>1 DEF Same, Accounts, Stage, LastIs, Active
  <2>2. CASE pc'[q] \notin Held
    BY <2>2 DEF Stage, Held, Beginning, Own
  <2> QED BY <2>1, <2>2
<1>1. ASSUME NEW p \in Proc, Act(p) PROVE Kept /\ Stage(p)'
  <2>0. Controlled(p) /\ Stage(p)
    BY DEF Control, Accounts
  <2>1. log' = log /\ dir' = dir /\ claimed' = claimed => Kept
    BY RestKept
  <2>2. ASSUME NEW a \in Auth, Plan(p, a) PROVE Kept /\ Stage(p)'
    BY <2>1, <2>2 DEF TypeOK, Plan, Goto, journal, Stage, Beginning
  <2>3. ASSUME NEW c \in Cr, PlanNothing(p, c) PROVE Kept /\ Stage(p)'
    BY <2>1, <2>3 DEF TypeOK, PlanNothing, Goto, journal, Stage, Beginning
  <2>4. CASE Lock(p)
    <3>1. pc'[p] \in {"idle", "promote"}
      BY <2>4 DEF TypeOK, Lock, Goto
    <3> QED BY <2>1, <2>4, <3>1 DEF Lock, journal, Stage, Beginning
  <2>5. ASSUME NEW l, GoOn(p, l)
        PROVE  Kept /\ pc'[p] = l /\ UNCHANGED <<log, dir, claimed, job, fixing>>
    BY <2>1, <2>5 DEF TypeOK, GoOn, Goto, journal
  <2>6. ASSUME NEW a \in Auth, ~Open(a), NEW good, NEW bad, Promote(p, a, good, bad),
               UNCHANGED <<log, claimed>>
        PROVE  Kept /\ pc'[p] \in {good, bad}
    <3>1. \A b \in Auth : Open(b) => dir'[b] = dir[b]
      <4>1. dir' = dir \/ dir' = [dir EXCEPT ![a] = "terminal"]
        BY <2>6, PromoteEffect
      <4>2. DOMAIN dir = Auth
        BY DEF TypeOK
      <4> QED BY <2>6, <4>1, <4>2
    <3> QED BY <2>6, <3>1, RestKept, PromoteEffect
  <2>7. \A a \in Auth : LastIs(a, Promotable) \/ LastIs(a, {"COMMITTED"}) => ~Open(a)
    BY DEF LastIs, Promotable, Open
  <2>8. CASE RetryPromotion(p)
    <3>1. ASSUME NEW a \in Active, LastIs(a, Promotable), Promote(p, a, "promote", "release"),
                 UNCHANGED <<log, claimed>>
          PROVE  Kept /\ Stage(p)'
      BY <2>6, <2>7, <3>1 DEF Active, Stage, Beginning
    <3>2. ASSUME NEW l \in {"release", "scan"}, GoOn(p, l) PROVE Kept /\ Stage(p)'
      BY <2>5, <3>2 DEF Stage, Beginning
    <3> QED BY <2>8, <3>1, <3>2 DEF RetryPromotion
  <2>9. CASE NextActive(p)
    <3>1. Kept
      BY <2>1, <2>9 DEF NextActive, journal
    <3>2. pc'[p] = "recover" \/ (pc'[p] = "admit" /\ Active' = {})
      BY <2>9 DEF TypeOK, NextActive, Goto, journal, Active
    <3> QED BY <3>1, <3>2 DEF Stage, Beginning
  <2>10. CASE LeaveUnrecovered(p)
    BY <2>5, <2>10 DEF LeaveUnrecovered, Stage, Beginning
  <2>11. CASE EndRecovery(p)
    <3>1. fixing[p] \in Auth /\ ~Open(fixing[p])
      BY <2>0, <2>11 DEF EndRecovery, Controlled, Stage, Promotable, LastIs, Open
    <3>2. Kept /\ pc'[p] \in {"scan", "release"}
      BY <2>5, <2>6, <2>11, <3>1 DEF EndRecovery, Resumed
    <3> QED BY <3>2 DEF Stage, Beginning
  <2>12. CASE Admit(p)
    <3>1. Kept /\ pc'[p] \in {"claim", "release"} /\ dir' = dir
      BY <2>5, <2>12 DEF Admit
    <3>2. Active' = {}
      BY <2>0, <2>12, <3>1 DEF Admit, Stage, Beginning, Active
    <3> QED BY <3>1, <3>2 DEF Stage
  <2>13. CASE Claim(p)
    <3>1. /\ claimed \subseteq claimed' /\ UNCHANGED <<log, dir, job>>
          /\ \/ pc'[p] = "release"
             \/ pc'[p] = "prepare" /\ job[p] \notin claimed /\ job[p] \in claimed'
      BY <2>13 DEF TypeOK, Claim, Goto, journal
    <3>2. Kept
      BY <3>1, RestKept
    <3>3. Active' = {} /\ (job[p] \notin claimed => log[job[p]] = <<>>)
      BY <2>0, <2>13, <3>1 DEF Claim, Controlled, Stage, Beginning, Active, Accounts, Recorded
    <3> QED BY <3>1, <3>2, <3>3 DEF Stage
  <2>14. CASE PromoteOwn(p)
    <3>1. job[p] \in Auth /\ ~Open(job[p])
      BY <2>0, <2>7, <2>14 DEF PromoteOwn, Controlled, Stage, Own
    <3>2. Kept /\ pc'[p] \in {"release", "recover"}
      BY <2>6, <2>14, <3>1 DEF PromoteOwn
    <3> QED BY <3>2 DEF Stage, Beginning
  <2>15. ASSUME fixing[p] \in Auth, Open(fixing[p]),
                NEW is \in Resting \union Undoable \union {"PARTIAL"}, NEW r \in File \union {None},
                NEW n \in Nat, NEW good, NEW bad,
                AppendRecord(p, fixing[p], Rec(is, r, n), good, bad),
                UNCHANGED <<dir, claimed, fixing>>
         PROVE  /\ Kept /\ pc'[p] \in {good, bad}
                /\ pc'[p] # bad => \A S : is \in S => LastIs(fixing[p], S)'
    <3>1. PICK a \in Auth : a = fixing[p]
      BY <2>15
    <3>2. /\ Kept /\ pc'[p] \in {good, bad}
          /\ pc'[p] # bad => \A S : LastIs(a, S)' <=> is \in S
      BY <2>15, <3>1, AppendsKept
    <3>3. fixing'[p] = a
      BY <2>15, <3>1
    <3> QED BY <3>2, <3>3 DEF LastIs
  <2>16. CASE AbortUnattempted(p)
    <3>1. fixing[p] \in Auth /\ Open(fixing[p])
      BY <2>0, <2>16 DEF AbortUnattempted, Controlled, LastIs, Open
    <3>2. /\ Kept /\ pc'[p] \in {"end", "release"}
          /\ pc'[p] # "release" => LastIs(fixing[p], {"ABORTED", "RECOVERED"})'
      <4>1. /\ AppendRecord(p, fixing[p], Rec("ABORTED", None, 0), "end", "release")
            /\ UNCHANGED <<dir, claimed, fixing>>
        BY <2>16 DEF AbortUnattempted
      <4>2. "ABORTED" \in Resting /\ 0 \in Nat
        BY DEF Resting
      <4> QED BY <2>15, <3>1, <4>1, <4>2
    <3> QED BY <3>2 DEF Stage, Beginning
  <2>17. CASE Undo(p)
    <3>1. fixing[p] \in Auth /\ Open(fixing[p])
      BY <2>0, <2>17 DEF Undo, Controlled, LastIs, Open
    <3>2. PICK r \in Targets(fixing[p]) :
            \/ UNCHANGED <<file, log, pc, faults>>
            \/ AppendRecord(p, fixing[p], Rec("PARTIAL", r, 0), "release", "release")
               /\ UNCHANGED file
            \/ Replace(p, r, Before(fixing[p], r), "note", "release") /\ UNCHANGED log
      BY <2>17 DEF Undo, ToUndo, Attempts
    <3>3. CASE UNCHANGED <<file, log, pc, faults>>
      BY <2>1, <2>17, <3>3 DEF Undo, Stage, Beginning
    <3>4. CASE AppendRecord(p, fixing[p], Rec("PARTIAL", r, 0), "release", "release")
      <4>1. r \in File
        BY <3>1, TargetFacts
      <4>2. Kept /\ pc'[p] = "release"
        BY <2>15, <2>17, <3>1, <3>4, <4>1 DEF Undo
      <4> QED BY <4>2 DEF Stage, Beginning
    <3>5. CASE Replace(p, r, Before(fixing[p], r), "note", "release") /\ UNCHANGED log
      <4>1. pc'[p] \in {"note", "release"}
        BY <3>5, ReplaceEffect
      <4>2. Kept
        BY <2>1, <2>17, <3>5 DEF Undo
      <4>3. LastIs(fixing[p], Undoable)'
        BY <2>17, <3>5 DEF Undo, LastIs, Undoable
      <4> QED BY <4>1, <4>2, <4>3 DEF Stage, Beginning
    <3> QED BY <3>2, <3>3, <3>4, <3>5
  <2>18. CASE NoteRestored(p)
    <3>1. fixing[p] \in Auth /\ Open(fixing[p])
      BY <2>0, <2>18 DEF NoteRestored, Controlled, Stage, Undoable, LastIs, Open
    <3>2. PICK r \in visited[p] :
            AppendRecord(p, fixing[p], Rec("RESTORED", r, 0), "recover", "release")
      BY <2>18 DEF NoteRestored
    <3>3. r \in File
      BY <3>2 DEF TypeOK
    <3>4. Kept /\ pc'[p] \in {"recover", "release"}
      BY <2>15, <2>18, <3>1, <3>2, <3>3 DEF NoteRestored, Undoable
    <3> QED BY <3>4 DEF Stage, Beginning
  <2>19. CASE FinishUndo(p)
    <3>1. fixing[p] \in Auth /\ Open(fixing[p]) /\ restored[p] \in Nat
      BY <2>0, <2>19 DEF FinishUndo, Controlled, LastIs, Open, TypeOK
    <3>2. /\ Kept /\ pc'[p] \in {"end", "release"}
          /\ pc'[p] # "release" => LastIs(fixing[p], {"ABORTED", "RECOVERED"})'
      <4>1. /\ AppendRecord(p, fixing[p], Rec("RECOVERED", None, restored[p]), "end", "release")
            /\ UNCHANGED <<dir, claimed, fixing>>
        BY <2>19 DEF FinishUndo
      <4>2. "RECOVERED" \in Resting
        BY DEF Resting
      <4> QED BY <2>15, <3>1, <4>1, <4>2
    <3> QED BY <3>2 DEF Stage, Beginning
  <2>20. CASE Prepare(p)
    <3>1. job[p] \in Auth /\ Drawn(job[p], seen[p]) /\ log[job[p]] = <<>> /\ job[p] \in claimed
          /\ Active = {}
      BY <2>0, <2>20 DEF Prepare, Controlled, Beginning, Stage
    <3>2. PICK a \in Auth : a = job[p]
      BY <3>1
    <3>3. \A b \in Auth : ~Open(b)
      BY <3>1 DEF Active, Accounts, Recorded
    <3>4. /\ log' = log \/ log' = [log EXCEPT ![a] = Append(@, Prepared(seen[p]))]
          /\ pc'[p] \in {"next", "release"}
          /\ pc'[p] = "next" => log' = [log EXCEPT ![a] = Append(@, Prepared(seen[p]))]
      BY <2>20, <3>2, AppendEffect DEF Prepare
    <3>5. dir'[a] = "active" /\ claimed' = claimed /\ fixing'[p] = a
      BY <2>20, <3>2 DEF Prepare, TypeOK
    <3>6. CASE log' = log
      <4>1. Kept
        BY <2>20, <3>3, <3>6, RestKept DEF Prepare
      <4>2. pc'[p] # "next"
        BY <3>2, <3>1, <3>4, <3>6 DEF TypeOK
      <4> QED BY <3>4, <4>1, <4>2 DEF Stage, Beginning
    <3>7. CASE log' = [log EXCEPT ![a] = Append(@, Prepared(seen[p]))]
      <4>1. /\ \A b \in Auth \ {a} : log'[b] = log[b]
            /\ Sequence(a)' /\ \A S : LastIs(a, S)' <=> "PREPARED" \in S
        BY <3>1, <3>2, <3>7, PrepareFacts
      <4>2. \A b \in Auth \ {a} : Sequence(b)' = Sequence(b) /\ ~Open(b)'
        BY <3>3, <4>1, SameLog
      <4>3. Kept
        BY <3>1, <3>2, <3>5, <4>1, <4>2 DEF Accounts, Recorded, OneOpen
      <4>4. LastIs(a, {"PREPARED", "APPLIED"})'
        BY <4>1
      <4>5. LastIs(fixing[p], {"PREPARED", "APPLIED"})'
        BY <3>5, <4>4 DEF LastIs
      <4> QED BY <3>4, <4>3, <4>5 DEF Stage, Beginning
    <3> QED BY <3>4, <3>6, <3>7
  <2>21. CASE Attempt(p)
    <3>1. fixing[p] \in Auth /\ Open(fixing[p]) /\ job[p] = fixing[p]
      BY <2>0, <2>21 DEF Attempt, Controlled, Own, Stage, LastIs, Open
    <3>2. PICK r \in Targets(job[p]) :
            AppendRecord(p, job[p], Rec("ATTEMPTED", r, 0), "replace", "recover")
      BY <2>21 DEF Attempt
    <3>3. r \in File
      BY <3>1, <3>2, TargetFacts
    <3>4. /\ Kept /\ pc'[p] \in {"replace", "recover"}
          /\ pc'[p] # "recover" => LastIs(fixing[p], {"ATTEMPTED"})'
      BY <2>15, <2>21, <3>1, <3>2, <3>3 DEF Attempt, Undoable
    <3> QED BY <3>4 DEF Stage, Beginning
  <2>22. CASE ReplaceTarget(p)
    <3>1. pc'[p] \in {"account", "recover"}
      <4>1. ASSUME Replace(p, Current(p), After(job[p], Current(p)), "account", "recover")
            PROVE  pc'[p] \in {"account", "recover"}
        BY <4>1, ReplaceEffect
      <4> QED BY <2>22, <4>1 DEF TypeOK, ReplaceTarget, Goto
    <3>2. Kept
      BY <2>1, <2>22 DEF ReplaceTarget, journal
    <3>3. LastIs(fixing[p], {"ATTEMPTED"})'
      BY <2>0, <2>22 DEF ReplaceTarget, journal, Stage, LastIs
    <3> QED BY <3>1, <3>2, <3>3 DEF Stage, Beginning
  <2>23. CASE Account(p)
    <3>1. fixing[p] \in Auth /\ Open(fixing[p]) /\ job[p] = fixing[p]
      BY <2>0, <2>23 DEF Account, Controlled, Own, Stage, LastIs, Open
    <3>2. Current(p) \in File
      BY <2>23, <3>1, CurrentFacts, TargetFacts DEF Account
    <3>3. AppendRecord(p, fixing[p], Rec("APPLIED", Current(p), 0), "next", "recover")
      BY <2>23, <3>1 DEF Account
    <3>4. UNCHANGED <<dir, claimed, fixing>> /\ "APPLIED" \in Undoable
      BY <2>23 DEF Account, Undoable
    <3>5. /\ Kept /\ pc'[p] \in {"next", "recover"}
          /\ pc'[p] # "recover" => LastIs(fixing[p], {"PREPARED", "APPLIED"})'
      BY <2>15, <3>1, <3>2, <3>3, <3>4
    <3> QED BY <3>5 DEF Stage, Beginning
  <2>24. CASE Commit(p)
    <3>1. fixing[p] \in Auth /\ Open(fixing[p]) /\ job[p] = fixing[p]
      BY <2>0, <2>24 DEF Commit, Controlled, Own, Stage, LastIs, Open
    <3>2. /\ Kept /\ pc'[p] \in {"over", "recover"}
          /\ pc'[p] # "recover" => LastIs(fixing[p], {"COMMITTED"})'
      BY <2>15, <2>24, <3>1 DEF Commit, Resting
    <3> QED BY <3>2 DEF Stage, Beginning
  <2>25. CASE Release(p)
    <3>1. pc'[p] = "idle"
      BY <2>25 DEF TypeOK, Release, Goto
    <3> QED BY <2>1, <2>25, <3>1 DEF Release, journal, Stage, Beginning
  <2>26. CASE Crash(p)
    <3>1. pc'[p] = "idle"
      BY <2>26 DEF TypeOK, Crash, Goto
    <3> QED BY <2>1, <2>26, <3>1 DEF Crash, journal, Stage, Beginning
  <2> QED
     BY <1>1, <2>2, <2>3, <2>4, <2>8, <2>9, <2>10, <2>11, <2>12, <2>13, <2>14, <2>16, <2>17,
       <2>18, <2>19, <2>20, <2>21, <2>22, <2>23, <2>24, <2>25, <2>26 DEF Act, Step
<1>2. ASSUME UNCHANGED <<log, dir, claimed, pc, job, fixing>> PROVE Accounts'
  <2>1. Kept
    BY <1>2, RestKept
  <2>2. \A p \in Proc : Stage(p)'
    BY <1>2 DEF Accounts, Stage, LastIs, Active
  <2> QED BY <2>1, <2>2 DEF Accounts
<1>3. CASE UNCHANGED vars
  BY <1>2, <1>3 DEF vars, journal, local
<1>4. CASE ForeignWrite
  BY <1>2, <1>4 DEF ForeignWrite, journal, local
<1>5. ASSUME NEW p \in Proc, Act(p) PROVE Accounts'
  BY <1>0, <1>1, <1>5 DEF Accounts
<1> QED BY <1>3, <1>4, <1>5 DEF Next, Act

-----------------------------------------------------------------------------
Told == (\A a \in Auth : Begun(a)) /\ \A c \in Cr : True(c)

\* The files stay true to the records when neither changes, ...
LEMMA RestTold ==
  ASSUME Told, UNCHANGED <<file, log>>
  PROVE  Told' /\ \A a \in Auth : /\ Showing(a)' = Showing(a) /\ Attempts(a)' = Attempts(a)
                                  /\ Applied(a)' = Applied(a)
<1>1. \A a \in Auth : /\ Open(a)' = Open(a) /\ Committed(a)' = Committed(a)
                      /\ Attempts(a)' = Attempts(a) /\ Applied(a)' = Applied(a)
  BY SameLog
<1>2. \A a \in Auth : Showing(a)' = Showing(a)
  BY DEF Showing, Targets
<1> QED BY <1>1, <1>2 DEF Told, Begun, True

\* ... when a file of an open transaction changes in nothing but what it shows of that
\* change request, ...
LEMMA WriteTold ==
  ASSUME TypeOK, OneOpen, Told, NEW a \in Auth, Open(a), NEW r \in Attempts(a), NEW image \in Image,
         \A c \in Cr \ {CrOf[a]} : c \in image <=> c \in file[r],
         log' = log, file' = [file EXCEPT ![r] = image]
  PROVE  /\ Told' /\ Attempts(a)' = Attempts(a) /\ Applied(a)' = Applied(a)
         /\ Showing(a)' = IF CrOf[a] \in image THEN Showing(a) \union {r} ELSE Showing(a) \ {r}
<1>1. \A b \in Auth : /\ Open(b)' = Open(b) /\ Committed(b)' = Committed(b)
                      /\ Attempts(b)' = Attempts(b) /\ Applied(b)' = Applied(b)
  BY SameLog
<1>2. r \in Targets(a) /\ r \in File
  BY TargetFacts DEF Attempts
<1>3. \A s \in File : file'[s] = IF s = r THEN image ELSE file[s]
  BY <1>2 DEF TypeOK
<1>4. Showing(a)' = IF CrOf[a] \in image THEN Showing(a) \union {r} ELSE Showing(a) \ {r}
  BY <1>2, <1>3, TargetFacts DEF Showing, Targets
<1>5. \A b \in Auth : Begun(b)'
  <2> SUFFICES ASSUME NEW b \in Auth, Open(b)'
               PROVE  Showing(b)' \subseteq Attempts(b)'
                      /\ \A d \in Auth : CrOf[d] = CrOf[b] => ~Committed(d)'
    BY DEF Begun
  <2>1. b = a
    BY <1>1 DEF OneOpen
  <2> QED BY <1>1, <1>2, <1>4, <2>1 DEF Told, Begun
<1>6. ASSUME NEW c \in Cr, c # CrOf[a] PROVE True(c)'
  <2>1. \A s \in {c, Index} : c \in file'[s] <=> c \in file[s]
    BY <1>3, <1>6 DEF File
  <2> QED BY <1>1, <2>1 DEF Told, True
<1>7. True(CrOf[a])'
  BY <1>1 DEF True
<1> QED BY <1>1, <1>4, <1>5, <1>6, <1>7 DEF Told

\* ... when an open transaction gets a record that fits what the files show, ...
LEMMA AppendTold ==
  ASSUME TypeOK, OneOpen, Told, NEW a \in Auth, Open(a), NEW rec \in Record, rec.is # "PREPARED",
         log' = [log EXCEPT ![a] = Append(@, rec)], file' = file,
         rec.is \in {"ABORTED", "RECOVERED"} => Showing(a) = {},
         rec.is = "COMMITTED" => Showing(a) = Targets(a)
  PROVE  Told' /\ Showing(a)' = Showing(a)
<1>1. log[a] # <<>>
  BY DEF Open, LastIs
<1>2. \A b \in Auth \ {a} : Open(b)' = Open(b) /\ Committed(b)' = Committed(b) /\ ~Open(b)
  BY <1>1, AppendFacts, SameLog DEF OneOpen
<1>3. /\ Open(a)' <=> rec.is \in {"ATTEMPTED", "APPLIED", "RESTORED", "PARTIAL"}
      /\ Committed(a)' <=> rec.is = "COMMITTED"
      /\ Attempts(a) \subseteq Attempts(a)'
  <2>1. \A S : LastIs(a, S)' <=> rec.is \in S
    BY <1>1, AppendFacts
  <2>4. Attempts(a)' = IF rec.is = "ATTEMPTED" THEN Attempts(a)
        \union ({rec.ref} \intersect Targets(a)) ELSE Attempts(a)
    BY <1>1, AppendFacts
  <2>2. Open(a)' <=> rec.is \in {"PREPARED", "ATTEMPTED", "APPLIED", "RESTORED", "PARTIAL"}
    BY <2>1 DEF Open
  <2>3. Committed(a)' <=> rec.is \in {"COMMITTED"}
    BY <2>1 DEF Committed
  <2> QED BY <2>2, <2>3, <2>4
<1>4. \A b \in Auth : Showing(b)' = Showing(b)
  BY DEF Showing, Targets
<1>5. \A b \in Auth : CrOf[b] = CrOf[a] => ~Committed(b)
  BY DEF Told, Begun
<1>6. \A b \in Auth : Begun(b)'
  BY <1>2, <1>3, <1>4, <1>5 DEF Told, Begun
<1>7. ASSUME NEW c \in Cr, c # CrOf[a] PROVE True(c)'
  BY <1>2, <1>7 DEF Told, True
<1>8. True(CrOf[a])'
  <2>1. CASE rec.is \in {"ABORTED", "RECOVERED"}
    <3>1. \A r \in {CrOf[a], Index} : CrOf[a] \notin file[r]
      BY <2>1 DEF Showing, Targets
    <3>2. \A b \in Auth : CrOf[b] = CrOf[a] => ~Committed(b)'
      BY <1>2, <1>3, <1>5, <2>1
    <3> QED BY <3>1, <3>2 DEF True
  <2>2. CASE rec.is = "COMMITTED"
    <3>1. \A r \in {CrOf[a], Index} : CrOf[a] \in file[r]
      BY <2>2 DEF Showing, Targets
    <3>2. Committed(a)'
      BY <1>3, <2>2
    <3> QED BY <3>1, <3>2 DEF True
  <2>3. CASE rec.is \in {"ATTEMPTED", "APPLIED", "RESTORED", "PARTIAL"}
    BY <1>3, <2>3 DEF True
  <2> QED BY <2>1, <2>2, <2>3 DEF Record, Resting, Undoable
<1> QED BY <1>4, <1>6, <1>7, <1>8 DEF Told

\* ... and when a transaction is prepared with images that the files have.
LEMMA PrepareTold ==
  ASSUME TypeOK, Told, NEW a \in Auth, \A b \in Auth : ~Open(b), log[a] = <<>>,
         NEW images, Drawn(a, images), \A r \in Targets(a) : images[r] = file[r],
         log' = [log EXCEPT ![a] = Append(@, Prepared(images))], file' = file
  PROVE  Told' /\ Showing(a)' = {} /\ Attempts(a)' = {} /\ Applied(a)' = {}
<1>1. /\ \A b \in Auth \ {a} : log'[b] = log[b]
      /\ Attempts(a)' = {} /\ Applied(a)' = {} /\ \A S : LastIs(a, S)' <=> "PREPARED" \in S
  BY PrepareFacts
<1>2. \A b \in Auth \ {a} : ~Open(b)' /\ Committed(b)' = Committed(b)
  BY <1>1, SameLog
<1>3. Open(a)' /\ ~Committed(a)' /\ ~Committed(a)
  BY <1>1 DEF Open, Committed, LastIs
<1>4. \A r \in {CrOf[a], Index} : CrOf[a] \notin file[r]
  BY DEF Drawn, Targets
<1>5. Showing(a)' = {}
  BY <1>4 DEF Showing, Targets
<1>6. \A b \in Auth : CrOf[b] = CrOf[a] => ~Committed(b)
  <2>1. CrOf[a] \in Cr
    OBVIOUS
  <2> QED BY <1>4, <2>1 DEF Told, True
<1>7. \A b \in Auth : Begun(b)'
  BY <1>2, <1>3, <1>5, <1>6 DEF Begun
<1>8. ASSUME NEW c \in Cr, c # CrOf[a] PROVE True(c)'
  BY <1>2, <1>8 DEF Told, True
<1>9. True(CrOf[a])'
  BY <1>3 DEF True
<1> QED BY <1>1, <1>5, <1>7, <1>8, <1>9 DEF Told

-----------------------------------------------------------------------------
\* What p has in hand after a step, when that is transaction a.
LEMMA HandAfter ==
  ASSUME NEW p \in Proc, NEW a \in Auth, fixing'[p] = a,
         pc'[p] \in {"claim", "prepare"} => \A r \in Targets(job'[p]) : seen'[p][r] = file'[r],
         pc'[p] = "next" => Applied(a)' = Attempts(a)',
         pc'[p] \in {"replace", "account"} =>
           /\ Applied(a)' \subseteq Attempts(a)'
           /\ \E r \in Targets(a) : Attempts(a)' \ Applied(a)' = {r},
         pc'[p] \in {"next", "replace"} => Applied(a)' \subseteq Showing(a)',
         pc'[p] = "account" => Attempts(a)' \subseteq Showing(a)',
         pc'[p] \in Beginning \union Own => visited'[p] = {},
         pc'[p] \in {"recover", "note"} => visited'[p] \intersect Showing(a)' = {}
  PROVE  InHand(p)'
<1>1. /\ Applied(fixing[p])' = Applied(a)' /\ Attempts(fixing[p])' = Attempts(a)'
      /\ Showing(fixing[p])' = Showing(a)' /\ Targets(fixing[p])' = Targets(a)
      /\ Targets(job[p])' = Targets(job'[p])
  BY DEF Applied, Attempts, Showing, Has, Targets
<1> QED BY <1>1 DEF InHand, Beginning, Own

LEMMA HandKept ==
  ASSUME NEW p \in Proc, InHand(p), Same(p), UNCHANGED <<file, log>>
  PROVE  InHand(p)'
<1>1. /\ Applied(fixing[p])' = Applied(fixing[p]) /\ Attempts(fixing[p])' = Attempts(fixing[p])
      /\ Showing(fixing[p])' = Showing(fixing[p]) /\ Targets(fixing[p])' = Targets(fixing[p])
      /\ Targets(job[p])' = Targets(job[p])
  BY DEF Same, Applied, Attempts, Showing, Has, Targets
<1> QED BY <1>1 DEF Same, InHand

LEMMA NothingInHand ==
  ASSUME NEW p \in Proc,
         pc'[p] \in {"idle", "planned", "promote", "scan", "end", "release"}
                      \/ (pc'[p] \in {"admit", "over", "recover", "note"} /\ visited'[p] = {})
  PROVE  InHand(p)'
  BY DEF InHand, Beginning, Own

LEMMA PreparedOnly ==
  ASSUME TypeOK, NEW a \in Auth, Sequence(a), LastIs(a, {"PREPARED"})
  PROVE  Attempts(a) = {}
<1>1. Len(log[a]) = 1 /\ DOMAIN log[a] = {1} /\ log[a][1].is = "PREPARED"
  <2>1. log[a] \in Seq(Record) /\ Len(log[a]) \in DOMAIN log[a]
        /\ log[a][Len(log[a])].is = "PREPARED"
    BY LastType DEF TypeOK, LastIs
  <2>2. Len(log[a]) = 1
    BY <2>1 DEF Sequence
  <2> QED BY <2>1, <2>2
<1> QED BY <1>1 DEF Attempts, Has

LEMMA TruthStep == IInv /\ [Next]_vars => Truth'
<1> SUFFICES ASSUME TypeOK, Control, Accounts, Truth, [Next]_vars PROVE Truth'
  BY DEF IInv
<1>a. Told /\ OneOpen
  BY DEF Truth, Told, Accounts
<1>0. ASSUME NEW p \in Proc, Act(p), NEW q \in Proc, q # p PROVE InHand(q)'
  <2>1. CASE pc'[q] \in Held
    <3>1. UNCHANGED <<file, log>> /\ Same(q)
      BY <1>0, <2>1, Bystander, Locality
    <3> QED BY <3>1, HandKept DEF Truth
  <2>2. CASE pc'[q] \notin Held
    BY <2>2 DEF InHand, Held, Beginning, Own
  <2> QED BY <2>1, <2>2
<1>1. ASSUME NEW p \in Proc, Act(p) PROVE Told' /\ InHand(p)'
  <2>0. Controlled(p) /\ Stage(p) /\ InHand(p)
    BY DEF Control, Accounts, Truth
  <2>1. UNCHANGED <<file, log>> => Told'
    BY <1>a, RestTold
  <2>2. CASE (\E a \in Auth : Plan(p, a)) \/ (\E c \in Cr : PlanNothing(p, c)) \/ Lock(p)
    <3>1. pc'[p] \in {"planned", "promote", "idle"} /\ UNCHANGED <<file, log>>
      BY <2>2 DEF TypeOK, Plan, PlanNothing, Lock, Goto, journal
    <3> QED BY <2>1, <3>1, NothingInHand
  <2>3. ASSUME NEW l, GoOn(p, l)
        PROVE  pc'[p] = l /\ UNCHANGED <<file, log, job, seen, fixing, visited>>
    BY <2>3 DEF TypeOK, GoOn, Goto, journal
  <2>4. CASE RetryPromotion(p) \/ LeaveUnrecovered(p) \/ EndRecovery(p) \/ Release(p) \/ Crash(p)
    <3>1. UNCHANGED <<file, log>>
      BY <2>3, <2>4 DEF RetryPromotion, LeaveUnrecovered, EndRecovery, Release, Crash, journal
    <3>2. pc'[p] \in {"promote", "scan", "release", "idle"}
      <4>1. ASSUME NEW a, NEW good, NEW bad, Promote(p, a, good, bad) PROVE pc'[p] \in {good, bad}
        BY <4>1, PromoteEffect
      <4>2. CASE Release(p) \/ Crash(p)
        BY <4>2 DEF TypeOK, Release, Crash, Goto
       <4> QED BY <2>3, <2>4, <4>1, <4>2 DEF RetryPromotion, LeaveUnrecovered, EndRecovery,
                 Resumed
    <3> QED BY <2>1, <3>1, <3>2, NothingInHand
  <2>5. CASE NextActive(p)
    <3>1. pc'[p] \in {"admit", "recover"} /\ visited'[p] = {} /\ UNCHANGED <<file, log>>
      BY <2>5 DEF TypeOK, NextActive, Goto, journal
    <3> QED BY <2>1, <3>1, NothingInHand
  <2>6. CASE Admit(p)
    <3>1. UNCHANGED <<file, log, job, seen, fixing, visited>> /\ visited[p] = {}
          /\ pc'[p] = IF seen[p] = Snapshot(job[p]) THEN "claim" ELSE "release"
      BY <2>0, <2>3, <2>6 DEF Admit, InHand, Beginning
    <3>2. seen[p] = Snapshot(job[p]) => \A r \in Targets(job[p]) : seen[p][r] = file[r]
      BY DEF Snapshot
    <3> QED BY <2>1, <3>1, <3>2 DEF InHand, Targets, Own, Beginning
  <2>7. CASE Claim(p)
    <3>1. UNCHANGED <<file, log, job, seen, visited>> /\ pc'[p] \in {"release", "prepare"}
      BY <2>7 DEF TypeOK, Claim, Goto, journal
    <3> QED BY <2>0, <2>1, <2>7, <3>1 DEF Claim, InHand, Targets, Own, Beginning
  <2>8. CASE PromoteOwn(p)
    <3>1. UNCHANGED <<file, log, visited>> /\ pc'[p] \in {"release", "recover"} /\ visited[p] = {}
      BY <2>0, <2>8, PromoteEffect DEF PromoteOwn, InHand, Own
    <3> QED BY <2>1, <3>1, NothingInHand
  <2>9. CASE Prepare(p)
    <3>1. PICK a \in Auth : a = job[p]
      BY <2>0, <2>9 DEF Prepare, Controlled, Beginning
    <3>2. /\ Drawn(a, seen[p]) /\ log[a] = <<>> /\ Active = {} /\ visited[p] = {}
          /\ \A r \in Targets(a) : seen[p][r] = file[r]
      BY <2>0, <2>9, <3>1 DEF Prepare, Controlled, Beginning, Stage, InHand
    <3>3. \A b \in Auth : ~Open(b)
      BY <3>2 DEF Active, Accounts, Recorded
    <3>4. /\ log' = log \/ log' = [log EXCEPT ![a] = Append(@, Prepared(seen[p]))]
          /\ pc'[p] \in {"next", "release"}
          /\ pc'[p] = "next" => log' = [log EXCEPT ![a] = Append(@, Prepared(seen[p]))]
      BY <2>9, <3>1, AppendEffect DEF Prepare
    <3>5. UNCHANGED <<file, visited>> /\ fixing'[p] = a
      BY <2>9, <3>1 DEF Prepare, TypeOK
    <3>6. CASE log' = log
      <4>1. pc'[p] # "next"
        BY <3>2, <3>4, <3>6 DEF TypeOK
      <4> QED BY <2>1, <3>4, <3>5, <3>6, <4>1, NothingInHand
    <3>7. CASE log' = [log EXCEPT ![a] = Append(@, Prepared(seen[p]))]
      <4>1. Told' /\ Showing(a)' = {} /\ Attempts(a)' = {} /\ Applied(a)' = {}
        BY <1>a, <3>2, <3>3, <3>5, <3>7, PrepareTold
      <4>2. InHand(p)'
        BY <3>2, <3>4, <3>5, <4>1, HandAfter
      <4> QED BY <4>1, <4>2
    <3> QED BY <3>4, <3>6, <3>7
  <2>10. CASE Attempt(p)
    <3>1. PICK a \in Auth : a = fixing[p]
      BY <2>0, <2>10 DEF Attempt, Controlled, Own
    <3>2. /\ job[p] = a /\ fixing'[p] = a /\ Open(a) /\ Applied(a) = Attempts(a)
          /\ Applied(a) \subseteq Showing(a) /\ visited'[p] = {} /\ file' = file
      BY <2>0, <2>10, <3>1 DEF Attempt, Controlled, Own, Stage, LastIs, Open, InHand
    <3>3. PICK r \in Targets(a) \ Attempts(a) :
            AppendRecord(p, a, Rec("ATTEMPTED", r, 0), "replace", "recover")
      BY <2>10, <3>2 DEF Attempt
    <3>4. PICK rec \in Record : rec = Rec("ATTEMPTED", r, 0) /\ rec.is = "ATTEMPTED" /\ rec.ref = r
      <4>1. r \in File /\ "ATTEMPTED" \in Undoable
        BY TargetFacts DEF Undoable
      <4>2. Rec("ATTEMPTED", r, 0) \in Record
        BY <4>1, RecordType
      <4> QED BY <4>1, <4>2, RecordType
    <3>5. /\ log' = log \/ log' = [log EXCEPT ![a] = Append(@, rec)]
          /\ pc'[p] \in {"replace", "recover"}
          /\ pc'[p] # "recover" => log' = [log EXCEPT ![a] = Append(@, rec)]
      BY <3>3, <3>4, AppendEffect
    <3>6. CASE pc'[p] = "recover"
      <4>1. InHand(p)'
        BY <3>2, <3>6, NothingInHand
      <4>2. Told'
        BY <1>a, <2>1, <3>2, <3>4, <3>5, AppendTold
      <4> QED BY <4>1, <4>2
    <3>7. CASE pc'[p] = "replace"
      <4>1. log' = [log EXCEPT ![a] = Append(@, rec)]
        BY <3>5, <3>7
      <4>2. Told' /\ Showing(a)' = Showing(a)
        BY <1>a, <3>2, <3>4, <4>1, AppendTold
      <4>3. log[a] # <<>>
        BY <3>2 DEF Open, LastIs
      <4>4. Attempts(a)' = Attempts(a) \union {r} /\ Applied(a)' = Applied(a)
        <5>1. Attempts(a)' = Attempts(a) \union ({rec.ref} \intersect Targets(a))
          BY <3>4, <4>1, <4>3, AppendFacts
        <5>2. Applied(a)' = Applied(a)
          BY <3>4, <4>1, <4>3, AppendFacts
        <5> QED BY <3>3, <3>4, <5>1, <5>2
      <4>5. InHand(p)'
        BY <3>2, <3>3, <3>7, <4>2, <4>4, HandAfter
      <4> QED BY <4>2, <4>5
    <3> QED BY <3>5, <3>6, <3>7
  <2>11. CASE ReplaceTarget(p)
    <3>1. PICK a \in Auth : a = fixing[p]
      BY <2>0, <2>11 DEF ReplaceTarget, Controlled, Own
    <3>2. /\ job[p] = a /\ fixing'[p] = a /\ Open(a) /\ LastIs(a, {"ATTEMPTED"})
          /\ Applied(a) \subseteq Showing(a) /\ visited'[p] = {} /\ log' = log
          /\ Applied(a) \subseteq Attempts(a)
       BY <2>0, <2>11, <3>1 DEF ReplaceTarget, Controlled, Own, Stage, LastIs, Open, InHand,
         journal
    <3>3. PICK r \in Targets(a) : r = Current(p) /\ Attempts(a) \ Applied(a) = {r}
      BY <2>11, <3>1, <3>2, CurrentFacts DEF ReplaceTarget
    <3>4. CASE file[r] = Before(a, r) /\ Replace(p, r, After(a, r), "account", "recover")
      <4>1. /\ file' = file \/ file' = [file EXCEPT ![r] = After(a, r)]
            /\ pc'[p] \in {"account", "recover"}
            /\ pc'[p] # "recover" => file' = [file EXCEPT ![r] = After(a, r)]
        BY <3>4, ReplaceEffect
      <4>2. After(a, r) \in Image
        BY <3>2, PreparedFacts
      <4>3. /\ \A c \in Cr \ {CrOf[a]} : c \in After(a, r) <=> c \in file[r]
            /\ CrOf[a] \in After(a, r)
        BY <3>4 DEF After
      <4>4. CASE file' = file /\ pc'[p] = "recover"
        BY <2>1, <3>2, <4>4, NothingInHand
      <4>5. CASE file' = [file EXCEPT ![r] = After(a, r)]
        <5>1. /\ Told' /\ Attempts(a)' = Attempts(a) /\ Applied(a)' = Applied(a)
              /\ Showing(a)' = Showing(a) \union {r}
          BY <1>a, <3>2, <3>3, <4>2, <4>3, <4>5, WriteTold
        <5>2. InHand(p)'
          BY <3>2, <3>3, <4>1, <5>1, HandAfter
        <5> QED BY <5>1, <5>2
      <4> QED BY <4>1, <4>4, <4>5
    <3>5. CASE Goto(p, "recover") /\ UNCHANGED <<file, faults>>
      <4>1. pc'[p] = "recover"
        BY <3>5 DEF TypeOK, Goto
      <4> QED BY <2>1, <3>2, <3>5, <4>1, NothingInHand
    <3> QED BY <2>11, <3>2, <3>3, <3>4, <3>5 DEF ReplaceTarget
  <2>12. CASE Account(p)
    <3>1. PICK a \in Auth : a = fixing[p]
      BY <2>0, <2>12 DEF Account, Controlled, Own
    <3>2. /\ job[p] = a /\ fixing'[p] = a /\ Open(a) /\ Attempts(a) \subseteq Showing(a)
          /\ Applied(a) \subseteq Attempts(a) /\ visited'[p] = {} /\ file' = file
      BY <2>0, <2>12, <3>1 DEF Account, Controlled, Own, Stage, LastIs, Open, InHand
    <3>3. PICK r \in Targets(a) : r = Current(p) /\ Attempts(a) \ Applied(a) = {r}
      BY <2>12, <3>1, <3>2, CurrentFacts DEF Account
    <3>4. PICK rec \in Record : rec = Rec("APPLIED", r, 0) /\ rec.is = "APPLIED" /\ rec.ref = r
      <4>1. r \in File /\ "APPLIED" \in Undoable
        BY TargetFacts DEF Undoable
      <4>2. Rec("APPLIED", r, 0) \in Record
        BY <4>1, RecordType
      <4> QED BY <4>1, <4>2, RecordType
    <3>5. /\ log' = log \/ log' = [log EXCEPT ![a] = Append(@, rec)]
          /\ pc'[p] \in {"next", "recover"}
          /\ pc'[p] # "recover" => log' = [log EXCEPT ![a] = Append(@, rec)]
      <4>1. AppendRecord(p, a, Rec("APPLIED", r, 0), "next", "recover")
        BY <2>12, <3>2, <3>3 DEF Account
      <4> QED BY <3>4, <4>1, AppendEffect
    <3>6. CASE pc'[p] = "recover"
      <4>1. InHand(p)'
        BY <3>2, <3>6, NothingInHand
      <4>2. Told'
        BY <1>a, <2>1, <3>2, <3>4, <3>5, AppendTold
      <4> QED BY <4>1, <4>2
    <3>7. CASE pc'[p] = "next"
      <4>1. log' = [log EXCEPT ![a] = Append(@, rec)]
        BY <3>5, <3>7
      <4>2. Told' /\ Showing(a)' = Showing(a)
        BY <1>a, <3>2, <3>4, <4>1, AppendTold
      <4>3. log[a] # <<>>
        BY <3>2 DEF Open, LastIs
      <4>4. Attempts(a)' = Attempts(a) /\ Applied(a)' = Applied(a) \union {r}
        <5>1. Applied(a)' = Applied(a) \union ({rec.ref} \intersect Targets(a))
          BY <3>4, <4>1, <4>3, AppendFacts
        <5>2. Attempts(a)' = Attempts(a)
          BY <3>4, <4>1, <4>3, AppendFacts
        <5> QED BY <3>3, <3>4, <5>1, <5>2
      <4>5. Applied(a)' = Attempts(a)' /\ Applied(a)' \subseteq Showing(a)'
        BY <3>2, <3>3, <4>2, <4>4
      <4>6. InHand(p)'
        BY <3>2, <3>7, <4>5, HandAfter
      <4> QED BY <4>2, <4>6
    <3> QED BY <3>5, <3>6, <3>7
  <2>13. CASE Commit(p)
    <3>1. PICK a \in Auth : a = fixing[p]
      BY <2>0, <2>13 DEF Commit, Controlled, Own
    <3>2. /\ job[p] = a /\ Open(a) /\ Attempts(a) = Targets(a) /\ Applied(a) = Attempts(a)
          /\ Applied(a) \subseteq Showing(a) /\ visited'[p] = {} /\ file' = file
      BY <2>0, <2>13, <3>1 DEF Commit, Controlled, Own, Stage, LastIs, Open, InHand
    <3>3. Showing(a) = Targets(a)
      BY <3>2 DEF Showing
    <3>4. Rec("COMMITTED", None, 0) \in Record /\ Rec("COMMITTED", None, 0).is = "COMMITTED"
      BY RecordType DEF Resting
    <3>5. /\ log' = log \/ log' = [log EXCEPT ![a] = Append(@, Rec("COMMITTED", None, 0))]
          /\ pc'[p] \in {"over", "recover"}
      BY <2>13, <3>2, AppendEffect DEF Commit
    <3>6. Told'
      BY <1>a, <2>1, <3>2, <3>3, <3>4, <3>5, AppendTold
    <3> QED BY <3>2, <3>5, <3>6, NothingInHand
  <2>14. CASE AbortUnattempted(p)
    <3>1. PICK a \in Auth : a = fixing[p]
      BY <2>0, <2>14 DEF AbortUnattempted, Controlled
    <3>2. Open(a) /\ LastIs(a, {"PREPARED"}) /\ file' = file
      BY <2>14, <3>1 DEF AbortUnattempted, LastIs, Open
    <3>3. Showing(a) = {}
      BY <3>2, PreparedOnly DEF Accounts, Recorded, Truth, Begun
    <3>4. Rec("ABORTED", None, 0) \in Record /\ Rec("ABORTED", None, 0).is = "ABORTED"
      BY RecordType DEF Resting
    <3>5. /\ log' = log \/ log' = [log EXCEPT ![a] = Append(@, Rec("ABORTED", None, 0))]
          /\ pc'[p] \in {"end", "release"}
      BY <2>14, <3>1, AppendEffect DEF AbortUnattempted
    <3>6. Told'
      BY <1>a, <2>1, <3>2, <3>3, <3>4, <3>5, AppendTold
    <3> QED BY <3>5, <3>6, NothingInHand
  <2>15. CASE FinishUndo(p)
    <3>1. PICK a \in Auth : a = fixing[p]
      BY <2>0, <2>15 DEF FinishUndo, Controlled
    <3>2. Open(a) /\ file' = file /\ Attempts(a) \subseteq visited[p] /\ restored[p] \in Nat
          /\ visited[p] \intersect Showing(a) = {}
      BY <2>0, <2>15, <3>1 DEF FinishUndo, LastIs, Open, ToUndo, InHand, TypeOK
    <3>3. Showing(a) = {}
      BY <3>2 DEF Truth, Begun
    <3>4. Rec("RECOVERED", None, restored[p]) \in Record
          /\ Rec("RECOVERED", None, restored[p]).is = "RECOVERED"
      BY <3>2, RecordType DEF Resting
    <3>5. /\ log' = log \/ log' = [log EXCEPT ![a] = Append(@, Rec("RECOVERED", None, restored[p]))]
          /\ pc'[p] \in {"end", "release"}
      BY <2>15, <3>1, AppendEffect DEF FinishUndo
    <3>6. Told'
      BY <1>a, <2>1, <3>2, <3>3, <3>4, <3>5, AppendTold
    <3> QED BY <3>5, <3>6, NothingInHand
  <2>16. CASE NoteRestored(p)
    <3>1. PICK a \in Auth : a = fixing[p]
      BY <2>0, <2>16 DEF NoteRestored, Controlled
    <3>2. Open(a) /\ file' = file /\ fixing'[p] = a /\ visited' = visited
          /\ visited[p] \intersect Showing(a) = {}
      BY <2>0, <2>16, <3>1 DEF NoteRestored, Stage, LastIs, Undoable, Open, InHand
    <3>3. PICK r \in visited[p] : AppendRecord(p, a, Rec("RESTORED", r, 0), "recover", "release")
      BY <2>16, <3>1 DEF NoteRestored
    <3>4. Rec("RESTORED", r, 0) \in Record /\ Rec("RESTORED", r, 0).is = "RESTORED"
      <4>1. r \in File /\ "RESTORED" \in Undoable
        BY <3>3 DEF TypeOK, Undoable
      <4> HIDE <2>0, <3>2, <3>3
      <4> QED BY <4>1, RecordType
    <3>5. /\ log' = log \/ log' = [log EXCEPT ![a] = Append(@, Rec("RESTORED", r, 0))]
          /\ pc'[p] \in {"recover", "release"}
      BY <3>3, AppendEffect
    <3>6. Told' /\ Showing(a)' = Showing(a)
      BY <1>a, <2>1, <3>2, <3>4, <3>5, AppendTold, RestTold
    <3>7. InHand(p)'
      BY <3>2, <3>5, <3>6, HandAfter DEF Own, Beginning
    <3> QED BY <3>6, <3>7
  <2>17. CASE Undo(p)
    <3>1. PICK a \in Auth : a = fixing[p]
      BY <2>0, <2>17 DEF Undo, Controlled
    <3>2. /\ Open(a) /\ LastIs(a, {"ATTEMPTED", "APPLIED", "RESTORED"}) /\ fixing'[p] = a
          /\ visited[p] \intersect Showing(a) = {}
      BY <2>0, <2>17, <3>1 DEF Undo, LastIs, Open, InHand
    <3>3. PICK r \in Attempts(a) :
            /\ visited'[p] = visited[p] \union {r}
            /\ \/ file[r] = Before(a, r) /\ UNCHANGED <<file, log, pc, faults>>
               \/ AppendRecord(p, a, Rec("PARTIAL", r, 0), "release", "release") /\ UNCHANGED file
               \/ /\ file[r] = After(a, r)
                  /\ Replace(p, r, Before(a, r), "note", "release") /\ UNCHANGED log
      <4>1. PICK r \in Attempts(a) :
            /\ visited' = [visited EXCEPT ![p] = @ \union {r}]
            /\ \/ file[r] = Before(a, r) /\ UNCHANGED <<file, log, pc, faults>>
               \/ AppendRecord(p, a, Rec("PARTIAL", r, 0), "release", "release") /\ UNCHANGED file
               \/ /\ file[r] = After(a, r)
                  /\ Replace(p, r, Before(a, r), "note", "release") /\ UNCHANGED log
        BY <2>17, <3>1 DEF Undo, ToUndo
      <4> QED BY <4>1 DEF TypeOK
    <3>4. r \in Targets(a) /\ r \in File /\ CrOf[a] \notin Before(a, r) /\ Before(a, r) \in Image
      BY <3>2, PreparedFacts, TargetFacts DEF Attempts, Drawn, Before
    <3>5. CASE file[r] = Before(a, r) /\ UNCHANGED <<file, log, pc, faults>>
      <4>1. Told' /\ Showing(a)' = Showing(a) /\ r \notin Showing(a)
        BY <1>a, <3>4, <3>5, RestTold DEF Showing
      <4>2. InHand(p)'
        BY <2>17, <3>2, <3>3, <3>5, <4>1, HandAfter DEF Undo, Own, Beginning
      <4> QED BY <4>1, <4>2
    <3>6. CASE AppendRecord(p, a, Rec("PARTIAL", r, 0), "release", "release") /\ UNCHANGED file
      <4>1. Rec("PARTIAL", r, 0) \in Record /\ Rec("PARTIAL", r, 0).is = "PARTIAL"
        BY <3>4, RecordType
      <4>2. /\ log' = log \/ log' = [log EXCEPT ![a] = Append(@, Rec("PARTIAL", r, 0))]
            /\ pc'[p] = "release"
        BY <3>6, AppendEffect
      <4>3. Told'
        BY <1>a, <2>1, <3>2, <3>6, <4>1, <4>2, AppendTold
      <4> QED BY <4>2, <4>3, NothingInHand
    <3>7. CASE /\ file[r] = After(a, r)
               /\ Replace(p, r, Before(a, r), "note", "release") /\ UNCHANGED log
      <4>1. /\ file' = file \/ file' = [file EXCEPT ![r] = Before(a, r)]
            /\ pc'[p] \in {"note", "release"}
            /\ pc'[p] # "release" => file' = [file EXCEPT ![r] = Before(a, r)]
        BY <3>7, ReplaceEffect
      <4>2. \A c \in Cr \ {CrOf[a]} : c \in Before(a, r) <=> c \in file[r]
        BY <3>7 DEF After
      <4>3. CASE file' = file /\ pc'[p] = "release"
        BY <2>1, <3>7, <4>3, NothingInHand
      <4>4. CASE file' = [file EXCEPT ![r] = Before(a, r)]
        <5>1. Told' /\ Showing(a)' = Showing(a) \ {r}
          BY <1>a, <3>2, <3>4, <3>7, <4>2, <4>4, WriteTold
        <5>2. InHand(p)'
          BY <3>2, <3>3, <4>1, <5>1, HandAfter DEF Own, Beginning
        <5> QED BY <5>1, <5>2
      <4> QED BY <4>1, <4>3, <4>4
    <3> QED BY <3>3, <3>5, <3>6, <3>7
  <2> QED
     BY <1>1, <2>2, <2>4, <2>5, <2>6, <2>7, <2>8, <2>9, <2>10, <2>11, <2>12, <2>13, <2>14,
       <2>15, <2>16, <2>17 DEF Act, Step
<1>2. CASE UNCHANGED vars
  <2>1. \A p \in Proc : InHand(p)'
    BY <1>2, HandKept DEF vars, journal, local, Truth, Same
  <2> QED BY <1>a, <1>2, <2>1, RestTold DEF vars, journal, Told, Truth
<1>3. CASE ForeignWrite
  <2>1. \A r \in File, c \in Cr : c \in file'[r] <=> c \in file[r]
    BY <1>3 DEF ForeignWrite, TypeOK, File
  <2>2. \A a \in Auth : /\ Open(a)' = Open(a) /\ Committed(a)' = Committed(a)
                        /\ Attempts(a)' = Attempts(a) /\ Applied(a)' = Applied(a)
    BY <1>3, SameLog DEF ForeignWrite, journal
  <2>3. \A a \in Auth : Showing(a)' = Showing(a)
    BY <2>1, TargetFacts DEF Showing, Targets
  <2>4. Told'
    BY <1>a, <2>1, <2>2, <2>3 DEF Told, Begun, True, File
  <2>5. \A p \in Proc : pc'[p] \notin Held /\ pc'[p] = pc[p]
    BY <1>3 DEF ForeignWrite, local, Control, Controlled
  <2>6. \A p \in Proc : InHand(p)'
    BY <2>5 DEF InHand, Held, Own, Beginning
  <2> QED BY <2>4, <2>6 DEF Told, Truth
<1>4. ASSUME NEW p \in Proc, Act(p) PROVE Truth'
  BY <1>0, <1>1, <1>4 DEF Truth, Told
<1> QED BY <1>2, <1>3, <1>4 DEF Next, Act

-----------------------------------------------------------------------------
LEMMA InitInv == Init => IInv
<1> SUFFICES ASSUME Init PROVE IInv
  OBVIOUS
<1>1. TypeOK
  BY DEF Init, TypeOK, File, Image, Labels
<1>2. Control
  BY DEF Init, Control, Controlled, Held, Own, Beginning
<1>3. \A a \in Auth : ~Open(a) /\ ~Committed(a) /\ Sequence(a) /\ log[a] = <<>>
  BY DEF Init, Open, Committed, LastIs, Sequence
<1>4. Accounts
  BY <1>3 DEF Init, Accounts, Recorded, OneOpen, Stage, Beginning
<1>5. \A p \in Proc : InHand(p)
  BY DEF Init, InHand, Beginning, Own
<1>6. \A c \in Cr : True(c)
  BY <1>3 DEF Init, True
<1>7. Truth
  BY <1>3, <1>5, <1>6 DEF Truth, Begun
<1> QED BY <1>1, <1>2, <1>4, <1>7 DEF IInv

LEMMA Invariance == Spec => []IInv
<1>1. IInv /\ [Next]_vars => IInv'
  BY TypeStep, ControlStep, AccountsStep, TruthStep DEF IInv
<1> QED BY <1>1, InitInv, PTL DEF Spec

(* Whenever the lock is free, a change request without an open transaction *)
(* is terminated in all of its files or in none, as its records say: no    *)
(* termination, failure, death or recovery (cr_termination.py) leaves half *)
(* a termination behind, or takes one away with the index it restores.     *)
THEOREM RecordsTrue == Spec => []RecordsAreTrue
<1>1. IInv => RecordsAreTrue
  BY DEF IInv, Truth, True, RecordsAreTrue, Committed
<1> QED BY <1>1, Invariance, PTL

(* The journal never has two unresolved terminations: a command prepares   *)
(* its own after it has resolved every other, under the lock.              *)
THEOREM OneAtATime == Spec => []OneOpen
<1>1. IInv => OneOpen
  BY DEF IInv, Accounts
<1> QED BY <1>1, Invariance, PTL
=============================================================================
