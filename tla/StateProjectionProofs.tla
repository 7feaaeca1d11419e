------------------------ MODULE StateProjectionProofs ------------------------
(***************************************************************************)
(* Proofs about StateProjection for any processes, files, contents and     *)
(* requests, and any bounds on faults and crashes.                         *)
(***************************************************************************)
EXTENDS StateProjection, TLAPS

USE ProcAssumption, RefAssumption, ContentAssumption, DiskAssumption, RequestAssumption,
    FaultAssumption, BoundAssumption, NoneAssumption

-----------------------------------------------------------------------------
\* Commands that write: at most one process runs apply, and no write fails after the rename.
OneWriter == \A v, w \in Writer : v = w
LostOnly == FaultKinds \subseteq {"lost"}

\* An apply has planned and not yet repeated its checks under the lock.
Waiting(p) == pc[p] \in {"planned", "locked"} \/ (pc[p] = "naming" /\ op[p] = "apply")
Writing == {"prepare", "begin", "next", "replace", "account"}

\* Whoever writes has the lock, but for a recover that went on without it.
Owned ==
  /\ \A p \in Proc : pc[p] \in {"naming", "locked"} \union Writing => holder = p
  /\ ~upset => \A p \in Proc : pc[p] = "restore" => holder = p
  /\ holder # None => lockId # None

\* What a command is: an apply is a writer's, and has a request.
Roles ==
  \A p \in Proc :
    /\ Waiting(p) \/ pc[p] \in Writing => op[p] = "apply"
    /\ pc[p] = "naming" => op[p] \in {"apply", "recover"}
    /\ pc[p] \in {"read", "reread"} => op[p] = "recover"
    /\ op[p] = "apply" => p \in Writer /\ request[p] \in Request

\* Manifests come from plans, and attempt what they planned.
Drawn(m) == m = NoManifest \/ (m.tx \in Transaction /\ m.attempted \subseteq Refs(m.tx))
Manifests ==
  /\ Drawn(journal) /\ lockId \in {None, Blank} \union Transaction
  /\ \A p \in Proc :
       /\ Drawn(mem[p])
       /\ pc[p] = "naming" => mem[p] # NoManifest
       /\ Waiting(p) \/ pc[p] \in {"prepare", "begin"} =>
            mem[p].state = "PREPARED" /\ mem[p].attempted = {} /\ mem[p].applied = {}
       /\ pc[p] \in {"next", "replace", "account"} => mem[p].state = "APPLYING"
       /\ pc[p] \in Mutating => mem[p] # NoManifest
       /\ pc[p] \notin {"restore", "release"} => done[p] = {} /\ failed[p] = {}

Ownership == Owned /\ Roles /\ Manifests

\* No half-written file without a journal, at every step of the writer.
Accounted ==
  ~upset =>
    /\ dirty # {} => journal.state \in {"APPLYING", "PARTIAL"} /\ dirty \subseteq journal.attempted
    /\ \A p \in Proc :
         /\ Waiting(p) \/ pc[p] \in {"prepare", "begin"} => dirty = {}
         /\ pc[p] \in {"next", "replace", "account"} => journal = mem[p]
         /\ pc[p] = "restore" => dirty \subseteq mem[p].attempted
            /\ dirty \intersect done[p] \subseteq failed[p]

\* What the files say of a manifest: they have the image after, or before, or one of both.
Reached(m, S) == \A t \in m.tx : t.ref \in S => disk[t.ref] = t.after
Original(m, S) == \A t \in m.tx : t.ref \in S => disk[t.ref] = t.before
Known(m) == \A t \in m.tx : disk[t.ref] \in {t.before, t.after}

\* The files are as the manifest in the slot says, and as the one in hand does.
Slot ==
  /\ journal.state \in Terminal => JournalCurrent
  /\ Unresolved(journal) => Known(journal) /\ Original(journal, Ref \ journal.attempted)
InHand(p) ==
  /\ Waiting(p) => /\ mem[p].tx = PlanFor(request[p]) /\ ~Unresolved(journal)
                   /\ \A q \in Proc : pc[q] \notin Mutating
  /\ pc[p] = "prepare" => ~Unresolved(journal) /\ Original(mem[p], Ref)
  /\ pc[p] = "begin" => journal = mem[p] /\ Original(mem[p], Ref)
  /\ pc[p] = "next" => mem[p].applied = mem[p].attempted
  /\ pc[p] \in {"next", "replace"} => Reached(mem[p], mem[p].applied)
  /\ pc[p] = "replace" => \E r \in Ref : mem[p].attempted \ mem[p].applied = {r}
  /\ pc[p] = "account" => Reached(mem[p], mem[p].attempted)
  /\ pc[p] = "restore" =>
       /\ Known(mem[p])
       /\ Original(mem[p], (Ref \ mem[p].attempted) \union (done[p] \ failed[p]))
       /\ Unresolved(journal) =>
            journal.tx = mem[p].tx /\ journal.attempted \subseteq mem[p].attempted
       /\ ~Unresolved(journal) => mem[p].attempted = {}
Truthful == ~upset => Slot /\ \A p \in Proc : InHand(p)

-----------------------------------------------------------------------------
\* A transaction plans one change per file, and its changes are changes.
LEMMA TransactionFacts ==
  ASSUME NEW tx \in Transaction
  PROVE  /\ tx \subseteq Target /\ tx # None /\ Refs(tx) \subseteq Ref
         /\ \A t, u \in tx : t.ref = u.ref => t = u
         /\ \A t \in tx : t.before # t.after /\ TargetOf(tx, t.ref) = t
         /\ \A r \in Refs(tx) : TargetOf(tx, r) \in tx /\ TargetOf(tx, r).ref = r
<1>1. PICK d \in [Ref -> Image], q \in Request :
        tx = {[ref |-> r, before |-> d[r], after |-> q[r]] : r \in {s \in DOMAIN q : d[s] # q[s]}}
  BY DEF Transaction, Changes
<1>2. \A r \in DOMAIN q : r \in Ref /\ q[r] \in Content
  OBVIOUS
<1>3. tx \subseteq Target
  <2> SUFFICES ASSUME NEW r \in DOMAIN q
               PROVE  [ref |-> r, before |-> d[r], after |-> q[r]] \in Target
    BY <1>1
  <2> QED BY DEF Target
<1>4. tx # None
  OBVIOUS
<1>5. Refs(tx) \subseteq Ref
  BY <1>3 DEF Refs, Target
<1>6. \A t, u \in tx : t.ref = u.ref => t = u
  BY <1>1
<1>7. \A t \in tx : t.before # t.after
  BY <1>1
<1>8. \A t \in tx : TargetOf(tx, t.ref) = t
  BY DEF TargetOf
<1>9. \A r \in Refs(tx) : TargetOf(tx, r) \in tx /\ TargetOf(tx, r).ref = r
  BY <1>8 DEF Refs
<1> QED BY <1>3, <1>5, <1>6, <1>7, <1>8, <1>9

LEMMA PlanFacts ==
  ASSUME TypeOK, NEW q \in Request
  PROVE  PlanFor(q) \in Transaction /\ \A t \in PlanFor(q) : disk[t.ref] = t.before
<1>1. disk \in [Ref -> Image]
  BY DEF TypeOK
<1>2. PlanFor(q) \in Transaction
  BY <1>1 DEF PlanFor, Transaction
<1>3. \A t \in PlanFor(q) : disk[t.ref] = t.before
  BY DEF PlanFor, Changes
<1> QED BY <1>2, <1>3

LEMMA ManifestTypes ==
  /\ NoManifest.tx = {} /\ NoManifest.state = "NONE" /\ NoManifest.attempted = {}
  /\ NoManifest.applied = {} /\ NoManifest \notin Manifest
  /\ \A m \in Manifest \union {NoManifest} :
       /\ m.tx \subseteq Target /\ m.attempted \subseteq Ref /\ m.applied \subseteq Ref
       /\ m.state \in States \union {"NONE"} /\ (m.state = "NONE" => m = NoManifest)
       /\ Refs(m.tx) \subseteq Ref
  BY DEF NoManifest, Manifest, States, Terminal, Refs, Target

\* What a command that ends, and one that writes its manifest, do to the processes.
LEMMA ForgetEffect ==
  ASSUME TypeOK, NEW p \in Proc, Forget(p)
  PROVE  /\ pc' = [pc EXCEPT ![p] = "idle"] /\ op' = [op EXCEPT ![p] = None]
         /\ request' = [request EXCEPT ![p] = None] /\ mem' = [mem EXCEPT ![p] = NoManifest]
         /\ done' = [done EXCEPT ![p] = {}] /\ failed' = [failed EXCEPT ![p] = {}]
         /\ pc'[p] = "idle" /\ op'[p] = None /\ mem'[p] = NoManifest
         /\ done'[p] = {} /\ failed'[p] = {}
         /\ \A q \in Proc \ {p} :
              /\ pc'[q] = pc[q] /\ op'[q] = op[q] /\ request'[q] = request[q]
              /\ mem'[q] = mem[q] /\ done'[q] = done[q] /\ failed'[q] = failed[q]
  BY DEF TypeOK, Forget, Goto

LEMMA ForgetType ==
  ASSUME TypeOK, NEW p \in Proc, Forget(p)
  PROVE  /\ pc' \in [Proc -> Mutating \union {"idle", "planned", "naming", "locked", "read",
                                                "reread", "release"}]
         /\ op' \in [Proc -> {"apply", "recover", None}]
         /\ request' \in [Proc -> Request \union {None}]
         /\ mem' \in [Proc -> Manifest \union {NoManifest}]
         /\ done' \in [Proc -> SUBSET Ref] /\ failed' \in [Proc -> SUBSET Ref]
  BY ForgetEffect, SMTT(40) DEF TypeOK

LEMMA PersistEffect ==
  ASSUME TypeOK, NEW p \in Proc, NEW m \in Manifest, NEW good, NEW bad, Persist(p, m, good, bad)
  PROVE  /\ mem' = [mem EXCEPT ![p] = m] /\ mem'[p] = m
         /\ pc'[p] \in {good, bad} /\ pc' = [pc EXCEPT ![p] = pc'[p]]
         /\ journal' \in {journal, m}
         /\ pc'[p] = good /\ good # bad => journal' = m
         /\ LostOnly /\ pc'[p] # good => journal' = journal
         /\ \A q \in Proc \ {p} : mem'[q] = mem[q] /\ pc'[q] = pc[q]
         /\ faults' \in Nat
<1>1. PICK o \in Outcomes :
        /\ journal' = IF o = "lost" THEN journal ELSE m
        /\ Goto(p, IF o = "ok" THEN good ELSE bad)
        /\ mem' = [mem EXCEPT ![p] = m]
        /\ Count(o)
  BY DEF Persist
<1>2. pc' = [pc EXCEPT ![p] = IF o = "ok" THEN good ELSE bad] /\ faults' \in Nat
  BY <1>1 DEF TypeOK, Goto, Count
<1>3. LostOnly => o \in {"ok", "lost"}
  BY DEF Outcomes, LostOnly
<1> QED BY <1>1, <1>2, <1>3 DEF TypeOK

\* A manifest in hand that is written stays well typed.
LEMMA HandTypes ==
  ASSUME TypeOK, NEW p \in Proc, mem[p] # NoManifest
  PROVE  /\ mem[p] \in Manifest /\ Refs(mem[p].tx) \subseteq Ref
         /\ \A s \in States : [mem[p] EXCEPT !.state = s] \in Manifest
         /\ \A A \in SUBSET Ref : [mem[p] EXCEPT !.attempted = A] \in Manifest
         /\ [mem[p] EXCEPT !.applied = mem[p].attempted] \in Manifest
<1>1. mem[p] \in Manifest
  BY DEF TypeOK
<1> QED BY <1>1 DEF Manifest, Refs, Target

\* One iteration of the restore loop.
RestoreOne(p, r) ==
  LET t == TargetOf(mem[p].tx, r) IN
  /\ done' = [done EXCEPT ![p] = @ \union {r}]
  /\ \/ /\ disk[r] = t.before /\ dirty' = dirty \ {r} /\ UNCHANGED <<disk, failed, faults>>
     \/ /\ disk[r] \notin {t.before, t.after}
        /\ failed' = [failed EXCEPT ![p] = @ \union {r}] /\ UNCHANGED <<disk, dirty, faults>>
     \/ /\ disk[r] = t.after
        /\ \E o \in Outcomes :
             /\ disk' = IF o = "lost" THEN disk ELSE [disk EXCEPT ![r] = t.before]
             /\ dirty' = IF o = "lost" THEN dirty ELSE dirty \ {r}
             /\ failed' = IF o = "ok" THEN failed ELSE [failed EXCEPT ![p] = @ \union {r}]
             /\ Count(o)

\* Every step keeps the state well typed.
LEMMA TypeStep == TypeOK /\ Manifests /\ [Next]_vars => TypeOK'
<1> SUFFICES ASSUME TypeOK, Manifests, [Next]_vars PROVE TypeOK'
  OBVIOUS
<1>1. CASE UNCHANGED vars
  BY <1>1 DEF TypeOK, vars
<1>2. ASSUME NEW p \in Proc, AcquireLock(p) PROVE TypeOK'
  <2>1. CASE Refuse(p)
    BY <2>1, ForgetType DEF TypeOK, Refuse
  <2>2. CASE CreateLock(p)
    BY <1>2, <2>2 DEF TypeOK, CreateLock, Goto
  <2> QED BY <1>2, <2>1, <2>2 DEF AcquireLock
<1>3. ASSUME NEW p \in Proc, NameLock(p) PROVE TypeOK'
  <2>1. CASE lockId' = mem[p].tx /\ Goto(p, IF op[p] = "apply" THEN "locked" ELSE "reread")
               /\ UNCHANGED <<holder, op, request, mem, done, failed, faults>>
    BY <1>3, <2>1, ManifestTypes DEF TypeOK, NameLock, Goto
  <2>2. CASE Forget(p) /\ lockId' = None /\ holder' = None /\ faults' = faults + 1
    BY <1>3, <2>2, ForgetType DEF TypeOK, NameLock
  <2> QED BY <1>3, <2>1, <2>2 DEF NameLock
<1>4. ASSUME NEW p \in Proc, LockedAdmission(p) PROVE TypeOK'
  BY <1>4 DEF TypeOK, LockedAdmission, Goto, Mutating
<1>5. ASSUME NEW p \in Proc, WritePrepared(p) PROVE TypeOK'
  <2> DEFINE m == mem[p]
  <2>1. m \in Manifest
    BY <1>5, HandTypes DEF WritePrepared, Manifests, Mutating, States, Terminal
  <2>2. Persist(p, m, "begin", "restore")
    BY <1>5 DEF WritePrepared
  <2> HIDE DEF m
  <2>3. pc'[p] \in {"begin", "restore"} /\ mem' = [mem EXCEPT ![p] = m] /\ journal' \in {journal, m}
        /\ pc' = [pc EXCEPT ![p] = pc'[p]] /\ faults' \in Nat
    BY <2>1, <2>2, PersistEffect
  <2> QED BY <1>5, <2>1, <2>3 DEF TypeOK, WritePrepared, Mutating
<1>6. ASSUME NEW p \in Proc, WriteApplying(p) PROVE TypeOK'
  <2> DEFINE m == [mem[p] EXCEPT !.state = "APPLYING"]
  <2>1. m \in Manifest
    BY <1>6, HandTypes DEF WriteApplying, Manifests, Mutating, States, Terminal
  <2>2. Persist(p, m, "next", "restore")
    BY <1>6 DEF WriteApplying
  <2> HIDE DEF m
  <2>3. pc'[p] \in {"next", "restore"} /\ mem' = [mem EXCEPT ![p] = m] /\ journal' \in {journal, m}
        /\ pc' = [pc EXCEPT ![p] = pc'[p]] /\ faults' \in Nat
    BY <2>1, <2>2, PersistEffect
  <2> QED BY <1>6, <2>1, <2>3 DEF TypeOK, WriteApplying, Mutating
<1>7. ASSUME NEW p \in Proc, AttemptTarget(p) PROVE TypeOK'
  <2> PICK r \in Refs(mem[p].tx) :
         Persist(p, [mem[p] EXCEPT !.attempted = @ \union {r}], "replace", "restore")
    BY <1>7 DEF AttemptTarget
  <2> DEFINE m == [mem[p] EXCEPT !.attempted = @ \union {r}]
  <2>1. m \in Manifest
    <3>1. mem[p] # NoManifest
      BY <1>7 DEF AttemptTarget, Manifests, Mutating
    <3>2. mem[p].attempted \union {r} \in SUBSET Ref
      BY HandTypes, ManifestTypes
    <3> QED BY <3>1, <3>2, HandTypes
  <2>2. Persist(p, m, "replace", "restore")
    OBVIOUS
  <2> HIDE DEF m
  <2>3. pc'[p] \in {"replace", "restore"} /\ mem' = [mem EXCEPT ![p] = m]
        /\ pc' = [pc EXCEPT ![p] = pc'[p]] /\ journal' \in {journal, m} /\ faults' \in Nat
    BY <2>1, <2>2, PersistEffect
  <2> QED BY <1>7, <2>1, <2>3 DEF TypeOK, AttemptTarget, Mutating
<1>8. ASSUME NEW p \in Proc, ReplaceTarget(p) PROVE TypeOK'
  <2> PICK r \in mem[p].attempted \ mem[p].applied, o \in Outcomes :
         /\ disk' = IF o = "lost" THEN disk ELSE [disk EXCEPT ![r] = TargetOf(mem[p].tx, r).after]
         /\ dirty' = IF o = "lost" THEN dirty ELSE dirty \union {r}
         /\ Goto(p, IF o = "ok" THEN "account" ELSE "restore")
         /\ Count(o)
    BY <1>8 DEF ReplaceTarget
  <2>1. mem[p].tx \in Transaction /\ r \in Refs(mem[p].tx)
    BY <1>8 DEF ReplaceTarget, Manifests, Mutating, Drawn
  <2>2. r \in Ref /\ TargetOf(mem[p].tx, r).after \in Image
    BY <2>1, TransactionFacts DEF Target, Image
  <2> QED BY <1>8, <2>2 DEF TypeOK, ReplaceTarget, Goto, Count, Mutating
<1>9. ASSUME NEW p \in Proc, AccountTarget(p) PROVE TypeOK'
  <2> DEFINE m == [mem[p] EXCEPT !.applied = mem[p].attempted]
  <2>1. m \in Manifest
    BY <1>9, HandTypes DEF AccountTarget, Manifests, Mutating, States, Terminal
  <2>2. Persist(p, m, "next", "restore")
    BY <1>9 DEF AccountTarget
  <2> HIDE DEF m
  <2>3. pc'[p] \in {"next", "restore"} /\ mem' = [mem EXCEPT ![p] = m] /\ journal' \in {journal, m}
        /\ pc' = [pc EXCEPT ![p] = pc'[p]] /\ faults' \in Nat
    BY <2>1, <2>2, PersistEffect
  <2> QED BY <1>9, <2>1, <2>3 DEF TypeOK, AccountTarget, Mutating
<1>10. ASSUME NEW p \in Proc, Commit(p) PROVE TypeOK'
  <2> DEFINE m == [mem[p] EXCEPT !.state = "COMMITTED"]
  <2>1. m \in Manifest
    BY <1>10, HandTypes DEF Commit, Manifests, Mutating, States, Terminal
  <2>2. Persist(p, m, "release", "restore")
    BY <1>10 DEF Commit
  <2> HIDE DEF m
  <2>3. pc'[p] \in {"release", "restore"} /\ mem' = [mem EXCEPT ![p] = m]
        /\ journal' \in {journal, m}
        /\ pc' = [pc EXCEPT ![p] = pc'[p]] /\ faults' \in Nat
    BY <2>1, <2>2, PersistEffect
  <2> QED BY <1>10, <2>1, <2>3 DEF TypeOK, Commit, Mutating
<1>11. ASSUME NEW p \in Proc, RestoreTarget(p) PROVE TypeOK'
  <2> PICK r \in mem[p].attempted \ done[p] : RestoreOne(p, r)
    BY <1>11 DEF RestoreTarget, RestoreOne
  <2>1. mem[p].tx \in Transaction /\ r \in Refs(mem[p].tx)
    BY <1>11 DEF RestoreTarget, Manifests, Mutating, Drawn
  <2>2. r \in Ref /\ TargetOf(mem[p].tx, r).before \in Image
    BY <2>1, TransactionFacts DEF Target
  <2>3. disk' \in [Ref -> Image] /\ dirty' \subseteq Ref
    BY <2>2 DEF TypeOK, RestoreOne
  <2>4. done' \in [Proc -> SUBSET Ref] /\ failed' \in [Proc -> SUBSET Ref]
    BY <2>2 DEF TypeOK, RestoreOne
  <2>5. faults' \in Nat
    BY DEF TypeOK, RestoreOne, Count
  <2> QED BY <1>11, <2>3, <2>4, <2>5 DEF TypeOK, RestoreTarget
<1>12. ASSUME NEW p \in Proc, FinishRestore(p) PROVE TypeOK'
  <2> DEFINE m == [mem[p] EXCEPT !.state = IF failed[p] = {} THEN "RECOVERED" ELSE "PARTIAL"]
  <2>1. m \in Manifest
    BY <1>12, HandTypes DEF FinishRestore, Manifests, Mutating, States, Terminal
  <2>2. Persist(p, m, "release", "release")
    BY <1>12 DEF FinishRestore
  <2> HIDE DEF m
  <2>3. pc'[p] \in {"release", "release"} /\ mem' = [mem EXCEPT ![p] = m]
        /\ journal' \in {journal, m}
        /\ pc' = [pc EXCEPT ![p] = pc'[p]] /\ faults' \in Nat
    BY <2>1, <2>2, PersistEffect
  <2> QED BY <1>12, <2>1, <2>3 DEF TypeOK, FinishRestore
<1>13. ASSUME NEW p \in Proc, ReleaseLock(p) PROVE TypeOK'
  BY <1>13, ForgetType DEF TypeOK, ReleaseLock, DropLock, Mutating
<1>14. ASSUME NEW p \in Proc, ClaimLock(p) PROVE TypeOK'
  <2>1. CASE Refuse(p)
    BY <2>1, ForgetType DEF TypeOK, Refuse
  <2>2. CASE CreateLock(p)
    BY <1>14, <2>2 DEF TypeOK, CreateLock, Goto
  <2>3. CASE ~Refuse(p) /\ ~CreateLock(p)
    BY <1>14, <2>3, ZenonT(60) DEF TypeOK, ClaimLock, Goto
  <2> QED BY <2>1, <2>2, <2>3
<1>15. ASSUME NEW p \in Proc, RereadJournal(p) PROVE TypeOK'
  <2>1. upset' \in BOOLEAN
    BY <1>15 DEF TypeOK, RereadJournal
  <2>2. mem' \in [Proc -> Manifest \union {NoManifest}]
    BY <1>15 DEF TypeOK, RereadJournal
  <2>3. pc' = [pc EXCEPT ![p] = "restore"] \/ pc' = [pc EXCEPT ![p] = "release"]
    BY <1>15 DEF RereadJournal, Goto
  <2> QED BY <1>15, <2>1, <2>2, <2>3 DEF TypeOK, RereadJournal, Mutating
<1>16. ASSUME NEW p \in Proc, Crash(p) PROVE TypeOK'
  BY <1>16, ForgetType DEF TypeOK, Crash, DropLock, Mutating
<1>17. ASSUME NEW p \in Recoverer, BeginRecover(p) PROVE TypeOK'
  BY <1>17 DEF TypeOK, BeginRecover, Goto, Mutating
<1>18. ASSUME NEW p \in Writer, NEW q \in Request, BeginApply(p, q) PROVE TypeOK'
  BY <1>18, PlanFacts, TransactionFacts DEF TypeOK, BeginApply, Goto, Mutating, Manifest, States
<1> QED BY <1>1, <1>2, <1>3, <1>4, <1>5, <1>6, <1>7, <1>8, <1>9, <1>10, <1>11, <1>12, <1>13,
           <1>14, <1>15, <1>16, <1>17, <1>18 DEF Next, Step

\* Every step keeps who has the lock, what a command is and what its manifest holds.
LEMMA OwnershipStep == TypeOK /\ Ownership /\ [Next]_vars => Ownership'
<1> SUFFICES ASSUME TypeOK, Ownership, [Next]_vars PROVE Ownership'
  OBVIOUS
<1>1. CASE UNCHANGED vars
  BY <1>1 DEF vars, Ownership, Owned, Roles, Manifests, Waiting, Drawn
<1>2. ASSUME NEW p \in Proc, AcquireLock(p) PROVE Ownership'
  <2>4. Owned'
     BY <1>2, ForgetEffect DEF TypeOK, Ownership, Owned, AcquireLock, Refuse, CreateLock,
       NoManifest, Goto, Writing
  <2>5. Roles'
     BY <1>2, ForgetEffect DEF TypeOK, Ownership, Roles, Waiting, AcquireLock, Refuse,
       CreateLock, NoManifest, Goto, Writing
  <2>6. Manifests'
     BY <1>2, ForgetEffect DEF TypeOK, Ownership, Manifests, Drawn, Waiting, AcquireLock,
       Refuse, CreateLock, NoManifest, Goto, Mutating
  <2> QED BY <2>4, <2>5, <2>6 DEF Ownership
<1>3. ASSUME NEW p \in Proc, NameLock(p) PROVE Ownership'
  <2>4. Owned'
     BY <1>3, ForgetEffect, TransactionFacts, SMTT(40) DEF TypeOK, Ownership, Owned, NameLock,
       NoManifest, Manifests, Drawn, Goto, Writing
  <2>5. Roles'
     BY <1>3, ForgetEffect DEF TypeOK, Ownership, Roles, Waiting, NameLock, NoManifest, Goto,
       Writing
  <2>6. Manifests'
     BY <1>3, ForgetEffect, ManifestTypes DEF TypeOK, Ownership, Manifests, Drawn, Waiting,
       NameLock, NoManifest, Roles, Goto, Mutating
  <2> QED BY <2>4, <2>5, <2>6 DEF Ownership
<1>4. ASSUME NEW p \in Proc, LockedAdmission(p) PROVE Ownership'
  <2>4. Owned'
    BY <1>4 DEF Ownership, Owned, LockedAdmission, Goto, Writing
  <2>5. Roles'
    BY <1>4 DEF Ownership, Roles, Waiting, LockedAdmission, Goto, Writing
  <2>6. Manifests'
     BY <1>4, ManifestTypes DEF Ownership, Manifests, Drawn, Waiting, LockedAdmission, Roles,
       Goto, Mutating
  <2> QED BY <2>4, <2>5, <2>6 DEF Ownership
<1>5. ASSUME NEW p \in Proc, WritePrepared(p) PROVE Ownership'
  <2> DEFINE m == mem[p]
  <2>1. m \in Manifest /\ m # NoManifest /\ m.tx = mem[p].tx /\ m.attempted = mem[p].attempted
        /\ m.applied = mem[p].applied /\ m.state = mem[p].state /\ mem[p].tx \in Transaction
    <3>1. mem[p] # NoManifest /\ mem[p].tx \in Transaction
      BY <1>5 DEF WritePrepared, Ownership, Manifests, Mutating, Drawn
    <3>2. m \in Manifest /\ mem[p] \in Manifest
      BY <3>1, HandTypes
    <3> QED BY <3>1, <3>2, ManifestTypes
  <2>2. Persist(p, m, "begin", "restore")
    BY <1>5 DEF WritePrepared
  <2> HIDE DEF m
  <2>3. /\ pc'[p] \in {"begin", "restore"} /\ mem' = [mem EXCEPT ![p] = m]
        /\ journal' \in {journal, m}
        /\ pc' = [pc EXCEPT ![p] = pc'[p]] /\ mem'[p] = m
        /\ \A q \in Proc \ {p} : mem'[q] = mem[q] /\ pc'[q] = pc[q]
    BY <2>1, <2>2, PersistEffect
  <2>4. Owned'
    BY <1>5, <2>1, <2>3 DEF Ownership, Owned, WritePrepared, Writing
  <2>5. Roles'
    BY <1>5, <2>1, <2>3 DEF Ownership, Roles, Waiting, WritePrepared, Writing
  <2>6. Manifests'
    BY <1>5, <2>1, <2>3 DEF Ownership, Manifests, Drawn, Waiting, WritePrepared, Mutating
  <2> QED BY <2>4, <2>5, <2>6 DEF Ownership
<1>6. ASSUME NEW p \in Proc, WriteApplying(p) PROVE Ownership'
  <2> DEFINE m == [mem[p] EXCEPT !.state = "APPLYING"]
  <2>1. m \in Manifest /\ m # NoManifest /\ m.tx = mem[p].tx /\ m.attempted = mem[p].attempted
        /\ m.state = "APPLYING" /\ mem[p].tx \in Transaction
    <3>1. mem[p] # NoManifest /\ mem[p].tx \in Transaction
      BY <1>6 DEF WriteApplying, Ownership, Manifests, Mutating, Drawn
    <3>2. m \in Manifest /\ mem[p] \in Manifest
      BY <3>1, HandTypes DEF States
    <3> QED BY <3>1, <3>2, ManifestTypes
  <2>2. Persist(p, m, "next", "restore")
    BY <1>6 DEF WriteApplying
  <2> HIDE DEF m
  <2>3. /\ pc'[p] \in {"next", "restore"} /\ mem' = [mem EXCEPT ![p] = m]
        /\ journal' \in {journal, m}
        /\ pc' = [pc EXCEPT ![p] = pc'[p]] /\ mem'[p] = m
        /\ \A q \in Proc \ {p} : mem'[q] = mem[q] /\ pc'[q] = pc[q]
    BY <2>1, <2>2, PersistEffect
  <2>4. Owned'
    BY <1>6, <2>1, <2>3 DEF Ownership, Owned, WriteApplying, Writing
  <2>5. Roles'
    BY <1>6, <2>1, <2>3 DEF Ownership, Roles, Waiting, WriteApplying, Writing
  <2>6. Manifests'
    BY <1>6, <2>1, <2>3 DEF Ownership, Manifests, Drawn, Waiting, WriteApplying, Mutating
  <2> QED BY <2>4, <2>5, <2>6 DEF Ownership
<1>7. ASSUME NEW p \in Proc, AttemptTarget(p) PROVE Ownership'
  <2> PICK r \in Refs(mem[p].tx) \ mem[p].attempted :
         Persist(p, [mem[p] EXCEPT !.attempted = @ \union {r}], "replace", "restore")
    BY <1>7 DEF AttemptTarget
  <2> DEFINE m == [mem[p] EXCEPT !.attempted = @ \union {r}]
  <2>1. m \in Manifest /\ m # NoManifest /\ m.tx = mem[p].tx
        /\ m.attempted = mem[p].attempted \union {r}
        /\ m.state = mem[p].state /\ mem[p].tx \in Transaction
    <3>1. mem[p] # NoManifest /\ mem[p].tx \in Transaction
      BY <1>7 DEF AttemptTarget, Ownership, Manifests, Mutating, Drawn
    <3>2. mem[p].attempted \union {r} \in SUBSET Ref
      BY HandTypes, ManifestTypes
    <3>3. m \in Manifest /\ mem[p] \in Manifest
      BY <3>1, <3>2, HandTypes
    <3> QED BY <3>1, <3>3, ManifestTypes
  <2>2. Persist(p, m, "replace", "restore")
    OBVIOUS
  <2> HIDE DEF m
  <2>3. /\ pc'[p] \in {"replace", "restore"} /\ mem' = [mem EXCEPT ![p] = m]
        /\ journal' \in {journal, m}
        /\ pc' = [pc EXCEPT ![p] = pc'[p]] /\ mem'[p] = m
        /\ \A q \in Proc \ {p} : mem'[q] = mem[q] /\ pc'[q] = pc[q]
    BY <2>1, <2>2, PersistEffect
  <2>4. Owned'
    BY <1>7, <2>1, <2>3 DEF Ownership, Owned, AttemptTarget, Writing
  <2>5. Roles'
    BY <1>7, <2>1, <2>3 DEF Ownership, Roles, Waiting, AttemptTarget, Writing
  <2>6. Manifests'
    BY <1>7, <2>1, <2>3 DEF Ownership, Manifests, Drawn, Waiting, AttemptTarget, Mutating
  <2> QED BY <2>4, <2>5, <2>6 DEF Ownership
<1>8. ASSUME NEW p \in Proc, ReplaceTarget(p) PROVE Ownership'
  <2>4. Owned'
    BY <1>8 DEF Ownership, Owned, ReplaceTarget, Goto, Writing
  <2>5. Roles'
    BY <1>8 DEF Ownership, Roles, Waiting, ReplaceTarget, Goto, Writing
  <2>6. Manifests'
    BY <1>8 DEF Ownership, Manifests, Drawn, Waiting, ReplaceTarget, Goto, Mutating
  <2> QED BY <2>4, <2>5, <2>6 DEF Ownership
<1>9. ASSUME NEW p \in Proc, AccountTarget(p) PROVE Ownership'
  <2> DEFINE m == [mem[p] EXCEPT !.applied = mem[p].attempted]
  <2>1. m \in Manifest /\ m # NoManifest /\ m.tx = mem[p].tx /\ m.attempted = mem[p].attempted
        /\ m.state = mem[p].state /\ mem[p].tx \in Transaction
    <3>1. mem[p] # NoManifest /\ mem[p].tx \in Transaction
      BY <1>9 DEF AccountTarget, Ownership, Manifests, Mutating, Drawn
    <3>2. m \in Manifest /\ mem[p] \in Manifest
      BY <3>1, HandTypes
    <3> QED BY <3>1, <3>2, ManifestTypes
  <2>2. Persist(p, m, "next", "restore")
    BY <1>9 DEF AccountTarget
  <2> HIDE DEF m
  <2>3. /\ pc'[p] \in {"next", "restore"} /\ mem' = [mem EXCEPT ![p] = m]
        /\ journal' \in {journal, m}
        /\ pc' = [pc EXCEPT ![p] = pc'[p]] /\ mem'[p] = m
        /\ \A q \in Proc \ {p} : mem'[q] = mem[q] /\ pc'[q] = pc[q]
    BY <2>1, <2>2, PersistEffect
  <2>4. Owned'
    BY <1>9, <2>1, <2>3 DEF Ownership, Owned, AccountTarget, Writing
  <2>5. Roles'
    BY <1>9, <2>1, <2>3 DEF Ownership, Roles, Waiting, AccountTarget, Writing
  <2>6. Manifests'
    BY <1>9, <2>1, <2>3 DEF Ownership, Manifests, Drawn, Waiting, AccountTarget, Mutating
  <2> QED BY <2>4, <2>5, <2>6 DEF Ownership
<1>10. ASSUME NEW p \in Proc, Commit(p) PROVE Ownership'
  <2> DEFINE m == [mem[p] EXCEPT !.state = "COMMITTED"]
  <2>1. m \in Manifest /\ m # NoManifest /\ m.tx = mem[p].tx /\ m.attempted = mem[p].attempted
        /\ m.state = "COMMITTED" /\ mem[p].tx \in Transaction
    <3>1. mem[p] # NoManifest /\ mem[p].tx \in Transaction
      BY <1>10 DEF Commit, Ownership, Manifests, Mutating, Drawn
    <3>2. m \in Manifest /\ mem[p] \in Manifest
      BY <3>1, HandTypes DEF States, Terminal
    <3> QED BY <3>1, <3>2, ManifestTypes
  <2>2. Persist(p, m, "release", "restore")
    BY <1>10 DEF Commit
  <2> HIDE DEF m
  <2>3. /\ pc'[p] \in {"release", "restore"} /\ mem' = [mem EXCEPT ![p] = m]
        /\ journal' \in {journal, m}
        /\ pc' = [pc EXCEPT ![p] = pc'[p]] /\ mem'[p] = m
        /\ \A q \in Proc \ {p} : mem'[q] = mem[q] /\ pc'[q] = pc[q]
    BY <2>1, <2>2, PersistEffect
  <2>4. Owned'
    BY <1>10, <2>1, <2>3 DEF Ownership, Owned, Commit, Writing
  <2>5. Roles'
    BY <1>10, <2>1, <2>3 DEF Ownership, Roles, Waiting, Commit, Writing
  <2>6. Manifests'
    BY <1>10, <2>1, <2>3 DEF Ownership, Manifests, Drawn, Waiting, Commit, Mutating
  <2> QED BY <2>4, <2>5, <2>6 DEF Ownership
<1>11. ASSUME NEW p \in Proc, RestoreTarget(p) PROVE Ownership'
  <2>4. Owned'
    BY <1>11 DEF Ownership, Owned, RestoreTarget, Writing
  <2>5. Roles'
    BY <1>11 DEF Ownership, Roles, Waiting, RestoreTarget, Writing
  <2>6. Manifests'
    BY <1>11 DEF TypeOK, Ownership, Manifests, Drawn, Waiting, RestoreTarget, Mutating
  <2> QED BY <2>4, <2>5, <2>6 DEF Ownership
<1>12. ASSUME NEW p \in Proc, FinishRestore(p) PROVE Ownership'
  <2> DEFINE m == [mem[p] EXCEPT !.state = IF failed[p] = {} THEN "RECOVERED" ELSE "PARTIAL"]
  <2>1. m \in Manifest /\ m # NoManifest /\ m.tx = mem[p].tx /\ m.attempted = mem[p].attempted
        /\ m.state \in {"RECOVERED", "PARTIAL"} /\ mem[p].tx \in Transaction
    <3>1. mem[p] # NoManifest /\ mem[p].tx \in Transaction
      BY <1>12 DEF FinishRestore, Ownership, Manifests, Mutating, Drawn
    <3>2. m \in Manifest /\ mem[p] \in Manifest
      BY <3>1, HandTypes DEF States, Terminal
    <3> QED BY <3>1, <3>2, ManifestTypes
  <2>2. Persist(p, m, "release", "release")
    BY <1>12 DEF FinishRestore
  <2> HIDE DEF m
  <2>3. /\ pc'[p] \in {"release", "release"} /\ mem' = [mem EXCEPT ![p] = m]
        /\ journal' \in {journal, m}
        /\ pc' = [pc EXCEPT ![p] = pc'[p]] /\ mem'[p] = m
        /\ \A q \in Proc \ {p} : mem'[q] = mem[q] /\ pc'[q] = pc[q]
    BY <2>1, <2>2, PersistEffect
  <2>4. Owned'
    BY <1>12, <2>1, <2>3 DEF Ownership, Owned, FinishRestore, Writing
  <2>5. Roles'
    BY <1>12, <2>1, <2>3 DEF Ownership, Roles, Waiting, FinishRestore, Writing
  <2>6. Manifests'
    BY <1>12, <2>1, <2>3 DEF Ownership, Manifests, Drawn, Waiting, FinishRestore, Mutating
  <2> QED BY <2>4, <2>5, <2>6 DEF Ownership
<1>13. ASSUME NEW p \in Proc, ReleaseLock(p) PROVE Ownership'
  <2>4. Owned'
    BY <1>13, ForgetEffect DEF Ownership, Owned, ReleaseLock, DropLock, NoManifest, Writing
  <2>5. Roles'
     BY <1>13, ForgetEffect DEF Ownership, Roles, Waiting, ReleaseLock, DropLock, NoManifest,
       Writing
  <2>6. Manifests'
     BY <1>13, ForgetEffect DEF Ownership, Manifests, Drawn, Waiting, ReleaseLock, DropLock,
       NoManifest, Mutating
  <2> QED BY <2>4, <2>5, <2>6 DEF Ownership
<1>14. ASSUME NEW p \in Proc, ClaimLock(p) PROVE Ownership'
  <2>4. Owned'
     BY <1>14, ForgetEffect DEF TypeOK, Ownership, Owned, ClaimLock, Refuse, CreateLock,
       Claimable, Unresolved, NoManifest, Goto, Writing
  <2>5. Roles'
     BY <1>14, ForgetEffect DEF TypeOK, Ownership, Roles, Waiting, ClaimLock, Refuse,
       CreateLock, Claimable, Unresolved, NoManifest, Goto, Writing
  <2>6. Manifests'
     BY <1>14, ForgetEffect, ManifestTypes DEF TypeOK, Ownership, Manifests, Drawn, Waiting,
       ClaimLock, Refuse, CreateLock, Claimable, Unresolved, NoManifest, Roles, Goto, Mutating
  <2> QED BY <2>4, <2>5, <2>6 DEF Ownership
<1>15. ASSUME NEW p \in Proc, RereadJournal(p) PROVE Ownership'
  <2>1. ~upset' => ~upset /\ (pc'[p] = "restore" => holder = p)
    BY <1>15 DEF TypeOK, RereadJournal, Goto
  <2>2. /\ pc'[p] \in {"restore", "release"} /\ \A q \in Proc \ {p} : pc'[q] = pc[q]
        /\ UNCHANGED <<holder, lockId>>
    BY <1>15 DEF TypeOK, RereadJournal, Goto
  <2>4. Owned'
     BY <1>15, <2>1, <2>2 DEF Ownership, Owned, RereadJournal, Unresolved, NoManifest, Goto,
       Writing
  <2>5. Roles'
     BY <1>15 DEF TypeOK, Ownership, Roles, Waiting, RereadJournal, Unresolved, NoManifest,
       Goto, Writing
  <2>6. Manifests'
     BY <1>15 DEF TypeOK, Ownership, Manifests, Drawn, Waiting, RereadJournal, Unresolved,
       NoManifest, Goto, Mutating
  <2> QED BY <2>4, <2>5, <2>6 DEF Ownership
<1>16. ASSUME NEW p \in Proc, Crash(p) PROVE Ownership'
  <2>4. Owned'
    BY <1>16, ForgetEffect DEF Ownership, Owned, Crash, DropLock, NoManifest, Writing
  <2>5. Roles'
    BY <1>16, ForgetEffect DEF Ownership, Roles, Waiting, Crash, DropLock, NoManifest, Writing
  <2>6. Manifests'
     BY <1>16, ForgetEffect DEF Ownership, Manifests, Drawn, Waiting, Crash, DropLock,
       NoManifest, Mutating
  <2> QED BY <2>4, <2>5, <2>6 DEF Ownership
<1>17. ASSUME NEW p \in Recoverer, BeginRecover(p) PROVE Ownership'
  <2>4. Owned'
    BY <1>17 DEF Ownership, Owned, BeginRecover, Goto, Writing
  <2>5. Roles'
    BY <1>17 DEF TypeOK, Ownership, Roles, Waiting, BeginRecover, Goto, Writing
  <2>6. Manifests'
    BY <1>17 DEF Ownership, Manifests, Drawn, Waiting, BeginRecover, Goto, Mutating
  <2> QED BY <2>4, <2>5, <2>6 DEF Ownership
<1>18. ASSUME NEW p \in Writer, NEW q \in Request, BeginApply(p, q) PROVE Ownership'
  <2>4. Owned'
     BY <1>18, PlanFacts, ManifestTypes DEF Ownership, Owned, BeginApply, InspectPass,
       NoManifest, Goto, Writing
  <2>5. Roles'
     BY <1>18, PlanFacts, ManifestTypes DEF TypeOK, Ownership, Roles, Waiting, BeginApply,
       InspectPass, NoManifest, Goto, Writing
  <2>6. Manifests'
     BY <1>18, PlanFacts, ManifestTypes DEF TypeOK, Ownership, Manifests, Drawn, Waiting,
       BeginApply, InspectPass, NoManifest, Goto, Mutating
  <2> QED BY <2>4, <2>5, <2>6 DEF Ownership
<1> QED BY <1>1, <1>2, <1>3, <1>4, <1>5, <1>6, <1>7, <1>8, <1>9, <1>10, <1>11, <1>12, <1>13,
           <1>14, <1>15, <1>16, <1>17, <1>18 DEF Next, Step

\* With one writer, every step keeps every file it has written on record.
LEMMA AccountedStep ==
  OneWriter /\ TypeOK /\ Ownership /\ Accounted /\ [Next]_vars => Accounted'
<1> SUFFICES ASSUME OneWriter, TypeOK, Ownership, Accounted, [Next]_vars PROVE Accounted'
  OBVIOUS
<1>1. CASE UNCHANGED vars
  BY <1>1 DEF vars, Accounted, Waiting
<1>2. ASSUME NEW p \in Proc, AcquireLock(p) PROVE Accounted'
  <2>1. CASE Refuse(p)
    BY <1>2, <2>1, ForgetEffect DEF Refuse, Accounted, Waiting
  <2>2. CASE CreateLock(p)
     BY <1>2, <2>2 DEF CreateLock, AcquireLock, Accounted, Waiting, TypeOK, Ownership, Roles,
       Goto
  <2> QED BY <1>2, <2>1, <2>2 DEF AcquireLock
<1>3. ASSUME NEW p \in Proc, NameLock(p) PROVE Accounted'
   BY <1>3, ForgetEffect DEF TypeOK, Roles, Manifests, Accounted, Waiting, Drawn, Writing,
     OneWriter, NameLock, Goto
<1>4. ASSUME NEW p \in Proc, LockedAdmission(p) PROVE Accounted'
   BY <1>4 DEF Roles, Manifests, Accounted, Waiting, Drawn, Writing, OneWriter,
     LockedAdmission, Goto
<1>5. ASSUME NEW p \in Proc, WritePrepared(p) PROVE Accounted'
  <2> DEFINE m == mem[p]
  <2>1. m \in Manifest /\ m # NoManifest /\ m.tx = mem[p].tx /\ m.attempted = mem[p].attempted
        /\ m.applied = mem[p].applied /\ m.state = mem[p].state /\ mem[p].tx \in Transaction
    <3>1. mem[p] # NoManifest /\ mem[p].tx \in Transaction
      BY <1>5 DEF WritePrepared, Ownership, Manifests, Mutating, Drawn
    <3>2. m \in Manifest /\ mem[p] \in Manifest
      BY <3>1, HandTypes
    <3> QED BY <3>1, <3>2, ManifestTypes
  <2>2. Persist(p, m, "begin", "restore")
    BY <1>5 DEF WritePrepared
  <2> HIDE DEF m
  <2>3. /\ pc'[p] \in {"begin", "restore"} /\ mem' = [mem EXCEPT ![p] = m]
        /\ journal' \in {journal, m}
        /\ pc' = [pc EXCEPT ![p] = pc'[p]] /\ mem'[p] = m
        /\ pc'[p] = "begin" /\ "begin" # "restore" => journal' = m
        /\ LostOnly /\ pc'[p] # "begin" => journal' = journal
        /\ \A q \in Proc \ {p} : mem'[q] = mem[q] /\ pc'[q] = pc[q]
    BY <2>1, <2>2, PersistEffect
  <2>4. ASSUME ~upset PROVE /\ dirty' # {} => journal'.state \in {"APPLYING", "PARTIAL"}
                                              /\ dirty' \subseteq journal'.attempted
     BY <1>5, <2>1, <2>3, <2>4 DEF WritePrepared, Owned, Roles, Manifests, Accounted, Waiting,
       Drawn, Writing, OneWriter, Mutating
  <2>5. ASSUME ~upset, NEW q \in Proc
        PROVE  /\ Waiting(q)' \/ pc'[q] \in {"prepare", "begin"} => dirty' = {}
               /\ pc'[q] \in {"next", "replace", "account"} => journal' = mem'[q]
               /\ pc'[q] = "restore" => dirty' \subseteq mem'[q].attempted
                  /\ dirty' \intersect done'[q] \subseteq failed'[q]
    <3>1. CASE q = p
       BY <1>5, <2>1, <2>3, <2>5, <3>1 DEF WritePrepared, Owned, Roles, Manifests, Accounted,
         Waiting, Drawn, Writing, OneWriter, Mutating
    <3>2. CASE q # p
       BY <1>5, <2>1, <2>3, <2>5, <3>2 DEF WritePrepared, Ownership, Owned, Roles, Manifests,
         Accounted, Waiting, Drawn, Writing, OneWriter, Mutating
    <3> QED BY <3>1, <3>2
  <2> QED BY <1>5, <2>4, <2>5 DEF Accounted, WritePrepared
<1>6. ASSUME NEW p \in Proc, WriteApplying(p) PROVE Accounted'
  <2> DEFINE m == [mem[p] EXCEPT !.state = "APPLYING"]
  <2>1. m \in Manifest /\ m # NoManifest /\ m.tx = mem[p].tx /\ m.attempted = mem[p].attempted
        /\ m.state = "APPLYING" /\ m.applied = mem[p].applied /\ mem[p].tx \in Transaction
    <3>1. mem[p] # NoManifest /\ mem[p].tx \in Transaction
      BY <1>6 DEF WriteApplying, Ownership, Manifests, Mutating, Drawn
    <3>2. m \in Manifest /\ mem[p] \in Manifest
      BY <3>1, HandTypes DEF States
    <3> QED BY <3>1, <3>2, ManifestTypes
  <2>2. Persist(p, m, "next", "restore")
    BY <1>6 DEF WriteApplying
  <2> HIDE DEF m
  <2>3. /\ pc'[p] \in {"next", "restore"} /\ mem' = [mem EXCEPT ![p] = m]
        /\ journal' \in {journal, m}
        /\ pc' = [pc EXCEPT ![p] = pc'[p]] /\ mem'[p] = m
        /\ pc'[p] = "next" /\ "next" # "restore" => journal' = m
        /\ LostOnly /\ pc'[p] # "next" => journal' = journal
        /\ \A q \in Proc \ {p} : mem'[q] = mem[q] /\ pc'[q] = pc[q]
    BY <2>1, <2>2, PersistEffect
  <2>4. ASSUME ~upset PROVE /\ dirty' # {} => journal'.state \in {"APPLYING", "PARTIAL"}
                                              /\ dirty' \subseteq journal'.attempted
     BY <1>6, <2>1, <2>3, <2>4 DEF WriteApplying, Owned, Roles, Manifests, Accounted, Waiting,
       Drawn, Writing, OneWriter, Mutating
  <2>5. ASSUME ~upset, NEW q \in Proc
        PROVE  /\ Waiting(q)' \/ pc'[q] \in {"prepare", "begin"} => dirty' = {}
               /\ pc'[q] \in {"next", "replace", "account"} => journal' = mem'[q]
               /\ pc'[q] = "restore" => dirty' \subseteq mem'[q].attempted
                  /\ dirty' \intersect done'[q] \subseteq failed'[q]
    <3>1. CASE q = p
       BY <1>6, <2>1, <2>3, <2>5, <3>1 DEF WriteApplying, Owned, Roles, Manifests, Accounted,
         Waiting, Drawn, Writing, OneWriter, Mutating
    <3>2. CASE q # p
       BY <1>6, <2>1, <2>3, <2>5, <3>2 DEF WriteApplying, Ownership, Owned, Roles, Manifests,
         Accounted, Waiting, Drawn, Writing, OneWriter, Mutating
    <3> QED BY <3>1, <3>2
  <2> QED BY <1>6, <2>4, <2>5 DEF Accounted, WriteApplying
<1>7. ASSUME NEW p \in Proc, AttemptTarget(p) PROVE Accounted'
  <2> PICK r \in Refs(mem[p].tx) \ mem[p].attempted :
         Persist(p, [mem[p] EXCEPT !.attempted = @ \union {r}], "replace", "restore")
    BY <1>7 DEF AttemptTarget
  <2> DEFINE m == [mem[p] EXCEPT !.attempted = @ \union {r}]
  <2>1. m \in Manifest /\ m # NoManifest /\ m.tx = mem[p].tx
        /\ m.attempted = mem[p].attempted \union {r}
        /\ m.state = mem[p].state /\ m.applied = mem[p].applied /\ mem[p].tx \in Transaction
    <3>1. mem[p] # NoManifest /\ mem[p].tx \in Transaction
      BY <1>7 DEF AttemptTarget, Ownership, Manifests, Mutating, Drawn
    <3>2. mem[p].attempted \union {r} \in SUBSET Ref
      BY HandTypes, ManifestTypes
    <3>3. m \in Manifest /\ mem[p] \in Manifest
      BY <3>1, <3>2, HandTypes
    <3> QED BY <3>1, <3>3, ManifestTypes
  <2>2. Persist(p, m, "replace", "restore")
    OBVIOUS
  <2> HIDE DEF m
  <2>3. /\ pc'[p] \in {"replace", "restore"} /\ mem' = [mem EXCEPT ![p] = m]
        /\ journal' \in {journal, m}
        /\ pc' = [pc EXCEPT ![p] = pc'[p]] /\ mem'[p] = m
        /\ pc'[p] = "replace" /\ "replace" # "restore" => journal' = m
        /\ LostOnly /\ pc'[p] # "replace" => journal' = journal
        /\ \A q \in Proc \ {p} : mem'[q] = mem[q] /\ pc'[q] = pc[q]
    BY <2>1, <2>2, PersistEffect
  <2>4. ASSUME ~upset PROVE /\ dirty' # {} => journal'.state \in {"APPLYING", "PARTIAL"}
                                              /\ dirty' \subseteq journal'.attempted
     BY <1>7, <2>1, <2>3, <2>4 DEF AttemptTarget, Owned, Roles, Manifests, Accounted, Waiting,
       Drawn, Writing, OneWriter, Mutating
  <2>5. ASSUME ~upset, NEW q \in Proc
        PROVE  /\ Waiting(q)' \/ pc'[q] \in {"prepare", "begin"} => dirty' = {}
               /\ pc'[q] \in {"next", "replace", "account"} => journal' = mem'[q]
               /\ pc'[q] = "restore" => dirty' \subseteq mem'[q].attempted
                  /\ dirty' \intersect done'[q] \subseteq failed'[q]
    <3>1. CASE q = p
       BY <1>7, <2>1, <2>3, <2>5, <3>1 DEF AttemptTarget, Ownership, Owned, Roles, Manifests,
         Accounted, Waiting, Drawn, Writing, OneWriter, Mutating
    <3>2. CASE q # p
       BY <1>7, <2>1, <2>3, <2>5, <3>2 DEF AttemptTarget, Ownership, Owned, Roles, Manifests,
         Accounted, Waiting, Drawn, Writing, OneWriter, Mutating
    <3> QED BY <3>1, <3>2
  <2> QED BY <1>7, <2>4, <2>5 DEF Accounted, AttemptTarget
<1>8. ASSUME NEW p \in Proc, ReplaceTarget(p) PROVE Accounted'
  <2> PICK r \in mem[p].attempted \ mem[p].applied, o \in Outcomes :
         /\ dirty' = IF o = "lost" THEN dirty ELSE dirty \union {r}
         /\ Goto(p, IF o = "ok" THEN "account" ELSE "restore")
    BY <1>8 DEF ReplaceTarget
  <2>1. /\ pc'[p] \in {"account", "restore"} /\ \A q \in Proc \ {p} : pc'[q] = pc[q]
        /\ UNCHANGED <<journal, mem, op, done, failed, upset>> /\ dirty' \subseteq dirty \union {r}
    BY <1>8 DEF ReplaceTarget, TypeOK, Goto
  <2>2. p \in Writer /\ holder = p /\ mem[p].state = "APPLYING" /\ done[p] = {}
    BY <1>8 DEF ReplaceTarget, Ownership, Owned, Roles, Manifests, Writing
  <2>3. ASSUME ~upset PROVE journal = mem[p] /\ dirty \subseteq mem[p].attempted
    BY <1>8, <2>3 DEF ReplaceTarget, Accounted
  <2>4. ASSUME ~upset, NEW q \in Proc \ {p}
        PROVE  ~Waiting(q) /\ pc[q] \notin Writing /\ pc[q] # "restore"
    BY <2>2, <2>4 DEF Ownership, Owned, Roles, OneWriter
  <2> QED BY <2>1, <2>2, <2>3, <2>4 DEF Accounted, Waiting, Writing
<1>9. ASSUME NEW p \in Proc, AccountTarget(p) PROVE Accounted'
  <2> DEFINE m == [mem[p] EXCEPT !.applied = mem[p].attempted]
  <2>1. m \in Manifest /\ m # NoManifest /\ m.tx = mem[p].tx /\ m.attempted = mem[p].attempted
        /\ m.state = mem[p].state /\ m.applied = m.attempted /\ mem[p].tx \in Transaction
    <3>1. mem[p] # NoManifest /\ mem[p].tx \in Transaction
      BY <1>9 DEF AccountTarget, Ownership, Manifests, Mutating, Drawn
    <3>2. m \in Manifest /\ mem[p] \in Manifest
      BY <3>1, HandTypes
    <3> QED BY <3>1, <3>2, ManifestTypes
  <2>2. Persist(p, m, "next", "restore")
    BY <1>9 DEF AccountTarget
  <2> HIDE DEF m
  <2>3. /\ pc'[p] \in {"next", "restore"} /\ mem' = [mem EXCEPT ![p] = m]
        /\ journal' \in {journal, m}
        /\ pc' = [pc EXCEPT ![p] = pc'[p]] /\ mem'[p] = m
        /\ pc'[p] = "next" /\ "next" # "restore" => journal' = m
        /\ LostOnly /\ pc'[p] # "next" => journal' = journal
        /\ \A q \in Proc \ {p} : mem'[q] = mem[q] /\ pc'[q] = pc[q]
    BY <2>1, <2>2, PersistEffect
  <2>4. ASSUME ~upset PROVE /\ dirty' # {} => journal'.state \in {"APPLYING", "PARTIAL"}
                                              /\ dirty' \subseteq journal'.attempted
     BY <1>9, <2>1, <2>3, <2>4 DEF AccountTarget, Owned, Roles, Manifests, Accounted, Waiting,
       Drawn, Writing, OneWriter, Mutating
  <2>5. ASSUME ~upset, NEW q \in Proc
        PROVE  /\ Waiting(q)' \/ pc'[q] \in {"prepare", "begin"} => dirty' = {}
               /\ pc'[q] \in {"next", "replace", "account"} => journal' = mem'[q]
               /\ pc'[q] = "restore" => dirty' \subseteq mem'[q].attempted
                  /\ dirty' \intersect done'[q] \subseteq failed'[q]
    <3>1. CASE q = p
       BY <1>9, <2>1, <2>3, <2>5, <3>1 DEF AccountTarget, Ownership, Owned, Roles, Manifests,
         Accounted, Waiting, Drawn, Writing, OneWriter, Mutating
    <3>2. CASE q # p
       BY <1>9, <2>1, <2>3, <2>5, <3>2 DEF AccountTarget, Ownership, Owned, Roles, Manifests,
         Accounted, Waiting, Drawn, Writing, OneWriter, Mutating
    <3> QED BY <3>1, <3>2
  <2> QED BY <1>9, <2>4, <2>5 DEF Accounted, AccountTarget
<1>10. ASSUME NEW p \in Proc, Commit(p) PROVE Accounted'
  <2> DEFINE m == [mem[p] EXCEPT !.state = "COMMITTED"]
  <2>1. m \in Manifest /\ m # NoManifest /\ m.tx = mem[p].tx /\ m.attempted = mem[p].attempted
        /\ m.state = "COMMITTED" /\ mem[p].tx \in Transaction
    <3>1. mem[p] # NoManifest /\ mem[p].tx \in Transaction
      BY <1>10 DEF Commit, Ownership, Manifests, Mutating, Drawn
    <3>2. m \in Manifest /\ mem[p] \in Manifest
      BY <3>1, HandTypes DEF States, Terminal
    <3> QED BY <3>1, <3>2, ManifestTypes
  <2>2. Persist(p, m, "release", "restore")
    BY <1>10 DEF Commit
  <2> HIDE DEF m
  <2>3. /\ pc'[p] \in {"release", "restore"} /\ mem' = [mem EXCEPT ![p] = m]
        /\ journal' \in {journal, m}
        /\ pc' = [pc EXCEPT ![p] = pc'[p]] /\ mem'[p] = m
        /\ pc'[p] = "release" /\ "release" # "restore" => journal' = m
        /\ LostOnly /\ pc'[p] # "release" => journal' = journal
        /\ \A q \in Proc \ {p} : mem'[q] = mem[q] /\ pc'[q] = pc[q]
    BY <2>1, <2>2, PersistEffect
  <2>4. ASSUME ~upset PROVE /\ dirty' # {} => journal'.state \in {"APPLYING", "PARTIAL"}
                                              /\ dirty' \subseteq journal'.attempted
     BY <1>10, <2>1, <2>3, <2>4 DEF Commit, Ownership, Owned, Roles, Manifests, Accounted,
       Waiting, Drawn, Writing, OneWriter, Mutating
  <2>5. ASSUME ~upset, NEW q \in Proc
        PROVE  /\ Waiting(q)' \/ pc'[q] \in {"prepare", "begin"} => dirty' = {}
               /\ pc'[q] \in {"next", "replace", "account"} => journal' = mem'[q]
               /\ pc'[q] = "restore" => dirty' \subseteq mem'[q].attempted
                  /\ dirty' \intersect done'[q] \subseteq failed'[q]
    <3>1. CASE q = p
       BY <1>10, <2>1, <2>3, <2>5, <3>1 DEF Commit, Ownership, Owned, Roles, Manifests,
         Accounted, Waiting, Drawn, Writing, OneWriter, Mutating
    <3>2. CASE q # p
       BY <1>10, <2>1, <2>3, <2>5, <3>2 DEF Commit, Ownership, Owned, Roles, Manifests,
         Accounted, Waiting, Drawn, Writing, OneWriter, Mutating
    <3> QED BY <3>1, <3>2
  <2> QED BY <1>10, <2>4, <2>5 DEF Accounted, Commit
<1>11. ASSUME NEW p \in Proc, RestoreTarget(p) PROVE Accounted'
  <2> PICK r \in mem[p].attempted \ done[p] : RestoreOne(p, r)
    BY <1>11 DEF RestoreTarget, RestoreOne
  <2>1. /\ done'[p] = done[p] \union {r} /\ failed[p] \subseteq failed'[p]
        /\ dirty' \subseteq dirty /\ (r \in dirty' /\ r \in dirty => r \in failed'[p])
        /\ UNCHANGED <<journal, pc, op, mem, upset>>
    BY <1>11 DEF RestoreTarget, RestoreOne, TypeOK
  <2>2. ASSUME NEW q \in Proc \ {p} PROVE done'[q] = done[q] /\ failed'[q] = failed[q]
    BY <1>11 DEF RestoreOne, TypeOK
  <2> QED BY <2>1, <2>2 DEF Accounted, Waiting
<1>12. ASSUME NEW p \in Proc, FinishRestore(p) PROVE Accounted'
  <2> DEFINE m == [mem[p] EXCEPT !.state = IF failed[p] = {} THEN "RECOVERED" ELSE "PARTIAL"]
  <2>1. m \in Manifest /\ m # NoManifest /\ m.tx = mem[p].tx /\ m.attempted = mem[p].attempted
        /\ m.state = (IF failed[p] = {} THEN "RECOVERED" ELSE "PARTIAL")
           /\ mem[p].tx \in Transaction
    <3>1. mem[p] # NoManifest /\ mem[p].tx \in Transaction
      BY <1>12 DEF FinishRestore, Ownership, Manifests, Mutating, Drawn
    <3>2. m \in Manifest /\ mem[p] \in Manifest
      BY <3>1, HandTypes DEF States, Terminal
    <3> QED BY <3>1, <3>2, ManifestTypes
  <2>2. Persist(p, m, "release", "release")
    BY <1>12 DEF FinishRestore
  <2> HIDE DEF m
  <2>3. /\ pc'[p] \in {"release", "release"} /\ mem' = [mem EXCEPT ![p] = m]
        /\ journal' \in {journal, m}
        /\ pc' = [pc EXCEPT ![p] = pc'[p]] /\ mem'[p] = m
        /\ pc'[p] = "release" /\ "release" # "release" => journal' = m
        /\ LostOnly /\ pc'[p] # "release" => journal' = journal
        /\ \A q \in Proc \ {p} : mem'[q] = mem[q] /\ pc'[q] = pc[q]
    BY <2>1, <2>2, PersistEffect
  <2>4. ASSUME ~upset PROVE /\ dirty' # {} => journal'.state \in {"APPLYING", "PARTIAL"}
                                              /\ dirty' \subseteq journal'.attempted
     BY <1>12, <2>1, <2>3, <2>4 DEF FinishRestore, Owned, Roles, Manifests, Accounted, Waiting,
       Drawn, Writing, OneWriter, Mutating
  <2>5. ASSUME ~upset, NEW q \in Proc
        PROVE  /\ Waiting(q)' \/ pc'[q] \in {"prepare", "begin"} => dirty' = {}
               /\ pc'[q] \in {"next", "replace", "account"} => journal' = mem'[q]
               /\ pc'[q] = "restore" => dirty' \subseteq mem'[q].attempted
                  /\ dirty' \intersect done'[q] \subseteq failed'[q]
    <3>1. CASE q = p
       BY <1>12, <2>1, <2>3, <2>5, <3>1 DEF Owned, Roles, Manifests, Accounted, Waiting, Drawn,
         Writing, OneWriter, Mutating
    <3>2. CASE q # p
       BY <1>12, <2>1, <2>3, <2>5, <3>2 DEF FinishRestore, Ownership, Owned, Roles, Manifests,
         Accounted, Waiting, Drawn, Writing, OneWriter, Mutating
    <3> QED BY <3>1, <3>2
  <2> QED BY <1>12, <2>4, <2>5 DEF Accounted, FinishRestore
<1>13. ASSUME NEW p \in Proc, ReleaseLock(p) PROVE Accounted'
   BY <1>13, ForgetEffect DEF Roles, Manifests, Accounted, Waiting, Drawn, Writing, OneWriter,
     ReleaseLock, DropLock
<1>14. ASSUME NEW p \in Proc, ClaimLock(p) PROVE Accounted'
  <2>1. CASE Refuse(p)
    BY <1>14, <2>1, ForgetEffect DEF Refuse, Accounted, Waiting
  <2>2. CASE CreateLock(p)
    BY <1>14, <2>2 DEF CreateLock, ClaimLock, Accounted, Waiting, TypeOK, Ownership, Roles, Goto
  <2>3. CASE ~Refuse(p) /\ ~CreateLock(p)
    BY <1>14, <2>3, ZenonT(60) DEF ClaimLock, Accounted, Waiting, TypeOK, Goto
  <2> QED BY <2>1, <2>2, <2>3
<1>15. ASSUME NEW p \in Proc, RereadJournal(p) PROVE Accounted'
   BY <1>15 DEF TypeOK, Ownership, Roles, Manifests, Accounted, Waiting, Drawn, Writing,
     OneWriter, RereadJournal, Unresolved, Goto
<1>16. ASSUME NEW p \in Proc, Crash(p) PROVE Accounted'
   BY <1>16, ForgetEffect DEF Roles, Manifests, Accounted, Waiting, Drawn, Writing, OneWriter,
     Crash, DropLock
<1>17. ASSUME NEW p \in Recoverer, BeginRecover(p) PROVE Accounted'
   BY <1>17 DEF Roles, Manifests, Accounted, Waiting, Drawn, Writing, OneWriter, BeginRecover,
     Goto
<1>18. ASSUME NEW p \in Writer, NEW q \in Request, BeginApply(p, q) PROVE Accounted'
   BY <1>18 DEF Roles, Manifests, Accounted, Waiting, Drawn, Writing, OneWriter, BeginApply,
     InspectPass, JournalCurrent, NoManifest, Terminal, Goto
<1> QED BY <1>1, <1>2, <1>3, <1>4, <1>5, <1>6, <1>7, <1>8, <1>9, <1>10, <1>11, <1>12, <1>13,
           <1>14, <1>15, <1>16, <1>17, <1>18 DEF Next, Step

\* Whoever writes is alone: nobody else does, and no other apply waits.
LEMMA Alone ==
  ASSUME Ownership, Truthful, ~upset, NEW p \in Proc, pc[p] \in Mutating
  PROVE  \A q \in Proc \ {p} : pc[q] \notin Mutating /\ ~Waiting(q)
<1>1. \A q \in Proc : pc[q] \in Mutating => holder = q
  BY DEF Ownership, Owned, Writing, Mutating
<1> QED BY <1>1 DEF Truthful, InHand

LEMMA AloneStep ==
  ASSUME Ownership, Truthful, ~upset, NEW p \in Proc, pc[p] \in Mutating,
         pc'[p] \in Mutating \union {"release"},
         \A q \in Proc \ {p} : pc'[q] = pc[q] /\ op'[q] = op[q],
         Slot', InHand(p)'
  PROVE  Truthful'
<1>1. \A q \in Proc \ {p} : InHand(q)'
  <2> SUFFICES ASSUME NEW q \in Proc \ {p} PROVE InHand(q)'
    OBVIOUS
  <2>1. pc'[q] \notin Mutating /\ ~Waiting(q)'
    BY Alone DEF Waiting
  <2> QED BY <2>1 DEF InHand, Mutating
<1> QED BY <1>1 DEF Truthful

\* A step of p that is not about the files leaves what is true of them.
LEMMA TruthKept ==
  ASSUME Truthful, NEW p \in Proc, UNCHANGED <<disk, journal, upset>>,
         \A q \in Proc \ {p} : /\ pc'[q] = pc[q] /\ op'[q] = op[q] /\ mem'[q] = mem[q]
                               /\ request'[q] = request[q] /\ done'[q] = done[q]
                               /\ failed'[q] = failed[q],
         pc'[p] \notin Mutating,
         Waiting(p)' => Waiting(p) /\ mem'[p] = mem[p] /\ request'[p] = request[p]
  PROVE  Truthful'
<1> SUFFICES ASSUME ~upset PROVE Slot' /\ \A q \in Proc : InHand(q)'
  BY DEF Truthful
<1>1. Slot'
  BY DEF Truthful, Slot, JournalCurrent, Unresolved, Known, Original
<1>2. InHand(p)'
  <2>1. ASSUME Waiting(p)'
        PROVE  /\ mem'[p].tx = PlanFor(request[p])' /\ ~Unresolved(journal)'
                  /\ request'[p] = request[p]
               /\ \A q \in Proc : pc'[q] \notin Mutating
    BY <2>1 DEF Truthful, InHand, PlanFor
  <2> QED BY <2>1 DEF InHand, Mutating
<1>3. ASSUME NEW q \in Proc \ {p} PROVE InHand(q)'
  <2>1. InHand(q)
    BY DEF Truthful
  <2>2. Waiting(q)' <=> Waiting(q)
    BY DEF Waiting
  <2> QED BY <2>1, <2>2 DEF InHand, PlanFor, Original, Known, Reached
<1> QED BY <1>1, <1>2, <1>3

\* With one writer and no write that fails after it landed, every step keeps the files as
\* the manifests say.
LEMMA TruthfulStep ==
  OneWriter /\ LostOnly /\ TypeOK /\ Ownership /\ Accounted /\ Truthful /\ [Next]_vars => Truthful'
<1> SUFFICES ASSUME OneWriter, LostOnly, TypeOK, Ownership, Accounted, Truthful, [Next]_vars
             PROVE Truthful'
  OBVIOUS
<1>1. CASE UNCHANGED vars
  <2>1. UNCHANGED <<disk, journal, pc, op, request, mem, done, failed, upset>>
    BY <1>1 DEF vars
  <2>2. (Slot <=> Slot') /\ (~upset <=> ~upset')
    BY <2>1 DEF Slot, JournalCurrent, Unresolved, Known, Original
  <2>3. ASSUME NEW q \in Proc, InHand(q) PROVE InHand(q)'
    <3>1. PlanFor(request[q]) = PlanFor(request[q])'
      BY <2>1 DEF PlanFor
    <3>2. Waiting(q) <=> Waiting(q)'
      BY <2>1 DEF Waiting
    <3>3. \A m : (Known(m) <=> Known(m)') /\ (Unresolved(m) <=> Unresolved(m)')
      BY <2>1 DEF Known, Unresolved
    <3>4. \A m, S : (Original(m, S) <=> Original(m, S)') /\ (Reached(m, S) <=> Reached(m, S)')
      BY <2>1 DEF Original, Reached
    <3> QED BY <2>1, <2>3, <3>1, <3>2, <3>3, <3>4 DEF InHand
  <2> QED BY <2>2, <2>3 DEF Truthful
<1>2. ASSUME NEW p \in Proc, AcquireLock(p) PROVE Truthful'
  <2>1. CASE Refuse(p)
    BY <1>2, <2>1, ForgetEffect, TruthKept DEF Refuse, Waiting, Mutating
  <2>2. CASE CreateLock(p)
     BY <1>2, <2>2, TruthKept DEF CreateLock, AcquireLock, Waiting, TypeOK, Ownership, Roles,
       Goto, Mutating
  <2> QED BY <1>2, <2>1, <2>2 DEF AcquireLock
<1>3. ASSUME NEW p \in Proc, NameLock(p) PROVE Truthful'
   BY <1>3, TruthKept, ForgetEffect DEF NameLock, Waiting, TypeOK, Ownership, Roles, Goto,
     Mutating
<1>4. ASSUME NEW p \in Proc, LockedAdmission(p) PROVE Truthful'
  <2> SUFFICES ASSUME ~upset PROVE Truthful'
    BY <1>4 DEF LockedAdmission, Truthful
  <2>1. Waiting(p) /\ InHand(p) /\ p \in Writer /\ request[p] \in Request
    BY <1>4 DEF LockedAdmission, Waiting, Truthful, Ownership, Roles
  <2>2. JournalCurrent
    <3>1. journal.state \in Terminal \/ journal = NoManifest
      BY <2>1, ManifestTypes DEF InHand, TypeOK, States, Unresolved
    <3> QED BY <3>1 DEF Truthful, Slot, JournalCurrent
  <2>3. PlanFor(request[p]) = mem[p].tx /\ Original(mem[p], Ref)
    BY <2>1, PlanFacts DEF InHand, Original
  <2>4. pc' = [pc EXCEPT ![p] = "prepare"]
    BY <1>4, <2>2, <2>3 DEF LockedAdmission, Goto
  <2>5. Slot'
    BY <1>4 DEF LockedAdmission, Truthful, Slot, JournalCurrent, Unresolved, Known, Original
  <2>6. InHand(p)'
    BY <1>4, <2>1, <2>3, <2>4 DEF LockedAdmission, TypeOK, InHand, Waiting, Unresolved, Original
  <2>7. ASSUME NEW q \in Proc \ {p} PROVE InHand(q)'
    <3>1. ~Waiting(q) /\ pc[q] \notin Mutating
      BY <2>1 DEF InHand, Ownership, Roles, OneWriter
    <3>2. ~Waiting(q)' /\ pc'[q] \notin Mutating
      BY <1>4, <2>4, <3>1 DEF LockedAdmission, Waiting
    <3> QED BY <3>2 DEF InHand, Mutating
  <2> QED BY <2>5, <2>6, <2>7 DEF Truthful
<1>5. ASSUME NEW p \in Proc, WritePrepared(p) PROVE Truthful'
  <2> SUFFICES ASSUME ~upset PROVE Truthful'
    BY <1>5 DEF WritePrepared, Truthful
  <2> DEFINE m == mem[p]
  <2>1. m \in Manifest /\ m # NoManifest /\ m.tx = mem[p].tx /\ m.attempted = mem[p].attempted
        /\ m.applied = mem[p].applied /\ m.state = mem[p].state /\ mem[p].tx \in Transaction
    <3>1. mem[p] # NoManifest /\ mem[p].tx \in Transaction
      BY <1>5 DEF WritePrepared, Ownership, Manifests, Mutating, Drawn
    <3>2. m \in Manifest /\ mem[p] \in Manifest
      BY <3>1, HandTypes
    <3> QED BY <3>1, <3>2, ManifestTypes
  <2>2. Persist(p, m, "begin", "restore")
    BY <1>5 DEF WritePrepared
  <2> HIDE DEF m
  <2>3. /\ pc'[p] \in {"begin", "restore"} /\ mem' = [mem EXCEPT ![p] = m]
        /\ journal' \in {journal, m}
        /\ pc' = [pc EXCEPT ![p] = pc'[p]] /\ mem'[p] = m
        /\ pc'[p] = "begin" /\ "begin" # "restore" => journal' = m
        /\ LostOnly /\ pc'[p] # "begin" => journal' = journal
        /\ \A q \in Proc \ {p} : mem'[q] = mem[q] /\ pc'[q] = pc[q]
    BY <2>1, <2>2, PersistEffect
  <2>4. pc[p] \in Mutating /\ UNCHANGED <<disk, op, request, done, failed, upset>> /\ ~Waiting(p)'
    BY <1>5, <2>3 DEF WritePrepared, Mutating, Waiting
  <2>5. Slot'
     BY <1>5, <2>1, <2>3, <2>4, TransactionFacts DEF WritePrepared, Ownership, Manifests,
       Drawn, Accounted, Truthful, Slot, InHand, Unresolved, Terminal, Known, Original,
       Reached, Mutating, Writing, JournalCurrent, Refs, Target
  <2>6. InHand(p)'
    <3>1. Original(mem[p], Ref) /\ mem[p].attempted = {} /\ mem[p].applied = {}
          /\ ~Unresolved(journal)
          /\ mem[p].state = "PREPARED" /\ done[p] = {} /\ failed[p] = {} /\ pc[p] = "prepare"
      BY <1>5 DEF WritePrepared, Ownership, Manifests, Truthful, InHand
    <3>2. \A t \in m.tx : t.ref \in Ref /\ disk[t.ref] = t.before
      BY <2>1, <3>1, TransactionFacts DEF Original, Target
    <3> QED BY <2>1, <2>3, <2>4, <3>1, <3>2 DEF InHand, Known, Original, Reached
  <2> QED BY <2>3, <2>4, <2>5, <2>6, AloneStep DEF Mutating
<1>6. ASSUME NEW p \in Proc, WriteApplying(p) PROVE Truthful'
  <2> SUFFICES ASSUME ~upset PROVE Truthful'
    BY <1>6 DEF WriteApplying, Truthful
  <2> DEFINE m == [mem[p] EXCEPT !.state = "APPLYING"]
  <2>1. m \in Manifest /\ m # NoManifest /\ m.tx = mem[p].tx /\ m.attempted = mem[p].attempted
        /\ m.state = "APPLYING" /\ m.applied = mem[p].applied /\ mem[p].tx \in Transaction
    <3>1. mem[p] # NoManifest /\ mem[p].tx \in Transaction
      BY <1>6 DEF WriteApplying, Ownership, Manifests, Mutating, Drawn
    <3>2. m \in Manifest /\ mem[p] \in Manifest
      BY <3>1, HandTypes DEF States
    <3> QED BY <3>1, <3>2, ManifestTypes
  <2>2. Persist(p, m, "next", "restore")
    BY <1>6 DEF WriteApplying
  <2> HIDE DEF m
  <2>3. /\ pc'[p] \in {"next", "restore"} /\ mem' = [mem EXCEPT ![p] = m]
        /\ journal' \in {journal, m}
        /\ pc' = [pc EXCEPT ![p] = pc'[p]] /\ mem'[p] = m
        /\ pc'[p] = "next" /\ "next" # "restore" => journal' = m
        /\ LostOnly /\ pc'[p] # "next" => journal' = journal
        /\ \A q \in Proc \ {p} : mem'[q] = mem[q] /\ pc'[q] = pc[q]
    BY <2>1, <2>2, PersistEffect
  <2>4. pc[p] \in Mutating /\ UNCHANGED <<disk, op, request, done, failed, upset>> /\ ~Waiting(p)'
    BY <1>6, <2>3 DEF WriteApplying, Mutating, Waiting
  <2>5. Slot'
     BY <1>6, <2>1, <2>3, <2>4, TransactionFacts DEF Ownership, Manifests, Drawn, Accounted,
       Truthful, Slot, InHand, Unresolved, Terminal, Known, Original, Reached, Mutating,
       Writing, JournalCurrent, Refs, Target
  <2>6. InHand(p)'
    <3>1. Original(mem[p], Ref) /\ mem[p].attempted = {} /\ mem[p].applied = {} /\ journal = mem[p]
          /\ mem[p].state = "PREPARED" /\ done[p] = {} /\ failed[p] = {} /\ pc[p] = "begin"
      BY <1>6 DEF WriteApplying, Ownership, Manifests, Truthful, InHand
    <3>2. \A t \in m.tx : t.ref \in Ref /\ disk[t.ref] = t.before
      BY <2>1, <3>1, TransactionFacts DEF Original, Target
    <3> QED BY <2>1, <2>3, <2>4, <3>1, <3>2 DEF InHand, Known, Original, Reached
  <2> QED BY <2>3, <2>4, <2>5, <2>6, AloneStep DEF Mutating
<1>7. ASSUME NEW p \in Proc, AttemptTarget(p) PROVE Truthful'
  <2> SUFFICES ASSUME ~upset PROVE Truthful'
    BY <1>7 DEF AttemptTarget, Truthful
  <2> PICK r \in Refs(mem[p].tx) \ mem[p].attempted :
         Persist(p, [mem[p] EXCEPT !.attempted = @ \union {r}], "replace", "restore")
    BY <1>7 DEF AttemptTarget
  <2> DEFINE m == [mem[p] EXCEPT !.attempted = @ \union {r}]
  <2>1. m \in Manifest /\ m # NoManifest /\ m.tx = mem[p].tx
        /\ m.attempted = mem[p].attempted \union {r}
        /\ m.state = mem[p].state /\ m.applied = mem[p].applied /\ mem[p].tx \in Transaction
    <3>1. mem[p] # NoManifest /\ mem[p].tx \in Transaction
      BY <1>7 DEF AttemptTarget, Ownership, Manifests, Mutating, Drawn
    <3>2. mem[p].attempted \union {r} \in SUBSET Ref
      BY HandTypes, ManifestTypes
    <3>3. m \in Manifest /\ mem[p] \in Manifest
      BY <3>1, <3>2, HandTypes
    <3> QED BY <3>1, <3>3, ManifestTypes
  <2>2. Persist(p, m, "replace", "restore")
    OBVIOUS
  <2> HIDE DEF m
  <2>3. /\ pc'[p] \in {"replace", "restore"} /\ mem' = [mem EXCEPT ![p] = m]
        /\ journal' \in {journal, m}
        /\ pc' = [pc EXCEPT ![p] = pc'[p]] /\ mem'[p] = m
        /\ pc'[p] = "replace" /\ "replace" # "restore" => journal' = m
        /\ LostOnly /\ pc'[p] # "replace" => journal' = journal
        /\ \A q \in Proc \ {p} : mem'[q] = mem[q] /\ pc'[q] = pc[q]
    BY <2>1, <2>2, PersistEffect
  <2>4. pc[p] \in Mutating /\ UNCHANGED <<disk, op, request, done, failed, upset>> /\ ~Waiting(p)'
    BY <1>7, <2>3 DEF AttemptTarget, Mutating, Waiting
  <2>5. Slot'
     BY <1>7, <2>1, <2>3, <2>4, TransactionFacts DEF AttemptTarget, Ownership, Manifests,
       Drawn, Accounted, Truthful, Slot, InHand, Unresolved, Terminal, Known, Original,
       Reached, Mutating, Writing, JournalCurrent, Refs, Target
  <2>6. InHand(p)'
     BY <1>7, <2>1, <2>3, <2>4, TransactionFacts DEF AttemptTarget, Ownership, Manifests,
       Drawn, Accounted, Truthful, Slot, InHand, Unresolved, Terminal, Known, Original,
       Reached, Mutating, Writing, TypeOK
  <2> QED BY <2>3, <2>4, <2>5, <2>6, AloneStep DEF Mutating
<1>8. ASSUME NEW p \in Proc, ReplaceTarget(p) PROVE Truthful'
  <2> SUFFICES ASSUME ~upset PROVE Truthful'
    BY <1>8 DEF ReplaceTarget, Truthful
  <2> PICK r \in mem[p].attempted \ mem[p].applied, o \in Outcomes :
         /\ disk' = IF o = "lost" THEN disk ELSE [disk EXCEPT ![r] = TargetOf(mem[p].tx, r).after]
         /\ Goto(p, IF o = "ok" THEN "account" ELSE "restore")
    BY <1>8 DEF ReplaceTarget
  <2>1. /\ pc[p] = "replace" /\ pc' = [pc EXCEPT ![p] = IF o = "ok" THEN "account" ELSE "restore"]
        /\ UNCHANGED <<journal, mem, op, request, done, failed, upset>>
    BY <1>8 DEF ReplaceTarget, Goto
  <2>2. /\ mem[p].tx \in Transaction /\ r \in Ref /\ done[p] = {}
        /\ mem[p].attempted \ mem[p].applied = {r}
        /\ journal = mem[p] /\ Unresolved(journal) /\ Reached(mem[p], mem[p].applied)
        /\ Known(mem[p]) /\ Original(mem[p], Ref \ mem[p].attempted)
    <3>1. mem[p].tx \in Transaction /\ mem[p].attempted \subseteq Refs(mem[p].tx)
          /\ mem[p].state = "APPLYING" /\ done[p] = {}
      BY <2>1 DEF Ownership, Manifests, Drawn, Mutating
    <3>2. r \in Ref
      BY <3>1, TransactionFacts
    <3>3. journal = mem[p]
      BY <2>1 DEF Accounted
    <3>4. Reached(mem[p], mem[p].applied) /\ \E x \in Ref : mem[p].attempted \ mem[p].applied = {x}
      BY <2>1 DEF Truthful, InHand
    <3>5. Unresolved(journal) /\ Known(mem[p]) /\ Original(mem[p], Ref \ mem[p].attempted)
      BY <3>1, <3>3 DEF Truthful, Slot, Unresolved
    <3> QED BY <3>1, <3>3, <3>4, <3>5
  <2>3. o \in {"ok", "lost"}
    BY DEF Outcomes, LostOnly
  <2>4. ASSUME NEW t \in mem[p].tx
        PROVE  /\ t.ref \in Ref /\ (t.ref # r => disk'[t.ref] = disk[t.ref])
               /\ t.ref = r => disk'[r] = IF o = "lost" THEN disk[r] ELSE t.after
    <3>1. t.ref \in Ref /\ TargetOf(mem[p].tx, t.ref) = t
      BY <2>2, TransactionFacts DEF Target
    <3> QED BY <3>1 DEF TypeOK
  <2>5. Known(mem[p])' /\ Original(mem[p], Ref \ mem[p].attempted)'
    BY <2>1, <2>2, <2>4 DEF Known, Original
  <2>6. o = "ok" => Reached(mem[p], mem[p].attempted)'
    BY <2>1, <2>2, <2>4 DEF Reached
  <2>7. Slot'
    BY <2>1, <2>2, <2>5 DEF Slot, Unresolved, Terminal, Known, Original
  <2>8. InHand(p)'
    BY <2>1, <2>2, <2>3, <2>5, <2>6 DEF InHand, Waiting, TypeOK, Known, Original, Reached
  <2> QED BY <2>1, <2>7, <2>8, AloneStep DEF Mutating
<1>9. ASSUME NEW p \in Proc, AccountTarget(p) PROVE Truthful'
  <2> SUFFICES ASSUME ~upset PROVE Truthful'
    BY <1>9 DEF AccountTarget, Truthful
  <2> DEFINE m == [mem[p] EXCEPT !.applied = mem[p].attempted]
  <2>1. m \in Manifest /\ m # NoManifest /\ m.tx = mem[p].tx /\ m.attempted = mem[p].attempted
        /\ m.state = mem[p].state /\ m.applied = m.attempted /\ mem[p].tx \in Transaction
    <3>1. mem[p] # NoManifest /\ mem[p].tx \in Transaction
      BY <1>9 DEF AccountTarget, Ownership, Manifests, Mutating, Drawn
    <3>2. m \in Manifest /\ mem[p] \in Manifest
      BY <3>1, HandTypes
    <3> QED BY <3>1, <3>2, ManifestTypes
  <2>2. Persist(p, m, "next", "restore")
    BY <1>9 DEF AccountTarget
  <2> HIDE DEF m
  <2>3. /\ pc'[p] \in {"next", "restore"} /\ mem' = [mem EXCEPT ![p] = m]
        /\ journal' \in {journal, m}
        /\ pc' = [pc EXCEPT ![p] = pc'[p]] /\ mem'[p] = m
        /\ pc'[p] = "next" /\ "next" # "restore" => journal' = m
        /\ LostOnly /\ pc'[p] # "next" => journal' = journal
        /\ \A q \in Proc \ {p} : mem'[q] = mem[q] /\ pc'[q] = pc[q]
    BY <2>1, <2>2, PersistEffect
  <2>4. pc[p] \in Mutating /\ UNCHANGED <<disk, op, request, done, failed, upset>> /\ ~Waiting(p)'
    BY <1>9, <2>3 DEF AccountTarget, Mutating, Waiting
  <2>5. Slot'
     BY <1>9, <2>1, <2>3, <2>4, TransactionFacts DEF AccountTarget, Ownership, Manifests,
       Drawn, Accounted, Truthful, Slot, InHand, Unresolved, Terminal, Known, Original,
       Reached, Mutating, Writing, JournalCurrent, Refs, Target
  <2>6. InHand(p)'
     BY <1>9, <2>1, <2>3, <2>4, TransactionFacts DEF AccountTarget, Ownership, Manifests,
       Drawn, Accounted, Truthful, Slot, InHand, Unresolved, Terminal, Known, Original,
       Reached, Mutating, Writing, TypeOK
  <2> QED BY <2>3, <2>4, <2>5, <2>6, AloneStep DEF Mutating
<1>10. ASSUME NEW p \in Proc, Commit(p) PROVE Truthful'
  <2> SUFFICES ASSUME ~upset PROVE Truthful'
    BY <1>10 DEF Commit, Truthful
  <2> DEFINE m == [mem[p] EXCEPT !.state = "COMMITTED"]
  <2>1. m \in Manifest /\ m # NoManifest /\ m.tx = mem[p].tx /\ m.attempted = mem[p].attempted
        /\ m.state = "COMMITTED" /\ mem[p].tx \in Transaction
    <3>1. mem[p] # NoManifest /\ mem[p].tx \in Transaction
      BY <1>10 DEF Commit, Ownership, Manifests, Mutating, Drawn
    <3>2. m \in Manifest /\ mem[p] \in Manifest
      BY <3>1, HandTypes DEF States, Terminal
    <3> QED BY <3>1, <3>2, ManifestTypes
  <2>2. Persist(p, m, "release", "restore")
    BY <1>10 DEF Commit
  <2> HIDE DEF m
  <2>3. /\ pc'[p] \in {"release", "restore"} /\ mem' = [mem EXCEPT ![p] = m]
        /\ journal' \in {journal, m}
        /\ pc' = [pc EXCEPT ![p] = pc'[p]] /\ mem'[p] = m
        /\ pc'[p] = "release" /\ "release" # "restore" => journal' = m
        /\ LostOnly /\ pc'[p] # "release" => journal' = journal
        /\ \A q \in Proc \ {p} : mem'[q] = mem[q] /\ pc'[q] = pc[q]
    BY <2>1, <2>2, PersistEffect
  <2>4. pc[p] \in Mutating /\ UNCHANGED <<disk, op, request, done, failed, upset>> /\ ~Waiting(p)'
    BY <1>10, <2>3 DEF Commit, Mutating, Waiting
  <2>5. Slot'
     BY <1>10, <2>1, <2>3, <2>4, TransactionFacts DEF Commit, Manifests, Drawn, Accounted,
       Truthful, Slot, InHand, Unresolved, Terminal, Known, Original, Reached, Mutating,
       Writing, JournalCurrent, Refs, Target
  <2>6. InHand(p)'
     BY <1>10, <2>1, <2>3, <2>4, TransactionFacts DEF Commit, Ownership, Manifests, Drawn,
       Accounted, Truthful, Slot, InHand, Unresolved, Terminal, Known, Original, Reached,
       Mutating, Writing, TypeOK
  <2> QED BY <2>3, <2>4, <2>5, <2>6, AloneStep DEF Mutating
<1>11. ASSUME NEW p \in Proc, RestoreTarget(p) PROVE Truthful'
  <2> SUFFICES ASSUME ~upset PROVE Truthful'
    BY <1>11 DEF RestoreTarget, Truthful
  <2> PICK r \in mem[p].attempted \ done[p] : RestoreOne(p, r)
    BY <1>11 DEF RestoreTarget, RestoreOne
  <2>1. pc[p] = "restore" /\ UNCHANGED <<journal, pc, op, request, mem, upset>>
    BY <1>11 DEF RestoreTarget
  <2>2. /\ mem[p].tx \in Transaction /\ r \in Refs(mem[p].tx) /\ Known(mem[p])
        /\ Original(mem[p], (Ref \ mem[p].attempted) \union (done[p] \ failed[p]))
        /\ Unresolved(journal) /\ journal.tx = mem[p].tx
        /\ journal.attempted \subseteq mem[p].attempted
        /\ Original(journal, Ref \ journal.attempted)
    BY <2>1 DEF Ownership, Manifests, Drawn, Mutating, Truthful, InHand, Slot
  <2>3. ASSUME NEW t \in mem[p].tx
        PROVE  /\ t.ref \in Ref /\ (t.ref # r => disk'[t.ref] = disk[t.ref])
               /\ t.ref = r => disk'[r] \in {disk[r], t.before}
                  /\ (r \notin failed'[p] => disk'[r] = t.before)
    <3>1. t.ref \in Ref /\ TargetOf(mem[p].tx, t.ref) = t
      BY <2>2, TransactionFacts DEF Target
    <3>2. t.ref # r => disk'[t.ref] = disk[t.ref]
      <4>1. disk' = disk \/ disk' = [disk EXCEPT ![r] = TargetOf(mem[p].tx, r).before]
        BY DEF RestoreOne
      <4> QED BY <3>1, <4>1 DEF TypeOK
    <3>3. ASSUME t.ref = r
          PROVE  disk'[r] \in {disk[r], t.before} /\ (r \notin failed'[p] => disk'[r] = t.before)
      <4>1. TargetOf(mem[p].tx, r) = t /\ r \in Ref
        BY <3>1, <3>3
      <4>2. CASE disk[r] = t.before /\ disk' = disk
        BY <4>2
      <4>3. CASE failed' = [failed EXCEPT ![p] = @ \union {r}] /\ disk' = disk
        BY <4>3 DEF TypeOK
      <4>4. ASSUME NEW o \in Outcomes, disk' = IF o = "lost" THEN disk
                   ELSE [disk EXCEPT ![r] = t.before],
                   failed' = IF o = "ok" THEN failed ELSE [failed EXCEPT ![p] = @ \union {r}]
            PROVE  disk'[r] \in {disk[r], t.before} /\ (r \notin failed'[p] => disk'[r] = t.before)
        BY <4>1, <4>4 DEF TypeOK
      <4> QED BY <4>1, <4>3, <4>4 DEF RestoreOne
    <3> QED BY <3>1, <3>2, <3>3
  <2>4. done'[p] = done[p] \union {r} /\ failed[p] \subseteq failed'[p]
        /\ \A x \in done[p] : x \in failed'[p] => x \in failed[p]
    BY DEF RestoreOne, TypeOK
  <2>5. Known(mem[p])'
    BY <2>1, <2>2, <2>3 DEF Known
  <2>6. Original(mem[p], (Ref \ mem[p].attempted) \union (done[p] \ failed[p]))'
    BY <2>1, <2>2, <2>3, <2>4 DEF Original
  <2>7. Slot'
    BY <2>1, <2>2, <2>3, <2>5 DEF Slot, Unresolved, Terminal, Known, Original
  <2>8. InHand(p)'
    BY <2>1, <2>2, <2>5, <2>6 DEF InHand, Waiting
  <2> QED BY <2>1, <2>7, <2>8, AloneStep DEF Mutating
<1>12. ASSUME NEW p \in Proc, FinishRestore(p) PROVE Truthful'
  <2> SUFFICES ASSUME ~upset PROVE Truthful'
    BY <1>12 DEF FinishRestore, Truthful
  <2> DEFINE m == [mem[p] EXCEPT !.state = IF failed[p] = {} THEN "RECOVERED" ELSE "PARTIAL"]
  <2>1. m \in Manifest /\ m # NoManifest /\ m.tx = mem[p].tx /\ m.attempted = mem[p].attempted
        /\ m.state = (IF failed[p] = {} THEN "RECOVERED" ELSE "PARTIAL")
           /\ mem[p].tx \in Transaction
    <3>1. mem[p] # NoManifest /\ mem[p].tx \in Transaction
      BY <1>12 DEF FinishRestore, Ownership, Manifests, Mutating, Drawn
    <3>2. m \in Manifest /\ mem[p] \in Manifest
      BY <3>1, HandTypes DEF States, Terminal
    <3> QED BY <3>1, <3>2, ManifestTypes
  <2>2. Persist(p, m, "release", "release")
    BY <1>12 DEF FinishRestore
  <2> HIDE DEF m
  <2>3. /\ pc'[p] \in {"release", "release"} /\ mem' = [mem EXCEPT ![p] = m]
        /\ journal' \in {journal, m}
        /\ pc' = [pc EXCEPT ![p] = pc'[p]] /\ mem'[p] = m
        /\ pc'[p] = "release" /\ "release" # "release" => journal' = m
        /\ LostOnly /\ pc'[p] # "release" => journal' = journal
        /\ \A q \in Proc \ {p} : mem'[q] = mem[q] /\ pc'[q] = pc[q]
    BY <2>1, <2>2, PersistEffect
  <2>4. pc[p] \in Mutating /\ UNCHANGED <<disk, op, request, done, failed, upset>> /\ ~Waiting(p)'
    BY <1>12, <2>3 DEF FinishRestore, Mutating, Waiting
  <2>5. Slot'
     BY <1>12, <2>1, <2>3, <2>4, TransactionFacts DEF FinishRestore, Manifests, Drawn,
       Accounted, Truthful, Slot, InHand, Unresolved, Terminal, Known, Original, Reached,
       Mutating, Writing, JournalCurrent, Refs, Target
  <2>6. InHand(p)'
     BY <1>12, <2>1, <2>3, <2>4, TransactionFacts DEF Manifests, Drawn, Accounted, Truthful,
       Slot, InHand, Unresolved, Terminal, Known, Original, Reached, Mutating, Writing, TypeOK
  <2> QED BY <2>3, <2>4, <2>5, <2>6, AloneStep
<1>13. ASSUME NEW p \in Proc, ReleaseLock(p) PROVE Truthful'
  BY <1>13, TruthKept, ForgetEffect DEF ReleaseLock, Waiting, Ownership, Roles, Mutating
<1>14. ASSUME NEW p \in Proc, ClaimLock(p) PROVE Truthful'
  <2>1. CASE Refuse(p)
    BY <1>14, <2>1, ForgetEffect, TruthKept DEF Refuse, Waiting, Mutating
  <2>2. CASE CreateLock(p)
     BY <1>14, <2>2, TruthKept DEF CreateLock, ClaimLock, Waiting, TypeOK, Ownership, Roles,
       Goto, Mutating
  <2>3. CASE ~Refuse(p) /\ ~CreateLock(p)
    BY <1>14, <2>3, TruthKept DEF ClaimLock, Waiting, TypeOK, Goto, Mutating
  <2> QED BY <2>1, <2>2, <2>3
<1>15. ASSUME NEW p \in Proc, RereadJournal(p) PROVE Truthful'
  <2> SUFFICES ASSUME ~upset' PROVE Truthful'
    BY DEF Truthful
  <2>1. CASE ~(journal.tx = mem[p].tx /\ Unresolved(journal))
    BY <1>15, <2>1, TruthKept DEF RereadJournal, Waiting, TypeOK, Goto, Mutating
  <2>2. CASE journal.tx = mem[p].tx /\ Unresolved(journal)
    <3>1. ~upset /\ holder = p /\ pc' = [pc EXCEPT ![p] = "restore"]
          /\ mem' = [mem EXCEPT ![p] = journal]
          /\ UNCHANGED <<disk, journal, op, request, done, failed>>
      BY <1>15, <2>2 DEF RereadJournal, Goto
    <3>2. done[p] = {} /\ failed[p] = {}
      BY <1>15 DEF RereadJournal, Ownership, Manifests
    <3>3. Slot'
      BY <3>1 DEF Truthful, Slot, JournalCurrent, Unresolved, Known, Original
    <3>4. InHand(p)'
       BY <2>2, <3>1, <3>2 DEF TypeOK, Truthful, Slot, InHand, Waiting, Unresolved, Known,
         Original
    <3>5. ASSUME NEW q \in Proc \ {p} PROVE InHand(q)'
      <4>1. ~Waiting(q)
        BY <2>2, <3>1 DEF Truthful, InHand
      <4>2. pc[q] \notin Mutating
        BY <3>1 DEF Ownership, Owned, Writing, Mutating
      <4>3. ~Waiting(q)' /\ pc'[q] \notin Mutating
        BY <3>1, <4>1, <4>2 DEF Waiting
      <4> QED BY <4>3 DEF InHand, Mutating
    <3> QED BY <3>3, <3>4, <3>5 DEF Truthful
  <2> QED BY <2>1, <2>2
<1>16. ASSUME NEW p \in Proc, Crash(p) PROVE Truthful'
  BY <1>16, TruthKept, ForgetEffect DEF Crash, Waiting, Ownership, Roles, Mutating
<1>17. ASSUME NEW p \in Recoverer, BeginRecover(p) PROVE Truthful'
  BY <1>17, TruthKept DEF BeginRecover, Waiting, Goto, Mutating
<1>18. ASSUME NEW p \in Writer, NEW q \in Request, BeginApply(p, q) PROVE Truthful'
  <2> SUFFICES ASSUME ~upset PROVE Truthful'
    BY <1>18 DEF BeginApply, Truthful
  <2>1. \A r \in Proc : pc[r] \notin Mutating
    BY <1>18 DEF BeginApply, InspectPass, Ownership, Owned, Writing, Mutating
  <2>2. \A r \in Proc : pc'[r] \notin Mutating
    BY <1>18, <2>1 DEF BeginApply, Goto, Mutating
  <2>3. ~Unresolved(journal)
    BY <1>18, ManifestTypes DEF BeginApply, InspectPass, JournalCurrent, Unresolved, Terminal
  <2>4. Slot'
    BY <1>18 DEF BeginApply, Truthful, Slot, JournalCurrent, Unresolved, Known, Original
  <2>5. ASSUME NEW r \in Proc, Waiting(r)'
        PROVE  mem'[r].tx = PlanFor(request[r])' /\ ~Unresolved(journal)'
    <3>1. CASE r = p
      BY <1>18, <2>3, <3>1 DEF BeginApply, TypeOK, PlanFor
    <3>2. CASE r # p
      <4>1. Waiting(r) /\ mem'[r] = mem[r] /\ request'[r] = request[r]
        BY <1>18, <2>5, <3>2 DEF BeginApply, Waiting, Goto
      <4> QED BY <1>18, <4>1 DEF BeginApply, Truthful, InHand, Unresolved, PlanFor
    <3> QED BY <3>1, <3>2
  <2> QED BY <2>2, <2>4, <2>5 DEF Truthful, InHand, Mutating
<1> QED BY <1>1, <1>2, <1>3, <1>4, <1>5, <1>6, <1>7, <1>8, <1>9, <1>10, <1>11, <1>12, <1>13,
           <1>14, <1>15, <1>16, <1>17, <1>18 DEF Next, Step

-----------------------------------------------------------------------------
LEMMA InitInv == Init => TypeOK /\ Ownership /\ Accounted /\ Truthful
<1> SUFFICES ASSUME Init PROVE TypeOK /\ Ownership /\ Accounted /\ Truthful
  OBVIOUS
<1>1. TypeOK
  BY DEF Init, TypeOK
<1>2. Ownership
  BY DEF Init, Ownership, Owned, Roles, Manifests, Drawn, Waiting, Writing, Mutating
<1>3. Accounted
  BY DEF Init, Accounted
<1>4. Truthful
  BY ManifestTypes DEF Init, Truthful, Slot, InHand, Waiting, Unresolved, Terminal
<1> QED BY <1>1, <1>2, <1>3, <1>4

(* The state is well typed, whoever has the lock writes, and manifests come  *)
(* from plans: at every moment of apply, recover and their crashes.          *)
LEMMA Invariance == Spec => [](TypeOK /\ Ownership)
<1>1. Init => TypeOK /\ Ownership
  BY InitInv
<1>2. TypeOK /\ Ownership /\ [Next]_vars => (TypeOK /\ Ownership)'
  BY TypeStep, OwnershipStep DEF Ownership
<1> QED BY <1>1, <1>2, PTL DEF Spec

(* Files, manifest slot, lock and commands keep their types under every      *)
(* interleaving of apply and recover.                                        *)
THEOREM TypeCorrect == Spec => []TypeOK
  BY Invariance, PTL

(* The writer.lock of a live command is its own until it releases it or      *)
(* dies: recover takes over only a lock file nobody alive has flock'ed.      *)
THEOREM LiveLockKept == Spec => LiveLockIsKept
<1> DEFINE Kept == \A p \in Proc : holder = p /\ pc'[p] # "idle" => holder' = p /\ lockId' # None
<1>1. ASSUME TypeOK, Ownership, [Next]_vars PROVE [Kept]_vars
  <2> SUFFICES ASSUME NEW p \in Proc, holder = p, pc'[p] # "idle", Next
               PROVE  holder' = p /\ lockId' # None
    BY <1>1
  <2>1. holder # None /\ lockId # None /\ \A q \in Proc : pc[q] = "naming" => q = p
    BY <1>1 DEF Ownership, Owned
  <2>2. ASSUME NEW q \in Proc, NameLock(q) PROVE holder' = p /\ lockId' # None
    <3>1. q = p
      BY <2>1, <2>2 DEF NameLock
    <3>2. ~Forget(p)
      BY <1>1, ForgetEffect
    <3>3. mem[p].tx \in Transaction
      BY <1>1, <2>2, <3>1 DEF NameLock, Ownership, Manifests, Drawn
    <3> QED BY <2>2, <3>1, <3>2, <3>3 DEF NameLock
  <2>3. ASSUME NEW q \in Proc, AcquireLock(q) \/ ClaimLock(q) PROVE holder' = p /\ lockId' # None
    BY <2>1, <2>3 DEF AcquireLock, ClaimLock, CreateLock, Refuse, Claimable
  <2>4. ASSUME NEW q \in Proc, ReleaseLock(q) \/ Crash(q) PROVE holder' = p /\ lockId' # None
    <3>1. q # p
      BY <1>1, <2>4, ForgetEffect DEF ReleaseLock, Crash
    <3> QED BY <2>1, <2>4, <3>1 DEF ReleaseLock, Crash, DropLock
  <2>5. CASE UNCHANGED <<holder, lockId>>
    BY <2>1, <2>5
  <2>6. \/ UNCHANGED <<holder, lockId>>
        \/ \E q \in Proc : NameLock(q) \/ AcquireLock(q) \/ ClaimLock(q) \/ ReleaseLock(q) \/ Crash(q)
     BY ZenonT(60) DEF Next, Step, LockedAdmission, WritePrepared, WriteApplying, AttemptTarget,
       ReplaceTarget, AccountTarget, Commit, RestoreTarget, FinishRestore, RereadJournal,
       BeginRecover, BeginApply
  <2> QED BY <2>2, <2>3, <2>4, <2>5, <2>6
<1>2. TypeOK /\ Ownership /\ [Next]_vars => [Kept]_vars
  BY <1>1
<1> QED BY <1>2, Invariance, PTL DEF Spec, LiveLockIsKept

(* As long as only one process runs apply, whatever fails, dies, or recovers *)
(* beside it: a file that was written and neither committed nor restored is  *)
(* attempted by the unresolved transaction in the slot.                      *)
THEOREM ForgetsNothing ==
  ASSUME OneWriter
  PROVE  Spec => []NothingForgotten
<1>1. Init => TypeOK /\ Ownership /\ Accounted
  BY InitInv
<1>2. TypeOK /\ Ownership /\ Accounted /\ [Next]_vars => (TypeOK /\ Ownership /\ Accounted)'
  BY TypeStep, OwnershipStep, AccountedStep DEF Ownership
<1>3. TypeOK /\ Ownership /\ Accounted => NothingForgotten
  BY DEF Accounted, NothingForgotten
<1> QED BY <1>1, <1>2, <1>3, PTL DEF Spec

(* As long as only one process runs apply and a write that fails has not     *)
(* landed, a terminal manifest tells what the files are: COMMITTED the new   *)
(* images, RECOVERED the old ones, so that inspection admits the next apply. *)
THEOREM ResolvedIsCurrent ==
  ASSUME OneWriter, LostOnly
  PROVE  Spec => []ResolvedMeansCurrent
<1> DEFINE IInv == TypeOK /\ Ownership /\ Accounted /\ Truthful
<1>1. Init => IInv
  BY InitInv
<1>2. IInv /\ [Next]_vars => IInv'
  BY TypeStep, OwnershipStep, AccountedStep, TruthfulStep DEF Ownership
<1>3. IInv => ResolvedMeansCurrent
  BY DEF Truthful, Slot, ResolvedMeansCurrent
<1> QED BY <1>1, <1>2, <1>3, PTL DEF Spec
==============================================================================
