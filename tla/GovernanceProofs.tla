--------------------------- MODULE GovernanceProofs ---------------------------
(***************************************************************************)
(* Type correctness of Governance and its main safety property: whatever   *)
(* closes, inits, amendments and repairs run, the closes of every file     *)
(* form one chain, and the receipts on the last of them form another.      *)
(*                                                                         *)
(* The argument: whoever changes a manifest or a receipt holds the flock,  *)
(* so the head of a chain that it has checked is still the head when it     *)
(* commits or registers; a close that begins is not COMMITTED, a receipt    *)
(* that is new follows the end of its chain, and one that is taken back is  *)
(* still that end.  The last step needs that receipts never follow each     *)
(* other in a circle.                                                       *)
(*                                                                         *)
(* The second half is about the content of the files: the facts of its own  *)
(* that a transaction writes tell whether it has written a file, so every   *)
(* file is its initial content with what some transactions made of it, and  *)
(* the label and the manifest of a command tell which targets those are.    *)
(***************************************************************************)
EXTENDS Governance, FiniteSetTheorems, WellFoundedInduction, TLAPS

Held == Labels \ {"idle", "planned", "recover", "init"}
CloseLabels ==
  {"planned", "build", "attach", "prepare", "begin", "next", "replace", "rollback", "recover"}
InitLabels ==
  {"init", "admit", "open", "start", "change", "write", "record", "refresh", "commit",
   "register", "undo", "restore"}

Fits(label, t) ==
  /\ label \in CloseLabels => t \in CloseId
  /\ label \in InitLabels => t \in InitId \union AmendId
JobsMatch == \A p \in Proc : Fits(pc[p], job[p])

\* The stamps are bounded, so one of them is the last.
StampsBounded == \E n \in Nat : \A c \in CloseId : journal[c].stamp <= n

\* Past its lock a command has the flock.
LockIsHeld == \A p \in Proc : pc[p] \in Held => flock = p

\* A rollback visits targets of the manifest it undoes.
TodoMatches ==
  \A p \in Proc :
    pc[p] \in {"start", "change", "write", "record", "refresh", "commit", "register", "undo", "restore"}
      => todo[p] \subseteq Targets(journal[job[p]])

(* The chains, without cardinalities.                                       *)
Pointers ==
  \A c \in CloseId : \A r \in DOMAIN journal[c].lineage : journal[c].lineage[r] \in CommittedFor(r)
OneLine(r) ==
  /\ CommittedFor(r) # {} => \E h \in CloseId : HeadsOf(r) = {h}
  /\ \A c \in CommittedFor(r) : \A d, e \in SuccessorsOf(r, c) : d = e
Linked(r, c) ==
  /\ \A q \in Links(r, c) :
       /\ q.at[r].pred = {} => q.at[r].before = journal[c].after[r]
       /\ \A s \in q.at[r].pred : s \in Links(r, c) /\ s.at[r].after = q.at[r].before
  /\ \A q, s \in Links(r, c) : q.at[r].pred = s.at[r].pred => q = s
OneEnd(r, c) == Links(r, c) # {} => \E e \in receipts : Ends(r, c) = {e}
Chains ==
  /\ Pointers
  /\ \A r \in Ref :
       /\ OneLine(r)
       /\ CommittedFor(r) # {} => Linked(r, Head(r)) /\ OneEnd(r, Head(r))

Unfollowed(Q) == \A s \in receipts : \A r \in DOMAIN s.at : Q \intersect s.at[r].pred = {}

\* What a command knows of its close, or of its receipt.
Prepared(p) ==
  /\ pc[p] \in CloseLabels =>
       \A r \in DOMAIN mem[p].lineage : mem[p].lineage[r] \in CommittedFor(r)
  /\ pc[p] \in {"planned", "build", "attach", "prepare"} => mem[p].state = "PREPARED"
  /\ pc[p] \in {"next", "replace"} => mem[p].state = "APPLYING"
  /\ pc[p] \in CloseLabels \ {"planned", "recover"} => journal[job[p]].state # "COMMITTED"
  /\ pc[p] \in {"attach", "prepare", "begin", "next", "replace"} =>
       mem[p].lineage = LineageFor(mem[p])
Registered(p) ==
  mine[p] # {} => /\ pc[p] \in {"refresh", "commit", "undo", "restore", "release"}
                  /\ job[p] \in InitId /\ Unfollowed(mine[p])

TypeInv == TypeOK /\ JobsMatch /\ StampsBounded
ChainInv == Chains /\ ReceiptsInOrder /\ \A p \in Proc : Prepared(p) /\ Registered(p)
Inv == TypeInv /\ LockIsHeld /\ TodoMatches /\ (~upset => ChainInv)
-----------------------------------------------------------------------------
(* Manifests.                                                               *)

\* A nonempty set of naturals has a least member.
LEMMA LeastNatural ==
  ASSUME NEW S \in SUBSET Nat, S # {}
  PROVE  \E n \in S : \A m \in S : n <= m
<1> DEFINE R == OpToRel(<, Nat)
<1>1. \A x, y \in Nat : y < x => <<y, x>> \in R
  BY DEF OpToRel
<1>2. IsWellFoundedOn(R, Nat)
  BY NatLessThanWellFounded
<1> HIDE DEF R
<1>3. PICK x \in S : \A y \in S : ~ (<<y, x>> \in R)
  BY <1>2, WFMin
<1>4. \A y \in S : ~ (y < x)
  BY <1>1, <1>3
<1> QED  BY <1>3, <1>4

\* A bounded set of naturals has a greatest member.
LEMMA GreatestNatural ==
  ASSUME NEW S \in SUBSET Nat, S # {}, NEW n \in Nat, \A s \in S : s <= n
  PROVE  \E m \in S : \A s \in S : s <= m
<1> DEFINE U == {m \in Nat : \A s \in S : s <= m}
<1>1. PICK u \in U : \A m \in U : u <= m
  <2>1. U \in SUBSET Nat /\ n \in U
    OBVIOUS
  <2> HIDE DEF U
  <2> QED  BY <2>1, LeastNatural
<1>2. u \in Nat /\ \A s \in S : s <= u
  OBVIOUS
<1>3. CASE u \in S
  BY <1>2, <1>3
<1>4. CASE u \notin S
  <2>1. \A s \in S : s <= u - 1
    BY <1>2, <1>4
  <2>2. PICK s \in S : TRUE
    OBVIOUS
  <2>3. u - 1 \in Nat
    BY <1>2, <2>1, <2>2
  <2>4. u - 1 \in U
    BY <2>1, <2>3
  <2> QED  BY <1>1, <1>2, <2>4
<1> QED  BY <1>3, <1>4

\* The latest rollback has a stamp, and no other is later.
LEMMA LastStampBounds ==
  ASSUME TypeOK, StampsBounded, NEW S \in SUBSET CloseId
  PROVE  LastStamp(S) \in Nat /\ \A t \in S : journal[t].stamp <= LastStamp(S)
<1> DEFINE N == {journal[t].stamp : t \in S} \union {0}
<1>1. \A t \in CloseId : journal[t].stamp \in Nat
  BY DEF TypeOK, IsManifest, Tx
<1>2. PICK n \in Nat : \A c \in CloseId : journal[c].stamp <= n
  BY DEF StampsBounded
<1>3. N \in SUBSET Nat /\ N # {} /\ \A s \in N : s <= n
  BY <1>1, <1>2
<1>4. PICK m \in N : \A s \in N : s <= m
  <2> HIDE DEF N
  <2> QED  BY <1>3, GreatestNatural
<1>5. \A t \in S : journal[t].stamp <= m
  BY <1>4
<1>6. \E k \in N : \A t \in S : journal[t].stamp <= k
  BY <1>4, <1>5
<1>7. LastStamp(S) = CHOOSE k \in N : \A t \in S : journal[t].stamp <= k
  BY DEF LastStamp
<1> HIDE DEF N
<1> QED  BY <1>3, <1>6, <1>7

\* What an edit of one field of a manifest leaves well formed.
LEMMA ManifestEdits ==
  ASSUME NEW m, IsManifest(m)
  PROVE  /\ \A s \in States : IsManifest([m EXCEPT !.state = s])
         /\ \A k \in SUBSET Targets(m) :
              IsManifest([m EXCEPT !.kept = k]) /\ IsManifest([m EXCEPT !.attempted = k])
         /\ \A n \in Nat, s \in States : IsManifest([m EXCEPT !.state = s, !.stamp = n])
  BY DEF IsManifest, Targets, NoManifest, States

LEMMA NoManifestTyped == IsManifest(NoManifest)
  BY DEF IsManifest, NoManifest, NoFiles, Targets

\* Bytes that were not lost hold facts.
LEMMA BytesReadable ==
  ASSUME NEW x, x \in Image, x # Lost
  PROVE  x \in SUBSET Fact
  BY DEF Image

\* A plan made on readable files is a manifest, with any lineage on its targets.
LEMMA PlanTyped ==
  ASSUME TypeOK, NEW t \in Tx, Readable(t)
  PROVE  /\ IsManifest(PlanFor(t)) /\ PlanFor(t).state = "PREPARED"
         /\ \A l : DOMAIN l \subseteq Targets(PlanFor(t)) =>
              IsManifest([PlanFor(t) EXCEPT !.lineage = l])
<1> DEFINE targets == {r \in DOMAIN Effect[t] : file[r] # Change(t, r, file[r])}
           before == [r \in targets |-> file[r]]
           after == [r \in targets |-> Change(t, r, file[r])]
<1>1. /\ targets \subseteq Ref
      /\ \A r \in targets : file[r] \in SUBSET Fact /\ Change(t, r, file[r]) \in SUBSET Fact
  <2>1. targets \subseteq Ref
    BY EffectAssumption
  <2>2. ASSUME NEW r \in DOMAIN Effect[t]
        PROVE  file[r] \in SUBSET Fact /\ Change(t, r, file[r]) \in SUBSET Fact
    <3>1. file[r] \in SUBSET Fact
      <4>1. r \in Ref
        BY EffectAssumption
      <4>2. file[r] \in Image
        BY <4>1 DEF TypeOK
      <4>3. file[r] # Lost
        BY DEF Readable
      <4> QED  BY <4>2, <4>3, BytesReadable
    <3>2. Effect[t][r].add \subseteq Fact
      BY EffectAssumption
    <3> QED  BY <3>1, <3>2 DEF Change
  <2> QED  BY <2>1, <2>2
<1>2. DOMAIN before = targets /\ DOMAIN after = targets
  OBVIOUS
<1>3. \A r \in targets : before[r] \in Image /\ after[r] \in SUBSET Fact
  BY <1>1 DEF Image
<1>4. PlanFor(t) = [NoManifest EXCEPT !.state = "PREPARED", !.before = before, !.after = after]
  BY DEF PlanFor
<1> HIDE DEF targets, before, after
<1>5. PlanFor(t) = [state |-> "PREPARED", before |-> before, after |-> after, kept |-> {},
                    attempted |-> {}, lineage |-> NoFiles, stamp |-> 0]
  BY <1>4 DEF NoManifest
<1>6. IsManifest(PlanFor(t)) /\ Targets(PlanFor(t)) = targets
  BY <1>1, <1>2, <1>3, <1>5 DEF IsManifest, NoManifest, States, Targets, NoFiles
<1>7. ASSUME NEW l, DOMAIN l \subseteq Targets(PlanFor(t))
      PROVE  IsManifest([PlanFor(t) EXCEPT !.lineage = l])
  <2>1. [PlanFor(t) EXCEPT !.lineage = l] =
          [state |-> "PREPARED", before |-> before, after |-> after, kept |-> {},
           attempted |-> {}, lineage |-> l, stamp |-> 0]
    BY <1>5
  <2> QED  BY <1>1, <1>2, <1>3, <1>6, <1>7, <2>1 DEF IsManifest, NoManifest, States, Targets
<1> QED  BY <1>5, <1>6, <1>7
-----------------------------------------------------------------------------
(* Type correctness.                                                        *)

FilesTyped == file \in [Ref -> Image]
JournalTyped == DOMAIN journal = Tx /\ \A t \in Tx : IsManifest(journal[t])
ReceiptsTyped ==
  \A q \in receipts : q.op \in {"init", "amend", "repair", "phase"} /\ DOMAIN q.at \subseteq Ref
LocksTyped == flock \in Proc \union {None} /\ wlock \in CloseId \union {None}
LocalTyped ==
  /\ DOMAIN mem = Proc /\ \A p \in Proc : IsManifest(mem[p])
  /\ todo \in [Proc -> SUBSET Ref] /\ failed \in [Proc -> BOOLEAN] /\ DOMAIN mine = Proc
ControlTyped ==
  pc \in [Proc -> Labels] /\ job \in [Proc -> Tx \union {None}] /\ JobsMatch
EnvTyped == repairs \in Nat /\ upset \in BOOLEAN /\ faults \in Nat /\ crashes \in Nat

LEMMA TypeParts ==
  TypeInv <=> /\ FilesTyped /\ JournalTyped /\ StampsBounded /\ ReceiptsTyped /\ LocksTyped
              /\ LocalTyped /\ ControlTyped /\ EnvTyped
  BY DEF TypeInv, TypeOK, FilesTyped, JournalTyped, ReceiptsTyped, LocksTyped, LocalTyped,
         ControlTyped, EnvTyped

LEMMA TypePartsNext ==
  /\ FilesTyped' /\ JournalTyped' /\ StampsBounded' /\ ReceiptsTyped' /\ LocksTyped'
  /\ LocalTyped' /\ ControlTyped' /\ EnvTyped'
  => TypeInv'
  BY DEF TypeInv, TypeOK, FilesTyped, JournalTyped, ReceiptsTyped, LocksTyped, LocalTyped,
         ControlTyped, EnvTyped

\* What a step leaves alone stays typed.
LEMMA FilesKept == FilesTyped /\ file' = file => FilesTyped'
  BY DEF FilesTyped
LEMMA JournalKept ==
  JournalTyped /\ StampsBounded /\ journal' = journal => JournalTyped' /\ StampsBounded'
  BY DEF JournalTyped, StampsBounded
LEMMA ReceiptsKept == ReceiptsTyped /\ receipts' = receipts => ReceiptsTyped'
  BY DEF ReceiptsTyped
LEMMA LocksKept == LocksTyped /\ UNCHANGED locks => LocksTyped'
  BY DEF LocksTyped, locks
LEMMA LocalKept == LocalTyped /\ UNCHANGED <<mem, todo, failed, mine>> => LocalTyped'
  BY DEF LocalTyped
LEMMA EnvKept == EnvTyped /\ UNCHANGED env => EnvTyped'
  BY DEF EnvTyped, env

\* A process goes on with its job.
LEMMA MoveTyped ==
  ASSUME ControlTyped, NEW p \in Proc, NEW l \in Labels, Goto(p, l), job' = job, Fits(l, job[p])
  PROVE  ControlTyped'
  BY DEF ControlTyped, Goto, JobsMatch

\* A process takes a job up, or drops it.
LEMMA JobTyped ==
  ASSUME ControlTyped, NEW p \in Proc, NEW l \in Labels, Goto(p, l),
         NEW t \in Tx \union {None}, job' = [job EXCEPT ![p] = t], Fits(l, t)
  PROVE  ControlTyped'
  BY DEF ControlTyped, Goto, JobsMatch

LEMMA CountTyped ==
  ASSUME EnvTyped, NEW o, Count(o)
  PROVE  faults' \in Nat
  BY DEF EnvTyped, Count

LEMMA JobOfLabel ==
  ASSUME ControlTyped, NEW p \in Proc
  PROVE  /\ pc[p] \in CloseLabels => job[p] \in CloseId /\ job[p] \in Tx
         /\ pc[p] \in InitLabels => job[p] \in InitId \union AmendId /\ job[p] \in Tx
  BY DEF ControlTyped, JobsMatch, Fits, Tx

\* A command returns, or dies.
LEMMA DropTyped ==
  ASSUME TypeInv, NEW p \in Proc, Goto(p, "idle"),
         job' = [job EXCEPT ![p] = None], mem' = [mem EXCEPT ![p] = NoManifest],
         todo' = [todo EXCEPT ![p] = {}], failed' = [failed EXCEPT ![p] = FALSE],
         mine' = [mine EXCEPT ![p] = {}]
  PROVE  LocalTyped' /\ ControlTyped'
<1>1. "idle" \in Labels /\ Fits("idle", None)
  BY DEF Labels, Fits, CloseLabels, InitLabels
<1>2. ControlTyped'
  BY <1>1, TypeParts, JobTyped
<1>3. LocalTyped'
  BY TypeParts, NoManifestTyped DEF LocalTyped
<1> QED  BY <1>2, <1>3

LEMMA ReturnTyped ==
  ASSUME TypeInv, NEW p \in Proc, Return(p), UNCHANGED disk, EnvTyped'
  PROVE  TypeInv'
<1>1. LocalTyped' /\ ControlTyped'
  BY DropTyped DEF Return
<1>2. LocksTyped'
  BY TypeParts DEF LocksTyped, Return
<1>3. FilesTyped' /\ JournalTyped' /\ StampsBounded' /\ ReceiptsTyped'
  <2>1. file' = file /\ journal' = journal /\ receipts' = receipts
    BY DEF disk
  <2> QED  BY <2>1, TypeParts, FilesKept, JournalKept, ReceiptsKept
<1> QED  BY <1>1, <1>2, <1>3, TypePartsNext

\* A manifest is persisted, or the write of it fails.
LEMMA PersistTyped ==
  ASSUME TypeInv, NEW p \in Proc, NEW m, IsManifest(m), job[p] \in Tx,
         NEW good \in Labels, NEW bad \in Labels, Persist(p, m, good, bad),
         Fits(good, job[p]), Fits(bad, job[p]), todo' \in [Proc -> SUBSET Ref],
         UNCHANGED <<file, receipts, locks, job, failed, mine, repairs, upset, crashes>>
  PROVE  TypeInv'
<1>1. ControlTyped'
  <2>1. Goto(p, good) \/ Goto(p, bad)
    BY DEF Persist
  <2>2. job' = job
    OBVIOUS
  <2> QED  BY <2>1, <2>2, TypeParts, MoveTyped
<1>2. journal' = journal \/ journal' = [journal EXCEPT ![job[p]] = m]
  BY DEF Persist
<1>3. JournalTyped'
  BY <1>2, TypeParts DEF JournalTyped
<1>4. StampsBounded'
  <2>1. PICK n \in Nat : \A c \in CloseId : journal[c].stamp <= n
    BY TypeParts DEF StampsBounded
  <2>2. m.stamp \in Nat /\ \A c \in CloseId : journal[c].stamp \in Nat /\ c \in DOMAIN journal
    BY TypeParts DEF JournalTyped, IsManifest, Tx
  <2>3. \A c \in CloseId : journal'[c].stamp <= n + m.stamp
    <3>1. ASSUME NEW c \in CloseId
          PROVE  journal'[c] \in {journal[c], m}
      BY <1>2, <2>2
    <3> QED  BY <2>1, <2>2, <3>1
  <2> QED  BY <2>1, <2>2, <2>3 DEF StampsBounded
<1>5. LocalTyped'
  BY TypeParts DEF LocalTyped, Persist
<1>6. EnvTyped'
  BY TypeParts, CountTyped DEF Persist, EnvTyped
<1>7. FilesTyped' /\ ReceiptsTyped' /\ LocksTyped'
  <2>1. file' = file /\ receipts' = receipts /\ UNCHANGED locks
    OBVIOUS
  <2> QED  BY <2>1, TypeParts, FilesKept, ReceiptsKept, LocksKept
<1> QED  BY <1>1, <1>3, <1>4, <1>5, <1>6, <1>7, TypePartsNext

\* Where each step of a close leads.
LEMMA CloseLabelsFit ==
  ASSUME NEW c \in CloseId
  PROVE  /\ \A l \in CloseLabels \union {"release", "idle"} : l \in Labels /\ Fits(l, c)
         /\ c \in Tx
  BY DEF CloseLabels, InitLabels, Labels, Fits, Tx

LEMMA InitLabelsFit ==
  ASSUME NEW t \in InitId \union AmendId
  PROVE  /\ \A l \in InitLabels \union {"release", "idle"} : l \in Labels /\ Fits(l, t)
         /\ t \in Tx
  BY DEF CloseLabels, InitLabels, Labels, Fits, Tx

\* The process holds another manifest.
LEMMA MemTyped ==
  ASSUME LocalTyped, NEW p \in Proc, NEW m, IsManifest(m), mem' = [mem EXCEPT ![p] = m],
         todo' \in [Proc -> SUBSET Ref], failed' = failed, mine' = mine
  PROVE  LocalTyped'
  BY DEF LocalTyped

LEMMA PlanCloseTyped ==
  ASSUME TypeInv, NEW p \in Proc, NEW c \in CloseId, PlanClose(p, c)
  PROVE  TypeInv'
<1> DEFINE m == [PlanFor(c) EXCEPT !.lineage = LineageFor(PlanFor(c))]
<1>1. c \in Tx /\ "planned" \in Labels /\ Fits("planned", c)
  BY CloseLabelsFit DEF CloseLabels
<1>2. IsManifest(m)
  <2>1. DOMAIN LineageFor(PlanFor(c)) \subseteq Targets(PlanFor(c))
    BY DEF LineageFor, Anchored
  <2> QED  BY <1>1, <2>1, PlanTyped DEF PlanClose, TypeInv
<1>3. mem' = [mem EXCEPT ![p] = m]
  BY DEF PlanClose
<1> HIDE DEF m
<1>4. /\ file' = file /\ journal' = journal /\ receipts' = receipts /\ UNCHANGED locks
      /\ todo' = todo /\ failed' = failed /\ mine' = mine /\ UNCHANGED env
  BY DEF PlanClose, disk
<1>5. LocalTyped'
  BY <1>2, <1>3, <1>4, TypeParts, MemTyped DEF LocalTyped
<1>6. ControlTyped'
  BY <1>1, TypeParts, JobTyped DEF PlanClose
<1> QED  BY <1>4, <1>5, <1>6, TypeParts, TypePartsNext, FilesKept, JournalKept, ReceiptsKept,
            LocksKept, EnvKept

LEMMA LockCloseTyped ==
  ASSUME TypeInv, NEW p \in Proc, LockClose(p)
  PROVE  TypeInv'
<1>1. UNCHANGED disk /\ UNCHANGED env /\ EnvTyped'
  BY TypeParts, EnvKept DEF LockClose
<1>2. CASE Return(p)
  BY <1>1, <1>2, ReturnTyped
<1>3. CASE /\ flock' = p /\ wlock' = job[p] /\ Goto(p, "build")
           /\ UNCHANGED <<job, mem, todo, failed, mine>>
  <2>1. job[p] \in CloseId
    BY TypeParts, JobOfLabel DEF LockClose, CloseLabels
  <2>2. ControlTyped'
    BY <1>3, <2>1, TypeParts, MoveTyped, CloseLabelsFit DEF CloseLabels
  <2>3. LocksTyped'
    BY <1>3, <2>1 DEF LocksTyped
  <2>4. file' = file /\ journal' = journal /\ receipts' = receipts
    BY <1>1 DEF disk
  <2> QED  BY <1>1, <1>3, <2>2, <2>3, <2>4, TypeParts, TypePartsNext, FilesKept, JournalKept,
              ReceiptsKept, LocalKept
<1> QED  BY <1>2, <1>3 DEF LockClose

LEMMA BuildManifestTyped ==
  ASSUME TypeInv, NEW p \in Proc, BuildManifest(p)
  PROVE  TypeInv'
<1>1. UNCHANGED disk /\ UNCHANGED env /\ EnvTyped'
  BY TypeParts, EnvKept DEF BuildManifest
<1>2. CASE Return(p)
  BY <1>1, <1>2, ReturnTyped
<1>3. CASE Goto(p, "attach") /\ UNCHANGED <<locks, job, mem, todo, failed, mine>>
  <2>1. job[p] \in CloseId
    BY TypeParts, JobOfLabel DEF BuildManifest, CloseLabels
  <2>2. ControlTyped'
    BY <1>3, <2>1, TypeParts, MoveTyped, CloseLabelsFit DEF CloseLabels
  <2>3. file' = file /\ journal' = journal /\ receipts' = receipts
    BY <1>1 DEF disk
  <2> QED  BY <1>1, <1>3, <2>2, <2>3, TypeParts, TypePartsNext, FilesKept, JournalKept,
              ReceiptsKept, LocksKept, LocalKept
<1> QED  BY <1>2, <1>3 DEF BuildManifest

LEMMA AttachBytesTyped ==
  ASSUME TypeInv, NEW p \in Proc, AttachBytes(p)
  PROVE  TypeInv'
<1>1. job[p] \in CloseId
  BY TypeParts, JobOfLabel DEF AttachBytes, CloseLabels
<1>2. IsManifest(mem[p]) /\ Targets(mem[p]) \subseteq Ref
  BY TypeParts DEF LocalTyped, IsManifest, Targets
<1>3. PICK k \in SUBSET Targets(mem[p]) : mem' = [mem EXCEPT ![p].kept = k]
  BY DEF AttachBytes
<1>4. mem' = [mem EXCEPT ![p] = [mem[p] EXCEPT !.kept = k]]
  BY <1>3
<1>5. IsManifest([mem[p] EXCEPT !.kept = k])
  BY <1>2, ManifestEdits
<1>6. todo' \in [Proc -> SUBSET Ref]
  BY <1>2, TypeParts DEF AttachBytes, LocalTyped
<1>7. /\ file' = file /\ journal' = journal /\ receipts' = receipts /\ UNCHANGED locks
      /\ job' = job /\ failed' = failed /\ mine' = mine /\ UNCHANGED env
  BY DEF AttachBytes, disk
<1>8. LocalTyped'
  BY <1>4, <1>5, <1>6, <1>7, TypeParts, MemTyped
<1>9. ControlTyped'
  <2>1. Goto(p, "prepare") \/ Goto(p, "rollback")
    BY DEF AttachBytes
  <2> QED  BY <1>1, <1>7, <2>1, TypeParts, MoveTyped, CloseLabelsFit DEF CloseLabels
<1> QED  BY <1>7, <1>8, <1>9, TypeParts, TypePartsNext, FilesKept, JournalKept, ReceiptsKept,
            LocksKept, EnvKept

LEMMA WriteManifestTyped ==
  ASSUME TypeInv, NEW p \in Proc,
         WritePrepared(p) \/ WriteApplying(p) \/ CommitClose(p) \/ FinishRollback(p)
  PROVE  TypeInv'
<1>1. job[p] \in CloseId
  BY TypeParts, JobOfLabel DEF WritePrepared, WriteApplying, CommitClose, FinishRollback, CloseLabels
<1>2. IsManifest(mem[p]) /\ todo \in [Proc -> SUBSET Ref]
  BY TypeParts DEF LocalTyped
<1>3. \A l \in CloseLabels \union {"release"} : l \in Labels /\ Fits(l, job[p])
  BY <1>1, CloseLabelsFit
<1>4. job[p] \in Tx
  BY <1>1, CloseLabelsFit
<1>5. CASE WritePrepared(p)
  BY <1>2, <1>3, <1>4, <1>5, PersistTyped DEF WritePrepared, CloseLabels
<1>6. CASE WriteApplying(p)
  <2>1. IsManifest([mem[p] EXCEPT !.state = "APPLYING"])
    BY <1>2, ManifestEdits DEF States
  <2> QED  BY <1>2, <1>3, <1>4, <1>6, <2>1, PersistTyped DEF WriteApplying, CloseLabels
<1>7. CASE CommitClose(p)
  <2>1. IsManifest([mem[p] EXCEPT !.state = "COMMITTED"])
    BY <1>2, ManifestEdits DEF States
  <2> QED  BY <1>2, <1>3, <1>4, <1>7, <2>1, PersistTyped DEF CommitClose, CloseLabels
<1>8. CASE FinishRollback(p)
  <2> DEFINE n == LastStamp(CloseId \ {job[p]}) + 1
             m == IF failed[p] THEN [mem[p] EXCEPT !.state = "PARTIAL"]
                  ELSE [mem[p] EXCEPT !.state = "RECOVERED", !.stamp = n]
  <2>1. n \in Nat
    <3>1. LastStamp(CloseId \ {job[p]}) \in Nat
      BY LastStampBounds DEF TypeInv
    <3> QED  BY <3>1
  <2> HIDE DEF n
  <2>2. IsManifest(m)
    BY <1>2, <2>1, ManifestEdits DEF States
  <2>3. Persist(p, m, "release", "release")
    BY <1>8 DEF FinishRollback, n
  <2> HIDE DEF m
  <2> QED  BY <1>2, <1>3, <1>4, <1>8, <2>2, <2>3, PersistTyped DEF FinishRollback
<1> QED  BY <1>5, <1>6, <1>7, <1>8

LEMMA AttemptTargetTyped ==
  ASSUME TypeInv, NEW p \in Proc, AttemptTarget(p)
  PROVE  TypeInv'
<1>1. job[p] \in CloseId
  BY TypeParts, JobOfLabel DEF AttemptTarget, CloseLabels
<1>2. /\ IsManifest(mem[p]) /\ todo \in [Proc -> SUBSET Ref]
      /\ mem[p].attempted \subseteq Targets(mem[p])
  BY TypeParts DEF LocalTyped, IsManifest
<1>3. /\ \A l \in CloseLabels \union {"release"} : l \in Labels /\ Fits(l, job[p])
      /\ job[p] \in Tx
  BY <1>1, CloseLabelsFit
<1>4. /\ UNCHANGED <<file, receipts, locks, job, failed, mine, repairs, upset, crashes>>
      /\ todo' = todo
  BY DEF AttemptTarget
<1>5. ASSUME NEW r \in Ref, IsFirst(r, Targets(mem[p]) \ mem[p].attempted),
             Persist(p, [mem[p] EXCEPT !.attempted = @ \union {r}], "replace", "rollback")
      PROVE  TypeInv'
  <2> DEFINE k == mem[p].attempted \union {r}
  <2>1. k \in SUBSET Targets(mem[p])
    BY <1>2, <1>5 DEF IsFirst
  <2>2. [mem[p] EXCEPT !.attempted = @ \union {r}] = [mem[p] EXCEPT !.attempted = k]
    OBVIOUS
  <2> HIDE DEF k
  <2>3. IsManifest([mem[p] EXCEPT !.attempted = @ \union {r}])
    BY <1>2, <2>1, <2>2, ManifestEdits
  <2> QED  BY <1>2, <1>3, <1>4, <1>5, <2>3, PersistTyped DEF CloseLabels
<1>6. ASSUME Goto(p, "rollback"), UNCHANGED <<journal, mem, faults>>
      PROVE  TypeInv'
  <2>1. ControlTyped'
    BY <1>3, <1>4, <1>6, TypeParts, MoveTyped DEF CloseLabels
  <2>2. UNCHANGED env /\ UNCHANGED <<mem, todo, failed, mine>>
    BY <1>4, <1>6 DEF env
  <2>3. file' = file /\ journal' = journal /\ receipts' = receipts /\ UNCHANGED locks
    BY <1>4, <1>6
  <2> QED  BY <2>1, <2>2, <2>3, TypeParts, TypePartsNext, FilesKept, JournalKept, ReceiptsKept,
              LocksKept, LocalKept, EnvKept
<1> QED  BY <1>5, <1>6 DEF AttemptTarget

\* A file gets an image, or the write of it fails.
LEMMA FileWritten ==
  ASSUME FilesTyped, NEW r \in Ref, NEW image \in Image,
         file' = file \/ file' = [file EXCEPT ![r] = image]
  PROVE  FilesTyped'
  BY DEF FilesTyped

LEMMA ManifestImages ==
  ASSUME NEW m, IsManifest(m), NEW r \in Targets(m)
  PROVE  m.before[r] \in Image /\ m.after[r] \in Image /\ BeforeBytes(m, r) \in Image
  BY DEF IsManifest, Targets, Image, BeforeBytes

LEMMA AttemptedImages ==
  ASSUME NEW m, IsManifest(m), NEW r, IsLast(r, m.attempted)
  PROVE  m.after[r] \in Image
  BY ManifestImages DEF IsManifest, IsLast

LEMMA ReplaceTargetTyped ==
  ASSUME TypeInv, NEW p \in Proc, ReplaceTarget(p)
  PROVE  TypeInv'
<1>1. job[p] \in CloseId
  BY TypeParts, JobOfLabel DEF ReplaceTarget, CloseLabels
<1>2. IsManifest(mem[p])
  BY TypeParts DEF LocalTyped
<1>3. PICK r \in Ref, o \in Outcomes :
        /\ IsLast(r, mem[p].attempted)
        /\ file' = IF o = "lost" THEN file ELSE [file EXCEPT ![r] = mem[p].after[r]]
        /\ Goto(p, IF o = "ok" THEN "next" ELSE "rollback")
        /\ Count(o)
  BY DEF ReplaceTarget
<1>4. FilesTyped'
  BY <1>2, <1>3, TypeParts, AttemptedImages, FileWritten
<1>5. /\ journal' = journal /\ receipts' = receipts /\ UNCHANGED locks /\ job' = job
      /\ UNCHANGED <<mem, todo, failed, mine>> /\ UNCHANGED <<repairs, upset, crashes>>
  BY DEF ReplaceTarget
<1>6. ControlTyped'
  <2>1. Goto(p, "next") \/ Goto(p, "rollback")
    BY <1>3
  <2> QED  BY <1>1, <1>5, <2>1, TypeParts, MoveTyped, CloseLabelsFit DEF CloseLabels
<1>7. EnvTyped'
  BY <1>3, <1>5, TypeParts, CountTyped DEF EnvTyped
<1> QED  BY <1>4, <1>5, <1>6, <1>7, TypeParts, TypePartsNext, JournalKept, ReceiptsKept,
            LocksKept, LocalKept

\* A rollback has one target fewer to visit, and may have failed at it.
LEMMA VisitTyped ==
  ASSUME LocalTyped, NEW p \in Proc, NEW r, todo' = [todo EXCEPT ![p] = @ \ {r}],
         failed' = failed \/ (\E b \in BOOLEAN : failed' = [failed EXCEPT ![p] = b]),
         mem' = mem, mine' = mine
  PROVE  LocalTyped'
  BY DEF LocalTyped

LEMMA RollbackTargetTyped ==
  ASSUME TypeInv, NEW p \in Proc, RollbackTarget(p)
  PROVE  TypeInv'
<1>1. IsManifest(mem[p]) /\ failed[p] \in BOOLEAN
  BY TypeParts DEF LocalTyped
<1>2. PICK r \in Ref :
        /\ IsLast(r, todo[p])
        /\ todo' = [todo EXCEPT ![p] = @ \ {r}]
        /\ \/ /\ file[r] \notin {mem[p].before[r], mem[p].after[r]}
              /\ failed' = [failed EXCEPT ![p] = TRUE]
              /\ UNCHANGED <<file, faults>>
           \/ /\ file[r] = mem[p].before[r]
              /\ UNCHANGED <<file, failed, faults>>
           \/ /\ file[r] = mem[p].after[r]
              /\ \E o \in Outcomes :
                   /\ file' = IF o = "lost" THEN file
                              ELSE [file EXCEPT ![r] = BeforeBytes(mem[p], r)]
                   /\ failed' = [failed EXCEPT ![p] = @ \/ o = "lost"]
                   /\ Count(o)
  BY DEF RollbackTarget
<1>3. BeforeBytes(mem[p], r) \in Image
  BY <1>1, ManifestImages DEF BeforeBytes, IsManifest, Image
<1>4. FilesTyped'
  BY <1>2, <1>3, TypeParts, FileWritten
<1>5. failed' = failed \/ (\E b \in BOOLEAN : failed' = [failed EXCEPT ![p] = b])
  BY <1>1, <1>2
<1>6. /\ journal' = journal /\ receipts' = receipts /\ UNCHANGED locks /\ pc' = pc /\ job' = job
      /\ mem' = mem /\ mine' = mine /\ UNCHANGED <<repairs, upset, crashes>>
  BY DEF RollbackTarget
<1>7. LocalTyped'
  BY <1>2, <1>5, <1>6, TypeParts, VisitTyped
<1>8. EnvTyped'
  BY <1>2, <1>6, TypeParts, CountTyped DEF EnvTyped
<1>9. ControlTyped'
  BY <1>6, TypeParts DEF ControlTyped, JobsMatch
<1> QED  BY <1>4, <1>6, <1>7, <1>8, <1>9, TypeParts, TypePartsNext, JournalKept, ReceiptsKept,
            LocksKept

\* A recovery takes up the manifest it finds.
LEMMA TakeUpTyped ==
  ASSUME TypeInv, NEW p \in Proc, NEW t \in Tx, NEW l \in Labels, Fits(l, t), Goto(p, l),
         job' = [job EXCEPT ![p] = t], mem' = [mem EXCEPT ![p] = journal[t]],
         todo' = [todo EXCEPT ![p] = Targets(journal[t])], UNCHANGED <<failed, mine>>
  PROVE  ControlTyped' /\ LocalTyped'
<1>1. IsManifest(journal[t]) /\ Targets(journal[t]) \subseteq Ref
  BY TypeParts DEF JournalTyped, IsManifest, Targets
<1>2. todo' \in [Proc -> SUBSET Ref]
  BY <1>1, TypeParts DEF LocalTyped
<1>3. LocalTyped'
  BY <1>1, <1>2, TypeParts, MemTyped
<1> QED  BY <1>3, TypeParts, JobTyped

LEMMA ReadForRecoveryTyped ==
  ASSUME TypeInv, NEW p \in Proc, NEW c \in CloseId, ReadForRecovery(p, c)
  PROVE  TypeInv'
<1>1. c \in Tx /\ "recover" \in Labels /\ Fits("recover", c)
  BY CloseLabelsFit DEF CloseLabels
<1>2. ControlTyped' /\ LocalTyped'
  BY <1>1, TakeUpTyped DEF ReadForRecovery
<1>3. /\ file' = file /\ journal' = journal /\ receipts' = receipts /\ UNCHANGED locks
      /\ UNCHANGED env
  BY DEF ReadForRecovery, disk
<1> QED  BY <1>2, <1>3, TypeParts, TypePartsNext, FilesKept, JournalKept, ReceiptsKept,
            LocksKept, EnvKept

LEMMA LockForRecoveryTyped ==
  ASSUME TypeInv, NEW p \in Proc, LockForRecovery(p)
  PROVE  TypeInv'
<1>1. UNCHANGED disk /\ EnvTyped'
  BY TypeParts DEF LockForRecovery, EnvTyped
<1>2. CASE Return(p)
  BY <1>1, <1>2, ReturnTyped
<1>3. CASE /\ flock' = p /\ wlock' = job[p] /\ Goto(p, "rollback")
           /\ UNCHANGED <<job, mem, todo, failed, mine>>
  <2>1. job[p] \in CloseId
    BY TypeParts, JobOfLabel DEF LockForRecovery, CloseLabels
  <2>2. ControlTyped'
    BY <1>3, <2>1, TypeParts, MoveTyped, CloseLabelsFit DEF CloseLabels
  <2>3. LocksTyped'
    BY <1>3, <2>1 DEF LocksTyped
  <2>4. file' = file /\ journal' = journal /\ receipts' = receipts
    BY <1>1 DEF disk
  <2> QED  BY <1>1, <1>3, <2>2, <2>3, <2>4, TypeParts, TypePartsNext, FilesKept, JournalKept,
              ReceiptsKept, LocalKept
<1> QED  BY <1>2, <1>3 DEF LockForRecovery

LEMMA PlanInitTyped ==
  ASSUME TypeInv, NEW p \in Proc, NEW t \in InitId \union AmendId, PlanInit(p, t)
  PROVE  TypeInv'
<1> DEFINE l == IF t \in InitId THEN Preflight(PlanFor(t).before) ELSE NoFiles
           m == [PlanFor(t) EXCEPT !.lineage = l]
<1>1. t \in Tx /\ "init" \in Labels /\ Fits("init", t)
  BY InitLabelsFit DEF InitLabels
<1>2. IsManifest(m)
  <2>1. DOMAIN l \subseteq Targets(PlanFor(t))
    BY DEF Preflight, Anchored, Targets, NoFiles
  <2> HIDE DEF l
  <2> QED  BY <1>1, <2>1, PlanTyped DEF PlanInit, TypeInv
<1>3. mem' = [mem EXCEPT ![p] = m]
  BY DEF PlanInit
<1> HIDE DEF m
<1>4. /\ file' = file /\ journal' = journal /\ receipts' = receipts /\ UNCHANGED locks
      /\ todo' = todo /\ failed' = failed /\ mine' = mine /\ UNCHANGED env
  BY DEF PlanInit, disk
<1>5. LocalTyped'
  BY <1>2, <1>3, <1>4, TypeParts, MemTyped DEF LocalTyped
<1>6. ControlTyped'
  BY <1>1, TypeParts, JobTyped DEF PlanInit
<1> QED  BY <1>4, <1>5, <1>6, TypeParts, TypePartsNext, FilesKept, JournalKept, ReceiptsKept,
            LocksKept, EnvKept

LEMMA AdmissionTyped ==
  ASSUME TypeInv, NEW p \in Proc, LockInit(p) \/ AdmitInit(p)
  PROVE  TypeInv'
<1>1. UNCHANGED disk /\ UNCHANGED env /\ EnvTyped'
  BY TypeParts, EnvKept DEF LockInit, AdmitInit
<1>2. CASE Return(p)
  BY <1>1, <1>2, ReturnTyped
<1>3. ASSUME Goto(p, "admit") \/ Goto(p, "open"), flock' \in {p, flock},
             UNCHANGED <<wlock, job, mem, todo, failed, mine>>
      PROVE  TypeInv'
  <2>1. job[p] \in InitId \union AmendId
    BY TypeParts, JobOfLabel DEF LockInit, AdmitInit, InitLabels
  <2>2. ControlTyped'
    BY <1>3, <2>1, TypeParts, MoveTyped, InitLabelsFit DEF InitLabels
  <2>3. file' = file /\ journal' = journal /\ receipts' = receipts
    BY <1>1 DEF disk
  <2>4. LocksTyped'
    BY <1>3, TypeParts DEF LocksTyped
  <2> QED  BY <1>1, <1>3, <2>2, <2>3, <2>4, TypeParts, TypePartsNext, FilesKept, JournalKept,
              ReceiptsKept, LocalKept
<1> QED  BY <1>2, <1>3 DEF LockInit, AdmitInit, locks

LEMMA InitManifestTyped ==
  ASSUME TypeInv, NEW p \in Proc,
         OpenInit(p) \/ StartInit(p) \/ CommitInit(p) \/ FinishRestore(p)
  PROVE  TypeInv'
<1>1. job[p] \in InitId \union AmendId
  BY TypeParts, JobOfLabel DEF OpenInit, StartInit, CommitInit, FinishRestore, InitLabels
<1>2. /\ \A l \in InitLabels \union {"release"} : l \in Labels /\ Fits(l, job[p])
      /\ job[p] \in Tx
  BY <1>1, InitLabelsFit
<1>3. IsManifest(mem[p]) /\ IsManifest(journal[job[p]]) /\ todo \in [Proc -> SUBSET Ref]
  BY <1>2, TypeParts DEF LocalTyped, JournalTyped
<1>4. CASE OpenInit(p)
  <2>1. IsManifest([mem[p] EXCEPT !.kept = Targets(mem[p])])
    BY <1>3, ManifestEdits
  <2>2. todo' \in [Proc -> SUBSET Ref]
    BY <1>3, <1>4 DEF OpenInit, IsManifest, Targets
  <2> QED  BY <1>2, <1>4, <2>1, <2>2, PersistTyped DEF OpenInit, InitLabels
<1>5. \A s \in States : IsManifest([journal[job[p]] EXCEPT !.state = s])
  BY <1>3, ManifestEdits
<1>6. CASE StartInit(p)
  BY <1>2, <1>3, <1>5, <1>6, PersistTyped DEF StartInit, InitLabels, States
<1>7. CASE CommitInit(p)
  <2>1. IF job[p] \in InitId THEN Persist(p, [journal[job[p]] EXCEPT !.state = "COMMITTED"], "release", "undo")
        ELSE Persist(p, [journal[job[p]] EXCEPT !.state = "COMMITTED"], "register", "undo")
    BY <1>7 DEF CommitInit
  <2> QED  BY <1>2, <1>3, <1>5, <1>7, <2>1, PersistTyped DEF CommitInit, InitLabels, States
<1>8. CASE FinishRestore(p)
  <2> DEFINE s == IF failed[p] THEN "PARTIAL" ELSE "RECOVERED"
  <2>1. s \in States /\ Persist(p, [journal[job[p]] EXCEPT !.state = s], "release", "release")
    BY <1>8 DEF FinishRestore, States
  <2> HIDE DEF s
  <2> QED  BY <1>2, <1>3, <1>5, <1>8, <2>1, PersistTyped DEF FinishRestore
<1> QED  BY <1>4, <1>6, <1>7, <1>8

LEMMA AttemptChangeTyped ==
  ASSUME TypeInv, NEW p \in Proc, AttemptChange(p)
  PROVE  TypeInv'
<1> DEFINE m == journal[job[p]]
<1>1. job[p] \in InitId \union AmendId
  BY TypeParts, JobOfLabel DEF AttemptChange, InitLabels
<1>2. /\ \A l \in InitLabels \union {"release"} : l \in Labels /\ Fits(l, job[p])
      /\ job[p] \in Tx
  BY <1>1, InitLabelsFit
<1>3. IsManifest(m) /\ todo \in [Proc -> SUBSET Ref] /\ m.attempted \subseteq Targets(m)
  BY <1>2, TypeParts DEF LocalTyped, JournalTyped, IsManifest
<1>4. /\ UNCHANGED <<file, receipts, locks, job, failed, mine, repairs, upset, crashes>>
      /\ todo' = todo
  BY DEF AttemptChange
<1>5. ASSUME NEW r \in Ref, IsFirst(r, Targets(m) \ m.attempted),
             Persist(p, [m EXCEPT !.attempted = @ \union {r}], "write", "undo")
      PROVE  TypeInv'
  <2> DEFINE k == m.attempted \union {r}
  <2>1. k \in SUBSET Targets(m)
    BY <1>3, <1>5 DEF IsFirst
  <2>2. [m EXCEPT !.attempted = @ \union {r}] = [m EXCEPT !.attempted = k]
    OBVIOUS
  <2> HIDE DEF k, m
  <2>3. IsManifest([m EXCEPT !.attempted = @ \union {r}])
    BY <1>3, <2>1, <2>2, ManifestEdits
  <2> QED  BY <1>2, <1>3, <1>4, <1>5, <2>3, PersistTyped DEF InitLabels
<1>6. ASSUME Goto(p, "undo"), UNCHANGED <<journal, mem, faults>>
      PROVE  TypeInv'
  <2>1. ControlTyped'
    BY <1>2, <1>4, <1>6, TypeParts, MoveTyped DEF InitLabels
  <2>2. UNCHANGED env /\ UNCHANGED <<mem, todo, failed, mine>>
    BY <1>4, <1>6 DEF env
  <2>3. file' = file /\ journal' = journal /\ receipts' = receipts /\ UNCHANGED locks
    BY <1>4, <1>6
  <2> QED  BY <2>1, <2>2, <2>3, TypeParts, TypePartsNext, FilesKept, JournalKept, ReceiptsKept,
              LocksKept, LocalKept, EnvKept
<1> QED  BY <1>5, <1>6 DEF AttemptChange

LEMMA WriteChangeTyped ==
  ASSUME TypeInv, NEW p \in Proc, WriteChange(p)
  PROVE  TypeInv'
<1>1. job[p] \in InitId \union AmendId
  BY TypeParts, JobOfLabel DEF WriteChange, InitLabels
<1>2. IsManifest(journal[job[p]])
  BY <1>1, TypeParts, InitLabelsFit DEF JournalTyped
<1>3. PICK r \in Ref, o \in Outcomes :
        /\ IsLast(r, journal[job[p]].attempted)
        /\ file' = IF o = "lost" THEN file ELSE [file EXCEPT ![r] = journal[job[p]].after[r]]
        /\ Count(o)
  BY DEF WriteChange
<1>4. FilesTyped'
  BY <1>2, <1>3, TypeParts, AttemptedImages, FileWritten
<1>5. /\ journal' = journal /\ receipts' = receipts /\ UNCHANGED locks /\ job' = job
      /\ UNCHANGED <<mem, todo, failed, mine>> /\ UNCHANGED <<repairs, upset, crashes>>
  BY DEF WriteChange
<1>6. ControlTyped'
  <2>1. \E l \in {"undo", "change", "record", "refresh"} : Goto(p, l)
    BY DEF WriteChange
  <2> QED  BY <1>1, <1>5, <2>1, TypeParts, MoveTyped, InitLabelsFit DEF InitLabels
<1>7. EnvTyped'
  BY <1>3, <1>5, TypeParts, CountTyped DEF EnvTyped
<1> QED  BY <1>4, <1>5, <1>6, <1>7, TypeParts, TypePartsNext, JournalKept, ReceiptsKept,
            LocksKept, LocalKept

\* A receipt for known files is well formed.
LEMMA ReceiptTyped ==
  ASSUME NEW op \in {"init", "amend", "repair", "phase"}, NEW writer, NEW before,
         DOMAIN before \subseteq Ref
  PROVE  /\ ReceiptFor(op, writer, before).op = op
         /\ ReceiptFor(op, writer, before).writer = writer
         /\ DOMAIN ReceiptFor(op, writer, before).at \subseteq Ref
  BY DEF ReceiptFor, Anchored

LEMMA RecordInitTyped ==
  ASSUME TypeInv, NEW p \in Proc, RecordInit(p)
  PROVE  TypeInv'
<1> DEFINE q == ReceiptFor(Operation(job[p]), Writer(job[p]), mem[p].before)
<1>1. job[p] \in InitId \union AmendId
  BY TypeParts, JobOfLabel DEF RecordInit, InitLabels
<1>2. q.op \in {"init", "amend"} /\ DOMAIN q.at \subseteq Ref
  <2>1. DOMAIN mem[p].before \subseteq Ref
    BY TypeParts DEF LocalTyped, IsManifest
  <2>2. Operation(job[p]) \in {"init", "amend"}
    BY DEF Operation
  <2> QED  BY <2>1, <2>2, ReceiptTyped
<1> HIDE DEF q
<1>3. /\ receipts' = receipts \/ receipts' = receipts \union {q}
      /\ \E l \in {"refresh", "undo", "release"} : Goto(p, l)
      /\ mine' = mine \/ mine' = [mine EXCEPT ![p] = {q}]
      /\ faults' = faults \/ (\E o : Count(o))
  BY DEF RecordInit, q
<1>4. /\ file' = file /\ journal' = journal /\ UNCHANGED locks /\ job' = job /\ mem' = mem
      /\ todo' = todo /\ failed' = failed /\ UNCHANGED <<repairs, upset, crashes>>
  BY DEF RecordInit
<1>5. ReceiptsTyped'
  BY <1>2, <1>3, TypeParts DEF ReceiptsTyped
<1>6. ControlTyped'
  BY <1>1, <1>3, <1>4, TypeParts, MoveTyped, InitLabelsFit DEF InitLabels
<1>7. LocalTyped'
  BY <1>3, <1>4, TypeParts DEF LocalTyped
<1>8. EnvTyped'
  BY <1>3, <1>4, TypeParts, CountTyped DEF EnvTyped
<1> QED  BY <1>4, <1>5, <1>6, <1>7, <1>8, TypeParts, TypePartsNext, FilesKept, JournalKept,
            LocksKept

LEMMA RefreshStateTyped ==
  ASSUME TypeInv, NEW p \in Proc, RefreshState(p)
  PROVE  TypeInv'
<1>1. job[p] \in InitId \union AmendId
  BY TypeParts, JobOfLabel DEF RefreshState, InitLabels
<1>2. PICK o \in Outcomes : Goto(p, IF o = "ok" THEN "commit" ELSE "undo") /\ Count(o)
  BY DEF RefreshState
<1>3. /\ file' = file /\ journal' = journal /\ receipts' = receipts /\ UNCHANGED locks
      /\ job' = job /\ UNCHANGED <<mem, todo, failed, mine>> /\ UNCHANGED <<repairs, upset, crashes>>
  BY DEF RefreshState, disk
<1>4. ControlTyped'
  <2>1. Goto(p, "commit") \/ Goto(p, "undo")
    BY <1>2
  <2> QED  BY <1>1, <1>3, <2>1, TypeParts, MoveTyped, InitLabelsFit DEF InitLabels
<1>5. EnvTyped'
  BY <1>2, <1>3, TypeParts, CountTyped DEF EnvTyped
<1> QED  BY <1>3, <1>4, <1>5, TypeParts, TypePartsNext, FilesKept, JournalKept, ReceiptsKept,
            LocksKept, LocalKept

LEMMA DiscardReceiptTyped ==
  ASSUME TypeInv, NEW p \in Proc, DiscardReceipt(p)
  PROVE  TypeInv'
<1>1. job[p] \in InitId \union AmendId
  BY TypeParts, JobOfLabel DEF DiscardReceipt, InitLabels
<1>2. /\ receipts' \in SUBSET receipts /\ upset' \in {upset, TRUE}
      /\ faults' = faults \/ (\E o : Count(o))
      /\ Goto(p, "restore")
  BY TypeParts DEF DiscardReceipt, EnvTyped
<1>3. /\ file' = file /\ journal' = journal /\ UNCHANGED locks /\ job' = job
      /\ UNCHANGED <<mem, todo, failed, mine>> /\ UNCHANGED <<repairs, crashes>>
  BY DEF DiscardReceipt
<1>4. ReceiptsTyped'
  BY <1>2, TypeParts DEF ReceiptsTyped
<1>5. ControlTyped'
  BY <1>1, <1>2, <1>3, TypeParts, MoveTyped, InitLabelsFit DEF InitLabels
<1>6. EnvTyped'
  BY <1>2, <1>3, TypeParts, CountTyped DEF EnvTyped
<1> QED  BY <1>3, <1>4, <1>5, <1>6, TypeParts, TypePartsNext, FilesKept, JournalKept,
            LocksKept, LocalKept

LEMMA RestoreTargetTyped ==
  ASSUME TypeInv, TodoMatches, NEW p \in Proc, RestoreTarget(p)
  PROVE  TypeInv'
<1> DEFINE m == journal[job[p]]
<1>1. job[p] \in Tx
  BY TypeParts, JobOfLabel DEF RestoreTarget, InitLabels
<1>2. IsManifest(m) /\ failed[p] \in BOOLEAN
  BY <1>1, TypeParts DEF LocalTyped, JournalTyped
<1>3. PICK r \in Ref :
        /\ IsLast(r, todo[p])
        /\ todo' = [todo EXCEPT ![p] = @ \ {r}]
        /\ \/ /\ file[r] \notin {m.before[r], m.after[r]}
              /\ failed' = [failed EXCEPT ![p] = TRUE]
              /\ UNCHANGED <<file, faults>>
           \/ /\ file[r] = m.before[r]
              /\ UNCHANGED <<file, failed, faults>>
           \/ /\ file[r] = m.after[r]
              /\ \E o \in Outcomes :
                   /\ file' = IF o = "lost" THEN file ELSE [file EXCEPT ![r] = m.before[r]]
                   /\ failed' = [failed EXCEPT ![p] = @ \/ o = "lost"]
                   /\ Count(o)
  BY DEF RestoreTarget
<1>a. todo[p] \subseteq Targets(m)
  BY DEF TodoMatches, RestoreTarget
<1> HIDE DEF m
<1>4. FilesTyped'
  <2>1. m.before[r] \in Image
    BY <1>2, <1>3, <1>a, ManifestImages DEF IsLast
  <2> QED  BY <1>3, <2>1, TypeParts, FileWritten
<1>5. failed' = failed \/ (\E b \in BOOLEAN : failed' = [failed EXCEPT ![p] = b])
  BY <1>2, <1>3
<1>6. /\ journal' = journal /\ receipts' = receipts /\ UNCHANGED locks /\ pc' = pc /\ job' = job
      /\ mem' = mem /\ mine' = mine /\ UNCHANGED <<repairs, upset, crashes>>
  BY DEF RestoreTarget
<1>7. LocalTyped'
  BY <1>3, <1>5, <1>6, TypeParts, VisitTyped
<1>8. EnvTyped'
  BY <1>3, <1>6, TypeParts, CountTyped DEF EnvTyped
<1>9. ControlTyped'
  BY <1>6, TypeParts DEF ControlTyped, JobsMatch
<1> QED  BY <1>4, <1>6, <1>7, <1>8, <1>9, TypeParts, TypePartsNext, JournalKept, ReceiptsKept,
            LocksKept

LEMMA RecoverInitTyped ==
  ASSUME TypeInv, NEW p \in Proc, NEW t \in InitId \union AmendId, RecoverInit(p, t)
  PROVE  TypeInv'
<1>1. t \in Tx /\ "restore" \in Labels /\ Fits("restore", t)
  BY InitLabelsFit DEF InitLabels
<1>2. /\ file' = file /\ journal' = journal /\ wlock' = wlock
      /\ UNCHANGED <<failed, mine, repairs, faults, crashes>>
      /\ receipts' \in SUBSET receipts /\ upset' \in BOOLEAN
  BY TypeParts DEF RecoverInit, EnvTyped
<1>3. ReceiptsTyped' /\ EnvTyped'
  BY <1>2, TypeParts DEF ReceiptsTyped, EnvTyped
<1>4. CASE UNCHANGED <<flock, pc, job, mem, todo>>
  <2>1. ControlTyped'
    BY <1>4, TypeParts DEF ControlTyped, JobsMatch
  <2>2. LocksTyped' /\ LocalTyped'
    BY <1>2, <1>4, TypeParts, LocksKept, LocalKept DEF locks
  <2> QED  BY <1>2, <1>3, <2>1, <2>2, TypeParts, TypePartsNext, FilesKept, JournalKept
<1>5. CASE /\ flock' = p
           /\ job' = [job EXCEPT ![p] = t]
           /\ mem' = [mem EXCEPT ![p] = journal[t]]
           /\ todo' = [todo EXCEPT ![p] = Targets(journal[t])]
           /\ Goto(p, "restore")
  <2>1. ControlTyped' /\ LocalTyped'
    BY <1>1, <1>2, <1>5, TakeUpTyped
  <2>2. LocksTyped'
    BY <1>2, <1>5, TypeParts DEF LocksTyped
  <2> QED  BY <1>2, <1>3, <2>1, <2>2, TypeParts, TypePartsNext, FilesKept, JournalKept
<1> QED  BY <1>4, <1>5 DEF RecoverInit

LEMMA RepairTyped ==
  ASSUME TypeInv, NEW p \in Proc, Repair(p)
  PROVE  TypeInv'
<1> DEFINE q == ReceiptFor("repair", repairs, [r \in RepairRefs |-> ExpectedImage(r)])
<1>1. RepairRefs \subseteq Ref
  BY TypeParts DEF RepairRefs, Anchored, JournalTyped, IsManifest, Targets, Tx
<1>2. q.op = "repair" /\ DOMAIN q.at \subseteq Ref
  BY <1>1, ReceiptTyped
<1> HIDE DEF q
<1>3. receipts' = receipts \union {q} /\ repairs' = repairs + 1 /\ upset' \in BOOLEAN
  BY TypeParts DEF Repair, q, EnvTyped
<1>4. file' = file /\ journal' = journal /\ UNCHANGED locks /\ UNCHANGED local
      /\ faults' = faults /\ crashes' = crashes
  BY DEF Repair
<1>5. ReceiptsTyped' /\ EnvTyped'
  BY <1>2, <1>3, <1>4, TypeParts DEF ReceiptsTyped, EnvTyped
<1>6. ControlTyped' /\ LocalTyped'
  BY <1>4, TypeParts, LocalKept DEF local, ControlTyped, JobsMatch
<1> QED  BY <1>4, <1>5, <1>6, TypeParts, TypePartsNext, FilesKept, JournalKept, LocksKept

LEMMA ReleaseTyped ==
  ASSUME TypeInv, NEW p \in Proc, Release(p)
  PROVE  TypeInv'
  BY ReturnTyped, TypeParts, EnvKept DEF Release

LEMMA CrashTyped ==
  ASSUME TypeInv, NEW p \in Proc, Crash(p)
  PROVE  TypeInv'
<1>1. EnvTyped' /\ UNCHANGED disk
  BY TypeParts DEF Crash, EnvTyped
<1>2. CASE Return(p)
  BY <1>1, <1>2, ReturnTyped
<1>3. ASSUME flock' = IF flock = p THEN None ELSE flock, Goto(p, "idle"),
             job' = [job EXCEPT ![p] = None], mem' = [mem EXCEPT ![p] = NoManifest],
             todo' = [todo EXCEPT ![p] = {}], failed' = [failed EXCEPT ![p] = FALSE],
             mine' = [mine EXCEPT ![p] = {}], UNCHANGED wlock
      PROVE  TypeInv'
  <2>1. LocalTyped' /\ ControlTyped'
    BY <1>3, DropTyped
  <2>2. LocksTyped'
    BY <1>3, TypeParts DEF LocksTyped
  <2>3. file' = file /\ journal' = journal /\ receipts' = receipts
    BY <1>1 DEF disk
  <2> QED  BY <1>1, <2>1, <2>2, <2>3, TypeParts, TypePartsNext, FilesKept, JournalKept, ReceiptsKept
<1> QED  BY <1>2, <1>3 DEF Crash

LEMMA InitTyped == Init => TypeInv
<1> SUFFICES ASSUME Init PROVE TypeInv
  OBVIOUS
<1>1. FilesTyped
  BY FirstFileAssumption DEF Init, FilesTyped, Image
<1>2. JournalTyped
  BY FirstAssumption DEF Init, JournalTyped
<1>3. StampsBounded
  <2>1. PICK n \in {FirstJournal[c].stamp : c \in CloseId} \union {0} :
          \A c \in CloseId : FirstJournal[c].stamp <= n
    BY FirstAssumption
  <2>2. \A c \in CloseId : FirstJournal[c].stamp \in Nat
    BY FirstAssumption DEF IsManifest, Tx
  <2>3. n \in Nat
    BY <2>1, <2>2
  <2> QED  BY <2>1, <2>3 DEF Init, StampsBounded
<1>4. ReceiptsTyped
  BY FirstAssumption DEF Init, ReceiptsTyped
<1>5. LocksTyped /\ EnvTyped
  BY DEF Init, LocksTyped, EnvTyped
<1>6. LocalTyped
  BY NoManifestTyped DEF Init, LocalTyped
<1>7. ControlTyped
  BY DEF Init, ControlTyped, JobsMatch, Fits, CloseLabels, InitLabels, Labels
<1> QED  BY <1>1, <1>2, <1>3, <1>4, <1>5, <1>6, <1>7, TypeParts

LEMMA NextTyped == TypeInv /\ TodoMatches /\ [Next]_vars => TypeInv'
<1> SUFFICES ASSUME TypeInv, TodoMatches, [Next]_vars PROVE TypeInv'
  OBVIOUS
<1>1. CASE UNCHANGED vars
  <2>1. file' = file /\ journal' = journal /\ receipts' = receipts /\ UNCHANGED locks
    BY <1>1 DEF vars, disk
  <2>2. UNCHANGED local /\ UNCHANGED env
    BY <1>1 DEF vars
  <2>3. ControlTyped' /\ LocalTyped'
    BY <2>2, TypeParts, LocalKept DEF local, ControlTyped, JobsMatch
  <2> QED  BY <2>1, <2>2, <2>3, TypeParts, TypePartsNext, FilesKept, JournalKept, ReceiptsKept,
              LocksKept, EnvKept
<1>2. ASSUME NEW p \in Proc, CloseStep(p)  PROVE TypeInv'
  BY <1>2, LockCloseTyped, BuildManifestTyped, AttachBytesTyped, WriteManifestTyped,
     AttemptTargetTyped, ReplaceTargetTyped, RollbackTargetTyped, LockForRecoveryTyped
     DEF CloseStep
<1>3. ASSUME NEW p \in Proc, InitStep(p)  PROVE TypeInv'
  BY <1>3, AdmissionTyped, InitManifestTyped, AttemptChangeTyped, WriteChangeTyped,
     RecordInitTyped, RefreshStateTyped, DiscardReceiptTyped, RestoreTargetTyped
     DEF InitStep
<1>4. ASSUME NEW p \in Proc, Command(p)  PROVE TypeInv'
  BY <1>4, PlanCloseTyped, ReadForRecoveryTyped, PlanInitTyped, RecoverInitTyped, RepairTyped
     DEF Command, CloseCommand, InitCommand
<1>5. ASSUME NEW p \in Proc, Release(p) \/ Crash(p)  PROVE TypeInv'
  BY <1>5, ReleaseTyped, CrashTyped
<1> QED  BY <1>1, <1>2, <1>3, <1>4, <1>5 DEF Next, Step

-----------------------------------------------------------------------------
(* A step of p leaves the other processes as they are, and, while one of    *)
(* them has the flock, the manifests and receipts too.                      *)

SameLocal(q) ==
  pc'[q] = pc[q] /\ job'[q] = job[q] /\ mem'[q] = mem[q] /\ todo'[q] = todo[q] /\ mine'[q] = mine[q]
SameShared == journal' = journal /\ receipts' = receipts /\ flock' = flock

LEMMA ReturnSame ==
  ASSUME TypeInv, NEW p \in Proc, Return(p)
  PROVE  /\ \A q \in Proc \ {p} : SameLocal(q)
         /\ flock # p => flock' = flock
  BY TypeParts DEF Return, Goto, SameLocal, ControlTyped, LocalTyped

LEMMA PersistSame ==
  ASSUME TypeInv, NEW p \in Proc, NEW m, NEW good, NEW bad, Persist(p, m, good, bad),
         job' = job, mine' = mine, todo' \in {todo, [todo EXCEPT ![p] = todo'[p]]}
  PROVE  \A q \in Proc \ {p} : SameLocal(q)
  BY TypeParts DEF Persist, Goto, SameLocal, ControlTyped, LocalTyped

LEMMA GotoSame ==
  ASSUME TypeInv, NEW p \in Proc, NEW l, Goto(p, l), job' = job, UNCHANGED <<mem, todo, mine>>
  PROVE  \A q \in Proc \ {p} : SameLocal(q)
  BY TypeParts DEF Goto, SameLocal, ControlTyped

LEMMA CloseStepSame ==
  ASSUME TypeInv, NEW p \in Proc, CloseStep(p)
  PROVE  \A q \in Proc \ {p} : SameLocal(q)
<1>1. CASE LockClose(p) \/ BuildManifest(p) \/ LockForRecovery(p)
  <2>1. CASE Return(p)
    BY <2>1, ReturnSame
  <2>2. CASE ~Return(p)
    <3>1. /\ \E l : Goto(p, l)
          /\ job' = job /\ UNCHANGED <<mem, todo, mine>>
      BY <1>1, <2>2 DEF LockClose, BuildManifest, LockForRecovery
    <3> QED  BY <3>1, GotoSame
  <2> QED  BY <2>1, <2>2
<1>2. CASE AttachBytes(p)
  BY <1>2, TypeParts DEF AttachBytes, Goto, SameLocal, ControlTyped, LocalTyped
<1>3. CASE WritePrepared(p) \/ WriteApplying(p) \/ CommitClose(p) \/ FinishRollback(p)
  <2>1. /\ \E m, good, bad : Persist(p, m, good, bad)
        /\ job' = job /\ mine' = mine /\ todo' = todo
    BY <1>3 DEF WritePrepared, WriteApplying, CommitClose, FinishRollback
  <2> QED  BY <2>1, PersistSame
<1>4. CASE AttemptTarget(p)
  <2>1. /\ (\E m, good, bad : Persist(p, m, good, bad)) \/ (\E l : Goto(p, l) /\ mem' = mem)
        /\ job' = job /\ mine' = mine /\ todo' = todo
    BY <1>4 DEF AttemptTarget
  <2> QED  BY <2>1, PersistSame, GotoSame
<1>5. CASE ReplaceTarget(p)
  <2>1. /\ \E l : Goto(p, l)
        /\ job' = job /\ UNCHANGED <<mem, todo, mine>>
    BY <1>5 DEF ReplaceTarget
  <2> QED  BY <2>1, GotoSame
<1>6. CASE RollbackTarget(p)
  BY <1>6, TypeParts DEF RollbackTarget, SameLocal, LocalTyped
<1> QED  BY <1>1, <1>2, <1>3, <1>4, <1>5, <1>6 DEF CloseStep

LEMMA InitStepSame ==
  ASSUME TypeInv, NEW p \in Proc, InitStep(p)
  PROVE  \A q \in Proc \ {p} : SameLocal(q)
<1>1. CASE LockInit(p) \/ AdmitInit(p)
  <2>1. CASE Return(p)
    BY <2>1, ReturnSame
  <2>2. CASE ~Return(p)
    <3>1. /\ \E l : Goto(p, l)
          /\ job' = job /\ UNCHANGED <<mem, todo, mine>>
      BY <1>1, <2>2 DEF LockInit, AdmitInit
    <3> QED  BY <3>1, GotoSame
  <2> QED  BY <2>1, <2>2
<1>2. CASE OpenInit(p)
  <2>1. todo' = [todo EXCEPT ![p] = Targets(mem[p])]
    BY <1>2 DEF OpenInit
  <2>2. /\ \E m, good, bad : Persist(p, m, good, bad)
        /\ job' = job /\ mine' = mine
    BY <1>2 DEF OpenInit
  <2>3. \A q \in Proc \ {p} : todo'[q] = todo[q]
    BY <2>1, TypeParts DEF LocalTyped
  <2> QED  BY <2>2, <2>3, TypeParts DEF Persist, Goto, SameLocal, ControlTyped, LocalTyped
<1>3. CASE StartInit(p) \/ CommitInit(p) \/ FinishRestore(p)
  <2>1. /\ \E m, good, bad : Persist(p, m, good, bad)
        /\ job' = job /\ mine' = mine /\ todo' = todo
    BY <1>3 DEF StartInit, CommitInit, FinishRestore
  <2> QED  BY <2>1, PersistSame
<1>4. CASE AttemptChange(p)
  <2>1. /\ (\E m, good, bad : Persist(p, m, good, bad)) \/ (\E l : Goto(p, l) /\ mem' = mem)
        /\ job' = job /\ mine' = mine /\ todo' = todo
    BY <1>4 DEF AttemptChange
  <2> QED  BY <2>1, PersistSame, GotoSame
<1>5. CASE WriteChange(p) \/ RefreshState(p) \/ DiscardReceipt(p)
  <2>1. /\ \E l : Goto(p, l)
        /\ job' = job /\ UNCHANGED <<mem, todo, mine>>
    BY <1>5 DEF WriteChange, RefreshState, DiscardReceipt
  <2> QED  BY <2>1, GotoSame
<1>6. CASE RecordInit(p)
  <2>1. /\ \E l : Goto(p, l)
        /\ mine' = mine \/ \E v : mine' = [mine EXCEPT ![p] = v]
        /\ job' = job /\ UNCHANGED <<mem, todo>>
    BY <1>6 DEF RecordInit
  <2> QED  BY <2>1, TypeParts DEF Goto, SameLocal, ControlTyped, LocalTyped
<1>7. CASE RestoreTarget(p)
  BY <1>7, TypeParts DEF RestoreTarget, SameLocal, LocalTyped
<1> QED  BY <1>1, <1>2, <1>3, <1>4, <1>5, <1>6, <1>7 DEF InitStep

LEMMA CommandSame ==
  ASSUME TypeInv, NEW p \in Proc, Command(p) \/ Release(p) \/ Crash(p)
  PROVE  \A q \in Proc \ {p} : SameLocal(q)
<1>1. CASE Release(p)
  BY <1>1, ReturnSame DEF Release
<1>2. CASE Crash(p)
  <2>1. CASE Return(p)
    BY <2>1, ReturnSame
  <2>2. CASE ~Return(p)
    BY <1>2, <2>2, TypeParts DEF Crash, Goto, SameLocal, ControlTyped, LocalTyped
  <2> QED  BY <2>1, <2>2
<1>3. ASSUME NEW c \in CloseId, PlanClose(p, c) \/ ReadForRecovery(p, c)
      PROVE  \A q \in Proc \ {p} : SameLocal(q)
  BY <1>3, TypeParts DEF PlanClose, ReadForRecovery, Goto, SameLocal, ControlTyped, LocalTyped
<1>4. ASSUME NEW t \in InitId \union AmendId, PlanInit(p, t) \/ RecoverInit(p, t)
      PROVE  \A q \in Proc \ {p} : SameLocal(q)
  BY <1>4, TypeParts DEF PlanInit, RecoverInit, Goto, SameLocal, ControlTyped, LocalTyped
<1>5. CASE Repair(p)
  BY <1>5 DEF Repair, SameLocal, local
<1> QED  BY <1>1, <1>2, <1>3, <1>4, <1>5 DEF Command, CloseCommand, InitCommand

LEMMA OthersKept ==
  ASSUME TypeInv, NEW p \in Proc, Step(p) \/ Command(p) \/ Crash(p)
  PROVE  \A q \in Proc \ {p} : SameLocal(q)
  BY CloseStepSame, InitStepSame, CommandSame DEF Step

LEMMA SharedKept ==
  ASSUME TypeInv, LockIsHeld, NEW p \in Proc, Step(p) \/ Command(p) \/ Crash(p),
         NEW q \in Proc \ {p}, flock = q
  PROVE  SameShared
<1>1. pc[p] \notin Held /\ flock # None /\ flock # p
  BY TxAssumption DEF LockIsHeld
<1>2. \A r : Return(r) /\ flock # r => flock' = flock
  BY DEF Return
<1>3. CASE CloseStep(p)
  <2>1. pc[p] \in {"planned", "recover"} => SameShared
    BY <1>1, <1>2, <1>3 DEF CloseStep, LockClose, BuildManifest, AttachBytes, WritePrepared,
       WriteApplying, AttemptTarget, ReplaceTarget, CommitClose, RollbackTarget, FinishRollback,
       LockForRecovery, disk, SameShared
  <2>2. pc[p] \in CloseLabels
    BY <1>3 DEF CloseStep, LockClose, BuildManifest, AttachBytes, WritePrepared,
       WriteApplying, AttemptTarget, ReplaceTarget, CommitClose, RollbackTarget, FinishRollback,
       LockForRecovery, CloseLabels
  <2> QED  BY <1>1, <2>1, <2>2 DEF Held, Labels, CloseLabels
<1>4. CASE InitStep(p)
  <2>1. pc[p] = "init" => SameShared
    BY <1>1, <1>2, <1>4 DEF InitStep, LockInit, AdmitInit, OpenInit, StartInit, AttemptChange,
       WriteChange, RecordInit, RefreshState, CommitInit, DiscardReceipt, RestoreTarget,
       FinishRestore, disk, SameShared
  <2>2. pc[p] \in InitLabels
    BY <1>4 DEF InitStep, LockInit, AdmitInit, OpenInit, StartInit, AttemptChange,
       WriteChange, RecordInit, RefreshState, CommitInit, DiscardReceipt, RestoreTarget,
       FinishRestore, InitLabels
  <2> QED  BY <1>1, <2>1, <2>2 DEF Held, Labels, InitLabels
<1>5. CASE Command(p)
  BY <1>1, <1>5 DEF Command, CloseCommand, InitCommand, PlanClose, ReadForRecovery, PlanInit,
     RecoverInit, Repair, disk, locks, SameShared
<1>6. CASE Release(p)
  BY <1>1, <1>6 DEF Release, Held, Labels
<1>7. CASE Crash(p)
  BY <1>1, <1>2, <1>7 DEF Crash, disk, SameShared
<1> QED  BY <1>3, <1>4, <1>5, <1>6, <1>7 DEF Step

-----------------------------------------------------------------------------
(* The lock, and the targets of a rollback.                                 *)

LEMMA OutcomeKinds == \A o \in Outcomes : o \in {"ok", "lost"}
  BY DEF Outcomes

\* What a step from inside the lock does to the lock.
LEMMA LockOwn ==
  ASSUME TypeInv, LockIsHeld, NEW p \in Proc, Step(p) \/ Command(p) \/ Crash(p)
  PROVE  pc'[p] \in Held => flock' = p
<1>1. \A l : Goto(p, l) => pc'[p] = l
  BY TypeParts DEF Goto, ControlTyped
<1>2. Return(p) => pc'[p] = "idle"
  BY <1>1 DEF Return
<1>3. "idle" \notin Held /\ "planned" \notin Held /\ "recover" \notin Held /\ "init" \notin Held
  BY DEF Held
<1>4. \A l \in Labels \ {"idle", "planned", "recover", "init"} : l \in Held
  BY DEF Held
<1>5. pc[p] \in Held => flock = p
  BY DEF LockIsHeld
<1>6. CASE CloseStep(p)
  <2>1. CASE LockClose(p) \/ LockForRecovery(p)
    BY <1>1, <1>2, <1>3, <2>1 DEF LockClose, LockForRecovery
  <2>2. CASE BuildManifest(p)
    BY <1>2, <1>3, <1>4, <1>5, <2>2 DEF BuildManifest, locks, Labels
  <2>3. CASE \/ AttachBytes(p) \/ WritePrepared(p) \/ WriteApplying(p) \/ AttemptTarget(p)
             \/ ReplaceTarget(p) \/ CommitClose(p) \/ RollbackTarget(p) \/ FinishRollback(p)
    <3>1. pc[p] \in {"attach", "prepare", "begin", "next", "replace", "rollback"} /\ UNCHANGED locks
      BY <2>3 DEF AttachBytes, WritePrepared, WriteApplying, AttemptTarget, ReplaceTarget,
         CommitClose, RollbackTarget, FinishRollback
    <3>2. flock' = flock
      BY <3>1 DEF locks
    <3> QED  BY <1>4, <1>5, <3>1, <3>2 DEF Labels
  <2> QED  BY <1>6, <2>1, <2>2, <2>3 DEF CloseStep
<1>7. CASE InitStep(p)
  <2>1. CASE LockInit(p)
    BY <1>1, <1>2, <1>3, <2>1 DEF LockInit
  <2>2. CASE AdmitInit(p)
    BY <1>2, <1>3, <1>4, <1>5, <2>2 DEF AdmitInit, locks, Labels
  <2>3. CASE \/ OpenInit(p) \/ StartInit(p) \/ AttemptChange(p) \/ WriteChange(p)
             \/ RecordInit(p) \/ RefreshState(p) \/ CommitInit(p) \/ DiscardReceipt(p)
             \/ RestoreTarget(p) \/ FinishRestore(p)
    <3>1. /\ pc[p] \in {"open", "start", "change", "write", "record", "register", "refresh",
                        "commit", "undo", "restore"}
          /\ UNCHANGED locks
      BY <2>3 DEF OpenInit, StartInit, AttemptChange, WriteChange, RecordInit, RefreshState,
         CommitInit, DiscardReceipt, RestoreTarget, FinishRestore
    <3>2. flock' = flock
      BY <3>1 DEF locks
    <3> QED  BY <1>4, <1>5, <3>1, <3>2 DEF Labels
  <2> QED  BY <1>7, <2>1, <2>2, <2>3 DEF InitStep
<1>8. CASE Release(p)
  BY <1>2, <1>3, <1>8 DEF Release
<1>9. CASE Crash(p)
  BY <1>1, <1>2, <1>3, <1>9 DEF Crash
<1>10. CASE Command(p)
  BY <1>1, <1>3, <1>10 DEF Command, CloseCommand, InitCommand, PlanClose, ReadForRecovery,
     PlanInit, RecoverInit, Repair, local
<1> QED  BY <1>6, <1>7, <1>8, <1>9, <1>10 DEF Step

LEMMA NextLockIsHeld == TypeInv /\ LockIsHeld /\ [Next]_vars => LockIsHeld'
<1> SUFFICES ASSUME TypeInv, LockIsHeld, [Next]_vars PROVE LockIsHeld'
  OBVIOUS
<1>1. CASE UNCHANGED vars
  BY <1>1 DEF vars, locks, local, LockIsHeld
<1>2. ASSUME NEW p \in Proc, Step(p) \/ Command(p) \/ Crash(p)  PROVE LockIsHeld'
  <2>1. ASSUME NEW q \in Proc \ {p}, pc'[q] \in Held  PROVE flock' = q
    <3>1. pc[q] \in Held
      BY <1>2, <2>1, OthersKept DEF SameLocal
    <3>2. flock = q
      BY <3>1 DEF LockIsHeld
    <3> QED  BY <1>2, <3>2, SharedKept DEF SameShared
  <2> QED  BY <1>2, <2>1, LockOwn DEF LockIsHeld
<1> QED  BY <1>1, <1>2 DEF Next

Undoing == {"start", "change", "write", "record", "refresh", "commit", "register", "undo", "restore"}

\* The manifest of p's transaction keeps its targets.
LEMMA TargetsPersist ==
  ASSUME TypeInv, NEW p \in Proc, job[p] \in Tx, NEW m, NEW good, NEW bad, Persist(p, m, good, bad),
         job' = job, Targets(m) = Targets(journal[job[p]])
  PROVE  Targets(journal'[job'[p]]) = Targets(journal[job[p]])
  BY TypeParts DEF JournalTyped, Persist

LEMMA TodoOwn ==
  ASSUME TypeInv, TodoMatches, NEW p \in Proc, Step(p) \/ Command(p) \/ Crash(p),
         pc'[p] \in Undoing
  PROVE  todo'[p] \subseteq Targets(journal'[job'[p]])
<1>1. \A l : Goto(p, l) => pc'[p] = l
  BY TypeParts DEF Goto, ControlTyped
<1>2. ~Return(p)
  BY <1>1 DEF Return, Undoing
<1>3. pc[p] \in Undoing => todo[p] \subseteq Targets(journal[job[p]])
  BY DEF TodoMatches, Undoing
<1>4. ASSUME pc[p] \in Undoing, journal' = journal, job' = job, todo' = todo
      PROVE  todo'[p] \subseteq Targets(journal'[job'[p]])
  BY <1>3, <1>4
<1>5. CASE CloseStep(p)
  <2>1. \E l \in {"build", "attach", "prepare", "begin", "next", "replace", "rollback", "release"} :
          pc'[p] = l
    BY <1>1, <1>2, <1>5 DEF CloseStep, LockClose, BuildManifest, AttachBytes, WritePrepared,
       WriteApplying, AttemptTarget, ReplaceTarget, CommitClose, RollbackTarget, FinishRollback,
       LockForRecovery, Persist
  <2> QED  BY <2>1 DEF Undoing
<1>6. CASE InitStep(p)
  <2>1. job[p] \in Tx
    BY <1>6, TypeParts, JobOfLabel DEF InitStep, LockInit, AdmitInit, OpenInit, StartInit,
       AttemptChange, WriteChange, RecordInit, RefreshState, CommitInit, DiscardReceipt,
       RestoreTarget, FinishRestore, InitLabels
  <2>2. CASE LockInit(p) \/ AdmitInit(p)
    BY <1>1, <1>2, <2>2 DEF LockInit, AdmitInit, Undoing
  <2>3. CASE OpenInit(p)
    <3> DEFINE m == [mem[p] EXCEPT !.kept = Targets(mem[p])]
    <3>1. PICK o \in Outcomes :
            /\ journal' = IF o = "lost" THEN journal ELSE [journal EXCEPT ![job[p]] = m]
            /\ Goto(p, IF o = "ok" THEN "start" ELSE "release")
      BY <2>3 DEF OpenInit, Persist
    <3>2. o # "lost"
      BY <1>1, <3>1 DEF Undoing
    <3>3. Targets(m) = Targets(mem[p])
      BY TypeParts DEF Targets, LocalTyped, IsManifest, NoManifest
    <3>4. journal'[job'[p]] = m /\ todo'[p] = Targets(mem[p])
      BY <2>1, <2>3, <3>1, <3>2, TypeParts DEF OpenInit, JournalTyped, LocalTyped
    <3> QED  BY <3>3, <3>4
  <2>4. CASE StartInit(p) \/ CommitInit(p) \/ FinishRestore(p)
    <3>1. PICK s, good, bad : Persist(p, [journal[job[p]] EXCEPT !.state = s], good, bad)
      BY <2>4 DEF StartInit, CommitInit, FinishRestore
    <3>2. Targets([journal[job[p]] EXCEPT !.state = s]) = Targets(journal[job[p]])
      BY <2>1, TypeParts DEF Targets, JournalTyped, IsManifest, NoManifest
    <3>3. job' = job /\ todo' = todo /\ pc[p] \in Undoing
      BY <2>4 DEF StartInit, CommitInit, FinishRestore, Undoing
    <3> QED  BY <1>3, <2>1, <3>1, <3>2, <3>3, TargetsPersist
  <2>5. CASE AttemptChange(p)
    <3>1. job' = job /\ todo' = todo /\ pc[p] \in Undoing
      BY <2>5 DEF AttemptChange, Undoing
    <3>2. CASE journal' = journal
      BY <1>4, <3>1, <3>2
    <3>3. CASE journal' # journal
      <4>1. PICK r : Persist(p, [journal[job[p]] EXCEPT !.attempted = @ \union {r}], "write", "undo")
        BY <2>5, <3>3 DEF AttemptChange
      <4>2. Targets([journal[job[p]] EXCEPT !.attempted = @ \union {r}]) = Targets(journal[job[p]])
        BY <2>1, TypeParts DEF Targets, JournalTyped, IsManifest, NoManifest
      <4> QED  BY <1>3, <2>1, <3>1, <4>1, <4>2, TargetsPersist
    <3> QED  BY <3>2, <3>3
  <2>6. CASE WriteChange(p) \/ RecordInit(p) \/ RefreshState(p) \/ DiscardReceipt(p)
    BY <1>4, <2>6 DEF WriteChange, RecordInit, RefreshState, DiscardReceipt, Undoing, disk
  <2>7. CASE RestoreTarget(p)
    <3>1. PICK r \in Ref : todo' = [todo EXCEPT ![p] = @ \ {r}]
      BY <2>7 DEF RestoreTarget
    <3>2. todo'[p] \subseteq todo[p]
      BY <3>1, TypeParts DEF LocalTyped
    <3>3. journal' = journal /\ job' = job /\ pc[p] \in Undoing
      BY <2>7 DEF RestoreTarget, Undoing
    <3> QED  BY <1>3, <3>2, <3>3
  <2> QED  BY <1>6, <2>2, <2>3, <2>4, <2>5, <2>6, <2>7 DEF InitStep
<1>7. CASE Release(p) \/ Crash(p)
  BY <1>1, <1>2, <1>7 DEF Release, Crash, Undoing
<1>8. ASSUME NEW c \in CloseId, PlanClose(p, c) \/ ReadForRecovery(p, c)  PROVE FALSE
  BY <1>1, <1>8 DEF PlanClose, ReadForRecovery, Undoing
<1>9. ASSUME NEW t \in InitId \union AmendId, PlanInit(p, t) \/ RecoverInit(p, t)
      PROVE  todo'[p] \subseteq Targets(journal'[job'[p]])
  BY <1>1, <1>9, TypeParts DEF PlanInit, RecoverInit, Undoing, ControlTyped, LocalTyped
<1>10. CASE Repair(p)
  BY <1>10 DEF Repair, local, Undoing
<1> QED  BY <1>5, <1>6, <1>7, <1>8, <1>9, <1>10 DEF Step, Command, CloseCommand, InitCommand

LEMMA NextTodoMatches == TypeInv /\ LockIsHeld /\ TodoMatches /\ [Next]_vars => TodoMatches'
<1> SUFFICES ASSUME TypeInv, LockIsHeld, TodoMatches, [Next]_vars PROVE TodoMatches'
  OBVIOUS
<1>1. CASE UNCHANGED vars
  BY <1>1 DEF vars, disk, local, TodoMatches
<1>2. ASSUME NEW p \in Proc, Step(p) \/ Command(p) \/ Crash(p)  PROVE TodoMatches'
  <2>1. ASSUME NEW q \in Proc \ {p}, pc'[q] \in Undoing
        PROVE  todo'[q] \subseteq Targets(journal'[job'[q]])
    <3>1. SameLocal(q)
      BY <1>2, OthersKept
    <3>2. pc[q] \in Undoing
      BY <2>1, <3>1 DEF SameLocal
    <3>3. flock = q
      BY <3>2 DEF LockIsHeld, Held, Labels, Undoing
    <3>4. journal' = journal
      BY <1>2, <3>3, SharedKept DEF SameShared
    <3>5. todo[q] \subseteq Targets(journal[job[q]])
      BY <3>2 DEF TodoMatches, Undoing
    <3> QED  BY <3>1, <3>4, <3>5 DEF SameLocal
  <2> QED  BY <1>2, <2>1, TodoOwn DEF TodoMatches, Undoing
<1> QED  BY <1>1, <1>2 DEF Next

-----------------------------------------------------------------------------
(* Type correctness: every action keeps the manifests, receipts, locks and  *)
(* the state of every command well formed, whatever fails or dies where.    *)
THEOREM TypeCorrect == Spec => []TypeOK
<1> DEFINE I == TypeInv /\ LockIsHeld /\ TodoMatches
<1>1. Init => I
  <2> SUFFICES ASSUME Init PROVE I
    OBVIOUS
  <2>1. TypeInv
    BY InitTyped
  <2>2. LockIsHeld /\ TodoMatches
    BY DEF Init, LockIsHeld, Held, TodoMatches
  <2> QED  BY <2>1, <2>2
<1>2. I /\ [Next]_vars => I'
  BY NextTyped, NextLockIsHeld, NextTodoMatches
<1>3. I => TypeOK
  BY DEF TypeInv
<1> QED  BY <1>1, <1>2, <1>3, PTL DEF Spec

-----------------------------------------------------------------------------
(* The chains.                                                              *)

LEMMA HeadIs ==
  ASSUME NEW r, OneLine(r), CommittedFor(r) # {}
  PROVE  /\ HeadsOf(r) = {Head(r)} /\ Head(r) \in CommittedFor(r)
         /\ SuccessorsOf(r, Head(r)) = {} /\ Head(r) \in CloseId
  BY DEF OneLine, Head, HeadsOf, CommittedFor

LEMMA EndIs ==
  ASSUME NEW r, NEW c, OneEnd(r, c), Links(r, c) # {}
  PROVE  /\ Ends(r, c) = {ChainEnd(r, c)} /\ ChainEnd(r, c) \in Links(r, c)
         /\ \A s \in Links(r, c) : ChainEnd(r, c) \notin s.at[r].pred
  BY DEF OneEnd, ChainEnd, Ends

\* Committed manifests that do not change keep their generations.
LEMMA CommittedSame ==
  ASSUME \A c \in CloseId : /\ journal'[c].state = "COMMITTED" <=> journal[c].state = "COMMITTED"
                            /\ journal[c].state = "COMMITTED" => journal'[c] = journal[c],
         NEW r
  PROVE  /\ CommittedFor(r)' = CommittedFor(r) /\ HeadsOf(r)' = HeadsOf(r)
         /\ Head(r)' = Head(r)
         /\ \A c : SuccessorsOf(r, c)' = SuccessorsOf(r, c)
<1>1. CommittedFor(r)' = CommittedFor(r)
  BY DEF CommittedFor
<1>2. \A d \in CommittedFor(r) : journal'[d] = journal[d]
  BY DEF CommittedFor
<1>3. \A c : SuccessorsOf(r, c)' = SuccessorsOf(r, c)
  BY <1>1, <1>2 DEF SuccessorsOf
<1>4. HeadsOf(r)' = HeadsOf(r)
  BY <1>1, <1>3 DEF HeadsOf
<1>5. Head(r)' = Head(r)
  BY <1>4 DEF Head
<1> QED  BY <1>1, <1>3, <1>4, <1>5

LEMMA LinksSame ==
  ASSUME receipts' = receipts, NEW r, NEW c, journal'[c] = journal[c]
  PROVE  /\ Links(r, c)' = Links(r, c) /\ Ends(r, c)' = Ends(r, c)
         /\ Linked(r, c) => Linked(r, c)'
         /\ OneEnd(r, c) => OneEnd(r, c)'
<1>1. Links(r, c)' = Links(r, c)
  BY DEF Links
<1>2. Ends(r, c)' = Ends(r, c)
  BY <1>1 DEF Ends
<1> QED  BY <1>1, <1>2 DEF Linked, OneEnd

LEMMA OrderSame ==
  ASSUME ReceiptsInOrder, receipts' = receipts, repairs' = repairs,
         \A r : CommittedFor(r) \subseteq CommittedFor(r)'
  PROVE  ReceiptsInOrder'
  BY DEF ReceiptsInOrder

(* A manifest that is not committed changes: the chains do not.             *)
LEMMA ChainsSame ==
  ASSUME Chains, receipts' = receipts, Pointers',
         \A c \in CloseId : /\ journal'[c].state = "COMMITTED" <=> journal[c].state = "COMMITTED"
                            /\ journal[c].state = "COMMITTED" => journal'[c] = journal[c]
  PROVE  Chains' /\ \A r : CommittedFor(r)' = CommittedFor(r) /\ Head(r)' = Head(r)
<1>1. ASSUME NEW r \in Ref
      PROVE  /\ OneLine(r)'
             /\ CommittedFor(r)' # {} => (Linked(r, Head(r)) /\ OneEnd(r, Head(r)))'
  <2>1. /\ CommittedFor(r)' = CommittedFor(r) /\ HeadsOf(r)' = HeadsOf(r) /\ Head(r)' = Head(r)
        /\ \A c : SuccessorsOf(r, c)' = SuccessorsOf(r, c)
    BY CommittedSame
  <2>2. OneLine(r)'
    BY <2>1 DEF OneLine, Chains
  <2>3. CASE CommittedFor(r) # {}
    <3>1. PICK h : h = Head(r)
      OBVIOUS
    <3>2. h \in CommittedFor(r) /\ Linked(r, h) /\ OneEnd(r, h)
      BY <2>3, <3>1, HeadIs DEF Chains
    <3>3. journal'[h] = journal[h]
      BY <3>2 DEF CommittedFor
    <3>4. Linked(r, h)' /\ OneEnd(r, h)'
      BY <3>2, <3>3, LinksSame
    <3>5. Head(r)' = h
      BY <2>1, <3>1
    <3> QED  BY <2>2, <3>4, <3>5 DEF Linked, OneEnd
  <2> QED  BY <2>1, <2>2, <2>3
<1> QED  BY <1>1, CommittedSame DEF Chains

(* A close commits on the heads it names: on every file it wrote it is the  *)
(* new head, and nothing hangs on it yet.                                   *)
LEMMA CommitExtends ==
  ASSUME Chains, ReceiptsInOrder, NEW c \in CloseId, NEW m,
         journal[c].state # "COMMITTED", m.state = "COMMITTED", m.lineage = LineageFor(m),
         Targets(m) \subseteq Ref,
         DOMAIN journal = Tx, journal' = [journal EXCEPT ![c] = m],
         receipts' = receipts, repairs' = repairs
  PROVE  Chains' /\ ReceiptsInOrder' /\ \A r : CommittedFor(r) \subseteq CommittedFor(r)'
<1>1. /\ \A d \in CloseId \ {c} : journal'[d] = journal[d]
      /\ journal'[c] = m
  BY DEF Tx
<1>2. ASSUME NEW r
      PROVE  CommittedFor(r)' = IF r \in Targets(m) THEN CommittedFor(r) \union {c} ELSE CommittedFor(r)
  BY <1>1 DEF CommittedFor
<1>3. \A r : c \notin CommittedFor(r)
  BY DEF CommittedFor
<1>4. /\ DOMAIN m.lineage = {r \in Targets(m) : CommittedFor(r) # {}}
      /\ \A r \in DOMAIN m.lineage : m.lineage[r] = Head(r)
  BY DEF LineageFor, Anchored
<1>5. ASSUME NEW r, NEW d
      PROVE  SuccessorsOf(r, d)' =
               SuccessorsOf(r, d) \union (IF r \in Targets(m) /\ CommittedFor(r) # {} /\ d = Head(r)
                                          THEN {c} ELSE {})
  <2>1. ASSUME NEW e
        PROVE  e \in SuccessorsOf(r, d)' <=>
                 \/ e \in SuccessorsOf(r, d)
                 \/ e = c /\ r \in Targets(m) /\ CommittedFor(r) # {} /\ d = Head(r)
    <3>1. CASE e = c
      <4>1. e \in SuccessorsOf(r, d)' <=> r \in Targets(m) /\ r \in DOMAIN m.lineage /\ m.lineage[r] = d
        BY <1>1, <1>2, <1>3, <3>1 DEF SuccessorsOf
      <4>2. e \notin SuccessorsOf(r, d)
        BY <1>3, <3>1 DEF SuccessorsOf
      <4> QED  BY <1>4, <3>1, <4>1, <4>2
    <3>2. CASE e # c
      BY <1>1, <1>2, <3>2 DEF SuccessorsOf, CommittedFor
    <3> QED  BY <3>1, <3>2
  <2> QED  BY <2>1
<1>6. \A r : SuccessorsOf(r, c) = {}
  BY <1>3 DEF SuccessorsOf, CommittedFor, Chains, Pointers
<1>7. Pointers'
  <2>1. ASSUME NEW d \in CloseId, NEW r \in DOMAIN journal'[d].lineage
        PROVE  journal'[d].lineage[r] \in CommittedFor(r)'
    <3>1. CASE d = c
      <4>1. r \in Targets(m) /\ CommittedFor(r) # {} /\ journal'[d].lineage[r] = Head(r)
        BY <1>1, <1>4, <3>1
      <4>2. r \in Ref
        BY <4>1
      <4>3. Head(r) \in CommittedFor(r)
        BY <4>1, <4>2, HeadIs DEF Chains
      <4> QED  BY <1>2, <4>1, <4>3
    <3>2. CASE d # c
      <4>1. journal[d].lineage[r] \in CommittedFor(r)
        BY <1>1, <3>2 DEF Chains, Pointers
      <4> QED  BY <1>1, <1>2, <3>2, <4>1
    <3> QED  BY <3>1, <3>2
  <2> QED  BY <2>1 DEF Pointers
<1>8. ASSUME NEW r \in Ref
      PROVE  /\ OneLine(r)'
             /\ CommittedFor(r)' # {} => (Linked(r, Head(r)) /\ OneEnd(r, Head(r)))'
  <2>1. CASE r \notin Targets(m)
    <3>1. /\ CommittedFor(r)' = CommittedFor(r)
          /\ \A d : SuccessorsOf(r, d)' = SuccessorsOf(r, d)
      BY <1>2, <1>5, <2>1
    <3>2. HeadsOf(r)' = HeadsOf(r)
      BY <3>1 DEF HeadsOf
    <3>3. Head(r)' = Head(r) /\ OneLine(r)'
      BY <3>1, <3>2 DEF Head, OneLine, Chains
    <3>4. CASE CommittedFor(r) # {}
      <4>1. PICK h : h = Head(r)
        OBVIOUS
      <4>2. h \in CommittedFor(r) /\ Linked(r, h) /\ OneEnd(r, h)
        BY <3>4, <4>1, HeadIs DEF Chains
      <4>3. journal'[h] = journal[h]
        BY <1>1, <1>3, <4>2 DEF CommittedFor
      <4>4. Linked(r, h)' /\ OneEnd(r, h)'
        BY <4>2, <4>3, LinksSame
      <4>5. Head(r)' = h
        BY <3>3, <4>1
      <4> QED  BY <3>3, <4>4, <4>5 DEF Linked, OneEnd
    <3> QED  BY <3>1, <3>3, <3>4
  <2>2. CASE r \in Targets(m)
    <3>1. CommittedFor(r)' = CommittedFor(r) \union {c}
      BY <1>2, <2>2
    <3>2. HeadsOf(r)' = {c} /\ \A d \in CommittedFor(r)' : \A e, f \in SuccessorsOf(r, d)' : e = f
      <4>1. CASE CommittedFor(r) = {}
        <5>1. \A d : SuccessorsOf(r, d) = {}
          BY <4>1 DEF SuccessorsOf
        <5>2. \A d : SuccessorsOf(r, d)' = {}
          BY <1>5, <4>1, <5>1
        <5> QED  BY <3>1, <4>1, <5>2 DEF HeadsOf
      <4>2. CASE CommittedFor(r) # {}
        <5>1. /\ HeadsOf(r) = {Head(r)} /\ Head(r) \in CommittedFor(r)
              /\ SuccessorsOf(r, Head(r)) = {} /\ Head(r) # c
          BY <1>3, <4>2, HeadIs DEF Chains
        <5>2. HeadsOf(r)' = {c} /\ \A d \in CommittedFor(r)' : \A e, f \in SuccessorsOf(r, d)' : e = f
          <6>1. PICK h : h = Head(r)
            OBVIOUS
          <6>2. SuccessorsOf(r, h)' = {c} /\ SuccessorsOf(r, c)' = {}
            BY <1>5, <1>6, <2>2, <4>2, <5>1, <6>1
          <6>3. \A d \in CommittedFor(r) \ {h} : SuccessorsOf(r, d)' = SuccessorsOf(r, d)
            BY <1>5, <6>1
          <6>4. \A d \in CommittedFor(r) \ {h} : SuccessorsOf(r, d) # {}
            BY <5>1, <6>1 DEF HeadsOf
          <6>5. HeadsOf(r)' = {c}
            <7>1. ASSUME NEW d PROVE d \in HeadsOf(r)' <=> d = c
              BY <3>1, <5>1, <6>1, <6>2, <6>3, <6>4 DEF HeadsOf
            <7> QED  BY <7>1
          <6>6. \A d \in CommittedFor(r)' : \A e, f \in SuccessorsOf(r, d)' : e = f
            <7>1. ASSUME NEW d \in CommittedFor(r)', NEW e \in SuccessorsOf(r, d)',
                         NEW f \in SuccessorsOf(r, d)'
                  PROVE  e = f
              BY <3>1, <6>2, <6>3 DEF OneLine, Chains
            <7> QED  BY <7>1
          <6> QED  BY <6>5, <6>6
        <5> QED  BY <5>2
      <4> QED  BY <4>1, <4>2
    <3>3. OneLine(r)' /\ Head(r)' = c
      BY <3>2 DEF OneLine, Head
    <3>4. Links(r, c)' = {}
      BY <1>3 DEF Links, ReceiptsInOrder
    <3>5. Linked(r, c)' /\ OneEnd(r, c)'
      BY <3>4 DEF Linked, OneEnd
    <3> QED  BY <3>3, <3>5 DEF Linked, OneEnd
  <2> QED  BY <2>1, <2>2
<1>9. \A r : CommittedFor(r) \subseteq CommittedFor(r)'
  BY <1>2
<1> QED  BY <1>7, <1>8, <1>9, OrderSame DEF Chains

(* A receipt is added where its chain ends.                                 *)
LEMMA ReceiptExtends ==
  ASSUME Chains, ReceiptsInOrder, journal' = journal, NEW q, q \notin receipts,
         receipts' = receipts \union {q},
         \A r \in DOMAIN q.at :
           /\ r \in Ref /\ CommittedFor(r) # {}
           /\ q.at[r].anchor = Head(r) /\ q.at[r].pred = Ends(r, Head(r))
           /\ q.at[r].before = ExpectedImage(r),
         repairs \in Nat, repairs' \in Nat, repairs <= repairs',
         q.op = "repair" /\ q.writer \in Nat => q.writer < repairs'
  PROVE  Chains' /\ ReceiptsInOrder' /\ \A r : CommittedFor(r)' = CommittedFor(r)
<1>1. \A r : /\ CommittedFor(r)' = CommittedFor(r) /\ HeadsOf(r)' = HeadsOf(r)
             /\ Head(r)' = Head(r)
             /\ \A c : SuccessorsOf(r, c)' = SuccessorsOf(r, c)
  BY CommittedSame
<1>2. Pointers'
  BY <1>1 DEF Chains, Pointers
<1>3. ASSUME NEW s \in receipts \union {q}, NEW r \in DOMAIN s.at
      PROVE  s.at[r].pred \subseteq receipts
  <2>1. Ends(r, Head(r)) \subseteq receipts
    BY DEF Ends, Links
  <2> QED  BY <2>1 DEF ReceiptsInOrder
<1>4. ASSUME NEW r \in Ref
      PROVE  /\ OneLine(r)'
             /\ CommittedFor(r)' # {} => (Linked(r, Head(r)) /\ OneEnd(r, Head(r)))'
  <2>1. OneLine(r)'
    BY <1>1 DEF OneLine, Chains
  <2>2. CASE CommittedFor(r) # {}
    <3>1. PICK h : h = Head(r)
      OBVIOUS
    <3>2. h \in CommittedFor(r) /\ Linked(r, h) /\ OneEnd(r, h) /\ Head(r)' = h
      BY <1>1, <2>2, <3>1, HeadIs DEF Chains
    <3>3. Links(r, h)' = Links(r, h) \union (IF r \in DOMAIN q.at THEN {q} ELSE {})
      BY <3>1 DEF Links
    <3>4. Linked(r, h)' /\ OneEnd(r, h)'
      <4>1. CASE r \notin DOMAIN q.at
        <5>1. Links(r, h)' = Links(r, h)
          BY <3>3, <4>1
        <5>2. Ends(r, h)' = Ends(r, h)
          BY <5>1 DEF Ends
        <5> QED  BY <3>2, <5>1, <5>2 DEF Linked, OneEnd
      <4>2. CASE r \in DOMAIN q.at
        <5>1. Links(r, h)' = Links(r, h) \union {q} /\ q \notin Links(r, h)
          BY <3>3, <4>2 DEF Links
        <5>2. q.at[r].pred = Ends(r, h) /\ q.at[r].before = ChainImage(r, h)
          BY <3>1, <4>2 DEF ExpectedImage
        <5>3. \A s \in Links(r, h) \union {q} : q \notin s.at[r].pred
          BY <1>3, <4>2 DEF Links
        <5>4. Ends(r, h)' = {q}
          <6>1. ASSUME NEW x  PROVE x \in Ends(r, h)' <=> x = q
            BY <5>1, <5>2, <5>3 DEF Ends
          <6> QED  BY <6>1
        <5>5. OneEnd(r, h)'
          BY <5>4 DEF OneEnd
        <5>6. CASE Links(r, h) = {}
          <6>1. q.at[r].pred = {} /\ q.at[r].before = journal[h].after[r]
            BY <5>2, <5>6 DEF Ends, ChainImage
          <6>2. Links(r, h)' = {q}
            BY <5>1, <5>6
          <6>3. Linked(r, h)'
            BY <6>1, <6>2 DEF Linked
          <6> QED  BY <5>5, <6>3
        <5>7. CASE Links(r, h) # {}
          <6>1. PICK e \in Links(r, h) : e = ChainEnd(r, h) /\ Ends(r, h) = {e}
            BY <3>2, <5>7, EndIs
          <6>2. q.at[r].pred = {e} /\ q.at[r].before = e.at[r].after
            BY <5>2, <5>7, <6>1 DEF ChainImage
          <6>3. \A s \in Links(r, h) : e \notin s.at[r].pred
            BY <6>1 DEF Ends
          <6>4. \A x \in Links(r, h)' :
                  /\ x.at[r].pred = {} => x.at[r].before = journal'[h].after[r]
                  /\ \A s \in x.at[r].pred : s \in Links(r, h)' /\ s.at[r].after = x.at[r].before
            BY <3>2, <5>1, <6>2 DEF Linked
          <6>5. \A x, s \in Links(r, h)' : x.at[r].pred = s.at[r].pred => x = s
            BY <3>2, <5>1, <6>2, <6>3 DEF Linked
          <6> QED  BY <5>5, <6>4, <6>5 DEF Linked
        <5> QED  BY <5>6, <5>7
      <4> QED  BY <4>1, <4>2
    <3> QED  BY <2>1, <3>2, <3>4 DEF Linked, OneEnd
  <2> QED  BY <1>1, <2>1, <2>2
<1>5. ReceiptsInOrder'
  <2>1. ASSUME NEW s \in receipts', NEW r \in DOMAIN s.at
        PROVE  /\ s.at[r].anchor \in CommittedFor(r)'
               /\ s.at[r].pred \subseteq receipts' /\ \A t, u \in s.at[r].pred : t = u
    <3>1. CASE s \in receipts
      BY <1>1, <3>1 DEF ReceiptsInOrder
    <3>2. CASE s = q
      <4>1. r \in Ref /\ CommittedFor(r) # {} /\ s.at[r].anchor = Head(r) /\ s.at[r].pred = Ends(r, Head(r))
        BY <3>2
      <4>2. Head(r) \in CommittedFor(r) /\ OneEnd(r, Head(r))
        BY <4>1, HeadIs DEF Chains
      <4>3. \A t, u \in Ends(r, Head(r)) : t = u
        BY <4>2 DEF OneEnd, Ends
      <4> QED  BY <1>1, <1>3, <4>1, <4>2, <4>3
    <3> QED  BY <3>1, <3>2
  <2>2. ASSUME NEW Q \in SUBSET receipts', Q # {}
        PROVE  \E x \in Q : \A s \in Q : \A r \in DOMAIN s.at : x \notin s.at[r].pred
    <3>1. CASE q \in Q
      <4>1. \A s \in Q : \A r \in DOMAIN s.at : q \notin s.at[r].pred
        BY <1>3
      <4> QED  BY <3>1, <4>1
    <3>2. CASE q \notin Q
      <4>1. Q \in SUBSET receipts
        BY <3>2
      <4> QED  BY <2>2, <4>1 DEF ReceiptsInOrder
    <3> QED  BY <3>1, <3>2
  <2>3. \A s \in receipts' : s.op = "repair" /\ s.writer \in Nat => s.writer < repairs'
    BY DEF ReceiptsInOrder
  <2> QED  BY <2>1, <2>2, <2>3 DEF ReceiptsInOrder
<1> QED  BY <1>1, <1>2, <1>4, <1>5 DEF Chains

(* Receipts that nothing follows are taken back.                            *)
LEMMA ReceiptsShrink ==
  ASSUME Chains, ReceiptsInOrder, journal' = journal, NEW D \in SUBSET receipts, Unfollowed(D),
         receipts' = receipts \ D, repairs' = repairs
  PROVE  Chains' /\ ReceiptsInOrder' /\ \A r : CommittedFor(r)' = CommittedFor(r)
<1>1. \A r : /\ CommittedFor(r)' = CommittedFor(r) /\ HeadsOf(r)' = HeadsOf(r)
             /\ Head(r)' = Head(r)
             /\ \A c : SuccessorsOf(r, c)' = SuccessorsOf(r, c)
  BY CommittedSame
<1>2. Pointers'
  BY <1>1 DEF Chains, Pointers
<1>3. \A s \in receipts : \A r \in DOMAIN s.at : s.at[r].pred \subseteq receipts'
  BY DEF ReceiptsInOrder, Unfollowed
<1>4. ASSUME NEW r \in Ref
      PROVE  /\ OneLine(r)'
             /\ CommittedFor(r)' # {} => (Linked(r, Head(r)) /\ OneEnd(r, Head(r)))'
  <2>1. OneLine(r)'
    BY <1>1 DEF OneLine, Chains
  <2>2. CASE CommittedFor(r) # {}
    <3>1. PICK h : h = Head(r)
      OBVIOUS
    <3>2. h \in CommittedFor(r) /\ Linked(r, h) /\ OneEnd(r, h) /\ Head(r)' = h
      BY <1>1, <2>2, <3>1, HeadIs DEF Chains
    <3>3. Links(r, h)' = Links(r, h) \ D
      BY DEF Links
    <3>4. Linked(r, h)'
      <4>1. ASSUME NEW x \in Links(r, h)', NEW s \in x.at[r].pred
            PROVE  s \in Links(r, h)' /\ s.at[r].after = x.at[r].before
        <5>1. x \in Links(r, h) /\ s \in Links(r, h) /\ s.at[r].after = x.at[r].before
          BY <3>2, <3>3, <4>1 DEF Linked
        <5>2. s \in receipts'
          BY <1>3, <4>1, <5>1 DEF Links
        <5> QED  BY <3>3, <5>1, <5>2
      <4> QED  BY <3>2, <3>3, <4>1 DEF Linked
    <3>5. OneEnd(r, h)'
      <4>1. CASE D \intersect Links(r, h) = {}
        <5>1. Links(r, h)' = Links(r, h)
          BY <3>3, <4>1
        <5>2. Ends(r, h)' = Ends(r, h)
          BY <5>1 DEF Ends
        <5>3. Ends(r, h)' \subseteq receipts'
          BY DEF Ends, Links
        <5> QED  BY <3>2, <5>1, <5>2, <5>3 DEF OneEnd
      <4>2. CASE D \intersect Links(r, h) # {}
        <5>1. PICK e \in Links(r, h) : Ends(r, h) = {e}
          BY <3>2, <4>2, EndIs
        <5>2. \A d \in D \intersect Links(r, h) : d = e
          <6>1. \A d \in D \intersect Links(r, h) : d \in Ends(r, h)
            BY DEF Unfollowed, Ends, Links
          <6> QED  BY <5>1, <6>1
        <5>3. Links(r, h)' = Links(r, h) \ {e}
          BY <3>3, <4>2, <5>2
        <5>4. ASSUME Links(r, h)' # {}  PROVE \E x \in receipts' : Ends(r, h)' = {x}
          <6>1. Links(r, h)' \in SUBSET receipts
            BY <3>3 DEF Links
          <6>2. PICK x \in Links(r, h)' : \A s \in Links(r, h)' : x \notin s.at[r].pred
            <7>1. PICK x \in Links(r, h)' :
                    \A s \in Links(r, h)' : \A u \in DOMAIN s.at : x \notin s.at[u].pred
              BY <5>4, <6>1 DEF ReceiptsInOrder
            <7>2. \A s \in Links(r, h)' : r \in DOMAIN s.at
              BY DEF Links
            <7> QED  BY <7>1, <7>2
          <6>3. \A y \in Links(r, h)' : (\A s \in Links(r, h)' : y \notin s.at[r].pred) => y \in e.at[r].pred
            BY <5>1, <5>3 DEF Ends
          <6>4. \A y \in e.at[r].pred : y = x
            BY <5>1, <6>2, <6>3 DEF ReceiptsInOrder, Links
          <6>5. Ends(r, h)' = {x}
            <7>1. ASSUME NEW y  PROVE y \in Ends(r, h)' <=> y = x
              BY <6>2, <6>3, <6>4 DEF Ends
            <7> QED  BY <7>1
          <6>6. x \in receipts'
            BY <6>2 DEF Links
          <6> QED  BY <6>5, <6>6
        <5> QED  BY <5>4 DEF OneEnd
      <4> QED  BY <4>1, <4>2
    <3> QED  BY <2>1, <3>2, <3>4, <3>5 DEF Linked, OneEnd
  <2> QED  BY <1>1, <2>1, <2>2
<1>5. ReceiptsInOrder'
  <2>1. \A s \in receipts' : \A r \in DOMAIN s.at :
          /\ s.at[r].anchor \in CommittedFor(r)'
          /\ s.at[r].pred \subseteq receipts' /\ \A t, u \in s.at[r].pred : t = u
    BY <1>1, <1>3 DEF ReceiptsInOrder
  <2>2. ASSUME NEW Q \in SUBSET receipts', Q # {}
        PROVE  \E x \in Q : \A s \in Q : \A r \in DOMAIN s.at : x \notin s.at[r].pred
    <3>1. Q \in SUBSET receipts
      OBVIOUS
    <3> QED  BY <2>2, <3>1 DEF ReceiptsInOrder
  <2>4. \A s \in receipts' : s.op = "repair" /\ s.writer \in Nat => s.writer < repairs'
    BY DEF ReceiptsInOrder
  <2> QED  BY <2>1, <2>2, <2>4 DEF ReceiptsInOrder
<1> QED  BY <1>1, <1>2, <1>4, <1>5 DEF Chains

-----------------------------------------------------------------------------
(* What each step does to the chains, and to what its process knows.        *)

ChainsGo == Chains' /\ ReceiptsInOrder' /\ \A r : CommittedFor(r) \subseteq CommittedFor(r)'

\* No manifest or receipt changes.
LEMMA ChainsIdle ==
  ASSUME Chains, ReceiptsInOrder, journal' = journal, receipts' = receipts, repairs' = repairs
  PROVE  /\ ChainsGo
         /\ \A r : CommittedFor(r)' = CommittedFor(r) /\ Head(r)' = Head(r)
         /\ \A m : LineageFor(m)' = LineageFor(m)
<1>1. \A r : CommittedFor(r)' = CommittedFor(r) /\ Head(r)' = Head(r)
  BY CommittedSame
<1>2. Pointers'
  BY <1>1 DEF Chains, Pointers
<1>3. Chains'
  BY <1>2, ChainsSame
<1>4. ReceiptsInOrder'
  BY <1>1, OrderSame
<1>5. \A m : LineageFor(m)' = LineageFor(m)
  BY <1>1 DEF LineageFor, Anchored
<1> QED  BY <1>1, <1>3, <1>4, <1>5 DEF ChainsGo

\* A manifest changes that is not a committed close's, and does not become one.
LEMMA ChainsEdit ==
  ASSUME Chains, ReceiptsInOrder, DOMAIN journal = Tx, NEW t \in Tx, NEW m,
         journal' = journal \/ journal' = [journal EXCEPT ![t] = m],
         t \in CloseId => /\ journal[t].state # "COMMITTED" /\ m.state # "COMMITTED"
                          /\ \A r \in DOMAIN m.lineage : m.lineage[r] \in CommittedFor(r),
         receipts' = receipts, repairs' = repairs
  PROVE  /\ ChainsGo
         /\ \A r : CommittedFor(r)' = CommittedFor(r) /\ Head(r)' = Head(r)
         /\ \A n : LineageFor(n)' = LineageFor(n)
<1>1. \A c \in CloseId : journal'[c] = journal[c] \/ (c = t /\ journal'[c] = m)
  BY DEF Tx
<1>2. \A c \in CloseId : /\ journal'[c].state = "COMMITTED" <=> journal[c].state = "COMMITTED"
                         /\ journal[c].state = "COMMITTED" => journal'[c] = journal[c]
  BY <1>1
<1>3. \A r : CommittedFor(r)' = CommittedFor(r) /\ Head(r)' = Head(r)
  BY <1>2, CommittedSame
<1>4. Pointers'
  BY <1>1, <1>3 DEF Chains, Pointers
<1>5. Chains'
  BY <1>2, <1>4, ChainsSame
<1>6. ReceiptsInOrder'
  BY <1>3, OrderSame
<1>7. \A n : LineageFor(n)' = LineageFor(n)
  BY <1>3 DEF LineageFor, Anchored
<1> QED  BY <1>3, <1>5, <1>6, <1>7 DEF ChainsGo

\* Targets decide a lineage.
LEMMA LineageOfTargets ==
  ASSUME NEW m, NEW n, Targets(m) = Targets(n)
  PROVE  LineageFor(m) = LineageFor(n)
  BY DEF LineageFor

\* A process that is not at a close's label, and holds no receipt, knows nothing.
LEMMA KnowsNothing ==
  ASSUME NEW p \in Proc, pc'[p] \notin CloseLabels
  PROVE  Prepared(p)'
  BY DEF Prepared, CloseLabels

LEMMA ReturnKnows ==
  ASSUME TypeInv, NEW p \in Proc, Return(p)
  PROVE  Prepared(p)' /\ Registered(p)'
<1>1. pc'[p] = "idle" /\ mine'[p] = {}
  BY TypeParts DEF Return, Goto, ControlTyped, LocalTyped
<1> QED  BY <1>1 DEF Prepared, Registered, CloseLabels

\* No close holds a receipt.
LEMMA CloseHoldsNone ==
  ASSUME NEW p \in Proc, Registered(p), mine' = mine,
         pc[p] \notin {"refresh", "commit", "undo", "restore", "release"}
  PROVE  mine[p] = {} /\ Registered(p)'
  BY DEF Registered

Steady(p) == Chains /\ ReceiptsInOrder /\ Prepared(p) /\ Registered(p)
Lasts(p) == ChainsGo /\ Prepared(p)' /\ Registered(p)'

LEMMA PlanCloseLasts ==
  ASSUME TypeInv, NEW p \in Proc, Steady(p), NEW c \in CloseId, PlanClose(p, c)
  PROVE  Lasts(p)
<1> DEFINE m == [PlanFor(c) EXCEPT !.lineage = LineageFor(PlanFor(c))]
<1>1. /\ IsManifest(PlanFor(c)) /\ PlanFor(c).state = "PREPARED"
  BY PlanTyped, CloseLabelsFit DEF PlanClose, TypeInv
<1>2. m.lineage = LineageFor(PlanFor(c)) /\ m.state = "PREPARED"
  BY <1>1 DEF IsManifest, NoManifest
<1>3. \A r \in DOMAIN m.lineage : m.lineage[r] \in CommittedFor(r)
  <2>1. ASSUME NEW r \in DOMAIN m.lineage
        PROVE  m.lineage[r] \in CommittedFor(r)
    <3>1. r \in Targets(PlanFor(c)) /\ CommittedFor(r) # {} /\ m.lineage[r] = Head(r)
      BY <1>2, <2>1 DEF LineageFor, Anchored
    <3>2. r \in Ref
      BY <1>1, <3>1 DEF IsManifest, Targets
    <3> QED  BY <3>1, <3>2, HeadIs DEF Steady, Chains
  <2> QED  BY <2>1
<1>4. pc'[p] = "planned" /\ mem'[p] = m
  BY TypeParts DEF PlanClose, Goto, ControlTyped, LocalTyped
<1> HIDE DEF m
<1>5. journal' = journal /\ receipts' = receipts /\ repairs' = repairs /\ mine' = mine
  BY DEF PlanClose, disk, env
<1>6. ChainsGo /\ \A r : CommittedFor(r)' = CommittedFor(r)
  BY <1>5, ChainsIdle DEF Steady
<1>7. Prepared(p)'
  BY <1>2, <1>3, <1>4, <1>6 DEF Prepared
<1>8. Registered(p)'
  BY <1>5, CloseHoldsNone DEF PlanClose, Steady
<1> QED  BY <1>6, <1>7, <1>8 DEF Lasts

LEMMA LockCloseLasts ==
  ASSUME TypeInv, NEW p \in Proc, Steady(p), LockClose(p)
  PROVE  Lasts(p)
<1>1. journal' = journal /\ receipts' = receipts /\ repairs' = repairs
  BY DEF LockClose, disk, env
<1>2. ChainsGo /\ \A r : CommittedFor(r)' = CommittedFor(r)
  BY <1>1, ChainsIdle DEF Steady
<1>3. CASE Return(p)
  BY <1>2, <1>3, ReturnKnows DEF Lasts
<1>4. CASE ~Return(p)
  <2>1. ~Exists(job[p]) /\ Goto(p, "build") /\ job' = job /\ mem' = mem /\ mine' = mine
    BY <1>4 DEF LockClose
  <2>2. pc'[p] = "build"
    BY <2>1, TypeParts DEF Goto, ControlTyped
  <2>3. journal[job[p]].state # "COMMITTED"
    BY <2>1 DEF Exists, NoManifest
  <2>4. Registered(p)'
    BY <2>1, CloseHoldsNone DEF LockClose, Steady
  <2>5. Prepared(p)'
    BY <1>1, <1>2, <2>1, <2>2, <2>3 DEF Prepared, Steady, LockClose, CloseLabels
  <2> QED  BY <1>2, <2>4, <2>5 DEF Lasts
<1> QED  BY <1>3, <1>4

LEMMA BuildManifestLasts ==
  ASSUME TypeInv, NEW p \in Proc, Steady(p), BuildManifest(p)
  PROVE  Lasts(p)
<1>1. journal' = journal /\ receipts' = receipts /\ repairs' = repairs
  BY DEF BuildManifest, disk, env
<1>2. /\ ChainsGo /\ \A r : CommittedFor(r)' = CommittedFor(r)
      /\ \A m : LineageFor(m)' = LineageFor(m)
  BY <1>1, ChainsIdle DEF Steady
<1>3. CASE Return(p)
  BY <1>2, <1>3, ReturnKnows DEF Lasts
<1>4. CASE ~Return(p)
  <2>1. /\ LineageFor(mem[p]) = mem[p].lineage /\ Goto(p, "attach")
        /\ job' = job /\ mem' = mem /\ mine' = mine /\ pc[p] = "build"
    BY <1>4 DEF BuildManifest
  <2>2. pc'[p] = "attach"
    BY <2>1, TypeParts DEF Goto, ControlTyped
  <2>3. Registered(p)'
    BY <2>1, CloseHoldsNone DEF Steady
  <2>4. PICK n : n = mem[p]
    OBVIOUS
  <2>5. LineageFor(n)' = n.lineage /\ mem'[p] = n
    BY <1>2, <2>1, <2>4
  <2>6. LineageFor(mem[p])' = mem'[p].lineage
    BY <2>4, <2>5, <2>1, <1>2 DEF LineageFor, Anchored
  <2>7. Prepared(p)'
    BY <1>1, <1>2, <2>1, <2>2, <2>6 DEF Prepared, Steady, CloseLabels
  <2> QED  BY <1>2, <2>3, <2>7 DEF Lasts
<1> QED  BY <1>3, <1>4

LEMMA AttachBytesLasts ==
  ASSUME TypeInv, NEW p \in Proc, Steady(p), AttachBytes(p)
  PROVE  Lasts(p)
<1>1. journal' = journal /\ receipts' = receipts /\ repairs' = repairs /\ mine' = mine /\ job' = job
  BY DEF AttachBytes, disk, env
<1>2. /\ ChainsGo /\ \A r : CommittedFor(r)' = CommittedFor(r)
      /\ \A m : LineageFor(m)' = LineageFor(m)
  BY <1>1, ChainsIdle DEF Steady
<1>3. PICK k : mem' = [mem EXCEPT ![p] = [mem[p] EXCEPT !.kept = k]]
  BY DEF AttachBytes
<1>4. PICK n : n = [mem[p] EXCEPT !.kept = k]
  OBVIOUS
<1>5. n.state = mem[p].state /\ n.lineage = mem[p].lineage /\ Targets(n) = Targets(mem[p])
  BY <1>4, TypeParts DEF LocalTyped, IsManifest, NoManifest, Targets
<1>6. pc'[p] \in {"prepare", "rollback"} /\ mem'[p] = n
  BY <1>3, <1>4, TypeParts DEF AttachBytes, Goto, ControlTyped, LocalTyped
<1>7. n.lineage = LineageFor(n) /\ n.state = "PREPARED"
      /\ (\A r \in DOMAIN n.lineage : n.lineage[r] \in CommittedFor(r))
      /\ journal[job[p]].state # "COMMITTED"
  BY <1>5, LineageOfTargets DEF Steady, Prepared, AttachBytes, CloseLabels
<1>8. LineageFor(mem[p])' = n.lineage
  <2>1. LineageFor(n)' = n.lineage
    BY <1>2, <1>7
  <2> QED  BY <1>6, <2>1 DEF LineageFor
<1>9. Prepared(p)'
  BY <1>1, <1>2, <1>6, <1>7, <1>8 DEF Prepared, CloseLabels
<1>10. Registered(p)'
  BY <1>1, CloseHoldsNone DEF AttachBytes, Steady
<1> QED  BY <1>2, <1>9, <1>10 DEF Lasts

\* A close that is not committed persists its manifest, uncommitted.
LEMMA CloseEdits ==
  ASSUME TypeInv, NEW p \in Proc, Steady(p), pc[p] \in CloseLabels \ {"planned", "recover"},
         NEW m, NEW good, NEW bad, Persist(p, m, good, bad), m.state # "COMMITTED",
         m.lineage = mem[p].lineage, Targets(m) = Targets(mem[p]),
         receipts' = receipts, repairs' = repairs, job' = job, mine' = mine
  PROVE  /\ ChainsGo /\ Registered(p)' /\ pc'[p] \in {good, bad} /\ mem'[p] = m
         /\ journal'[job'[p]].state # "COMMITTED"
         /\ \A r \in DOMAIN m.lineage : m.lineage[r] \in CommittedFor(r)'
         /\ mem[p].lineage = LineageFor(mem[p]) => m.lineage = LineageFor(mem[p])'
<1>1. job[p] \in CloseId /\ job[p] \in Tx
  BY TypeParts, JobOfLabel
<1>2. journal[job[p]].state # "COMMITTED" /\ \A r \in DOMAIN m.lineage : m.lineage[r] \in CommittedFor(r)
  BY DEF Steady, Prepared
<1>3. journal' = journal \/ journal' = [journal EXCEPT ![job[p]] = m]
  BY DEF Persist
<1>4. /\ ChainsGo
      /\ \A r : CommittedFor(r)' = CommittedFor(r) /\ Head(r)' = Head(r)
      /\ \A n : LineageFor(n)' = LineageFor(n)
  BY <1>1, <1>2, <1>3, TypeParts, ChainsEdit DEF Steady, JournalTyped
<1>5. pc'[p] \in {good, bad} /\ mem'[p] = m
  BY TypeParts DEF Persist, Goto, ControlTyped, LocalTyped
<1>6. journal'[job'[p]].state # "COMMITTED"
  BY <1>1, <1>2, <1>3, TypeParts DEF JournalTyped
<1>7. Registered(p)'
  <2>1. pc[p] \notin {"refresh", "commit", "undo", "restore", "release"}
    BY DEF CloseLabels
  <2> QED  BY <2>1, CloseHoldsNone DEF Steady
<1>8. ASSUME mem[p].lineage = LineageFor(mem[p])
      PROVE  m.lineage = LineageFor(mem[p])'
  <2>1. m.lineage = LineageFor(m)
    BY <1>8, LineageOfTargets
  <2>2. LineageFor(m)' = m.lineage
    BY <1>4, <2>1
  <2> QED  BY <1>5, <2>2 DEF LineageFor
<1> QED  BY <1>2, <1>4, <1>5, <1>6, <1>7, <1>8

LEMMA WriteManifestLasts ==
  ASSUME TypeInv, NEW p \in Proc, Steady(p),
         WritePrepared(p) \/ WriteApplying(p) \/ FinishRollback(p)
  PROVE  Lasts(p)
<1>1. receipts' = receipts /\ repairs' = repairs /\ job' = job /\ mine' = mine
  BY DEF WritePrepared, WriteApplying, FinishRollback
<1>2. DOMAIN mem[p] = DOMAIN NoManifest
  BY TypeParts DEF LocalTyped, IsManifest
<1>3. CASE WritePrepared(p)
  <2>1. /\ pc[p] = "prepare" /\ mem[p].state = "PREPARED" /\ mem[p].lineage = LineageFor(mem[p])
        /\ Persist(p, mem[p], "begin", "rollback")
    BY <1>3 DEF WritePrepared, Steady, Prepared
  <2>2. /\ ChainsGo /\ Registered(p)' /\ pc'[p] \in {"begin", "rollback"} /\ mem'[p] = mem[p]
        /\ journal'[job'[p]].state # "COMMITTED"
        /\ \A r \in DOMAIN mem[p].lineage : mem[p].lineage[r] \in CommittedFor(r)'
        /\ mem[p].lineage = LineageFor(mem[p])'
    BY <1>1, <2>1, CloseEdits DEF CloseLabels
  <2>3. Prepared(p)'
    BY <2>1, <2>2 DEF Prepared
  <2> QED  BY <2>2, <2>3 DEF Lasts
<1>4. CASE WriteApplying(p)
  <2>1. PICK m : m = [mem[p] EXCEPT !.state = "APPLYING"]
    OBVIOUS
  <2>2. m.state = "APPLYING" /\ m.lineage = mem[p].lineage /\ Targets(m) = Targets(mem[p])
    BY <1>2, <2>1 DEF NoManifest, Targets
  <2>3. pc[p] = "begin" /\ mem[p].lineage = LineageFor(mem[p]) /\ Persist(p, m, "next", "rollback")
    BY <1>4, <2>1 DEF WriteApplying, Steady, Prepared
  <2>4. /\ ChainsGo /\ Registered(p)' /\ pc'[p] \in {"next", "rollback"} /\ mem'[p] = m
        /\ journal'[job'[p]].state # "COMMITTED"
        /\ \A r \in DOMAIN m.lineage : m.lineage[r] \in CommittedFor(r)'
        /\ m.lineage = LineageFor(mem[p])'
    BY <1>1, <2>2, <2>3, CloseEdits DEF CloseLabels
  <2>5. Prepared(p)'
    BY <2>2, <2>4 DEF Prepared
  <2> QED  BY <2>4, <2>5 DEF Lasts
<1>5. CASE FinishRollback(p)
  <2>1. PICK m : m = IF failed[p] THEN [mem[p] EXCEPT !.state = "PARTIAL"]
                     ELSE [mem[p] EXCEPT !.state = "RECOVERED",
                                         !.stamp = LastStamp(CloseId \ {job[p]}) + 1]
    OBVIOUS
  <2>2. m.state # "COMMITTED" /\ m.lineage = mem[p].lineage /\ Targets(m) = Targets(mem[p])
    BY <1>2, <2>1 DEF NoManifest, Targets
  <2>3. pc[p] = "rollback" /\ Persist(p, m, "release", "release")
    BY <1>5, <2>1 DEF FinishRollback
  <2>4. ChainsGo /\ Registered(p)' /\ pc'[p] = "release"
    BY <1>1, <2>2, <2>3, CloseEdits DEF CloseLabels
  <2> QED  BY <2>4, KnowsNothing DEF Lasts, CloseLabels
<1> QED  BY <1>3, <1>4, <1>5

LEMMA AttemptTargetLasts ==
  ASSUME TypeInv, NEW p \in Proc, Steady(p), AttemptTarget(p)
  PROVE  Lasts(p)
<1>1. /\ receipts' = receipts /\ repairs' = repairs /\ job' = job /\ mine' = mine /\ pc[p] = "next"
      /\ mem[p].state = "APPLYING" /\ mem[p].lineage = LineageFor(mem[p])
      /\ journal[job[p]].state # "COMMITTED"
  BY DEF AttemptTarget, Steady, Prepared, CloseLabels
<1>2. DOMAIN mem[p] = DOMAIN NoManifest
  BY TypeParts DEF LocalTyped, IsManifest
<1>3. ASSUME NEW r, Persist(p, [mem[p] EXCEPT !.attempted = @ \union {r}], "replace", "rollback")
      PROVE  Lasts(p)
  <2>1. PICK m : m = [mem[p] EXCEPT !.attempted = @ \union {r}]
    OBVIOUS
  <2>2. m.state = "APPLYING" /\ m.lineage = mem[p].lineage /\ Targets(m) = Targets(mem[p])
    BY <1>1, <1>2, <2>1 DEF NoManifest, Targets
  <2>3. Persist(p, m, "replace", "rollback")
    BY <1>3, <2>1
  <2>4. /\ ChainsGo /\ Registered(p)' /\ pc'[p] \in {"replace", "rollback"} /\ mem'[p] = m
        /\ journal'[job'[p]].state # "COMMITTED"
        /\ \A s \in DOMAIN m.lineage : m.lineage[s] \in CommittedFor(s)'
        /\ m.lineage = LineageFor(mem[p])'
    BY <1>1, <2>2, <2>3, CloseEdits DEF CloseLabels
  <2>5. Prepared(p)'
    BY <2>2, <2>4 DEF Prepared
  <2> QED  BY <2>4, <2>5 DEF Lasts
<1>4. ASSUME Goto(p, "rollback"), UNCHANGED <<journal, mem, faults>>
      PROVE  Lasts(p)
  <2>1. pc'[p] = "rollback" /\ mem' = mem /\ journal' = journal
    BY <1>4, TypeParts DEF Goto, ControlTyped
  <2>2. ChainsGo /\ \A r : CommittedFor(r)' = CommittedFor(r)
    BY <1>1, <2>1, ChainsIdle DEF Steady
  <2>3. Prepared(p)'
    BY <1>1, <2>1, <2>2 DEF Prepared, Steady, CloseLabels
  <2>4. Registered(p)'
    BY <1>1, CloseHoldsNone DEF Steady
  <2> QED  BY <2>2, <2>3, <2>4 DEF Lasts
<1> QED  BY <1>3, <1>4 DEF AttemptTarget

LEMMA ReplaceTargetLasts ==
  ASSUME TypeInv, NEW p \in Proc, Steady(p), ReplaceTarget(p) \/ RollbackTarget(p)
  PROVE  Lasts(p)
<1>1. /\ journal' = journal /\ receipts' = receipts /\ repairs' = repairs /\ job' = job
      /\ mine' = mine /\ mem' = mem
  BY DEF ReplaceTarget, RollbackTarget
<1>2. /\ ChainsGo /\ \A r : CommittedFor(r)' = CommittedFor(r)
      /\ \A m : LineageFor(m)' = LineageFor(m)
  BY <1>1, ChainsIdle DEF Steady
<1>3. CASE ReplaceTarget(p)
  <2>1. pc[p] = "replace" /\ pc'[p] \in {"next", "rollback"}
    BY <1>3, TypeParts DEF ReplaceTarget, Goto, ControlTyped
  <2>2. PICK n : n = mem[p]
    OBVIOUS
  <2>3. LineageFor(n)' = n.lineage
    BY <1>2, <2>1, <2>2 DEF Steady, Prepared
  <2>4. LineageFor(mem[p])' = mem[p].lineage
    BY <1>1, <2>2, <2>3 DEF LineageFor
  <2>5. Prepared(p)'
    BY <1>1, <1>2, <2>1, <2>4 DEF Prepared, Steady, CloseLabels
  <2>6. Registered(p)'
    BY <1>1, <2>1, CloseHoldsNone DEF Steady
  <2> QED  BY <1>2, <2>5, <2>6 DEF Lasts
<1>4. CASE RollbackTarget(p)
  <2>1. pc[p] = "rollback" /\ pc' = pc
    BY <1>4 DEF RollbackTarget
  <2>2. Prepared(p)'
    BY <1>1, <1>2, <2>1 DEF Prepared, Steady, CloseLabels
  <2>3. Registered(p)'
    BY <1>1, <2>1, CloseHoldsNone DEF Steady
  <2> QED  BY <1>2, <2>2, <2>3 DEF Lasts
<1> QED  BY <1>3, <1>4

\* The commit of a close extends the chains of its files.
LEMMA CommitCloseLasts ==
  ASSUME TypeInv, NEW p \in Proc, Steady(p), CommitClose(p)
  PROVE  Lasts(p)
<1>1. /\ receipts' = receipts /\ repairs' = repairs /\ job' = job /\ mine' = mine /\ pc[p] = "next"
      /\ mem[p].lineage = LineageFor(mem[p])
      /\ journal[job[p]].state # "COMMITTED"
  BY DEF CommitClose, Steady, Prepared, CloseLabels
<1>2. job[p] \in CloseId
  BY <1>1, TypeParts, JobOfLabel DEF CloseLabels
<1>3. IsManifest(mem[p])
  BY TypeParts DEF LocalTyped
<1>4. PICK m : m = [mem[p] EXCEPT !.state = "COMMITTED"]
  OBVIOUS
<1>5. m.state = "COMMITTED" /\ m.lineage = mem[p].lineage /\ Targets(m) = Targets(mem[p])
  BY <1>3, <1>4 DEF IsManifest, NoManifest, Targets
<1>6. m.lineage = LineageFor(m) /\ Targets(m) \subseteq Ref
  BY <1>1, <1>3, <1>5, LineageOfTargets DEF IsManifest, Targets
<1>7. PICK o \in Outcomes :
        /\ journal' = IF o = "lost" THEN journal ELSE [journal EXCEPT ![job[p]] = m]
        /\ Goto(p, IF o = "ok" THEN "release" ELSE "rollback")
        /\ mem' = [mem EXCEPT ![p] = m]
  BY <1>4 DEF CommitClose, Persist
<1>8. Registered(p)'
  BY <1>1, CloseHoldsNone DEF Steady
<1>9. CASE o = "lost"
  <2>1. journal' = journal /\ pc'[p] = "rollback" /\ mem'[p] = m
    BY <1>7, <1>9, TypeParts DEF Goto, ControlTyped, LocalTyped
  <2>2. ChainsGo /\ \A r : CommittedFor(r)' = CommittedFor(r)
    BY <1>1, <2>1, ChainsIdle DEF Steady
  <2>3. Prepared(p)'
    BY <1>1, <1>5, <2>1, <2>2 DEF Prepared, Steady, CloseLabels
  <2> QED  BY <1>8, <2>2, <2>3 DEF Lasts
<1>10. CASE o # "lost"
  <2>1. o = "ok"
    BY <1>10, OutcomeKinds
  <2>2. journal' = [journal EXCEPT ![job[p]] = m] /\ pc'[p] = "release"
    BY <1>7, <1>10, <2>1, TypeParts DEF Goto, ControlTyped
  <2>3. ChainsGo
    BY <1>1, <1>2, <1>5, <1>6, <2>2, TypeParts, CommitExtends DEF Steady, ChainsGo, JournalTyped
  <2> QED  BY <1>8, <2>2, <2>3, KnowsNothing DEF Lasts, CloseLabels
<1> QED  BY <1>9, <1>10

LEMMA RecoveryLasts ==
  ASSUME TypeInv, NEW p \in Proc, Steady(p), ~upset',
         (\E c \in CloseId : ReadForRecovery(p, c)) \/ LockForRecovery(p)
  PROVE  Lasts(p)
<1>1. journal' = journal /\ receipts' = receipts /\ repairs' = repairs
  BY DEF ReadForRecovery, LockForRecovery, disk, env
<1>2. ChainsGo /\ \A r : CommittedFor(r)' = CommittedFor(r)
  BY <1>1, ChainsIdle DEF Steady
<1>3. ASSUME NEW c \in CloseId, ReadForRecovery(p, c)
      PROVE  Lasts(p)
  <2>1. pc'[p] = "recover" /\ mem'[p] = journal[c] /\ mine' = mine /\ pc[p] = "idle"
    BY <1>3, TypeParts DEF ReadForRecovery, Goto, ControlTyped, LocalTyped
  <2>2. Prepared(p)'
    BY <1>2, <2>1 DEF Prepared, Steady, Chains, Pointers
  <2>3. Registered(p)'
    BY <2>1, CloseHoldsNone DEF Steady
  <2> QED  BY <1>2, <2>2, <2>3 DEF Lasts
<1>4. CASE LockForRecovery(p)
  <2>1. CASE Return(p)
    BY <1>2, <2>1, ReturnKnows DEF Lasts
  <2>2. CASE ~Return(p)
    <3>1. /\ Goto(p, "rollback") /\ pc[p] = "recover" /\ UNCHANGED <<job, mem, mine>>
          /\ journal[job[p]].state \notin Terminal
      BY <1>4, <2>2 DEF LockForRecovery
    <3>2. pc'[p] = "rollback"
      BY <3>1, TypeParts DEF Goto, ControlTyped
    <3>3. Prepared(p)'
      BY <1>1, <1>2, <3>1, <3>2 DEF Prepared, Steady, CloseLabels, Terminal
    <3>4. Registered(p)'
      BY <3>1, CloseHoldsNone DEF Steady
    <3> QED  BY <1>2, <3>3, <3>4 DEF Lasts
  <2> QED  BY <2>1, <2>2
<1> QED  BY <1>3, <1>4

-----------------------------------------------------------------------------
(* The same for inits, amendments, repairs and returns.                     *)

\* A step of an init that changes its own manifest at most.
LEMMA InitMoves ==
  ASSUME TypeInv, NEW p \in Proc, Steady(p), pc[p] \in InitLabels, NEW m,
         journal' = journal \/ journal' = [journal EXCEPT ![job[p]] = m],
         receipts' = receipts, repairs' = repairs, job' = job, mine' = mine,
         pc'[p] \notin CloseLabels,
         mine[p] # {} => pc'[p] \in {"refresh", "commit", "undo", "restore", "release"}
  PROVE  Lasts(p)
<1>1. job[p] \in InitId \union AmendId /\ job[p] \in Tx
  BY TypeParts, JobOfLabel
<1>2. job[p] \notin CloseId
  BY <1>1, TxAssumption
<1>3. ChainsGo
  BY <1>1, <1>2, TypeParts, ChainsEdit DEF Steady, JournalTyped
<1>4. Registered(p)'
  <2>1. Unfollowed(mine[p]) => Unfollowed(mine[p])'
    BY DEF Unfollowed
  <2> QED  BY <2>1 DEF Registered, Steady
<1> QED  BY <1>3, <1>4, KnowsNothing DEF Lasts

\* A command returns without a write.
LEMMA ReturnLasts ==
  ASSUME TypeInv, NEW p \in Proc, Steady(p), Return(p),
         journal' = journal, receipts' = receipts, repairs' = repairs
  PROVE  Lasts(p)
  BY ChainsIdle, ReturnKnows DEF Lasts, Steady

LEMMA AdmissionLasts ==
  ASSUME TypeInv, NEW p \in Proc, Steady(p), LockInit(p) \/ AdmitInit(p)
  PROVE  Lasts(p)
<1>1. journal' = journal /\ receipts' = receipts /\ repairs' = repairs
  BY DEF LockInit, AdmitInit, disk, env
<1>2. CASE Return(p)
  BY <1>1, <1>2, ReturnLasts
<1>3. CASE ~Return(p)
  <2>1. /\ pc[p] \in {"init", "admit"} /\ job' = job /\ mine' = mine
        /\ Goto(p, "admit") \/ Goto(p, "open")
    BY <1>3 DEF LockInit, AdmitInit
  <2>2. pc'[p] \in {"admit", "open"}
    BY <2>1, TypeParts DEF Goto, ControlTyped
  <2>3. mine[p] = {} /\ pc[p] \in InitLabels
    BY <2>1 DEF Steady, Registered, InitLabels
  <2> QED  BY <1>1, <2>1, <2>2, <2>3, InitMoves DEF CloseLabels
<1> QED  BY <1>2, <1>3

LEMMA InitManifestLasts ==
  ASSUME TypeInv, NEW p \in Proc, Steady(p),
         OpenInit(p) \/ StartInit(p) \/ CommitInit(p) \/ FinishRestore(p)
  PROVE  Lasts(p)
<1>1. receipts' = receipts /\ repairs' = repairs /\ job' = job /\ mine' = mine
  BY DEF OpenInit, StartInit, CommitInit, FinishRestore
<1>2. PICK m, good, bad :
        /\ Persist(p, m, good, bad)
        /\ \/ pc[p] = "open" /\ good = "start" /\ bad = "release"
           \/ pc[p] = "start" /\ good = "change" /\ bad = "undo"
           \/ /\ pc[p] = "commit" /\ bad = "undo"
              /\ good = IF job[p] \in InitId THEN "release" ELSE "register"
           \/ pc[p] = "restore" /\ good = "release" /\ bad = "release"
  BY DEF OpenInit, StartInit, CommitInit, FinishRestore
<1>3. /\ journal' = journal \/ journal' = [journal EXCEPT ![job[p]] = m]
      /\ pc'[p] \in {good, bad}
  BY <1>2, TypeParts DEF Persist, Goto, ControlTyped
<1>4. pc[p] \in InitLabels /\ pc'[p] \notin CloseLabels
  BY <1>2, <1>3 DEF InitLabels, CloseLabels
<1>5. mine[p] # {} => pc'[p] \in {"refresh", "commit", "undo", "restore", "release"}
  BY <1>2, <1>3 DEF Steady, Registered
<1> QED  BY <1>1, <1>3, <1>4, <1>5, InitMoves

LEMMA ChangeLasts ==
  ASSUME TypeInv, NEW p \in Proc, Steady(p),
         AttemptChange(p) \/ WriteChange(p) \/ RefreshState(p) \/ RestoreTarget(p)
  PROVE  Lasts(p)
<1>1. receipts' = receipts /\ repairs' = repairs /\ job' = job /\ mine' = mine
  BY DEF AttemptChange, WriteChange, RefreshState, RestoreTarget, disk
<1>2. CASE AttemptChange(p)
  <2>1. /\ pc[p] = "change"
        /\ (\E m : Persist(p, m, "write", "undo")) \/ (Goto(p, "undo") /\ journal' = journal)
    BY <1>2 DEF AttemptChange
  <2>2. PICK m : /\ journal' = journal \/ journal' = [journal EXCEPT ![job[p]] = m]
                 /\ Goto(p, "write") \/ Goto(p, "undo")
    BY <2>1 DEF Persist
  <2>3. pc'[p] \in {"write", "undo"}
    BY <2>2, TypeParts DEF Goto, ControlTyped
  <2>4. mine[p] = {} /\ pc[p] \in InitLabels
    BY <2>1 DEF Steady, Registered, InitLabels
  <2> QED  BY <1>1, <2>2, <2>3, <2>4, InitMoves DEF CloseLabels
<1>3. CASE WriteChange(p)
  <2>1. pc[p] = "write" /\ journal' = journal /\ pc'[p] \in {"undo", "change", "record", "refresh"}
    BY <1>3, TypeParts DEF WriteChange, Goto, ControlTyped
  <2>2. mine[p] = {} /\ pc[p] \in InitLabels
    BY <2>1 DEF Steady, Registered, InitLabels
  <2> QED  BY <1>1, <2>1, <2>2, InitMoves DEF CloseLabels
<1>4. CASE RefreshState(p)
  <2>1. pc[p] = "refresh" /\ journal' = journal /\ pc'[p] \in {"undo", "commit"}
    BY <1>4, TypeParts DEF RefreshState, disk, Goto, ControlTyped
  <2> QED  BY <1>1, <2>1, InitMoves DEF CloseLabels, InitLabels
<1>5. CASE RestoreTarget(p)
  <2>1. pc[p] = "restore" /\ journal' = journal /\ pc' = pc
    BY <1>5 DEF RestoreTarget
  <2> QED  BY <1>1, <2>1, InitMoves DEF CloseLabels, InitLabels
<1> QED  BY <1>2, <1>3, <1>4, <1>5

(* A preflight that passes while there is something to register has found   *)
(* no receipt of the same writer.                                           *)
LEMMA ReceiptIsNew ==
  ASSUME NEW op, NEW writer, NEW before, PreflightDefined(op, writer, before),
         DOMAIN ReceiptFor(op, writer, before).at # {}
  PROVE  ReceiptFor(op, writer, before) \notin receipts
<1>1. PICK r \in Anchored(DOMAIN before) : TRUE
  BY DEF ReceiptFor
<1>2. PICK c \in CloseId : journal[c].state = "COMMITTED"
  BY <1>1 DEF Anchored, CommittedFor
<1>3. Exists(c)
  BY <1>2 DEF Exists, NoManifest
<1>4. ReceiptsOf(op, writer) = {}
  BY <1>3 DEF PreflightDefined
<1>5. ReceiptFor(op, writer, before).op = op /\ ReceiptFor(op, writer, before).writer = writer
  BY DEF ReceiptFor
<1> QED  BY <1>4, <1>5 DEF ReceiptsOf

\* What a receipt says of the files it is for.
LEMMA ReceiptSays ==
  ASSUME NEW op, NEW writer, NEW before, NEW r \in DOMAIN ReceiptFor(op, writer, before).at
  PROVE  LET q == ReceiptFor(op, writer, before)
         IN /\ r \in Anchored(DOMAIN before) /\ r \in DOMAIN before /\ CommittedFor(r) # {}
            /\ q.at[r].anchor = Head(r) /\ q.at[r].pred = Ends(r, Head(r))
            /\ q.at[r].before = before[r]
  BY DEF ReceiptFor, Anchored

\* An init or an amendment registers.
LEMMA RecordInitLasts ==
  ASSUME TypeInv, NEW p \in Proc, Steady(p), RecordInit(p)
  PROVE  Lasts(p)
<1> DEFINE op == Operation(job[p])
           writer == Writer(job[p])
           q == ReceiptFor(op, writer, mem[p].before)
<1>1. /\ pc[p] \in {"record", "register"} /\ journal' = journal /\ repairs' = repairs
      /\ job' = job /\ mem' = mem
  BY DEF RecordInit
<1>2. mine[p] = {} /\ pc[p] \in InitLabels
  BY <1>1 DEF Steady, Registered, InitLabels
<1>3. pc'[p] \in {"refresh", "undo", "release"}
  BY TypeParts DEF RecordInit, Goto, ControlTyped
<1>4. CASE receipts' = receipts /\ mine' = mine
  BY <1>1, <1>2, <1>3, <1>4, InitMoves DEF CloseLabels
<1>5. CASE ~(receipts' = receipts /\ mine' = mine)
  <2>1. /\ PreflightDefined(op, writer, mem[p].before) /\ DOMAIN q.at # {}
        /\ receipts' = receipts \union {q}
        /\ mine' = IF job[p] \in InitId THEN [mine EXCEPT ![p] = {q}] ELSE mine
        /\ pc'[p] \in {"refresh", "release"}
    BY <1>5, OutcomeKinds, TypeParts DEF RecordInit, Goto, ControlTyped
  <2>2. q \notin receipts
    BY <2>1, ReceiptIsNew
  <2>3. \E c \in CloseId : Exists(c)
    <3>1. PICK r \in DOMAIN q.at : TRUE
      BY <2>1
    <3>2. CommittedFor(r) # {}
      BY <3>1, ReceiptSays
    <3> QED  BY <3>2 DEF CommittedFor, Exists, NoManifest
  <2>4. \A r \in DOMAIN q.at :
          /\ r \in Ref /\ CommittedFor(r) # {}
          /\ q.at[r].anchor = Head(r) /\ q.at[r].pred = Ends(r, Head(r))
          /\ q.at[r].before = ExpectedImage(r)
    <3>1. DOMAIN mem[p].before \subseteq Ref
      BY TypeParts DEF LocalTyped, IsManifest
    <3>2. \A r \in Anchored(DOMAIN mem[p].before) : ExpectedImage(r) = mem[p].before[r]
      BY <2>1, <2>3 DEF PreflightDefined
    <3> HIDE DEF op, writer
    <3> QED  BY <3>1, <3>2, ReceiptSays
  <2>5. q.op # "repair"
    BY DEF ReceiptFor, Operation
  <2>6. repairs \in Nat
    BY TypeParts DEF EnvTyped
  <2> HIDE DEF q, op, writer
  <2>7. Chains' /\ ReceiptsInOrder' /\ \A r : CommittedFor(r)' = CommittedFor(r)
    <3>1. Chains /\ ReceiptsInOrder
      BY DEF Steady
    <3>2. repairs' \in Nat /\ repairs <= repairs'
      BY <1>1, <2>6
    <3> QED  BY <1>1, <2>1, <2>2, <2>4, <2>5, <2>6, <3>1, <3>2, ReceiptExtends, SMTT(40)
  <2>8. Registered(p)'
    <3>1. \A s \in receipts' : \A r \in DOMAIN s.at : s.at[r].pred \subseteq receipts
      BY <2>1, <2>4 DEF Steady, ReceiptsInOrder, Ends, Links
    <3>2. \A s \in receipts' : \A r \in DOMAIN s.at : {q} \intersect s.at[r].pred = {}
      BY <2>2, <3>1
    <3>3. mine'[p] # {} => mine'[p] = {q} /\ job'[p] \in InitId
      BY <1>1, <1>2, <2>1, TypeParts DEF LocalTyped
    <3> QED  BY <2>1, <3>2, <3>3 DEF Registered, Unfollowed
  <2>9. Prepared(p)'
    BY <1>3, KnowsNothing DEF CloseLabels
  <2> QED  BY <2>7, <2>8, <2>9 DEF Lasts, ChainsGo
<1> QED  BY <1>4, <1>5

\* A failed init takes its receipt back: nothing follows it.
LEMMA DiscardReceiptLasts ==
  ASSUME TypeInv, NEW p \in Proc, Steady(p), DiscardReceipt(p)
  PROVE  Lasts(p)
<1>1. /\ pc[p] = "undo" /\ pc'[p] = "restore" /\ journal' = journal /\ repairs' = repairs
      /\ job' = job /\ mine' = mine
  BY TypeParts DEF DiscardReceipt, Goto, ControlTyped
<1>2. CASE receipts' = receipts
  BY <1>1, <1>2, InitMoves DEF CloseLabels, InitLabels
<1>3. CASE receipts' # receipts
  <2>1. mine[p] # {} /\ receipts' = receipts \ mine[p]
    BY <1>3 DEF DiscardReceipt
  <2>2. Unfollowed(mine[p]) /\ job[p] \in InitId
    BY <2>1 DEF Steady, Registered
  <2>3. PICK D : D = mine[p] \intersect receipts
    OBVIOUS
  <2>4. D \in SUBSET receipts /\ Unfollowed(D) /\ receipts' = receipts \ D
    BY <2>1, <2>2, <2>3 DEF Unfollowed
  <2>5. Chains' /\ ReceiptsInOrder' /\ \A r : CommittedFor(r)' = CommittedFor(r)
    BY <1>1, <2>4, ReceiptsShrink DEF Steady
  <2>6. Registered(p)'
    <3>1. \A s \in receipts' : \A r \in DOMAIN s.at : mine[p] \intersect s.at[r].pred = {}
      BY <2>1, <2>2 DEF Unfollowed
    <3> QED  BY <1>1, <2>2, <3>1 DEF Registered, Unfollowed
  <2> QED  BY <1>1, <2>5, <2>6, KnowsNothing DEF Lasts, ChainsGo, CloseLabels
<1> QED  BY <1>2, <1>3

LEMMA PlanInitLasts ==
  ASSUME TypeInv, NEW p \in Proc, Steady(p), NEW t \in InitId \union AmendId, PlanInit(p, t)
  PROVE  Lasts(p)
<1>1. /\ journal' = journal /\ receipts' = receipts /\ repairs' = repairs /\ mine' = mine
      /\ pc[p] = "idle"
  BY DEF PlanInit, disk, env
<1>2. pc'[p] = "init"
  BY TypeParts DEF PlanInit, Goto, ControlTyped
<1>3. ChainsGo
  BY <1>1, ChainsIdle DEF Steady
<1>4. Registered(p)'
  BY <1>1, CloseHoldsNone DEF Steady
<1> QED  BY <1>2, <1>3, <1>4, KnowsNothing DEF Lasts, CloseLabels

(* A recovery that is not at fault removes only receipts that nothing       *)
(* follows.                                                                 *)
LEMMA RecoverInitLasts ==
  ASSUME TypeInv, NEW p \in Proc, Steady(p), NEW t \in InitId \union AmendId, ~upset',
         RecoverInit(p, t)
  PROVE  Lasts(p)
<1>1. /\ journal' = journal /\ repairs' = repairs /\ mine' = mine /\ pc[p] = "idle"
      /\ receipts' = receipts \ RecoveryDiscards(t) /\ ~Misplaced(t)
  BY DEF RecoverInit
<1>2. pc'[p] \in {"idle", "restore"}
  BY <1>1, TypeParts DEF RecoverInit, Goto, ControlTyped
<1>3. PICK D : D = RecoveryDiscards(t)
  OBVIOUS
<1>4. D \in SUBSET receipts
  BY <1>3 DEF RecoveryDiscards, ReceiptsOf
<1>5. Unfollowed(D)
  BY <1>1, <1>3 DEF Misplaced, Unfollowed
<1>6. Chains' /\ ReceiptsInOrder' /\ \A r : CommittedFor(r)' = CommittedFor(r)
  BY <1>1, <1>3, <1>4, <1>5, ReceiptsShrink DEF Steady
<1>7. Registered(p)'
  BY <1>1, CloseHoldsNone DEF Steady
<1> QED  BY <1>2, <1>6, <1>7, KnowsNothing DEF Lasts, ChainsGo, CloseLabels

\* A repair adds a receipt at the end of every chain that a file is off.
LEMMA RepairLasts ==
  ASSUME TypeInv, NEW p \in Proc, Steady(p), Repair(p)
  PROVE  Lasts(p)
<1> DEFINE before == [r \in RepairRefs |-> ExpectedImage(r)]
           q == ReceiptFor("repair", repairs, before)
<1>1. /\ journal' = journal /\ receipts' = receipts \union {q} /\ repairs' = repairs + 1
      /\ pc[p] = "idle" /\ pc' = pc /\ mine' = mine
  BY DEF Repair, local
<1>2. repairs \in Nat
  BY TypeParts DEF EnvTyped
<1>3. q.op = "repair" /\ q.writer = repairs
  BY DEF ReceiptFor
<1>4. q \notin receipts
  <2>1. \A s \in receipts : s.op = "repair" /\ s.writer \in Nat => s.writer < repairs
    BY DEF Steady, ReceiptsInOrder
  <2> HIDE DEF q
  <2> QED  BY <1>2, <1>3, <2>1
<1>5. \A r \in DOMAIN q.at :
        /\ r \in Ref /\ CommittedFor(r) # {}
        /\ q.at[r].anchor = Head(r) /\ q.at[r].pred = Ends(r, Head(r))
        /\ q.at[r].before = ExpectedImage(r)
  <2>1. ASSUME NEW r \in DOMAIN q.at
        PROVE  /\ r \in Ref /\ CommittedFor(r) # {}
               /\ q.at[r].anchor = Head(r) /\ q.at[r].pred = Ends(r, Head(r))
               /\ q.at[r].before = ExpectedImage(r)
    <3>1. /\ r \in DOMAIN before /\ CommittedFor(r) # {}
          /\ q.at[r].anchor = Head(r) /\ q.at[r].pred = Ends(r, Head(r))
          /\ q.at[r].before = before[r]
      <4> HIDE DEF before
      <4> QED  BY ReceiptSays
    <3>2. r \in RepairRefs /\ before[r] = ExpectedImage(r)
      BY <3>1
    <3>3. PICK c \in CloseId : r \in Targets(journal[c])
      BY <3>2 DEF RepairRefs, Anchored
    <3>4. r \in Ref
      BY <3>3, TypeParts DEF JournalTyped, IsManifest, Targets, Tx
    <3> QED  BY <3>1, <3>2, <3>4
  <2> QED  BY <2>1
<1> HIDE DEF q, before
<1>6. Chains' /\ ReceiptsInOrder' /\ \A r : CommittedFor(r)' = CommittedFor(r)
  <2>1. repairs' \in Nat /\ repairs <= repairs' /\ q.writer < repairs'
    BY <1>1, <1>2, <1>3
  <2> QED  BY <1>1, <1>2, <1>4, <1>5, <2>1, ReceiptExtends DEF Steady
<1>7. Registered(p)'
  BY <1>1, CloseHoldsNone DEF Steady
<1> QED  BY <1>1, <1>6, <1>7, KnowsNothing DEF Lasts, ChainsGo, CloseLabels

LEMMA LeaveLasts ==
  ASSUME TypeInv, NEW p \in Proc, Steady(p), Release(p) \/ Crash(p)
  PROVE  Lasts(p)
<1>1. journal' = journal /\ receipts' = receipts /\ repairs' = repairs
  BY DEF Release, Crash, disk, env
<1>2. CASE Return(p)
  BY <1>1, <1>2, ReturnLasts
<1>3. CASE ~Return(p)
  <2>1. pc'[p] = "idle" /\ mine'[p] = {}
    BY <1>3, TypeParts DEF Release, Crash, Goto, ControlTyped, LocalTyped
  <2>2. ChainsGo
    BY <1>1, ChainsIdle DEF Steady
  <2> QED  BY <2>1, <2>2, KnowsNothing DEF Lasts, Registered, CloseLabels
<1> QED  BY <1>2, <1>3
-----------------------------------------------------------------------------
(* The chains are kept.                                                     *)

LEMMA StepLasts ==
  ASSUME TypeInv, NEW p \in Proc, Steady(p), ~upset', Step(p) \/ Command(p) \/ Crash(p)
  PROVE  Lasts(p)
<1>1. CASE CloseStep(p)
  <2>1. \/ LockClose(p) \/ BuildManifest(p) \/ AttachBytes(p)
        \/ WritePrepared(p) \/ WriteApplying(p) \/ FinishRollback(p)
        \/ AttemptTarget(p) \/ ReplaceTarget(p) \/ RollbackTarget(p)
        \/ CommitClose(p) \/ LockForRecovery(p)
    BY <1>1 DEF CloseStep
  <2> QED  BY <2>1, LockCloseLasts, BuildManifestLasts, AttachBytesLasts, WriteManifestLasts,
              AttemptTargetLasts, ReplaceTargetLasts, CommitCloseLasts, RecoveryLasts
<1>2. CASE InitStep(p)
  <2>1. \/ LockInit(p) \/ AdmitInit(p)
        \/ OpenInit(p) \/ StartInit(p) \/ CommitInit(p) \/ FinishRestore(p)
        \/ AttemptChange(p) \/ WriteChange(p) \/ RefreshState(p) \/ RestoreTarget(p)
        \/ RecordInit(p) \/ DiscardReceipt(p)
    BY <1>2 DEF InitStep
  <2> QED  BY <2>1, AdmissionLasts, InitManifestLasts, ChangeLasts, RecordInitLasts,
              DiscardReceiptLasts
<1>3. CASE Command(p)
  <2>1. \/ \E c \in CloseId : PlanClose(p, c)
        \/ \E c \in CloseId : ReadForRecovery(p, c)
        \/ \E t \in InitId \union AmendId : PlanInit(p, t)
        \/ \E t \in InitId \union AmendId : RecoverInit(p, t)
        \/ Repair(p)
    BY <1>3 DEF Command, CloseCommand, InitCommand
  <2> QED  BY <2>1, PlanCloseLasts, RecoveryLasts, PlanInitLasts, RecoverInitLasts, RepairLasts
<1>4. CASE Release(p) \/ Crash(p)
  BY <1>4, LeaveLasts
<1> QED  BY <1>1, <1>2, <1>3, <1>4 DEF Step

\* What was upset stays so.
LEMMA UpsetStays ==
  ASSUME NEW p \in Proc, Step(p) \/ Command(p) \/ Crash(p), upset
  PROVE  upset'
<1>1. CASE CloseStep(p)
  BY <1>1 DEF CloseStep, LockClose, BuildManifest, AttachBytes, WritePrepared, WriteApplying,
     AttemptTarget, ReplaceTarget, CommitClose, RollbackTarget, FinishRollback, LockForRecovery, env
<1>2. CASE InitStep(p)
  BY <1>2 DEF InitStep, LockInit, AdmitInit, OpenInit, StartInit, AttemptChange, WriteChange,
     RecordInit, RefreshState, CommitInit, DiscardReceipt, RestoreTarget, FinishRestore, env
<1>3. CASE Command(p)
  BY <1>3 DEF Command, CloseCommand, InitCommand, PlanClose, ReadForRecovery, PlanInit,
     RecoverInit, Repair, env
<1>4. CASE Release(p) \/ Crash(p)
  BY <1>4 DEF Release, Crash, env
<1> QED  BY <1>1, <1>2, <1>3, <1>4 DEF Step

\* What another process knows stays true: the flock is its own, or its close has not begun.
LEMMA OthersKnow ==
  ASSUME TypeInv, LockIsHeld, NEW p \in Proc, Step(p) \/ Command(p) \/ Crash(p), ChainsGo,
         NEW q \in Proc \ {p}, Prepared(q), Registered(q)
  PROVE  Prepared(q)' /\ Registered(q)'
<1>1. SameLocal(q)
  BY OthersKept
<1>2. pc[q] \in Held => SameShared
  BY SharedKept DEF LockIsHeld
<1>3. Prepared(q)'
  <2>1. CASE pc[q] \in Held
    <3>1. journal' = journal /\ receipts' = receipts
      BY <1>2, <2>1 DEF SameShared
    <3>2. \A r : CommittedFor(r)' = CommittedFor(r) /\ Head(r)' = Head(r)
      BY <3>1, CommittedSame
    <3>3. PICK n : n = mem[q]
      OBVIOUS
    <3>4. LineageFor(n)' = LineageFor(n)
      BY <3>2 DEF LineageFor, Anchored
    <3>5. LineageFor(mem[q])' = LineageFor(mem[q])
      BY <1>1, <3>3, <3>4 DEF SameLocal, LineageFor
    <3> QED  BY <1>1, <3>1, <3>2, <3>5 DEF SameLocal, Prepared
  <2>2. CASE pc[q] \notin Held
    <3>1. pc[q] \notin {"build", "attach", "prepare", "begin", "next", "replace", "rollback"}
      BY <2>2 DEF Held, Labels
    <3>2. \A r : CommittedFor(r) \subseteq CommittedFor(r)'
      BY DEF ChainsGo
    <3> QED  BY <1>1, <3>1, <3>2 DEF SameLocal, Prepared, CloseLabels
  <2> QED  BY <2>1, <2>2
<1>4. Registered(q)'
  <2>1. CASE mine[q] = {}
    BY <1>1, <2>1 DEF SameLocal, Registered
  <2>2. CASE mine[q] # {}
    <3>1. pc[q] \in Held
      BY <2>2 DEF Registered, Held, Labels
    <3>2. receipts' = receipts
      BY <1>2, <3>1 DEF SameShared
    <3> QED  BY <1>1, <3>2 DEF SameLocal, Registered, Unfollowed
  <2> QED  BY <2>1, <2>2
<1> QED  BY <1>3, <1>4

LEMMA NextChainInv ==
  TypeInv /\ LockIsHeld /\ (~upset => ChainInv) /\ [Next]_vars => (~upset => ChainInv)'
<1> SUFFICES ASSUME TypeInv, LockIsHeld, ~upset => ChainInv, [Next]_vars, ~upset'
             PROVE  ChainInv'
  OBVIOUS
<1>1. CASE UNCHANGED vars
  <2>1. /\ journal' = journal /\ receipts' = receipts /\ repairs' = repairs /\ upset' = upset
        /\ pc' = pc /\ job' = job /\ mem' = mem /\ mine' = mine
    BY <1>1 DEF vars, disk, local, env
  <2>2. ChainInv
    BY <2>1
  <2>3. ChainsGo /\ \A r : CommittedFor(r)' = CommittedFor(r) /\ Head(r)' = Head(r)
    BY <2>1, <2>2, ChainsIdle DEF ChainInv
  <2>4. ASSUME NEW p \in Proc  PROVE Prepared(p)' /\ Registered(p)'
    <3>1. Prepared(p) /\ Registered(p)
      BY <2>2 DEF ChainInv
    <3>2. LineageFor(mem[p])' = LineageFor(mem[p])
      BY <2>1, <2>3 DEF LineageFor, Anchored
    <3> QED  BY <2>1, <2>3, <3>1, <3>2 DEF Prepared, Registered, Unfollowed
  <2> QED  BY <2>3, <2>4 DEF ChainInv, ChainsGo
<1>2. ASSUME NEW p \in Proc, Step(p) \/ Command(p) \/ Crash(p)  PROVE ChainInv'
  <2>1. ChainInv
    BY <1>2, UpsetStays
  <2>2. Steady(p)
    BY <2>1 DEF ChainInv, Steady
  <2>3. Lasts(p)
    BY <1>2, <2>2, StepLasts
  <2>4. \A q \in Proc \ {p} : Prepared(q)' /\ Registered(q)'
    BY <1>2, <2>1, <2>3, OthersKnow DEF ChainInv, Lasts
  <2> QED  BY <2>3, <2>4 DEF Lasts, ChainsGo, ChainInv
<1> QED  BY <1>1, <1>2 DEF Next

-----------------------------------------------------------------------------
(* Chains are what the readers of them check, when no more than finitely    *)
(* many closes and receipts are about.                                      *)

\* A finite set with one member has a single one, and conversely.
LEMMA OneMember ==
  ASSUME NEW S, IsFiniteSet(S)
  PROVE  /\ Cardinality(S) = 1 <=> \E x : S = {x}
         /\ (Cardinality(S) <= 1 => \A x, y \in S : x = y)
<1>1. Cardinality(S) = 1 <=> \E x : S = {x}
  BY FS_Singleton
<1>2. ASSUME Cardinality(S) <= 1, NEW x \in S, NEW y \in S  PROVE x = y
  <2>1. Cardinality(S) \in Nat /\ (Cardinality(S) = 0 <=> S = {})
    BY FS_CardinalityType, FS_EmptySet
  <2>2. Cardinality(S) = 1
    BY <1>2, <2>1
  <2> QED  BY <1>1, <2>2
<1> QED  BY <1>1, <1>2

\* At most one member, at most cardinality one.
LEMMA AtMostOne ==
  ASSUME NEW S, \A x, y \in S : x = y
  PROVE  Cardinality(S) <= 1
<1>1. CASE S = {}
  BY <1>1, FS_EmptySet
<1>2. CASE S # {}
  <2>1. PICK x \in S : S = {x}
    BY <1>2
  <2>2. Cardinality({x}) = 1
    BY FS_Singleton
  <2> QED  BY <2>1, <2>2
<1> QED  BY <1>1, <1>2

LEMMA InitChains == Init => Chains
<1> SUFFICES ASSUME Init PROVE Chains
  OBVIOUS
<1>1. ChainsDefined(Ref) /\ receipts = FirstReceipts
  BY DEF Init
<1>2. IsFiniteSet(CloseId) /\ IsFiniteSet(receipts)
  BY <1>1, FiniteAssumption
<1>3. \A S \in SUBSET CloseId : IsFiniteSet(S)
  BY <1>2, FS_Subset
<1>4. \A S \in SUBSET receipts : IsFiniteSet(S)
  BY <1>2, FS_Subset
<1>5. Pointers
  BY <1>1 DEF ChainsDefined, HeadsDefined, Pointers
<1>6. ASSUME NEW r \in Ref
      PROVE  /\ OneLine(r)
             /\ CommittedFor(r) # {} => Linked(r, Head(r)) /\ OneEnd(r, Head(r))
  <2>1. HeadsOf(r) \in SUBSET CloseId /\ \A c : SuccessorsOf(r, c) \in SUBSET CloseId
    BY DEF HeadsOf, SuccessorsOf, CommittedFor
  <2>2. CommittedFor(r) # {} => Cardinality(HeadsOf(r)) = 1
    BY <1>1 DEF ChainsDefined, HeadsDefined
  <2>3. \A c \in CommittedFor(r) : Cardinality(SuccessorsOf(r, c)) <= 1
    BY <1>1 DEF ChainsDefined, HeadsDefined
  <2>4. CommittedFor(r) # {} => \E h \in CloseId : HeadsOf(r) = {h}
    <3>1. IsFiniteSet(HeadsOf(r))
      BY <1>3, <2>1
    <3>2. CommittedFor(r) # {} => \E h : HeadsOf(r) = {h}
      BY <2>2, <3>1, OneMember
    <3> QED  BY <2>1, <3>2
  <2>5. ASSUME NEW c \in CommittedFor(r), NEW d \in SuccessorsOf(r, c), NEW e \in SuccessorsOf(r, c)
        PROVE  d = e
    <3>1. IsFiniteSet(SuccessorsOf(r, c)) /\ Cardinality(SuccessorsOf(r, c)) <= 1
      BY <1>3, <2>1, <2>3
    <3> QED  BY <2>5, <3>1, OneMember
  <2>6. OneLine(r)
    BY <2>4, <2>5 DEF OneLine
  <2>7. CASE CommittedFor(r) # {}
    <3>1. ChainDefined(r, Head(r))
      BY <1>1, <2>7 DEF ChainsDefined, Anchored
    <3>2. Linked(r, Head(r))
      BY <3>1 DEF ChainDefined, Linked
    <3>3. OneEnd(r, Head(r))
      <4>1. Ends(r, Head(r)) \in SUBSET receipts
        BY DEF Ends, Links
      <4>2. IsFiniteSet(Ends(r, Head(r)))
        BY <1>4, <4>1
      <4>3. Links(r, Head(r)) # {} => \E e : Ends(r, Head(r)) = {e}
        BY <3>1, <4>2, OneMember DEF ChainDefined
      <4> QED  BY <4>1, <4>3 DEF OneEnd
    <3> QED  BY <2>6, <3>2, <3>3
  <2> QED  BY <2>6, <2>7
<1> QED  BY <1>5, <1>6 DEF Chains

LEMMA ChainsAreDefined == Chains => ChainsDefined(Ref)
<1> SUFFICES ASSUME Chains PROVE ChainsDefined(Ref)
  OBVIOUS
<1>1. ASSUME NEW r \in Ref, CommittedFor(r) # {}
      PROVE  /\ Cardinality(HeadsOf(r)) = 1
             /\ \A c \in CommittedFor(r) : Cardinality(SuccessorsOf(r, c)) <= 1
             /\ ChainDefined(r, Head(r))
  <2>1. OneLine(r) /\ Linked(r, Head(r)) /\ OneEnd(r, Head(r))
    BY <1>1 DEF Chains
  <2>2. Cardinality(HeadsOf(r)) = 1
    <3>1. PICK h : HeadsOf(r) = {h}
      BY <1>1, <2>1 DEF OneLine
    <3> QED  BY <3>1, FS_Singleton
  <2>3. \A c \in CommittedFor(r) : Cardinality(SuccessorsOf(r, c)) <= 1
    BY <2>1, AtMostOne DEF OneLine
  <2>4. Links(r, Head(r)) # {} => Cardinality(Ends(r, Head(r))) = 1
    BY <2>1, FS_Singleton DEF OneEnd
  <2> QED  BY <2>1, <2>2, <2>3, <2>4 DEF ChainDefined, Linked
<1> QED  BY <1>1 DEF ChainsDefined, HeadsDefined, Chains, Pointers, Anchored

LEMMA InitInv == Init => Inv
<1> SUFFICES ASSUME Init PROVE Inv
  OBVIOUS
<1>1. TypeInv
  BY InitTyped
<1>2. LockIsHeld /\ TodoMatches
  BY DEF Init, LockIsHeld, Held, TodoMatches
<1>3. Chains /\ ReceiptsInOrder
  BY InitChains DEF Init
<1>4. \A p \in Proc : Prepared(p) /\ Registered(p)
  BY DEF Init, Prepared, Registered, CloseLabels
<1> QED  BY <1>1, <1>2, <1>3, <1>4 DEF Inv, ChainInv

LEMMA NextInv == Inv /\ [Next]_vars => Inv'
  BY NextTyped, NextLockIsHeld, NextTodoMatches, NextChainInv DEF Inv

(* No fork: until a recovery or a repair acts on what it should have left   *)
(* alone, no two writers ever continue the same generation of a file,       *)
(* whatever they planned on and whatever failed or died, so the heads and   *)
(* ends that every later writer asks for are defined.                       *)
THEOREM NoForkInvariant == Spec => []NoFork
<1>1. Inv => NoFork
  BY ChainsAreDefined DEF Inv, ChainInv, NoFork
<1> QED  BY InitInv, NextInv, <1>1, PTL DEF Spec

-----------------------------------------------------------------------------
(* What is in the files.  The facts of a transaction that has begun are in  *)
(* a file or not: that tells whether it has written there.                  *)

\* The transactions whose facts an image has, and the image that has those of some.
In(r, image) == {t \in Writes(r) : Effect[t][r].add \subseteq image}
Content(r, some) ==
  (InitialFile[r] \ UNION {Effect[t][r].del : t \in some})
    \union UNION {Effect[t][r].add : t \in some}
Made(r, image) == image = Content(r, In(r, image))
Wrote(t, r) == t \in In(r, file[r])

\* A manifest is a plan of its transaction: what it makes of files it had not written yet.
PlanOf(t, m) ==
  /\ m.state \in States
  /\ Targets(m) = DOMAIN Effect[t]
  /\ \A r \in Targets(m) :
       /\ Made(r, m.before[r]) /\ t \notin In(r, m.before[r])
       /\ m.after[r] = Change(t, r, m.before[r])

(* Every file is its initial content with what some transactions made of    *)
(* it: of those that have a manifest, all the COMMITTED ones and none of    *)
(* the RECOVERED ones.                                                      *)
Told(t) ==
  /\ Exists(t) => PlanOf(t, journal[t]) \/ (DOMAIN Effect[t] = {} /\ journal[t].state \in Terminal)
  /\ \A r \in DOMAIN Effect[t] :
       /\ Wrote(t, r) => Exists(t)
       /\ journal[t].state = "COMMITTED" => Wrote(t, r)
       /\ journal[t].state = "RECOVERED" => ~Wrote(t, r)
FilesInv == (\A r \in Ref : Made(r, file[r])) /\ \A t \in Tx : Told(t)

(* How far a transaction has got: it has written every target it announced, *)
(* or all but the last; it is rolled back but for the targets left.         *)
InOrder(m) == \A r \in m.attempted, s \in Targets(m) \ m.attempted : r < s
Keeping(t, m) == InOrder(m) /\ \A r \in m.attempted : Wrote(t, r)
Writing(t, m) ==
  /\ InOrder(m)
  /\ \A r \in m.attempted :
       IF IsLast(r, m.attempted) THEN file[r] = m.before[r] ELSE Wrote(t, r)
Undone(t, m, left) == \A r \in Targets(m) \ left : ~Wrote(t, r)

CloseWork(p) ==
  LET t == job[p]
      m == mem[p]
  IN pc[p] \in CloseLabels =>
       /\ PlanOf(t, m)
       /\ pc[p] \notin {"planned", "recover"} => journal[t].state \notin Terminal
       /\ pc[p] \in {"planned", "build", "attach", "prepare", "begin"} => m.attempted = {}
       /\ pc[p] \in {"build", "attach", "prepare"} => ~Exists(t)
       /\ pc[p] \in {"prepare", "begin", "next", "replace", "recover"} =>
            Valid(m) /\ todo[p] = Targets(m)
       /\ pc[p] = "next" => Keeping(t, m)
       /\ pc[p] = "replace" => Exists(t) /\ Writing(t, m)
       /\ pc[p] = "rollback" =>
            /\ todo[p] \subseteq Targets(m)
            /\ \A r \in Targets(m) : Wrote(t, r) => r \in m.kept
            /\ ~failed[p] => Undone(t, m, todo[p])

Begun == {"start", "change", "write", "record", "refresh", "commit", "undo", "restore"}
InitWork(p) ==
  LET t == job[p]
      m == journal[t]
  IN /\ pc[p] \in {"init", "admit", "open"} =>
          PlanOf(t, mem[p]) /\ mem[p].state = "PREPARED" /\ mem[p].attempted = {}
     /\ pc[p] = "open" => ~Exists(t)
     /\ pc[p] \in Begun => Exists(t) /\ m.state \notin Terminal
     /\ pc[p] \in Begun \ {"restore"} => todo[p] = Targets(m)
     /\ pc[p] = "start" => m.attempted = {}
     /\ pc[p] = "change" => Keeping(t, m)
     /\ pc[p] = "write" => Writing(t, m)
     /\ pc[p] \in {"record", "refresh", "commit"} => \A r \in Targets(m) : Wrote(t, r)
     /\ pc[p] = "restore" /\ ~failed[p] => Undone(t, m, todo[p])

AtWork(p) == CloseWork(p) /\ InitWork(p)

\* The facts of its own tell which transactions an image has.
LEMMA ContentIn ==
  ASSUME OwnFacts, NEW r \in Ref, NEW some \in SUBSET Writes(r)
  PROVE  In(r, Content(r, some)) = some
<1>1. ASSUME NEW t \in some  PROVE t \in In(r, Content(r, some))
  BY DEF In, Content
<1>2. ASSUME NEW t \in In(r, Content(r, some)), t \notin some  PROVE FALSE
  <2>1. t \in Writes(r) /\ Effect[t][r].add \subseteq Content(r, some)
    BY DEF In
  <2>2. PICK f \in Effect[t][r].add :
          f \notin InitialFile[r] /\ \A u \in Writes(r) \ {t} : f \notin Effect[u][r].add
    BY <2>1 DEF OwnFacts
  <2>3. \A u \in some : f \notin Effect[u][r].add
    BY <1>2, <2>2
  <2> QED  BY <2>1, <2>2, <2>3 DEF Content
<1>3. In(r, Content(r, some)) \subseteq some
  BY <1>2
<1> QED  BY <1>1, <1>3

\* A change adds its transaction to those an image has.
LEMMA ContentChange ==
  ASSUME OwnFacts, NEW r \in Ref, NEW some \in SUBSET Writes(r), NEW t \in Writes(r)
  PROVE  Change(t, r, Content(r, some)) = Content(r, some \union {t})
<1> DEFINE add(s) == UNION {Effect[u][r].add : u \in s}
           del(s) == UNION {Effect[u][r].del : u \in s}
<1>1. add(some \union {t}) = add(some) \union Effect[t][r].add
  OBVIOUS
<1>2. del(some \union {t}) = del(some) \union Effect[t][r].del
  OBVIOUS
<1>3. \A x \in add(some) : x \in Effect[t][r].del => x \in Effect[t][r].add
  <2>1. ASSUME NEW u \in some, NEW x \in Effect[u][r].add, x \in Effect[t][r].del
        PROVE  x \in Effect[t][r].add
    <3>1. CASE u = t
      BY <2>1, <3>1
    <3>2. CASE u # t
      BY <2>1, <3>2 DEF OwnFacts
    <3> QED  BY <3>1, <3>2
  <2> QED  BY <2>1
<1>4. /\ Content(r, some) = (InitialFile[r] \ del(some)) \union add(some)
      /\ Content(r, some \union {t}) = (InitialFile[r] \ del(some \union {t})) \union add(some \union {t})
  BY DEF Content
<1> HIDE DEF add, del
<1> QED  BY <1>1, <1>2, <1>3, <1>4 DEF Change

\* What a plan says of its images.
LEMMA PlanImages ==
  ASSUME OwnFacts, NEW t \in Tx, NEW m, PlanOf(t, m), NEW r \in Targets(m)
  PROVE  /\ r \in Ref /\ t \in Writes(r)
         /\ Made(r, m.before[r]) /\ t \notin In(r, m.before[r])
         /\ Made(r, m.after[r]) /\ In(r, m.after[r]) = In(r, m.before[r]) \union {t}
<1>1. r \in DOMAIN Effect[t]
  BY DEF PlanOf
<1>2. r \in Ref /\ t \in Writes(r)
  BY <1>1, EffectAssumption DEF Writes
<1>3. /\ Made(r, m.before[r]) /\ t \notin In(r, m.before[r])
      /\ m.after[r] = Change(t, r, m.before[r])
  BY DEF PlanOf
<1>4. PICK some \in SUBSET Writes(r) : some = In(r, m.before[r])
  BY DEF In
<1>5. m.before[r] = Content(r, some)
  BY <1>3, <1>4 DEF Made
<1>6. m.after[r] = Content(r, some \union {t})
  BY <1>2, <1>3, <1>5, ContentChange
<1>7. some \union {t} \in SUBSET Writes(r)
  BY <1>2
<1>8. In(r, m.after[r]) = some \union {t}
  BY <1>2, <1>6, <1>7, ContentIn
<1> QED  BY <1>2, <1>3, <1>4, <1>6, <1>8 DEF Made

\* Nothing of a plan is written while the files are what it was made of.
LEMMA PlanMade ==
  ASSUME OwnFacts, FilesInv, NEW t \in Tx, ~Exists(t)
  PROVE  /\ PlanOf(t, PlanFor(t)) /\ PlanFor(t).attempted = {}
         /\ PlanFor(t).state = "PREPARED"
<1> DEFINE targets == {r \in DOMAIN Effect[t] : file[r] # Change(t, r, file[r])}
           m == PlanFor(t)
<1>1. ASSUME NEW r \in DOMAIN Effect[t]
      PROVE  /\ r \in Ref /\ Made(r, file[r]) /\ t \notin In(r, file[r])
             /\ file[r] # Change(t, r, file[r])
  <2>1. r \in Ref /\ t \in Writes(r)
    BY EffectAssumption DEF Writes
  <2>2. Made(r, file[r]) /\ t \notin In(r, file[r])
    BY <2>1 DEF FilesInv, Told, Wrote
  <2>3. ~ (Effect[t][r].add \subseteq file[r])
    BY <2>1, <2>2 DEF In
  <2>4. Effect[t][r].add \subseteq Change(t, r, file[r])
    BY DEF Change
  <2> QED  BY <2>1, <2>2, <2>3, <2>4
<1>2. targets = DOMAIN Effect[t]
  BY <1>1
<1>3. /\ m.state = "PREPARED" /\ m.attempted = {}
      /\ m.before = [r \in targets |-> file[r]]
      /\ m.after = [r \in targets |-> Change(t, r, file[r])]
  BY DEF PlanFor, NoManifest
<1> HIDE DEF targets, m
<1>4. Targets(m) = DOMAIN Effect[t]
  BY <1>2, <1>3 DEF Targets
<1>5. \A r \in Targets(m) : m.before[r] = file[r] /\ m.after[r] = Change(t, r, m.before[r])
  BY <1>2, <1>3, <1>4
<1>6. PlanOf(t, m)
  BY <1>1, <1>3, <1>4, <1>5 DEF PlanOf, States
<1> QED  BY <1>3, <1>6 DEF m

-----------------------------------------------------------------------------
(* What a write does to the files, and what a manifest then says of them.   *)

LEMMA FilesIdle ==
  ASSUME file' = file, journal' = journal
  PROVE  /\ FilesInv => FilesInv'
         /\ \A t, r : Wrote(t, r)' <=> Wrote(t, r)
         /\ \A t : Exists(t)' <=> Exists(t)
  BY DEF FilesInv, Told, Wrote, Exists, Made, PlanOf

\* The manifest of a transaction changes; what it now says must be so.
LEMMA FilesEdit ==
  ASSUME FilesInv, JournalTyped, NEW t \in Tx, NEW m, PlanOf(t, m),
         journal' = journal \/ journal' = [journal EXCEPT ![t] = m], file' = file,
         m.state = "COMMITTED" => \A r \in Targets(m) : Wrote(t, r),
         m.state = "RECOVERED" => \A r \in Targets(m) : ~Wrote(t, r)
  PROVE  /\ FilesInv'
         /\ \A u, r : Wrote(u, r)' <=> Wrote(u, r)
         /\ journal' # journal => Exists(t)' /\ journal'[t] = m
<1>1. \A u, r : Wrote(u, r)' <=> Wrote(u, r)
  BY DEF Wrote
<1>2. m # NoManifest /\ Targets(m) = DOMAIN Effect[t]
  BY DEF PlanOf, NoManifest, States
<1>3. journal' # journal => journal'[t] = m /\ \A u \in Tx \ {t} : journal'[u] = journal[u]
  BY DEF JournalTyped
<1>4. ASSUME NEW u \in Tx  PROVE Told(u)'
  <2>1. CASE journal'[u] = journal[u]
    BY <1>1, <2>1 DEF FilesInv, Told, Exists, PlanOf
  <2>2. CASE journal'[u] # journal[u]
    <3>1. u = t /\ journal'[u] = m
      BY <1>3, <2>2
    <3>2. Exists(u)' /\ PlanOf(u, journal[u])'
      BY <1>2, <3>1 DEF Exists, PlanOf
    <3>3. \A r \in DOMAIN Effect[u] :
            /\ m.state = "COMMITTED" => Wrote(u, r)
            /\ m.state = "RECOVERED" => ~Wrote(u, r)
      BY <1>2, <3>1
    <3> QED  BY <1>1, <3>1, <3>2, <3>3 DEF Told
  <2> QED  BY <2>1, <2>2
<1>5. \A r \in Ref : Made(r, file[r])'
  BY DEF FilesInv, Made
<1> QED  BY <1>1, <1>2, <1>3, <1>4, <1>5 DEF FilesInv, Exists

\* One file gets an image that differs from what it had in one transaction.
LEMMA FilesWrite ==
  ASSUME OwnFacts, FilesInv, FilesTyped, NEW t \in Tx, Exists(t), journal[t].state \notin Terminal,
         NEW r \in DOMAIN Effect[t], NEW image, Made(r, image), journal' = journal,
         In(r, image) \ {t} = In(r, file[r]) \ {t},
         file' = [file EXCEPT ![r] = image]
  PROVE  /\ FilesInv'
         /\ file'[r] = image /\ (Wrote(t, r)' <=> t \in In(r, image))
         /\ \A s \in Ref \ {r} : file'[s] = file[s] /\ \A u : Wrote(u, s)' <=> Wrote(u, s)
<1>1. r \in Ref
  BY EffectAssumption
<1>2. file'[r] = image /\ \A s \in Ref \ {r} : file'[s] = file[s]
  BY <1>1 DEF FilesTyped
<1>3. /\ \A u : Wrote(u, r)' <=> u \in In(r, image)
      /\ \A s \in Ref \ {r} : \A u : Wrote(u, s)' <=> Wrote(u, s)
  BY <1>2 DEF Wrote
<1>4. \A s \in Ref : Made(s, file[s])'
  BY <1>2 DEF FilesInv, Made
<1>5. ASSUME NEW u \in Tx \ {t}  PROVE Told(u)'
  <2>1. \A s \in DOMAIN Effect[u] : s \in Ref /\ (Wrote(u, s)' <=> Wrote(u, s))
    BY <1>3, EffectAssumption DEF Wrote
  <2> QED  BY <2>1 DEF FilesInv, Told, Exists, PlanOf
<1>6. Told(t)'
  BY DEF FilesInv, Told, Exists, PlanOf, Terminal
<1> QED  BY <1>2, <1>3, <1>4, <1>5, <1>6 DEF FilesInv

\* A target at its preimage is written.
LEMMA FilesForward ==
  ASSUME OwnFacts, FilesInv, FilesTyped, NEW t \in Tx, Exists(t), journal[t].state \notin Terminal,
         NEW m, PlanOf(t, m), NEW r \in Targets(m), file[r] = m.before[r], journal' = journal,
         file' = [file EXCEPT ![r] = m.after[r]]
  PROVE  /\ FilesInv' /\ Wrote(t, r)'
         /\ \A s \in Ref \ {r} : file'[s] = file[s] /\ \A u : Wrote(u, s)' <=> Wrote(u, s)
<1>1. r \in DOMAIN Effect[t]
  BY DEF PlanOf
<1>2. /\ Made(r, m.after[r])
      /\ In(r, m.after[r]) = In(r, m.before[r]) \union {t}
  BY PlanImages
<1>3. In(r, m.after[r]) \ {t} = In(r, file[r]) \ {t} /\ t \in In(r, m.after[r])
  BY <1>2
<1> QED  BY <1>1, <1>2, <1>3, FilesWrite

\* A target at its after image is restored.
LEMMA FilesBack ==
  ASSUME OwnFacts, FilesInv, FilesTyped, NEW t \in Tx, Exists(t), journal[t].state \notin Terminal,
         NEW m, PlanOf(t, m), NEW r \in Targets(m), file[r] = m.after[r], journal' = journal,
         file' = [file EXCEPT ![r] = m.before[r]]
  PROVE  /\ FilesInv' /\ ~Wrote(t, r)'
         /\ \A s \in Ref \ {r} : file'[s] = file[s] /\ \A u : Wrote(u, s)' <=> Wrote(u, s)
<1>1. r \in DOMAIN Effect[t]
  BY DEF PlanOf
<1>2. /\ Made(r, m.before[r]) /\ t \notin In(r, m.before[r])
      /\ In(r, m.after[r]) = In(r, m.before[r]) \union {t}
  BY PlanImages
<1>3. In(r, m.before[r]) \ {t} = In(r, file[r]) \ {t}
  BY <1>2
<1> QED  BY <1>1, <1>2, <1>3, FilesWrite

\* The next target in order is announced.
LEMMA Announced ==
  ASSUME NEW t \in Tx, NEW m, IsManifest(m), Keeping(t, m),
         NEW r \in Targets(m), r \notin m.attempted, IsFirst(r, Targets(m) \ m.attempted),
         file[r] = m.before[r], file' = file,
         NEW n, n.attempted = m.attempted \union {r}, n.before = m.before
  PROVE  Writing(t, n)'
<1>1. Targets(n) = Targets(m) /\ \A s \in Targets(m) : s \in Int
  BY RefAssumption DEF Targets, IsManifest
<1>2. m.attempted \subseteq Targets(m) /\ n.attempted = m.attempted \union {r}
  BY DEF IsManifest
<1>3. /\ \A s \in m.attempted : s < r
      /\ \A s \in m.attempted, u \in Targets(m) \ m.attempted : s < u
      /\ \A u \in Targets(m) \ m.attempted : r <= u
  BY DEF Keeping, InOrder, IsFirst
<1>4. InOrder(n)
  <2>1. ASSUME NEW s \in n.attempted, NEW u \in Targets(n) \ n.attempted
        PROVE  s < u
    <3>1. u \in Targets(m) \ m.attempted /\ u # r /\ s \in Targets(m)
      BY <1>1, <1>2, <2>1
    <3>2. s \in Int /\ u \in Int /\ r \in Int
      BY <1>1, <3>1
    <3>3. r < u
      BY <1>3, <3>1, <3>2
    <3>4. CASE s = r
      BY <3>3, <3>4
    <3>5. CASE s # r
      BY <1>2, <1>3, <2>1, <3>1, <3>5
    <3> QED  BY <3>4, <3>5
  <2> QED  BY <2>1 DEF InOrder
<1>5. \A s \in n.attempted : IF IsLast(s, n.attempted) THEN s = r ELSE s # r
  <2>1. ASSUME NEW s \in n.attempted, IsLast(s, n.attempted)  PROVE s = r
    <3>1. r <= s
      BY <1>2, <2>1 DEF IsLast
    <3>2. s # r => s < r
      BY <1>2, <1>3
    <3>3. s \in Int /\ r \in Int
      BY <1>1, <1>2
    <3> QED  BY <3>1, <3>2, <3>3
  <2>2. IsLast(r, n.attempted)
    <3>1. ASSUME NEW s \in n.attempted  PROVE s <= r
      <4>1. s \in Int /\ r \in Int
        BY <1>1, <1>2
      <4>2. s = r \/ s < r
        BY <1>2, <1>3
      <4> QED  BY <4>1, <4>2
    <3> QED  BY <1>2, <3>1 DEF IsLast
  <2> QED  BY <2>1, <2>2
<1>6. \A s \in n.attempted : IF IsLast(s, n.attempted) THEN file[s] = n.before[s] ELSE Wrote(t, s)
  BY <1>5 DEF Keeping
<1> QED  BY <1>4, <1>6 DEF Writing, Wrote, InOrder

\* The announced target is written.
LEMMA Kept ==
  ASSUME OwnFacts, FilesInv, FilesTyped, NEW t \in Tx, Exists(t), journal[t].state \notin Terminal,
         NEW m, IsManifest(m), PlanOf(t, m), Writing(t, m), NEW r, IsLast(r, m.attempted),
         journal' = journal, file' = [file EXCEPT ![r] = m.after[r]]
  PROVE  FilesInv' /\ Keeping(t, m)'
<1>1. r \in m.attempted /\ m.attempted \subseteq Targets(m) /\ Targets(m) \subseteq Ref
  BY DEF IsLast, IsManifest, Targets
<1>2. file[r] = m.before[r]
  BY <1>1 DEF Writing
<1>3. /\ FilesInv' /\ Wrote(t, r)'
      /\ \A s \in Ref \ {r} : Wrote(t, s)' <=> Wrote(t, s)
  BY <1>1, <1>2, FilesForward
<1>4. ASSUME NEW s \in m.attempted  PROVE Wrote(t, s)'
  <2>1. CASE s = r
    BY <1>3, <2>1
  <2>2. CASE s # r
    <3>1. ~IsLast(s, m.attempted)
      <4>1. s \in Int /\ r \in Int
        BY <1>1, RefAssumption
      <4> QED  BY <1>1, <2>2, <4>1 DEF IsLast
    <3> QED  BY <1>1, <1>3, <2>2, <3>1 DEF Writing
  <2> QED  BY <2>1, <2>2
<1>5. InOrder(m)
  BY DEF Writing
<1> QED  BY <1>3, <1>4, <1>5 DEF Keeping

\* A rollback visits the last target left: it succeeds there, or it has failed.
LEMMA Visited ==
  ASSUME OwnFacts, FilesInv, FilesTyped, NEW p \in Proc, failed \in [Proc -> BOOLEAN],
         NEW t \in Tx, journal[t].state \notin Terminal,
         NEW m, IsManifest(m), PlanOf(t, m), \A s \in Targets(m) : Wrote(t, s) => s \in m.kept,
         NEW left, ~failed[p] => Undone(t, m, left), NEW r, journal' = journal,
         \/ /\ file[r] \notin {m.before[r], m.after[r]}
            /\ failed' = [failed EXCEPT ![p] = TRUE] /\ file' = file
         \/ file[r] = m.before[r] /\ file' = file /\ failed' = failed
         \/ /\ file[r] = m.after[r]
            /\ \E o \in Outcomes :
                 /\ file' = IF o = "lost" THEN file ELSE [file EXCEPT ![r] = BeforeBytes(m, r)]
                 /\ failed' = [failed EXCEPT ![p] = @ \/ o = "lost"],
         r \in Targets(m)
  PROVE  /\ FilesInv'
         /\ (\A s \in Targets(m) : Wrote(t, s) => s \in m.kept)'
         /\ ~failed'[p] => Undone(t, m, left \ {r})'
<1>1. r \in Ref /\ Targets(m) \subseteq Ref
  BY DEF IsManifest, Targets
<1>2. /\ t \notin In(r, m.before[r]) /\ t \in In(r, m.after[r])
  BY PlanImages
<1>3. CASE file' = file
  <2>1. FilesInv' /\ \A s : Wrote(t, s)' <=> Wrote(t, s)
    BY <1>3, FilesIdle
  <2>2. ASSUME ~failed'[p]  PROVE Undone(t, m, left \ {r})
    <3>1. ~failed[p] /\ file[r] = m.before[r]
      <4>1. CASE file[r] = m.before[r] /\ failed' = failed
        BY <2>2, <4>1
      <4>2. CASE failed' = [failed EXCEPT ![p] = TRUE]
        BY <2>2, <4>2
      <4>3. ASSUME NEW o \in Outcomes, file[r] = m.after[r],
                   file' = IF o = "lost" THEN file ELSE [file EXCEPT ![r] = BeforeBytes(m, r)],
                   failed' = [failed EXCEPT ![p] = @ \/ o = "lost"]
            PROVE  FALSE
        <5>1. o # "lost"
          BY <2>2, <4>3
        <5>2. file'[r] = BeforeBytes(m, r)
          BY <1>1, <4>3, <5>1 DEF FilesTyped
        <5>3. r \in m.kept
          BY <1>2, <4>3 DEF Wrote
        <5>4. file'[r] = m.before[r]
          BY <5>2, <5>3 DEF BeforeBytes
        <5> QED  BY <1>2, <1>3, <4>3, <5>4
      <4> QED  BY <4>1, <4>2, <4>3
    <3>2. ~Wrote(t, r)
      BY <1>2, <3>1 DEF Wrote
    <3> QED  BY <3>1, <3>2 DEF Undone
  <2>3. Undone(t, m, left \ {r}) => Undone(t, m, left \ {r})'
    BY <2>1 DEF Undone
  <2> QED  BY <2>1, <2>2, <2>3
<1>4. CASE file' # file
  <2>1. PICK o \in Outcomes :
          /\ file[r] = m.after[r] /\ file' = [file EXCEPT ![r] = BeforeBytes(m, r)]
          /\ failed' = [failed EXCEPT ![p] = @ \/ o = "lost"]
    BY <1>4
  <2>2. r \in m.kept /\ Wrote(t, r)
    BY <1>2, <2>1 DEF Wrote
  <2>3. file' = [file EXCEPT ![r] = m.before[r]]
    BY <2>1, <2>2 DEF BeforeBytes
  <2>4. Exists(t)
    BY <2>2 DEF FilesInv, Told, PlanOf
  <2>5. /\ FilesInv' /\ ~Wrote(t, r)'
        /\ \A s \in Ref \ {r} : Wrote(t, s)' <=> Wrote(t, s)
    BY <2>1, <2>3, <2>4, FilesBack
  <2>6. ~failed'[p] => ~failed[p]
    BY <2>1
  <2>7. ~failed'[p] => Undone(t, m, left \ {r})'
    BY <1>1, <2>5, <2>6 DEF Undone
  <2>8. (\A s \in Targets(m) : Wrote(t, s) => s \in m.kept)'
    BY <1>1, <2>5
  <2> QED  BY <2>5, <2>7, <2>8
<1> QED  BY <1>3, <1>4

-----------------------------------------------------------------------------
(* What each step of a close does to the files, and to where it stands.     *)

Sound(p) == FilesInv /\ AtWork(p)

LEMMA AtRest ==
  ASSUME NEW p, pc'[p] \in {"idle", "release", "register"}
  PROVE  AtWork(p)'
  BY DEF AtWork, CloseWork, InitWork, CloseLabels, Begun

\* Where a close stands after a step.
LEMMA CloseAt ==
  ASSUME NEW p, NEW l \in CloseLabels, NEW t, NEW m, NEW left,
         pc'[p] = l, job'[p] = t, mem'[p] = m, todo'[p] = left, PlanOf(t, m),
         l \notin {"planned", "recover"} => journal'[t].state \notin Terminal,
         l \in {"planned", "build", "attach", "prepare", "begin"} => m.attempted = {},
         l \in {"build", "attach", "prepare"} => ~Exists(t)',
         l \in {"prepare", "begin", "next", "replace", "recover"} => Valid(m) /\ left = Targets(m),
         l = "next" => Keeping(t, m)',
         l = "replace" => Exists(t)' /\ Writing(t, m)',
         l = "rollback" =>
            /\ left \subseteq Targets(m)
            /\ (\A r \in Targets(m) : Wrote(t, r) => r \in m.kept)'
            /\ ~failed'[p] => Undone(t, m, left)'
  PROVE  AtWork(p)'
<1>1. InitWork(p)'
  BY DEF InitWork, CloseLabels, Begun
<1>2. CloseWork(p)'
  BY DEF CloseWork, Keeping, Writing, Undone, Wrote, Exists
<1> QED  BY <1>1, <1>2 DEF AtWork

\* A rollback begins with every target to visit.
LEMMA NothingUndone ==
  ASSUME NEW t, NEW m
  PROVE  Undone(t, m, Targets(m))
  BY DEF Undone

LEMMA ReturnSound ==
  ASSUME TypeInv, FilesInv, NEW p \in Proc, Return(p), UNCHANGED disk
  PROVE  Sound(p)'
<1>1. pc'[p] = "idle"
  BY TypeParts DEF Return, Goto, ControlTyped
<1>2. file' = file /\ journal' = journal
  BY DEF disk
<1> QED  BY <1>1, <1>2, AtRest, FilesIdle DEF Sound

LEMMA PlanCloseSound ==
  ASSUME TypeInv, OwnFacts, NEW p \in Proc, Sound(p), NEW c \in CloseId, PlanClose(p, c)
  PROVE  Sound(p)'
<1>1. FilesInv'
  BY FilesIdle DEF PlanClose, disk, Sound
<1>2. PICK n : n = [PlanFor(c) EXCEPT !.lineage = LineageFor(PlanFor(c))]
  OBVIOUS
<1>3. PlanOf(c, PlanFor(c)) /\ PlanFor(c).attempted = {} /\ c \in Tx
  BY PlanMade, CloseLabelsFit DEF PlanClose, Sound
<1>4. PlanOf(c, n) /\ n.attempted = {}
  <2>1. /\ n.state = PlanFor(c).state /\ n.before = PlanFor(c).before
        /\ n.after = PlanFor(c).after /\ n.attempted = PlanFor(c).attempted
    BY <1>2 DEF PlanFor, NoManifest
  <2> QED  BY <1>3, <2>1 DEF PlanOf, Targets
<1>5. pc'[p] = "planned" /\ job'[p] = c /\ mem'[p] = n
  BY <1>2, TypeParts DEF PlanClose, Goto, ControlTyped, LocalTyped
<1>6. AtWork(p)'
  <2>1. PICK l : l = "planned"
    OBVIOUS
  <2> QED  BY <1>4, <1>5, <2>1, CloseAt DEF CloseLabels
<1> QED  BY <1>1, <1>6 DEF Sound

\* A close that goes on without a write.
LEMMA CloseMoves ==
  ASSUME TypeInv, NEW p \in Proc, Sound(p), pc[p] \in CloseLabels, NEW l \in CloseLabels,
         Goto(p, l), file' = file, journal' = journal, job' = job, mem' = mem, todo' = todo,
         failed' = failed,
         l \notin {"planned", "recover"} => journal[job[p]].state \notin Terminal,
         l \in {"planned", "build", "attach", "prepare", "begin"} => mem[p].attempted = {},
         l \in {"build", "attach", "prepare"} => ~Exists(job[p]),
         l \in {"prepare", "begin", "next", "replace", "recover"} =>
            Valid(mem[p]) /\ todo[p] = Targets(mem[p]),
         l = "next" => Keeping(job[p], mem[p]),
         l = "replace" => Exists(job[p]) /\ Writing(job[p], mem[p]),
         l = "rollback" =>
            /\ todo[p] \subseteq Targets(mem[p])
            /\ \A r \in Targets(mem[p]) : Wrote(job[p], r) => r \in mem[p].kept
            /\ ~failed[p] => Undone(job[p], mem[p], todo[p])
  PROVE  Sound(p)'
<1>1. PICK t, m, left : t = job[p] /\ m = mem[p] /\ left = todo[p]
  OBVIOUS
<1>2. FilesInv' /\ (Exists(t)' <=> Exists(t)) /\ \A r : Wrote(t, r)' <=> Wrote(t, r)
  BY FilesIdle DEF Sound
<1>3. pc'[p] = l
  BY TypeParts DEF Goto, ControlTyped
<1>4. PlanOf(t, m)
  BY <1>1 DEF Sound, AtWork, CloseWork
<1>5. /\ Keeping(t, m) => Keeping(t, m)'
      /\ Writing(t, m) => Writing(t, m)'
      /\ Undone(t, m, left) => Undone(t, m, left)'
  BY <1>2 DEF Keeping, Writing, Undone, InOrder
<1>6. AtWork(p)'
  BY <1>1, <1>2, <1>3, <1>4, <1>5, CloseAt
<1> QED  BY <1>2, <1>6 DEF Sound

LEMMA LockCloseSound ==
  ASSUME TypeInv, NEW p \in Proc, Sound(p), LockClose(p) \/ BuildManifest(p)
  PROVE  Sound(p)'
<1>1. CASE Return(p)
  BY <1>1, ReturnSound DEF LockClose, BuildManifest, Sound
<1>2. CASE ~Return(p)
  <2>1. PICK l \in {"build", "attach"} :
          /\ Goto(p, l) /\ UNCHANGED <<job, mem, todo, failed>> /\ UNCHANGED disk
          /\ (pc[p] = "planned" /\ ~Exists(job[p])) \/ pc[p] = "build"
    BY <1>2 DEF LockClose, BuildManifest
  <2>2. pc[p] \in CloseLabels /\ l \in CloseLabels
    BY <2>1 DEF CloseLabels
  <2>3. ~Exists(job[p]) /\ mem[p].attempted = {}
    BY <2>1, <2>2 DEF Sound, AtWork, CloseWork
  <2>4. journal[job[p]].state \notin Terminal
    BY <2>3 DEF Exists, NoManifest, Terminal
  <2>5. file' = file /\ journal' = journal
    BY <2>1 DEF disk
  <2> QED  BY <2>1, <2>2, <2>3, <2>4, <2>5, CloseMoves
<1> QED  BY <1>1, <1>2

\* The close that finds a file drifted has written nothing yet.
LEMMA AttachBytesSound ==
  ASSUME TypeInv, NEW p \in Proc, Sound(p), AttachBytes(p)
  PROVE  Sound(p)'
<1>1. PICK t, m : t = job[p] /\ m = mem[p]
  OBVIOUS
<1>2. /\ pc[p] \in CloseLabels /\ t \in Tx /\ PlanOf(t, m) /\ m.attempted = {} /\ ~Exists(t)
      /\ IsManifest(m)
  BY <1>1, TypeParts, JobOfLabel DEF AttachBytes, Sound, AtWork, CloseWork, CloseLabels, LocalTyped
<1>3. PICK n, drifted :
        /\ drifted = {r \in Targets(m) : file[r] # m.before[r]}
        /\ n = [m EXCEPT !.kept = {r \in Targets(m) : \A s \in drifted : r < s}]
        /\ mem' = [mem EXCEPT ![p] = n]
        /\ Goto(p, IF drifted = {} THEN "prepare" ELSE "rollback")
  <2> DEFINE drifted == {r \in Targets(m) : file[r] # m.before[r]}
             n == [m EXCEPT !.kept = {r \in Targets(m) : \A s \in drifted : r < s}]
  <2>1. /\ mem' = [mem EXCEPT ![p] = n]
        /\ Goto(p, IF drifted = {} THEN "prepare" ELSE "rollback")
    BY <1>1 DEF AttachBytes
  <2> QED  BY <2>1
<1>4. /\ file' = file /\ journal' = journal /\ job' = job /\ failed' = failed
      /\ todo' = [todo EXCEPT ![p] = Targets(m)]
  BY <1>1 DEF AttachBytes, disk
<1>5. /\ FilesInv' /\ ~Exists(t)' /\ \A r : Wrote(t, r)' <=> Wrote(t, r)
  BY <1>2, <1>4, FilesIdle DEF Sound
<1>6. /\ n.state = m.state /\ n.before = m.before /\ n.after = m.after
      /\ n.attempted = {} /\ Targets(n) = Targets(m)
      /\ n.kept = {r \in Targets(m) : \A s \in drifted : r < s}
  BY <1>2, <1>3 DEF IsManifest, NoManifest, Targets
<1>7. PlanOf(t, n)
  BY <1>2, <1>6 DEF PlanOf
<1>8. PICK l \in {"prepare", "rollback"} : pc'[p] = l /\ (l = "prepare" => Valid(n))
  <2>1. drifted = {} => Valid(n)
    BY <1>6 DEF Valid
  <2> QED  BY <1>3, <2>1, TypeParts DEF Goto, ControlTyped
<1>9. mem'[p] = n /\ todo'[p] = Targets(n) /\ job'[p] = t
  BY <1>1, <1>3, <1>4, <1>6, TypeParts DEF LocalTyped
<1>10. journal'[t].state \notin Terminal
  BY <1>5 DEF Exists, NoManifest, Terminal
<1>11. \A r \in Targets(n) : ~Wrote(t, r)'
  BY <1>2, <1>5, <1>7 DEF Sound, FilesInv, Told, PlanOf
<1>12. Undone(t, n, Targets(n))'
  BY DEF Undone
<1>13. AtWork(p)'
  BY <1>5, <1>6, <1>7, <1>8, <1>9, <1>10, <1>11, <1>12, CloseAt DEF CloseLabels
<1> QED  BY <1>5, <1>13 DEF Sound

\* A manifest is persisted, or the write of it fails.
LEMMA PersistSound ==
  ASSUME TypeInv, FilesInv, NEW p \in Proc, NEW t \in Tx, job[p] = t, NEW m, PlanOf(t, m),
         NEW good, NEW bad, Persist(p, m, good, bad), file' = file,
         m.state = "COMMITTED" => \A r \in Targets(m) : Wrote(t, r),
         m.state = "RECOVERED" => \A r \in Targets(m) : ~Wrote(t, r)
  PROVE  /\ FilesInv' /\ mem'[p] = m
         /\ \A u, r : Wrote(u, r)' <=> Wrote(u, r)
         /\ \/ pc'[p] = good /\ journal'[t] = m /\ Exists(t)'
            \/ pc'[p] = bad /\ journal' = journal
<1>1. JournalTyped
  BY TypeParts
<1>2. PICK o \in Outcomes :
        /\ journal' = IF o = "lost" THEN journal ELSE [journal EXCEPT ![t] = m]
        /\ Goto(p, IF o = "ok" THEN good ELSE bad)
        /\ mem' = [mem EXCEPT ![p] = m]
  BY DEF Persist
<1>3. FilesInv' /\ \A u, r : Wrote(u, r)' <=> Wrote(u, r)
  BY <1>1, <1>2, FilesEdit
<1>4. mem'[p] = m /\ pc'[p] = IF o = "ok" THEN good ELSE bad
  BY <1>2, TypeParts DEF Goto, ControlTyped, LocalTyped
<1>5. CASE o = "lost"
  BY <1>2, <1>3, <1>4, <1>5
<1>6. CASE o # "lost"
  <2>1. o = "ok"
    BY <1>6, OutcomeKinds
  <2>2. journal' = [journal EXCEPT ![t] = m]
    BY <1>2, <1>6
  <2>3. journal'[t] = m
    BY <1>1, <2>2 DEF JournalTyped
  <2>4. m # NoManifest
    BY DEF PlanOf, NoManifest, States
  <2> QED  BY <1>3, <1>4, <2>1, <2>3, <2>4 DEF Exists
<1> QED  BY <1>5, <1>6

\* A close that persists a manifest goes on, or starts to roll back.
LEMMA ClosePersists ==
  ASSUME TypeInv, NEW p \in Proc, Sound(p), pc[p] \in {"prepare", "begin", "next"},
         NEW m, NEW good \in {"begin", "next", "replace", "release"},
         Persist(p, m, good, "rollback"), file' = file, job' = job, todo' = todo,
         m.state \in States \ {"RECOVERED"}, m.before = mem[p].before, m.after = mem[p].after,
         m.kept = mem[p].kept,
         m.state = "COMMITTED" => good = "release" /\ \A r \in Targets(m) : Wrote(job[p], r),
         good = "begin" => m.attempted = {},
         good = "next" => Keeping(job[p], m)',
         good = "replace" => Writing(job[p], m)'
  PROVE  Sound(p)'
<1>1. PICK t : t = job[p]
  OBVIOUS
<1>2. /\ PlanOf(t, mem[p]) /\ Valid(mem[p]) /\ todo[p] = Targets(mem[p])
      /\ journal[t].state \notin Terminal /\ t \in Tx
  BY <1>1, TypeParts, JobOfLabel DEF Sound, AtWork, CloseWork, CloseLabels
<1>3. PlanOf(t, m) /\ Valid(m) /\ Targets(m) = Targets(mem[p])
  BY <1>2 DEF PlanOf, Valid, Targets
<1>4. /\ FilesInv' /\ mem'[p] = m
      /\ \A u, r : Wrote(u, r)' <=> Wrote(u, r)
      /\ \/ pc'[p] = good /\ journal'[t] = m /\ Exists(t)'
         \/ pc'[p] = "rollback" /\ journal' = journal
  BY <1>1, <1>2, <1>3, PersistSound DEF Sound
<1>5. CASE pc'[p] = "rollback" /\ journal' = journal
  <2>1. (\A r \in Targets(m) : Wrote(t, r) => r \in m.kept)'
    BY <1>3 DEF Valid
  <2>2. Undone(t, m, Targets(m))'
    BY DEF Undone
  <2>3. AtWork(p)'
    BY <1>1, <1>2, <1>3, <1>4, <1>5, <2>1, <2>2, CloseAt DEF CloseLabels
  <2> QED  BY <1>4, <2>3 DEF Sound
<1>6. CASE pc'[p] = good /\ journal'[t] = m /\ Exists(t)'
  <2>1. CASE good = "release"
    BY <1>4, <1>6, <2>1, AtRest DEF Sound
  <2>2. CASE good # "release"
    <3>1. journal'[t].state \notin Terminal /\ good \in CloseLabels
      BY <1>6, <2>2 DEF Terminal, CloseLabels
    <3>2. AtWork(p)'
      BY <1>1, <1>2, <1>3, <1>4, <1>6, <2>2, <3>1, CloseAt
    <3> QED  BY <1>4, <3>2 DEF Sound
  <2> QED  BY <2>1, <2>2
<1> QED  BY <1>4, <1>5, <1>6

LEMMA WriteManifestSound ==
  ASSUME TypeInv, NEW p \in Proc, Sound(p), Prepared(p), WritePrepared(p) \/ WriteApplying(p)
  PROVE  Sound(p)'
<1>1. /\ file' = file /\ job' = job /\ todo' = todo
  BY DEF WritePrepared, WriteApplying
<1>2. DOMAIN mem[p] = DOMAIN NoManifest
  BY TypeParts DEF LocalTyped, IsManifest
<1>3. CASE WritePrepared(p)
  <2>1. /\ pc[p] = "prepare" /\ Persist(p, mem[p], "begin", "rollback")
        /\ mem[p].state = "PREPARED" /\ mem[p].attempted = {}
    BY <1>3 DEF WritePrepared, Prepared, Sound, AtWork, CloseWork, CloseLabels
  <2>2. mem[p].state \in States \ {"RECOVERED"} /\ mem[p].state # "COMMITTED"
    BY <2>1 DEF States
  <2> QED  BY <1>1, <2>1, <2>2, ClosePersists
<1>4. CASE WriteApplying(p)
  <2>1. PICK m : m = [mem[p] EXCEPT !.state = "APPLYING"]
    OBVIOUS
  <2>2. /\ pc[p] = "begin" /\ Persist(p, m, "next", "rollback") /\ mem[p].attempted = {}
    BY <1>4, <2>1 DEF WriteApplying, Sound, AtWork, CloseWork, CloseLabels
  <2>3. /\ m.state \in States \ {"RECOVERED"} /\ m.state # "COMMITTED"
        /\ m.before = mem[p].before /\ m.after = mem[p].after /\ m.kept = mem[p].kept
        /\ m.attempted = {}
    BY <1>2, <2>1, <2>2 DEF NoManifest, States
  <2>4. Keeping(job[p], m)'
    BY <2>3 DEF Keeping, InOrder
  <2>5. PICK t : t = job[p] /\ t = job'[p]
    BY <1>1
  <2>6. Keeping(t, m)'
    BY <2>3 DEF Keeping, InOrder
  <2> QED  BY <1>1, <2>2, <2>3, <2>4, <2>5, <2>6, ClosePersists
<1> QED  BY <1>3, <1>4

LEMMA AttemptTargetSound ==
  ASSUME TypeInv, NEW p \in Proc, Sound(p), Prepared(p), AttemptTarget(p)
  PROVE  Sound(p)'
<1>1. /\ file' = file /\ job' = job /\ todo' = todo /\ failed' = failed /\ pc[p] = "next"
      /\ mem[p].state = "APPLYING"
  BY DEF AttemptTarget, Prepared
<1>2. /\ IsManifest(mem[p]) /\ job[p] \in Tx
      /\ Keeping(job[p], mem[p]) /\ Valid(mem[p]) /\ todo[p] = Targets(mem[p])
      /\ journal[job[p]].state \notin Terminal
  BY <1>1, TypeParts, JobOfLabel DEF LocalTyped, Sound, AtWork, CloseWork, CloseLabels
<1>3. PICK r \in Ref :
        /\ IsFirst(r, Targets(mem[p]) \ mem[p].attempted)
        /\ \/ /\ file[r] = mem[p].before[r]
              /\ Persist(p, [mem[p] EXCEPT !.attempted = @ \union {r}], "replace", "rollback")
           \/ Goto(p, "rollback") /\ UNCHANGED <<journal, mem, faults>>
  BY DEF AttemptTarget
<1>4. CASE Goto(p, "rollback") /\ UNCHANGED <<journal, mem, faults>>
  <2>1. \A s \in Targets(mem[p]) : Wrote(job[p], s) => s \in mem[p].kept
    BY <1>2 DEF Valid
  <2>2. Undone(job[p], mem[p], todo[p])
    BY <1>2 DEF Undone
  <2> QED  BY <1>1, <1>2, <1>4, <2>1, <2>2, CloseMoves DEF CloseLabels
<1>5. CASE /\ file[r] = mem[p].before[r]
           /\ Persist(p, [mem[p] EXCEPT !.attempted = @ \union {r}], "replace", "rollback")
  <2>1. PICK m : m = [mem[p] EXCEPT !.attempted = @ \union {r}]
    OBVIOUS
  <2>2. /\ m.attempted = mem[p].attempted \union {r} /\ m.before = mem[p].before
        /\ m.after = mem[p].after /\ m.kept = mem[p].kept /\ m.state = "APPLYING"
    BY <1>1, <1>2, <2>1 DEF IsManifest, NoManifest
  <2>3. r \in Targets(mem[p]) /\ r \notin mem[p].attempted
    BY <1>3 DEF IsFirst
  <2>4. PICK t \in Tx : t = job[p]
    BY <1>2
  <2>5. Writing(t, m)'
    BY <1>1, <1>2, <1>3, <1>5, <2>2, <2>3, <2>4, Announced
  <2>6. Writing(job[p], m)'
    BY <1>1, <2>4, <2>5 DEF Writing, Wrote
  <2>7. m.state \in States \ {"RECOVERED"} /\ m.state # "COMMITTED"
    BY <2>2 DEF States
  <2>8. Persist(p, m, "replace", "rollback")
    BY <1>5, <2>1
  <2> QED  BY <1>1, <2>2, <2>6, <2>7, <2>8, ClosePersists
<1> QED  BY <1>3, <1>4, <1>5

LEMMA CommitCloseSound ==
  ASSUME TypeInv, NEW p \in Proc, Sound(p), CommitClose(p)
  PROVE  Sound(p)'
<1>1. /\ file' = file /\ job' = job /\ todo' = todo /\ pc[p] = "next"
      /\ mem[p].attempted = Targets(mem[p])
  BY DEF CommitClose
<1>2. IsManifest(mem[p]) /\ Keeping(job[p], mem[p])
  BY <1>1, TypeParts DEF LocalTyped, Sound, AtWork, CloseWork, CloseLabels
<1>3. PICK m : m = [mem[p] EXCEPT !.state = "COMMITTED"]
  OBVIOUS
<1>4. /\ m.before = mem[p].before /\ m.after = mem[p].after /\ m.kept = mem[p].kept
      /\ m.state = "COMMITTED" /\ Targets(m) = Targets(mem[p])
  BY <1>2, <1>3 DEF IsManifest, NoManifest, Targets
<1>5. \A r \in Targets(m) : Wrote(job[p], r)
  BY <1>1, <1>2, <1>4 DEF Keeping
<1>6. Persist(p, m, "release", "rollback") /\ m.state \in States \ {"RECOVERED"}
  BY <1>3, <1>4 DEF CommitClose, States
<1> QED  BY <1>1, <1>4, <1>5, <1>6, ClosePersists

\* What a rollback that has not failed has restored is RECOVERED.
LEMMA FinishRollbackSound ==
  ASSUME TypeInv, NEW p \in Proc, Sound(p), FinishRollback(p)
  PROVE  Sound(p)'
<1>1. file' = file /\ pc[p] = "rollback" /\ todo[p] = {}
  BY DEF FinishRollback
<1>2. PICK t : t = job[p]
  OBVIOUS
<1>3. /\ t \in Tx /\ PlanOf(t, mem[p]) /\ IsManifest(mem[p])
      /\ ~failed[p] => Undone(t, mem[p], {})
  BY <1>1, <1>2, TypeParts, JobOfLabel DEF LocalTyped, Sound, AtWork, CloseWork, CloseLabels
<1>4. PICK m : m = IF failed[p] THEN [mem[p] EXCEPT !.state = "PARTIAL"]
                   ELSE [mem[p] EXCEPT !.state = "RECOVERED",
                                       !.stamp = LastStamp(CloseId \ {job[p]}) + 1]
  OBVIOUS
<1>5. /\ m.before = mem[p].before /\ m.after = mem[p].after
      /\ m.state = IF failed[p] THEN "PARTIAL" ELSE "RECOVERED"
  BY <1>3, <1>4 DEF IsManifest, NoManifest
<1>6. PlanOf(t, m) /\ Targets(m) = Targets(mem[p])
  BY <1>3, <1>5 DEF PlanOf, Targets, States
<1>7. m.state # "COMMITTED" /\ (m.state = "RECOVERED" => \A r \in Targets(m) : ~Wrote(t, r))
  BY <1>3, <1>5, <1>6 DEF Undone
<1>8. Persist(p, m, "release", "release")
  BY <1>4 DEF FinishRollback
<1>9. FilesInv' /\ pc'[p] = "release"
  BY <1>1, <1>2, <1>3, <1>6, <1>7, <1>8, PersistSound DEF Sound
<1> QED  BY <1>9, AtRest DEF Sound

LEMMA ReplaceTargetSound ==
  ASSUME TypeInv, OwnFacts, NEW p \in Proc, Sound(p), ReplaceTarget(p)
  PROVE  Sound(p)'
<1>1. /\ journal' = journal /\ job' = job /\ mem' = mem /\ todo' = todo /\ failed' = failed
      /\ pc[p] = "replace"
  BY DEF ReplaceTarget
<1>2. PICK t, m : t = job[p] /\ m = mem[p]
  OBVIOUS
<1>3. /\ IsManifest(m) /\ t \in Tx /\ PlanOf(t, m) /\ Valid(m) /\ todo[p] = Targets(m)
      /\ journal[t].state \notin Terminal /\ Exists(t) /\ Writing(t, m)
  BY <1>1, <1>2, TypeParts, JobOfLabel DEF LocalTyped, Sound, AtWork, CloseWork, CloseLabels
<1>4. PICK r \in Ref, o \in Outcomes :
        /\ IsLast(r, m.attempted)
        /\ file' = IF o = "lost" THEN file ELSE [file EXCEPT ![r] = m.after[r]]
        /\ Goto(p, IF o = "ok" THEN "next" ELSE "rollback")
  BY <1>2 DEF ReplaceTarget
<1>5. CASE o = "lost"
  <2>1. Goto(p, "rollback") /\ file' = file
    BY <1>4, <1>5
  <2>2. \A s \in Targets(mem[p]) : Wrote(job[p], s) => s \in mem[p].kept
    BY <1>2, <1>3 DEF Valid
  <2>3. Undone(job[p], mem[p], todo[p])
    BY <1>2, <1>3 DEF Undone
  <2> QED  BY <1>1, <1>2, <1>3, <2>1, <2>2, <2>3, CloseMoves DEF CloseLabels
<1>6. CASE o # "lost"
  <2>1. Goto(p, "next") /\ file' = [file EXCEPT ![r] = m.after[r]]
    BY <1>4, <1>6, OutcomeKinds
  <2>2. FilesInv' /\ Keeping(t, m)'
    BY <1>1, <1>3, <1>4, <2>1, TypeParts, Kept DEF Sound
  <2>3. pc'[p] = "next"
    BY <2>1, TypeParts DEF Goto, ControlTyped
  <2>4. AtWork(p)'
    BY <1>1, <1>2, <1>3, <2>2, <2>3, CloseAt DEF CloseLabels
  <2> QED  BY <2>2, <2>4 DEF Sound
<1> QED  BY <1>5, <1>6

LEMMA RollbackTargetSound ==
  ASSUME TypeInv, OwnFacts, NEW p \in Proc, Sound(p), RollbackTarget(p)
  PROVE  Sound(p)'
<1>1. /\ journal' = journal /\ pc' = pc /\ job' = job /\ mem' = mem /\ pc[p] = "rollback"
  BY DEF RollbackTarget
<1>2. PICK t, m, left : t = job[p] /\ m = mem[p] /\ left = todo[p]
  OBVIOUS
<1>3. /\ IsManifest(m) /\ t \in Tx /\ PlanOf(t, m) /\ left \subseteq Targets(m)
      /\ journal[t].state \notin Terminal
      /\ \A s \in Targets(m) : Wrote(t, s) => s \in m.kept
      /\ ~failed[p] => Undone(t, m, left)
  BY <1>1, <1>2, TypeParts, JobOfLabel DEF LocalTyped, Sound, AtWork, CloseWork, CloseLabels
<1>4. PICK r \in Ref :
        /\ IsLast(r, left)
        /\ todo' = [todo EXCEPT ![p] = left \ {r}]
        /\ \/ /\ file[r] \notin {m.before[r], m.after[r]}
              /\ failed' = [failed EXCEPT ![p] = TRUE]
              /\ file' = file
           \/ file[r] = m.before[r] /\ file' = file /\ failed' = failed
           \/ /\ file[r] = m.after[r]
              /\ \E o \in Outcomes :
                   /\ file' = IF o = "lost" THEN file ELSE [file EXCEPT ![r] = BeforeBytes(m, r)]
                   /\ failed' = [failed EXCEPT ![p] = @ \/ o = "lost"]
  BY <1>2 DEF RollbackTarget
<1>5. r \in Targets(m)
  BY <1>3, <1>4 DEF IsLast
<1>6. FilesTyped /\ failed \in [Proc -> BOOLEAN]
  BY TypeParts DEF LocalTyped
<1>7. /\ FilesInv'
      /\ (\A s \in Targets(m) : Wrote(t, s) => s \in m.kept)'
      /\ ~failed'[p] => Undone(t, m, left \ {r})'
  BY <1>1, <1>3, <1>4, <1>5, <1>6, Visited DEF Sound
<1>8. todo'[p] = left \ {r}
  BY <1>4, TypeParts DEF LocalTyped
<1>9. AtWork(p)'
  BY <1>1, <1>2, <1>3, <1>7, <1>8, CloseAt DEF CloseLabels
<1> QED  BY <1>7, <1>9 DEF Sound

\* A recovery that is not at fault takes up a close that is not finished.
LEMMA RecoverySound ==
  ASSUME TypeInv, NEW p \in Proc, Sound(p), ~upset',
         (\E c \in CloseId : ReadForRecovery(p, c)) \/ LockForRecovery(p)
  PROVE  Sound(p)'
<1>1. ASSUME NEW c \in CloseId, ReadForRecovery(p, c)  PROVE Sound(p)'
  <2>1. PICK m : m = journal[c]
    OBVIOUS
  <2>2. /\ Exists(c) /\ Valid(m) /\ m.state \notin Terminal /\ c \in Tx
        /\ UNCHANGED disk
    BY <1>1, <2>1, CloseLabelsFit DEF ReadForRecovery
  <2>3. PlanOf(c, m)
    BY <2>1, <2>2 DEF Sound, FilesInv, Told
  <2>4. pc'[p] = "recover" /\ job'[p] = c /\ mem'[p] = m /\ todo'[p] = Targets(m)
    BY <1>1, <2>1, TypeParts DEF ReadForRecovery, Goto, ControlTyped, LocalTyped
  <2>5. FilesInv'
    BY <2>2, FilesIdle DEF disk, Sound
  <2>6. AtWork(p)'
    <3>1. PICK l : l = "recover"
      OBVIOUS
    <3> QED  BY <2>2, <2>3, <2>4, <3>1, CloseAt DEF CloseLabels
  <2> QED  BY <2>5, <2>6 DEF Sound
<1>2. CASE LockForRecovery(p)
  <2>1. CASE Return(p)
    BY <1>2, <2>1, ReturnSound DEF LockForRecovery, Sound
  <2>2. CASE ~Return(p)
    <3>1. /\ Goto(p, "rollback") /\ pc[p] = "recover" /\ UNCHANGED <<job, mem, todo, failed>>
          /\ journal[job[p]].state \notin Terminal /\ file' = file /\ journal' = journal
      BY <1>2, <2>2 DEF LockForRecovery, disk
    <3>2. Valid(mem[p]) /\ todo[p] = Targets(mem[p])
      BY <3>1 DEF Sound, AtWork, CloseWork, CloseLabels
    <3>3. \A s \in Targets(mem[p]) : Wrote(job[p], s) => s \in mem[p].kept
      BY <3>2 DEF Valid
    <3>4. Undone(job[p], mem[p], todo[p])
      BY <3>2 DEF Undone
    <3> QED  BY <3>1, <3>2, <3>3, <3>4, CloseMoves DEF CloseLabels
  <2> QED  BY <2>1, <2>2
<1> QED  BY <1>1, <1>2

-----------------------------------------------------------------------------
(* The same for inits and amendments.                                       *)

\* Where an init stands after a step.
LEMMA PlannedAt ==
  ASSUME NEW p, NEW l \in {"init", "admit", "open"}, NEW t, NEW m,
         pc'[p] = l, job'[p] = t, mem'[p] = m,
         PlanOf(t, m), m.state = "PREPARED", m.attempted = {}, l = "open" => ~Exists(t)'
  PROVE  AtWork(p)'
<1>1. CloseWork(p)'
  BY DEF CloseWork, CloseLabels
<1>2. InitWork(p)'
  BY DEF InitWork, Exists, Begun
<1> QED  BY <1>1, <1>2 DEF AtWork

LEMMA BegunAt ==
  ASSUME NEW p, NEW l \in Begun, NEW t, NEW m, NEW left,
         pc'[p] = l, job'[p] = t, todo'[p] = left, journal'[t] = m,
         Exists(t)', m.state \notin Terminal,
         l # "restore" => left = Targets(m),
         l = "start" => m.attempted = {},
         l = "change" => Keeping(t, m)',
         l = "write" => Writing(t, m)',
         l \in {"record", "refresh", "commit"} => \A r \in Targets(m) : Wrote(t, r)',
         l = "restore" /\ ~failed'[p] => Undone(t, m, left)'
  PROVE  AtWork(p)'
<1>1. CloseWork(p)'
  BY DEF CloseWork, CloseLabels, Begun
<1>2. InitWork(p)'
  BY DEF InitWork, Keeping, Writing, Undone, Wrote, Exists, Begun
<1> QED  BY <1>1, <1>2 DEF AtWork

\* The manifest of an init that has begun.
LEMMA BegunIs ==
  ASSUME TypeInv, NEW p \in Proc, Sound(p), pc[p] \in Begun
  PROVE  /\ job[p] \in Tx /\ Exists(job[p]) /\ PlanOf(job[p], journal[job[p]])
         /\ IsManifest(journal[job[p]]) /\ journal[job[p]].state \notin Terminal
         /\ pc[p] # "restore" => todo[p] = Targets(journal[job[p]])
<1>1. job[p] \in Tx
  BY TypeParts, JobOfLabel DEF Begun, InitLabels
<1>2. /\ Exists(job[p]) /\ journal[job[p]].state \notin Terminal
      /\ pc[p] # "restore" => todo[p] = Targets(journal[job[p]])
  BY DEF Sound, AtWork, InitWork, Begun
<1>3. IsManifest(journal[job[p]])
  BY <1>1, TypeParts DEF JournalTyped
<1>4. PlanOf(job[p], journal[job[p]])
  BY <1>1, <1>2 DEF Sound, FilesInv, Told
<1> QED  BY <1>1, <1>2, <1>3, <1>4

LEMMA PlanInitSound ==
  ASSUME TypeInv, OwnFacts, NEW p \in Proc, Sound(p), NEW t \in InitId \union AmendId,
         PlanInit(p, t)
  PROVE  Sound(p)'
<1>1. FilesInv'
  BY FilesIdle DEF PlanInit, disk, Sound
<1>2. PICK n, x : n = [PlanFor(t) EXCEPT !.lineage = x] /\ mem' = [mem EXCEPT ![p] = n]
  BY DEF PlanInit
<1>3. /\ PlanOf(t, PlanFor(t)) /\ PlanFor(t).attempted = {} /\ t \in Tx
      /\ PlanFor(t).state = "PREPARED"
  BY PlanMade, InitLabelsFit DEF PlanInit, Sound
<1>4. PlanOf(t, n) /\ n.attempted = {} /\ n.state = "PREPARED"
  <2>1. /\ n.state = PlanFor(t).state /\ n.before = PlanFor(t).before
        /\ n.after = PlanFor(t).after /\ n.attempted = PlanFor(t).attempted
    BY <1>2 DEF PlanFor, NoManifest
  <2> QED  BY <1>3, <2>1 DEF PlanOf, Targets
<1>5. pc'[p] = "init" /\ job'[p] = t /\ mem'[p] = n
  BY <1>2, TypeParts DEF PlanInit, Goto, ControlTyped, LocalTyped
<1>6. AtWork(p)'
  <2>1. PICK l \in {"init", "admit", "open"} : l = "init"
    OBVIOUS
  <2> QED  BY <1>4, <1>5, <2>1, PlannedAt
<1> QED  BY <1>1, <1>6 DEF Sound

LEMMA AdmissionSound ==
  ASSUME TypeInv, NEW p \in Proc, Sound(p), LockInit(p) \/ AdmitInit(p)
  PROVE  Sound(p)'
<1>1. CASE Return(p)
  BY <1>1, ReturnSound DEF LockInit, AdmitInit, Sound
<1>2. CASE ~Return(p)
  <2>1. PICK l \in {"admit", "open"} :
          /\ Goto(p, l) /\ UNCHANGED <<job, mem, todo, failed>> /\ UNCHANGED disk
          /\ pc[p] \in {"init", "admit"} /\ (l = "open" => ~Exists(job[p]))
    BY <1>2 DEF LockInit, AdmitInit
  <2>2. PlanOf(job[p], mem[p]) /\ mem[p].state = "PREPARED" /\ mem[p].attempted = {}
    BY <2>1 DEF Sound, AtWork, InitWork
  <2>3. FilesInv' /\ \A t : Exists(t)' <=> Exists(t)
    BY <2>1, FilesIdle DEF disk, Sound
  <2>4. pc'[p] = l
    BY <2>1, TypeParts DEF Goto, ControlTyped
  <2>5. PICK t, m : t = job[p] /\ m = mem[p]
    OBVIOUS
  <2>6. /\ job'[p] = t /\ mem'[p] = m
        /\ PlanOf(t, m) /\ m.state = "PREPARED" /\ m.attempted = {}
        /\ l = "open" => ~Exists(t)'
    BY <2>1, <2>2, <2>3, <2>5
  <2>7. AtWork(p)'
    BY <2>4, <2>6, PlannedAt
  <2> QED  BY <2>3, <2>7 DEF Sound
<1> QED  BY <1>1, <1>2

\* The manifest of an init begins to exist.
LEMMA OpenInitSound ==
  ASSUME TypeInv, NEW p \in Proc, Sound(p), OpenInit(p)
  PROVE  Sound(p)'
<1>1. file' = file /\ job' = job /\ pc[p] = "open" /\ todo' = [todo EXCEPT ![p] = Targets(mem[p])]
  BY DEF OpenInit
<1>2. PICK t : t = job[p]
  OBVIOUS
<1>3. /\ t \in Tx /\ PlanOf(t, mem[p]) /\ IsManifest(mem[p]) /\ ~Exists(t)
      /\ mem[p].attempted = {} /\ mem[p].state = "PREPARED"
  BY <1>1, <1>2, TypeParts, JobOfLabel DEF LocalTyped, Sound, AtWork, InitWork, InitLabels
<1>4. PICK m : m = [mem[p] EXCEPT !.kept = Targets(mem[p])]
  OBVIOUS
<1>5. /\ m.before = mem[p].before /\ m.after = mem[p].after /\ m.state = "PREPARED"
      /\ m.attempted = {} /\ Targets(m) = Targets(mem[p])
  BY <1>3, <1>4 DEF IsManifest, NoManifest, Targets
<1>6. PlanOf(t, m) /\ Persist(p, m, "start", "release")
  BY <1>3, <1>4, <1>5 DEF PlanOf, OpenInit
<1>7. /\ FilesInv'
      /\ \/ pc'[p] = "start" /\ journal'[t] = m /\ Exists(t)'
         \/ pc'[p] = "release"
  BY <1>1, <1>2, <1>3, <1>5, <1>6, PersistSound DEF Sound
<1>8. CASE pc'[p] = "release"
  BY <1>7, <1>8, AtRest DEF Sound
<1>9. CASE pc'[p] = "start" /\ journal'[t] = m /\ Exists(t)'
  <2>1. job'[p] = t /\ todo'[p] = Targets(m) /\ m.state \notin Terminal
    BY <1>1, <1>2, <1>5, TypeParts DEF LocalTyped, Terminal
  <2>2. PICK l : l = "start"
    OBVIOUS
  <2>3. AtWork(p)'
    BY <1>5, <1>9, <2>1, <2>2, BegunAt DEF Begun
  <2> QED  BY <1>7, <2>3 DEF Sound
<1> QED  BY <1>7, <1>8, <1>9

\* An init that goes on without a write.
LEMMA InitGoesOn ==
  ASSUME TypeInv, NEW p \in Proc, Sound(p), pc[p] \in Begun \ {"restore"}, NEW l \in Begun,
         Goto(p, l), file' = file, journal' = journal, job' = job, todo' = todo,
         l # "start", l \notin {"change", "write"},
         l \in {"record", "refresh", "commit"} => pc[p] \in {"record", "refresh", "commit"}
  PROVE  Sound(p)'
<1>1. PICK t, m : t = job[p] /\ m = journal[t]
  OBVIOUS
<1>2. t \in Tx /\ Exists(t) /\ m.state \notin Terminal /\ todo[p] = Targets(m)
  BY <1>1, BegunIs
<1>3. FilesInv' /\ Exists(t)' /\ \A r : Wrote(t, r)' <=> Wrote(t, r)
  BY <1>2, FilesIdle DEF Sound
<1>4. pc'[p] = l
  BY TypeParts DEF Goto, ControlTyped
<1>5. pc[p] \in {"record", "refresh", "commit"} => \A r \in Targets(m) : Wrote(t, r)
  BY <1>1 DEF Sound, AtWork, InitWork
<1>6. Undone(t, m, Targets(m))'
  BY DEF Undone
<1>8. l \in {"record", "refresh", "commit"} => \A r \in Targets(m) : Wrote(t, r)'
  BY <1>3, <1>5
<1>9. AtWork(p)'
  BY <1>1, <1>2, <1>3, <1>4, <1>6, <1>8, BegunAt DEF Begun
<1> QED  BY <1>3, <1>9 DEF Sound

\* An init that has begun persists its manifest.
LEMMA InitPersists ==
  ASSUME TypeInv, NEW p \in Proc, Sound(p), pc[p] \in Begun \ {"restore"},
         NEW m, NEW good \in {"change", "write", "release", "register"},
         Persist(p, m, good, "undo"), file' = file, job' = job, todo' = todo,
         m.state \in States \ {"RECOVERED"}, m.before = journal[job[p]].before,
         m.after = journal[job[p]].after,
         m.state = "COMMITTED" =>
            good \in {"release", "register"} /\ \A r \in Targets(m) : Wrote(job[p], r),
         good = "change" => Keeping(job[p], m)',
         good = "write" => Writing(job[p], m)'
  PROVE  Sound(p)'
<1>1. PICK t, n : t = job[p] /\ n = journal[t]
  OBVIOUS
<1>2. t \in Tx /\ Exists(t) /\ PlanOf(t, n) /\ n.state \notin Terminal /\ todo[p] = Targets(n)
  BY <1>1, BegunIs
<1>3. PlanOf(t, m) /\ Targets(m) = Targets(n)
  BY <1>1, <1>2 DEF PlanOf, Targets
<1>4. /\ FilesInv'
      /\ \/ pc'[p] = good /\ journal'[t] = m /\ Exists(t)'
         \/ pc'[p] = "undo" /\ journal' = journal
  BY <1>1, <1>2, <1>3, PersistSound DEF Sound
<1>5. CASE pc'[p] = "undo" /\ journal' = journal
  <2>1. Exists(t)'
    BY <1>2, <1>5 DEF Exists
  <2>2. PICK l : l = "undo"
    OBVIOUS
  <2>3. AtWork(p)'
    BY <1>1, <1>2, <1>5, <2>1, <2>2, BegunAt DEF Begun
  <2> QED  BY <1>4, <2>3 DEF Sound
<1>6. CASE pc'[p] = good /\ journal'[t] = m /\ Exists(t)'
  <2>1. CASE good \in {"release", "register"}
    BY <1>4, <1>6, <2>1, AtRest DEF Sound
  <2>2. CASE good \notin {"release", "register"}
    <3>1. m.state \notin Terminal /\ good \in {"change", "write"}
      BY <2>2 DEF Terminal
    <3>2. AtWork(p)'
      BY <1>1, <1>2, <1>3, <1>6, <3>1, BegunAt DEF Begun
    <3> QED  BY <1>4, <3>2 DEF Sound
  <2> QED  BY <2>1, <2>2
<1> QED  BY <1>4, <1>5, <1>6

LEMMA StartInitSound ==
  ASSUME TypeInv, NEW p \in Proc, Sound(p), StartInit(p) \/ CommitInit(p)
  PROVE  Sound(p)'
<1>1. /\ file' = file /\ job' = job /\ todo' = todo /\ pc[p] \in {"start", "commit"}
  BY DEF StartInit, CommitInit
<1>2. PICK n : n = journal[job[p]]
  OBVIOUS
<1>3. IsManifest(n) /\ pc[p] \in Begun \ {"restore"}
  BY <1>1, <1>2, BegunIs DEF Begun
<1>4. CASE StartInit(p)
  <2>1. PICK m : m = [n EXCEPT !.state = "APPLYING"]
    OBVIOUS
  <2>2. /\ m.before = n.before /\ m.after = n.after /\ m.state = "APPLYING"
        /\ m.attempted = n.attempted
    BY <1>3, <2>1 DEF IsManifest, NoManifest
  <2>3. n.attempted = {} /\ Persist(p, m, "change", "undo")
    BY <1>2, <1>4, <2>1 DEF StartInit, Sound, AtWork, InitWork
  <2>4. Keeping(job[p], m)'
    BY <2>2, <2>3 DEF Keeping, InOrder
  <2>5. m.state \in States \ {"RECOVERED"} /\ m.state # "COMMITTED"
    BY <2>2 DEF States
  <2> QED  BY <1>1, <1>2, <1>3, <2>2, <2>3, <2>4, <2>5, InitPersists
<1>5. CASE CommitInit(p)
  <2>1. PICK m : m = [n EXCEPT !.state = "COMMITTED"]
    OBVIOUS
  <2>2. /\ m.before = n.before /\ m.after = n.after /\ m.state = "COMMITTED"
        /\ Targets(m) = Targets(n)
    BY <1>3, <2>1 DEF IsManifest, NoManifest, Targets
  <2>3. PICK good \in {"release", "register"} : Persist(p, m, good, "undo")
    BY <1>2, <1>5, <2>1 DEF CommitInit
  <2>4. \A r \in Targets(m) : Wrote(job[p], r)
    BY <1>2, <1>5, <2>2 DEF CommitInit, Sound, AtWork, InitWork
  <2>5. m.state \in States \ {"RECOVERED"}
    BY <2>2 DEF States
  <2> QED  BY <1>1, <1>2, <1>3, <2>2, <2>3, <2>4, <2>5, InitPersists
<1> QED  BY <1>4, <1>5

LEMMA AttemptChangeSound ==
  ASSUME TypeInv, NEW p \in Proc, Sound(p), AttemptChange(p)
  PROVE  Sound(p)'
<1>1. /\ file' = file /\ job' = job /\ todo' = todo /\ failed' = failed /\ pc[p] = "change"
  BY DEF AttemptChange
<1>2. PICK t, n : t = job[p] /\ n = journal[t]
  OBVIOUS
<1>3. /\ IsManifest(n) /\ PlanOf(t, n) /\ t \in Tx /\ n.state \notin Terminal
      /\ pc[p] \in Begun \ {"restore"} /\ Keeping(t, n)
  BY <1>1, <1>2, BegunIs DEF Begun, Sound, AtWork, InitWork
<1>4. PICK r \in Ref :
        /\ IsFirst(r, Targets(n) \ n.attempted)
        /\ \/ /\ file[r] = n.before[r]
              /\ Persist(p, [n EXCEPT !.attempted = @ \union {r}], "write", "undo")
           \/ Goto(p, "undo") /\ journal' = journal
  BY <1>2 DEF AttemptChange
<1>5. CASE Goto(p, "undo") /\ journal' = journal
  <2>1. PICK l : l = "undo" /\ l \in Begun
    BY DEF Begun
  <2> QED  BY <1>1, <1>3, <1>5, <2>1, InitGoesOn
<1>6. CASE /\ file[r] = n.before[r]
           /\ Persist(p, [n EXCEPT !.attempted = @ \union {r}], "write", "undo")
  <2>1. PICK m : m = [n EXCEPT !.attempted = @ \union {r}]
    OBVIOUS
  <2>2. /\ m.attempted = n.attempted \union {r} /\ m.before = n.before
        /\ m.after = n.after /\ m.state = n.state
    BY <1>3, <2>1 DEF IsManifest, NoManifest
  <2>3. r \in Targets(n) /\ r \notin n.attempted
    BY <1>4 DEF IsFirst
  <2>4. Writing(t, m)'
    BY <1>1, <1>3, <1>4, <1>6, <2>2, <2>3, Announced
  <2>5. Writing(job[p], m)'
    BY <1>1, <1>2, <2>4 DEF Writing, Wrote
  <2>6. m.state \in States \ {"RECOVERED"} /\ m.state # "COMMITTED"
    BY <1>3, <2>2 DEF PlanOf, Terminal
  <2>7. Persist(p, m, "write", "undo")
    BY <1>6, <2>1
  <2> QED  BY <1>1, <1>2, <1>3, <2>2, <2>5, <2>6, <2>7, InitPersists
<1> QED  BY <1>4, <1>5, <1>6

LEMMA WriteChangeSound ==
  ASSUME TypeInv, OwnFacts, NEW p \in Proc, Sound(p), WriteChange(p)
  PROVE  Sound(p)'
<1>1. /\ journal' = journal /\ job' = job /\ todo' = todo /\ pc[p] = "write"
  BY DEF WriteChange
<1>2. PICK t, m : t = job[p] /\ m = journal[t]
  OBVIOUS
<1>3. /\ IsManifest(m) /\ PlanOf(t, m) /\ t \in Tx /\ m.state \notin Terminal /\ Exists(t)
      /\ pc[p] \in Begun \ {"restore"} /\ Writing(t, m) /\ todo[p] = Targets(m)
  BY <1>1, <1>2, BegunIs DEF Begun, Sound, AtWork, InitWork
<1>4. PICK r \in Ref, o \in Outcomes :
        /\ IsLast(r, m.attempted)
        /\ file' = IF o = "lost" THEN file ELSE [file EXCEPT ![r] = m.after[r]]
        /\ Goto(p, IF o = "lost" THEN "undo"
                   ELSE IF m.attempted # Targets(m) THEN "change"
                   ELSE IF job[p] \in InitId THEN "record" ELSE "refresh")
  BY <1>2 DEF WriteChange
<1>5. CASE o = "lost"
  <2>1. PICK l : l = "undo" /\ l \in Begun
    BY DEF Begun
  <2> QED  BY <1>1, <1>3, <1>4, <1>5, <2>1, InitGoesOn
<1>6. CASE o # "lost"
  <2>1. FilesInv' /\ Keeping(t, m)'
    BY <1>1, <1>2, <1>3, <1>4, <1>6, TypeParts, Kept DEF Sound
  <2>2. PICK l \in {"change", "record", "refresh"} :
          pc'[p] = l /\ (l # "change" => m.attempted = Targets(m))
    BY <1>4, <1>6, TypeParts DEF Goto, ControlTyped
  <2>3. l # "change" => \A s \in Targets(m) : Wrote(t, s)'
    BY <2>1, <2>2 DEF Keeping
  <2>4. Exists(t)' /\ job'[p] = t /\ todo'[p] = Targets(m) /\ journal'[t] = m
    BY <1>1, <1>2, <1>3 DEF Exists
  <2>5. AtWork(p)'
    BY <1>3, <2>1, <2>2, <2>3, <2>4, BegunAt DEF Begun
  <2> QED  BY <2>1, <2>5 DEF Sound
<1> QED  BY <1>5, <1>6

LEMMA RecordInitSound ==
  ASSUME TypeInv, NEW p \in Proc, Sound(p), RecordInit(p) \/ RefreshState(p)
  PROVE  Sound(p)'
<1>1. /\ file' = file /\ journal' = journal /\ job' = job /\ todo' = todo
      /\ pc[p] \in {"record", "register", "refresh"}
  BY DEF RecordInit, RefreshState, disk
<1>2. CASE pc[p] = "register"
  <2>1. pc'[p] = "release"
    BY <1>2, TypeParts DEF RecordInit, RefreshState, Goto, ControlTyped
  <2> QED  BY <1>1, <2>1, AtRest, FilesIdle DEF Sound
<1>3. CASE pc[p] # "register"
  <2>1. PICK l \in {"refresh", "commit", "undo"} : Goto(p, l)
    BY <1>1, <1>3 DEF RecordInit, RefreshState
  <2>2. l \in Begun /\ pc[p] \in Begun \ {"restore"} /\ pc[p] \in {"record", "refresh", "commit"}
    BY <1>1, <1>3 DEF Begun
  <2> QED  BY <1>1, <2>1, <2>2, InitGoesOn
<1> QED  BY <1>2, <1>3

LEMMA DiscardReceiptSound ==
  ASSUME TypeInv, NEW p \in Proc, Sound(p), DiscardReceipt(p)
  PROVE  Sound(p)'
<1>1. /\ file' = file /\ journal' = journal /\ job' = job /\ todo' = todo
      /\ pc[p] = "undo" /\ Goto(p, "restore")
  BY DEF DiscardReceipt
<1>2. PICK l : l = "restore" /\ l \in Begun /\ pc[p] \in Begun \ {"restore"}
  BY <1>1 DEF Begun
<1> QED  BY <1>1, <1>2, InitGoesOn

LEMMA RestoreTargetSound ==
  ASSUME TypeInv, OwnFacts, TodoMatches, NEW p \in Proc, Sound(p), RestoreTarget(p)
  PROVE  Sound(p)'
<1>1. journal' = journal /\ pc' = pc /\ job' = job /\ pc[p] = "restore"
  BY DEF RestoreTarget
<1>2. PICK t, m, left : t = job[p] /\ m = journal[t] /\ left = todo[p]
  OBVIOUS
<1>3. /\ IsManifest(m) /\ PlanOf(t, m) /\ t \in Tx /\ m.state \notin Terminal /\ Exists(t)
      /\ left \subseteq Targets(m)
      /\ ~failed[p] => Undone(t, m, left)
  BY <1>1, <1>2, BegunIs DEF Begun, Sound, AtWork, InitWork, TodoMatches
<1>4. PICK n : n = [m EXCEPT !.kept = Targets(m)]
  OBVIOUS
<1>5. /\ n.before = m.before /\ n.after = m.after /\ n.state = m.state
      /\ Targets(n) = Targets(m) /\ n.kept = Targets(m) /\ IsManifest(n)
  BY <1>3, <1>4, ManifestEdits DEF IsManifest, NoManifest, Targets
<1>6. /\ PlanOf(t, n) /\ (~failed[p] => Undone(t, n, left))
      /\ \A s \in Targets(n) : Wrote(t, s) => s \in n.kept
  BY <1>3, <1>5 DEF PlanOf, Undone
<1>7. PICK r \in Ref :
        /\ IsLast(r, left)
        /\ todo' = [todo EXCEPT ![p] = left \ {r}]
        /\ \/ /\ file[r] \notin {m.before[r], m.after[r]}
              /\ failed' = [failed EXCEPT ![p] = TRUE]
              /\ file' = file
           \/ file[r] = m.before[r] /\ file' = file /\ failed' = failed
           \/ /\ file[r] = m.after[r]
              /\ \E o \in Outcomes :
                   /\ file' = IF o = "lost" THEN file ELSE [file EXCEPT ![r] = m.before[r]]
                   /\ failed' = [failed EXCEPT ![p] = @ \/ o = "lost"]
  BY <1>2 DEF RestoreTarget
<1>8. r \in Targets(n)
  BY <1>3, <1>5, <1>7 DEF IsLast
<1>9. BeforeBytes(n, r) = m.before[r]
  BY <1>5, <1>8 DEF BeforeBytes
<1>10. FilesTyped /\ failed \in [Proc -> BOOLEAN]
  BY TypeParts DEF LocalTyped
<1>11. FilesInv' /\ (~failed'[p] => Undone(t, n, left \ {r})')
  <2>1. \/ /\ file[r] \notin {n.before[r], n.after[r]}
           /\ failed' = [failed EXCEPT ![p] = TRUE] /\ file' = file
        \/ file[r] = n.before[r] /\ file' = file /\ failed' = failed
        \/ /\ file[r] = n.after[r]
           /\ \E o \in Outcomes :
                /\ file' = IF o = "lost" THEN file ELSE [file EXCEPT ![r] = BeforeBytes(n, r)]
                /\ failed' = [failed EXCEPT ![p] = @ \/ o = "lost"]
    BY <1>5, <1>7, <1>9
  <2>2. FilesInv /\ journal[t].state \notin Terminal
    BY <1>2, <1>3 DEF Sound
  <2> QED  BY <1>1, <1>3, <1>5, <1>6, <1>8, <1>10, <2>1, <2>2, Visited
<1>12. todo'[p] = left \ {r} /\ Exists(t)'
  BY <1>1, <1>3, <1>7, TypeParts DEF LocalTyped, Exists
<1>13. ~failed'[p] => Undone(t, m, left \ {r})'
  BY <1>5, <1>11 DEF Undone
<1>14. AtWork(p)'
  <2>1. PICK l : l = "restore"
    OBVIOUS
  <2> QED  BY <1>1, <1>2, <1>3, <1>12, <1>13, <2>1, BegunAt DEF Begun
<1> QED  BY <1>11, <1>14 DEF Sound

LEMMA FinishRestoreSound ==
  ASSUME TypeInv, NEW p \in Proc, Sound(p), FinishRestore(p)
  PROVE  Sound(p)'
<1>1. file' = file /\ pc[p] = "restore" /\ todo[p] = {}
  BY DEF FinishRestore
<1>2. PICK t, n : t = job[p] /\ n = journal[t]
  OBVIOUS
<1>3. /\ t \in Tx /\ PlanOf(t, n) /\ IsManifest(n)
      /\ ~failed[p] => Undone(t, n, {})
  BY <1>1, <1>2, BegunIs DEF Begun, Sound, AtWork, InitWork
<1>4. PICK m : m = [n EXCEPT !.state = IF failed[p] THEN "PARTIAL" ELSE "RECOVERED"]
  OBVIOUS
<1>5. /\ m.before = n.before /\ m.after = n.after
      /\ m.state = IF failed[p] THEN "PARTIAL" ELSE "RECOVERED"
  BY <1>3, <1>4 DEF IsManifest, NoManifest
<1>6. PlanOf(t, m) /\ Targets(m) = Targets(n)
  BY <1>3, <1>5 DEF PlanOf, Targets, States
<1>7. m.state # "COMMITTED" /\ (m.state = "RECOVERED" => \A r \in Targets(m) : ~Wrote(t, r))
  BY <1>3, <1>5, <1>6 DEF Undone
<1>8. Persist(p, m, "release", "release")
  BY <1>2, <1>4 DEF FinishRestore
<1>9. FilesInv' /\ pc'[p] = "release"
  BY <1>1, <1>2, <1>3, <1>6, <1>7, <1>8, PersistSound DEF Sound
<1> QED  BY <1>9, AtRest DEF Sound

LEMMA RecoverInitSound ==
  ASSUME TypeInv, NEW p \in Proc, Sound(p), NEW t \in InitId \union AmendId, RecoverInit(p, t)
  PROVE  Sound(p)'
<1>1. file' = file /\ journal' = journal /\ pc[p] = "idle" /\ Exists(t)
  BY DEF RecoverInit
<1>2. FilesInv' /\ Exists(t)'
  BY <1>1, FilesIdle DEF Sound
<1>3. CASE pc' = pc
  BY <1>1, <1>2, <1>3, AtRest DEF Sound
<1>4. CASE pc' # pc
  <2>1. PICK m : m = journal[t]
    OBVIOUS
  <2>2. /\ m.state \notin Terminal /\ pc'[p] = "restore" /\ job'[p] = t
        /\ todo'[p] = Targets(m)
    BY <1>4, <2>1, TypeParts DEF RecoverInit, Goto, ControlTyped, LocalTyped
  <2>3. Undone(t, m, Targets(m))'
    BY DEF Undone
  <2>4. AtWork(p)'
    <3>1. PICK l : l = "restore"
      OBVIOUS
    <3> QED  BY <1>1, <1>2, <2>1, <2>2, <2>3, <3>1, BegunAt DEF Begun
  <2> QED  BY <1>2, <2>4 DEF Sound
<1> QED  BY <1>3, <1>4

LEMMA LeaveSound ==
  ASSUME TypeInv, NEW p \in Proc, Sound(p), Release(p) \/ Crash(p) \/ Repair(p)
  PROVE  Sound(p)'
<1>1. file' = file /\ journal' = journal
  BY DEF Release, Crash, Repair, disk
<1>2. pc'[p] = "idle"
  BY TypeParts DEF Release, Crash, Repair, Return, Goto, local, ControlTyped
<1> QED  BY <1>1, <1>2, AtRest, FilesIdle DEF Sound

-----------------------------------------------------------------------------
(* The files are kept right.                                                *)

LEMMA StepSound ==
  ASSUME TypeInv, OwnFacts, TodoMatches, NEW p \in Proc, Sound(p), Prepared(p), ~upset',
         Step(p) \/ Command(p) \/ Crash(p)
  PROVE  Sound(p)'
<1>1. CASE CloseStep(p)
  <2>1. \/ LockClose(p) \/ BuildManifest(p) \/ AttachBytes(p)
        \/ WritePrepared(p) \/ WriteApplying(p) \/ AttemptTarget(p) \/ ReplaceTarget(p)
        \/ CommitClose(p) \/ RollbackTarget(p) \/ FinishRollback(p) \/ LockForRecovery(p)
    BY <1>1 DEF CloseStep
  <2> QED  BY <2>1, LockCloseSound, AttachBytesSound, WriteManifestSound, AttemptTargetSound,
              ReplaceTargetSound, CommitCloseSound, RollbackTargetSound, FinishRollbackSound,
              RecoverySound
<1>2. CASE InitStep(p)
  <2>1. \/ LockInit(p) \/ AdmitInit(p) \/ OpenInit(p) \/ StartInit(p) \/ CommitInit(p)
        \/ AttemptChange(p) \/ WriteChange(p) \/ RecordInit(p) \/ RefreshState(p)
        \/ DiscardReceipt(p) \/ RestoreTarget(p) \/ FinishRestore(p)
    BY <1>2 DEF InitStep
  <2> QED  BY <2>1, AdmissionSound, OpenInitSound, StartInitSound, AttemptChangeSound,
              WriteChangeSound, RecordInitSound, DiscardReceiptSound, RestoreTargetSound,
              FinishRestoreSound
<1>3. CASE Command(p)
  <2>1. \/ \E c \in CloseId : PlanClose(p, c)
        \/ \E c \in CloseId : ReadForRecovery(p, c)
        \/ \E t \in InitId \union AmendId : PlanInit(p, t)
        \/ \E t \in InitId \union AmendId : RecoverInit(p, t)
        \/ Repair(p)
    BY <1>3 DEF Command, CloseCommand, InitCommand
  <2> QED  BY <2>1, PlanCloseSound, RecoverySound, PlanInitSound, RecoverInitSound, LeaveSound
<1>4. CASE Release(p) \/ Crash(p)
  BY <1>4, LeaveSound
<1> QED  BY <1>1, <1>2, <1>3, <1>4 DEF Step

\* Only the holder of the flock writes a file.
LEMMA FileByHolder ==
  ASSUME LockIsHeld, NEW p \in Proc, Step(p) \/ Command(p) \/ Crash(p), file' # file
  PROVE  flock = p
<1>1. pc[p] \in {"replace", "rollback", "write", "restore"}
  <2>1. CASE CloseStep(p)
    BY <2>1 DEF CloseStep, LockClose, BuildManifest, AttachBytes, WritePrepared, WriteApplying,
       AttemptTarget, ReplaceTarget, CommitClose, RollbackTarget, FinishRollback,
       LockForRecovery, disk
  <2>2. CASE InitStep(p)
    BY <2>2 DEF InitStep, LockInit, AdmitInit, OpenInit, StartInit, AttemptChange, WriteChange,
       RecordInit, RefreshState, CommitInit, DiscardReceipt, RestoreTarget, FinishRestore, disk
  <2>3. CASE Command(p) \/ Release(p) \/ Crash(p)
    BY <2>3 DEF Command, CloseCommand, InitCommand, PlanClose, ReadForRecovery, PlanInit,
       RecoverInit, Repair, Release, Crash, disk
  <2> QED  BY <2>1, <2>2, <2>3 DEF Step
<1> QED  BY <1>1 DEF LockIsHeld, Held, Labels

\* A step of p leaves alone whether the others have failed.
LEMMA FailedSame ==
  ASSUME TypeInv, NEW p \in Proc, Step(p) \/ Command(p) \/ Crash(p)
  PROVE  \A q \in Proc \ {p} : failed'[q] = failed[q]
<1>1. failed' = failed \/ \E x : failed' = [failed EXCEPT ![p] = x]
  <2>1. CASE CloseStep(p)
    BY <2>1 DEF CloseStep, LockClose, BuildManifest, AttachBytes, WritePrepared, WriteApplying,
       AttemptTarget, ReplaceTarget, CommitClose, RollbackTarget, FinishRollback,
       LockForRecovery, Return
  <2>2. CASE InitStep(p)
    BY <2>2 DEF InitStep, LockInit, AdmitInit, OpenInit, StartInit, AttemptChange, WriteChange,
       RecordInit, RefreshState, CommitInit, DiscardReceipt, RestoreTarget, FinishRestore, Return
  <2>3. CASE Command(p) \/ Release(p) \/ Crash(p)
    BY <2>3 DEF Command, CloseCommand, InitCommand, PlanClose, ReadForRecovery, PlanInit,
       RecoverInit, Repair, Release, Crash, Return, local
  <2> QED  BY <2>1, <2>2, <2>3 DEF Step
<1> QED  BY <1>1, TypeParts DEF LocalTyped

\* Where another process stands stays so: it has the flock, or it has only planned or read.
LEMMA OthersStand ==
  ASSUME TypeInv, LockIsHeld, NEW p \in Proc, Step(p) \/ Command(p) \/ Crash(p),
         NEW q \in Proc \ {p}, AtWork(q)
  PROVE  AtWork(q)'
<1>1. SameLocal(q) /\ failed'[q] = failed[q]
  BY OthersKept, FailedSame
<1>2. CASE pc[q] \in Held
  <2>1. flock = q
    BY <1>2 DEF LockIsHeld
  <2>2. journal' = journal /\ file' = file
    BY <2>1, SharedKept, FileByHolder DEF SameShared
  <2>3. CloseWork(q)'
    BY <1>1, <2>2 DEF AtWork, CloseWork, SameLocal, Keeping, Writing, Undone, Wrote, Exists
  <2>4. InitWork(q)'
    BY <1>1, <2>2 DEF AtWork, InitWork, SameLocal, Keeping, Writing, Undone, Wrote, Exists
  <2> QED  BY <2>3, <2>4 DEF AtWork
<1>3. CASE pc[q] \notin Held
  <2>1. pc'[q] \in {"idle", "planned", "recover", "init"}
    BY <1>1, <1>3, TypeParts DEF SameLocal, ControlTyped, Held
  <2>2. CASE pc[q] = "idle"
    BY <1>1, <2>2, AtRest DEF SameLocal
  <2>3. CASE pc[q] \in {"planned", "recover"}
    BY <1>1, <2>3 DEF SameLocal, AtWork, CloseWork, InitWork, Begun, CloseLabels
  <2>4. CASE pc[q] = "init"
    BY <1>1, <2>4 DEF SameLocal, AtWork, CloseWork, InitWork, Begun, CloseLabels
  <2> QED  BY <1>1, <2>1, <2>2, <2>3, <2>4 DEF SameLocal
<1> QED  BY <1>2, <1>3

WorkInv == FilesInv /\ \A p \in Proc : AtWork(p)

LEMMA NextWorkInv ==
  ASSUME OwnFacts
  PROVE  Inv /\ (~upset => WorkInv) /\ [Next]_vars => (~upset => WorkInv)'
<1> SUFFICES ASSUME Inv, ~upset => WorkInv, [Next]_vars, ~upset'
             PROVE  WorkInv'
  OBVIOUS
<1>1. CASE UNCHANGED vars
  <2>1. /\ journal' = journal /\ file' = file /\ upset' = upset
        /\ pc' = pc /\ job' = job /\ mem' = mem /\ todo' = todo /\ failed' = failed
    BY <1>1 DEF vars, disk, local, env
  <2>2. WorkInv
    BY <2>1
  <2>3. FilesInv'
    BY <2>1, <2>2, FilesIdle DEF WorkInv
  <2>4. ASSUME NEW p \in Proc  PROVE AtWork(p)'
    <3>1. AtWork(p)
      BY <2>2 DEF WorkInv
    <3>2. CloseWork(p)'
      BY <2>1, <3>1 DEF AtWork, CloseWork, Keeping, Writing, Undone, Wrote, Exists
    <3>3. InitWork(p)'
      BY <2>1, <3>1 DEF AtWork, InitWork, Keeping, Writing, Undone, Wrote, Exists
    <3> QED  BY <3>2, <3>3 DEF AtWork
  <2> QED  BY <2>3, <2>4 DEF WorkInv
<1>2. ASSUME NEW p \in Proc, Step(p) \/ Command(p) \/ Crash(p)  PROVE WorkInv'
  <2>1. TypeInv /\ LockIsHeld /\ TodoMatches /\ Prepared(p) /\ WorkInv
    BY <1>2, UpsetStays DEF Inv, ChainInv
  <2>2. Sound(p)'
    BY <1>2, <2>1, StepSound DEF WorkInv, Sound
  <2>3. \A q \in Proc \ {p} : AtWork(q)'
    BY <1>2, <2>1, OthersStand DEF WorkInv
  <2> QED  BY <2>2, <2>3 DEF WorkInv, Sound
<1> QED  BY <1>1, <1>2 DEF Next

LEMMA InitWorkInv ==
  ASSUME OwnFacts, PastIsOver, Init
  PROVE  WorkInv
<1>1. file = InitialFile /\ journal = FirstJournal /\ \A p \in Proc : pc[p] = "idle"
  BY DEF Init
<1>2. ASSUME NEW r \in Ref
      PROVE  In(r, file[r]) = {} /\ Made(r, file[r])
  <2>1. Content(r, {}) = InitialFile[r]
    BY DEF Content
  <2>2. In(r, Content(r, {})) = {}
    BY ContentIn
  <2> QED  BY <1>1, <2>1, <2>2 DEF Made
<1>3. ASSUME NEW t \in Tx  PROVE Told(t)
  <2>1. Exists(t) => journal[t].state \in Terminal /\ DOMAIN Effect[t] = {}
    BY <1>1 DEF PastIsOver, Exists
  <2>2. ~Exists(t) => journal[t].state \notin {"COMMITTED", "RECOVERED"}
    BY DEF Exists, NoManifest
  <2>3. \A r \in DOMAIN Effect[t] : ~Wrote(t, r)
    BY <1>2, EffectAssumption DEF Wrote
  <2> QED  BY <2>1, <2>2, <2>3 DEF Told
<1>4. \A p \in Proc : AtWork(p)
  BY <1>1 DEF AtWork, CloseWork, InitWork, CloseLabels, Begun
<1> QED  BY <1>2, <1>3, <1>4 DEF WorkInv, FilesInv

\* A fact that is there is of a transaction that is finished, and not undone.
LEMMA FilesToldOf == (~upset => WorkInv) => FilesAreTheCommitted
<1> SUFFICES ASSUME ~upset => WorkInv, Settled, NEW r \in Ref
             PROVE  LET done == {t \in Tx : journal[t].state = "COMMITTED" /\ r \in DOMAIN Effect[t]}
                    IN file[r] = (InitialFile[r] \ UNION {Effect[t][r].del : t \in done})
                                   \union UNION {Effect[t][r].add : t \in done}
  BY DEF FilesAreTheCommitted
<1> DEFINE done == {t \in Tx : journal[t].state = "COMMITTED" /\ r \in DOMAIN Effect[t]}
<1>1. FilesInv /\ \A t \in Tx : Exists(t) => journal[t].state \in Terminal
  BY DEF Settled, WorkInv, Unresolved
<1>2. ASSUME NEW t \in In(r, file[r])  PROVE t \in done
  <2>1. t \in Tx /\ r \in DOMAIN Effect[t] /\ Wrote(t, r)
    BY DEF In, Writes, Wrote
  <2>2. journal[t].state \in Terminal /\ journal[t].state # "RECOVERED"
    BY <1>1, <2>1 DEF FilesInv, Told
  <2> QED  BY <2>1, <2>2 DEF Terminal
<1>3. ASSUME NEW t \in done  PROVE t \in In(r, file[r])
  BY <1>1 DEF FilesInv, Told, Wrote
<1>4. In(r, file[r]) = done
  BY <1>2, <1>3
<1>5. file[r] = Content(r, done)
  BY <1>1, <1>4 DEF FilesInv, Made
<1> QED  BY <1>5 DEF Content

(* The files say exactly what the committed transactions wrote, whenever    *)
(* all transactions are finished and no recovery or repair has acted on     *)
(* what it should have left alone: if every transaction writes something of *)
(* its own that no other removes, and whatever happened before is over.     *)
THEOREM FilesHold ==
  ASSUME OwnFacts, PastIsOver
  PROVE  Spec => []FilesAreTheCommitted
<1>1. Init => Inv /\ (~upset => WorkInv)
  BY InitInv, InitWorkInv
<1>2. Inv /\ (~upset => WorkInv) /\ [Next]_vars => Inv' /\ (~upset => WorkInv)'
  BY NextInv, NextWorkInv
<1>3. (~upset => WorkInv) => FilesAreTheCommitted
  BY FilesToldOf
<1> QED  BY <1>1, <1>2, <1>3, PTL DEF Spec
=============================================================================
