----------------------------- MODULE Governance -----------------------------
(***************************************************************************)
(* Work closes, Work inits, scope amendments and repairs, by several        *)
(* processes, on the same shared files.                                     *)
(***************************************************************************)
EXTENDS WorkClose, WorkInit

Step(p) == CloseStep(p) \/ InitStep(p) \/ Release(p)

Command(p) ==
  \/ \E c \in CloseId : CloseCommand(p, c)
  \/ \E t \in InitId \union AmendId : InitCommand(p, t)
  \/ Repair(p)

Next == \E p \in Proc : Step(p) \/ Command(p) \/ Crash(p)

Spec == Init /\ [][Next]_vars

LocksFree == flock = None /\ wlock = None

(* A started command runs on; the operator of an unresolved close calls     *)
(* recover until a call starts and locks while both locks are free.         *)
FairSpec ==
  /\ Spec
  /\ \A p \in Proc : WF_vars(Step(p))
  /\ \A c \in CloseId :
       /\ SF_vars(\E p \in Proc : LocksFree /\ ReadForRecovery(p, c))
       /\ SF_vars(\E p \in Proc : job[p] = c /\ LocksFree /\ LockForRecovery(p))

-----------------------------------------------------------------------------
IsManifest(m) ==
  /\ DOMAIN m = DOMAIN NoManifest
  /\ m.state \in States \union {"NONE"}
  /\ DOMAIN m.before \subseteq Ref /\ DOMAIN m.after = DOMAIN m.before
  /\ \A r \in DOMAIN m.before : m.before[r] \in Image /\ m.after[r] \in SUBSET Fact
  /\ m.attempted \subseteq Targets(m) /\ m.kept \subseteq Targets(m)
  /\ DOMAIN m.lineage \subseteq Targets(m)
  /\ m.stamp \in Nat

Labels ==
  {"idle", "planned", "build", "attach", "prepare", "begin", "next", "replace", "rollback",
   "recover", "init", "admit", "open", "start", "change", "write", "record", "refresh",
   "commit", "register", "undo", "restore", "release"}

TypeOK ==
  /\ file \in [Ref -> Image]
  /\ DOMAIN journal = Tx /\ \A t \in Tx : IsManifest(journal[t])
  /\ \A q \in receipts : q.op \in {"init", "amend", "repair", "phase"} /\ DOMAIN q.at \subseteq Ref
  /\ flock \in Proc \union {None} /\ wlock \in CloseId \union {None}
  /\ pc \in [Proc -> Labels] /\ job \in [Proc -> Tx \union {None}]
  /\ DOMAIN mem = Proc /\ \A p \in Proc : IsManifest(mem[p])
  /\ todo \in [Proc -> SUBSET Ref] /\ failed \in [Proc -> BOOLEAN] /\ DOMAIN mine = Proc
  /\ repairs \in Nat /\ upset \in BOOLEAN /\ faults \in Nat /\ crashes \in Nat

ASSUME FirstAssumption ==
  /\ DOMAIN FirstJournal = Tx /\ \A t \in Tx : IsManifest(FirstJournal[t])
  /\ \E n \in {FirstJournal[c].stamp : c \in CloseId} \union {0} :
       \A c \in CloseId : FirstJournal[c].stamp <= n
  /\ \A q \in FirstReceipts : q.op \in {"init", "amend", "repair", "phase"} /\ DOMAIN q.at \subseteq Ref

\* The transactions that write a file.
Writes(r) == {t \in Tx : r \in DOMAIN Effect[t]}

(* Every transaction writes a fact of its own in each of its files, and     *)
(* nobody removes what another one writes: a file tells who has written it. *)
OwnFacts ==
  \A r \in Ref : \A t \in Writes(r) :
    /\ \E f \in Effect[t][r].add :
         f \notin InitialFile[r] /\ \A u \in Writes(r) \ {t} : f \notin Effect[u][r].add
    /\ \A u \in Writes(r) \ {t} : Effect[t][r].add \intersect Effect[u][r].del = {}

\* What happened before is finished, and in the initial files.
PastIsOver ==
  \A t \in Tx : FirstJournal[t] # NoManifest =>
    FirstJournal[t].state \in Terminal /\ DOMAIN Effect[t] = {}

Unresolved(t) == Exists(t) /\ journal[t].state \notin Terminal
Settled == flock = None /\ ~upset /\ \A t \in Tx : ~Unresolved(t)

(* The generations of every file form one chain of closes, and the receipts *)
(* on each close one chain: no two writers ever continue the same           *)
(* generation, whatever they planned on (committed_generation_heads and     *)
(* _shared_successor_head would refuse every later writer).                 *)
NoFork == ~upset => ChainsDefined(Ref)

(* When every transaction is finished the files say exactly what the        *)
(* COMMITTED ones wrote: nothing of a rolled back one is left, nothing of a *)
(* committed one is lost under a plan made before it.                       *)
FilesAreTheCommitted ==
  Settled =>
    \A r \in Ref :
      LET done == {t \in Tx : journal[t].state = "COMMITTED" /\ r \in DOMAIN Effect[t]}
      IN file[r] = (InitialFile[r] \ UNION {Effect[t][r].del : t \in done})
                     \union UNION {Effect[t][r].add : t \in done}

(* When every transaction is finished, a file off the end of its chain      *)
(* (which stops all writers until a repair) is there because an amendment   *)
(* committed and then could not register its receipt.                       *)
OffChainIsExplained ==
  Settled =>
    \A r \in Anchored(Ref) : file[r] # ExpectedImage(r) =>
      \E t \in AmendId : /\ journal[t].state = "COMMITTED" /\ r \in Targets(journal[t])
                         /\ ReceiptsOf("amend", t) = {}

\* Files that are in neither generation of a transaction: nothing can roll it back.
Overtaken(c) ==
  \E r \in Targets(journal[c]) : file[r] \notin {journal[c].before[r], journal[c].after[r]}

\* writer.lock was left behind: its process is gone, and with it the flock.
StaleLock == wlock # None /\ flock = None

(* Every close that began ends COMMITTED or RECOVERED, by itself or through *)
(* recover, unless its files were overtaken, its before bytes were never    *)
(* attached, or a killed process has left writer.lock.                      *)
CloseResolves ==
  \A c \in CloseId :
    Unresolved(c) ~> (~Unresolved(c) \/ Overtaken(c) \/ ~Valid(journal[c]) \/ StaleLock)
=============================================================================
