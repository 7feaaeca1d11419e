------------------------------ MODULE PhaseSlot ------------------------------
(***************************************************************************)
(* Phase metadata updates (meta_flow/project/phase_metadata.py) and Phase  *)
(* transitions (meta_flow/project/phase_transition.py).  Both rewrite the  *)
(* formal files (file 1 here) and the State projection (file 2) and then   *)
(* register a successor receipt.  Each kind has one manifest slot for all  *)
(* its transactions and a lock file of its own; both also take the shared  *)
(* flock and the State lock file.  A lock file names its transaction and   *)
(* is flock'ed by its owner: when the owner dies the file stays.           *)
(*                                                                         *)
(* The receipts are seen as one chain of generations of file 1 (module     *)
(* SharedProjection has the whole of it), the State transaction as one     *)
(* write that succeeds or fails (StateProjection has its steps).           *)
(***************************************************************************)
EXTENDS Integers, Sequences, FiniteSets

CONSTANTS
  Proc,
  Tx,          \* transactions, each adding its own fact to both files
  KindOf,      \* "metadata" or "transition"
  Task,        \* the transactions each process may be asked to apply
  Other,       \* what Work closes may add to both files
  Close,       \* the Work close that anchors the chain
  None,
  CrashKinds,  \* "kill" and/or "interrupt"
  MaxFaults    \* failed writes and crashes, together

Kind == {KindOf[t] : t \in Tx}
Ref == {1, 2}
Image == SUBSET (Tx \union Other)

VARIABLES
  file,
  chain,     \* the generations of file 1 with a receipt: [by, pred, image]
  slot,      \* kind -> its transaction.json
  flock,     \* holder of the shared projection writer lock
  slock,     \* the State lock file: [tx, holder], or None
  plock,     \* kind -> its lock file
  pc,
  mem,       \* the manifest each process holds in memory
  failed,    \* what its rollback could not undo
  upset,     \* history: recover acted on a manifest that was finished since it read it
  faults

locks == <<flock, slock, plock>>
local == <<pc, mem, failed>>
vars  == <<file, chain, slot, locks, local, upset, faults>>

Terminal == {"COMMITTED", "RECOVERED"}
NoManifest ==
  [tx |-> None, state |-> "NONE", before |-> [r \in Ref |-> {}], attempted |-> {}, succ |-> FALSE]

After(m, r) == m.before[r] \union {m.tx}
Unresolved(m) == m.state \notin Terminal \union {"NONE"}
Unpublished(m) == m.state = "COMMITTED" /\ ~m.succ

-----------------------------------------------------------------------------
\* The receipts form a chain, and file 1 is at its end.
Linked == \A i \in 2..Len(chain) : chain[i].pred = chain[i-1].by
LineageCurrent == Linked /\ file[1] = chain[Len(chain)].image
Receipts(t) == {i \in 1..Len(chain) : chain[i].by = t}
Discarded(t) == SelectSeq(chain, LAMBDA g : g.by # t)

Dead(lock) == lock # None /\ lock.holder = None
Named(t, p) == [tx |-> t, holder |-> p]

(* claim_transaction_lock with create_if_missing: a new file, or one that   *)
(* names this transaction and that nobody alive holds.                      *)
Claimable(lock, t) == lock = None \/ (Dead(lock) /\ lock.tx = t)

(* inspect_phase_metadata and inspect_phase_transition, without and with    *)
(* the lock files.  With an empty slot the first overlooks the State lock.  *)
Settled(k) == ~Unresolved(slot[k])
Inspect(k) ==
  /\ Settled(k)
  /\ plock[k] = None
  /\ (k = "transition" \/ slot[k] # NoManifest) => slock = None

(* What a plan of kind k asks for, locked and unlocked: no transaction of   *)
(* either kind is unresolved (a transition learns it of metadata updates    *)
(* from the lineage), and, unlocked, the inspections find no lock file.     *)
AllSettled == \A k \in Kind : Settled(k)
Admissible(k) ==
  AllSettled /\ Inspect(k) /\ (k = "metadata" /\ "transition" \in Kind => Inspect("transition"))

-----------------------------------------------------------------------------
Outcomes == {"ok"} \union (IF faults < MaxFaults THEN {"lost"} ELSE {})
Count(o) == faults' = IF o = "ok" THEN faults ELSE faults + 1
Goto(p, label) == pc' = [pc EXCEPT ![p] = label]
KindBy(p) == KindOf[mem[p].tx]

\* _write_manifest.
Persist(p, m, good, bad) ==
  \E o \in Outcomes :
    /\ slot' = IF o = "lost" THEN slot ELSE [slot EXCEPT ![KindBy(p)] = m]
    /\ mem' = [mem EXCEPT ![p] = m]
    /\ Goto(p, IF o = "ok" THEN good ELSE bad)
    /\ Count(o)

Free(lock, p) == IF lock # None /\ lock.holder = p THEN None ELSE lock
Forget(p) ==
  /\ Goto(p, "idle")
  /\ mem' = [mem EXCEPT ![p] = NoManifest]
  /\ failed' = [failed EXCEPT ![p] = {}]

\* The finally clauses: every lock the process holds is released, its file removed.
Return(p) ==
  /\ flock' = IF flock = p THEN None ELSE flock
  /\ slock' = Free(slock, p)
  /\ plock' = [k \in Kind |-> Free(plock[k], p)]
  /\ Forget(p)

Init ==
  /\ file = [r \in Ref |-> {}]
  /\ chain = <<[by |-> Close, pred |-> None, image |-> {}]>>
  /\ slot = [k \in Kind |-> NoManifest]
  /\ flock = None /\ slock = None /\ plock = [k \in Kind |-> None]
  /\ pc = [p \in Proc |-> "idle"]
  /\ mem = [p \in Proc |-> NoManifest] /\ failed = [p \in Proc |-> {}]
  /\ upset = FALSE /\ faults = 0

-----------------------------------------------------------------------------
\* apply, up to its locks.
Plan(p, t) ==
  /\ pc[p] = "idle"
  /\ t \in Task[p] /\ Admissible(KindOf[t]) /\ LineageCurrent
  /\ \A r \in Ref : t \notin file[r]
  /\ mem' = [mem EXCEPT ![p] = [NoManifest EXCEPT !.tx = t, !.state = "PREPARED", !.before = file]]
  /\ Goto(p, "lock")
  /\ UNCHANGED <<file, chain, slot, locks, failed, upset, faults>>

\* The flock, then the State lock file by acquire_transaction_lock: it must not exist.
LockState(p) ==
  /\ pc[p] = "lock"
  /\ LET free == flock = None /\ slock = None
     IN \/ /\ free
           /\ flock' = p /\ slock' = Named(mem[p].tx, p)
           /\ Goto(p, "plock")
           /\ UNCHANGED <<plock, mem, failed>>
        \/ ~free /\ Return(p)
  /\ UNCHANGED <<file, chain, slot, upset, faults>>

LockPhase(p) ==
  /\ pc[p] = "plock"
  /\ \/ /\ plock[KindBy(p)] = None
        /\ plock' = [plock EXCEPT ![KindBy(p)] = Named(mem[p].tx, p)]
        /\ Goto(p, "admit")
        /\ UNCHANGED <<flock, slock, mem, failed>>
     \/ plock[KindBy(p)] # None /\ Return(p)
  /\ UNCHANGED <<file, chain, slot, upset, faults>>

\* Mutant: the slot is not inspected again under the locks.
AdmitUninspected(p) ==
  /\ pc[p] = "admit"
  /\ \/ LineageCurrent /\ Goto(p, "prepare") /\ UNCHANGED <<locks, mem, failed>>
     \/ ~LineageCurrent /\ Return(p)
  /\ UNCHANGED <<file, chain, slot, upset, faults>>

(* The locked replan: slots, lineage and preimages once more, and for a     *)
(* metadata update the receipt preflight, which wants an unused identity.   *)
Admit(p) ==
  /\ pc[p] = "admit"
  /\ LET admitted == /\ AllSettled /\ LineageCurrent
                     /\ file = mem[p].before
                     /\ KindBy(p) = "metadata" => Receipts(mem[p].tx) = {}
     IN \/ admitted /\ Goto(p, "prepare") /\ UNCHANGED <<locks, mem, failed>>
        \/ ~admitted /\ Return(p)
  /\ UNCHANGED <<file, chain, slot, upset, faults>>

\* If the first manifest write fails nothing has begun.
WritePrepared(p) ==
  /\ pc[p] = "prepare"
  /\ Persist(p, mem[p], "begin", "release")
  /\ UNCHANGED <<file, chain, locks, failed, upset>>

WriteApplying(p) ==
  /\ pc[p] = "begin"
  /\ Persist(p, [mem[p] EXCEPT !.state = "APPLYING"], "attempt", "undo")
  /\ UNCHANGED <<file, chain, locks, failed, upset>>

\* Mutant: State may be written before the formal files.
AttemptAnyOrder(p) ==
  /\ pc[p] = "attempt"
  /\ \E r \in Ref \ mem[p].attempted :
       Persist(p, [mem[p] EXCEPT !.attempted = @ \union {r}], "write", "undo")
  /\ UNCHANGED <<file, chain, locks, failed, upset>>

Attempt(p) ==
  /\ pc[p] = "attempt"
  /\ \E r \in Ref :
       /\ r = Cardinality(mem[p].attempted) + 1
       /\ Persist(p, [mem[p] EXCEPT !.attempted = @ \union {r}], "write", "undo")
  /\ UNCHANGED <<file, chain, locks, failed, upset>>

\* The formal files are written directly, State by its own transaction.
Write(p) ==
  /\ pc[p] = "write"
  /\ \E r \in Ref, o \in Outcomes :
       /\ r = Cardinality(mem[p].attempted)
       /\ file' = IF o = "lost" THEN file ELSE [file EXCEPT ![r] = After(mem[p], r)]
       /\ Goto(p, IF o = "lost" THEN "undo" ELSE IF r = 2 THEN "commit" ELSE "attempt")
       /\ Count(o)
  /\ UNCHANGED <<chain, slot, locks, mem, failed, upset>>

Commit(p) ==
  /\ pc[p] = "commit"
  /\ Persist(p, [mem[p] EXCEPT !.state = "COMMITTED"], "record", "undo")
  /\ UNCHANGED <<file, chain, locks, failed, upset>>

(* record_shared_projection_successor, by apply (record) or by a recover    *)
(* that completes a commit (adopt; a transition inspects its slot again).   *)
(* A receipt that is there already is accepted when it says what this       *)
(* transaction has done; for an unchanged file there is nothing to record.  *)
Record(p) ==
  /\ pc[p] \in {"record", "adopt"}
  /\ LET m == mem[p]
         good == IF pc[p] = "record" THEN "publish" ELSE "sign"
         bad  == IF pc[p] = "record" THEN "undo" ELSE "release"
         mine == Receipts(m.tx)
         end  == chain[Len(chain)]
         open == pc[p] = "adopt" /\ KindBy(p) = "transition" /\ ~Settled("transition")
         fits == /\ ~open
                 /\ IF mine = {} THEN Linked /\ end.image = m.before[1]
                    ELSE \A i \in mine : chain[i].image = file[1]
     IN \/ /\ fits /\ (mine # {} \/ file[1] = m.before[1])
           /\ Goto(p, good) /\ UNCHANGED <<chain, faults>>
        \/ /\ fits /\ mine = {} /\ file[1] # m.before[1]
           /\ \E o \in Outcomes :
                /\ chain' = IF o = "lost" THEN chain
                            ELSE Append(chain, [by |-> m.tx, pred |-> end.by, image |-> file[1]])
                /\ Goto(p, IF o = "ok" THEN good ELSE bad)
                /\ Count(o)
        \/ ~fits /\ Goto(p, bad) /\ UNCHANGED <<chain, faults>>
  /\ UNCHANGED <<file, slot, locks, mem, failed, upset>>

\* The manifest names the receipt.
Publish(p) ==
  /\ pc[p] \in {"publish", "sign"}
  /\ Persist(p, [mem[p] EXCEPT !.succ = TRUE], "release",
             IF pc[p] = "publish" THEN "undo" ELSE "release")
  /\ UNCHANGED <<file, chain, locks, failed, upset>>

-----------------------------------------------------------------------------
\* The receipt the manifest names is discarded; a failure is remembered.
Undo(p) ==
  /\ pc[p] = "undo"
  /\ \/ ~mem[p].succ /\ UNCHANGED <<chain, mem, failed, faults>>
     \/ /\ mem[p].succ
        /\ \E o \in Outcomes :
             /\ chain' = IF o = "lost" THEN chain ELSE Discarded(mem[p].tx)
             /\ mem' = [mem EXCEPT ![p].succ = (o = "lost")]
             /\ failed' = [failed EXCEPT ![p] = IF o = "lost" THEN {"receipt"} ELSE {}]
             /\ Count(o)
  /\ Goto(p, "restore")
  /\ UNCHANGED <<file, slot, locks, upset>>

\* _restore: the formal files, unless they are in neither generation...
RestoreFormal(p) ==
  /\ pc[p] = "restore"
  /\ LET m == mem[p]
     IN \/ /\ 1 \notin m.attempted \/ file[1] = m.before[1]
           /\ UNCHANGED <<file, failed, faults>>
        \/ /\ 1 \in m.attempted /\ file[1] \notin {m.before[1], After(m, 1)}
           /\ failed' = [failed EXCEPT ![p] = @ \union {"formal"}]
           /\ UNCHANGED <<file, faults>>
        \/ /\ 1 \in m.attempted /\ file[1] = After(m, 1)
           /\ \E o \in Outcomes :
                /\ file' = IF o = "lost" THEN file ELSE [file EXCEPT ![1] = m.before[1]]
                /\ failed' = [failed EXCEPT ![p] = IF o = "lost" THEN @ \union {"formal"} ELSE @]
                /\ Count(o)
  /\ Goto(p, "state")
  /\ UNCHANGED <<chain, slot, locks, mem, upset>>

(* ... and State, by a State transaction; a metadata update leaves it alone *)
(* when the formal files could not be restored.                             *)
StateIsRestored(p) == 2 \in mem[p].attempted /\ (KindBy(p) = "transition" \/ "formal" \notin failed[p])

RestoreState(p) ==
  /\ pc[p] = "state"
  /\ \/ /\ StateIsRestored(p)
        /\ \E o \in Outcomes :
             /\ file' = IF o = "lost" THEN file ELSE [file EXCEPT ![2] = mem[p].before[2]]
             /\ failed' = [failed EXCEPT ![p] = IF o = "lost" THEN @ \union {"state"} ELSE @]
             /\ Count(o)
     \/ /\ ~StateIsRestored(p)
        /\ UNCHANGED <<file, failed, faults>>
  /\ Goto(p, "finish")
  /\ UNCHANGED <<chain, slot, locks, mem, upset>>

Finish(p) ==
  /\ pc[p] = "finish"
  /\ Persist(p, [mem[p] EXCEPT !.state = IF failed[p] # {} THEN "PARTIAL" ELSE "RECOVERED"],
             "release", "release")
  /\ UNCHANGED <<file, chain, locks, failed, upset>>

Release(p) ==
  /\ pc[p] = "release"
  /\ Return(p)
  /\ UNCHANGED <<file, chain, slot, upset, faults>>

-----------------------------------------------------------------------------
\* Mutant: recover of a finished State transaction asks for its own name in the lock
\* file, which that of a phase transaction never has.
ClearedOwn(lock) == lock

\* recover_state_projection_transaction, nothing to recover: a dead lock file is removed.
Cleared(lock) == IF Dead(lock) THEN None ELSE lock

(* recover with an empty slot.  A transition removes a dead State lock, a   *)
(* live one stops it; both remove their own dead lock file.                 *)
RecoverEmpty(p, k) ==
  /\ pc[p] = "idle"
  /\ slot[k] = NoManifest
  /\ k = "transition" => slock = None \/ Dead(slock)
  /\ slock' = IF k = "transition" THEN Cleared(slock) ELSE slock
  /\ plock' = [plock EXCEPT ![k] = IF Dead(@) THEN None ELSE @]
  /\ UNCHANGED <<file, chain, slot, flock, local, upset, faults>>

\* recover reads the slot before it has a lock.
ReadForRecovery(p, k) ==
  /\ pc[p] = "idle"
  /\ slot[k] # NoManifest
  /\ mem' = [mem EXCEPT ![p] = slot[k]]
  /\ Goto(p, "recover")
  /\ UNCHANGED <<file, chain, slot, locks, failed, upset, faults>>

\* Mutant: recover opens lock files that a live process holds.
ClaimForRecoveryForced(p) ==
  /\ pc[p] = "recover" /\ Unresolved(mem[p])
  /\ flock' = p
  /\ slock' = Named(mem[p].tx, p)
  /\ plock' = [plock EXCEPT ![KindBy(p)] = Named(mem[p].tx, p)]
  /\ Goto(p, "reload")
  /\ UNCHANGED <<file, chain, slot, mem, failed, upset, faults>>

\* An unresolved transaction: the flock and both lock files.
ClaimForRecovery(p) ==
  /\ pc[p] = "recover" /\ Unresolved(mem[p])
  /\ LET claimable == /\ flock = None
                      /\ Claimable(slock, mem[p].tx)
                      /\ Claimable(plock[KindBy(p)], mem[p].tx)
     IN \/ /\ claimable
           /\ flock' = p
           /\ slock' = Named(mem[p].tx, p)
           /\ plock' = [plock EXCEPT ![KindBy(p)] = Named(mem[p].tx, p)]
           /\ Goto(p, "reload")
           /\ UNCHANGED <<mem, failed>>
        \/ ~claimable /\ Return(p)
  /\ UNCHANGED <<file, chain, slot, upset, faults>>

(* The slot is read again, and refused when its transaction is another one. *)
(* That it may be finished by now is not noticed.                           *)
Reload(p) ==
  /\ pc[p] = "reload"
  /\ \/ /\ slot[KindBy(p)].tx = mem[p].tx
        /\ mem' = [mem EXCEPT ![p] = slot[KindBy(p)]]
        /\ upset' = (upset \/ ~Unresolved(slot[KindBy(p)]))
        /\ Goto(p, "undo")
     \/ /\ slot[KindBy(p)].tx # mem[p].tx
        /\ Goto(p, "release")
        /\ UNCHANGED <<mem, upset>>
  /\ UNCHANGED <<file, chain, slot, locks, failed, faults>>

(* A finished metadata update: only a missing receipt is cared for, under   *)
(* the flock and the update's own lock file.  Lock files are not removed.   *)
RecoverMetadata(p) ==
  /\ pc[p] = "recover" /\ ~Unresolved(mem[p]) /\ KindBy(p) = "metadata"
  /\ LET complete == Unpublished(mem[p]) /\ flock = None /\ Claimable(plock["metadata"], mem[p].tx)
     IN \/ /\ complete
           /\ flock' = p
           /\ plock' = [plock EXCEPT !["metadata"] = Named(mem[p].tx, p)]
           /\ upset' = (upset \/ slot["metadata"] # mem[p])
           /\ Goto(p, "adopt")
           /\ UNCHANGED <<slock, mem, failed>>
        \/ ~complete /\ Return(p) /\ UNCHANGED upset
  /\ UNCHANGED <<file, chain, slot, faults>>

(* A finished transition: a missing receipt is added under the flock; a     *)
(* dead State lock goes, and the transition's own lock file goes when it    *)
(* names the transaction of the slot.                                       *)
RecoverTransition(p) ==
  /\ pc[p] = "recover" /\ ~Unresolved(mem[p]) /\ KindBy(p) = "transition"
  /\ LET own == plock["transition"]
         lockable == /\ slock = None \/ Dead(slock)
                     /\ flock = None /\ Claimable(own, mem[p].tx)
     IN \/ /\ Unpublished(mem[p]) /\ lockable
           /\ flock' = p
           /\ slock' = IF slock # None /\ slock.tx = mem[p].tx THEN Named(mem[p].tx, p) ELSE None
           /\ plock' = [plock EXCEPT !["transition"] = Named(mem[p].tx, p)]
           /\ upset' = (upset \/ slot["transition"] # mem[p])
           /\ Goto(p, "adopt")
           /\ UNCHANGED <<mem, failed>>
        \/ Unpublished(mem[p]) /\ ~lockable /\ Return(p) /\ UNCHANGED upset
        \/ /\ ~Unpublished(mem[p])
           /\ slock' = Cleared(slock)
           /\ plock' = IF Cleared(slock) = None /\ Claimable(own, mem[p].tx)
                       THEN [plock EXCEPT !["transition"] = None] ELSE plock
           /\ Forget(p)
           /\ UNCHANGED <<flock, upset>>
  /\ UNCHANGED <<file, chain, slot, faults>>

-----------------------------------------------------------------------------
(* A Work close (module WorkClose), seen as one step: it takes the flock    *)
(* and the State lock file and asks for the lineage of the files it writes, *)
(* not for the phase slots.  The State it writes is rendered from file 1.   *)
OtherWriter ==
  /\ flock = None /\ slock = None /\ LineageCurrent
  /\ \E o \in Other :
       /\ o \notin file[1]
       /\ file' = [r \in Ref |-> file[1] \union {o}]
       /\ chain' = Append(chain, [by |-> o, pred |-> chain[Len(chain)].by, image |-> file'[1]])
  /\ UNCHANGED <<slot, locks, local, upset, faults>>

\* Death or interruption; before its flock a process has nothing to lose.
Crash(p) ==
  /\ flock = p
  /\ faults < MaxFaults
  /\ faults' = faults + 1
  /\ \E kind \in CrashKinds :
       \/ kind = "interrupt" /\ Return(p)
       \/ /\ kind = "kill"
          /\ flock' = None
          /\ slock' = IF slock = Free(slock, p) THEN slock ELSE [slock EXCEPT !.holder = None]
          /\ plock' = [k \in Kind |-> IF plock[k] = Free(plock[k], p) THEN plock[k]
                                      ELSE [plock[k] EXCEPT !.holder = None]]
          /\ Forget(p)
  /\ UNCHANGED <<file, chain, slot, upset>>

Step(p) ==
  \/ LockState(p) \/ LockPhase(p) \/ Admit(p)
  \/ WritePrepared(p) \/ WriteApplying(p) \/ Attempt(p) \/ Write(p) \/ Commit(p)
  \/ Record(p) \/ Publish(p)
  \/ Undo(p) \/ RestoreFormal(p) \/ RestoreState(p) \/ Finish(p) \/ Release(p)
  \/ ClaimForRecovery(p) \/ Reload(p) \/ RecoverMetadata(p) \/ RecoverTransition(p)

Recover(p, k) == RecoverEmpty(p, k) \/ ReadForRecovery(p, k)

Next ==
  \/ \E p \in Proc : \/ Step(p) \/ Crash(p)
                     \/ \E t \in Tx : Plan(p, t)
                     \/ \E k \in Kind : Recover(p, k)
  \/ OtherWriter

Spec == Init /\ [][Next]_vars

Uncontended == flock = None /\ \A p \in Proc : pc[p] \in {"idle", "recover"}

(* Commands run on, and the operator of a blocked slot calls recover until  *)
(* a call meets no running command.                                         *)
FairSpec ==
  /\ Spec
  /\ \A p \in Proc : WF_vars(Step(p))
  /\ \A k \in Kind :
       /\ SF_vars(\E p \in Proc : ~Inspect(k) /\ Uncontended /\ Recover(p, k))
       /\ SF_vars(\E p \in Proc : mem[p].tx = slot[k].tx /\ Uncontended /\
                    (ClaimForRecovery(p) \/ RecoverMetadata(p) \/ RecoverTransition(p)))

-----------------------------------------------------------------------------
IsManifest(m) ==
  /\ m.tx \in Tx \union {None} /\ m.state \in Terminal \union {"NONE", "PREPARED", "APPLYING", "PARTIAL"}
  /\ m.before \in [Ref -> Image] /\ m.attempted \in {{}, {1}, {1, 2}} /\ m.succ \in BOOLEAN

TypeOK ==
  /\ file \in [Ref -> Image]
  /\ \A i \in 1..Len(chain) : chain[i].image \in Image
  /\ \A k \in Kind : IsManifest(slot[k])
  /\ \A p \in Proc : IsManifest(mem[p])
  /\ \A lock \in {slock} \union {plock[k] : k \in Kind} :
       lock = None \/ (lock.tx \in Tx /\ lock.holder \in Proc \union {None})

\* Nobody removes or takes over the lock files of a running process.
LiveLockIsKept ==
  [][\A lock \in {<<slock, slock'>>} \union {<<plock[k], plock'[k]>> : k \in Kind} :
       \A p \in Proc : lock[1] # None /\ lock[1].holder = p /\ lock[2] # lock[1] =>
                         pc[p] # "idle" /\ pc'[p] = "idle"]_vars

(* While no command runs and both slots are finished and published, the     *)
(* receipts are one chain, file 1 is at its end, and the files say what the *)
(* transactions in it wrote, State included.                                *)
PublishedIsCurrent ==
  (flock = None /\ ~upset /\ \A k \in Kind : Settled(k) /\ ~Unpublished(slot[k])) =>
    /\ LineageCurrent
    /\ file[2] = file[1]
    /\ file[1] \intersect Tx = {t \in Tx : Receipts(t) # {}}
    /\ \A k \in Kind : slot[k] # NoManifest => (slot[k].state = "COMMITTED") = (slot[k].tx \in file[1])

\* An unresolved transaction whose file is in neither of its generations any more.
Drifted(k) ==
  /\ Unresolved(slot[k]) /\ 1 \in slot[k].attempted
  /\ file[1] \notin {slot[k].before[1], After(slot[k], 1)}

(* A dead lock file of a kind that its recover does not remove: it names a  *)
(* transaction that never reached the slot, or it is that of a metadata     *)
(* update that is over, for which recover answers NO_CHANGE.                *)
Abandoned(k) ==
  /\ Dead(plock[k]) /\ slot[k] # NoManifest
  /\ \/ plock[k].tx # slot[k].tx
     \/ k = "metadata" /\ Settled(k) /\ ~Unpublished(slot[k])

(* After an interruption recover makes a slot usable again, the State lock  *)
(* file included, unless its files have moved on or the lock file of its    *)
(* own kind is one that recover does not remove.                            *)
UsableAgain == \A k \in Kind : []<>(Inspect(k) \/ Drifted(k) \/ Abandoned(k))

(* A lock file whose process is gone is taken over by recover, also when    *)
(* that process had not written its PREPARED manifest yet: the manual's      *)
(* promise, false when the slot holds another one (PhaseSlotLeftLock.cfg).   *)
LeftLockIsTakenOver == \A k \in Kind : Dead(plock[k]) ~> ~Dead(plock[k])
=============================================================================
