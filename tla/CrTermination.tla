---------------------------- MODULE CrTermination ----------------------------
(***************************************************************************)
(* The termination of change requests (workflow/cr_termination.py) with    *)
(* its journal (workflow/cr_termination_journal.py): a directory of         *)
(* create-only records per transaction, moved from active/ to terminal/     *)
(* when it is over.  There is no recover command: a termination that gets  *)
(* the lock first finishes what earlier ones left in active/.              *)
(*                                                                         *)
(* A file is the set of change requests it shows as terminated, and what   *)
(* others wrote: the record of a change request stands for the files of    *)
(* its own, the index for those it shares with the rest.  An authorization  *)
(* is good for one transaction and stands for it.                          *)
(***************************************************************************)
EXTENDS Integers, Sequences, FiniteSets

CONSTANTS
  Proc,
  Cr,           \* change requests
  Auth, CrOf,   \* authorizations, each to terminate one of them
  Task,         \* process -> the authorizations it may be given
  Index,        \* the shared files
  Foreign,      \* what a status synchronisation writes there
  None, Left,
  CrashKinds,   \* how a process may die: "kill" and/or "interrupt"
  MaxFaults     \* failed writes, deaths and foreign writes, together

ASSUME AuthAssumption == CrOf \in [Auth -> Cr] /\ Index \notin Cr /\ Task \in [Proc -> SUBSET Auth]
ASSUME NoneAssumption == None \notin Proc \union Auth /\ Left \notin Proc /\ Foreign \notin Cr

VARIABLES
  file,
  dir,       \* authorization -> where its transaction is: "none", "active", "terminal"
  log,       \* the records of that transaction
  claimed,   \* the authorizations used up
  lock,      \* status-sync.lock: its process, None, or Left behind by one that is gone
  pc,
  job,       \* the authorization a process was given
  seen,      \* the files it planned with, until they are in its PREPARED record
  fixing,    \* the transaction it recovers
  visited,   \* the targets this recovery has dealt with
  restored,  \* how many of them it has restored
  faults

journal == <<dir, log>>
local   == <<pc, job, seen, fixing, visited, restored>>
vars    == <<file, journal, claimed, lock, local, faults>>

Targets(a) == {CrOf[a], Index}
Rec(is, ref, n) == [is |-> is, ref |-> ref, n |-> n]
Prepared(images) == [is |-> "PREPARED", ref |-> images, n |-> 0]

Has(a, is, r) == \E i \in DOMAIN log[a] : log[a][i].is = is /\ log[a][i].ref = r
LastIs(a, phases) == log[a] # <<>> /\ log[a][Len(log[a])].is \in phases
Before(a, r) == log[a][1].ref[r]
After(a, r) == Before(a, r) \union {CrOf[a]}
Active == {a \in Auth : dir[a] = "active"}

Promotable == {"ABORTED", "COMMITTED", "RECOVERED"}

Attempts(a) == {r \in Targets(a) : Has(a, "ATTEMPTED", r)}

\* Mutant: what was replaced is known from the accounting after the replacement.
ToUndoAccounted(a) == {r \in Targets(a) : Has(a, "APPLIED", r)}
ToUndo(a) == Attempts(a)

(* validate_record_sequence.  The order of the phases is kept by the steps;  *)
(* what may not fit is how many files the RECOVERED record says were         *)
(* restored and how many RESTORED records there are.                        *)
Readable(a) ==
  LastIs(a, {"RECOVERED"}) =>
    log[a][Len(log[a])].n = Cardinality({r \in Targets(a) : Has(a, "RESTORED", r)})

-----------------------------------------------------------------------------
Goto(p, label) == pc' = [pc EXCEPT ![p] = label]
Outcomes == {"ok"} \union (IF faults < MaxFaults THEN {"lost", "landed"} ELSE {})
Count(o) == faults' = IF o = "ok" THEN faults ELSE faults + 1

\* CoordinationJournal.append, after which p is at good, or at bad if it raised.
AppendRecord(p, a, record, good, bad) ==
  \E o \in Outcomes :
    /\ log' = IF o = "lost" THEN log ELSE [log EXCEPT ![a] = Append(@, record)]
    /\ Goto(p, IF o = "ok" THEN good ELSE bad)
    /\ Count(o)

\* _atomic_write_guarded, _unlink_guarded.
Replace(p, r, image, good, bad) ==
  \E o \in Outcomes :
    /\ file' = IF o = "lost" THEN file ELSE [file EXCEPT ![r] = image]
    /\ Goto(p, IF o = "ok" THEN good ELSE bad)
    /\ Count(o)

\* promote_terminal of a transaction with readable records.
Promote(p, a, good, bad) ==
  \E o \in Outcomes :
    /\ dir' = IF o = "lost" THEN dir ELSE [dir EXCEPT ![a] = "terminal"]
    /\ Goto(p, IF o = "ok" THEN good ELSE bad)
    /\ Count(o)

Forget(p) ==
  /\ job' = [job EXCEPT ![p] = None]
  /\ seen' = [seen EXCEPT ![p] = <<>>]
  /\ fixing' = [fixing EXCEPT ![p] = None]
  /\ visited' = [visited EXCEPT ![p] = {}]
  /\ restored' = [restored EXCEPT ![p] = 0]

\* On to a step of the same command, with nothing else changed.
GoOn(p, label) ==
  /\ Goto(p, label)
  /\ UNCHANGED <<file, journal, claimed, lock, job, seen, fixing, visited, restored, faults>>

Init ==
  /\ file = [r \in Cr \union {Index} |-> {}]
  /\ dir = [a \in Auth |-> "none"] /\ log = [a \in Auth |-> <<>>]
  /\ claimed = {} /\ lock = None
  /\ pc = [p \in Proc |-> "idle"] /\ job = [p \in Proc |-> None]
  /\ seen = [p \in Proc |-> <<>>] /\ fixing = [p \in Proc |-> None]
  /\ visited = [p \in Proc |-> {}] /\ restored = [p \in Proc |-> 0]
  /\ faults = 0

-----------------------------------------------------------------------------
(* plan_cr_termination.  A change request whose record and index disagree   *)
(* is BLOCKED; one that both show as terminated is NO_CHANGE.               *)
Ready(c) == c \notin file[c] /\ c \notin file[Index]
Snapshot(a) == [r \in Targets(a) |-> file[r]]

Plan(p, a) ==
  /\ pc[p] = "idle" /\ a \in Task[p] /\ Ready(CrOf[a])
  /\ job' = [job EXCEPT ![p] = a]
  /\ seen' = [seen EXCEPT ![p] = Snapshot(a)]
  /\ Goto(p, "planned")
  /\ UNCHANGED <<file, journal, claimed, lock, fixing, visited, restored, faults>>

PlanNothing(p, c) ==
  /\ pc[p] = "idle" /\ c \in file[c] \intersect file[Index]
  /\ Goto(p, "planned")
  /\ UNCHANGED <<file, journal, claimed, lock, job, seen, fixing, visited, restored, faults>>

\* _acquire_status_sync_writer_lock.
Lock(p) ==
  /\ pc[p] = "planned"
  /\ IF lock = None
     THEN lock' = p /\ Goto(p, "promote") /\ UNCHANGED <<job, seen, fixing, visited, restored>>
     ELSE Goto(p, "idle") /\ Forget(p) /\ UNCHANGED lock
  /\ UNCHANGED <<file, journal, claimed, faults>>

(* retry_terminal_promotions, in the order of the random names; it reads     *)
(* every active transaction and raises at the first it cannot read.         *)
RetryPromotion(p) ==
  /\ pc[p] = "promote"
  /\ \/ \E a \in Active :
          /\ Readable(a) /\ LastIs(a, Promotable)
          /\ Promote(p, a, "promote", "release")
          /\ UNCHANGED <<file, log, claimed, lock, job, seen, fixing, visited, restored>>
     \/ /\ \E a \in Active : ~Readable(a)
        /\ GoOn(p, "release")
     \/ /\ \A a \in Active : Readable(a) /\ ~LastIs(a, Promotable)
        /\ GoOn(p, IF job[p] = None THEN "release" ELSE "scan")

\* The transactions that are still active are recovered one after the other.
NextActive(p) ==
  /\ pc[p] = "scan"
  /\ IF Active = {}
     THEN Goto(p, "admit") /\ UNCHANGED fixing
     ELSE \E a \in Active : fixing' = [fixing EXCEPT ![p] = a] /\ Goto(p, "recover")
  /\ visited' = [visited EXCEPT ![p] = {}]
  /\ restored' = [restored EXCEPT ![p] = 0]
  /\ UNCHANGED <<file, journal, claimed, lock, job, seen, faults>>

-----------------------------------------------------------------------------
(* _recover_transaction, of fixing[p].  After the transaction it prepared   *)
(* itself, a command is over; after another one it looks for the next.      *)
Resumed(p) == IF seen[p] = <<>> THEN "release" ELSE "scan"

\* The records are gone, there are none, or they end in PARTIAL.
LeaveUnrecovered(p) ==
  /\ pc[p] = "recover"
  /\ LET a == fixing[p] IN dir[a] # "active" \/ log[a] = <<>> \/ LastIs(a, {"PARTIAL"})
  /\ GoOn(p, "release")

\* Mutant: nothing was attempted, so nothing is done.
AbortUnattemptedSilently(p) ==
  /\ pc[p] = "recover" /\ dir[fixing[p]] = "active" /\ LastIs(fixing[p], {"PREPARED"})
  /\ GoOn(p, "release")

AbortUnattempted(p) ==
  /\ pc[p] = "recover" /\ dir[fixing[p]] = "active" /\ LastIs(fixing[p], {"PREPARED"})
  /\ AppendRecord(p, fixing[p], Rec("ABORTED", None, 0), "end", "release")
  /\ UNCHANGED <<file, dir, claimed, lock, job, seen, fixing, visited, restored>>

\* The attempted targets, last one (the index) first.
Undo(p) ==
  /\ pc[p] = "recover" /\ dir[fixing[p]] = "active"
  /\ LastIs(fixing[p], {"ATTEMPTED", "APPLIED", "RESTORED"})
  /\ LET a == fixing[p]
         rest == ToUndo(a) \ visited[p]
     IN \E r \in rest :
          /\ Index \in rest => r = Index
          /\ visited' = [visited EXCEPT ![p] = @ \union {r}]
          /\ \/ /\ file[r] = Before(a, r)
                /\ UNCHANGED <<file, log, pc, faults>>
             \/ /\ file[r] \notin {Before(a, r), After(a, r)}
                /\ AppendRecord(p, a, Rec("PARTIAL", r, 0), "release", "release")
                /\ UNCHANGED file
             \/ /\ file[r] = After(a, r)
                /\ Replace(p, r, Before(a, r), "note", "release")
                /\ UNCHANGED log
          /\ fixing' = fixing /\ restored' = restored
  /\ UNCHANGED <<dir, claimed, lock, job, seen>>

NoteRestored(p) ==
  /\ pc[p] = "note"
  /\ \E r \in visited[p] :
       /\ r = Index => visited[p] = {Index}
       /\ AppendRecord(p, fixing[p], Rec("RESTORED", r, 0), "recover", "release")
  /\ restored' = [restored EXCEPT ![p] = @ + 1]
  /\ UNCHANGED <<file, dir, claimed, lock, job, seen, fixing, visited>>

FinishUndo(p) ==
  /\ pc[p] = "recover" /\ dir[fixing[p]] = "active"
  /\ LastIs(fixing[p], {"ATTEMPTED", "APPLIED", "RESTORED"})
  /\ ToUndo(fixing[p]) \subseteq visited[p]
  /\ AppendRecord(p, fixing[p], Rec("RECOVERED", None, restored[p]), "end", "release")
  /\ UNCHANGED <<file, dir, claimed, lock, job, seen, fixing, visited, restored>>

\* A transaction that is over is promoted, if its records can be read.
EndRecovery(p) ==
  /\ \/ pc[p] = "end"
     \/ pc[p] = "recover" /\ dir[fixing[p]] = "active" /\ LastIs(fixing[p], Promotable)
  /\ IF Readable(fixing[p])
     THEN /\ Promote(p, fixing[p], Resumed(p), "release")
          /\ UNCHANGED <<file, log, claimed, lock, job, seen, fixing, visited, restored>>
     ELSE GoOn(p, "release")

-----------------------------------------------------------------------------
\* The plan is made again under the lock.
Admit(p) ==
  /\ pc[p] = "admit"
  /\ GoOn(p, IF seen[p] = Snapshot(job[p]) THEN "claim" ELSE "release")

\* claim_authorization creates a file that must not exist.
Claim(p) ==
  /\ pc[p] = "claim"
  /\ IF job[p] \in claimed
     THEN Goto(p, "release") /\ UNCHANGED <<claimed, faults>>
     ELSE \E o \in Outcomes :
            /\ claimed' = IF o = "lost" THEN claimed ELSE claimed \union {job[p]}
            /\ Goto(p, IF o = "ok" THEN "prepare" ELSE "release")
            /\ Count(o)
  /\ UNCHANGED <<file, journal, lock, job, seen, fixing, visited, restored>>

\* The directory is made before its first record; if that fails nothing is recovered.
Prepare(p) ==
  /\ pc[p] = "prepare"
  /\ dir' = [dir EXCEPT ![job[p]] = "active"]
  /\ AppendRecord(p, job[p], Prepared(seen[p]), "next", "release")
  /\ fixing' = [fixing EXCEPT ![p] = job[p]]
  /\ seen' = [seen EXCEPT ![p] = <<>>]
  /\ UNCHANGED <<file, claimed, lock, job, visited, restored>>

\* From here on an exception leads to the recovery of the own transaction.
Attempt(p) ==
  /\ pc[p] = "next"
  /\ \E r \in Targets(job[p]) \ Attempts(job[p]) :
       /\ r = Index => Attempts(job[p]) = Targets(job[p]) \ {Index}
       /\ AppendRecord(p, job[p], Rec("ATTEMPTED", r, 0), "replace", "recover")
  /\ UNCHANGED <<file, dir, claimed, lock, job, seen, fixing, visited, restored>>

Current(p) == CHOOSE r \in Attempts(job[p]) : ~Has(job[p], "APPLIED", r)

ReplaceTarget(p) ==
  /\ pc[p] = "replace"
  /\ LET r == Current(p) IN
     IF file[r] = Before(job[p], r)
     THEN Replace(p, r, After(job[p], r), "account", "recover")
     ELSE Goto(p, "recover") /\ UNCHANGED <<file, faults>>
  /\ UNCHANGED <<journal, claimed, lock, job, seen, fixing, visited, restored>>

Account(p) ==
  /\ pc[p] = "account"
  /\ AppendRecord(p, job[p], Rec("APPLIED", Current(p), 0), "next", "recover")
  /\ UNCHANGED <<file, dir, claimed, lock, job, seen, fixing, visited, restored>>

Commit(p) ==
  /\ pc[p] = "next" /\ Attempts(job[p]) = Targets(job[p])
  /\ AppendRecord(p, job[p], Rec("COMMITTED", None, 0), "over", "recover")
  /\ UNCHANGED <<file, dir, claimed, lock, job, seen, fixing, visited, restored>>

PromoteOwn(p) ==
  /\ pc[p] = "over"
  /\ Promote(p, job[p], "release", "recover")
  /\ UNCHANGED <<file, log, claimed, lock, job, seen, fixing, visited, restored>>

\* The finally clause.
Release(p) ==
  /\ pc[p] = "release"
  /\ lock' = None
  /\ Goto(p, "idle") /\ Forget(p)
  /\ UNCHANGED <<file, journal, claimed, faults>>

-----------------------------------------------------------------------------
\* An interrupted process releases the lock and recovers nothing; a killed one leaves it.
Crash(p) ==
  /\ pc[p] # "idle" /\ faults < MaxFaults
  /\ \E kind \in CrashKinds :
       lock' = IF lock # p THEN lock ELSE IF kind = "kill" THEN Left ELSE None
  /\ faults' = faults + 1
  /\ Goto(p, "idle") /\ Forget(p)
  /\ UNCHANGED <<file, journal, claimed>>

\* A status synchronisation takes the same lock and does not look at this journal.
ForeignWrite ==
  /\ lock = None /\ faults < MaxFaults /\ Foreign \notin file[Index]
  /\ file' = [file EXCEPT ![Index] = @ \union {Foreign}]
  /\ faults' = faults + 1
  /\ UNCHANGED <<journal, claimed, lock, local>>

Step(p) ==
  \/ Lock(p) \/ RetryPromotion(p) \/ NextActive(p)
  \/ LeaveUnrecovered(p) \/ AbortUnattempted(p) \/ Undo(p) \/ NoteRestored(p)
  \/ FinishUndo(p) \/ EndRecovery(p)
  \/ Admit(p) \/ Claim(p) \/ Prepare(p)
  \/ Attempt(p) \/ ReplaceTarget(p) \/ Account(p) \/ Commit(p) \/ PromoteOwn(p)
  \/ Release(p)

Next ==
  \/ \E p \in Proc, a \in Auth : Plan(p, a)
  \/ \E p \in Proc, c \in Cr : PlanNothing(p, c)
  \/ \E p \in Proc : Step(p) \/ Crash(p)
  \/ ForeignWrite

Spec == Init /\ [][Next]_vars

(* A running command goes on; while a transaction is left, terminations that *)
(* can be planned are asked for, until one gets the lock.                   *)
FairSpec ==
  /\ Spec
  /\ \A p \in Proc : WF_vars(Step(p))
  /\ SF_vars(Active # {} /\ lock = None /\ \E p \in Proc, a \in Auth : Plan(p, a))
  /\ SF_vars(lock = None /\ \E p \in Proc : job[p] # None /\ Lock(p))

-----------------------------------------------------------------------------
(* The records tell the truth.  Whenever the lock is free, a change request *)
(* none of whose transactions is open is terminated in all of its files if  *)
(* one of them is COMMITTED, and in none otherwise: recoveries, repeated    *)
(* and interrupted ones included, leave nothing and lose nothing, although  *)
(* the index they restore is shared.                                        *)
Open(a) == LastIs(a, {"PREPARED", "ATTEMPTED", "APPLIED", "RESTORED", "PARTIAL"})
RecordsAreTrue ==
  lock = None =>
    \A c \in Cr :
      LET own == {a \in Auth : CrOf[a] = c} IN
      (\A a \in own : ~Open(a)) =>
        \A r \in {c, Index} : c \in file[r] <=> \E a \in own : LastIs(a, {"COMMITTED"})

(* What is left in active/ gets resolved by later terminations, except:      *)
(* no other change request can be terminated (the own one cannot be planned *)
(* while its files disagree); the lock was left behind; a status            *)
(* synchronisation changed the index meanwhile (PARTIAL); the directory was *)
(* made and the first record was not; a recovery was cut short after a      *)
(* RESTORED record, for the next one does not count that file.              *)
Wedged(a) ==
  \/ log[a] = <<>> \/ ~Readable(a)
  \/ LastIs(a, {"PARTIAL"}) /\ Foreign \in file[Index]
Excused ==
  \/ lock = Left \/ \A c \in Cr : ~Ready(c)
  \/ \E a \in Active : Wedged(a)
Resolves == \A a \in Auth : []<>(dir[a] # "active") \/ <>[]Excused
=============================================================================
