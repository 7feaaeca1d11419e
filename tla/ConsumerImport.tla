--------------------------- MODULE ConsumerImport ---------------------------
(***************************************************************************)
(* The import of a consumer's acceptance result,                           *)
(* meta_flow/ingestion/consumer_acceptance_import.py, run by the release   *)
(* command line with the persistent authorization ledger of                *)
(* meta_flow/release/cli.py and meta_flow/execution_control/authorization. *)
(*                                                                         *)
(* An import consumes its one-use authorization first, then archives the   *)
(* result, a receipt and (for an installed artifact, B2) an attestation    *)
(* under a staged journal.  A repeated import resumes from the journal and *)
(* must not consume again.  There is no lock.                              *)
(*                                                                         *)
(* A result that is unreadable, invalid or unauthorised, or an envelope    *)
(* that is unknown or expired, is refused before anything is written: such *)
(* a command is one that does not start.                                   *)
(***************************************************************************)
EXTENDS Integers, Sequences, FiniteSets

CONSTANTS
  Proc,
  B1, B2,      \* result ids: source-candidate replays, installed artifacts
  Version,     \* what the bytes of a result can be
  Returned,    \* the results as the consumer returned them
  Auth,        \* registered authorizations
  Job,         \* imports a user may start: [proc, result, auth]
  None,
  MaxEdits, MaxCrashes

Result == B1 \union B2

ASSUME KindAssumption  == B1 \intersect B2 = {}
ASSUME ReturnedAssumption == Returned \in [Result -> Version]
ASSUME JobAssumption   == Job \subseteq [proc : Proc, result : Result, auth : Auth]
ASSUME NoneAssumption  == None \notin Version \union Auth
ASSUME BoundAssumption == MaxEdits \in Nat /\ MaxCrashes \in Nat

VARIABLES
  source,    \* the returned result files
  ledger,    \* consumption-ledger.ndjson: STARTED rows, oldest first
  dir,       \* results whose archive directory exists
  journal,   \* .journal.yaml of each archive
  files,     \* the other files of each archive
  pc,
  job,       \* the import each process runs
  mem,       \* the journal it holds in memory
  stage,     \* the artifact it is at
  fresh,     \* it consumed the authorization itself: not a resumed import
  edits, crashes

vars == <<source, ledger, dir, journal, files, pc, job, mem, stage, fresh, edits, crashes>>
local == <<pc, job, mem, stage, fresh>>
store == <<ledger, dir, journal, files>>

Artifact == <<"result", "receipt", "attestation">>
Name == {"result", "receipt", "attestation"}
Stages(r) == IF r \in B2 THEN 1..3 ELSE 1..2
Names(r) == {Artifact[i] : i \in Stages(r)}

Row == [auth : Auth, attempt : Result]
Journal == [digest : Version, auth : Auth, steps : SUBSET Name, done : BOOLEAN]

ASSUME JournalAssumption == \A j \in Journal : j # None

Bytes == [digest : Version, auth : Auth \union {None}]

\* The bytes a journal calls for; only the receipt names the authorization.
Expected(j, a) == [digest |-> j.digest, auth |-> IF a = "receipt" THEN j.auth ELSE None]

-----------------------------------------------------------------------------
Rows == {ledger[i] : i \in DOMAIN ledger}

\* is_consumed, and the attempts that consume looks for.
Consumed(a) == \E row \in Rows : row.auth = a

\* _b1_already_imported: it looks for an archived result only.
B1AlreadyImported == \E r \in B1 : files[r]["result"] # None

Goto(p, step) == pc' = [pc EXCEPT ![p] = step]

\* The command returns or raises.
Return(p) ==
  /\ Goto(p, "idle")
  /\ job' = [job EXCEPT ![p] = None]
  /\ mem' = [mem EXCEPT ![p] = None]
  /\ stage' = [stage EXCEPT ![p] = 1]
  /\ fresh' = [fresh EXCEPT ![p] = FALSE]

Refuse(p) == Return(p) /\ UNCHANGED <<source, store, edits, crashes>>

Init ==
  /\ source = Returned
  /\ ledger = <<>>
  /\ dir = {}
  /\ journal = [r \in Result |-> None]
  /\ files = [r \in Result |-> [a \in Name |-> None]]
  /\ pc = [p \in Proc |-> "idle"]
  /\ job = [p \in Proc |-> None]
  /\ mem = [p \in Proc |-> None]
  /\ stage = [p \in Proc |-> 1]
  /\ fresh = [p \in Proc |-> FALSE]
  /\ edits = 0 /\ crashes = 0

\* The result is read, digested and validated.
ReadResult(j) ==
  /\ pc[j.proc] = "idle"
  /\ Goto(j.proc, "read")
  /\ job' = [job EXCEPT ![j.proc] = j]
  /\ mem' = [mem EXCEPT ![j.proc] =
               [digest |-> source[j.result], auth |-> j.auth, steps |-> {}, done |-> FALSE]]
  /\ UNCHANGED <<source, store, stage, fresh, edits, crashes>>

\* Mutant: only an import of which nothing is archived yet is resumed.
ResumableUntouched(p) ==
  LET j == journal[job[p].result] IN
  j # None /\ ~j.done /\ j.steps = {} /\ j.digest = mem[p].digest

(* The journal comes first: an unfinished import of the same bytes is       *)
(* resumed whatever the authorization.                                      *)
Resumable(p) ==
  LET j == journal[job[p].result] IN j # None /\ ~j.done /\ j.digest = mem[p].digest

(* Without a journal: no archive yet, the authorization unused, the bytes   *)
(* still the ones read, and for an attestation B1 imported before.          *)
Admissible(p) ==
  LET r == job[p].result IN
  /\ journal[r] = None
  /\ r \notin dir
  /\ ~Consumed(job[p].auth)
  /\ source[r] = mem[p].digest
  /\ r \in B2 => B1AlreadyImported

Gate(p) ==
  /\ pc[p] = "read"
  /\ \/ /\ Resumable(p)
        /\ mem' = [mem EXCEPT ![p] = journal[job[p].result]]
        /\ Goto(p, "artifact")
        /\ UNCHANGED <<source, store, job, stage, fresh, edits, crashes>>
     \/ /\ Admissible(p)
        /\ Goto(p, "consume")
        /\ UNCHANGED <<source, store, job, mem, stage, fresh, edits, crashes>>
     \/ ~Resumable(p) /\ ~Admissible(p) /\ Refuse(p)

\* AuthorizationLedger.consume: the ledger is read ...
Consume(p) ==
  /\ pc[p] = "consume"
  /\ \/ /\ ~Consumed(job[p].auth)
        /\ Goto(p, "append")
        /\ UNCHANGED <<source, store, job, mem, stage, fresh, edits, crashes>>
     \/ Consumed(job[p].auth) /\ Refuse(p)

\* Mutant: no STARTED row is written before the effects.
AppendForgotten(p) ==
  /\ pc[p] = "append"
  /\ fresh' = [fresh EXCEPT ![p] = TRUE]
  /\ Goto(p, "mkdir")
  /\ UNCHANGED <<source, store, job, mem, stage, edits, crashes>>

\* ... and then the STARTED row is appended.
AppendStarted(p) ==
  /\ pc[p] = "append"
  /\ ledger' = Append(ledger, [auth |-> job[p].auth, attempt |-> job[p].result])
  /\ fresh' = [fresh EXCEPT ![p] = TRUE]
  /\ Goto(p, "mkdir")
  /\ UNCHANGED <<source, dir, journal, files, job, mem, stage, edits, crashes>>

\* The first _atomic_write of the import creates the archive directory.
MakeDirectory(p) ==
  /\ pc[p] = "mkdir"
  /\ dir' = dir \union {job[p].result}
  /\ Goto(p, "journal")
  /\ UNCHANGED <<source, ledger, journal, files, job, mem, stage, fresh, edits, crashes>>

WriteJournal(p) ==
  /\ pc[p] = "journal"
  /\ journal' = [journal EXCEPT ![job[p].result] = mem[p]]
  /\ Goto(p, "artifact")
  /\ UNCHANGED <<source, ledger, dir, files, job, mem, stage, fresh, edits, crashes>>

\* Mutant: a resumed import takes it that the files were written.
WriteArtifactOnce(p) ==
  /\ pc[p] = "artifact"
  /\ LET a == Artifact[stage[p]] IN
     files' = IF fresh[p] THEN [files EXCEPT ![job[p].result][a] = Expected(mem[p], a)] ELSE files
  /\ Goto(p, "mark")
  /\ UNCHANGED <<source, ledger, dir, journal, job, mem, stage, fresh, edits, crashes>>

(* A fresh import writes the file; a resumed one (_ensure_artifact) only    *)
(* when it is missing, and stops at a file with other bytes.                *)
WriteArtifact(p) ==
  /\ pc[p] = "artifact"
  /\ LET r == job[p].result
         a == Artifact[stage[p]]
         bytes == Expected(mem[p], a) IN
     IF fresh[p] \/ files[r][a] \in {None, bytes}
     THEN /\ files' = [files EXCEPT ![r][a] = bytes]
          /\ Goto(p, "mark")
          /\ UNCHANGED <<source, ledger, dir, journal, job, mem, stage, fresh, edits, crashes>>
     ELSE Refuse(p)

\* Mutant: off by one at the last artifact.
MarkStepPastEnd(p) ==
  /\ pc[p] = "mark"
  /\ mem' = [mem EXCEPT ![p].steps = @ \union {Artifact[stage[p]]}]
  /\ journal' = [journal EXCEPT ![job[p].result] = mem'[p]]
  /\ stage' = [stage EXCEPT ![p] = @ + 1]
  /\ Goto(p, IF stage[p] \in Stages(job[p].result) THEN "artifact" ELSE "finish")
  /\ UNCHANGED <<source, ledger, dir, files, job, fresh, edits, crashes>>

\* The step is marked; the journal on disk becomes the one in memory.
MarkStep(p) ==
  /\ pc[p] = "mark"
  /\ mem' = [mem EXCEPT ![p].steps = @ \union {Artifact[stage[p]]}]
  /\ journal' = [journal EXCEPT ![job[p].result] = mem'[p]]
  /\ IF stage[p] + 1 \in Stages(job[p].result)
     THEN stage' = [stage EXCEPT ![p] = @ + 1] /\ Goto(p, "artifact")
     ELSE UNCHANGED stage /\ Goto(p, "finish")
  /\ UNCHANGED <<source, ledger, dir, files, job, fresh, edits, crashes>>

Finish(p) ==
  /\ pc[p] = "finish"
  /\ journal' = [journal EXCEPT ![job[p].result] = [mem[p] EXCEPT !.done = TRUE]]
  /\ Return(p)
  /\ UNCHANGED <<source, ledger, dir, files, edits, crashes>>

\* The process dies, or a write raises: nothing is undone.
Crash(p) ==
  /\ pc[p] # "idle"
  /\ crashes < MaxCrashes /\ crashes' = crashes + 1
  /\ Return(p)
  /\ UNCHANGED <<source, store, edits>>

\* The returned result file is replaced.
Edit(r) ==
  /\ edits < MaxEdits /\ edits' = edits + 1
  /\ \E v \in Version \ {source[r]} : source' = [source EXCEPT ![r] = v]
  /\ UNCHANGED <<store, local, crashes>>

Step(p) ==
  \/ Gate(p) \/ Consume(p) \/ AppendStarted(p) \/ MakeDirectory(p) \/ WriteJournal(p)
  \/ WriteArtifact(p) \/ MarkStep(p) \/ Finish(p)

Next ==
  \/ \E p \in Proc : Step(p) \/ Crash(p)
  \/ \E j \in Job : ReadResult(j)
  \/ \E r \in Result : Edit(r)

Spec == Init /\ [][Next]_vars

\* A started command runs on, and an import the user may start is repeated.
Fairness ==
  /\ \A p \in Proc : WF_vars(Step(p))
  /\ \A j \in Job : SF_vars(ReadResult(j))

FairSpec == Spec /\ Fairness

-----------------------------------------------------------------------------
Imported(r) == journal[r] # None /\ journal[r].done
Drifted(r) == journal[r] # None /\ journal[r].digest # source[r]

TypeOK ==
  /\ source \in [Result -> Version]
  /\ ledger \in Seq(Row)
  /\ dir \subseteq Result
  /\ journal \in [Result -> Journal \union {None}]
  /\ files \in [Result -> [Name -> Bytes \union {None}]]
  /\ pc \in [Proc -> {"idle", "read", "consume", "append", "mkdir", "journal", "artifact",
                      "mark", "finish"}]
  /\ job \in [Proc -> Job \union {None}]
  /\ mem \in [Proc -> Journal \union {None}]
  /\ stage \in [Proc -> 1..3]
  /\ fresh \in [Proc -> BOOLEAN]
  /\ edits \in 0..MaxEdits /\ crashes \in 0..MaxCrashes

(* The row is on record before any effect: whatever the archive of a result *)
(* holds, its journal names an authorization whose STARTED row is for this  *)
(* very result.                                                             *)
RegisteredBeforeEffects ==
  \A r \in Result :
    /\ r \in dir => \E row \in Rows : row.attempt = r
    /\ journal[r] # None => [auth |-> journal[r].auth, attempt |-> r] \in Rows
    /\ (\E a \in Name : files[r][a] # None) => journal[r] # None

(* A finished import is whole: result, receipt and, for B2, attestation are *)
(* all there and all of the generation and authorization the journal names, *)
(* however many interrupted runs it took and whatever happened to the       *)
(* returned file in between.                                                *)
DoneIsWhole ==
  \A r \in Result :
    Imported(r) =>
      \A a \in Names(r) : a \in journal[r].steps /\ files[r][a] = Expected(journal[r], a)

(* A journalled import is finished by repeating it, unless the returned     *)
(* file has become, and remains, something else than the journal says.      *)
HalfIsFinished ==
  \A r \in Result : (journal[r] # None) ~> (Imported(r) \/ []Drifted(r))

-----------------------------------------------------------------------------
(* The inductive strengthening of RegisteredBeforeEffects.                  *)

Running == \A p \in Proc : pc[p] # "idle" => job[p] \in Job /\ mem[p] \in Journal

\* Until it has written its journal, an import works under its own authorization.
OwnAuthorization ==
  \A p \in Proc : pc[p] \in {"read", "consume", "append", "mkdir", "journal"} =>
    mem[p].auth = job[p].auth

\* Past consume, fresh or resumed, the row of the journal in memory is on record.
RowWritten ==
  \A p \in Proc : pc[p] \in {"mkdir", "journal", "artifact", "mark", "finish"} =>
    [auth |-> mem[p].auth, attempt |-> job[p].result] \in Rows

JournalWritten ==
  \A p \in Proc : pc[p] \in {"artifact", "mark", "finish"} => journal[job[p].result] # None

IInv ==
  /\ TypeOK /\ Running /\ OwnAuthorization /\ RowWritten /\ JournalWritten
  /\ RegisteredBeforeEffects
=============================================================================
