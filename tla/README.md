# meta-flow: verification of its recoverable file transactions

meta-flow is a command-line tool that governs a development workflow kept in files: project
and work records, state projections, change requests, releases. It has no server. Every
command is a short-lived process, several may run at once (people, agents, CI), and a process
may be killed at any point. What protects the files is a family of *journalled transactions*:
plan, authorise once, lock, write a manifest, replace files one by one, commit, and on failure
roll back or leave the rest to a `recover` command. This project models that family.

## 1. Inventory

| Component (source) | State it keeps | Operations | What makes it correct |
|---|---|---|---|
| Exact-file transaction (`execution_control/exact_file_transaction.py`) | target files; one `manifest.json` per authorization id | apply, inspect, recover | write-ahead; RECOVERED and COMMITTED tell the truth; an authorization starts one transaction; a rollback undoes only its own writes |
| Write primitives, shared writer lock (`execution_control/primitives.py`) | flock on one file; O_EXCL `writer.lock` | write_atomic, acquire, release | a write is old or new bytes; the flock dies with its process |
| State projection (`state/projection_transaction.py`) | three projection files; one manifest slot; a named lock file that is also flock'ed | apply, inspect, recover, correct | no live lock is taken over; no written file is forgotten; a terminal slot matches the files; never wedged |
| Consumer acceptance import (`ingestion/consumer_acceptance_import.py`, `release/cli.py`) | archive directory per result: journal, result, receipt, attestation | import (fresh or resumed) | registered before any effect; finished means whole; an interrupted import can be finished |
| Authorization ledger (`execution_control/authorization.py`) | append-only NDJSON of attempts | consume, complete_attempt, is_consumed | single use |
| Work close (`work/lifecycle_transaction.py`, `semantics/generation_lineage.py`) | manifest per authorization; two locks; generation lineage, successor receipts | plan, apply, inspect, recover, repair | one lineage without forks; the files are what the committed transactions wrote |
| Work init, scope amendment (`work/init_transaction.py`, `work/store.py`, `work/scope_amend.py`) | manifest per Work; a receipt | apply, recover-init | as Work close, and a receipt exactly for what was committed |
| Phase transition, metadata (`project/phase_*.py`) | one manifest slot and one lock file per kind; State files; a receipt | plan, apply, inspect, recover | formal files, State and receipts agree; a slot becomes usable again |
| CR status sync (`workflow/cr_status_*.py`) | two channels: State, CR files with a private manifest; `status-sync.lock` | plan, apply, resume, rollback | both channels or neither; the index agrees with the records |
| CR termination (`workflow/cr_termination*.py`) | CR files; a directory of create-only records per transaction; the same lock | plan, apply (with recovery of earlier ones) | the records say what the files show; nothing stays active |
| Worktree (`workspace/project_worktree.py`, `worktree_journal.py`, `worktree_capacity.py`, `git_sync.py`) | a sealed chain of records per attempt; `project.lock`; calibration; git | prepare, execute, resume, bootstrap, create, remove | a switch is run once, from the state it was authorised for, and reported truly |
| Release order (`workflow/release_order.py`) | release ledger and projection | plan, apply, recover | one lineage of events |
| Status transition, publisher, installation, admissions, budgets, event ledger, P6 closure | manifests, refs, assets, ledgers | see section 6 | not modelled |
| Views, policies, checks, rendering, command line | none | pure functions of documents | outside this project |

Components interact through files only: the shared flock serialises exact-file, Work and Phase
writers; Phase runs a State transaction inside its own; every writer of a governed file either
is a Work close or appends a receipt to the chain of one; status sync and termination share
`status-sync.lock` and the CR files, but not their journals.

The hard behaviours are: death between any two file writes; a write that raises before or
after it took effect; commands admitted before a lock and overtaken before they get it; a
`recover` that comes late, twice, or next to a live writer; a retry of a change whose first
attempt is unresolved; a lock file that outlives its owner. `PROJECT.json` lists each of them
at the line where it bites, with the properties about it.

## 2. Modules

| Module | Models |
|---|---|
| `AtomicCommit` | the abstract promise of the exact-file transaction: no locks, manifests or processes |
| `ExactFile`, `MCExactFile` | exact-file transaction with the shared flock; instances with competing, chained and retried plans |
| `ExactFileProofs` | proofs about `ExactFile`, and that it implements `AtomicCommit` |
| `StateProjection`, `MCStateProjection`, `StateProjectionProofs` | State projection transaction with its lock file and single slot, and proofs |
| `ConsumerImport`, `MCConsumerImport`, `ConsumerImportProofs` | import, staged journal, authorization ledger, and proofs |
| `SharedProjection` | files, receipts, lineage, the two locks, repair: what Work transactions share |
| `WorkClose`, `WorkInit` | Work close; Work init and CR-lane scope amendment. Both extend `SharedProjection` |
| `Governance`, `MCGovernance`, `GovernanceProofs` | their composition: one Next, the properties across them, and proofs |
| `PhaseSlot`, `MCPhaseSlot` | Phase metadata updates and transitions with a competing Work close |
| `CrStatusSync`, `MCCrStatusSync`, `CrStatusSyncProofs` | status synchronisation over both channels, and proofs |
| `CrTermination`, `MCCrTermination`, `CrTerminationProofs` | termination, its journal, the recovery of earlier terminations, and proofs |
| `Worktree`, `MCWorktree`, `WorktreeProofs` | worktree commands, journal, calibration, with git as environment, and proofs |
| `ReleaseOrder`, `MCReleaseOrder`, `ReleaseOrderProofs` | release lineage, and proofs |

### Correspondence

Each process has a program counter `pc` and the variables its command holds in memory. There
is one action per durable effect, in the order of the code; `map` in `PROJECT.json` gives the
lines of each. A write ends `ok`, `lost` (raised without effect) or, where modelled, `landed`
(raised after it took effect, in the directory fsync). Contents are opaque or sets of facts,
and a digest is its content. Validation that refuses before any effect is the same as not
starting. *History* variables are not in the code and no action reads them.

**ExactFile.** `disk` is the target files, `journal[a]` the manifest of authorization `a`,
`lock` the flock, `mem` the manifest in memory, which after a failed write differs from the
durable one. `RollbackTarget` is one iteration of `_rollback_exact`; `FinishRollback` the tail
of the except clause and of recover. `owner` is history: whose forward write produced a file's
bytes. unlink cannot land and raise. `Edit` is a user who does not take the lock.

**Refinement.** `Abstract == INSTANCE AtomicCommit` with the files as they are, and the
manifests seen through `TxTargets` and `TxStatus`: a transaction is open from its PREPARED
manifest, done at COMMITTED, undone at RECOVERED. Every other step maps to taking over or
giving back one file, or to a stutter.

**StateProjection.** The transaction id is the digest of the planned images, so it *is* that
plan here: two attempts at the same change have the same id. `lockId` is the lock file (absent,
created but unnamed, or naming a transaction) and `holder` the live process with the flock.
`LockedAdmission` jumps to the restore loop when it refuses, as the code does (the check is
inside the try block). `ClaimLock` has the four ways recover proceeds, among them the one
without a lock for a terminal manifest; `upset` is history: a recover went on to restore
without holding the lock. `Crash` is a kill, which leaves the lock file, or an interrupt, whose
finally clause removes it. The project has no Work-close generations.

**ConsumerImport.** `ledger` is the consumption ledger (no command calls `complete_attempt`, so
all rows are STARTED), `journal`, `dir` and `files` the archives, `source` the returned files.
Check and append of `consume` are two steps. Any write that raises ends the command with nothing
undone, which is `Crash`. All B1 and B2 results are of one candidate.

**SharedProjection, WorkClose, WorkInit, Governance.** A file is a set of facts; `Effect` says
what each transaction adds and removes. A generation is a COMMITTED close; `receipts` are the
successors of a generation by writers that are not closes, and `ChainEnd` the image a file must
have before anybody may write it. A receipt's `pred` is the receipts it follows and `mine` those
an init knows it wrote: sets of at most one. Init takes any history that the writers can have
left: generations and receipts in chains. A file may be overwritten with nothing (`Lost`), and no
plan is made on such bytes (`Readable`). Files are visited in the order of their numbers. `flock`
dies with its process, `wlock` (`writer.lock`) does not. The State refresh of an init is the
outcome of `RefreshState`; admission, HEAD and single-writer checks of WORK.yaml refuse before
effects and are left out, as are manifests without a lineage field. Writes fail without effect.
`upset` is history: recover acted on a manifest that was finished since it read it, a repair ran
over an unresolved init, or recover-init took back a receipt of a finished init. The properties
exempt it, since the code does these things.

**PhaseSlot.** File 1 stands for the formal files, file 2 for State; the State transaction is
one step that succeeds or fails, the receipts one chain, `OtherWriter` a Work close. `plock[k]`
is the lock file of a kind, `slock` that of State; a dead one names its transaction. `upset` as
above: recover reads the slot before its locks.

**CrStatusSync.** A file is the set of CRs whose new status it shows, the index everybody's.
The State transaction is one write; neither it nor the compensation compares State with what
was planned, as in the code (`overrun` is history: a CR moved between a plan and its writes;
`apart`: a sync was reported PARTIAL or died between the channels). Manifests written with
`write_text` may be torn, other writes are lost. The removal of a transaction directory is all
or nothing; a moved HEAD counts as a failed `MarkRecovery`; planning and its revalidation are
one step. A plan needs an index that agrees with the records (`IndexIsCurrent`) unless the caller
passes `--rebuild`; `Rebuild` says which callers there are. Nobody else writes the CR files.

**CrTermination.** A file is the set of CRs it shows as terminated plus what a status sync
wrote; the CR's record stands for the files of its own, `Index` for the shared ones. `log[a]`
is the directory of records, `dir[a]` whether it is in `active/` or `terminal/`. An
authorization is good for one transaction and stands for it. `Readable` is the one check of
`validate_record_sequence` that the code's own steps can fail. `ForeignWrite` is a status sync
under the same lock, as one step.

**Worktree.** Git is external: a worktree on a branch, a branch at a commit. `clean` stands for
no change, nothing staged or untracked, no operation in progress. An observation is one step.
Its digest covers the time of observing, which only matters where two are compared, in `Examine`:
`Times` says which times callers bring, the present (`"fresh"`, what `observe_worktree` takes by
default) or that of the planned observation, handed back (`"planned"`, as
`tests/test_cr051_project_worktree.py` does); the passing run has both. One calibration profile;
`chain[a]` is the last phase of an attempt, enough because the phases come in one order. Sealed
attempts are not prepared again; `owner.json` and the byte counts of the capacity proof are left
out. `runs`, `last`, `disturbed` are history.

**ReleaseOrder.** A state is the sequence of events that led to it; counters and the consumed
bootstrap key follow. Bindings, identity, evidence and harness checks refuse before effects. The
operator is honest: he passes on the journal status he saw and keeps the state file, as in
`tests/test_cr072_release_order.py:331-371`; only `commit` compares the snapshot, and its two
digests are read in one step here. Recovered events are reviewed before the next snapshot is
called clean. No lock is taken, so two commands may write at once; after that (`overlapped`)
nothing is claimed and no command starts.

## 3. Runs

| Run | Bounds | Shows |
|---|---|---|
| `exact_chain` | 2 processes, 3 plans, 2 paths, 1 failed write of either kind, 1 death, 1 edit | write-ahead, truth of RECOVERED, sound inspection, one start per authorization, no foreign undo |
| `exact_live` | 2 clean write failures, 1 death, no edits, fair; 201k states | commits survive, everything unresolved gets resolved, `AtomicCommit` is implemented |
| `exact_retry` | one plan authorised twice, 1 death | **violated**: commits survive (recover undoes a committed retry) |
| `state` | a writer and two recoverers on 2 processes, 2 failures, 1 death, fair; 1.2M states | nothing forgotten, terminal slot is true, a live lock is kept, usable again |
| `state_race` | 2 writers, nothing fails | **violated**: a terminal slot is true (the loser overwrites the winner's manifest) |
| `import_apart` | B1 and B2 importers, 2 deaths, 1 replaced file, fair | registered first, whole, finished when repeated |
| `govern` | 2 processes; one close, one init, one amendment, one repair after a committed close and a phase receipt; 1 fault or death; fair; 151k states | no fork, files are what was committed, off-chain files are explained, closes resolve |
| `phase` | an update, a transition, a Work close; 1 fault or death; fair; 87k states | published slot, receipts and files agree; live locks are kept; usable again |
| `cr_sync` | 2 CRs, one over both channels and retried, an operator; 2 faults or deaths; fair; 105k states | index and channels agree, no foreign undo, transactions resolve |
| `cr_termination` | 2 processes, 2 CRs, 3 authorizations; 2 faults, deaths or foreign writes; fair; 414k states | records are true, transactions resolve |
| `worktree` | 2 commands, two switches and a creation; 1 trouble (failure, death, expiry, foreign change); both times of observing; 120k states | switched once, from the planned state, reported truly |
| `release_order` | 2 commands, 4 events on 3 actions; 2 faults or deaths; fair; 23k states | one lineage, interrupted events finish |

The two violations are described, with the lines they contradict, under `findings` in
`PROJECT.json`. They are not repaired in the models: the models say what the code does. Where
the code gives no promise, a property names the case it leaves out (`upset`, `overrun`,
`overlapped`, `Overtaken`, `StaleLock`, `Wedged` and so on), and the hazard in `PROJECT.json`
says what happens there.

*Why these bounds.* Two processes are enough for every race here, because all lock protocols
admit one holder and what matters is one command overtaking another. Two targets tell "all",
"some" and "none" apart. Two faults or deaths reach a failing rollback and an interrupted
recovery; where the state space allows one only (`govern`, `phase`, `worktree`) a rollback or
recovery still meets every later command. `CommittedSurvive` is stated for unedited files, since
a user may overwrite what he likes. `MaxFaults`, `MaxCrashes`, `MaxEdits`, `MaxRepairs`,
`MaxCommits` and `MaxTrouble` bound the environment; nothing in the proofs depends on their
values.

*Further counterexamples.* Four configurations beside the runs each show one thing the code
does not do, in seconds, with `tlc -config <cfg> <module>`:

| Configuration, module | Bounds | Violated |
|---|---|---|
| `PhaseSlotSigned.cfg`, `MCPhaseSlot` | as `phase`, 2 faults | `PublishedIsCurrent` |
| `PhaseSlotLeftLock.cfg`, `MCPhaseSlot` | two transitions, 1 kill, fair | `LeftLockIsTakenOver` |
| `CrStatusSyncOvertaken.cfg`, `MCCrStatusSync` | as `cr_sync`, 1 interrupt | `OneUnresolved` |
| `WorktreeFresh.cfg`, `MCWorktree` | one command, one switch, nothing fails; observations of the present time; fair | `SealedIsStarted` |

* `PublishedIsCurrent` holds for one fault and fails for two. The receipt cannot be recorded, the
  rollback restores the formal file, and the write that should note it fails or the process dies,
  so the slot stays COMMITTED without a successor. `recover` then calls
  `record_shared_projection_successor` (`phase_metadata.py:1204-1224`,
  `phase_transition.py:1161-1223`), which returns an empty id when a file equals its before
  image, and signs the rolled-back update as published; `USER-MANUAL.md:166` promises that the
  five targets converge together or are restored.
* `LeftLockIsTakenOver` is the promise of `USER-MANUAL.md:256` about locks left before a PREPARED
  manifest. `recover` keeps it for an empty slot (`tests/test_phase_transition.py:1164`); when
  the slot holds an earlier, finished transition it claims the lock for that one and is refused
  every time (`phase_transition.py:1196`). `UsableAgain`, which `phase` checks, therefore leaves
  out the lock files no recover removes (`Abandoned`) and a file that is in neither of its
  generations (`Drifted`), and nothing else: a lock file left by a kill, that of State included,
  must be gone again.
* `OneUnresolved` is `USER-MANUAL.md:449`: a new synchronisation is BLOCKED while a transaction
  is unresolved. The question is asked before the lock and not again under it
  (`cr_status_transaction.py:179-185`), so a second one is admitted after the first was
  interrupted. With three faults `IndexAgrees` and `NoForeignUndo` fail (`cr_sync` allows two): a
  synchronisation planned while another was half done is admitted after that one was rolled back
  and had begun again, and undoing one and resuming the other leaves the index showing a change
  request its record does not. The theorems about `CrStatusSync` therefore assume one
  synchronising process.
* `SealedIsStarted`: the digest that `execute_switch` compares (`project_worktree.py:1061`)
  covers the time of observing, so an untouched worktree is `before_observation_drift` to every
  observation but one of the planned time, and the sealed switch is never run. It holds for
  callers that hand that time back (`Times = {"planned"}`).

*Deadlock* is checked wherever the configuration does not switch it off; it is switched off
only where all plans of an instance can be used up, after which the system rightly stops.

*Fairness.* No step of a running command waits (the locks are non-blocking), so a process that is
not killed takes its next step: weak fairness of `Step(p)`. Beyond that each liveness property
assumes the operator the manual tells to repeat a command while it is needed, with strong
fairness because the locks may be busy at times: `recover` of the exact-file and State
transactions and of the phase slots; for Work close both its start and its locking while the
locks are free; rollback of a status sync; execution of a sealed switch (for `SealedIsStarted`);
recovery of a partial release event. A termination has no recover command: while one is left
active, terminations that can be planned are asked for, and one of them gets the lock. Nothing
else assumes that new commands are started.

## 4. Proofs

TLAPS checks, for every set of processes, files, plans, transactions, results, authorizations,
change requests and events, and any number of faults, deaths and foreign writes:

| Module | Theorems | Assuming besides the constants' types |
|---|---|---|
| `ExactFileProofs` | `TypeCorrect`, `WriteAheadHolds`, `RecoveredHolds`, `ConsumedOnceHolds`, `InspectionHolds` | |
| | `NoForeignUndoHolds` | `DistinctGenerations` |
| | `CommittedIsFinalHolds` | `LostOnly` |
| | `Refinement` (of `AtomicCommit`), `CommittedSurviveHolds` | `DistinctGenerations`, `LostOnly` |
| `ConsumerImportProofs` | `TypeCorrect`, `RegisteredHolds` | |
| | `WholeHolds` | `OneImporter` |
| `StateProjectionProofs` | `TypeCorrect`, `LiveLockKept` | |
| | `ForgetsNothing` | `OneWriter` |
| | `ResolvedIsCurrent` | `OneWriter`, `LostOnly` |
| `GovernanceProofs` | `TypeCorrect`, `NoForkInvariant` | |
| | `FilesHold` | `OwnFacts`, `PastIsOver` |
| `CrTerminationProofs` | `RecordsTrue`, `OneAtATime` | |
| `CrStatusSyncProofs` | `IndexHolds`, `UndoesItsOwn`, `ChannelsHold` | `OneSynchroniser` |
| `WorktreeProofs` | `SwitchesOnce`, `SwitchStartsFromPlanned`, `ResumeAgrees` | |
| `ReleaseOrderProofs` | `TypeCorrect`, `LineageHolds` | |

All assumptions on the right but the last two are there because the properties fail without
them:

* `DistinctGenerations`: no two plans give a file the same new bytes. `exact_retry` breaks it.
* `LostOnly`: a write that raises has not taken effect. A COMMITTED manifest that lands and
  raises makes the command roll back; if it dies while it does, the manifest on disk says
  COMMITTED of files that were restored (exact-file and State transactions alike).
* `OneImporter`: one process at a time imports a given result; two would write each other's
  journal, which no lock prevents. Other results may be imported beside it.
* `OneWriter`: one process runs `apply`, any number run `recover`. `state_race` has two.
* `OneSynchroniser`: one process synchronises, any number recover. See *Further counterexamples*.
* `OwnFacts`: in each file that a transaction writes it adds a fact that was not there at first,
  that no other transaction adds, and nobody removes what another adds. A file then tells who has
  written it. The code's transactions do so (a close marks its own Work as done, an init lists
  its own Work); two that wrote the very same entry could not be told apart by their files.
* `PastIsOver`: transactions finished before the history starts count as part of the initial
  files.

Each of these is met by the instance of the passing run about that property (`MCGovernance`
states the last two as an `ASSUME`, so that TLC evaluates them), except that
`cr_sync` has two synchronising processes, and at most two faults. The constants'
assumptions stand in the component modules (paths are integers in sort order, plans and
initial files are well typed, sentinels such as `None`, `Left`, `Torn` and `Foreign` are not
among the values they are told from) and TLC evaluates them in every run.

None of the properties is inductive. What had to be added, module by module; TLC checked each
strengthening on the module's instance before it was proved.

**Exact-file.** `IInv` adds: only the flock holder is past `AcquireLock` (`LockHeld`); the
manifest about to be created does not exist (`FreshManifest`, true because admission is
repeated under the lock); while nothing failed memory and disk agree (`InStep`); a rollback
knows at least the targets the durable manifest names, and each one it has dealt with is free
of its bytes or on the failure list (`RollingBack`, `RollbackStarts`). The second is what a
failed manifest write threatens: after a lost write memory is ahead of disk, after a landed one
they agree, so memory never lags. `OwnerBytes` ties the history variable to bytes and is needed
for `NoForeignUndo`. Inspection is sound because what it accepts is either terminal, and then
the two invariants above say what is in the files, or not there.

**Refinement.** `RInv` adds what a step needs to be an abstract one: manifests announce targets
of their plan only (`Planned`); of the files a running transaction has announced at most the
last is not yet applied, and no other transaction has taken over an applied one (`Ours`,
`Applied`); a rollback is never that of a COMMITTED manifest (`RollbackOpen`, where `LostOnly`
is needed).

**Committed work survives.** "A chain of later commits leads from what was written to what is
there" is written without recursion: every set of images that holds the first and is closed
under the committed and running plans holds the second (`Leads`). A commit or a write only adds
links. A rollback removes one, and by `DistinctGenerations` only the link at the end of the
chain, whose file it restores. `Written` says that without edits the files are as the process
at work believes.

**Import.** `IInv`: past `consume` the row of the journal in memory is on record
(`RowWritten`), for a resumed import because it copied a journal whose row was; whoever writes
artifacts has a journal on disk (`JournalWritten`). `WInv`: the journal in hand and the one on
disk agree on what is archived, and the stages before the current one are archived and marked.

**State projection.** `Ownership`: who writes holds the lock, with a manifest in hand, except a
recover that went on without it (`upset`). `Accounted`: while an apply waits nothing is dirty,
while it writes disk and memory agree, and a restore covers every dirty file it has not yet
restored. `Truthful`: the slot and the manifest in hand say which image of each target the file
has: all old, old but for those attempted, or all new.

**Work transactions: no fork.** Plans are made and receipts looked up before the lock, so the
question is whether what a command checked still holds when it commits. `LockIsHeld`: whoever
changes a manifest, a receipt or a file has the flock, and only it does. `Prepared`: from its
check on, the lineage in a close's manifest points to the present heads, and a close that is
begun is not COMMITTED, so it adds one generation after the head or none. `Registered`: a receipt
an init has written is still the end of its chain, so that taking it back leaves a chain;
`ReceiptsInOrder`: receipts never follow each other in a circle, without which a chain from the
head need not reach its end. `StampsBounded` makes the latest generation exist. `upset` is
excluded: recover may act on a manifest finished since it was read, and a receipt it takes back
may then have a successor. The theorem starts from any history the writers can have left (Init).

**Work transactions: the files.** `FilesInv`: every file is its first content with what some
transactions made of it (`Made`), namely those whose own facts it shows (`Wrote`): all COMMITTED
ones, no RECOVERED one, and none without a manifest (`Told`). A manifest is always a plan of its
transaction, made of images without it (`PlanOf`). `AtWork` says by label how far a command has
got: `Keeping`, all targets announced are written; `Writing`, all but the last; `Undone`, those a
rollback has visited are without its facts, unless one failed. Because targets are visited in
order (`InOrder`, from `RefAssumption`), the target announced last is the one being written. A
process that dies leaves some of its targets written, and that is what `Told` allows of an
unresolved transaction.

**Termination.** `Control`: the lock excludes, and a plan showed files without the change
request. `Accounts`: records come in the order the protocol demands, and only one transaction is
open (`OneOpen`), since a command prepares its own after it has resolved every other under the
same lock. `Truth`: an open transaction has written at most what it recorded as attempted, and
no committed one is about the same change request; whichever change request has none open shows
in all of its files or in none. The index is shared: restoring it must not take away another
termination's entry, and does not because the images were drawn under the lock.

**Status sync.** `Single`: at most one transaction is unresolved. `Whole`: the files are, one by
one, in one of the two generations of its manifest, and in both the index agrees with the
records; so it does not matter which way a recovery goes nor how often it starts over.
`Progress` and `Restoring` say where apply, rollback and recovery are. `CInv` adds for the
channels that State is what the plan in hand made of it, and that State agrees with the old
generation, and, unless the command at work is about to write it, with the new one.

**Worktree.** `Once`: git has run for an attempt only after its OBSERVATION_REQUIRED record was
sealed, and at most once. `Faithful`: what is executed is the sealed intent, which never changes
(`Planned`). `Examined`: from the check to the switch the worktree is what the plan names unless
`disturbed`. `Left`: what git did last stays what an observer finds.

**Release order.** There is no lock, and a recovery works with a plan made earlier. `Recorded`:
while one command writes at a time (`Alone`, not `overlapped`), the records lead to the projection
or to the state after it, and then the last event is half done. `Grown`: every plan was made on a
state that the projection has been through; states only grow, and an action fits states of one
length (`Planned`), so a plan for the half done event was made on the very state it is to be
repeated on. `Knows`: the writer's place says where the ledger and the projection are.

*Only model-checked:* all liveness (`EventuallyResolved`, `UsableAgain`, `HalfIsFinished`,
`CloseResolves`, `Resolves`, `Finishes`), which is outside this prover like ENABLED; everything
about `PhaseSlot`, whose `PublishedIsCurrent` holds for one fault and not for two (*Further
counterexamples*), and whose receipts are taken back with `SelectSeq`, a recursive operator that
the provers know nothing of (`Discarded`); and `OffChainIsExplained`, which needs, next to both
arguments about `Governance` above, that the file and the end of its chain differ only by
transactions that are unresolved or lack their receipt.

## 5. Plan

1. Proofs: `OffChainIsExplained`; `PublishedIsCurrent` under the condition that the slot is not
   signed after a failed rollback, and `LiveLockIsKept` of `PhaseSlot`.
2. `StateProjection`: correction and rebind; commands that hold its lock already.
3. Work status transition and publication close on `SharedProjection`, the legacy recovery of
   Work init and the G1 amendment.
4. Status sync and termination composed on one set of CR files.
5. Publisher, admissions and budgets, event ledger and compaction, P6 closure over the import.

## 6. Not modelled

* Work status transition: the same manifest, locks and lineage as Work close; planned on top of
  `SharedProjection`.
* Installation: `recovery.py` plans a recovery, and no code in the repository executes such a
  plan; staging and backups are planned work.
* Publisher, admissions, budgets, event ledger, compaction, observation storage, artifact legs,
  P6 closure: planned, after the transactions they lean on.
* Document parsing and rendering, views, policies, checks, evals, evidence audits, installers,
  the command line, the validation task runner. They keep no state of their own or live in the
  operating system; their writes go through the transactions above.
