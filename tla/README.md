# A TLA+ verification of Falsiq

Falsiq records, for a Git repository, what a user intends, the concrete
counterexamples ("attacks") put to that intent, the user's rulings on them, and
the brief and tests derived from both. Everything durable goes through one
append-only file, `.falsiq/ledger.jsonl`. This directory models the parts of
the program whose correctness depends on order, concurrency and failure, checks
them with TLC on small instances, and proves the central safety results with
TLAPS for every instance.

## 1. The system: inventory

All paths are under `falsiq/` in the repository.

| component | state it keeps | operations | correct when |
|---|---|---|---|
| ledger storage (`ledger.py`: `Ledger`, `_file_lock`, journal) | `ledger.jsonl`, `.ledger.txn`, `.ledger.lock` | `read`, `append_batch`, recovery of an interrupted append | batches are atomic and durable under kills, I/O errors and power losses; nothing reported is lost; nothing refused appears; the lock is always released |
| fact rules (`facts.py`, `ledger.py`: `validate_fact_sequence`, `derive_case_state`) | none: pure over the sequence of facts | validate a whole sequence, derive the state of a case | no legal sequence of commands leaves a ledger that the next read rejects; one ruling per attack is active |
| attack rounds (`attacks.py`) | none of its own | select records, `validate_round_gate`, `append_attack_round` | a round is added once, in order, and only after the previous round is fully ruled |
| rulings and outcomes (`rulings.py`, `outcomes.py`) | none of its own | build the batch of a ruling, and of its amendment intent | a re-ruling supersedes the active one; an amend ruling never enters the ledger without its intent |
| derivation (`derive.py`) | derive lock, `IMPLEMENTATION_BRIEF.md`, `brief.json` and `tests/` of a case | request, submit: validate, publish artifacts, append the derivation fact, roll back | published artifacts and the derivation fact agree after any failure |
| brief (`brief.py`) | none | render the brief of a case | deterministic from the facts |
| guard (`workflow.py`: `ready_brief`) | reads ledger and artifacts | say whether a case may be implemented | passes only on the current derivation with its own artifacts |
| command line (`cli.py`) and RPC (`rpc.py`) | none | read the ledger, build facts, append with the head they read | a decision taken on a stale read is never committed |
| migration, policy and profiles (`policy.py`, `profiles.py`, `cli.py`: migrate) | the migration marker in the ledger | move the ledger from schema 1 to 2 | every fact after the marker is a version 2 fact |
| sandbox (`sandbox.py`) | `.manifest.json` and its lock, the managed branches and Git worktrees | create with rollback, reap, forced reap | every managed branch and worktree is in the manifest, so that it can be reaped; nobody's work and nothing foreign is taken |
| agent runtime (`agent_runtime.py`) | a child process, two output files, a monitor thread, transcripts | start, wait with a deadline, kill, capture, replay | a result is used only if the run stayed within its bounds; no child outlives its call; a transcript answers only its own request |
| corpus release (`corpus.py`, `eval/prepare_corpus.py`) | public and private directories, their staging directories, the access log | validate, split, publish two trees, roll back, read a held-out task | a public tree has its private one on every disk; a failed release leaves nothing; a held-out body is read only after its event was written and synced in the access log |
| evaluation (`evaluation.py`, `eval/`) | the run in memory, transcripts, three report files | rounds of reviewers, selector and principal; the baseline; scoring; builds, hidden tests and judging; reports | what a run goes by is documented; nothing refused reaches a report; scores stay with their conditions; every run ends |
| selection (`attacks.py`, `evaluation.py`, `workflow.py`) | none: pure | rank and select candidates, normalise reviewer files, assemble a round | both selection policies choose equally good rounds; what was prepared assembles |
| metrics (`score.py`, `benchmark.py`) | none: pure over records | compute and aggregate scores | deterministic |
| texts (`prompts/`, `prompt_assets.py`, `profiles/`, `review_language.py`, `constraints.py`, `domain_runtime.py`, `skill/`) | none | produce prompts and wording | no protocol behaviour |

How they interact: every command is its own operating-system process. A
mutating command reads the ledger (under the lock, which also runs recovery),
decides without the lock, and calls `append_batch` with the head it read; the
comparison under the lock is what keeps its decision valid. `derive` adds a
lock of its own and files outside the ledger. The guard reads both. The sandbox
has a lock and a manifest of its own and drives `git`, which is a process that
can outlive the falsiq process that started it. The evaluation harness calls
agents through the agent runtime from several threads, selects with a copy of the
product's policy, and reads the corpus that a release published.

What is hard: two processes between read and append; a kill or a power loss
between any two system calls; an I/O error while cleaning up after an I/O
error; sequences of individually legal commands that add up to an illegal
ledger; artifacts on disk and facts in the ledger that must agree although they
cannot be written together; a manifest and the worktrees it names, which cannot be
changed together either; a child that exits while its deadline, its output limit
and the other threads' failures race with it; a resumed run that meets what an
earlier run left.

## 2. The plan

The order follows what everything else rests on.

1. **`LedgerStore`**, with **`AtomicLog`** as its abstract specification and
   **`LedgerRefinement`** as the link: the file protocol. Done, with six theorems,
   the refinement among them.
2. **`FactRules`** (pure) and **`CaseLedger`** on top of it: the commands as they
   change an atomic ledger. Done, with six theorems.
3. **`DerivePublish`**: the artifacts of a derivation against the ledger. Done,
   with four theorems.
4. **`Sandbox`**: manifest before worktree, rollback of a failed creation, reaping
   after a kill. Done, with five theorems.
5. **`CorpusRelease`**: the two-tree release, private tree first, its rollback, and
   the logged read of a held-out task. Done, with six theorems.
6. **`AgentRuntime`** and **`Evaluation`** on top of it: exit, deadline and output
   limit of a child; the phases of a run, resumption and reports. Done, with six
   theorems.
7. **`Selection`** (pure), which `Evaluation` uses. Done, with three theorems.
8. Left: `CaseLedger` shown to need no more of the ledger than `AtomicLog`
   promises; the metrics of `score.py` and `benchmark.py`.

## 3. The modules and the code

### 3.1 `LedgerStore`: `ledger.py`, class `Ledger` and `_file_lock`

One action per system call that another process, a kill or a power loss can
come between.

| action | code |
|---|---|
| `StartRead`, `StartAppend` | a command calls `read` or `append_batch`, with or without `expected_head` |
| `Acquire` | `_file_lock` |
| `RecoverNothing`, `Recover` | `_load_transaction_journal_unlocked` and the verdict of `_recover_transaction_unlocked` |
| `Truncate`, `SyncTruncated`, `SyncComplete`, `RecoveryFails` | the two ways a recovery finishes a batch, and their errors |
| `Unlink`, `SyncDirectory`, `RemovalFails` | `_remove_transaction_journal_unlocked` |
| `Read`, `LoadCorrupt` | `read` returns, or the ledger does not parse |
| `RefuseBatch`, `AcceptBatch` | the comparison with the expected head and the validation of the batch |
| `InstallJournal`, `SyncJournal`, `PrepareFails` | `_write_transaction_journal_unlocked`: rename, directory fsync, or an error in either |
| `WriteChunk`, `SyncAppend`, `AppendFails` | `_append_transaction_bytes_unlocked`, and the recovery inside `append_batch` |
| `Kill`, `PowerLoss` | outside the code |

A file is two variables: what processes see, and the set of contents the disk
may hold; fsync makes the set a singleton. `ctx` records why a process runs
recovery or a removal, as the same functions end differently: at the start of
an operation an error refuses the batch, inside `append_batch` it leaves a doubt,
after the append it is a commit whose cleanup failed. `promised` and `answer`
are history: what callers were shown and told.

Taken as given: SHA-256 is injective (the journal keeps the prefix itself, not
its digest); appended bytes reach the disk in order, without holes; a failed
fsync leaves the set of possible contents as it was; every writer of the two
files takes the lock, which makes the re-checks of the ledger between journal
and append (`ledger.py:837-851`) unreachable; one batch is submitted once.

`AtomicLog` is what callers may rely on: a log of whole batches, each after the
head it expected, at most one in doubt. `LedgerRefinement` maps the files to it.
The batch counts as undecided while some disk content has bytes of it and some
lacks the rest; the fsync, the recovery's fsync or the power loss decides it.

### 3.2 `FactRules` and `CaseLedger`: `facts.py`, `ledger.py`, `attacks.py`, `rulings.py`, `derive.py`, `cli.py`, `workflow.py`

`FactRules` has the kinds of fact and `validate_fact_sequence` as a fold over
the sequence, with the state of its loop (case heads, active intents, active
rulings, rounds). An id is the position of the fact; texts, paths, digests and
timestamps are left out.

`CaseLedger` runs the mutating commands. `ReadFacts` and `ReadVersion` are the
reads a command makes, in its order; `AddIntent`, `AddReview`, `Rule`,
`AddOutcome`, `Derive` and `Migrate` decide on what was read and append with the
head that the command passes (none, for `intent`); `Leave` is any end without an
append. The builders (`RulingBatches`, `ReviewBatchesV1`, `ReviewBatchesV2`,
`OutcomeBatches`, `DerivationBatches`) return the batches that the code builds from
a state, except attacks on a target that is no intent of the case: nothing between a
reviewer's file and `validate_fact_sequence` looks at targets, so `attacks.py` builds
these too, and they are refused as the reviewer's error. `BuildersAccepted` is
about all others. `RoundGate` is `validate_round_gate`, `Ready` is the part of
`ready_brief` that the ledger decides. Reads and appends are atomic, which is
what `LedgerRefinement` establishes.

### 3.3 `DerivePublish`: `derive.py`, `cli.py`, `workflow.py`

| action | code |
|---|---|
| `Submit`, `Lock` | `_derive_command` reads and renders; `_derivation_lock` |
| `Backup`, `Install` | the renames of `_publish_with_ledger_append`, output by output |
| `PublishFails`, `Interrupted` | staging or a rename raises, or an interrupt comes before or after the flag that records the rename |
| `AppendFact`, `AppendRaises` | `append_batch` with the head that was read; it may raise with the fact in the ledger |
| `Status`, `StatusUnknown` | `commit_status`: the fact is there, absent, or the ledger cannot be read |
| `Withdraw`, `Restore`, `EndUndo` | the rollback, and its early end |
| `Drop` | the backups go, the lock is released |
| `Guard`, `Check`, `PrintBrief` | `ready_brief` (ledger, brief, stubs), and the second read of `brief` |
| `AppendOther`, `Edit`, `Kill` | other commands; a file edited or lost; a process that dies |

Left out: an edit while a submission holds the lock (it may hit what was just
published, and no code can tell); a directory removed half way by `rmtree`; the
symbolic-link checks. That open attacks forbid a derivation is in `CaseLedger`,
that ledger calls return is `LockReleased`.

### 3.4 `Sandbox`: `sandbox.py`

| action | code |
|---|---|
| `New`, `Reap`, `Lock` | a command starts; `_manifest_lock` |
| `Create` | the checks of `create_sandbox`, and the manifest with the new entry |
| `Add`, `AddBranch`, `AddRegister`, `AddCheckout`, `AddFails` | `git worktree add`: it is started; it makes the branch, a locked registration with its directory, the files; it fails, or is killed |
| `Created` | git has ended; `_validate_created_worktree` |
| `UndoTree`, `UndoBranch`, `Forget` | `_rollback_creation`: worktree or empty directory, branch, and the entry, if nothing stayed |
| `Load`, `Pick`, `Remove`, `DropBranch`, `DropEntries` | `reap_sandboxes`: read the manifest and the registrations once; look at an entry; `git worktree remove`; `update-ref -d`; one write without the entries that were reaped |
| `Kill`, `PowerLoss`, `Work`, `Touch` | a falsiq process dies; everything stops; a worktree is used, moved, switched, removed or replaced |

`onDisk` is the set of manifests that a power loss may leave. `seen` and `entries`
of a job are what a reap read at its beginning and acts on afterwards: the
difference to what is there when it acts is what `DirtyKept` and `ForeignKept` are
about. `excused`, `orphans` and `abandoned` are history.

What the model shows beyond its properties: the lock of the manifest is free as
soon as a falsiq process is killed, while the `git worktree add` it started goes
on. A reap in this moment may find nothing of the worktree, drop the entry, and the
worktree that git then makes is in no manifest. The properties except these ids
(`abandoned`). A git that is killed leaves a registration that is locked, which
`worktree remove --force` refuses; `ForcedReapClears` says so.

Left out: the content of manifest entries and their validation; a branch that is
checked out elsewhere between the removal of its worktree and `update-ref`; a
second `git worktree add` for the same id while the first one runs; a commit in a
worktree that is clean, which a reap deletes together with its branch, as
documented.

### 3.5 `CorpusRelease`: `corpus.py`, `eval/prepare_corpus.py`

| action | code |
|---|---|
| `Prepare` | `prepare_corpus_release` up to its first write: paths, approval of the corpus, `select_holdout`; a dry run ends here |
| `Mkdir`, `Fill`, `Rename`, `Sync` | `_publish_release`: staging directories, trees, private rename and sync, then public |
| `Withdraw`, `Resync`, `Discard` | `_rollback_output` of the public and then of the private side |
| `Look`, `Write`, `Flush`, `Open` | `read_private_holdout_task`: manifest; one `os.write` of the whole event, a part of it or the rest; fsync; body and its hash |
| `Kill`, `PowerLoss` (`LogGoes`, `LogStays`) | outside the code |

`place` is what is at a path, `durable` what a power loss may leave there. The
split is any set of held-out tasks with the right number of each stratum: the seed
picks one of them.

What the model shows beyond its properties: when the withdrawal of the public tree
fails and the private one is withdrawn, a public tree is left without its private
one. The code says "manual cleanup required" of such a run, and `PublicHasPrivate`
excepts it (`unclean`).

The access log is what was written to it, in order (`pieces`: whole lines, parts and
ends of lines), how much of that is synced, and whether its name is on the disk: a log
that a reader created (`cached`) has a name that nothing syncs, one that has been there
longer, or was seen after a power loss, is `durable`. A power loss takes a log that is
not `durable` as a whole, or leaves of any log at least what was synced, and of the rest
a first part that may end in a torn piece. `lost` is history. `ReadsLogged` is what
`_append_access_event` achieves, which is less than the documents say of it (section 6,
"seen, but not a run"). A line in more than two writes, and data of an unsynced file
that comes back with holes, are left out.

### 3.6 `AgentRuntime`, `Evaluation`, `Selection`: `agent_runtime.py`, `evaluation.py`, `attacks.py`, `workflow.py`

| action | code |
|---|---|
| `Calls` (`Replay`, `Spawn`) | `AgentRuntime.invoke`: from the transcript, or with a child |
| `Serves` (`Writes`, `Exits`, `KillOversized`) | the child, which is external, and `_monitor_output_sizes` |
| `Waits` (`TimesOut`, `Aborted`, `Ends`, `Capture`, `CaptureFails`) | `communicate` meets the deadline; the killed child is waited for; the exit is judged; `write_transcript` |
| `Collect` (`Reviewed` ... `JudgedOne`), `Fail` | what `run_evaluation` and `run_conformance_evaluation` do with the answers of a phase, and the `EvaluationError` that ends them |
| `Test` | `_run_hidden_tests` |
| `WriteReport`, `WriteFails` | `write_reports` |
| `Begin`, `Stop`, `RemoveCapture` | the harness is started, possibly with `--resume`; killed or interrupted; a transcript is removed by hand |

`AgentRuntime` has one call per thread, `Evaluation` says which calls a phase makes
and what their answers do. `used` is history: the calls of the run, their requests
and the answers it went by. An answer is acceptable, refused by a check, or a leak;
payloads are kept as far as later requests depend on them. `Selection` has the two
selection policies and the preparation of reviewer files as operators. Both rank by
score and digest and prefer the best total, then the lesser digests; what they rank by
(`ProductOrder`, `HarnessOrder`), what they allow and how they search is translated
from each. The digests are of two schemas, so that ties may be broken differently:
`SelectionAgrees` claims the same attacks only where the digests order the candidates
alike, and the same number and total always.

Known and left out: an interrupt leaves children un-killed (`Stop`); a descendant
of a killed child that holds its output open may block the second `communicate`; a
response is captured before the role's check sees it, so a resumed run is refused
again until the transcript is removed (which is why there is `RemoveCapture`); the
three reports are replaced one after another, and a failure in between leaves
reports of two runs side by side; two harness processes that share a run directory
are not excluded by any lock; the requirement ids that a baseline answer implicates
are passed back to the asker. One task is modelled, as tasks share nothing but
their reports. Metrics, rendering, the content of
requests and the authorization of live runs are not modelled.

## 4. What the runs show

The definitions called *Variant* in the modules are the program with one
plausible mistake in it. `PROJECT.json` names, for each property of each
passing run, the variant that breaks it.

| run | question | bounds |
|---|---|---|
| `ledger_all_faults` | is anything promised lost, anything refused kept, any batch behind the wrong head, under every fault? | 2 processes, 2 batches of 3 chunks in 2 lines, 4 faults of any kind |
| `ledger_refines` | is it an atomic log, are the files always recoverable, is the lock always given up? | the same with 2 faults, without `torn` |
| `ledger_torn_rollback` | is it recoverable when a rollback dies before its fsync? No: finding 1 | as `ledger_all_faults` |
| `case_rounds` | do rounds, versions and batches stay in order when commands interleave with a migration? | 2 processes, 7 facts, 2 attacks a round, policies of 1 and 2 rounds |
| `case_state` | does the guard accept only what is current, and can every state be continued? | 2 processes, 6 facts, an attack with an option, `intended` and `amend` |
| `case_versions` | is every new fact after the marker version 2? No: finding 2 | 2 processes, 4 facts |
| `derive_faults` | do artifacts and ledger agree after every failure, and is the derive lock always given up? | 2 processes, 2 responses, 3 facts, 2 faults of any kind |
| `derive_guard_gap` | does the guard check every committed artifact? No: finding 3 | 4 facts, publication and rollback errors |
| `derive_print_race` | does `brief` print a committed brief? No: finding 4 | 3 facts, no faults |
| `sandbox_faults` | is everything managed in the manifest, does a forced reap clear it, is work and what is foreign kept? | 2 processes, 2 ids, 2 faults of any kind, 2 changes from outside |
| `corpus_faults` | are releases all or nothing, private first, and never overwritten; is a body read only after its event is written and synced? | 2 releases, 1 reader, 2 public and 2 private paths, 2 tasks, 3 corpora, 2 faults of any kind |
| `evaluation` | is what a run goes by documented, checked and attributed, does no child stay, does every run end? | 2 reviewers, 2 rounds, 2 runs of which the second resumes, 1 removed transcript; the policies compared on all subsets of 8 candidates |

Why the bounds are enough. In the ledger the lock serializes everything but
faults, so two processes (one that failed, one that recovers) and two batches
(one that must survive, one in flight) give every situation; three chunks in two
lines give the empty, the partial line, the partial batch and the complete
batch; four faults allow a fault, a fault in its recovery, and one in the
recovery of that. In `CaseLedger` the smallest history in which rounds can go
wrong is root, attacks, rulings, next attacks: 5 to 7 facts with two processes.
In `DerivePublish` a winner, a loser at the same head and an older derivation
take three facts, an error and an error while handling it take two faults.
In `Sandbox` every hazard is about one id, one process that left it behind and one
that finds it; the second id shows that the failure of one entry leaves the others
alone, two faults are a failure and a failure of its rollback. In `CorpusRelease` a
second release can race for either path of the first, and its tree can be met by a
reader of the first one's manifest; one task held out and one not make a split. A
second reader, which may leave a part of a line that the first one writes behind, is
in the theorem `AccessIsLogged`, not in the run.
In `Evaluation` two reviewers are one that fails and one beside it, two rounds are
one after which the budget is checked and one that exhausts it, two runs are one
that stops at any point and one that resumes; the eight candidates include ties, two
of them with digests in a different order, and one set for each rule of composition;
one reviewer offers the same review twice. Processes and batches are interchangeable, and symmetry is used for safety
only.

`OneActiveIntent` and `BuildersAccepted` are evaluated when no command runs;
any ledger is reached in such a state, since `Leave` may end every command.
Deadlock is checked except in `corpus_faults` and `evaluation`, whose releases, reads
and runs happen once: when all have ended, nothing is left to do.

**Fairness.** `FairSpec` and `LiveSpec` assume of a process that is in the
middle of an operation, with the lock, that it makes its next call (weak fairness
per process). The code has no loop or wait between lock and unlock but the
system calls themselves. Nothing is assumed about commands being started or
about who gets a lock: `flock` promises no order, so "every waiting process gets
the lock" is not claimed. `FairSpec` of `Evaluation` assumes that the harness goes
on while it can: that some thread makes a call, sees its child exit or its deadline
pass, or the main thread goes on from the answers. Children may hang forever and the
operator may do nothing; what makes a run end is the deadline, which is one of the
steps of a waiting parent.

## 5. What is proved

`LedgerStoreProofs`, for all processes, batches, batch lengths, fault kinds and
numbers of faults, from the three named assumptions on the constants:

* `TypeCorrect`: `Spec => []TypeOK`.
* `PromisesSurvive`: `Spec => []PromisedSurvives`. The property alone is not
  inductive: a step that truncates is safe only if the journal it follows is not
  older than what was promised. The invariant `IInv` says, about every journal
  that is installed or may come back after a power loss: what it would truncate
  to, or complete, has every promise as a prefix (`PromisesResolved`); the
  contents the disk may hold are prefixes of one another (`PrefixesAgree`); the
  newest journal is the installed one and an older one belongs to a batch that is
  settled (`NewestInstalled`, `OldResolved`); the ledger is not written before
  the journal is (`WriteAhead`); and what each program counter knows (`Settled`,
  `AtLabel`).

`DerivePublishProofs`, for all processes, responses, bounds and faults, from
`PublishAssumption` (a response has stubs, which `validate_deriver_response`
demands, and a rendered brief is not a missing file):

* `TypeCorrect`: `Spec => []TypeOK`, with `OngoingAt`, as `First` picks an output
  only from a set that has one.
* `CommittedStays`: `Spec => []NoCommittedRollback`. `HistoryAt` adds what the
  ledger can hold of a process since it read: nothing before its append; at most
  its own fact, at the next position, when the append ended without an answer.
  The expected head is what makes the position certain.
* `SubmissionRepairs`: `Spec => []DerivingRepairs`. `HeldAt` adds that only the
  holder of the derive lock changes artifacts or appends a derivation.
* `RestingFilesCommitted`: `Spec => []FilesAtRest`. While it has the lock, a
  submission is able to restore what the latest derivation committed (`Restorable`):
  what it moved away is in its backups, what it published where no file was is
  recorded in its flags, and the rest is untouched. Its own artifacts are in place
  as soon as its fact is in the ledger, also when `append_batch` raised after the
  append (`RestAt`). That a machine brief which is not wanted was not committed
  before either rests on the marker never going away (`MarkerFirst`).

`CaseLedgerProofs`, for all processes, commands, verdicts, options, policies and
bounds, from `CaseAssumption`. None of these four theorems rests on
`validate_fact_sequence`: whatever it lets through, a command that passes the head of
its read appends to the very facts it has read (`StepGrows`), so that each fact can be
compared with the facts before it (`FactAt`), which never change:

* `TypeCorrect`: `Spec => []TypeOK`.
* `OnlyRootsStayBehind`: `Spec => []OnlyRootsLag`. A review reads the version after
  the facts; `CommandAt` says that version 1 then still holds of what it had read.
* `RoundsOrdered`: `Spec => []RoundsInOrder`, with two things the gate takes for
  granted: a later round has an earlier one before it (`Preceded`), and the ruling
  that opened it came before it (`Ordered`). The greatest ruling on an attack exists
  because each batch adds at most one ruling, at the end (`Latest`).
* `ReadyBriefIsCurrent`: `Spec => []ReadyIsCurrent`. The recorded head of a
  derivation is its own position, and nothing was open there.

`CaseValidityProofs`, from the same assumption, is about `validate_fact_sequence`
itself. The validator is a loop, in the model a fold over the sequence. The library
states induction with an operator as a parameter, which no prover can instantiate;
the least-number principle (`LeastNumber`, from the well-foundedness of the naturals)
takes a set instead, and does the same work: of the prefixes on which a claim about
the loop fails one is the shortest. So the fold exists (`FoldExists`), a run of it is a
trace of `Absorb` (`Traced`), and what it remembers of an accepted ledger is a summary
that can be read off the facts (`Summary`, `Validated`): a ledger is valid exactly when
each fact is admitted behind the facts before it (`ValidIffAdmitted`). Every append of a
command is validated, so every ledger is (`LegalInvariant`):

* `IntentsAreTracked`: `Spec => []OneActiveIntent`. An amendment supersedes an active
  intent of its own case and is active itself, which keeps one per case (`Single`).
* `BuiltIsAccepted`: `Spec => []BuildersAccepted`, one lemma for each builder
  (`RulingAccepted`, `ReviewV1Accepted`, `ReviewV2Accepted`, `ClosingAccepted`): each
  fact of the batch is admitted behind the summary of the facts before it.

The second half of `LedgerStoreProofs`, on top of `IInv`:

* `RefusalIsFinal`: `Spec => []RefusedNeverAppears`, and `HeadsAreKept`:
  `Spec => []FollowsExpectedHead`. A refused batch could come back through a journal,
  and a batch that another process completes was compared with its head long before;
  the invariant `HInv` therefore speaks of every content and every journal that is
  on some disk: the ids in them are of batches that were not refused, and the
  pending batch of a journal follows the head it expected in the journal's prefix.

`LedgerRefinementProofs`, from the same assumptions, on top of `IInv` and `HInv`, and
for every behaviour without the fault kind `torn` (finding 1 is what happens with it):

* `AlwaysRecoverable`: `Spec => []LedgerRecoverable`. `RInv` says what the two files
  and their disks hold between them: without a journal the ledger is whole and on
  disk (`BareIsWhole`); with one, whatever the disk may hold of the ledger lies
  between what the journal says it was and what it will be, and only one of the two
  files is ahead of its disk (`JournalFits`); journals start from whole ledgers, and
  those that only the disk holds are settled (`JournalsWhole`); and a journal is
  removed only after its verdict is on disk (`UnlinkSettled`). The step that `torn`
  would add leaves an unsynced rollback behind, and breaks `JournalFits`.
* `StorageImplementsLog`: `Spec => ImplementsAtomicLog`, the refinement. The files
  are `Clear` when no batch is in doubt and give one of two views of the abstract log
  (`ViewOfFiles`); each step keeps the view (`StillClear`, `StillInDoubt`), puts a
  batch in doubt (`NowInDoubt`: the first chunk), or decides it (`NowDecided`: an
  fsync or a loss of power). What callers are told meanwhile is a step of the abstract
  log because of `HInv`: a batch that is refused is in no content, so it is neither in
  the log nor in doubt (`NowhereInLog`).

`SandboxProofs`, for all processes, ids, bounds and faults, from
`SandboxAssumption`. `SInv` adds to `TypeOK` what a job is at each program counter
(`JobFits`), which trees go with which registrations (`TreeFits`), that what exists
or is about to exist is in every manifest a disk may hold (`AllManaged`, `Makes`),
and what a reap has read, still has to look at and has cleared (`Reaps`):

* `TypeCorrect`, `AlwaysAccounted` (`NothingUnmanaged`), `ForcedReapIsThorough`
  (`ForcedReapClears`), `WorkIsKept` (`DirtyKept`), `OthersAreKept` (`ForeignKept`).

`CorpusReleaseProofs`, for all releases, readers, paths, corpora and faults, from
`CorpusAssumption`. `CInv` says of each run, by the step it has reached, where its
two trees are, in memory and on every disk (`Knows`); in particular that its
private tree is durable before the public one has its name, and that what is at a
path belongs to the run that moved it there:

* `TypeCorrect`, `PrivateIsKept` (`PublicHasPrivate`), `RollbackIsComplete`
  (`FailedLeavesNothing`), `DurableIsOwn` (`NeverOverwritten`), and, with the
  invariant of the readers (`ReadInv`), `OnlyListedReturned` (`ReturnedIsListed`).
* `AccessIsLogged`: `Spec => []ReadsLogged`. `LogInv` says what each reader has in the
  log by the step it has reached: a part of its line, all of it, all of it synced. The
  log only grows (`LogGrows`), and what a power loss leaves of it has all that was
  synced, or nothing (`LogLossStep`).

`EvaluationProofs`, for all finite sets of reviewers, all rounds, runs and answers,
from `EvaluationAssumption` (the orders that labels and judging are shuffled into are
permutations of the three conditions, which `_seeded_order` returns):

* `TypeCorrect`: `Spec => []TypeOK`, with the budget of a task: three rulings a round
  and the given number of rounds. `Budget` counts them phase by phase, with the
  attacks of the round that wait for theirs. That a round has one to three is a fact
  about the selection (`SelectedFew`, from `ChosenIs`), so the theorem has its
  hypothesis: what reviewers offer are finite sets of candidates with counts and
  digests in `Nat` and one of the three costs (`ReviewersOffer`), as their schema has
  them. That no two have one content is checked by the harness (`Repeats`).
* `NoChildLeft`: `Spec => []NoOrphan`. A child is up only while its parent waits
  (`Attended`), so that none is left when all calls of a phase have ended.
* `ReportsAreChecked`: `Spec => []RefusedNeverReported`. What the run has gone by
  has passed its checks, also when it was replayed.
* `RunsAreDocumented`: `Spec => []RunDocumented`. The property is inductive only
  together with what makes a call's id its own: `DocInv` says what a run knows in
  each phase (`Fits`), which ids it has used up by then (`PastAt`; `NotPast`: the
  calls of the phase are not among them), what each call is for and has to show for
  itself (`CallAt`), and that transcripts hold answers to the requests they name
  (`TranscriptsFit`). Each step of the harness goes on to a phase in which all of
  this holds again and the ids of the phase it leaves are used up (`Good`,
  `HarnessMoves`). An operator removes transcripts between runs only.
* `ScoresFollowBuilds`: the score recorded for a condition is one that a judge gave to
  what a builder made of that condition's instructions, and `ScoresAreAttributed`:
  `Spec => []ScoresAttributed`, under the hypothesis that builders and judges answer
  with their request, which is how the run tells builds and scores apart. On top of
  `DocInv`: builds go by label, scores by condition (`Attributed`), and the order of
  the labels has exactly one label for each condition (`JudgedIs`).
* `SelectionsAgree`: `Spec => []SelectionAgrees`, for every pool of candidates told
  apart by their digests. The
  sets that the harness allows are those that the product finds valid, of one, two or
  three candidates (`SameRules`); a candidate alone is one (`OneIsValid`), so that the
  largest allowed sets are the valid sets of the first size the product finds any of
  (`ReviewsAre`). Both score alike (`SameScore`), so that both choose one of the same
  best sets, and the same one in the same order if the digests order alike
  (`SameOrder`: what each chooses precedes all others).
* `SelectionIsBest`: what is selected from any candidates told apart by their digests
  is valid, of the largest size, of the highest score of that size, and of the
  remaining ties the one with the lesser digests; `RankedIs`: the order of `_ranked`
  takes each of them once. It needs that the choices the operators make exist: scores
  are natural numbers and have a total (`SameScore`, `TotalIsNumber`), a finite
  order has a greatest element (`Greatest`), and `Precedes` orders sets of one size
  totally (`PrecedesOn`, `LeastIs`), as `RanksBefore` orders candidates.
* `PreparedAlwaysAssemble`: `Spec => []PreparedAssembles`. The prepared batches are as
  many as the classes, since each names its own.

Only model-checked: what is temporal beyond invariants, step properties and the
refinement (`LockReleased`, `DeriveLockReleased`, `EvaluationEnds`), as liveness and
`ENABLED` are out of the prover's reach.

## 6. Findings

1. **A rollback that is not synced can be undone** (`ledger_torn_rollback`,
   `ledger.py:906`). Recovery truncates a partial batch and syncs; if it dies
   between the two, the next recovery sees a ledger of the right size and removes
   the journal without a sync. A power loss can then bring the partial batch back
   with nothing to roll it back. The fault kind `torn` allows the death at that
   point; without it (`ledger_refines`) the files are always recoverable. What
   has been promised survives even this (`PromisedSurvives`).
2. **A version 1 root after the marker** (`case_versions`, `cli.py:82`). `intent`
   reads the schema version and appends without an expected head. `OnlyRootsLag`
   shows that nothing but a root can be caught this way.
3. **The guard does not check `brief.json`** (`derive_guard_gap`,
   `workflow.py:393`). A failed publication whose rollback is cut short leaves
   brief and stubs of the latest derivation without its `brief.json`.
4. **`brief` reads the brief twice** (`derive_print_race`, `cli.py:340`). A
   concurrent submission can replace the file between the digest check and the
   print.

Seen, but not a run:

* **The access log may go with its events** (`corpus.py:732`). The first access creates
  the log (`corpus.py:723`); the file is synced, its directory is not, as it is for the
  trees (`corpus.py:543`). A power loss after the held-out body was read may leave no
  log. eval/README.md:74 says that "the runner must durably append the event before it
  reads the task body", DECISIONS.md:223 that "a durable log append is required". The
  model has this (`LogGoes`); `ReadsLogged` excepts it (`lost`) and shows that nothing
  else takes away an event whose body was read.
* **An event may be in the middle of a line** (`corpus.py:731`). A write that is cut
  short leaves a part of a line in the log, nothing removes it, and the event of the
  next access goes on behind it: it is there, but not as a line that can be parsed.
  The model has this (`pieces`); `ReadsLogged` asks only that the whole event is in
  the synced log.
* **A candidate listed twice costs the round.** Such a reviewer batch passes
  `prepare_review_batch` (`workflow.py:157`); the assembly (`attacks.py:227`) then
  refuses the whole round, where README.md:189-194 says that rejected output becomes
  that role's empty batch instead of aborting the round. `PreparedAssembles` holds for
  all other files.

## 7. Not modelled

The metrics of `score.py` and `benchmark.py` and the aggregation in the reports, which
are arithmetic over records; the authorization of live evaluation runs; prompts,
profiles, wording and the rendering of the brief, which keep no state; the Windows
branch of the file lock; parsing of command lines and of JSON; parsing of `git`'s
output.
