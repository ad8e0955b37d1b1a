# Verification of Dungeon-Maintainer

Dungeon-Maintainer lets a language model repair a game repository under the
control of one user.  The model works in a detached worktree; only `/apply`
writes to the user's repository, and only a candidate that was verified.  This
directory holds TLA+ models of that program, TLC runs that check them on small
instances, and TLAPS proofs for every instance.  Paths below are relative to
the repository's root, which is checked out as `src/`.

## The system

One Shell process (HTTP, server-sent events, a Chromium window) runs an
`AppController`, which owns one Pi child process for the active task.  Pi runs
the model and loads the Extension: nine tools for the model, five commands for
the user.  Tools and commands call the workspace, repair, evidence and game
modules.  The evaluation suite drives the same core without a Shell.

| component | state | operations | hard behaviour | what makes it correct |
|---|---|---|---|---|
| task store (`src/task`) | the TaskRecord in memory, `task.json`, `events.jsonl` | create, read, save, transition, approve and close the write scope | memory changes before a save that may fail; a crash between saves | the record on disk never claims more than what happened |
| request lifecycle, extension (`src/pi`) | `executionApproved`, `refreshFailure`, the current request | session start, input, settled, shutdown | authority must not survive run, refusal, failure, restart | writes only within what the user confirmed in this run |
| edit (`src/pi/tools/patch.ts`, `src/workspace/patch.ts`) | the worktree, budgets of the task | authorise, stage, write files, record, refresh | not atomic: crash or cancel inside the write loop | a candidate is withdrawn before the first byte changes |
| finish, check (`src/pi/tools`, `src/workspace/check.ts`) | write scope, ledger | reproduced, proposed, result, blocked, diagnosed; a check | several saves per call, each may fail | as above |
| verification (`src/repair`) | replay cache, check cache, `patch.diff` | sync, check, replay, capture, bind | caches; another writer; crash between steps | everything a verification relies on ran on the bound content |
| commands (`src/pi/commands`, `src/workspace/apply.ts`) | target repository | `/verify /diff /apply /discard /play` | target and task.json are two stores | target and task agree; only certified content gets there |
| evidence ledger (`src/evidence`) | `evidence.jsonl` | capture, invalidate, supersede | torn lines, several appends per operation, two processes | active records are those of the present content |
| shell (`src/shell`) | the lock `requestState`, phase, activity, pending dialog, clients | input, steer, abort, command, compact, events of Pi | what follows an await acts on a request that is over; events arrive late | one request at a time; every request ends and is reported as it ended |
| application controller (`src/app`) | active task, child process, `switching`, `closed` | start, switch, close, child exit | check-then-act across awaits | one child, of the active task; a switch and a close end; the record of a task has one writer |
| game runtime (`src/game`, `src/pi/game-runtime.ts`) | browser, Vite, the one-time checkpoint, the trace, `replayInputSql` | ensure, look, act, query, reload, replay, close | Vite reloads the page on its own; a start fails half way; a reload consumes the checkpoint | a replay starts where the reproduction did and runs the present code; nothing opened is left behind |
| worktrees (`src/workspace/worktree.ts`, `src/app`) | the detached worktree, the snapshot hash | create, copy, compare, remove, resume | the user edits and commits while files are copied | a task starts from the repository as it was at one moment |
| publish (`src/workspace/publish.ts`) | temporary worktree, branch, pull request | preview, confirm, gate, apply, commit, push, create | the preview outdates; retry after partial failure | what was verified and shown is what is pushed, once |
| inspection (`src/inspection`) | the source records of the ledger | read, read_many, bundle; search, status, files, diff | windows are cut by bytes and skipped when seen before | a line that is skipped was sent |
| evaluation suite (`src/eval`) | job list, results, the chain of checkpoint writes | run a job, persist, resume, summarise | concurrent workers, lost writes, kills, every step of a run failing | every job is counted once, and no failure of the suite is counted against the Agent |
| configuration, logging, progress, UI text | none of their own | reads and formatting | - | not modelled |

## The modules

`RepairTask.tla` models one task in the Pi process that owns it, from the first
session to `applied` or `discarded`, over any number of requests, agent runs and
restarts.

*State.*  `task` and `disk` are the TaskRecord in memory and in `task.json`;
`worktree`, `ita` (files registered with `git add --intent-to-add`) and their
pair `Hash` are what `hashWorktree` sees; `patchFile` is `patch.diff`; `ledger`
is the part of the evidence ledger that decides what a handler does; `applied`
is the target repository.  `running`, `approved`, `refresh`, `cache` and `edit`
live in the process.  `granted` and `tested` are history variables: what the
user confirmed in this run, and what the verification in progress has found.

*Steps.*  A handler of the source is a chain of steps, `pc` names the next one.
A step ends where the source awaits something another actor or a crash can come
between: a save, a file written, the ledger, a check.  Saves are queued in
`todo` in the order the handler calls them; the record reaches memory when its
save starts.  `Save` completes it, `SaveFails` leaves it in memory only and ends
the handler, `Crash` can fall before or after it.

*Correspondence.*  Each action is named after what the handler does;
`PROJECT.json` gives the lines each definition translates.

| actions | source |
|---|---|
| `Save SaveFails Crash OpenSession RestoreSession` | `task/store.ts`, `onSessionStart` |
| `NewRequest BeginGoal SetObjective Settle` | `onInput`, `beginNaturalRequest`, `onAgentSettled` |
| `GrantEdit EnableWrites ReuseGrant StageEdit PassBudget WriteFile AbortEdit RecordEdit RefreshReplay` | `authorizeEdit`, `applyPrecisePatch`, the edit tool |
| `FinishReproduced SaveReproduction IndexReproduction FinishProposed RevokeWrites FinishBlocked FinishDiagnosed CheckTool` | the finish and check tools |
| `BeginVerify ... CloseVerify FailVerify` | `verifyTask`, finish(result), `/verify` |
| `Diff Apply RollBack EndApply Discard CommitDiscard Shutdown` | the commands |

*Abstractions.*  A file's content is a model value; `Base` is what the snapshot
had.  Every edit of a file costs one line.  A check is the related-test check:
it runs the tests among the files the record names and passes when there are
none.  A verification carries the facts it relied on (`Facts`), which the code
does not store: they make certification a property of contents, not of hashes.
The states `awaiting_approval` and `paused` are in the table of transitions and
unreachable, as in the code, where nothing calls `requestApproval`.

*Assumptions.*  The Shell accepts a command only between agent runs, and Pi
runs tools one after the other.  A session whose start fails to save stays
usable.  The reverse `git apply` of a roll back succeeds.

`RepairPromise.tla` is the abstract specification: a candidate, the target and
an outcome.  A candidate is certified as a whole; the target receives only the
certified candidate; a closed task stays closed.  `KeepsPromise` states that
RepairTask implements it under the mapping at the end of RepairTask.

`MCRepairTask.tla` adds the symmetry of contents for TLC.
`RepairTaskProofs.tla` holds the theorems.

`ShellRequest.tla` models the lock that a Shell holds on its Pi: who may send
what, and what the page is shown meanwhile.

*State.*  `requestState`, `phase`, `pendingError`, `activity` and `dialog` are
the session's variables (`shell/session.ts`); `pending` is the table of
`PiRpcProcess`; `stdin` and `stdout` are the two pipes.  `answered` holds calls
whose promise is settled and whose continuation has not run.  `turn` and
`noise` count requests and events against their bounds; a call remembers the
turn it was made in.  `pi` is the Pi process.

*Steps.*  A route handler runs to its await of `sendPiCommand` in one step; what
follows the await, its catch branch included, is `Continue(a)`.  A response and
the events of Pi share one ordered pipe, but the continuation of a response runs
after later lines of the same read, so other steps may come between.

| actions | source |
|---|---|
| `Input Steer Abort Command Compact UiResponse Close` | the handlers of `shell/routes.ts` and the controller's `close` |
| `Continue...` | the rest of those handlers, `settleCommand` for a fixed command |
| `ReadLine HandleEvent` and one operator per event | `handleLine`, `shell/events.ts` |
| `ChildClosed` | the child's `close` event and the exit handler of the controller |
| `PiReads PiReports PiSettles PiEndsCommand PiEndsCompaction PiDies` | the Pi CLI, external |

*Pi.*  Modelled from how the source uses it: it refuses any call or accepts it;
an accepted prompt runs an agent turn that ends with `agent_settled`; a fixed
command ends with its response only (`app/pi-process.ts:160`); an abort ends
the turn but closes no dialog, since no dialog passes a signal; steering that
reaches an idle agent starts a turn; it may die at any time.

*Left out.*  The thinking level, renaming, the route of task switches, the event
buffer and reconnecting pages, the retry after automatic compaction, slash
commands typed into `/api/input`, and errors Pi reports outside of a turn.

`AppController.tla` models the process that owns the Shell and the child.  `run`,
`close` and every switch request are threads; `pc` is the await a thread is at
and `own` the child it starts or stops.  `rpc`, `active`, `switching`, `closed`
and `completed` are the fields of the class, `child` the operating system's view
of every process started.

| actions | source |
|---|---|
| `RunStarts RunFinishes` | `run` from the first start to its finally block |
| `BeginSwitch Refuse StopPrevious StartNext NextStarted SwitchFails PreviousRestarted` | `switchTask`, cut at its awaits, and what it validates or creates |
| `StopActivePi StartActivePi Started StartFails` | `startActivePi`, `stopActivePi`, and `start` and `stop` of `PiRpcProcess` |
| `Close`, `Exit`, `HandleExit` | `close`, the process itself, the handler of `waitForExit` |

A stopped child lives until it exits or is killed; a start may fail for any
reason, among them that `rpc` is not this child any more.  Left out are the
records a switch saves (see the hazard at `app/pi-process.ts:382`) and what
validation looks at: a target is refused or not.

ShellRequest and AppController meet at `sendPiCommand`, `onClose` and the exit
of the child: ShellRequest looks at one child from its start to its end.

`EvidenceLedger.tla` models `evidence.jsonl` and the store on top of it.

*State.*  `file` is what the appends left, in pieces that are whole or half; `mem`
is the store's map; `job` holds the steps a handler still has to make and `todo`
the appends of the mutation in progress, in any order, since they follow the
order of a Map.  An append begins and ends in two steps: a crash, a failure or
the parent can come between.  `artifacts` are the files beside the ledger.

| actions | source |
|---|---|
| `AppendBegins AppendEnds AppendFails` | `appendRecord` inside `serializeMutation` |
| `HandlerStep` with `Captures Retired Outdated` | `capture`, `captureText`, `invalidatePaths`, `supersede...` |
| `Record SaveReproduction Edit BeginGoal SyncWorktree` | the tools, `saveReproduction`, `applyPrecisePatch`, `beginNaturalRequest`, `syncWorktreeChanges` |
| `Start Crash ParentReads` | `load` and its repair of a torn line, the end of the child, the panel's read in the parent |

What a record says is abstracted to its identity (`recordId`).  The parent's read
and repair are one step between two appends: an append of one line is one write.
`EvidencePromise.tla` is the abstract ledger: records that are captured, retired
and never lost, one active reproduction, goals that begin with nothing active.
The refinement maps a record's status to the last whole line of the file, so a
crash is a stutter: the store may vanish, the promise does not move.

`Inspection.tla` models which lines the model was sent and which are answered
`ALREADY_SEEN`.  A file is the sequence of its lines' sizes; a window is cut by
bytes wherever that falls (`Clip`); a record remembers start, counted lines and
whether it ended with the file (`RecordOf`, `CoverageEnd`).  `Read`, `ReadMany` and
`Bundle` are the operations, `Edit` and `NewGoal` what makes records stale.
`MCInspection.tla` holds the sizes.  The search itself is any list of matches.

`GameReplay.tla` models the runtime that opens the game, the driver that records
what the model plays, the reproduction saved from that record, and its replay.

*State.*  `runtime`, `driver`, `trace`, `sqls` are the fields of the classes;
`page` is the document in the browser, `token` the checkpoint in its session
storage, which a load consumes; `hot` says that Vite has yet to react to a write;
`repro` and `cached` are the active reproduction and the versions it was replayed
on.  `start`, `lost` and `dropped` are history: `lost` says that Vite reloaded the
page while no replay was waiting for it.  `OwnReload` is as free as in the code: it
may follow any write, once, in time for the replay, after an edit that replays
nothing, in the middle of a replay or after it.

| actions | source |
|---|---|
| `Ensure OpenBrowser Activate Opened OpenFails EndSession` | `ensure` and `close` of `game-runtime.ts`, cut at their awaits |
| `Look Act Query` with `Begin Play Input Submit Push` | the game tools, `GameDriver`, `SemanticTrace` |
| `SaveReproduction NewGoal Edit Verify PlayCommand` | finish, a new request, edit, `/verify`, `/play` |
| `Reload Recheckpoint ReplayAction FinishReplay` | `reloadFromCheckpoint`, `reloadAndReplay`, `replayReproduction` |
| `OwnReload HotUpdate LoseWindow` | Vite and the user, external |

The game is external: places on a way, each wanting one kind of action, and a
version that decides which answers the terminal accepts.  A failed action leaves
the game where it was.  `MCGame.tla` holds the way.

`SourceTree.tla` models the user's repository, the worktree a task is started in,
and the pull request.  A file has the user's part and the agent's part, because a
patch tells them apart.  `ReadRepo ... CreateTask` are `startMaintainer` and
`createTaskWorktree` cut at their awaits, so the user can `Work` and `Commit`
between any two; `AgentEdit Verify Apply` are the task as far as publishing sees it
(RepairTask has the rest); `PublishBegins ... CreateRequest` are `publishTask` and
its tool, with `PublishFails` and `Crash` at every step.

`EvalSuite.tla` models `runEvalSuite`.  `suite` is the process with its results, its
pending jobs and its chain of writes, `worker` the run each worker is in, `disk` and
`summary` the two files.  A worker goes through `Take SetUp PromptAnswered AgentSettles
StopPi Judge Clean Report Persisted`, with a failure beside each; `TimesOut` is
possible only once the prompt is answered, as the time limit is armed then.  `Start`
resumes from the checkpoint when it is compatible.  `failed` is history: the steps
of a run that went wrong, kept apart from `infra` and `agent`, which are what the
code makes of them.

*Composition.*  RepairTask takes of the ledger only the active records that steer
a verification, and of the game whether a replay passed; EvidenceLedger and
GameReplay say what these rest on.  SourceTree takes of RepairTask only the
verified patch and its state.  Inspection takes the ledger as the set of active
records that EvidencePromise describes.  ShellRequest sees the child between its
start and its end, AppController decides when these are.

## The runs

| run | instance | shows |
|---|---|---|
| `content` | one new test file, three contents, crash anywhere, cancelled writes, both kinds of reproduction | candidates, verifications, patch.diff and target always agree (`ReadyIsCertified`, `WithdrawnBeforeEdit`, `AppliedIsCertified`, `DiscardKeepsDiff`); the task implements RepairPromise, so that closed tasks stay closed (`KeepsPromise`) |
| `authority` | one file, failed saves, crashes, another writer between handlers | authority is never left over (`AuthorityIsConfirmed`), and no file is written without it (`ApprovedWritesOnly`) |
| `requests` | inputs, fixed commands, aborts, closing; Pi may die | the lock covers Pi's work (`LockCoversPi`), a quiet Pi is shown as such (`IdleIsShown`), turns are reported as they ended (`OutcomeIsTruthful`), inputs and commands let go of the lock (`InputUnlocks`, `CommandLeaves`) |
| `routes` | all routes but closing, Pi may die | what holds under steering and manual compaction too: `LockedIsShownBusy`, `AnsweredOnce`, `InputLeaves` |
| `switch` | two tasks, one switch request at a time, up to five children | one live child (`OneLivePi`), of the active task (`ServesActive`), old ones stopped (`OnlyCurrentRuns`); `SwitchEnds`, `CloseEnds` |
| `ledger` | two contents, two reproductions, four kinds of records, crashes, failed appends | the file and the store agree (`RestartKeepsLedger`), artifacts come first (`ArtifactFirst`), nothing of another content stays active (`NothingOutdated`), and the ledger implements EvidencePromise (`LedgerKeepsPromise`) |
| `inspect` | two files of two contents each, one with lines no window holds, one with a sensitive line | a skipped line was sent, but for one a window was cut in (`OnlyCutLinesHidden`); a read never ends in an answer without progress (`ReadAdvances`) |
| `game` | a way of three places with the terminal in the middle, two versions | `StartKept`, `ReplayHasItsSql`, `RuntimeIsOwned`, `ReplayRanTheCode`, `ReplayReproduces` under starts that fail, a closed window and a Vite that reloads when it likes |
| `unasked` | the same way, no fault | *violated*: after a reload nobody waited for, a replay does not start over from the first checkpoint (`ReplayStartsOver`) |
| `publish` | two files, one of them new; one edit per file and one commit of the user, two versions of the agent; failures, kills, failed cleaning | `SnapshotIsSource`, `PublishedIsVerified`, `PublishedOnce` |
| `eval` | two jobs, two workers, two sets of options, two sessions, every fault, Pis that die or never answer | the checkpoint can be resumed (`CheckpointReadable`), keeps conclusions (`FinishedKept`) and agrees with the summary (`SummaryIsTrue`); a run is an infrastructure failure exactly if a step of it failed, but for two cases under the time limit (`ConclusionsAreAgents`); a session ends unless a Pi leaves its prompt unanswered for ever (`SuiteEnds`) |
| `died` | one job, a Pi that may die, a kill | *violated*: the death of Pi is taken as the Agent's time-out (`DeathIsNoConclusion`) |

*Bounds of RepairTask.*  Two contents besides `Base` distinguish "the content that was
verified", "the present content" and "the snapshot"; a third one would play the
part of one of these, since every comparison of the code is an equality of two
of them.  One new test file has both properties that make a file special (it is
hashed differently before and after registration; it selects a check).  A budget
of two lines lets two edits pass and the third fail.  `authority` needs neither a
check nor a second content change: it has one old file, and takes failed saves
and another writer instead.  Nothing bounds the number of
requests, runs, verifications, crashes or restarts: the state space is finite
without such a bound.  Symmetry exchanges the contents other than `Base`, which
the module compares for equality only.  Deadlock is not checked because a task
that is applied or discarded does stop.

*Bounds of ShellRequest.*  `MaxRequests` bounds the requests that take the lock:
two, so that the end of one can meet the beginning of the next.  `MaxNoise`
bounds the events Pi sends within turns (an error followed by a text needs two),
`MaxLines` the lines in the pipe when Pi writes.  One call of each other kind is
in flight at a time.  `routes` has five routes and one request.  Deadlock is not
checked: when no client sends anything the system rests.

*Bounds of AppController.*  `MaxStarts` bounds the children; a switch begins only
with room for the two it may start, so the bound never stops one half way.  Five
allow a switch, its undoing and another switch.  The system ends when run has
returned, so deadlock is not checked.

*Bounds of EvidenceLedger.*  Three lines in the file: one record, its retirement
and a third of which the torn line can be any; two contents, two reproductions
and one kind of each way a record outdates.  One new goal.

*Bounds of Inspection.*  Byte budgets of 5, 6 and 8 against lines of 1 to 4, so
that windows end exactly at, before and after a line; counts of one and three
lines; two records, so that a second window meets the coverage of a first.

*Bounds of GameReplay.*  A ring of three entries and four actions per driver, so
that the ring overflows, and a typed and submitted answer can be replayed once, a
single action three times; sessions are not bounded.  One right answer; an
assertion that holds from the start and one that needs the terminal passed.  The
proofs lift the bounds.  `unasked` takes four entries and five actions.

*Bounds of SourceTree.*  One tracked and one new file arise by commits; `MaxEdits`,
`MaxCommits` and `MaxVersion` (1, 1, 2) let the user edit before, during and after the
copy, and the agent edit again after a verification.  Attempts to publish,
sessions, kills and failures are not bounded.  The proofs lift all three bounds.

*Bounds of EvalSuite.*  Two workers over two jobs share one chain; two sessions
are a first one and a resume with the same or other options.  The safety properties
are proved for any number of jobs, workers, options and sessions.

*Fairness.*  Liveness properties assume, for ShellRequest: continuations run,
lines are read, Pi reads and its turns, commands and compactions end, a user who is asked answers, and a dead child is
noticed.  Nothing obliges a client to send, to abort or to close, or Pi to
report.  For AppController: threads go on, handlers run, a stopped child exits
or is killed (`stop` does so after 10 seconds), and a new Pi answers its first
calls or ends; without the last `switchTask` has no time limit of its own.  For
EvalSuite: promises settle, so that writes and workers go on, and the time limit of
a run passes once it is armed (`WF(TimesOut(w))`, enabled only after the prompt's
answer).  A Pi that is told to stop exits: `stop` ends its input, kills it after 10
seconds and then waits for its exit without a limit.  Nothing obliges a Pi to
answer its prompt (`~ Waits(w)` in `FairSpec`), an Agent to settle, a kill to happen
or a session to be started; `SuiteEnds` has the answered prompts as its premise.

*What the passing runs exclude.*  `content` allows no failed save and no other
writer; `authority` looks at authority only.  Another writer between replay and
capture passes the comparison of path names (`repair/verification.ts:119`) and
violates `ReadyIsCertified`; a failed save of a withdrawal followed by `/discard`
violates `AppliedIsCertified`.  `requests` has no steering and no manual
compaction: neither takes the lock, and with either `LockCoversPi` fails (an input
accepted while Pi compacts loses its lock when the compaction ends).  `OneLivePi`
excludes two moments in which the code does not wait: closing while a switch is
being validated, and a switch while `run` still stops a first child that failed to
start.  `ledger` leaves out the fault "partial", `publish`
the fault "race"; what they lead to is listed below.  No reload of Vite is left out
of `game`: `StartKept`, `ReplayRanTheCode` and `ReplayReproduces` say what holds until
one has come unasked (`~ lost`), `ReplayHasItsSql` and `RuntimeIsOwned` hold after it
too.  `ConclusionsAreAgents` excepts by name (`Outlived`) the two failures that the
time limit covers.  `OnlyCutLinesHidden` excepts the line a
window was cut in.  `ReplayReproduces` excepts traces that outgrew the ring or saw
two versions, and those with an action that was not available.

*Findings.*

1. `unasked`: an edit without an active reproduction makes the one-time checkpoint
   (`pi/tools/patch.ts:244`) but replays nothing, so the reload Vite makes after it
   consumes the checkpoint and nobody makes it again; the model plays on, and a
   reproduction is saved.  The next replay finds a restored page with a new time
   origin, takes it for its own reload where it stands (`game/browser.ts:165`), and
   `reloadAndReplay` makes that place the checkpoint (`game/driver.ts:307`).  The start
   is overwritten in the state of the symptom, which `play.ts:60` and `patch.ts:243`
   rule out, and `repair/verification.ts:6` wants the original checkpoint.  Three more
   properties fail with it if `~ lost` is dropped: `StartKept`; `ReplayReproduces`,
   because the replay begins at another place; and `ReplayRanTheCode`, because a page
   that Vite reloaded later than the replay of its edit holds the earlier code, on
   which the replay of the next edit then runs, and its success is kept for the new
   worktree hash, which `/verify` reuses.
2. `died`: a run waits for `agent_settled` or its time limit only
   (`eval/profiles/maintainer.ts:507`).  A Pi that exits meanwhile is reported as a
   time-out of the Agent, a conclusion that a resume skips.

*Known disagreements no run claims.*  Each was met with the module named; the
faults and constants that show it are given where they differ from the runs.

- Line budget (RepairTask, `LineBudget`, two files, a budget of one line):
  `syncWorktreeChanges` resets `patchLines` when the active change record is not of
  the present hash.  Registering a new file changes the hash but no content, so
  edit, `/diff`, `/verify`, edit exceeds "at most 120 lines for a task".
- Roll back (RepairTask, `AppliedMeansPatched`, failed saves): after the target is
  patched, `transition` saves `applied` and appends an event.  A failed append rolls
  the target back; if saving the old state fails too, `task.json` says applied and
  the target has no patch.
- Discard (RepairTask, `AppliedIsCertified`, three contents of one file, a crash and
  another writer between handlers): `/discard` writes its final diff over the verified `patch.diff` before it changes the state.
  After a crash in between, and once the worktree is back at the verified content,
  `/apply` applies the replacement.
- Abort (ShellRequest, `CommandUnlocks`): after `/api/abort` of a fixed command the
  state is `aborting`; the command's response settles only `command`, and no event
  follows.  The Shell refuses everything until it is restarted.
- Steering (ShellRequest, `IdleIsShown` with the route "steer"): the handler
  publishes a working activity after its await without looking at `requestState`
  again.  When Pi settles first, nothing ends that activity.
- Foreign errors (ShellRequest, `OutcomeIsTruthful` with "steer" or with "compact"): an
  input that is accepted while Pi is busy without the lock clears or inherits
  `pendingError`.  A steered turn whose error was reported before the input ends as a
  success of the input; a failed manual compaction ends its turn as an error.
- Two switches (AppController, `OneLivePi` with two requests): `switching` is checked
  before and set after the awaits of validation and save.  A second request finds
  `rpc` null while the first still stops the old child, and starts the next one
  beside it.
- A partial append (EvidenceLedger, `RestartKeepsLedger` with "partial"): an append
  that fails after a part of a line was written leaves that part behind for the
  same process; its next append continues on it, and no later load reads the file.
- A cut line (Inspection, without the exception in `OnlyCutLinesHidden`): the line a
  window was cut in counts as seen, although `evidence/projector.ts` wants lines
  that were not displayed not to count.
- A commit before the first hash (SourceTree, `SnapshotIsSource` with "race"):
  `readRepo` and the first `hashWorktree` are two awaits; a commit between them gives
  a task whose base commit is not the one its hash is of.
- Kept failures (GameReplay): a failed action that is not causal stays in a
  reproduction when the action was not available, and the replay waits for it in
  vain.
- The panel (`shell/session.ts:232`): `lastEvidenceRevision` survives a switch, so a
  new task with as many lines shows the panel of the old one.
- Publish: a temporary worktree that was there before is removed with `--force`
  although the message asks for it to be cleaned by hand; a local branch of an
  earlier attempt blocks the next one until the user deletes it (`DeleteBranch`);
  a pushed branch whose pull request failed refuses every retry.
- Evaluation: a lost write rejects every later one of the session; a resume with
  other options overwrites the old checkpoint at once; the fingerprint of the
  game a run is set up from is checked for its form only
  (`eval/execution/workspace.ts:52`), so a game changed during a suite goes
  unnoticed.
- A stop after the time limit (EvalSuite, `ConclusionsAreAgents` without "stop" in
  `Outlived`): a stop that fails after the Agent ran out of time leaves the outcome
  "timeout" (`eval/profiles/maintainer.ts:197` and `:208`; `failureCode ??=` in the
  baseline profile), so the run counts as failed, is no infrastructure failure and is
  skipped by a resume, against "every infrastructure failure must be run again"
  (`eval/execution/suite.ts:162`).
- An unanswered prompt (EvalSuite, `Up ~> ~ Up` without the premise of `SuiteEnds`):
  `rpc.send` of the prompt has no deadline (`pi/rpc-process.ts:85`) and is awaited before
  the time limit is armed (`eval/profiles/maintainer.ts:506`, `pi-baseline.ts:197`).  A
  Pi that lives and never answers holds its worker, and the session never ends.

## The proofs

Eight modules named after the module they are about.  Assumed of the constants are
the named assumptions of the modules (finitely many files, `Base` is a content,
budgets and bounds are naturals, the first task is a task) and, where a theorem has
an ASSUME, what it says.  Otherwise faults, routes, tasks, workers, files and bounds
are arbitrary, and the bounds of the runs are lifted.  Every invariant, every
action property and both refinements of the passing runs are proved.

*RepairTaskProofs.*
- `TypeCorrectness`: `Spec => []TypeOK`.  That recorded lines stay within the
  budget is not inductive: `PassBudget` checks it, `RecordEdit` adds it several
  steps later.  `TypeInv` adds that a call at its write loop is still within.
- `AuthorityCorrectness`, `WritesAreApproved`, for all faults and writers.  Between
  the confirmation and the save the memory still holds the old scope, so `AuthInv`
  speaks of every record still queued: each is either without active scope or
  within the confirmation (`Confirmed`).  It also ties the steps of an edit to the
  authority they started with.  Only `WriteFile` and another writer change the
  worktree.
- `ReadyCorrectness`, `WithdrawalCorrectness`, `DiscardCorrectness`, `ApplyCorrectness`
  and the refinement `PromiseKept`, under `Undisturbed`: no save fails and only the
  edit tool writes.  Both are needed: with failed saves TLC finds a counterexample
  to `ReadyIsCertified` and to `WithdrawnBeforeEdit`, with another writer the one
  between replay and capture (see above).  Crashes and
cancelled calls fall anywhere.  `ContentInv` has four parts: what the record on
  disk and each queued one claim is so (`RecordsInv`); what a handler relies on
  between two steps (`StepsInv`); what a verification has tested is the worktree as
  it stands and covers its tests (`TestedInv`); and no queued record reopens a
  closed task, or certifies while the target holds a patch (`ClosedInv`).

*ShellRequestProofs.*
- `ShellTypes`, `LockIsShown`, `OneOutcome`, for every set of routes.  An abort that
  failed restores what it remembers, so the types say that this is an input or a
  command, never idle.  Two calls of a kind in one turn are the same value, so
  `CallInv` adds that no call is of a later turn than the last, that the answer to
  a dialog is never pending, and that a compaction and the synchronisation after it
  exclude each other.
- `LockCovers`, `FreeIsShown`, `OutcomeIsReported`, under `PlainRoutes` (no steering,
  no manual compaction): either of them breaks the first and the last, steering the
  second as well.  `LockInv` counts
  what of a request is under way: the call, its answer, its turn in Pi or the line
  that ends it; there is one at most, and the lock is held while there is one.
  For the outcome, lines that say how a turn went may wait in the pipe behind each
  other: `TruthInv` says that the line that ends a turn says what reading all lines
  before it will have left in `pendingError` (`Leaves`), `FreshInv`, `RunInv` and
  `OpenInv` when that is empty, and `FreeInv` carries `LockInv` past the death of Pi.

*AppControllerProofs.*
- `ControllerTypes` and `OldChildrenStop`, for any number of overlapping switches:
  the second live child is always one that is being stopped.  That `completed`
  implies `closed` needs `CloserInv`: the closer waits only when the controller is
  closed.
- `OneChildLives` and `ActiveIsServed`, for one switch request (`Requests = {r}`, any
  number of times): with two both fail, as listed above.  `SwitchInv` and `LiveInv`
  say which child a waiting thread has stopped, that nothing is started before that
  child is gone, and that there is room for every start.

*EvidenceLedgerProofs.*
- `RestartCorrectness`, `ArtifactCorrectness`, `OutdatedCorrectness`, the refinement
  `LedgerImplementsPromise`, and with it `OneReproductionInFile`, under
  `"partial" \notin Faults` (the partial append above).  `LedgerInv`: a half line is
  the last one and only while it is appended or the process is down (`FileInv`); the
  appends that are left, in whatever order, retire active records or capture one of
  the present content (`PendingInv`); and `JobInv` lists the ways a handler can be
  on its way.  A record's status is the one of its last whole line, so the proof
  shows what one more line does to a `Max`.

*InspectionProofs.*
- `HiddenLinesWereSent`, for every file, content and budget.  `InspectionInv`: every
  record that counts stands for lines of the present content that were sent.
- `ReadsAdvance`: a read that shows something shows a line that no record covered.

*GameReplayProofs.*
- `StartIsKept`, `RuntimeHasAnOwner`, for every way, every version, any number of
  replays and any reload by Vite.  `StartKept` alone says nothing while a page is
  reloading; `Kept` follows the checkpoint from the token into the page and back, and
  `Restored` says that, until a reload has come unasked, a page restored without being
  taken is Vite's own for the replay that waits, and stands at the start.  The
  history variable `lost` keeps the two cases apart: a reload while a replay waits
  preserves `Restored` and `Kept`, any other sets `lost`, and only a new start, made
  when no reproduction of the session is active, takes it back.
- `ReplaysRunTheCode`.  `Fresh` says which pages hold the code of the worktree while a
  replay is on its way, until a reload has come unasked (finding 1).
- `AnswersAreKept`, without a hypothesis: a reproduction finds exactly one answer
  to each input.  `AnswerInv`: answers have different numbers, none later than the
  driver's, and those of the trace and of this session's reproduction are kept;
  the ring and the filter of causal actions only leave entries out.
- `ReplaysReproduce`, until a reload has come unasked (`Straight`).  `Leads` says that
  entries, played one after the other, go from one place and one typed answer to
  another as they are recorded.  `PlayInv`: the record leads from the checkpoint to
  the page (`Recorded`), a saved reproduction to its end (`Saved`), and what a replay
  still has to do from the page to that end (`Due`).  `FilterLeads` is the argument
  for the filter: a failed action that was available moved nothing, and the answer
  a failed query consumed is typed again before the next one.  It needs that `null`
  is no answer, the only assumption of the module added for a proof.

*SourceTreeProofs.*
- `SnapshotIsFaithful`, `PublishesWhatWasVerified`, `PublishesOnce`, `TypeCorrectness`,
  for any number of edits, commits, failures, kills and attempts, under
  `"race" \notin Faults`.  `Copying` is the argument of the snapshot: the copy is right
  *if* nothing has changed since the first hash, and since the user's counters only
  grow, the second hash tells whether it has.  The module therefore assumes that a
  user does not restore an earlier text while a copy is taken.  `Publishing` ties
  preview, staged content and verification; `Pushed` says that a request needs a
  branch and that neither is made twice.

*EvalSuiteProofs.*
- `CheckpointCorrectness`, `SummaryCorrectness`, `ConclusionCorrectness`,
  `ConclusionsStay`, without a hypothesis.  `EvalInv`: every job waits, runs or has a
  result, one of them only (`JobInv`); the last write of the chain holds the results
  as they are (`LastInv`); checkpoints hold one result of a job and no failure
  (`ReadInv`); what the code makes of a run (`infra`, `agent`) agrees with what went
  wrong in it (`failed`) at every step, but for `Outlived` (`HonestInv`).
  `GrowInv` is about one checkpoint on the disk: its conclusions are in everything
  this session will write.

Every record of a variable appears in an invariant by its domain and the fields
the argument needs, not by a full type: `DOMAIN` is enough for an EXCEPT and keeps
the obligations small.  Where an argument is an induction over a sequence (bytes
of a window, the filter of a record), it is made by the least place at which the
claim fails (`Least`), since the provers cannot instantiate an induction theorem.

Only model-checked: the liveness properties (`InputUnlocks`, `CommandLeaves`,
`InputLeaves`, `SwitchEnds`, `CloseEnds`, `SuiteEnds`), since `ENABLED` is out of the
provers' reach.  The two violated properties have a counterexample.

## The plan

Done: RepairTask and RepairPromise, ShellRequest, AppController, EvidenceLedger
and EvidencePromise, Inspection, GameReplay, SourceTree, EvalSuite, and the proofs
of their safety properties.  Left, in order:

1. Proofs: what certification keeps when a save fails (which withdrawals do reach
   the disk, and that no content goes to the target but one that was certified once).
2. The records AppController saves against those of the child: composed with the
   task store, with one writer of `task.json` as the question.
3. The event buffer of the Shell and reconnecting pages.
4. The catalog, and recovery of a task whose worktree is gone.

## Not modelled

- Configuration, logging, redaction, progress: formatting and I/O.
- The page of the Shell (markup and its client script), the wording of panels and
  reports, prompts.
- The catalog, the path policy and the tree tool; status, files, search and diff
  of the inspect tool, which only read.
- Metrics, preflight, scenarios and the progress page of the evaluation suite.
- Which assertions a reproduction makes: abstracted to a place to be reached.
- Git, Pi, Vite, the browser and the game: external, modelled from how `src/` uses
  them.
