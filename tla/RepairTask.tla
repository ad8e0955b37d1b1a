----------------------------- MODULE RepairTask -----------------------------
(***************************************************************************)
(* One repair task in the Pi process that owns it: the task record in      *)
(* memory and in task.json, the detached worktree, patch.diff, the active  *)
(* part of the evidence ledger, the write authority of the agent run, and  *)
(* the target repository as far as /apply changes it.                      *)
(*                                                                         *)
(* A handler of the source is a chain of steps named by `pc`.  Its calls   *)
(* of TaskStore.save are queued in `todo`: a record reaches memory just    *)
(* before it is written, so Save moves both, SaveFails only memory, and    *)
(* Crash may fall between any two steps.                                   *)
(***************************************************************************)
EXTENDS Integers, Sequences, FiniteSets

CONSTANTS
    Paths,         \* project files a task may touch
    NewPaths,      \* those that do not exist in the source snapshot
    TestPaths,     \* those under game/tests, which need the related test
    Versions,      \* contents a file can have
    Base,          \* the content at the snapshot (of a new path: no file)
    MaxFiles,      \* MAX_FILES
    MaxLines,      \* MAX_LINES; an edit costs one line for every file
    Kinds,         \* reproductions the agent saves: "plain", "sql"
    Faults,        \* subset of {"crash", "save", "abort"}
    OutsideEdits,  \* the pcs at which something else may edit the worktree
    None           \* null

ASSUME PathsAssumption ==
    /\ NewPaths \subseteq Paths /\ TestPaths \subseteq Paths
    /\ IsFiniteSet(Paths)
ASSUME VersionsAssumption == Base \in Versions
ASSUME KindsAssumption == Kinds \subseteq {"plain", "sql"}
ASSUME BudgetAssumption == MaxFiles \in Nat /\ MaxLines \in Nat

Transitions ==
    [created           |-> {"active", "blocked", "discarded"},
     active            |-> {"awaiting_approval", "verifying", "paused",
                            "blocked", "discarded"},
     awaiting_approval |-> {"active", "blocked", "discarded"},
     verifying         |-> {"active", "paused", "ready_to_apply", "blocked",
                            "discarded"},
     paused            |-> {"active", "blocked", "discarded"},
     ready_to_apply    |-> {"active", "applied", "blocked", "discarded"},
     applied           |-> {},
     blocked           |-> {"active", "discarded"},
     discarded         |-> {}]

States == DOMAIN Transitions
Terminal == {"applied", "discarded"}

Contents == [Paths -> Versions]
\* hashWorktree sees a created file as untracked until git add --intent-to-add
\* registers it, and as a diff afterwards: the two give different hashes.
Hashes == Contents \X SUBSET NewPaths
Edits == UNION {[S -> Versions] : S \in SUBSET Paths}
NoEdit == [p \in {} |-> Base]

\* What a verification relied on: a check of some content, with the tests it
\* ran, or a replay of some content.
Facts == [by : {"check", "replay"}, content : Contents,
          tests : SUBSET TestPaths]
Verifications == [hash : Hashes, facts : SUBSET Facts]

Tasks == [state : States,
          scope : {"unapproved", "approved", "closed"},
          allowed : SUBSET Paths,
          changed : SUBSET Paths,
          lines : 0..MaxLines,
          verification : Verifications \union {None},
          patch : BOOLEAN]

NewTask == [state |-> "created", scope |-> "unapproved", allowed |-> {},
            changed |-> {}, lines |-> 0, verification |-> None,
            patch |-> FALSE]

\* The active records of the evidence ledger that decide what a handler does.
Ledgers == [change : Hashes \union {None},
            checks : SUBSET [hash : Hashes, status : {"passed", "failed"},
                             tests : SUBSET TestPaths],
            reproduction : {"none", "plain", "sql"}]
NewLedger == [change |-> None, checks |-> {}, reproduction |-> "none"]

EditSteps == {"stage", "budget", "write", "refresh"}
VerifySteps == {"sync", "enter", "check", "replay", "capture", "bind"}
Steps == EditSteps \union VerifySteps \union
         {"idle", "restore", "goal", "objective", "granted", "revoke", "reproduce",
          "index", "close", "apply", "discard", "shutdown"}

VARIABLES
    up,          \* the Pi process runs
    pc,          \* the next step of the handler in progress, or "idle"
    todo,        \* the task records the handler has still to save, in order
    task,        \* the TaskRecord in memory
    disk,        \* task.json
    worktree,    \* content of the detached worktree
    ita,         \* new files registered with git add --intent-to-add
    patchFile,   \* the content patch.diff leads to, or None
    ledger,      \* evidence.jsonl, its active records
    applied,     \* the content /apply brought to the target, or None
    running,     \* an agent run is in progress
    approved,    \* executionApproved
    refresh,     \* refreshFailure is set
    cache,       \* worktree hashes with a cached successful replay
    edit,        \* the edit call in progress
    granted,     \* history: what the user confirmed for this run
    tested       \* what the verification in progress has found so far

durable == <<disk, worktree, ita, patchFile, ledger, applied>>
session == <<running, approved, refresh, cache, edit, granted, tested>>
vars == <<up, pc, todo, task, durable, session>>

-----------------------------------------------------------------------------
ChangedPaths(c) == {p \in Paths : c[p] # Base}
Hash == <<worktree, ita>>
Registered == ita \union (ChangedPaths(worktree) \cap NewPaths)

At(step) == up /\ pc = step /\ todo = <<>>
Moved(t, state) == [t EXCEPT !.state = state]
HasActiveWriteScope(t) == t.scope = "approved"
Approve(t, S) == [t EXCEPT !.scope = "approved", !.allowed = S]
Close(t) == IF t.scope = "unapproved" THEN t ELSE [t EXCEPT !.scope = "closed"]
Unverified(t) == [t EXCEPT !.verification = None]
BoundTo(t, h) == t.verification # None /\ t.verification.hash = h
SaveIf(condition, t) == IF condition THEN <<t>> ELSE <<>>
Release(t) == SaveIf(HasActiveWriteScope(t), Close(t))
WriteAllowed_Closed(t, S) == S \subseteq t.allowed
WriteAllowed(t, S) == HasActiveWriteScope(t) /\ S \subseteq t.allowed
WithinScope(t) == t.allowed # {} /\ t.changed \subseteq t.allowed
Left == {p \in DOMAIN edit : worktree[p] # edit[p]}
Written == pc = "refresh" \/ (pc = "write" /\ Left # DOMAIN edit)

Init ==
    /\ up = FALSE /\ pc = "idle" /\ todo = <<>>
    /\ task = NewTask /\ disk = NewTask
    /\ worktree = [p \in Paths |-> Base] /\ ita = {}
    /\ patchFile = None /\ ledger = NewLedger /\ applied = None
    /\ running = FALSE /\ approved = FALSE /\ refresh = FALSE
    /\ cache = {} /\ edit = NoEdit
    /\ granted = {} /\ tested = {}

-----------------------------------------------------------------------------
(* The store and the process.                                              *)

Save ==
    /\ up /\ todo # <<>>
    /\ task' = Head(todo) /\ disk' = Head(todo) /\ todo' = Tail(todo)
    /\ UNCHANGED <<up, pc, worktree, ita, patchFile, ledger, applied, session>>

\* The handler throws; memory keeps what it was about to write.
SaveFails ==
    /\ "save" \in Faults
    /\ up /\ todo # <<>> /\ pc # "apply"
    /\ task' = Head(todo) /\ todo' = <<>> /\ pc' = "idle"
    /\ refresh' = (refresh \/ Written)
    /\ edit' = NoEdit /\ tested' = {}
    /\ UNCHANGED <<up, durable, running, approved, cache, granted>>

\* A session may end at rest at any time, and is killed anywhere if "crash".
Crash ==
    /\ up /\ ("crash" \in Faults \/ At("idle"))
    /\ up' = FALSE /\ pc' = "idle" /\ todo' = <<>> /\ task' = disk
    /\ running' = FALSE /\ approved' = FALSE /\ refresh' = FALSE
    /\ cache' = {} /\ edit' = NoEdit /\ granted' = {} /\ tested' = {}
    /\ UNCHANGED durable

OpenSession ==
    /\ ~up /\ disk.state \notin Terminal
    /\ up' = TRUE /\ pc' = "restore"
    /\ todo' = SaveIf(disk.state \in {"awaiting_approval", "created",
                                      "blocked", "paused"},
                      Moved(disk, "active"))
    /\ task' = disk
    /\ UNCHANGED <<durable, session>>

\* A reproduction with SQL text cannot be replayed by a new process.
RestoreSession ==
    /\ At("restore")
    /\ LET sql == ledger.reproduction = "sql"
           t == IF sql THEN Unverified(task) ELSE task
       IN /\ ledger' = IF sql THEN [ledger EXCEPT !.reproduction = "none"]
                              ELSE ledger
          /\ todo' = SaveIf(sql, t) \o Release(t)
    /\ pc' = "idle" /\ approved' = FALSE
    /\ UNCHANGED <<up, task, disk, worktree, ita, patchFile, applied,
                   running, refresh, cache, edit, granted, tested>>

-----------------------------------------------------------------------------
(* A natural language request opens an agent run, settling closes it.      *)

NewRequest(kind) ==
    /\ At("idle") /\ ~running
    /\ LET t == IF HasActiveWriteScope(task) THEN Close(task) ELSE task
       IN todo' = Release(task) \o
                  SaveIf(t.state = "ready_to_apply" /\ kind # "publish",
                         Moved(Unverified(t), "active"))
    /\ running' = TRUE /\ approved' = FALSE /\ granted' = {}
    /\ pc' = IF kind = "repair" THEN "goal" ELSE "objective"
    /\ UNCHANGED <<up, task, durable, refresh, cache, edit, tested>>

\* A new goal inherits no evidence and no verification of the previous one.
BeginGoal ==
    /\ At("goal")
    /\ ledger' = NewLedger
    /\ todo' = SaveIf(task.verification # None, Unverified(task)) \o
               SaveIf(task.state = "verifying",
                      Moved(Unverified(task), "active"))
    /\ pc' = "objective"
    /\ UNCHANGED <<up, task, disk, worktree, ita, patchFile, applied, session>>

\* The first request and a changed repair request become the objective.
SetObjective(changed) ==
    /\ At("objective")
    /\ todo' = SaveIf(changed, task)
    /\ pc' = "idle"
    /\ UNCHANGED <<up, task, durable, session>>

Settle_KeepsApproval ==
    /\ At("idle") /\ running
    /\ todo' = Release(task)
    /\ running' = FALSE /\ granted' = {}
    /\ UNCHANGED <<up, pc, task, durable, approved, refresh, cache, edit,
                   tested>>

Settle ==
    /\ At("idle") /\ running
    /\ todo' = Release(task)
    /\ running' = FALSE /\ approved' = FALSE /\ granted' = {}
    /\ UNCHANGED <<up, pc, task, durable, refresh, cache, edit, tested>>

-----------------------------------------------------------------------------
(* The edit tool.                                                          *)

GrantEdit(e) ==
    /\ At("idle") /\ running /\ ~approved
    /\ edit' = e /\ granted' = DOMAIN e
    /\ todo' = <<Approve(task, DOMAIN e)>>
    /\ pc' = "granted"
    /\ UNCHANGED <<up, task, durable, running, approved, refresh, cache,
                   tested>>

\* Writing is enabled only once the scope is saved, for an edit and for a
\* confirmed plan alike; finish ends with a save of its own.
EnableWrites ==
    /\ At("granted")
    /\ approved' = TRUE
    /\ pc' = IF edit = NoEdit THEN "idle" ELSE "stage"
    /\ todo' = SaveIf(edit = NoEdit, task)
    /\ UNCHANGED <<up, task, durable, running, refresh, cache, edit,
                   granted, tested>>

ReuseGrant(e) ==
    /\ At("idle") /\ running /\ approved
    /\ WriteAllowed(task, DOMAIN e)
    /\ edit' = e /\ pc' = "stage"
    /\ UNCHANGED <<up, todo, task, durable, running, approved, refresh,
                   cache, granted, tested>>

StageEdit_InMemory ==
    /\ At("stage")
    /\ task.state \in {"active", "verifying", "ready_to_apply", "blocked"}
    /\ task' = Moved(task, "active")
    /\ pc' = "budget"
    /\ UNCHANGED <<up, todo, durable, session>>

\* A candidate is withdrawn, on disk, before the first byte changes.
StageEdit ==
    /\ At("stage")
    /\ task.state \in {"active", "verifying", "ready_to_apply", "blocked"}
    /\ todo' = SaveIf(task.state # "active", Moved(task, "active"))
    /\ pc' = "budget"
    /\ UNCHANGED <<up, task, durable, session>>

WithinLines_PerCall(e) == Cardinality(DOMAIN e) <= MaxLines
WithinLines(e) == task.lines + Cardinality(DOMAIN e) <= MaxLines

PassBudget ==
    /\ At("budget")
    /\ WriteAllowed(task, DOMAIN edit)
    /\ WithinLines(edit)
    /\ Cardinality(task.changed \union DOMAIN edit) <= MaxFiles
    /\ \A p \in DOMAIN edit : edit[p] # worktree[p]
    /\ pc' = "write"
    /\ UNCHANGED <<up, todo, task, durable, session>>

WriteFile ==
    /\ At("write")
    /\ \E p \in Left : worktree' = [worktree EXCEPT ![p] = edit[p]]
    /\ UNCHANGED <<up, pc, todo, task, disk, ita, patchFile, ledger, applied,
                   session>>

\* Every rejection before the first write, and a cancelled write loop.
AbortEdit ==
    /\ At("stage") \/ At("budget")
       \/ (At("write") /\ Left # {} /\ "abort" \in Faults)
    /\ refresh' = (refresh \/ Written)
    /\ pc' = "idle" /\ edit' = NoEdit
    /\ UNCHANGED <<up, todo, task, durable, running, approved, cache,
                   granted, tested>>

RecordEdit ==
    /\ At("write") /\ Left = {}
    /\ task' = [task EXCEPT !.changed = @ \union DOMAIN edit,
                            !.lines = @ + Cardinality(DOMAIN edit),
                            !.verification = None,
                            !.patch = FALSE]
    /\ ledger' = [ledger EXCEPT !.change = Hash, !.checks = {}]
    /\ todo' = <<task'>> /\ pc' = "refresh"
    /\ UNCHANGED <<up, disk, worktree, ita, patchFile, applied, session>>

RefreshReplay(passed) ==
    /\ At("refresh")
    /\ LET needed == ledger.reproduction # "none"
       IN /\ refresh' = (needed /\ ~passed)
          /\ cache' = IF needed /\ passed THEN cache \union {Hash} ELSE cache
    /\ pc' = "idle" /\ edit' = NoEdit
    /\ UNCHANGED <<up, todo, task, durable, running, approved, granted,
                   tested>>

-----------------------------------------------------------------------------
(* The finish and check tools.                                             *)

Finishing == At("idle") /\ running /\ task.state \notin Terminal

FinishReproduced ==
    /\ Finishing /\ task.state # "awaiting_approval"
    /\ todo' = SaveIf(task.state # "active", Moved(task, "active"))
    /\ pc' = "reproduce"
    /\ UNCHANGED <<up, task, durable, session>>

\* saveReproduction may reject the trace or the assertions, or writes the
\* artifact and drops the verification before it enters the new index record.
SaveReproduction ==
    /\ At("reproduce")
    /\ \/ todo' = <<Unverified(task)>> /\ pc' = "index"
       \/ todo' = <<>> /\ pc' = "idle"
    /\ UNCHANGED <<up, task, durable, session>>

IndexReproduction(kind) ==
    /\ At("index")
    /\ ledger' = [ledger EXCEPT !.reproduction = kind]
    /\ cache' = {}
    /\ todo' = <<task>> /\ pc' = "idle"
    /\ UNCHANGED <<up, task, disk, worktree, ita, patchFile, applied,
                   running, approved, refresh, edit, granted,
                   tested>>

FinishProposed(S, confirmed) ==
    /\ Finishing
    /\ todo' = IF confirmed THEN <<Approve(task, S)>>
               ELSE SaveIf(task.scope # "unapproved", Close(task))
    /\ pc' = IF confirmed THEN "granted" ELSE "revoke"
    /\ granted' = IF confirmed THEN S ELSE {}
    /\ UNCHANGED <<up, task, durable, running, approved, refresh, cache,
                   edit, tested>>

RevokeWrites ==
    /\ At("revoke")
    /\ approved' = FALSE
    /\ todo' = <<task>> /\ pc' = "idle"
    /\ UNCHANGED <<up, task, durable, running, refresh, cache, edit,
                   granted, tested>>

FinishBlocked ==
    /\ Finishing
    /\ task.state = "blocked" \/ "blocked" \in Transitions[task.state]
    /\ approved' = FALSE
    /\ todo' = SaveIf(task.scope # "unapproved", Close(task)) \o
               <<Moved(Close(task), "blocked")>>
    /\ UNCHANGED <<up, pc, task, durable, running, refresh, cache, edit,
                   granted, tested>>

FinishDiagnosed ==
    /\ Finishing
    /\ todo' = <<task>>
    /\ UNCHANGED <<up, pc, task, durable, session>>

\* game-related-test runs the tests among the changed paths the task record
\* names, and passes when it names none.
CheckResult(status) ==
    [hash |-> Hash, tests |-> task.changed \cap TestPaths,
     status |-> IF task.changed \cap TestPaths = {} THEN "passed"
                ELSE status]

CheckTool(status) ==
    /\ At("idle") /\ running /\ ~refresh
    /\ \A c \in ledger.checks : c.hash # Hash
    /\ ledger' = [ledger EXCEPT !.checks = @ \union {CheckResult(status)}]
    /\ UNCHANGED <<up, pc, todo, task, disk, worktree, ita, patchFile,
                   applied, session>>

-----------------------------------------------------------------------------
(* Verification: finish(result) inside a run, /verify outside of one.      *)

BeginVerify ==
    /\ At("idle")
    /\ running => Finishing /\ approved /\ ~refresh
    /\ pc' = "sync"
    /\ UNCHANGED <<up, todo, task, durable, session>>

Synchronised ==
    /\ task.changed = ChangedPaths(worktree)
    /\ BoundTo(task, Hash) \/ ledger.change = Hash

SyncChanges ==
    /\ At("sync") /\ task.state \notin Terminal
    /\ pc' = "enter"
    /\ IF Synchronised
       THEN UNCHANGED <<todo, task, ledger>>
       ELSE /\ task' = [task EXCEPT !.changed = ChangedPaths(worktree),
                                    !.lines = 0,
                                    !.verification = None,
                                    !.patch = FALSE]
            /\ ledger' = [ledger EXCEPT !.change = Hash, !.checks = {}]
            /\ todo' = <<IF task.state \in {"awaiting_approval", "verifying",
                                            "ready_to_apply", "blocked"}
                         THEN Moved(task', "active") ELSE task'>>
    /\ UNCHANGED <<up, disk, worktree, ita, patchFile, applied, session>>

EnterVerifying ==
    /\ At("enter")
    /\ task.changed # {} /\ WithinScope(task)
    /\ task.state \in {"ready_to_apply", "active", "verifying"}
    /\ todo' = SaveIf(task.state = "ready_to_apply", Moved(task, "active")) \o
               SaveIf(task.state # "verifying", Moved(task, "verifying"))
    /\ pc' = "check"
    /\ UNCHANGED <<up, task, durable, session>>

\* runCheck answers from any active record of the same hash, passed or not.
CachedChecks == {c \in ledger.checks : c.hash = Hash}

RunCheck(status) ==
    /\ At("check") /\ task.changed \cap TestPaths # {}
    /\ \E c \in IF CachedChecks # {} THEN CachedChecks
                ELSE {CheckResult(status)} :
          /\ ledger' = [ledger EXCEPT !.checks = @ \union {c}]
          /\ IF c.status = "passed"
             THEN /\ pc' = "replay"
                  /\ tested' = {[by |-> "check", content |-> c.hash[1],
                                tests |-> c.tests]}
             ELSE pc' = "idle" /\ tested' = {}
    /\ UNCHANGED <<up, todo, task, disk, worktree, ita, patchFile, applied,
                   running, approved, refresh, cache, edit,
                   granted>>

SkipCheck ==
    /\ At("check") /\ task.changed \cap TestPaths = {}
    /\ pc' = "replay"
    /\ UNCHANGED <<up, todo, task, durable, session>>

ReplayHit_AnyHash(h) == h \in Hashes
ReplayHit(h) == h = Hash

\* A successful replay is reused for its hash, a failed one never is.
VerifyReplay(passed) ==
    /\ At("replay") /\ ledger.reproduction # "none"
    /\ \E h \in IF \E h \in cache : ReplayHit(h)
                THEN {h \in cache : ReplayHit(h)} ELSE {Hash} :
          /\ cache' = IF passed THEN cache \union {h} ELSE cache
          /\ IF h \in cache \/ passed
             THEN /\ pc' = "capture"
                  /\ tested' = tested \union
                                {[by |-> "replay", content |-> h[1],
                                  tests |-> {}]}
             ELSE pc' = "idle" /\ tested' = {}
    /\ UNCHANGED <<up, todo, task, durable, running, approved, refresh, edit,
                   granted>>

SkipReplay ==
    /\ At("replay") /\ ledger.reproduction = "none"
    /\ pc' = "capture"
    /\ UNCHANGED <<up, todo, task, durable, session>>

\* assertSourceSnapshot: the target is still as the task started from it.
SourceUnchanged_Unchecked == TRUE
SourceUnchanged == applied = None

\* Writing a patch file replaces an earlier one.
NewPatch_KeepsOld == IF patchFile # None THEN patchFile ELSE worktree
NewPatch == worktree

\* capturePatch writes patch.diff before the paths are compared.
CapturePatch ==
    /\ At("capture") /\ SourceUnchanged /\ ChangedPaths(worktree) # {}
    /\ ita' = Registered
    /\ patchFile' = NewPatch
    /\ IF task.changed = ChangedPaths(worktree)
       THEN /\ pc' = "bind" /\ task' = [task EXCEPT !.patch = TRUE]
            /\ UNCHANGED tested
       ELSE pc' = "idle" /\ tested' = {} /\ UNCHANGED task
    /\ UNCHANGED <<up, todo, disk, worktree, ledger, applied, running,
                   approved, refresh, cache, edit, granted>>

BindVerification ==
    /\ At("bind")
    /\ task' = [task EXCEPT
                    !.verification = [hash |-> Hash, facts |-> tested]]
    /\ todo' = <<Moved(task', "ready_to_apply")>>
    /\ tested' = {}
    /\ pc' = "close"
    /\ UNCHANGED <<up, disk, worktree, ita, patchFile, ledger, applied,
                   running, approved, refresh, cache, edit, granted>>

\* finish(result) gives the write authority back; /verify has none.
CloseVerify ==
    /\ At("close")
    /\ todo' = IF running
               THEN SaveIf(task.scope # "unapproved", Close(task)) \o
                    <<Close(task)>>
               ELSE <<>>
    /\ approved' = (approved /\ ~running)
    /\ pc' = "idle"
    /\ UNCHANGED <<up, task, durable, running, refresh, cache, edit,
                   granted, tested>>

\* A guard above that rejects, or the user's cancellation.
FailVerify ==
    /\ At(pc) /\ pc \in VerifySteps \ {"bind"}
    /\ pc' = "idle" /\ tested' = {}
    /\ UNCHANGED <<up, todo, task, durable, running, approved, refresh,
                   cache, edit, granted>>

-----------------------------------------------------------------------------
(* The other commands.  The Shell accepts a command only between runs.     *)

Command == At("idle") /\ ~running

Diff ==
    /\ Command /\ ~(task.patch /\ patchFile # None)
    /\ ita' = Registered
    /\ UNCHANGED <<up, pc, todo, task, disk, worktree, patchFile, ledger,
                   applied, session>>

Apply ==
    /\ Command
    /\ task.state = "ready_to_apply" /\ task.patch /\ patchFile # None
    /\ WithinScope(task) /\ BoundTo(task, Hash)
    /\ SourceUnchanged
    /\ applied' = patchFile
    /\ todo' = <<Moved(task, "applied")>> /\ pc' = "apply"
    /\ UNCHANGED <<up, task, disk, worktree, ita, patchFile, ledger,
                   session>>

\* transition saves, then appends an event: a failure of either rolls the
\* target back and tries to save the previous state again.
RollBack ==
    /\ "save" \in Faults
    /\ up /\ pc = "apply"
    /\ applied' = None
    /\ todo' = <<Moved(task, "ready_to_apply")>> /\ pc' = "idle"
    /\ UNCHANGED <<up, task, disk, worktree, ita, patchFile, ledger,
                   session>>

EndApply ==
    /\ At("apply")
    /\ pc' = "idle"
    /\ UNCHANGED <<up, todo, task, durable, session>>

\* /discard keeps the final diff, also over a patch.diff that was verified.
Discard ==
    /\ Command /\ task.state \notin Terminal
    /\ ita' = Registered
    /\ IF ChangedPaths(worktree) # {}
       THEN patchFile' = NewPatch /\ task' = [task EXCEPT !.patch = TRUE]
       ELSE UNCHANGED <<patchFile, task>>
    /\ pc' = "discard"
    /\ UNCHANGED <<up, todo, disk, worktree, ledger, applied, session>>

CommitDiscard ==
    /\ At("discard")
    /\ todo' = <<Moved(task, "discarded")>> /\ pc' = "shutdown"
    /\ UNCHANGED <<up, task, durable, session>>

Shutdown ==
    /\ At("shutdown")
    /\ up' = FALSE /\ pc' = "idle" /\ task' = disk
    /\ running' = FALSE /\ approved' = FALSE /\ refresh' = FALSE
    /\ cache' = {} /\ edit' = NoEdit /\ granted' = {} /\ tested' = {}
    /\ UNCHANGED <<todo, durable>>

\* Something other than the edit tool changes a file of the worktree.
OutsideEdit ==
    /\ pc \in OutsideEdits
    /\ \E p \in Paths, v \in Versions :
          /\ p \in NewPaths => v # Base
          /\ worktree' = [worktree EXCEPT ![p] = v]
    /\ UNCHANGED <<up, pc, todo, task, disk, ita, patchFile, ledger, applied,
                   session>>

-----------------------------------------------------------------------------
Calls ==
    {e \in Edits : /\ DOMAIN e # {} /\ Cardinality(DOMAIN e) <= MaxFiles
                   /\ \A p \in DOMAIN e \cap NewPaths : e[p] # Base}

StoreNext == Save \/ SaveFails \/ Crash \/ OpenSession \/ RestoreSession

RequestNext ==
    \/ \E kind \in {"repair", "publish", "other"} : NewRequest(kind)
    \/ BeginGoal
    \/ \E changed \in BOOLEAN : SetObjective(changed)
    \/ Settle

EditNext ==
    \/ \E e \in Calls : GrantEdit(e) \/ ReuseGrant(e)
    \/ EnableWrites \/ StageEdit \/ PassBudget \/ WriteFile \/ AbortEdit
    \/ RecordEdit
    \/ \E passed \in BOOLEAN : RefreshReplay(passed)

FinishNext ==
    \/ FinishReproduced \/ SaveReproduction
    \/ \E kind \in Kinds : IndexReproduction(kind)
    \/ \E S \in SUBSET Paths \ {{}} : \E confirmed \in BOOLEAN :
          FinishProposed(S, confirmed)
    \/ RevokeWrites \/ FinishBlocked \/ FinishDiagnosed
    \/ \E status \in {"passed", "failed"} : CheckTool(status)

VerifyNext ==
    \/ BeginVerify \/ SyncChanges \/ EnterVerifying
    \/ \E status \in {"passed", "failed"} : RunCheck(status)
    \/ SkipCheck
    \/ \E passed \in BOOLEAN : VerifyReplay(passed)
    \/ SkipReplay \/ CapturePatch \/ BindVerification \/ CloseVerify
    \/ FailVerify

CommandNext ==
    \/ Diff \/ Apply \/ RollBack \/ EndApply
    \/ Discard \/ CommitDiscard \/ Shutdown

Next == StoreNext \/ RequestNext \/ EditNext \/ FinishNext \/ VerifyNext
        \/ CommandNext \/ OutsideEdit

Spec == Init /\ [][Next]_vars

-----------------------------------------------------------------------------
(* Correctness.                                                            *)

\* Every variable keeps its type.
TypeOK ==
    /\ up \in BOOLEAN /\ pc \in Steps /\ todo \in Seq(Tasks)
    /\ task \in Tasks /\ disk \in Tasks
    /\ worktree \in Contents /\ ita \in SUBSET NewPaths
    /\ patchFile \in Contents \union {None}
    /\ ledger \in Ledgers
    /\ applied \in Contents \union {None}
    /\ running \in BOOLEAN /\ approved \in BOOLEAN /\ refresh \in BOOLEAN
    /\ cache \in SUBSET Hashes /\ edit \in Edits
    /\ granted \in SUBSET Paths
    /\ tested \in SUBSET Facts

\* Write authority that edit would accept exists only inside the agent run
\* whose user confirmed it, and only for the files of the last confirmation:
\* no restart, new request, refused plan or failed save leaves more behind.
AuthorityIsConfirmed ==
    approved => /\ running
                /\ todo = <<>> /\ HasActiveWriteScope(task)
                      => task.allowed \subseteq granted

\* The edit tool changes only files the user confirmed in this agent run.
ApprovedWritesOnly ==
    [][\A p \in Paths : worktree'[p] # worktree[p]
          => p \in granted \/ pc \in OutsideEdits]_vars

Verified(t) == t.state = "ready_to_apply" /\ t.verification # None

\* What a candidate with content c must have passed.
Certifies(facts, c) ==
    /\ \A f \in facts : f.content = c
    /\ ChangedPaths(c) \cap TestPaths \subseteq UNION {f.tests : f \in facts}
    /\ ledger.reproduction # "none" => \E f \in facts : f.by = "replay"

\* A task.json that says ready_to_apply belongs to a patch.diff with the
\* content its verification is bound to, and every check and replay of that
\* verification ran on exactly this content, cached answers included.
ReadyIsCertified ==
    Verified(disk) => /\ patchFile = disk.verification.hash[1]
                      /\ Certifies(disk.verification.facts, patchFile)

\* A candidate is withdrawn on disk before the worktree moves away from it,
\* so a crash in an edit cannot leave ready_to_apply with another worktree.
WithdrawnBeforeEdit == Verified(disk) => BoundTo(disk, Hash)

\* /apply brings to the target only the content of the worktree, certified,
\* and within the files the user approved last.
AppliedIsCertified ==
    [][applied' \notin {applied, None}
          => /\ applied' = worktree
             /\ Certifies(task.verification.facts, applied')
             /\ ChangedPaths(applied') \subseteq task.allowed]_vars

\* A task.json that says applied and a target without the patch never meet
\* once the handler is over.
AppliedMeansPatched ==
    disk.state = "applied" /\ pc = "idle" /\ todo = <<>> => applied # None

\* /discard leaves the last content of the worktree in patch.diff, although
\* the worktree itself is deleted.
DiscardKeepsDiff ==
    disk.state = "discarded" /\ ChangedPaths(worktree) # {}
        => patchFile = worktree

\* The task, as task.json and the target show it, keeps the promise.
Candidate ==
    IF disk.state = "applied" THEN applied
    ELSE IF Verified(disk) THEN disk.verification.hash[1] ELSE None

Promise == INSTANCE RepairPromise WITH
    candidate <- Candidate,
    target <- applied,
    outcome <- IF disk.state \in Terminal THEN disk.state ELSE "open"

\* Every step of the handlers is a step of RepairPromise or changes nothing
\* it speaks of: no target content but the certified candidate, no certified
\* candidate while a patch is in the target, no way back from a closed task.
KeepsPromise == Promise!Spec

\* Every file that differs from the snapshot does so in one line at least,
\* so within the line budget no more than MaxLines files differ.
LineBudget == Cardinality(ChangedPaths(worktree)) <= MaxLines
=============================================================================
