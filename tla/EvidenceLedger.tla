---------------------------- MODULE EvidenceLedger ----------------------------
(***************************************************************************)
(* The evidence ledger of one task: the append-only file evidence.jsonl,   *)
(* the records an EvidenceStore rebuilds from it, the tools that capture,  *)
(* invalidate and supersede records in several appends each, and the       *)
(* parent process, which reads the same file for the panel of the Shell.   *)
(*                                                                         *)
(* A record is its identity and its status; what it says is abstracted.    *)
(* The identity is what recordId digests: the kind and what the fact holds *)
(* for, a version of the worktree, one saved reproduction, or the task.    *)
(* An append is two steps, so that it can be interrupted or fail in        *)
(* between: the file then ends in a part of a line.                        *)
(*                                                                         *)
(* The ledger is written by one Pi process, whose tools run one after the  *)
(* other, and the store serialises what they ask of it, so one handler is  *)
(* in progress at a time.                                                  *)
(***************************************************************************)
EXTENDS Integers, Sequences, FiniteSets, SequencesExt

CONSTANTS
    Versions,   \* the contents the worktree can have
    Base,       \* the content at the task's creation
    Repros,     \* names for the reproductions that are saved
    Kinds,      \* the kinds of records the tools capture
    Faults,     \* what can go wrong: "crash", "fail", "partial"
    MaxLines,   \* bound on the lines of the file
    MaxGoals    \* bound on the goals begun

VersionKinds == {"read", "search", "check", "change", "verification"}
TaskKinds == {"game", "proposed", "result"}

ASSUME LedgerAssumption ==
    /\ Base \in Versions
    /\ Kinds \subseteq VersionKinds \cup TaskKinds \cup {"reproduction"}
    /\ Faults \subseteq {"crash", "fail", "partial"}
    /\ MaxLines \in Nat /\ MaxGoals \in Nat

VARIABLES
    file,       \* evidence.jsonl, a sequence of appended pieces
    mem,        \* the records map of the store, by identity
    up,         \* the Pi process runs and has loaded the ledger
    job,        \* the steps the handler in progress still has to make
    todo,       \* the appends the mutation in progress still has to make
    appending,  \* an append has begun and not ended
    artifacts,  \* the records whose artifact file exists
    worktree,   \* the content of the worktree
    synced,     \* an invalidation was completed since the last write (history)
    goal        \* goals begun

disk == <<file, artifacts, worktree, goal>>
store == <<mem, up, job, todo, appending>>
vars == <<disk, store, synced>>

Statuses == {"none", "active", "stale", "superseded"}

Ids ==
    [kind : Kinds \cap VersionKinds, at : Versions]
        \cup [kind : Kinds \cap {"reproduction"}, at : Repros]
        \cup [kind : Kinds \cap TaskKinds, at : {"task"}]

Reproductions == {i \in Ids : i.kind = "reproduction"}
HasArtifact(i) == i.kind \in {"read", "search", "check", "reproduction"}

Unwritten == [i \in Ids |-> "none"]

Active(i) == mem[i] = "active"
ActiveIds == {i \in Ids : Active(i)}

Init ==
    /\ file = <<>>
    /\ mem = Unwritten
    /\ up = FALSE
    /\ job = <<>>
    /\ todo = {}
    /\ appending = FALSE
    /\ artifacts = {}
    /\ worktree = Base
    /\ synced = FALSE
    /\ goal = 0

-------------------------------------------------------------------------------
(* The file.  A piece is what one append wrote: "whole", or "half" when it *)
(* was cut off.  A piece that follows a half one stands on the same line.  *)

Broken(f, k) == f[k].end = "half" \/ (k > 1 /\ f[k - 1].end = "half")

(* readJsonLines forgives an unreadable line only when no newline follows. *)
Readable(f) == \A k \in 1 .. Len(f) : f[k].end = "whole" => ~ Broken(f, k)

Repaired_Bug(f) == f

(* The unreadable last line is cut off.                                    *)
Repaired(f) ==
    SubSeq(f, 1, Max({n \in 0 .. Len(f) :
                        \A k \in 1 .. n : f[k].end = "whole"}))

(* load(): the last line with an identity is the record.                   *)
Replay(f) ==
    [i \in Ids |->
        LET lines == {k \in 1 .. Len(f) : f[k].id = i /\ f[k].end = "whole"}
        IN  IF lines = {} THEN "none"
            ELSE f[Max(lines)].status]

-------------------------------------------------------------------------------
(* Appends and the mutations made of them.                                 *)

AppendBegins ==
    /\ up /\ ~ appending /\ todo # {}
    /\ Len(file) < MaxLines
    /\ \E next \in todo :
        /\ file' = Append(file, [id |-> next.id, status |-> next.status,
                                 end |-> "half"])
        /\ todo' = todo \ {next}
    /\ appending' = TRUE
    /\ UNCHANGED <<mem, up, job, artifacts, worktree, goal, synced>>

(* Only after the write does the map take the record.                      *)
AppendEnds ==
    /\ up /\ appending
    /\ LET last == Last(file)
       IN  /\ file' = [file EXCEPT ![Len(file)].end = "whole"]
           /\ mem' = [mem EXCEPT ![last.id] = last.status]
    /\ appending' = FALSE
    /\ UNCHANGED <<up, job, todo, artifacts, worktree, goal, synced>>

(* The write fails, with nothing or a part of the line written: the error  *)
(* ends the handler.                                                       *)
AppendFails ==
    /\ up /\ appending
    /\ \/ "fail" \in Faults /\ file' = Front(file)
       \/ "partial" \in Faults /\ UNCHANGED file
    /\ appending' = FALSE
    /\ todo' = {}
    /\ job' = <<>>
    /\ UNCHANGED <<mem, up, artifacts, worktree, goal, synced>>

(* captureLoaded: a fact that is active already is at most appended again  *)
(* with the alias of the action that found it.                             *)
Captures(i) ==
    IF Active(i)
    THEN {{}, {[id |-> i, status |-> "active"]}}
    ELSE {{[id |-> i, status |-> "active"]}}

Retired(ids, as) == {[id |-> i, status |-> as] : i \in ids}

Outdated_Bug(i) == i.kind \in {"read", "check", "verification", "result"}

(* What a change of the worktree makes stale.  "read" stands for a window  *)
(* of a changed file: its path is among those of the edit.                 *)
Outdated(i) ==
    \/ i.kind \in {"read", "check", "verification", "result"}
    \/ i.kind \in {"search", "change"} /\ i.at # worktree

(* One step of a handler, taken when the mutation before it is complete.   *)
Step(name, arg) == [do |-> name, arg |-> arg]
Content(v) == [kind |-> "worktree", at |-> v]
Ledger == [kind |-> "ledger", at |-> "task"]

Mutates(step) ==
    CASE step.do = "supersedeGoal" -> {Retired(ActiveIds, "superseded")}
      [] step.do = "supersedeReproductions" ->
             {Retired(ActiveIds \cap Reproductions, "superseded")}
      [] step.do = "invalidate" ->
             {Retired({i \in ActiveIds : Outdated(i)}, "stale")}
      [] step.do = "capture" -> Captures(step.arg)
      [] OTHER -> {{}}

Ready == up /\ todo = {} /\ ~ appending

HandlerStep ==
    /\ Ready /\ job # <<>>
    /\ LET step == Head(job)
       IN  /\ todo' \in Mutates(step)
           /\ artifacts' = IF step.do = "artifact" /\ ~ Active(step.arg)
                           THEN artifacts \cup {step.arg} ELSE artifacts
           /\ worktree' = IF step.do = "write" THEN step.arg.at ELSE worktree
           /\ goal' = IF step.do = "goal" THEN goal + 1 ELSE goal
           /\ synced' = CASE step.do = "write" -> FALSE
                          [] step.do = "invalidated" -> TRUE
                          [] OTHER -> synced
    /\ job' = Tail(job)
    /\ UNCHANGED <<file, mem, up, appending>>

-------------------------------------------------------------------------------
(* The handlers.                                                           *)

Idle == Ready /\ job = <<>>

Handle(steps) ==
    /\ Idle
    /\ job' = steps
    /\ UNCHANGED <<disk, mem, up, todo, appending, synced>>

Recording_Bug(i) ==
    <<Step("capture", i)>>
        \o (IF HasArtifact(i) THEN <<Step("artifact", i)>> ELSE <<>>)

Recording(i) ==
    (IF HasArtifact(i) THEN <<Step("artifact", i)>> ELSE <<>>)
        \o <<Step("capture", i)>>

Invalidation(v) ==
    <<Step("invalidate", Ledger), Step("invalidated", Ledger)>>
        \o (IF "change" \in Kinds
            THEN Recording([kind |-> "change", at |-> v]) ELSE <<>>)

(* inspect, check, a game tool, finish or a verification records a fact    *)
(* about the present content.                                              *)
Record(i) ==
    /\ i.kind \notin {"reproduction", "change"}
    /\ i.kind \in VersionKinds => i.at = worktree
    /\ Handle(Recording(i))

SaveReproduction_Bug(i) ==
    /\ i \in Reproductions \ artifacts
    /\ Handle(<<Step("artifact", i), Step("capture", i)>>)

(* saveReproduction: a new file, then the old ones out, then the new one.  *)
SaveReproduction(i) ==
    /\ i \in Reproductions \ artifacts
    /\ Handle(<<Step("artifact", i), Step("supersedeReproductions", Ledger),
                Step("capture", i)>>)

(* edit writes the files before it makes the old facts stale.              *)
Edit(v) ==
    /\ v # worktree
    /\ Handle(<<Step("write", Content(v))>> \o Invalidation(v))

(* A request that names a new problem.                                     *)
BeginGoal ==
    /\ goal < MaxGoals
    /\ Handle(<<Step("supersedeGoal", Ledger), Step("goal", Ledger)>>)

(* syncWorktreeChanges returns early when the change of this very content  *)
(* is on record.                                                           *)
KnownChange == \E i \in ActiveIds : i.kind = "change" /\ i.at = worktree

SyncWorktree ==
    /\ ~ KnownChange
    /\ Handle(Invalidation(worktree))

-------------------------------------------------------------------------------
(* The process and its parent.                                             *)

(* A session loads the ledger before anything else, cuts a torn last line  *)
(* off, and takes a reproduction whose SQL is lost out of the active ones. *)
(* A ledger that cannot be read ends the session.                          *)
Start ==
    /\ ~ up
    /\ Readable(file)
    /\ file' = Repaired(file)
    /\ mem' = Replay(file)
    /\ up' = TRUE
    /\ job' \in {<<>>, <<Step("supersedeReproductions", Ledger)>>}
    /\ UNCHANGED <<todo, appending, artifacts, worktree, goal, synced>>

(* The process ends.  Of an append in progress nothing, a part or all of   *)
(* the line has reached the file.                                          *)
Crash ==
    /\ up
    /\ "crash" \in Faults \/ Idle
    /\ \/ UNCHANGED file
       \/ appending /\ file' = Front(file)
       \/ appending /\ file' = [file EXCEPT ![Len(file)].end = "whole"]
    /\ up' = FALSE
    /\ mem' = Unwritten
    /\ job' = <<>>
    /\ todo' = {}
    /\ appending' = FALSE
    /\ UNCHANGED <<artifacts, worktree, goal, synced>>

(* The parent reads the file with a store of its own, to publish the panel *)
(* or to see whether the task has evidence, and repairs it as a session    *)
(* does.  Its read falls between two appends.                              *)
ParentReads ==
    /\ ~ appending
    /\ Readable(file)
    /\ file' = Repaired(file)
    /\ UNCHANGED <<store, artifacts, worktree, goal, synced>>

Next ==
    \/ AppendBegins
    \/ AppendEnds
    \/ AppendFails
    \/ HandlerStep
    \/ \E i \in Ids : Record(i)
    \/ \E i \in Ids : SaveReproduction(i)
    \/ \E v \in Versions : Edit(v)
    \/ BeginGoal
    \/ SyncWorktree
    \/ Start
    \/ Crash
    \/ ParentReads

Spec == Init /\ [][Next]_vars

-------------------------------------------------------------------------------
(* Properties.                                                             *)

(* What the tools act on is what a restart would rebuild: after every      *)
(* append, failed append, repair and restart the file can be read and      *)
(* holds the records of the store (the header of store.ts says that a      *)
(* restart rebuilds the state from the last line of each identity).        *)
RestartKeepsLedger ==
    up /\ ~ appending => Readable(file) /\ Replay(file) = mem

(* A record in the file names no artifact that was never written.          *)
ArtifactFirst ==
    \A k \in 1 .. Len(file) :
        file[k].end = "whole" /\ HasArtifact(file[k].id)
            => file[k].id \in artifacts

(* Once an invalidation is complete no check, verification, change, search *)
(* or window of another content is active, until the next write.           *)
NothingOutdated ==
    up /\ synced /\ job = <<>> =>
        \A i \in ActiveIds : i.kind \in VersionKinds => i.at = worktree

(* The ledger keeps its promise to the tools: seen through the file, every *)
(* step is a step of EvidencePromise, and a crash is none.                 *)
Promise == INSTANCE EvidencePromise
               WITH status <- Replay(file)
LedgerKeepsPromise == Promise!PromiseSpec
===============================================================================
