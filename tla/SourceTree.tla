------------------------------ MODULE SourceTree ------------------------------
(***************************************************************************)
(* The user's repository and what the maintainer makes of it: the detached *)
(* worktree a task is started in, a copy of the repository taken while the *)
(* user may go on working in it; the verified patch; and the pull request  *)
(* that is published from the patch.                                       *)
(*                                                                         *)
(* The text of a file has two parts, which a patch tells apart: what the   *)
(* user wrote of it and what the agent wrote.  The user never returns to a *)
(* text of before while a copy is taken.  One process runs the task at a   *)
(* time, and its tools one after the other.                                *)
(***************************************************************************)
EXTENDS Integers, Sequences, FiniteSets

CONSTANTS
    Files,
    MaxEdits,       \* bound on what the user writes into one file
    MaxCommits,     \* bound on the user's commits
    MaxVersion,     \* bound on what the agent writes into one file
    Faults          \* what can go wrong: "fail", "crash", "cleanup", "race"

ASSUME SourceAssumption ==
    /\ {MaxEdits, MaxCommits, MaxVersion} \subseteq Nat
    /\ Faults \subseteq {"fail", "crash", "cleanup", "race"}

VARIABLES
    commits,    \* the user's part of every commit
    source,     \* the user's repository: head, and both parts of the files
    start,      \* the start of a task in progress
    worktree,   \* the detached worktree, and the temporary one of a publish
    task,       \* the task's record
    publish,    \* the publish in progress
    remote,     \* the branch and the pull requests at the origin
    agreed      \* what the user was shown of what was pushed (history)

vars == <<commits, source, start, worktree, task, publish, remote, agreed>>

User == [Files -> 0 .. MaxEdits]
Agent == [Files -> 0 .. MaxVersion]
Unedited == [f \in Files |-> 0]
Nothing == [f \in Files |-> -1]
HeadOf(tree) == commits[tree.head]

NoTask == [state |-> "none", base |-> 1, dirty |-> FALSE, snapshot |-> <<>>,
           patch |-> Nothing, verified |-> <<>>, applied |-> <<>>, up |-> FALSE]
NoWorktree == [exists |-> FALSE, user |-> Unedited, agent |-> Unedited,
               temporary |-> FALSE, orphans |-> FALSE]
NoPublish == [step |-> "none", shown |-> <<>>, staged |-> <<>>]
NoRemote == [branch |-> <<>>, requests |-> 0, local |-> FALSE]
NotStarted == [step |-> "none", base |-> 1, dirty |-> FALSE, snapshot |-> <<>>]

Init ==
    /\ commits = <<Unedited>>
    /\ source = [head |-> 1, user |-> Unedited, agent |-> Unedited]
    /\ start = NotStarted /\ worktree = NoWorktree /\ task = NoTask
    /\ publish = NoPublish /\ remote = NoRemote /\ agreed = <<>>

(* hashWorktree covers the commit and every change; the index of a         *)
(* detached worktree holds the user's part of it.                          *)
SourceHash == <<source.head, source.user, source.agent>>
WorktreeHash == <<worktree.user, worktree.agent>>

SourcePaths ==
    {f \in Files : source.user[f] # HeadOf(source)[f] \/ source.agent[f] # 0}
ChangedPaths == {f \in Files : worktree.agent[f] # 0}
Clean == SourcePaths = {}

-------------------------------------------------------------------------------
(* The user, in the repository and elsewhere.                              *)

Work(f) ==
    /\ source.user[f] < MaxEdits
    /\ "race" \in Faults \/ start.step # "read"
    /\ source' = [source EXCEPT !.user[f] = @ + 1]
    /\ UNCHANGED <<commits, start, worktree, task, publish, remote, agreed>>

Commit ==
    /\ source.user # HeadOf(source) /\ source.agent = Unedited
    /\ Len(commits) <= MaxCommits
    /\ "race" \in Faults \/ start.step # "read"
    /\ commits' = Append(commits, source.user)
    /\ source' = [source EXCEPT !.head = Len(commits) + 1]
    /\ UNCHANGED <<start, worktree, task, publish, remote, agreed>>

Restore ==
    /\ start.step = "none" /\ ~ Clean
    /\ source' = [source EXCEPT !.user = HeadOf(source), !.agent = Unedited]
    /\ UNCHANGED <<commits, start, worktree, task, publish, remote, agreed>>

(* The worktree of the task lies open to other programs.                   *)
OutsideEdit(f) ==
    /\ worktree.exists /\ task.up /\ worktree.agent[f] < MaxVersion
    /\ worktree' = [worktree EXCEPT !.agent[f] = @ + 1]
    /\ UNCHANGED <<commits, source, start, task, publish, remote, agreed>>

-------------------------------------------------------------------------------
(* start: the snapshot.                                                    *)

ReadRepo ==
    /\ start.step = "none" /\ task.state = "none"
    /\ start' = [step |-> "read", base |-> source.head, dirty |-> ~ Clean,
                 snapshot |-> <<>>]
    /\ UNCHANGED <<commits, source, worktree, task, publish, remote, agreed>>

HashSource ==
    /\ start.step = "read"
    /\ start' = [start EXCEPT !.step = "hashed", !.snapshot = SourceHash]
    /\ UNCHANGED <<commits, source, worktree, task, publish, remote, agreed>>

AddWorktree ==
    /\ start.step = "hashed"
    /\ worktree' = [worktree EXCEPT !.exists = TRUE, !.agent = Unedited,
                                    !.user = commits[start.base]]
    /\ start' = [start EXCEPT !.step = "added"]
    /\ UNCHANGED <<commits, source, task, publish, remote, agreed>>

(* git diff HEAD and git apply; the files Git does not track are copied    *)
(* one by one after that.                                                  *)
Tracked(f) == HeadOf(source)[f] # 0

CopyTracked ==
    /\ start.step = "added"
    /\ worktree' = [worktree EXCEPT !.user =
           [f \in Files |-> IF Tracked(f) /\ source.user[f] # HeadOf(source)[f]
                            THEN source.user[f] ELSE @[f]]]
    /\ start' = [start EXCEPT !.step = "tracked"]
    /\ UNCHANGED <<commits, source, task, publish, remote, agreed>>

CopyUntracked ==
    /\ start.step = "tracked"
    /\ worktree' = [worktree EXCEPT !.user =
           [f \in Files |-> IF ~ Tracked(f) /\ source.user[f] # 0
                            THEN source.user[f] ELSE @[f]]]
    /\ start' = [start EXCEPT !.step = "copied"]
    /\ UNCHANGED <<commits, source, task, publish, remote, agreed>>

CreateTask_Bug ==
    /\ start.step = "copied"
    /\ task' = [NoTask EXCEPT !.state = "active", !.base = start.base, !.up = TRUE,
                              !.dirty = start.dirty, !.snapshot = start.snapshot]
    /\ start' = NotStarted
    /\ UNCHANGED <<commits, source, worktree, publish, remote, agreed>>

(* A source that changed during the copy ends the start; if not, the       *)
(* record is written and Pi runs.                                          *)
CreateTask ==
    /\ start.step = "copied" /\ SourceHash = start.snapshot
    /\ task' = [NoTask EXCEPT !.state = "active", !.base = start.base, !.up = TRUE,
                              !.dirty = start.dirty, !.snapshot = start.snapshot]
    /\ start' = NotStarted
    /\ UNCHANGED <<commits, source, worktree, publish, remote, agreed>>

StartFails ==
    /\ start.step \notin {"none", "read"}
    /\ "fail" \in Faults \/ (start.step = "copied" /\ SourceHash # start.snapshot)
    /\ worktree' = [NoWorktree EXCEPT !.orphans = worktree.orphans]
    /\ start' = NotStarted
    /\ UNCHANGED <<commits, source, task, publish, remote, agreed>>

-------------------------------------------------------------------------------
(* The task, as far as a publish depends on it; RepairTask models it.      *)

Calm == task.up /\ publish.step = "none"

AgentEdit(f) ==
    /\ Calm /\ task.state \in {"active", "ready_to_apply"}
    /\ worktree.agent[f] < MaxVersion
    /\ worktree' = [worktree EXCEPT !.agent[f] = @ + 1]
    /\ task' = [task EXCEPT !.state = "active", !.verified = <<>>]
    /\ UNCHANGED <<commits, source, start, publish, remote, agreed>>

SameSource == source.head = task.base /\ SourceHash = task.snapshot

Verify ==
    /\ Calm /\ task.state \in {"active", "ready_to_apply"}
    /\ ChangedPaths # {} /\ SameSource
    /\ task' = [task EXCEPT !.state = "ready_to_apply", !.patch = worktree.agent,
                            !.verified = WorktreeHash]
    /\ UNCHANGED <<commits, source, start, worktree, publish, remote, agreed>>

Overlay(patch, agent) == [f \in Files |-> IF patch[f] # 0 THEN patch[f] ELSE agent[f]]
Content(tree, f) == <<tree.user[f], tree.agent[f]>>
Paths(patch) == {f \in Files : patch[f] # 0}

Apply ==
    /\ Calm /\ task.state = "ready_to_apply"
    /\ WorktreeHash = task.verified /\ SameSource
    /\ source' = [source EXCEPT !.agent = Overlay(task.patch, @)]
    /\ task' = [task EXCEPT !.state = "applied",
                            !.applied = [f \in Files |-> Content(source', f)]]
    /\ UNCHANGED <<commits, start, worktree, publish, remote, agreed>>

(* The process is killed, also in a start or a publish.                    *)
Crash ==
    /\ "crash" \in Faults
    /\ task.up \/ start.step # "none"
    /\ task' = [task EXCEPT !.up = FALSE]
    /\ worktree' = IF task.state = "none" /\ worktree.exists
                   THEN [NoWorktree EXCEPT !.orphans = TRUE]
                   ELSE worktree
    /\ start' = NotStarted /\ publish' = NoPublish
    /\ UNCHANGED <<commits, source, remote, agreed>>

(* The session ends; cleanupFinishedWorktree takes the worktree of a       *)
(* finished task away.                                                     *)
EndSession ==
    /\ Calm
    /\ task' = [task EXCEPT !.up = FALSE]
    /\ worktree' = IF task.state = "applied"
                   THEN [worktree EXCEPT !.exists = FALSE] ELSE worktree
    /\ UNCHANGED <<commits, source, start, publish, remote, agreed>>

Resume ==
    /\ ~ task.up /\ task.state \in {"active", "ready_to_apply"}
    /\ source.head = task.base /\ worktree.exists
    /\ task' = [task EXCEPT !.up = TRUE]
    /\ UNCHANGED <<commits, source, start, worktree, publish, remote, agreed>>

-------------------------------------------------------------------------------
(* publish                                                                 *)

SourceReady_Bug ==
    /\ source.head = task.base
    /\ IF task.state = "ready_to_apply" THEN Clean /\ SourceHash = task.snapshot
       ELSE /\ SourcePaths = Paths(task.patch)
            /\ \A f \in Paths(task.patch) : Content(source, f) = task.applied[f]

(* assertTaskSnapshot                                                      *)
SourceReady ==
    /\ ~ task.dirty
    /\ source.head = task.base
    /\ IF task.state = "ready_to_apply" THEN Clean /\ SourceHash = task.snapshot
       ELSE /\ SourcePaths = Paths(task.patch)
            /\ \A f \in Paths(task.patch) : Content(source, f) = task.applied[f]

(* assertTaskReady, and what the preview shows and its key holds.          *)
TaskReady ==
    /\ task.state \in {"ready_to_apply", "applied"}
    /\ task.verified # <<>>
    /\ WorktreeHash = task.verified
    /\ ChangedPaths = Paths(task.patch)
    /\ SourceReady

Preview == <<task.patch, WorktreeHash>>

Proceed(from, to) ==
    /\ task.up /\ publish.step = from
    /\ publish' = [publish EXCEPT !.step = to]
    /\ UNCHANGED <<commits, source, start, task>>

Still == UNCHANGED <<worktree, remote, agreed>>

PublishBegins ==
    /\ Calm /\ TaskReady
    /\ publish' = [NoPublish EXCEPT !.step = "shown", !.shown = Preview]
    /\ UNCHANGED <<commits, source, start, task>> /\ Still

PublishCancelled ==
    /\ publish.step = "shown"
    /\ publish' = NoPublish
    /\ UNCHANGED <<commits, source, start, task>> /\ Still

(* After the confirmation, and again after the quality gate, the preview   *)
(* is made anew and must be the one that was shown.                        *)
Confirm ==
    /\ TaskReady /\ Preview = publish.shown
    /\ Proceed("shown", "confirmed")
    /\ Still

PassGate ==
    /\ TaskReady /\ Preview = publish.shown
    /\ Proceed("confirmed", "checked")
    /\ Still

AddTemporary_Bug ==
    /\ ~ worktree.temporary
    /\ Proceed("checked", "added")
    /\ worktree' = [worktree EXCEPT !.temporary = TRUE]
    /\ UNCHANGED <<remote, agreed>>

(* The branch must be new to the origin, and the place of the temporary    *)
(* worktree free.                                                          *)
AddTemporary ==
    /\ remote.branch = <<>> /\ ~ worktree.temporary
    /\ Proceed("checked", "added")
    /\ worktree' = [worktree EXCEPT !.temporary = TRUE]
    /\ UNCHANGED <<remote, agreed>>

(* The patch goes onto the commit the task was started from.               *)
ApplyPatch ==
    /\ task.up /\ publish.step = "added"
    /\ publish' = [publish EXCEPT !.step = "applied",
                       !.staged = <<commits[task.base], Overlay(task.patch, Unedited)>>]
    /\ UNCHANGED <<commits, source, start, task>> /\ Still

(* switch -c refuses a branch that an earlier attempt left.                *)
MakeBranch ==
    /\ ~ remote.local
    /\ Proceed("applied", "committed")
    /\ remote' = [remote EXCEPT !.local = TRUE]
    /\ UNCHANGED <<worktree, agreed>>

Push ==
    /\ Proceed("committed", "pushed")
    /\ remote' = [remote EXCEPT !.branch = publish.staged]
    /\ agreed' = publish.shown
    /\ UNCHANGED worktree

Cleaned == [worktree EXCEPT !.temporary = FALSE]

CreateRequest ==
    /\ task.up /\ publish.step = "pushed"
    /\ remote' = [remote EXCEPT !.requests = @ + 1]
    /\ publish' = NoPublish
    /\ worktree' \in {Cleaned} \cup (IF "cleanup" \in Faults THEN {worktree} ELSE {})
    /\ UNCHANGED <<commits, source, start, task, agreed>>

(* Any step can fail.  What stands at the place of the temporary worktree  *)
(* is removed, also when it was there before; a branch stays.              *)
Refused ==
    \/ /\ publish.step \in {"shown", "confirmed"}
       /\ ~ (TaskReady /\ Preview = publish.shown)
    \/ /\ publish.step = "checked"
       /\ remote.branch # <<>> \/ worktree.temporary
    \/ /\ publish.step = "applied" /\ remote.local

PublishFails ==
    /\ task.up /\ publish.step # "none"
    /\ Refused \/ "fail" \in Faults
    /\ worktree' \in
           IF publish.step \in {"shown", "confirmed"} THEN {worktree}
           ELSE IF publish.step = "checked" /\ remote.branch # <<>> THEN {worktree}
           ELSE {Cleaned} \cup (IF "cleanup" \in Faults THEN {worktree} ELSE {})
    /\ publish' = NoPublish
    /\ UNCHANGED <<commits, source, start, task, remote, agreed>>

(* The user takes a local branch away that blocks the next attempt.        *)
DeleteBranch ==
    /\ publish.step = "none" /\ remote.local
    /\ remote' = [remote EXCEPT !.local = FALSE]
    /\ UNCHANGED <<commits, source, start, worktree, task, publish, agreed>>

Next ==
    \/ \E f \in Files : Work(f) \/ OutsideEdit(f) \/ AgentEdit(f)
    \/ Commit \/ Restore
    \/ ReadRepo \/ HashSource \/ AddWorktree \/ CopyTracked \/ CopyUntracked
    \/ CreateTask \/ StartFails
    \/ Verify \/ Apply \/ Crash \/ EndSession \/ Resume
    \/ PublishBegins \/ PublishCancelled \/ Confirm \/ PassGate \/ AddTemporary
    \/ ApplyPatch \/ MakeBranch \/ Push \/ CreateRequest \/ PublishFails
    \/ DeleteBranch

Spec == Init /\ [][Next]_vars

-------------------------------------------------------------------------------
(* Properties.                                                             *)

(* The type of every variable.                                             *)
TypeOK ==
    /\ commits \in Seq(User)
    /\ source.head \in DOMAIN commits /\ source.user \in User
    /\ source.agent \in Agent
    /\ start.step \in {"none", "read", "hashed", "added", "tracked", "copied"}
    /\ worktree.user \in User /\ worktree.agent \in Agent
    /\ {worktree.exists, worktree.temporary, task.dirty, task.up} \subseteq BOOLEAN
    /\ worktree.orphans \in BOOLEAN
    /\ task.state \in {"none", "active", "ready_to_apply", "applied"}
    /\ task.patch \in Agent \cup {Nothing}
    /\ publish.step \in {"none", "shown", "confirmed", "checked", "added",
                         "applied", "committed", "pushed"}
    /\ remote.requests \in Nat /\ remote.local \in BOOLEAN

(* A task begins from the user's files as they were at one moment of its   *)
(* start, however he goes on editing and committing while they are copied. *)
SnapshotIsSource ==
    task.state # "none" /\ worktree.exists =>
        worktree.user = task.snapshot[2] /\ task.base = task.snapshot[1]

(* What is pushed is what was verified, in every file, and what the user   *)
(* was shown; no change of his own that he did not commit goes with it.    *)
PublishedIsVerified ==
    remote.branch # <<>> =>
        /\ remote.branch = agreed[2] /\ remote.branch[1] = commits[task.base]

(* A branch is published at most once, and a request made only for it.     *)
PublishedOnce ==
    [][/\ remote.branch # <<>> => remote'.branch = remote.branch
       /\ remote'.requests # remote.requests
              => remote.requests = 0 /\ remote'.branch # <<>>]_vars
===============================================================================
