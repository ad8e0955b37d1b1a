--------------------------- MODULE SourceTreeProofs ---------------------------
(***************************************************************************)
(* A task begins from the user's files as they were at one moment, and     *)
(* what is published, once, is what was verified and shown: for any files, *)
(* any number of edits and commits of the user, and every fault but the    *)
(* race between the read of the head and the first hash.                   *)
(***************************************************************************)
EXTENDS SourceTree, TLAPS

Copied == {"hashed", "added", "tracked", "copied"}

Shape ==
    /\ commits \in Seq(User)
    /\ DOMAIN source = {"head", "user", "agent"}
    /\ source.head \in 1 .. Len(commits) /\ source.user \in User
    /\ DOMAIN start = {"step", "base", "dirty", "snapshot"}
    /\ start.step \in {"none", "read"} \cup Copied
    /\ start.base \in 1 .. Len(commits) /\ start.dirty \in BOOLEAN
    /\ DOMAIN worktree = {"exists", "user", "agent", "temporary", "orphans"}
    /\ worktree.user \in User /\ worktree.agent \in Agent
    /\ DOMAIN task = {"state", "base", "dirty", "snapshot", "patch", "verified",
                      "applied", "up"}
    /\ task.base \in 1 .. Len(commits) /\ task.dirty \in BOOLEAN
    /\ DOMAIN publish = {"step", "shown", "staged"}
    /\ DOMAIN remote = {"branch", "requests", "local"}

\* The user has not touched a file since they were hashed.
Same == source.head = start.base /\ source.user = start.snapshot[2]

HalfCopied ==
    [f \in Files |-> IF Tracked(f) /\ source.user[f] # HeadOf(source)[f]
                     THEN source.user[f] ELSE commits[start.base][f]]

\* What the copy holds, unless the user has touched a file since the hash:
\* as his counters only grow, he cannot undo that before the second hash.
Copying ==
    /\ start.step # "none" => task.state = "none"
    /\ start.step = "read" =>
           /\ source.head = start.base
           /\ ~ start.dirty => source.user = commits[start.base]
    /\ start.step \in Copied =>
           /\ start.snapshot = <<start.base, start.snapshot[2], start.snapshot[3]>>
           /\ start.snapshot[2] \in User
           /\ start.base <= source.head
           /\ \A f \in Files : start.snapshot[2][f] <= source.user[f]
           /\ ~ start.dirty => start.snapshot[2] = commits[start.base]
    /\ start.step = "added" /\ Same => worktree.user = commits[start.base]
    /\ start.step = "tracked" /\ Same => worktree.user = HalfCopied
    /\ start.step = "copied" /\ Same => worktree.user = source.user

Snapped ==
    task.state # "none" =>
        /\ task.snapshot[1] = task.base /\ task.snapshot[2] = worktree.user
        /\ ~ task.dirty => worktree.user = commits[task.base]

Verified ==
    task.verified # <<>> =>
        /\ task.state # "none" /\ task.patch \in Agent
        /\ task.verified = <<worktree.user, task.patch>>

Publishing ==
    /\ publish.step # "none" =>
           /\ task.verified # <<>> /\ ~ task.dirty
           /\ publish.shown = <<task.patch, task.verified>>
    /\ publish.step \in {"applied", "committed"} =>
           publish.staged = <<commits[task.base], task.patch>>

Pushed ==
    /\ remote.branch # <<>> => task.state # "none"
    /\ PublishedIsVerified
    /\ publish.step \in {"added", "applied", "committed"} => remote.branch = <<>>
    /\ publish.step = "pushed" => remote.branch # <<>> /\ remote.requests = 0
    /\ remote.branch = <<>> => remote.requests = 0

Inv == Shape /\ Copying /\ Snapped /\ Verified /\ Publishing /\ Pushed

LEMMA InitInv == Init => Inv
  <1> SUFFICES ASSUME Init PROVE Inv
    OBVIOUS
  <1>1. Unedited \in User /\ Unedited \in Agent
    BY SourceAssumption DEF Unedited, User, Agent
  <1>2. Shape
    BY <1>1 DEF Init, Shape, NotStarted, NoWorktree, NoTask, NoPublish, NoRemote
  <1>3. Copying /\ Snapped /\ Verified
    BY DEF Init, Copying, Copied, Snapped, Verified, NotStarted, NoTask
  <1>4. Publishing /\ Pushed
    BY DEF Init, Publishing, Pushed, PublishedIsVerified, NoPublish, NoRemote
  <1> QED
    BY <1>2, <1>3, <1>4 DEF Inv

\* What the invariant says of a task and its publish, as one fact.
TaskInv == Snapped /\ Verified /\ Publishing /\ Pushed

\* A step that leaves the task and the publish alone keeps what is said of
\* them, also when it adds a commit.
LEMMA TaskStays ==
  ASSUME Inv, UNCHANGED <<task, publish, remote, agreed>>,
         worktree'.user = worktree.user,
         \A n \in 1 .. Len(commits) : commits'[n] = commits[n]
  PROVE  TaskInv'
  <1>1. task.base \in 1 .. Len(commits)
    BY DEF Inv, Shape
  <1>2. commits'[task.base] = commits[task.base]
    BY <1>1
  <1> QED
    BY <1>2 DEF Inv, TaskInv, Snapped, Verified, Publishing, Pushed,
                PublishedIsVerified

\* Before there is a task there is nothing to say of one.
LEMMA NoTaskYet ==
  ASSUME Inv, task.state = "none", UNCHANGED <<task, publish, remote, agreed>>
  PROVE  TaskInv'
  BY DEF Inv, TaskInv, Snapped, Verified, Publishing, Pushed, PublishedIsVerified

\* A step outside of a start keeps what is said of the copy.
LEMMA CopyStays ==
  ASSUME Inv, UNCHANGED <<commits, source, start>>, worktree'.user = worktree.user,
         task'.state = "none" \/ start.step = "none"
  PROVE  Copying'
  <1>1. start.step # "none" => task'.state = "none"
    OBVIOUS
  <1>2. Same' = Same /\ HalfCopied' = HalfCopied
    BY DEF Same, HalfCopied, Tracked, HeadOf
  <1> QED
    BY <1>1, <1>2 DEF Inv, Copying

-------------------------------------------------------------------------------
(* The user.                                                               *)

LEMMA WorkKeeps ==
  ASSUME "race" \notin Faults, Inv, NEW f \in Files, Work(f)
  PROVE  Inv'
  <1>0. /\ UNCHANGED <<commits, start, worktree, task, publish, remote, agreed>>
        /\ source' = [source EXCEPT !.user[f] = @ + 1] /\ start.step # "read"
        /\ source.user \in User /\ source.user[f] < MaxEdits
        /\ DOMAIN source = {"head", "user", "agent"}
    BY DEF Work, Inv, Shape
  <1>1. /\ DOMAIN source' = {"head", "user", "agent"} /\ source'.head = source.head
        /\ source'.user = [source.user EXCEPT ![f] = @ + 1]
    BY <1>0
  <1>2. source'.user \in User /\ source'.user[f] = source.user[f] + 1
    BY <1>0, <1>1, SourceAssumption DEF User
  <1>3. \A g \in Files : source.user[g] <= source'.user[g]
    BY <1>0, <1>1 DEF User
  <1>4. Shape'
    BY <1>0, <1>1, <1>2 DEF Inv, Shape
  <1>5. Copying'
    <2>1. CASE start.step \in Copied
      <3>1. \A g \in Files : start.snapshot[2][g] <= source'.user[g]
        BY <1>0, <1>2, <1>3, <2>1 DEF Inv, Copying, User
      <3>2. ~ Same'
        BY <1>0, <1>2, <2>1 DEF Same, Inv, Copying, User
      <3> QED
        BY <1>0, <1>1, <2>1, <3>1, <3>2 DEF Inv, Copying, Copied
    <2>2. CASE start.step \notin Copied
      BY <1>0, <2>2 DEF Inv, Copying, Copied
    <2> QED
      BY <2>1, <2>2
  <1>6. TaskInv'
    BY <1>0, TaskStays
  <1> QED
    BY <1>4, <1>5, <1>6 DEF Inv, TaskInv

LEMMA CommitKeeps ==
  ASSUME "race" \notin Faults, Inv, Commit
  PROVE  Inv'
  <1>0. /\ UNCHANGED <<start, worktree, task, publish, remote, agreed>>
        /\ source' = [source EXCEPT !.head = Len(commits) + 1]
        /\ commits' = Append(commits, source.user) /\ start.step # "read"
        /\ source.user \in User /\ commits \in Seq(User)
        /\ DOMAIN source = {"head", "user", "agent"}
    BY DEF Commit, Inv, Shape
  <1>1. /\ DOMAIN source' = {"head", "user", "agent"}
        /\ source'.head = Len(commits) + 1 /\ source'.user = source.user
    BY <1>0
  <1>2. /\ commits' \in Seq(User) /\ Len(commits') = Len(commits) + 1
        /\ \A n \in 1 .. Len(commits) : commits'[n] = commits[n]
    BY <1>0
  <1>3. Shape'
    BY <1>0, <1>1, <1>2 DEF Inv, Shape
  <1>4. Copying'
    <2>1. CASE start.step \in Copied
      <3>1. start.base \in 1 .. Len(commits)
        BY DEF Inv, Shape
      <3>2. ~ Same' /\ start.base <= source'.head
        BY <1>0, <1>1, <3>1 DEF Same
      <3>3. commits'[start.base] = commits[start.base]
        BY <1>2, <3>1
      <3> QED
        BY <1>0, <1>1, <2>1, <3>2, <3>3 DEF Inv, Copying, Copied
    <2>2. CASE start.step \notin Copied
      BY <1>0, <2>2 DEF Inv, Copying, Copied
    <2> QED
      BY <2>1, <2>2
  <1>5. TaskInv'
    BY <1>0, <1>2, TaskStays
  <1> QED
    BY <1>3, <1>4, <1>5 DEF Inv, TaskInv

LEMMA RestoreKeeps == ASSUME Inv, Restore PROVE Inv'
  <1>0. /\ UNCHANGED <<commits, start, worktree, task, publish, remote, agreed>>
        /\ start.step = "none"
        /\ source' = [source EXCEPT !.user = HeadOf(source), !.agent = Unedited]
    BY DEF Restore
  <1>1. HeadOf(source) \in User
    BY DEF Inv, Shape, HeadOf
  <1>2. Shape'
    BY <1>0, <1>1 DEF Inv, Shape
  <1>3. Copying'
    BY <1>0 DEF Inv, Copying, Copied
  <1>4. TaskInv'
    BY <1>0, TaskStays
  <1> QED
    BY <1>2, <1>3, <1>4 DEF Inv, TaskInv

\* One more version of a file of the worktree.
LEMMA EditType ==
  ASSUME Shape, NEW f \in Files, worktree.agent[f] < MaxVersion,
         worktree' = [worktree EXCEPT !.agent[f] = @ + 1]
  PROVE  /\ DOMAIN worktree' = DOMAIN worktree /\ worktree'.user = worktree.user
         /\ worktree'.agent \in Agent
  <1>1. worktree.agent \in Agent /\ worktree'.agent = [worktree.agent EXCEPT ![f] = @ + 1]
    BY DEF Shape
  <1> QED
    BY <1>1, SourceAssumption DEF Shape, Agent

LEMMA OutsideEditKeeps ==
  ASSUME Inv, NEW f \in Files, OutsideEdit(f)
  PROVE  Inv'
  <1>0. UNCHANGED <<commits, source, start, task, publish, remote, agreed>>
    BY DEF OutsideEdit
  <1>1. /\ DOMAIN worktree' = DOMAIN worktree /\ worktree'.user = worktree.user
        /\ worktree'.agent \in Agent
    BY EditType DEF OutsideEdit, Inv
  <1>2. Shape'
    BY <1>0, <1>1 DEF Inv, Shape
  <1>3. Copying'
    BY <1>0, <1>1, CopyStays DEF Inv, Copying
  <1>4. TaskInv'
    BY <1>0, <1>1, TaskStays
  <1> QED
    BY <1>2, <1>3, <1>4 DEF Inv, TaskInv

-------------------------------------------------------------------------------
(* start                                                                   *)

LEMMA ReadRepoKeeps == ASSUME Inv, ReadRepo PROVE Inv'
  <1>0. /\ UNCHANGED <<commits, source, worktree, task, publish, remote, agreed>>
        /\ task.state = "none"
        /\ start' = [step |-> "read", base |-> source.head, dirty |-> ~ Clean,
                     snapshot |-> <<>>]
    BY DEF ReadRepo
  <1>1. Shape'
    BY <1>0 DEF Inv, Shape, Copied
  <1>2. Clean => source.user = commits[source.head]
    <2>1. source.user \in User /\ commits[source.head] \in User
      BY DEF Inv, Shape
    <2> QED
      BY <2>1 DEF Clean, SourcePaths, HeadOf, User
  <1>3. Copying'
    BY <1>0, <1>2 DEF Copying, Copied
  <1>4. TaskInv'
    BY <1>0, TaskStays
  <1> QED
    BY <1>1, <1>3, <1>4 DEF Inv, TaskInv

LEMMA HashSourceKeeps == ASSUME Inv, HashSource PROVE Inv'
  <1>0. /\ UNCHANGED <<commits, source, worktree, task, publish, remote, agreed>>
        /\ start.step = "read" /\ start'.step = "hashed"
        /\ start'.snapshot = <<source.head, source.user, source.agent>>
        /\ start'.base = start.base /\ start'.dirty = start.dirty
        /\ DOMAIN start' = DOMAIN start
    BY DEF HashSource, SourceHash, Inv, Shape
  <1>1. Shape'
    BY <1>0 DEF Inv, Shape, Copied
  <1>2. source.user \in User /\ \A g \in Files : source.user[g] <= source.user[g]
    BY DEF Inv, Shape, User
  <1>3. source.head = start.base /\ start.base \in Nat
    BY <1>0 DEF Inv, Copying, Shape
  <1>4. Copying'
    BY <1>0, <1>2, <1>3 DEF Inv, Copying, Copied
  <1>5. TaskInv'
    BY <1>0, TaskStays
  <1> QED
    BY <1>1, <1>4, <1>5 DEF Inv, TaskInv

\* A step of the copy: the next stage, and files that are the user's.
LEMMA StageKeeps ==
  ASSUME Inv, NEW step \in {"added", "tracked", "copied"},
         start.step \in Copied, start' = [start EXCEPT !.step = step],
         UNCHANGED <<commits, source, task, publish, remote, agreed>>,
         DOMAIN worktree' = DOMAIN worktree, worktree'.agent \in Agent,
         worktree'.user \in User,
         step = "added" /\ Same => worktree'.user = commits[start.base],
         step = "tracked" /\ Same => worktree'.user = HalfCopied,
         step = "copied" /\ Same => worktree'.user = source.user
  PROVE  Inv'
  <1>0. /\ start'.step = step /\ start'.base = start.base
        /\ start'.dirty = start.dirty /\ start'.snapshot = start.snapshot
        /\ DOMAIN start' = DOMAIN start
    BY DEF Inv, Shape
  <1>1. Shape'
    BY <1>0 DEF Inv, Shape, Copied
  <1>2. Same' = Same /\ HalfCopied' = HalfCopied
    BY <1>0 DEF Same, HalfCopied, Tracked, HeadOf
  <1>3. Copying'
    BY <1>0, <1>2 DEF Inv, Copying, Copied
  <1>4. task.state = "none"
    BY DEF Inv, Copying, Copied
  <1>5. TaskInv'
    BY <1>4, NoTaskYet
  <1> QED
    BY <1>1, <1>3, <1>5 DEF Inv, TaskInv

LEMMA AddWorktreeKeeps == ASSUME Inv, AddWorktree PROVE Inv'
  <1>1. /\ DOMAIN worktree' = DOMAIN worktree /\ worktree'.agent = Unedited
        /\ worktree'.user = commits[start.base]
    BY DEF AddWorktree, Inv, Shape
  <1>2. commits[start.base] \in User /\ Unedited \in Agent
    BY SourceAssumption DEF Inv, Shape, Unedited, Agent
  <1> QED
    BY <1>1, <1>2, StageKeeps DEF AddWorktree, Copied

LEMMA CopyTrackedKeeps == ASSUME Inv, CopyTracked PROVE Inv'
  <1> DEFINE copy == [f \in Files |->
                        IF Tracked(f) /\ source.user[f] # HeadOf(source)[f]
                        THEN source.user[f] ELSE worktree.user[f]]
  <1>1. /\ DOMAIN worktree' = DOMAIN worktree /\ worktree'.agent = worktree.agent
        /\ worktree'.user = copy
    BY DEF CopyTracked, Inv, Shape
  <1>2. copy \in User /\ worktree.agent \in Agent
    BY DEF Inv, Shape, User
  <1>3. Same => copy = HalfCopied
    BY DEF CopyTracked, Inv, Copying, HalfCopied
  <1> QED
    BY <1>1, <1>2, <1>3, StageKeeps DEF CopyTracked, Copied

\* Where the head has nothing, neither has the copy so far.
LEMMA CopyUntrackedKeeps == ASSUME Inv, CopyUntracked PROVE Inv'
  <1> DEFINE copy == [f \in Files |-> IF ~ Tracked(f) /\ source.user[f] # 0
                                      THEN source.user[f] ELSE worktree.user[f]]
  <1>1. /\ DOMAIN worktree' = DOMAIN worktree /\ worktree'.agent = worktree.agent
        /\ worktree'.user = copy
    BY DEF CopyUntracked, Inv, Shape
  <1>2. copy \in User /\ worktree.agent \in Agent
    BY DEF Inv, Shape, User
  <1>3. Same => copy = source.user
    <2> SUFFICES ASSUME Same PROVE copy = source.user
      OBVIOUS
    <2>1. worktree.user = HalfCopied /\ HeadOf(source) = commits[start.base]
      BY DEF CopyUntracked, Inv, Copying, Same, HeadOf
    <2>2. \A f \in Files : copy[f] = source.user[f]
      BY <2>1 DEF HalfCopied, Tracked
    <2> QED
      BY <2>2 DEF Inv, Shape, User
  <1> QED
    BY <1>1, <1>2, <1>3, StageKeeps DEF CopyUntracked, Copied

LEMMA CreateTaskKeeps == ASSUME Inv, CreateTask PROVE Inv'
  <1>0. /\ UNCHANGED <<commits, source, worktree, publish, remote, agreed>>
        /\ start.step = "copied" /\ SourceHash = start.snapshot
        /\ task' = [NoTask EXCEPT !.state = "active", !.base = start.base, !.up = TRUE,
                           !.dirty = start.dirty, !.snapshot = start.snapshot]
        /\ start' = NotStarted
    BY DEF CreateTask
  <1>1. /\ DOMAIN task' = DOMAIN NoTask /\ task'.state = "active"
        /\ task'.base = start.base /\ task'.dirty = start.dirty
        /\ task'.snapshot = start.snapshot /\ task'.verified = <<>>
    BY <1>0 DEF NoTask
  <1>2. Shape'
    BY <1>0, <1>1 DEF Inv, Shape, NotStarted, NoTask
  <1>3. Copying'
    BY <1>0 DEF Copying, Copied, NotStarted
  <1>4. /\ start.snapshot[1] = start.base /\ start.snapshot[2] = worktree.user
        /\ ~ start.dirty => worktree.user = commits[start.base]
    <2>1. /\ start.snapshot = <<start.base, start.snapshot[2], start.snapshot[3]>>
          /\ ~ start.dirty => start.snapshot[2] = commits[start.base]
          /\ Same => worktree.user = source.user
      BY <1>0 DEF Inv, Copying, Copied
    <2>2. source.head = start.snapshot[1] /\ source.user = start.snapshot[2]
      BY <1>0 DEF SourceHash
    <2> QED
      BY <2>1, <2>2 DEF Same
  <1>5. Snapped' /\ Verified'
    BY <1>0, <1>1, <1>4 DEF Snapped, Verified
  <1>6. task.state = "none"
    BY <1>0 DEF Inv, Copying
  <1>7. Publishing' /\ Pushed'
    BY <1>0, <1>6 DEF Inv, Publishing, Verified, Pushed, PublishedIsVerified
  <1> QED
    BY <1>2, <1>3, <1>5, <1>7 DEF Inv

LEMMA UneditedType == Unedited \in User /\ Unedited \in Agent
  BY SourceAssumption DEF Unedited, User, Agent

LEMMA StartFailsKeeps == ASSUME Inv, StartFails PROVE Inv'
  <1>0. /\ UNCHANGED <<commits, source, task, publish, remote, agreed>>
        /\ worktree' = [NoWorktree EXCEPT !.orphans = worktree.orphans]
        /\ start' = NotStarted /\ start.step # "none"
    BY DEF StartFails
  <1>1. Shape'
    BY <1>0, UneditedType DEF Inv, Shape, NotStarted, NoWorktree
  <1>2. Copying'
    BY <1>0 DEF Copying, Copied, NotStarted
  <1>3. TaskInv'
    BY <1>0, NoTaskYet DEF Inv, Copying
  <1> QED
    BY <1>1, <1>2, <1>3 DEF Inv, TaskInv

-------------------------------------------------------------------------------
(* The task.                                                               *)

LEMMA AgentEditKeeps ==
  ASSUME Inv, NEW f \in Files, AgentEdit(f)
  PROVE  Inv'
  <1>0. /\ UNCHANGED <<commits, source, start, publish, remote, agreed>>
        /\ publish.step = "none" /\ task.state # "none"
        /\ task' = [task EXCEPT !.state = "active", !.verified = <<>>]
    BY DEF AgentEdit, Calm
  <1>1. /\ DOMAIN worktree' = DOMAIN worktree /\ worktree'.user = worktree.user
        /\ worktree'.agent \in Agent
    BY EditType DEF AgentEdit, Inv
  <1>2. /\ DOMAIN task' = DOMAIN task /\ task'.base = task.base
        /\ task'.dirty = task.dirty /\ task'.snapshot = task.snapshot
        /\ task'.state = "active" /\ task'.verified = <<>>
    BY <1>0 DEF Inv, Shape
  <1>3. Shape'
    BY <1>0, <1>1, <1>2 DEF Inv, Shape
  <1>4. Copying'
    BY <1>0, <1>1, CopyStays DEF Inv, Copying
  <1>5. Snapped' /\ Verified' /\ Publishing' /\ Pushed'
    BY <1>0, <1>1, <1>2 DEF Inv, Snapped, Verified, Publishing, Pushed,
                            PublishedIsVerified
  <1> QED
    BY <1>3, <1>4, <1>5 DEF Inv

LEMMA VerifyKeeps == ASSUME Inv, Verify PROVE Inv'
  <1>0. /\ UNCHANGED <<commits, source, start, worktree, publish, remote, agreed>>
        /\ publish.step = "none" /\ task.state # "none"
    BY DEF Verify, Calm
  <1>1. /\ DOMAIN task' = DOMAIN task /\ task'.base = task.base
        /\ task'.dirty = task.dirty /\ task'.snapshot = task.snapshot
        /\ task'.state = "ready_to_apply" /\ task'.patch = worktree.agent
        /\ task'.verified = <<worktree.user, worktree.agent>>
    BY DEF Verify, WorktreeHash, Inv, Shape
  <1>2. Shape'
    BY <1>0, <1>1 DEF Inv, Shape
  <1>3. Copying'
    BY <1>0, CopyStays DEF Inv, Copying
  <1>4. Snapped' /\ Verified' /\ Publishing' /\ Pushed'
    BY <1>0, <1>1 DEF Inv, Shape, Snapped, Verified, Publishing, Pushed,
                      PublishedIsVerified
  <1> QED
    BY <1>2, <1>3, <1>4 DEF Inv

\* A step that only moves the record on, and the user's files with it.
LEMMA RecordKeeps ==
  ASSUME Inv, task.state # "none",
         UNCHANGED <<commits, start, remote, agreed>>,
         DOMAIN task' = DOMAIN task, task'.base = task.base,
         task'.dirty = task.dirty, task'.snapshot = task.snapshot,
         task'.patch = task.patch, task'.verified = task.verified,
         task'.state # "none",
         publish' = publish \/ publish' = NoPublish,
         DOMAIN worktree' = DOMAIN worktree, worktree'.user = worktree.user,
         worktree'.agent = worktree.agent,
         DOMAIN source' = DOMAIN source, source'.head = source.head,
         source'.user = source.user
  PROVE  Inv'
  <1>1. Shape'
    BY DEF Inv, Shape, NoPublish
  <1>2. Copying'
    BY DEF Inv, Copying, Copied
  <1>3. Snapped' /\ Verified' /\ Publishing' /\ Pushed'
    BY DEF Inv, Snapped, Verified, Publishing, Pushed, PublishedIsVerified, NoPublish
  <1> QED
    BY <1>1, <1>2, <1>3 DEF Inv

LEMMA ApplyKeeps == ASSUME Inv, Apply PROVE Inv'
  <1>1. /\ task.state = "ready_to_apply"
        /\ UNCHANGED <<commits, start, worktree, publish, remote, agreed>>
    BY DEF Apply
  <1>2. /\ DOMAIN source' = DOMAIN source /\ source'.head = source.head
        /\ source'.user = source.user
    BY DEF Apply, Inv, Shape
  <1>3. /\ DOMAIN task' = DOMAIN task /\ task'.base = task.base
        /\ task'.dirty = task.dirty /\ task'.snapshot = task.snapshot
        /\ task'.patch = task.patch /\ task'.verified = task.verified
        /\ task'.state # "none"
    BY DEF Apply, Inv, Shape
  <1> QED
    BY <1>1, <1>2, <1>3, RecordKeeps

LEMMA CrashKeeps == ASSUME Inv, Crash PROVE Inv'
  <1>0. /\ UNCHANGED <<commits, source, remote, agreed>>
        /\ task' = [task EXCEPT !.up = FALSE]
        /\ start' = NotStarted /\ publish' = NoPublish
    BY DEF Crash
  <1>1. /\ DOMAIN task' = DOMAIN task /\ task'.base = task.base
        /\ task'.dirty = task.dirty /\ task'.snapshot = task.snapshot
        /\ task'.patch = task.patch /\ task'.verified = task.verified
        /\ task'.state = task.state
    BY <1>0 DEF Inv, Shape
  <1>2. /\ DOMAIN worktree' = DOMAIN worktree /\ worktree'.user \in User
        /\ worktree'.agent \in Agent
        /\ task.state # "none" => worktree'.user = worktree.user
    BY UneditedType DEF Crash, NoWorktree, Inv, Shape
  <1>3. Shape'
    BY <1>0, <1>1, <1>2 DEF Inv, Shape, NotStarted, NoPublish
  <1>4. Copying'
    BY <1>0 DEF Copying, Copied, NotStarted
  <1>5. Snapped' /\ Verified' /\ Publishing' /\ Pushed'
    BY <1>0, <1>1, <1>2 DEF Inv, Snapped, Verified, Publishing, Pushed,
                            PublishedIsVerified, NoPublish
  <1> QED
    BY <1>3, <1>4, <1>5 DEF Inv

LEMMA SessionKeeps == ASSUME Inv, EndSession \/ Resume PROVE Inv'
  <1>0. /\ UNCHANGED <<commits, source, start, publish, remote, agreed>>
        /\ \/ task' = [task EXCEPT !.up = FALSE]
           \/ task' = [task EXCEPT !.up = TRUE]
    BY DEF EndSession, Resume
  <1>1. /\ DOMAIN task' = DOMAIN task /\ task'.base = task.base
        /\ task'.dirty = task.dirty /\ task'.snapshot = task.snapshot
        /\ task'.patch = task.patch /\ task'.verified = task.verified
        /\ task'.state = task.state
    BY <1>0 DEF Inv, Shape
  <1>2. /\ DOMAIN worktree' = DOMAIN worktree /\ worktree'.user = worktree.user
        /\ worktree'.agent = worktree.agent
    BY DEF EndSession, Resume, Inv, Shape
  <1>3. Shape'
    BY <1>0, <1>1, <1>2 DEF Inv, Shape
  <1>4. Copying'
    BY <1>0, <1>1, <1>2, CopyStays DEF Inv, Copying
  <1>5. Snapped' /\ Verified' /\ Publishing' /\ Pushed'
    BY <1>0, <1>1, <1>2 DEF Inv, Snapped, Verified, Publishing, Pushed,
                            PublishedIsVerified
  <1> QED
    BY <1>3, <1>4, <1>5 DEF Inv

-------------------------------------------------------------------------------
(* publish                                                                 *)

\* A step of a publish leaves the user, the start and the record alone.
LEMMA PublishKeeps ==
  ASSUME Inv, UNCHANGED <<commits, source, start, task>>,
         DOMAIN worktree' = DOMAIN worktree, worktree'.user = worktree.user,
         worktree'.agent = worktree.agent,
         DOMAIN publish' = DOMAIN publish, DOMAIN remote' = DOMAIN remote,
         Publishing', Pushed'
  PROVE  Inv'
  <1>1. Shape'
    BY DEF Inv, Shape
  <1>2. Copying'
    BY CopyStays DEF Inv, Copying
  <1>3. Snapped' /\ Verified'
    BY DEF Inv, Snapped, Verified
  <1> QED
    BY <1>1, <1>2, <1>3 DEF Inv

\* What is shown is what was verified, of a task that was started from
\* committed files only.
LEMMA BeginsKeeps == ASSUME Inv, PublishBegins PROVE Inv'
  <1>0. /\ UNCHANGED <<commits, source, start, task, worktree, remote, agreed>>
        /\ TaskReady /\ publish' = [NoPublish EXCEPT !.step = "shown", !.shown = Preview]
    BY DEF PublishBegins, Still
  <1>1. /\ DOMAIN publish' = {"step", "shown", "staged"} /\ publish'.step = "shown"
        /\ publish'.shown = Preview
    BY <1>0 DEF NoPublish
  <1>2. /\ task.verified # <<>> /\ ~ task.dirty
        /\ Preview = <<task.patch, task.verified>>
    BY <1>0 DEF TaskReady, SourceReady, Preview
  <1>3. Publishing'
    BY <1>0, <1>1, <1>2 DEF Publishing
  <1>4. Pushed'
    BY <1>0, <1>1 DEF Inv, Pushed, PublishedIsVerified
  <1> QED
    BY <1>0, <1>1, <1>3, <1>4, PublishKeeps DEF Inv, Shape

LEMMA EndsKeeps ==
  ASSUME Inv, PublishCancelled \/ PublishFails
  PROVE  Inv'
  <1>0. /\ UNCHANGED <<commits, source, start, task, remote, agreed>>
        /\ publish' = NoPublish
    BY DEF PublishCancelled, PublishFails, Still
  <1>1. worktree' = worktree \/ worktree' = [worktree EXCEPT !.temporary = FALSE]
    BY DEF PublishCancelled, PublishFails, Still, Cleaned
  <1>2. /\ DOMAIN worktree' = DOMAIN worktree /\ worktree'.user = worktree.user
        /\ worktree'.agent = worktree.agent
    BY <1>1 DEF Inv, Shape
  <1>3. Publishing' /\ Pushed'
    BY <1>0 DEF Inv, Publishing, Pushed, PublishedIsVerified, NoPublish
  <1> QED
    BY <1>0, <1>2, <1>3, PublishKeeps DEF NoPublish, Inv, Shape

\* The steps that only go on to the next one.
LEMMA ProceedKeeps ==
  ASSUME Inv, Confirm \/ PassGate \/ AddTemporary
  PROVE  Inv'
  <1>0. /\ UNCHANGED <<commits, source, start, task, remote, agreed>>
        /\ publish.step # "none"
        /\ \/ publish' = [publish EXCEPT !.step = "confirmed"]
           \/ publish' = [publish EXCEPT !.step = "checked"]
           \/ publish' = [publish EXCEPT !.step = "added"] /\ remote.branch = <<>>
    BY DEF Confirm, PassGate, AddTemporary, Proceed, Still
  <1>1. /\ DOMAIN publish' = DOMAIN publish
        /\ publish'.step \in {"confirmed", "checked", "added"}
        /\ publish'.step = "added" => remote.branch = <<>>
        /\ publish'.shown = publish.shown /\ publish'.staged = publish.staged
    BY <1>0 DEF Inv, Shape
  <1>2. worktree' = worktree \/ worktree' = [worktree EXCEPT !.temporary = TRUE]
    BY DEF Confirm, PassGate, AddTemporary, Still
  <1>3. /\ DOMAIN worktree' = DOMAIN worktree /\ worktree'.user = worktree.user
        /\ worktree'.agent = worktree.agent
    BY <1>2 DEF Inv, Shape
  <1>4. Publishing' /\ Pushed'
    BY <1>0, <1>1 DEF Inv, Publishing, Pushed, PublishedIsVerified
  <1> QED
    BY <1>0, <1>1, <1>3, <1>4, PublishKeeps

\* The patch on the commit the task was started from is the verified tree.
LEMMA ApplyPatchKeeps == ASSUME Inv, ApplyPatch PROVE Inv'
  <1>0. /\ UNCHANGED <<commits, source, start, task, worktree, remote, agreed>>
        /\ publish.step = "added"
    BY DEF ApplyPatch, Still
  <1>1. /\ DOMAIN publish' = DOMAIN publish /\ publish'.step = "applied"
        /\ publish'.shown = publish.shown
        /\ publish'.staged = <<commits[task.base], Overlay(task.patch, Unedited)>>
    BY DEF ApplyPatch, Inv, Shape
  <1>2. task.verified # <<>> /\ task.patch \in Agent
    BY <1>0 DEF Inv, Publishing, Verified
  <1>3. Overlay(task.patch, Unedited) = task.patch
    <2>1. \A f \in Files : Overlay(task.patch, Unedited)[f] = task.patch[f]
      BY <1>2 DEF Overlay, Unedited, Agent
    <2> QED
      BY <1>2, <2>1 DEF Overlay, Agent
  <1>4. Publishing' /\ Pushed'
    BY <1>0, <1>1, <1>2, <1>3 DEF Inv, Publishing, Pushed, PublishedIsVerified
  <1> QED
    BY <1>0, <1>1, <1>4, PublishKeeps

LEMMA MakeBranchKeeps == ASSUME Inv, MakeBranch PROVE Inv'
  <1>0. /\ UNCHANGED <<commits, source, start, task, worktree, agreed>>
        /\ publish.step = "applied"
        /\ publish' = [publish EXCEPT !.step = "committed"]
        /\ remote' = [remote EXCEPT !.local = TRUE]
    BY DEF MakeBranch, Proceed
  <1>1. /\ DOMAIN publish' = DOMAIN publish /\ publish'.step = "committed"
        /\ publish'.shown = publish.shown /\ publish'.staged = publish.staged
        /\ DOMAIN remote' = DOMAIN remote /\ remote'.branch = remote.branch
        /\ remote'.requests = remote.requests
    BY <1>0 DEF Inv, Shape
  <1>2. Publishing' /\ Pushed'
    BY <1>0, <1>1 DEF Inv, Publishing, Pushed, PublishedIsVerified
  <1> QED
    BY <1>0, <1>1, <1>2, PublishKeeps

LEMMA PushKeeps == ASSUME Inv, Push PROVE Inv'
  <1>0. /\ UNCHANGED <<commits, source, start, task, worktree>>
        /\ publish.step = "committed" /\ agreed' = publish.shown
        /\ publish' = [publish EXCEPT !.step = "pushed"]
        /\ remote' = [remote EXCEPT !.branch = publish.staged]
    BY DEF Push, Proceed
  <1>1. /\ DOMAIN publish' = DOMAIN publish /\ publish'.step = "pushed"
        /\ publish'.shown = publish.shown
        /\ DOMAIN remote' = DOMAIN remote /\ remote'.branch = publish.staged
        /\ remote'.requests = remote.requests
    BY <1>0 DEF Inv, Shape
  <1>2. /\ publish.staged = <<commits[task.base], task.patch>>
        /\ publish.shown = <<task.patch, task.verified>>
        /\ task.verified = <<worktree.user, task.patch>>
        /\ worktree.user = commits[task.base] /\ task.state # "none"
    BY <1>0 DEF Inv, Publishing, Verified, Snapped
  <1>3. remote'.branch = agreed'[2] /\ remote'.branch[1] = commits[task.base]
    BY <1>0, <1>1, <1>2
  <1>4. remote'.branch # <<>> /\ remote.requests = 0
    BY <1>0, <1>1, <1>2 DEF Inv, Pushed
  <1>5. Publishing' /\ Pushed'
    BY <1>0, <1>1, <1>2, <1>3, <1>4 DEF Inv, Publishing, Pushed, PublishedIsVerified
  <1> QED
    BY <1>0, <1>1, <1>5, PublishKeeps

LEMMA CreateRequestKeeps == ASSUME Inv, CreateRequest PROVE Inv'
  <1>0. /\ UNCHANGED <<commits, source, start, task, agreed>>
        /\ publish.step = "pushed" /\ publish' = NoPublish
    BY DEF CreateRequest
  <1>1. /\ DOMAIN remote' = DOMAIN remote /\ remote'.branch = remote.branch
    BY DEF CreateRequest, Inv, Shape
  <1>2. worktree' = worktree \/ worktree' = [worktree EXCEPT !.temporary = FALSE]
    BY DEF CreateRequest, Cleaned
  <1>3. /\ DOMAIN worktree' = DOMAIN worktree /\ worktree'.user = worktree.user
        /\ worktree'.agent = worktree.agent
    BY <1>2 DEF Inv, Shape
  <1>4. Publishing' /\ Pushed'
    BY <1>0, <1>1 DEF Inv, Publishing, Pushed, PublishedIsVerified, NoPublish
  <1> QED
    BY <1>0, <1>1, <1>3, <1>4, PublishKeeps DEF NoPublish, Inv, Shape

LEMMA DeleteBranchKeeps == ASSUME Inv, DeleteBranch PROVE Inv'
  <1>0. UNCHANGED <<commits, source, start, worktree, task, publish, agreed>>
    BY DEF DeleteBranch
  <1>1. /\ DOMAIN remote' = DOMAIN remote /\ remote'.branch = remote.branch
        /\ remote'.requests = remote.requests
    BY DEF DeleteBranch, Inv, Shape
  <1>2. Publishing' /\ Pushed'
    BY <1>0, <1>1 DEF Inv, Publishing, Pushed, PublishedIsVerified
  <1> QED
    BY <1>0, <1>1, <1>2, PublishKeeps

-------------------------------------------------------------------------------

LEMMA StepKeepsInv ==
  ASSUME "race" \notin Faults, Inv, [Next]_vars
  PROVE  Inv'
  <1>1. CASE Next
    BY <1>1, WorkKeeps, OutsideEditKeeps, AgentEditKeeps, CommitKeeps, RestoreKeeps,
       ReadRepoKeeps, HashSourceKeeps, AddWorktreeKeeps, CopyTrackedKeeps,
       CopyUntrackedKeeps, CreateTaskKeeps, StartFailsKeeps, VerifyKeeps, ApplyKeeps,
       CrashKeeps, SessionKeeps, BeginsKeeps, EndsKeeps, ProceedKeeps,
       ApplyPatchKeeps, MakeBranchKeeps, PushKeeps, CreateRequestKeeps,
       DeleteBranchKeeps
       DEF Next
  <1>2. CASE UNCHANGED vars
    <2>1. UNCHANGED <<commits, source, start, worktree, task, publish, remote, agreed>>
      BY <1>2 DEF vars
    <2>2. Publishing' /\ Pushed'
      BY <2>1 DEF Inv, Publishing, Pushed, PublishedIsVerified
    <2> QED
      BY <2>1, <2>2, PublishKeeps
  <1> QED
    BY <1>1, <1>2

\* Only Push changes the branch, and only CreateRequest the requests.
LEMMA StepPublishesOnce ==
  ASSUME Inv, [Next]_vars
  PROVE  /\ remote.branch # <<>> => remote'.branch = remote.branch
         /\ remote'.requests # remote.requests
                => remote.requests = 0 /\ remote'.branch # <<>>
  <1> USE DEF Inv, Shape
  <1>1. CASE MakeBranch \/ DeleteBranch
    BY <1>1 DEF MakeBranch, DeleteBranch
  <1>2. CASE Push
    <2>1. remote.branch = <<>> /\ remote' = [remote EXCEPT !.branch = publish.staged]
      BY <1>2 DEF Push, Proceed, Pushed
    <2> QED
      BY <2>1
  <1>3. CASE CreateRequest
    <2>1. remote.branch # <<>> /\ remote.requests = 0
      BY <1>3 DEF CreateRequest, Pushed
    <2>2. remote'.branch = remote.branch
      BY <1>3 DEF CreateRequest
    <2> QED
      BY <2>1, <2>2
  <1>4. CASE UNCHANGED remote
    BY <1>4
  <1>5. UNCHANGED remote \/ MakeBranch \/ DeleteBranch \/ Push \/ CreateRequest
    BY DEF Next, vars, Work, OutsideEdit, AgentEdit, Commit, Restore, ReadRepo,
           HashSource, AddWorktree, CopyTracked, CopyUntracked, CreateTask,
           StartFails, Verify, Apply, Crash, EndSession, Resume, PublishBegins,
           PublishCancelled, Confirm, PassGate, AddTemporary, ApplyPatch,
           PublishFails, Still
  <1> QED
    BY <1>1, <1>2, <1>3, <1>4, <1>5

\* The invariant the theorems below rest on.
THEOREM SpecKeepsInv == ASSUME "race" \notin Faults PROVE Spec => []Inv
  <1>1. Init => Inv
    BY InitInv
  <1>2. Inv /\ [Next]_vars => Inv'
    BY StepKeepsInv
  <1> QED
    BY <1>1, <1>2, PTL DEF Spec

(* createTaskWorktreeSnapshot copies what the user had at one moment,      *)
(* however he works on meanwhile.                                          *)
THEOREM SnapshotIsFaithful ==
  ASSUME "race" \notin Faults
  PROVE  Spec => []SnapshotIsSource
  <1>1. Inv => SnapshotIsSource
    BY DEF Inv, Snapped, SnapshotIsSource
  <1> QED
    BY <1>1, SpecKeepsInv, PTL

(* publishTask pushes what was verified and what the user was shown, and   *)
(* nothing of his that he did not commit.                                  *)
THEOREM PublishesWhatWasVerified ==
  ASSUME "race" \notin Faults
  PROVE  Spec => []PublishedIsVerified
  <1>1. Inv => PublishedIsVerified
    BY DEF Inv, Pushed
  <1> QED
    BY <1>1, SpecKeepsInv, PTL

(* However often a publish is tried again, a branch is pushed at most once *)
(* and at most one pull request is made, for that branch.                  *)
THEOREM PublishesOnce ==
  ASSUME "race" \notin Faults
  PROVE  Spec => PublishedOnce
  <1>1. Inv /\ [Next]_vars =>
          [/\ remote.branch # <<>> => remote'.branch = remote.branch
           /\ remote'.requests # remote.requests
                  => remote.requests = 0 /\ remote'.branch # <<>>]_vars
    BY StepPublishesOnce
  <1> QED
    BY <1>1, SpecKeepsInv, PTL DEF Spec, PublishedOnce

-------------------------------------------------------------------------------
(* The types the arguments above do not need.                              *)

PublishSteps ==
    {"none", "shown", "confirmed", "checked", "added", "applied", "committed", "pushed"}

Types ==
    /\ source.agent \in Agent
    /\ worktree.exists \in BOOLEAN /\ worktree.temporary \in BOOLEAN
    /\ worktree.orphans \in BOOLEAN
    /\ task.up \in BOOLEAN
    /\ task.state \in {"none", "active", "ready_to_apply", "applied"}
    /\ task.patch \in Agent \cup {Nothing}
    /\ task.state \in {"ready_to_apply", "applied"} => task.patch \in Agent
    /\ publish.step \in PublishSteps
    /\ remote.requests \in Nat /\ remote.local \in BOOLEAN

LEMMA InitTypes == Init => Types
  BY UneditedType DEF Init, Types, PublishSteps, NoWorktree, NoTask, NoPublish, NoRemote

(* What a publish is after it began, was cancelled or failed.              *)
LEMMA PublishBeginsOrEnds ==
  ASSUME PublishBegins \/ PublishCancelled \/ PublishFails
  PROVE  publish' = NoPublish \/ publish'.step = "shown"
  <1>1. CASE PublishBegins
    BY <1>1 DEF PublishBegins, NoPublish
  <1>2. CASE PublishCancelled
    BY <1>2 DEF PublishCancelled
  <1>3. CASE PublishFails
    BY <1>3 DEF PublishFails
  <1> QED
    BY <1>1, <1>2, <1>3

(* And the requests after one was made, or the branch deleted.             *)
LEMMA RequestsStayNatural ==
  ASSUME CreateRequest \/ DeleteBranch, Shape,
         remote.requests \in Nat, remote.local \in BOOLEAN
  PROVE  /\ remote'.requests \in Nat /\ remote'.local \in BOOLEAN
         /\ worktree' = Cleaned \/ worktree' = worktree
  <1>1. CASE CreateRequest
    <2>1. remote'.requests \in Nat /\ remote'.local \in BOOLEAN
      BY <1>1 DEF CreateRequest, Shape
    <2>2. worktree' = Cleaned \/ worktree' = worktree
      <3>1. worktree' \in {Cleaned} \cup (IF "cleanup" \in Faults THEN {worktree} ELSE {})
        BY <1>1 DEF CreateRequest
      <3> QED
        BY <3>1
    <2> QED
      BY <2>1, <2>2
  <1>2. CASE DeleteBranch
    BY <1>2 DEF DeleteBranch, Shape
  <1> QED
    BY <1>1, <1>2

LEMMA StepKeepsTypes ==
  ASSUME Inv, Types, [Next]_vars
  PROVE  Types'
  <1> USE UneditedType DEF Inv, Shape, Types, PublishSteps
  <1>1. CASE \E f \in Files : Work(f) \/ OutsideEdit(f)
    BY <1>1 DEF Work, OutsideEdit
  <1>2. CASE \E f \in Files : AgentEdit(f)
    BY <1>2 DEF AgentEdit
  <1>3. CASE Commit \/ Restore \/ ReadRepo \/ HashSource
    <2>1. UNCHANGED <<worktree, task, publish, remote>>
      BY <1>3 DEF Commit, Restore, ReadRepo, HashSource
    <2>2. source'.agent \in {source.agent, Unedited}
      BY <1>3 DEF Commit, Restore, ReadRepo, HashSource
    <2> QED
      BY <2>1, <2>2
  <1>4. CASE AddWorktree \/ CopyTracked \/ CopyUntracked
    BY <1>4 DEF AddWorktree, CopyTracked, CopyUntracked
  <1>5. CASE CreateTask \/ StartFails
    <2>1. CASE CreateTask
      BY <2>1 DEF CreateTask, NoTask
    <2>2. CASE StartFails
      BY <2>2 DEF StartFails, NoWorktree
    <2> QED
      BY <1>5, <2>1, <2>2
  <1>6. CASE Verify
    BY <1>6 DEF Verify
  <1>7. CASE Apply
    <2>1. Overlay(task.patch, source.agent) \in Agent
      BY <1>7 DEF Apply, Overlay, Agent
    <2> QED
      BY <1>7, <2>1 DEF Apply
  <1>8. CASE Crash \/ EndSession \/ Resume
    <2>1. /\ worktree'.exists \in BOOLEAN /\ worktree'.temporary \in BOOLEAN
          /\ worktree'.orphans \in BOOLEAN
      BY <1>8 DEF Crash, EndSession, Resume, NoWorktree
    <2>2. /\ task'.up \in BOOLEAN /\ task'.state = task.state
          /\ task'.patch = task.patch
      BY <1>8 DEF Crash, EndSession, Resume
    <2>3. /\ source' = source /\ remote' = remote
          /\ publish'.step \in {"none", publish.step}
      BY <1>8 DEF Crash, EndSession, Resume, NoPublish
    <2> QED
      BY <2>1, <2>2, <2>3
  <1>9. CASE PublishBegins \/ PublishCancelled \/ PublishFails
    <2>1. UNCHANGED <<source, task, remote>>
      BY <1>9 DEF PublishBegins, PublishCancelled, PublishFails, Still
    <2>2. publish'.step \in {"none", "shown"}
      BY <1>9, PublishBeginsOrEnds DEF NoPublish
    <2>3. worktree' \in {worktree, Cleaned}
      BY <1>9 DEF PublishBegins, PublishCancelled, PublishFails, Still
    <2> QED
      BY <2>1, <2>2, <2>3 DEF Cleaned, NoPublish
  <1>10. CASE Confirm \/ PassGate \/ AddTemporary \/ ApplyPatch
    BY <1>10 DEF Confirm, PassGate, AddTemporary, ApplyPatch, Proceed, Still
  <1>11. CASE MakeBranch \/ Push
    BY <1>11 DEF MakeBranch, Push, Proceed
  <1>12. CASE CreateRequest \/ DeleteBranch
    <2>1. UNCHANGED <<source, task>>
      BY <1>12 DEF CreateRequest, DeleteBranch
    <2>2. publish' = NoPublish \/ publish' = publish
      <3>1. CASE CreateRequest
        BY <3>1 DEF CreateRequest
      <3>2. CASE DeleteBranch
        BY <3>2 DEF DeleteBranch
      <3> QED
        BY <1>12, <3>1, <3>2
    <2>3. /\ remote'.requests \in Nat /\ remote'.local \in BOOLEAN
          /\ worktree' = Cleaned \/ worktree' = worktree
      BY <1>12, RequestsStayNatural
    <2>4. publish'.step \in PublishSteps
      BY <2>2 DEF NoPublish
    <2>5. /\ worktree'.exists \in BOOLEAN /\ worktree'.temporary \in BOOLEAN
          /\ worktree'.orphans \in BOOLEAN
      BY <2>3 DEF Cleaned
    <2> QED
      BY <2>1, <2>3, <2>4, <2>5
  <1>13. CASE UNCHANGED vars
    BY <1>13 DEF vars
  <1> QED
    BY <1>1, <1>2, <1>3, <1>4, <1>5, <1>6, <1>7, <1>8, <1>9, <1>10, <1>11, <1>12,
       <1>13 DEF Next

(* Every variable keeps its type.                                          *)
THEOREM TypeCorrectness ==
  ASSUME "race" \notin Faults
  PROVE  Spec => []TypeOK
  <1>1. Inv /\ Types /\ [Next]_vars => Types'
    BY StepKeepsTypes
  <1>2. Inv /\ Types => TypeOK
    BY DEF Inv, Shape, Types, TypeOK, PublishSteps, Copied
  <1> QED
    BY <1>1, <1>2, InitTypes, SpecKeepsInv, PTL DEF Spec
===============================================================================
