---------------------------- MODULE AppController ---------------------------
(***************************************************************************)
(* The controller that owns the Shell and its Pi child: run, switchTask,   *)
(* startActivePi, stopActivePi, close and the exit of a child, cut at      *)
(* their awaits.  run, close and every switch request are threads.         *)
(*                                                                         *)
(* A child that is stopped stays alive until it exits or is killed after   *)
(* its grace period.                                                       *)
(***************************************************************************)
EXTENDS Integers, FiniteSets

CONSTANTS
    Tasks,      \* recoverable tasks
    First,      \* the task of run
    Requests,   \* switch requests that can be under way at a time
    MaxStarts   \* bound: children started

Run == "run"
Closer == "close"

ASSUME TasksAssumption == First \in Tasks
ASSUME RequestsAssumption == Run \notin Requests /\ Closer \notin Requests
ASSUME StartsAssumption == MaxStarts \in Nat \ {0}

VARIABLES
    pc,         \* where each thread is
    own,        \* the child a thread starts or stops, 0 if none
    prev, next, \* previousTask and nextTask of each switch request
    child,      \* task and state of each child
    starts,     \* number of children started
    rpc,        \* this.rpc, 0 for null
    active,     \* this.activeTask
    switching, closed,
    completed   \* resolveCompletion was called

tasks == <<prev, next>>
pi == <<own, child, starts, rpc>>
flags == <<switching, closed, completed>>
vars == <<pc, tasks, pi, active, flags>>

Threads == Requests \cup {Run, Closer}
Children == 1 .. MaxStarts
\* "ready" has the exit handler of startActivePi; "exited" died with it.
ChildStates == {"none", "starting", "ready", "stopping", "exited", "gone"}
Alive == {n \in Children : child[n].state \in {"starting", "ready", "stopping"}}
Gone(n) == n \notin Alive

\* run starts the Shell and, before any request is read, the first child.
Init ==
    /\ pc = [t \in Threads |-> IF t = Run THEN "start" ELSE "idle"]
    /\ own = [t \in Threads |-> IF t = Run THEN 1 ELSE 0]
    /\ prev = [r \in Requests |-> First] /\ next = [r \in Requests |-> First]
    /\ child = [n \in Children |->
                  [task |-> First,
                   state |-> IF n = 1 THEN "starting" ELSE "none"]]
    /\ starts = 1 /\ rpc = 1 /\ active = First
    /\ switching = FALSE /\ closed = FALSE /\ completed = FALSE

Goto(t, place) == pc' = [pc EXCEPT ![t] = place]

\* PiRpcProcess.stop up to its await: stdin is closed, unless the child is gone.
Stopped(n) ==
    IF n \in Alive THEN [child EXCEPT ![n].state = "stopping"] ELSE child

-----------------------------------------------------------------------------
(* stopActivePi and startActivePi; whoever calls waits for Gone(own[t]).    *)

StopActivePi(t) ==
    /\ own' = [own EXCEPT ![t] = rpc]
    /\ child' = Stopped(rpc)
    /\ rpc' = 0
    /\ UNCHANGED starts

\* The Shell is gone, or there is a child already.
CannotStart == rpc # 0 \/ pc[Run] = "ended"

StartActivePi(t, task) ==
    /\ ~CannotStart
    /\ starts' = starts + 1
    /\ rpc' = starts + 1
    /\ own' = [own EXCEPT ![t] = starts + 1]
    /\ child' = [child EXCEPT ![starts + 1] = [task |-> task, state |-> "starting"]]

Started(t) ==
    /\ rpc = own[t] /\ child[own[t]].state = "starting"
    /\ child' = [child EXCEPT ![own[t]].state = "ready"]
    /\ UNCHANGED <<own, starts, rpc>>

\* The child died, could not synchronise or is not the current one any more.
StartFails(t) ==
    /\ rpc' = IF rpc = own[t] THEN 0 ELSE rpc
    /\ child' = Stopped(own[t])
    /\ UNCHANGED <<own, starts>>

-----------------------------------------------------------------------------
(* run.                                                                     *)

\* Without a child the Shell stays open and shows the error.
RunStarts ==
    /\ \/ pc[Run] = "start" /\ Started(Run) /\ Goto(Run, "wait")
       \/ pc[Run] = "start" /\ StartFails(Run) /\ Goto(Run, "undo")
       \/ pc[Run] = "undo" /\ Gone(own[Run]) /\ Goto(Run, "wait") /\ UNCHANGED pi
    /\ UNCHANGED <<tasks, active, flags>>

\* After the stop the Shell closes, finished worktrees go, the Shell is null.
RunFinishes ==
    /\ \/ pc[Run] = "wait" /\ completed /\ StopActivePi(Run) /\ Goto(Run, "leave")
       \/ pc[Run] = "leave" /\ Gone(own[Run]) /\ Goto(Run, "ended") /\ UNCHANGED pi
    /\ UNCHANGED <<tasks, active, flags>>

-----------------------------------------------------------------------------
(* switchTask.                                                              *)

\* Bound: a switch starts at most two children, and may only begin while
\* there is room for those of all switches under way.
Room == starts + 2 * Cardinality({r \in Requests : pc[r] # "idle"}) + 2 <= MaxStarts

BeginSwitch(r, task) ==
    /\ Room
    /\ pc[r] = "idle" /\ pc[Run] # "ended"
    /\ ~closed /\ ~switching /\ task # active
    /\ prev' = [prev EXCEPT ![r] = active]
    /\ next' = [next EXCEPT ![r] = task]
    /\ Goto(r, "validate")
    /\ UNCHANGED <<pi, active, flags>>

\* The target is not recoverable or not created, or the save failed.
Refuse(r) ==
    /\ pc[r] = "validate"
    /\ Goto(r, "idle")
    /\ UNCHANGED <<tasks, pi, active, flags>>

\* Mutant: the child of the previous task is left running.
StopPrevious_Detached(r) ==
    /\ pc[r] = "validate"
    /\ switching' = TRUE
    /\ rpc' = 0
    /\ own' = [own EXCEPT ![r] = 0]
    /\ Goto(r, "stop")
    /\ UNCHANGED <<tasks, child, starts, active, closed, completed>>

\* The previous task is saved: the switch is on and the child is stopped.
StopPrevious(r) ==
    /\ pc[r] = "validate"
    /\ switching' = TRUE
    /\ StopActivePi(r)
    /\ Goto(r, "stop")
    /\ UNCHANGED <<tasks, active, closed, completed>>

\* Mutant: the stop of the previous child is not awaited.
StartNext_NotAwaited(r) ==
    /\ pc[r] = "stop"
    /\ active' = next[r]
    /\ \/ StartActivePi(r, next[r]) /\ Goto(r, "start")
       \/ CannotStart /\ Goto(r, "fail") /\ UNCHANGED pi
    /\ UNCHANGED <<tasks, flags>>

\* The previous child has ended and its finished worktree is removed.
StartNext(r) ==
    /\ pc[r] = "stop" /\ Gone(own[r])
    /\ active' = next[r]
    /\ \/ StartActivePi(r, next[r]) /\ Goto(r, "start")
       \/ CannotStart /\ Goto(r, "fail") /\ UNCHANGED pi
    /\ UNCHANGED <<tasks, flags>>

NextStarted(r) ==
    /\ pc[r] = "start"
    /\ \/ Started(r) /\ Goto(r, "idle") /\ switching' = FALSE
       \/ StartFails(r) /\ Goto(r, "fail") /\ UNCHANGED switching
    /\ UNCHANGED <<tasks, active, closed, completed>>

\* Mutant: an unsuccessful switch keeps the new task as the active one.
SwitchFails_KeepsNext(r) ==
    /\ pc[r] = "fail" /\ Gone(own[r])
    /\ \/ StartActivePi(r, prev[r]) /\ Goto(r, "restart") /\ UNCHANGED switching
       \/ CannotStart /\ Goto(r, "idle") /\ switching' = FALSE /\ UNCHANGED pi
    /\ UNCHANGED <<tasks, active, closed, completed>>

\* The previous task is active again, and its child is started if none is.
SwitchFails(r) ==
    /\ pc[r] = "fail" /\ Gone(own[r])
    /\ active' = prev[r]
    /\ \/ StartActivePi(r, prev[r]) /\ Goto(r, "restart") /\ UNCHANGED switching
       \/ CannotStart /\ Goto(r, "idle") /\ switching' = FALSE /\ UNCHANGED pi
    /\ UNCHANGED <<tasks, closed, completed>>

\* Mutant: when not even the previous child starts, switching stays on.
PreviousRestarted_StaysSwitching(r) ==
    /\ \/ pc[r] = "restart" /\ Started(r) /\ Goto(r, "idle") /\ switching' = FALSE
       \/ pc[r] = "restart" /\ StartFails(r) /\ Goto(r, "giveup")
          /\ UNCHANGED switching
       \/ pc[r] = "giveup" /\ Gone(own[r]) /\ Goto(r, "idle")
          /\ UNCHANGED <<pi, switching>>
    /\ UNCHANGED <<tasks, active, closed, completed>>

PreviousRestarted(r) ==
    /\ \/ pc[r] = "restart" /\ Started(r) /\ Goto(r, "idle") /\ switching' = FALSE
       \/ pc[r] = "restart" /\ StartFails(r) /\ Goto(r, "giveup")
          /\ UNCHANGED switching
       \/ pc[r] = "giveup" /\ Gone(own[r]) /\ Goto(r, "idle")
          /\ switching' = FALSE /\ UNCHANGED pi
    /\ UNCHANGED <<tasks, active, closed, completed>>

-----------------------------------------------------------------------------
(* close and the end of a child.                                            *)

\* The first call stops the child, then lets run return.
Close ==
    /\ \/ /\ ~closed /\ pc[Run] # "ended"
          /\ closed' = TRUE
          /\ StopActivePi(Closer) /\ Goto(Closer, "stop") /\ UNCHANGED completed
       \/ /\ pc[Closer] = "stop" /\ Gone(own[Closer])
          /\ completed' = TRUE
          /\ Goto(Closer, "ended") /\ UNCHANGED <<pi, closed>>
    /\ UNCHANGED <<tasks, active, switching>>

\* A child ends: by itself, when its stdin closes, or killed.
Exit(n) ==
    /\ n \in Alive
    /\ child' = [child EXCEPT ![n].state = IF @ = "ready" THEN "exited" ELSE "gone"]
    /\ UNCHANGED <<pc, tasks, own, starts, rpc, active, flags>>

\* Mutant: the exit of the current child does not let run return.
HandleExit_Unresolved(n) ==
    /\ child[n].state = "exited"
    /\ child' = [child EXCEPT ![n].state = "gone"]
    /\ rpc' = IF rpc = n THEN 0 ELSE rpc
    /\ closed' = (closed \/ (rpc = n /\ ~switching))
    /\ UNCHANGED <<pc, tasks, own, starts, active, switching, completed>>

\* waitForExit of a started child: outside a switch the controller ends.
HandleExit(n) ==
    /\ child[n].state = "exited"
    /\ child' = [child EXCEPT ![n].state = "gone"]
    /\ rpc' = IF rpc = n THEN 0 ELSE rpc
    /\ IF rpc = n /\ ~switching /\ ~closed
       THEN closed' = TRUE /\ completed' = TRUE
       ELSE UNCHANGED <<closed, completed>>
    /\ UNCHANGED <<pc, tasks, own, starts, active, switching>>

-----------------------------------------------------------------------------
Switch(r) ==
    \/ Refuse(r) \/ StopPrevious(r) \/ StartNext(r) \/ NextStarted(r)
    \/ SwitchFails(r) \/ PreviousRestarted(r)

Next ==
    \/ RunStarts \/ RunFinishes \/ Close
    \/ \E r \in Requests : Switch(r) \/ \E task \in Tasks : BeginSwitch(r, task)
    \/ \E n \in Children : Exit(n) \/ HandleExit(n)

\* Threads go on: Pi answers the first calls or ends, a stopped child exits or
\* is killed, a close under way is finished.
Fairness ==
    /\ WF_vars(RunStarts) /\ WF_vars(RunFinishes) /\ WF_vars(closed /\ Close)
    /\ \A r \in Requests : WF_vars(Switch(r))
    /\ \A n \in Children : /\ WF_vars(child[n].state = "stopping" /\ Exit(n))
                           /\ WF_vars(HandleExit(n))

Spec == Init /\ [][Next]_vars
FairSpec == Spec /\ Fairness

-----------------------------------------------------------------------------
(* Properties.                                                              *)

\* The types of the variables; run only returns once the controller is closed.
TypeOK ==
    /\ pc \in [Threads -> {"idle", "validate", "stop", "start", "undo", "fail",
                           "restart", "giveup", "wait", "leave", "ended"}]
    /\ own \in [Threads -> Nat]
    /\ prev \in [Requests -> Tasks] /\ next \in [Requests -> Tasks]
    /\ child \in [Children -> [task : Tasks, state : ChildStates]]
    /\ starts \in Nat /\ rpc \in Nat
    /\ active \in Tasks
    /\ switching \in BOOLEAN /\ closed \in BOOLEAN /\ completed \in BOOLEAN
    /\ completed => closed

\* The controller runs its Pi children one after the other: the old one has
\* ended before the new one is started (class comment of AppController).  Not
\* while the controller closes, nor while run still stops a first child that
\* did not start: a switch that comes then does not wait for these stops.
OneLivePi ==
    ~closed /\ pc[Run] # "undo" => \A m, n \in Alive : m = n

\* The child that receives what the user sends works on the active task, the
\* one the Shell shows and reads, also after a switch that was undone.
ServesActive == rpc # 0 => child[rpc].task = active

\* A child that is not the current one is being stopped or has ended, however
\* switches, closing and exits overlap: no old task goes on calling the model.
OnlyCurrentRuns == \A n \in Alive : child[n].state = "stopping" \/ n = rpc

\* A switch that was accepted comes to an end and lets the next one begin.
SwitchEnds ==
    \A r \in Requests : pc[r] = "validate" ~> pc[r] = "idle" /\ ~switching

\* Closing, and the exit of the current Pi, end run.
CloseEnds == closed ~> pc[Run] = "ended"
=============================================================================
