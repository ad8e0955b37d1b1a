------------------------- MODULE AppControllerProofs ------------------------
(***************************************************************************)
(* For any number of tasks and of children: every child but the current    *)
(* one is being stopped or has ended, also while switches overlap; and     *)
(* with one switch request at a time there is one live child and it works  *)
(* on the active task.                                                     *)
(***************************************************************************)
EXTENDS AppController, FiniteSetTheorems, TLAPS

\* The part of the types that the argument needs.
Types ==
    /\ child \in [Children -> [task : Tasks, state : ChildStates]]
    /\ own \in [Threads -> Nat] /\ next \in [Requests -> Tasks]
    /\ prev \in [Requests -> Tasks] /\ active \in Tasks
    /\ rpc \in Nat /\ starts \in Nat

Inv == Types /\ OnlyCurrentRuns

LEMMA InitInv == Init => Inv
  BY TasksAssumption, StartsAssumption
     DEF Init, Inv, Types, OnlyCurrentRuns, Alive, Threads, Children,
         ChildStates, Run, Closer

\* Stopping a child leaves the others as they are.
LEMMA StoppedChild ==
  ASSUME Types, NEW n \in Nat
  PROVE  /\ Stopped(n) \in [Children -> [task : Tasks, state : ChildStates]]
         /\ \A m \in Children : m # n => Stopped(n)[m] = child[m]
         /\ n \in Children => Stopped(n)[n].state \notin {"starting", "ready"}
  BY DEF Types, Stopped, Alive, ChildStates

LEMMA StopKeeps ==
  ASSUME Inv, NEW t \in Threads, StopActivePi(t), UNCHANGED <<tasks, active>>
  PROVE  Inv'
  <1>1. Types'
    BY StoppedChild DEF Inv, Types, StopActivePi, tasks
  <1>2. OnlyCurrentRuns'
    <2> SUFFICES ASSUME NEW n \in Children, child'[n].state \in {"starting", "ready"}
                 PROVE  FALSE
      BY DEF OnlyCurrentRuns, Alive
    <2>1. child' = Stopped(rpc) /\ rpc \in Nat /\ Types
      BY DEF Inv, Types, StopActivePi
    <2>2. n # rpc
      BY <2>1, StoppedChild
    <2>3. child[n].state \in {"starting", "ready"}
      BY <2>1, <2>2, StoppedChild
    <2> QED
      BY <2>2, <2>3 DEF Inv, OnlyCurrentRuns, Alive
  <1> QED
    BY <1>1, <1>2 DEF Inv

LEMMA StartKeeps ==
  ASSUME Inv, NEW t \in Threads, NEW task \in Tasks, StartActivePi(t, task),
         UNCHANGED tasks, active' \in Tasks
  PROVE  Inv'
  <1>0. Types /\ starts + 1 \in Nat
    BY DEF Inv, Types
  <1>a. child' \in [Children -> [task : Tasks, state : ChildStates]]
    BY <1>0 DEF Types, StartActivePi, ChildStates
  <1>b. own' \in [Threads -> Nat]
    BY <1>0 DEF Types, StartActivePi
  <1>1. Types'
    BY <1>0, <1>a, <1>b DEF Types, StartActivePi, tasks
  <1>2. OnlyCurrentRuns'
    <2> SUFFICES ASSUME NEW n \in Children, n # rpc',
                        child'[n].state \in {"starting", "ready"}
                 PROVE  FALSE
      BY DEF OnlyCurrentRuns, Alive
    <2>1. rpc = 0 /\ child'[n] = child[n]
      BY DEF StartActivePi, CannotStart, Inv, Types
    <2>2. n # 0
      BY StartsAssumption DEF Children
    <2> QED
      BY <2>1, <2>2 DEF Inv, OnlyCurrentRuns, Alive
  <1> QED
    BY <1>1, <1>2 DEF Inv

LEMMA StartedKeeps ==
  ASSUME Inv, NEW t \in Threads, Started(t), UNCHANGED <<tasks, active>>
  PROVE  Inv'
  <1>1. Types'
    BY DEF Inv, Types, Started, tasks, ChildStates
  <1>2. OnlyCurrentRuns'
    BY DEF Inv, Types, Started, OnlyCurrentRuns, Alive
  <1> QED
    BY <1>1, <1>2 DEF Inv

LEMMA StartFailsKeeps ==
  ASSUME Inv, NEW t \in Threads, StartFails(t), UNCHANGED <<tasks, active>>
  PROVE  Inv'
  <1>0. own[t] \in Nat /\ Types
    BY DEF Inv, Types
  <1>1. Types'
    BY <1>0, StoppedChild DEF Types, StartFails, tasks
  <1>2. OnlyCurrentRuns'
    <2> SUFFICES ASSUME NEW n \in Children, n # rpc',
                        child'[n].state \in {"starting", "ready"}
                 PROVE  FALSE
      BY DEF OnlyCurrentRuns, Alive
    <2>1. n # own[t]
      BY <1>0, StoppedChild DEF StartFails
    <2>2. child[n].state \in {"starting", "ready"}
      BY <1>0, <2>1, StoppedChild DEF StartFails
    <2>3. n # rpc
      BY <2>1 DEF StartFails
    <2> QED
      BY <2>2, <2>3 DEF Inv, OnlyCurrentRuns, Alive
  <1> QED
    BY <1>1, <1>2 DEF Inv

LEMMA SameKeeps ==
  ASSUME Inv, UNCHANGED <<child, rpc, own, starts>>,
         next' \in [Requests -> Tasks], prev' \in [Requests -> Tasks],
         active' \in Tasks
  PROVE  Inv'
  BY DEF Inv, Types, OnlyCurrentRuns, Alive

LEMMA NextInv ==
  ASSUME Inv, [Next]_vars
  PROVE  Inv'
  <1> USE DEF Threads
  <1>t. Types
    BY DEF Inv
  <1>1. CASE RunStarts
    BY <1>1, <1>t, StartedKeeps, StartFailsKeeps, SameKeeps
       DEF RunStarts, tasks, pi, Types
  <1>2. CASE RunFinishes
    BY <1>2, <1>t, StopKeeps, SameKeeps DEF RunFinishes, tasks, pi, Types
  <1>3. CASE Close
    BY <1>3, <1>t, StopKeeps, SameKeeps DEF Close, tasks, pi, Types
  <1>4. ASSUME NEW r \in Requests, NEW task \in Tasks, BeginSwitch(r, task)
        PROVE  Inv'
    BY <1>4, <1>t, SameKeeps DEF BeginSwitch, pi, Types
  <1>5. ASSUME NEW r \in Requests, Switch(r)
        PROVE  Inv'
    <2>1. CASE Refuse(r)
      BY <2>1, <1>t, SameKeeps DEF Refuse, tasks, pi, Types
    <2>2. CASE StopPrevious(r)
      BY <2>2, <1>t, StopKeeps DEF StopPrevious, tasks
    <2>3. CASE StartNext(r)
      <3>1. next[r] \in Tasks
        BY <1>t DEF Types
      <3> QED
        BY <2>3, <3>1, <1>t, StartKeeps, SameKeeps DEF StartNext, tasks, pi, Types
    <2>4. CASE NextStarted(r)
      BY <2>4, <1>t, StartedKeeps, StartFailsKeeps DEF NextStarted, tasks
    <2>5. CASE SwitchFails(r)
      <3>1. prev[r] \in Tasks
        BY <1>t DEF Types
      <3> QED
        BY <2>5, <3>1, <1>t, StartKeeps, SameKeeps DEF SwitchFails, tasks, pi, Types
    <2>6. CASE PreviousRestarted(r)
      BY <2>6, <1>t, StartedKeeps, StartFailsKeeps, SameKeeps
         DEF PreviousRestarted, tasks, pi, Types
    <2> QED
      BY <1>5, <2>1, <2>2, <2>3, <2>4, <2>5, <2>6 DEF Switch
  <1>6. ASSUME NEW n \in Children, Exit(n)
        PROVE  Inv'
    <2>1. Types'
      BY <1>6, <1>t DEF Exit, Types, tasks, ChildStates
    <2>2. OnlyCurrentRuns'
      BY <1>6, <1>t DEF Exit, Types, Inv, OnlyCurrentRuns, Alive
    <2> QED
      BY <2>1, <2>2 DEF Inv
  <1>7. ASSUME NEW n \in Children, HandleExit(n)
        PROVE  Inv'
    <2>1. Types'
      BY <1>7, <1>t DEF HandleExit, Types, tasks, ChildStates
    <2>2. OnlyCurrentRuns'
      BY <1>7, <1>t DEF HandleExit, Types, Inv, OnlyCurrentRuns, Alive
    <2> QED
      BY <2>1, <2>2 DEF Inv
  <1>8. CASE UNCHANGED vars
    BY <1>8, <1>t, SameKeeps DEF vars, tasks, pi, Types
  <1> QED
    BY <1>1, <1>2, <1>3, <1>4, <1>5, <1>6, <1>7, <1>8 DEF Next

\* Whatever overlaps, only the current child is not being stopped: a child of an
\* old task never goes on working in the background.
THEOREM OldChildrenStop == Spec => []OnlyCurrentRuns
  <1>1. Inv => OnlyCurrentRuns
    BY DEF Inv
  <1> QED
    BY InitInv, NextInv, <1>1, PTL DEF Spec

-----------------------------------------------------------------------------
\* The rest of the types.
Places ==
    /\ pc \in [Threads -> {"idle", "validate", "stop", "start", "undo", "fail",
                           "restart", "giveup", "wait", "leave", "ended"}]
    /\ switching \in BOOLEAN /\ closed \in BOOLEAN /\ completed \in BOOLEAN
    /\ completed => closed

\* closed is only set; what leaves it unset leaves completed unset.
LEMMA CloseKeepsPlaces ==
  ASSUME Places, Close \/ \E n \in Children : Exit(n) \/ HandleExit(n),
         pc[Closer] = "stop" => closed
  PROVE  Places'
  <1>1. CASE Close
    BY <1>1 DEF Places, Close, Goto, Threads
  <1>2. ASSUME NEW n \in Children, Exit(n) \/ HandleExit(n)
        PROVE  Places'
    BY <1>2 DEF Places, Exit, HandleExit, flags
  <1> QED
    BY <1>1, <1>2

LEMMA SwitchKeepsPlaces ==
  ASSUME Places, NEW r \in Requests,
         Switch(r) \/ \E task \in Tasks : BeginSwitch(r, task)
  PROVE  Places' /\ closed' = closed /\ pc'[Closer] = pc[Closer]
  <1> USE RequestsAssumption DEF Places, Goto, Threads, flags
  <1>1. CASE \E task \in Tasks : BeginSwitch(r, task)
    BY <1>1 DEF BeginSwitch
  <1>2. CASE Refuse(r)
    BY <1>2 DEF Refuse
  <1>3. CASE StopPrevious(r)
    BY <1>3 DEF StopPrevious
  <1>4. CASE StartNext(r)
    BY <1>4 DEF StartNext
  <1>5. CASE NextStarted(r)
    BY <1>5 DEF NextStarted
  <1>6. CASE SwitchFails(r)
    BY <1>6 DEF SwitchFails
  <1>7. CASE PreviousRestarted(r)
    BY <1>7 DEF PreviousRestarted
  <1> QED
    BY <1>1, <1>2, <1>3, <1>4, <1>5, <1>6, <1>7 DEF Switch

\* The closer only waits once the controller is closed.
CloserInv == pc[Closer] = "stop" => closed

LEMMA NextPlaces ==
  ASSUME Places, CloserInv, [Next]_vars
  PROVE  Places' /\ CloserInv'
  <1>1. CASE RunStarts \/ RunFinishes
    BY <1>1 DEF Places, CloserInv, RunStarts, RunFinishes, Goto, Threads, flags,
                Run, Closer
  <1>2. CASE Close
    <2>1. Places'
      BY <1>2, CloseKeepsPlaces DEF CloserInv
    <2>2. CloserInv'
      BY <1>2 DEF Places, CloserInv, Close, Goto, Threads
    <2> QED
      BY <2>1, <2>2
  <1>3. ASSUME NEW r \in Requests,
               Switch(r) \/ \E task \in Tasks : BeginSwitch(r, task)
        PROVE  Places' /\ CloserInv'
    BY <1>3, SwitchKeepsPlaces DEF CloserInv
  <1>4. CASE \E n \in Children : Exit(n) \/ HandleExit(n)
    <2>1. Places'
      BY <1>4, CloseKeepsPlaces DEF CloserInv
    <2>2. pc' = pc /\ (closed => closed')
      BY <1>4 DEF Exit, HandleExit, flags
    <2> QED
      BY <2>1, <2>2 DEF CloserInv
  <1>5. CASE UNCHANGED vars
    BY <1>5 DEF vars, flags, Places, CloserInv
  <1> QED
    BY <1>1, <1>2, <1>3, <1>4, <1>5 DEF Next

LEMMA InitPlaces == Init => Places /\ CloserInv
  <1> SUFFICES ASSUME Init PROVE Places /\ CloserInv
    OBVIOUS
  <1>1. pc = [t \in Threads |-> IF t = Run THEN "start" ELSE "idle"]
    BY DEF Init
  <1>2. Closer \in Threads /\ Closer # Run
    BY DEF Threads, Run, Closer
  <1>3. \A t \in Threads : pc[t] \in {"start", "idle"}
    BY <1>1
  <1>4. CloserInv
    BY <1>1, <1>2 DEF CloserInv
  <1> QED
    BY <1>1, <1>3, <1>4 DEF Init, Places

\* Every variable keeps its type, and run is only let go once the controller
\* is closed.
THEOREM ControllerTypes == Spec => []TypeOK
  <1>1. Inv /\ Places => TypeOK
    BY DEF Inv, Types, Places, TypeOK
  <1> QED
    BY InitInv, NextInv, InitPlaces, NextPlaces, <1>1, PTL DEF Spec

-----------------------------------------------------------------------------
(* One switch request at a time.  OneLivePi and ServesActive need to know  *)
(* which child a thread that waits has stopped, that no start happens      *)
(* before that child is gone, and that there is room for every start.      *)

Halted == {"stop", "fail", "giveup"}
Starting == {"start", "restart"}

SwitchInv(r) ==
    /\ \A t \in Threads : own[t] <= starts
    /\ rpc <= starts /\ starts <= MaxStarts
    /\ pc[r] \in {"validate", "stop"} => starts + 2 <= MaxStarts
    /\ pc[r] \in {"start", "fail"} => starts + 1 <= MaxStarts
    /\ pc[r] \in Halted => rpc = 0
    /\ pc[r] \in Starting => own[r] # 0 /\ (rpc = 0 \/ rpc = own[r])
    /\ pc[r] \in Starting /\ pc[Run] \in {"start", "undo"}
          => own[r] # own[Run]
    /\ pc[Run] \in {"leave", "ended"} => completed
    /\ ServesActive

\* Until the controller closes, a live child is the current one or one that a
\* thread waits for.
LiveInv(r) ==
    ~closed =>
       /\ \A n \in Alive : \/ n = rpc
                           \/ pc[r] \in Halted /\ n = own[r]
                           \/ pc[Run] = "undo" /\ n = own[Run]
       /\ pc[r] \in Starting =>
             /\ rpc = own[r]
             /\ child[own[r]].state \in {"starting", "gone"}

OneSwitch(r) == SwitchInv(r) /\ LiveInv(r)

LEMMA OneRequest ==
  ASSUME NEW r, Requests = {r}, Places
  PROVE  /\ r \in Threads /\ Run \in Threads /\ Closer \in Threads
         /\ r # Run /\ r # Closer /\ Run # Closer
         /\ \A t \in Threads : t = r \/ t = Run \/ t = Closer
         /\ pc[r] = "idle" =>
               Cardinality({q \in Requests : pc[q] # "idle"}) = 0
  <1>1. pc[r] = "idle" => {q \in Requests : pc[q] # "idle"} = {}
    OBVIOUS
  <1> QED
    BY <1>1, FS_EmptySet, RequestsAssumption DEF Threads, Run, Closer

\* What the four ways to change a child leave of the others.
LEMMA StopLeaves ==
  ASSUME Types, NEW n \in Nat, child' = Stopped(n)
  PROVE  /\ Alive' = Alive
         /\ \A m \in Children : child'[m].task = child[m].task
         /\ \A m \in Children : m # n => child'[m] = child[m]
  BY DEF Types, Stopped, Alive

LEMMA StartedLeaves ==
  ASSUME Types, NEW t, Started(t)
  PROVE  /\ Alive' = Alive
         /\ \A m \in Children : child'[m].task = child[m].task
  BY DEF Types, Started, Alive

LEMMA ChildStarts ==
  ASSUME Types, NEW t \in Threads, NEW task \in Tasks, StartActivePi(t, task),
         starts + 1 <= MaxStarts
  PROVE  /\ starts + 1 \in Children
         /\ Alive' = Alive \cup {starts + 1}
         /\ \A m \in Children : m # starts + 1 => child'[m] = child[m]
         /\ child'[starts + 1] = [task |-> task, state |-> "starting"]
         /\ own' = [own EXCEPT ![t] = starts + 1] /\ own'[t] = starts + 1
         /\ rpc = 0 /\ rpc' = starts + 1 /\ starts' = starts + 1
  BY StartsAssumption DEF Types, StartActivePi, Alive, CannotStart, Children

LEMMA ExitLeaves ==
  ASSUME Types, NEW n \in Children, Exit(n) \/ HandleExit(n)
  PROVE  /\ Alive' \subseteq Alive
         /\ \A m \in Children : child'[m].task = child[m].task
         /\ \A m \in Children : m # n => child'[m] = child[m]
  <1>1. CASE Exit(n)
    BY <1>1 DEF Types, Exit, Alive
  <1>2. CASE HandleExit(n)
    BY <1>2 DEF Types, HandleExit, Alive
  <1> QED
    BY <1>1, <1>2

\* ServesActive is kept while the active task, the current child and the tasks
\* of the children stay.
LEMMA KeepsServing ==
  ASSUME Types, ServesActive, rpc <= starts, starts <= MaxStarts,
         \A m \in Children : child'[m].task = child[m].task,
         active' = active, rpc' = 0 \/ rpc' = rpc
  PROVE  ServesActive'
  BY StartsAssumption DEF Types, ServesActive, Children

LEMMA RunStartsOne ==
  ASSUME Types, Places, NEW r, Requests = {r}, OneSwitch(r), RunStarts
  PROVE  OneSwitch(r)'
  <1> USE OneRequest DEF OneSwitch
  <1>1. pc'[r] = pc[r] /\ UNCHANGED <<starts, own, active, closed, completed>>
    BY DEF RunStarts, Started, StartFails, Places, Goto, pi, flags
  <1>2. own[r] \in Nat /\ own[Run] \in Nat /\ rpc \in Nat /\ starts \in Nat
    BY DEF Types
  <1>3. CASE pc[Run] = "start" /\ Started(Run) /\ Goto(Run, "wait")
    <2>1. pc'[Run] = "wait" /\ rpc' = rpc
      BY <1>3 DEF Started, Places, Goto
    <2>2. ServesActive'
      BY <1>1, <1>3, <2>1, StartedLeaves, KeepsServing DEF SwitchInv
    <2>3. SwitchInv(r)'
      BY <1>1, <1>3, <2>1, <2>2 DEF SwitchInv
    <2>4. closed \/ pc[r] \notin Starting
      BY <1>3 DEF Started, SwitchInv, LiveInv
    <2>5. LiveInv(r)'
      BY <1>1, <1>3, <2>1, <2>4, StartedLeaves DEF LiveInv
    <2> QED
      BY <2>3, <2>5
  <1>4. CASE pc[Run] = "start" /\ StartFails(Run) /\ Goto(Run, "undo")
    <2>1. /\ pc'[Run] = "undo" /\ child' = Stopped(own[Run])
          /\ rpc' = IF rpc = own[Run] THEN 0 ELSE rpc
      BY <1>4 DEF StartFails, Places, Goto
    <2>2. ServesActive'
      BY <1>1, <1>2, <2>1, StopLeaves, KeepsServing DEF SwitchInv
    <2>3. SwitchInv(r)'
      BY <1>1, <1>2, <1>4, <2>1, <2>2, StartsAssumption DEF SwitchInv
    <2>4. ASSUME ~closed, pc[r] \in Starting
          PROVE  rpc' = own[r] /\ child'[own[r]] = child[own[r]]
      <3>1. own[r] # own[Run] /\ rpc = own[r] /\ own[r] \in Children
        BY <1>2, <1>4, <2>4, StartsAssumption
           DEF SwitchInv, LiveInv, Children, Types
      <3> QED
        BY <1>2, <2>1, <3>1, StopLeaves
    <2>5. Alive' = Alive
      BY <1>2, <2>1, StopLeaves
    <2>6. LiveInv(r)'
      BY <1>1, <1>4, <2>1, <2>4, <2>5 DEF LiveInv
    <2> QED
      BY <2>3, <2>6
  <1>5. CASE /\ pc[Run] = "undo" /\ Gone(own[Run]) /\ Goto(Run, "wait")
             /\ UNCHANGED pi
    <2>1. pc'[Run] = "wait" /\ child' = child /\ rpc' = rpc
      BY <1>5 DEF Places, Goto, pi
    <2>2. SwitchInv(r)'
      BY <1>1, <2>1 DEF SwitchInv, ServesActive
    <2>3. LiveInv(r)'
      BY <1>1, <1>5, <2>1 DEF LiveInv, Gone, Alive
    <2> QED
      BY <2>2, <2>3
  <1> QED
    BY <1>3, <1>4, <1>5 DEF RunStarts

LEMMA RunFinishesOne ==
  ASSUME Types, Places, NEW r, Requests = {r}, OneSwitch(r), RunFinishes
  PROVE  OneSwitch(r)'
  <1> USE OneRequest DEF OneSwitch
  <1>1. /\ pc'[r] = pc[r] /\ pc'[Run] \in {"leave", "ended"}
        /\ pc[Run] \in {"wait", "leave"}
        /\ UNCHANGED <<starts, active, closed, completed>>
        /\ own'[r] = own[r]
    BY DEF RunFinishes, StopActivePi, Places, Types, Goto, pi, flags
  <1>2. completed /\ closed
    BY DEF RunFinishes, SwitchInv, Places
  <1>3. CASE pc[Run] = "wait" /\ StopActivePi(Run)
    <2>1. rpc' = 0 /\ child' = Stopped(rpc)
      BY <1>3 DEF StopActivePi
    <2>2. ServesActive'
      BY <2>1 DEF ServesActive
    <2>3. \A t \in Threads : own'[t] <= starts
      BY <1>3 DEF StopActivePi, Types, SwitchInv
    <2> QED
      BY <1>1, <1>2, <2>1, <2>2, <2>3, StartsAssumption
         DEF SwitchInv, LiveInv, Types
  <1>4. CASE pc[Run] = "leave" /\ UNCHANGED pi
    BY <1>1, <1>2, <1>4 DEF SwitchInv, LiveInv, ServesActive, pi
  <1> QED
    BY <1>3, <1>4 DEF RunFinishes

LEMMA CloseOne ==
  ASSUME Types, Places, CloserInv, NEW r, Requests = {r}, OneSwitch(r), Close
  PROVE  OneSwitch(r)'
  <1> USE OneRequest DEF OneSwitch
  <1>1. /\ pc'[r] = pc[r] /\ pc'[Run] = pc[Run]
        /\ own'[r] = own[r] /\ own'[Run] = own[Run]
        /\ UNCHANGED <<starts, active>>
        /\ closed'
    BY DEF Close, StopActivePi, Places, CloserInv, Types, Goto, pi
  <1>2. CASE StopActivePi(Closer) /\ UNCHANGED completed
    <2>1. rpc' = 0
      BY <1>2 DEF StopActivePi
    <2>2. \A t \in Threads : own'[t] <= starts
      BY <1>2 DEF StopActivePi, Types, SwitchInv
    <2> QED
      BY <1>1, <1>2, <2>1, <2>2, StartsAssumption
         DEF SwitchInv, LiveInv, ServesActive, Types
  <1>3. CASE UNCHANGED pi /\ completed' = TRUE
    BY <1>1, <1>3 DEF SwitchInv, LiveInv, ServesActive, pi
  <1> QED
    BY <1>2, <1>3 DEF Close

LEMMA ExitOne ==
  ASSUME Types, Places, NEW r, Requests = {r}, OneSwitch(r),
         NEW n \in Children, Exit(n) \/ HandleExit(n)
  PROVE  OneSwitch(r)'
  <1> USE OneRequest DEF OneSwitch
  <1>1. /\ UNCHANGED <<pc, own, starts, active>>
        /\ rpc' = 0 \/ rpc' = rpc
        /\ completed => completed'
    BY DEF Exit, HandleExit, flags
  <1>2. ServesActive'
    BY <1>1, ExitLeaves, KeepsServing DEF SwitchInv
  <1>3. SwitchInv(r)'
    BY <1>1, <1>2, StartsAssumption DEF SwitchInv, Types
  <1>4. ASSUME ~closed' PROVE ~closed
    BY <1>4 DEF Exit, HandleExit, flags
  <1>5. ASSUME ~closed, rpc' # rpc PROVE rpc \notin Alive
    BY <1>5 DEF Exit, HandleExit, Alive
  <1>6. ASSUME ~closed, pc[r] \in Starting
        PROVE  rpc' = own[r] /\ child'[own[r]].state \in {"starting", "gone"}
    <2>1. own[r] \in Children /\ rpc = own[r]
          /\ child[own[r]].state \in {"starting", "gone"}
      BY <1>6, StartsAssumption DEF SwitchInv, LiveInv, Children, Types
    <2>2. CASE Exit(n)
      BY <2>1, <2>2 DEF Exit, Types, Alive
    <2>3. CASE HandleExit(n)
      BY <2>1, <2>3 DEF HandleExit, Types
    <2> QED
      BY <2>2, <2>3
  <1>7. LiveInv(r)'
    BY <1>1, <1>4, <1>5, <1>6, ExitLeaves DEF LiveInv
  <1> QED
    BY <1>3, <1>7

LEMMA BeginSwitchOne ==
  ASSUME Types, Places, NEW r, Requests = {r}, OneSwitch(r),
         NEW task \in Tasks, BeginSwitch(r, task)
  PROVE  OneSwitch(r)'
  <1> USE OneRequest DEF OneSwitch
  <1>1. /\ pc'[r] = "validate" /\ pc'[Run] = pc[Run]
        /\ UNCHANGED <<own, child, starts, rpc, active, closed, completed>>
    BY DEF BeginSwitch, Places, Goto, pi, flags
  <1>2. starts + 2 <= MaxStarts
    BY DEF BeginSwitch, Room, Types
  <1>3. Alive' = Alive
    BY <1>1 DEF Alive
  <1>4. SwitchInv(r)'
    BY <1>1, <1>2 DEF SwitchInv, ServesActive, Halted, Starting
  <1>5. LiveInv(r)'
    BY <1>1, <1>3 DEF BeginSwitch, LiveInv, Halted, Starting
  <1> QED
    BY <1>4, <1>5

LEMMA StopPreviousOne ==
  ASSUME Types, Places, NEW r, Requests = {r}, OneSwitch(r), StopPrevious(r)
  PROVE  OneSwitch(r)'
  <1> USE OneRequest DEF OneSwitch
  <1>1. /\ pc[r] = "validate" /\ pc'[r] = "stop" /\ pc'[Run] = pc[Run]
        /\ own' = [own EXCEPT ![r] = rpc] /\ rpc' = 0 /\ child' = Stopped(rpc)
        /\ UNCHANGED <<starts, active, closed, completed>>
    BY DEF StopPrevious, StopActivePi, Places, Goto
  <1>2. own'[r] = rpc /\ own'[Run] = own[Run]
        /\ rpc \in Nat /\ starts \in Nat
    BY <1>1 DEF Types
  <1>3. \A t \in Threads : own'[t] <= starts
    BY <1>1 DEF Types, SwitchInv
  <1>4. Alive' = Alive
    BY <1>1, <1>2, StopLeaves
  <1>5. SwitchInv(r)'
    BY <1>1, <1>2, <1>3 DEF SwitchInv, ServesActive, Halted, Starting
  <1>6. LiveInv(r)'
    BY <1>1, <1>2, <1>4 DEF LiveInv, Halted, Starting
  <1> QED
    BY <1>5, <1>6

\* A start of request r, of the next or of the previous task.
LEMMA StartsOne ==
  ASSUME Types, Places, NEW r, Requests = {r}, OneSwitch(r),
         pc[r] \in Halted, Gone(own[r]), starts + 1 <= MaxStarts,
         NEW task \in Tasks, active' = task, StartActivePi(r, task),
         pc'[r] \in Starting, pc'[Run] = pc[Run],
         pc'[r] = "start" => starts + 2 <= MaxStarts,
         closed' = closed, completed' = completed
  PROVE  OneSwitch(r)'
  <1> USE OneRequest DEF OneSwitch
  <1>1. /\ starts + 1 \in Children
        /\ Alive' = Alive \cup {starts + 1}
        /\ child'[starts + 1].task = active'
        /\ child'[starts + 1].state = "starting"
        /\ own' = [own EXCEPT ![r] = starts + 1] /\ own'[r] = starts + 1
        /\ rpc = 0 /\ rpc' = starts + 1 /\ starts' = starts + 1
    <2>1. r \in Threads
      OBVIOUS
    <2>2. child'[starts + 1] = [task |-> task, state |-> "starting"]
      BY <2>1, ChildStarts
    <2>3. Alive' = Alive \cup {starts + 1} /\ starts + 1 \in Children
      BY <2>1, ChildStarts
    <2>4. /\ own' = [own EXCEPT ![r] = starts + 1] /\ own'[r] = starts + 1
          /\ rpc = 0 /\ rpc' = starts + 1 /\ starts' = starts + 1
      BY <2>1, ChildStarts
    <2> QED
      BY <2>2, <2>3, <2>4
  <1>2. starts \in Nat /\ own'[Run] = own[Run] /\ own[Run] \in Nat
    BY <1>1 DEF Types
  <1>3. \A t \in Threads : own'[t] <= starts'
    BY <1>1 DEF SwitchInv, Types
  <1>4. own'[r] # own'[Run]
    <2>1. own[Run] <= starts
      BY DEF SwitchInv
    <2> QED
      BY <1>1, <1>2, <2>1
  <1>5. SwitchInv(r)'
    BY <1>1, <1>2, <1>3, <1>4 DEF SwitchInv, ServesActive, Halted, Starting
  <1>6. ASSUME ~closed, NEW n \in Alive
        PROVE  pc[Run] = "undo" /\ n = own[Run]
    BY <1>1, <1>6, StartsAssumption DEF LiveInv, Gone, Alive, Children
  <1>7. LiveInv(r)'
    BY <1>1, <1>2, <1>6 DEF LiveInv, Halted, Starting
  <1> QED
    BY <1>5, <1>7

\* Request r cannot start a child: run has ended.
LEMMA CannotStartOne ==
  ASSUME Types, Places, NEW r, Requests = {r}, OneSwitch(r),
         pc[r] \in Halted, CannotStart, UNCHANGED pi,
         pc'[r] \in {"idle", "fail"}, pc'[Run] = pc[Run],
         pc'[r] = "fail" => starts + 1 <= MaxStarts,
         closed' = closed, completed' = completed
  PROVE  OneSwitch(r)'
  BY DEF OneSwitch, SwitchInv, LiveInv, ServesActive, Places, CannotStart,
         Halted, Starting, pi

\* The child that request r started is ready, or is given up and stopped.
LEMMA StartedOne ==
  ASSUME Types, Places, NEW r, Requests = {r}, OneSwitch(r),
         pc[r] \in Starting, Started(r), UNCHANGED active,
         pc'[r] = "idle", pc'[Run] = pc[Run],
         closed' = closed, completed' = completed
  PROVE  OneSwitch(r)'
  <1> USE OneRequest DEF OneSwitch
  <1>1. Alive' = Alive /\ UNCHANGED <<own, starts, rpc>>
    BY StartedLeaves DEF Started
  <1>2. ServesActive'
    BY <1>1, StartedLeaves, KeepsServing DEF SwitchInv
  <1>3. SwitchInv(r)'
    BY <1>1, <1>2 DEF SwitchInv, Halted, Starting
  <1>4. LiveInv(r)'
    BY <1>1 DEF LiveInv, Halted, Starting
  <1> QED
    BY <1>3, <1>4

LEMMA StartFailsOne ==
  ASSUME Types, Places, NEW r, Requests = {r}, OneSwitch(r),
         pc[r] \in Starting, StartFails(r), UNCHANGED active,
         pc'[r] \in {"fail", "giveup"}, pc'[Run] = pc[Run],
         pc'[r] = "fail" => starts + 1 <= MaxStarts,
         closed' = closed, completed' = completed
  PROVE  OneSwitch(r)'
  <1> USE OneRequest DEF OneSwitch
  <1>1. /\ own[r] \in Nat /\ starts \in Nat /\ rpc \in Nat
        /\ child' = Stopped(own[r])
        /\ rpc' = 0 /\ UNCHANGED <<own, starts>>
    BY DEF Types, StartFails, SwitchInv
  <1>2. Alive' = Alive
    BY <1>1, StopLeaves
  <1>3. SwitchInv(r)'
    BY <1>1, StartsAssumption DEF SwitchInv, ServesActive, Halted, Starting
  <1>4. LiveInv(r)'
    BY <1>1, <1>2 DEF LiveInv, Halted, Starting
  <1> QED
    BY <1>3, <1>4

LEMMA SwitchOne ==
  ASSUME Types, Places, NEW r, Requests = {r}, OneSwitch(r), Switch(r)
  PROVE  OneSwitch(r)'
  <1> USE OneRequest DEF Goto, flags
  <1>0. next[r] \in Tasks /\ prev[r] \in Tasks
    BY DEF Types
  <1>1. CASE Refuse(r)
    <2>1. /\ pc'[r] = "idle" /\ pc'[Run] = pc[Run] /\ Alive' = Alive
          /\ UNCHANGED <<pi, active, closed, completed>>
      BY <1>1 DEF Refuse, Places, pi, Alive
    <2> QED
      BY <1>1, <2>1 DEF Refuse, OneSwitch, SwitchInv, LiveInv, ServesActive,
                        Halted, Starting, pi
  <1>2. CASE StopPrevious(r)
    BY <1>2, StopPreviousOne
  <1>3. CASE StartNext(r)
    <2>0. starts \in Nat /\ MaxStarts \in Nat /\ starts + 2 <= MaxStarts
      BY <1>3, StartsAssumption DEF StartNext, OneSwitch, SwitchInv, Types
    <2>a. starts + 1 <= MaxStarts
      BY <2>0
    <2>b. pc[r] \in Halted /\ Gone(own[r]) /\ active' = next[r]
      BY <1>3 DEF StartNext, Halted
    <2>c. closed' = closed /\ completed' = completed
      BY <1>3 DEF StartNext
    <2>d. pc'[Run] = pc[Run]
      BY <1>3 DEF StartNext, Places
    <2>1. /\ pc[r] \in Halted /\ starts + 1 <= MaxStarts /\ Gone(own[r])
          /\ closed' = closed /\ completed' = completed
          /\ active' = next[r] /\ pc'[Run] = pc[Run]
      BY <2>a, <2>b, <2>c, <2>d
    <2>2. CASE StartActivePi(r, next[r]) /\ Goto(r, "start")
      <3>1. pc'[r] = "start" /\ pc'[r] \in Starting
        BY <2>2 DEF Starting, Places
      <3> QED
        BY <1>0, <2>0, <2>1, <2>2, <3>1, StartsOne
    <2>3. CASE CannotStart /\ Goto(r, "fail") /\ UNCHANGED pi
      BY <2>1, <2>3, CannotStartOne DEF Places
    <2> QED
      BY <1>3, <2>2, <2>3 DEF StartNext
  <1>4. CASE NextStarted(r)
    <2>1. /\ pc[r] \in Starting /\ starts + 1 <= MaxStarts /\ active' = active
          /\ closed' = closed /\ completed' = completed /\ pc'[Run] = pc[Run]
      BY <1>4 DEF NextStarted, OneSwitch, SwitchInv, Starting, Places
    <2> QED
      BY <1>4, <2>1, StartedOne, StartFailsOne DEF NextStarted, Places
  <1>5. CASE SwitchFails(r)
    <2>1. /\ pc[r] \in Halted /\ starts + 1 <= MaxStarts /\ Gone(own[r])
          /\ closed' = closed /\ completed' = completed
          /\ active' = prev[r] /\ pc'[Run] = pc[Run]
      BY <1>5 DEF SwitchFails, OneSwitch, SwitchInv, Halted, Places
    <2>2. CASE StartActivePi(r, prev[r]) /\ Goto(r, "restart")
      <3>1. pc'[r] = "restart" /\ pc'[r] \in Starting
        BY <2>2 DEF Starting, Places
      <3> QED
        BY <1>0, <2>1, <2>2, <3>1, StartsOne
    <2>3. CASE CannotStart /\ Goto(r, "idle") /\ UNCHANGED pi
      BY <2>1, <2>3, CannotStartOne DEF Places
    <2> QED
      BY <1>5, <2>2, <2>3 DEF SwitchFails
  <1>6. CASE PreviousRestarted(r)
    <2>1. /\ active' = active /\ closed' = closed /\ completed' = completed
          /\ pc'[Run] = pc[Run]
      BY <1>6 DEF PreviousRestarted, Places
    <2>2. CASE pc[r] = "restart"
      BY <1>6, <2>1, <2>2, StartedOne, StartFailsOne
         DEF PreviousRestarted, Places, Starting
    <2>3. CASE pc[r] = "giveup" /\ Gone(own[r]) /\ Goto(r, "idle") /\ UNCHANGED pi
      <3>1. pc'[r] = "idle" /\ Alive' = Alive
        BY <2>3 DEF Places, Alive, pi
      <3> QED
        BY <2>1, <2>3, <3>1 DEF OneSwitch, SwitchInv, LiveInv, ServesActive,
                                Halted, Starting, Gone, pi
    <2> QED
      BY <1>6, <2>2, <2>3 DEF PreviousRestarted
  <1> QED
    BY <1>1, <1>2, <1>3, <1>4, <1>5, <1>6 DEF Switch

LEMMA NextOne ==
  ASSUME Types, Places, CloserInv, NEW r, Requests = {r}, OneSwitch(r),
         [Next]_vars
  PROVE  OneSwitch(r)'
  <1>1. CASE RunStarts
    BY <1>1, RunStartsOne
  <1>2. CASE RunFinishes
    BY <1>2, RunFinishesOne
  <1>3. CASE Close
    BY <1>3, CloseOne
  <1>4. ASSUME NEW task \in Tasks, BeginSwitch(r, task)
        PROVE  OneSwitch(r)'
    BY <1>4, BeginSwitchOne
  <1>5. CASE Switch(r)
    BY <1>5, SwitchOne
  <1>6. ASSUME NEW n \in Children, Exit(n) \/ HandleExit(n)
        PROVE  OneSwitch(r)'
    BY <1>6, ExitOne
  <1>7. CASE UNCHANGED vars
    BY <1>7 DEF vars, tasks, pi, flags, OneSwitch, SwitchInv, LiveInv,
                ServesActive, Alive
  <1> QED
    BY <1>1, <1>2, <1>3, <1>4, <1>5, <1>6, <1>7 DEF Next

LEMMA InitOne ==
  ASSUME NEW r, Requests = {r}, Init
  PROVE  OneSwitch(r)
  <1>1. /\ r # Run /\ Run \in Threads /\ r \in Threads
        /\ \A t \in Threads : own[t] \in {0, 1}
        /\ pc[r] = "idle" /\ pc[Run] = "start" /\ starts = 1 /\ rpc = 1
        /\ 1 \in Children /\ child[1].task = First /\ active = First
    BY RequestsAssumption, StartsAssumption DEF Init, Threads, Run, Closer, Children
  <1>2. \A n \in Alive : n = 1
    BY DEF Init, Alive
  <1>3. SwitchInv(r)
    BY <1>1, StartsAssumption DEF SwitchInv, ServesActive, Halted, Starting
  <1>4. LiveInv(r)
    BY <1>1, <1>2 DEF LiveInv, Halted, Starting
  <1> QED
    BY <1>3, <1>4 DEF OneSwitch

\* With one switch request under way at a time, whatever closes, exits and
\* fails meanwhile, a child is only started once the one before has ended.
THEOREM OneChildLives ==
  ASSUME NEW r, Requests = {r}
  PROVE  Spec => []OneLivePi
  <1>1. Types /\ Places /\ OneSwitch(r) => OneLivePi
    BY DEF OneSwitch, SwitchInv, LiveInv, OneLivePi, Halted, Types, Alive,
           Children
  <1> QED
    BY InitInv, NextInv, InitPlaces, NextPlaces, InitOne, NextOne, <1>1, PTL
       DEF Spec, Inv

\* With one switch request under way at a time, the current child works on the
\* active task: also after a switch that failed and was undone.
THEOREM ActiveIsServed ==
  ASSUME NEW r, Requests = {r}
  PROVE  Spec => []ServesActive
  <1>1. OneSwitch(r) => ServesActive
    BY DEF OneSwitch, SwitchInv
  <1> QED
    BY InitInv, NextInv, InitPlaces, NextPlaces, InitOne, NextOne, <1>1, PTL
       DEF Spec, Inv
=============================================================================
