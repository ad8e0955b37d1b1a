---------------------------- MODULE ShellRequest ----------------------------
(***************************************************************************)
(* The Shell's lock on its one Pi process: requestState, what the browser  *)
(* is shown about it, the RPC calls in flight and Pi itself.               *)
(*                                                                         *)
(* A route handler runs up to its await of sendPiCommand in one step; what *)
(* follows the await is the step Continue.  A response and the events of   *)
(* Pi share one ordered pipe, but a promise resolved by a response runs    *)
(* only after the lines read with it, so `answered` holds calls whose      *)
(* continuation may still be overtaken by later lines.                     *)
(***************************************************************************)
EXTENDS Integers, Sequences, FiniteSets

CONSTANTS
    Routes,       \* POST routes the clients use
    MaxRequests,  \* bound: requests that take the lock
    MaxNoise,     \* bound: events of Pi between agent_start and agent_settled
    MaxLines,     \* bound: lines in the pipe from Pi when Pi writes more
    PiMayDie      \* whether the Pi process may exit by itself

ASSUME RoutesAssumption ==
    Routes \subseteq {"input", "steer", "abort", "command", "compact", "close"}
ASSUME BoundsAssumption ==
    MaxRequests \in Nat /\ MaxNoise \in Nat /\ MaxLines \in Nat
ASSUME DieAssumption == PiMayDie \in BOOLEAN

VARIABLES
    requestState,  \* "idle", "input", "command" or "aborting"
    phase,         \* status.phase, the active phases without a guard merged
    pendingError,  \* pendingTerminalError is not null
    activity,      \* activityState, "waiting" and "working" merged
    dialog,        \* the page shows an approval dialog
    turn,          \* number of requests that took the lock
    pending,       \* PiRpcProcess.pending: calls without a response
    answered,      \* calls whose continuation has not run yet
    stdin,         \* lines written to Pi and not read by it
    stdout,        \* lines written by Pi and not read by the Shell
    pi,            \* the Pi process
    noise,         \* events counted against MaxNoise
    closed         \* AppController.closed

shell == <<requestState, phase, pendingError, activity>>
rpc == <<pending, answered, stdin>>
vars == <<shell, dialog, turn, rpc, stdout, pi, noise, closed>>

Turns == 0 .. MaxRequests
\* An abort remembers the state it interrupts; steering is of the turn at hand.
Call == [kind : {"input", "steer", "command", "compact", "sync", "ui"},
         turn : Turns, previous : {"idle"}]
          \cup [kind : {"abort"}, turn : Turns,
                previous : {"input", "command"}]
Answer == [call : Call, ok : BOOLEAN]
EventType == {"agent_start", "text", "model_error", "extension_error",
              "notify_error", "tool", "ask", "agent_settled",
              "compaction_start", "compaction_end"}
Event == [type : EventType, ok : BOOLEAN]
Response == [type : {"response"}, call : Call, ok : BOOLEAN]

NewCall(kind) == [kind |-> kind, turn |-> turn, previous |-> "idle"]
Line(type, ok) == [type |-> type, ok |-> ok]

\* agent: the turn the agent loop serves, 0 when it is idle.  failed: the last
\* thing it reported in this turn is an error.  commands: turns whose fixed
\* command runs.  asking: it waits for an approval.
PiProcess == [alive : BOOLEAN, agent : Turns, failed : BOOLEAN,
              commands : SUBSET Turns, asking : BOOLEAN, compacting : BOOLEAN]

TypeOK ==
    /\ requestState \in {"idle", "input", "command", "aborting"}
    /\ phase \in {"idle", "compacting", "verify", "approval", "other"}
    /\ pendingError \in BOOLEAN
    /\ activity \in {"done", "error", "active", "approval"}
    /\ dialog \in BOOLEAN
    /\ turn \in Turns
    /\ pending \subseteq Call
    /\ answered \subseteq Answer
    /\ stdin \in Seq(Call)
    /\ stdout \in Seq(Event \cup Response)
    /\ pi \in PiProcess
    /\ noise \in 0 .. MaxNoise
    /\ closed \in BOOLEAN

Init ==
    /\ requestState = "idle" /\ phase = "idle" /\ pendingError = FALSE
    /\ activity = "done" /\ dialog = FALSE /\ turn = 0
    /\ pending = {} /\ answered = {} /\ stdin = <<>> /\ stdout = <<>>
    /\ pi = [alive |-> TRUE, agent |-> 0, failed |-> FALSE, commands |-> {},
             asking |-> FALSE, compacting |-> FALSE]
    /\ noise = 0 /\ closed = FALSE

-----------------------------------------------------------------------------
(* PiRpcProcess.                                                            *)

\* A call is registered and written; once Pi is gone the write fails.  The
\* answer to an approval dialog is written without a pending entry.
Send(call) ==
    IF pi.alive
    THEN /\ stdin' = Append(stdin, call)
         /\ pending' = IF call.kind = "ui" THEN pending ELSE pending \cup {call}
         /\ UNCHANGED answered
    ELSE /\ answered' = answered \cup {[call |-> call, ok |-> FALSE]}
         /\ UNCHANGED <<pending, stdin>>

\* Mutant: the entry of an answered call is not deleted.
ReadResponse_KeepsPending(line) ==
    /\ answered' = IF line.call \in pending
                   THEN answered \cup {[call |-> line.call, ok |-> line.ok]}
                   ELSE answered
    /\ UNCHANGED <<shell, dialog, pending, stdin>>

ReadResponse(line) ==
    /\ pending' = pending \ {line.call}
    /\ answered' = IF line.call \in pending
                   THEN answered \cup {[call |-> line.call, ok |-> line.ok]}
                   ELSE answered
    /\ UNCHANGED <<shell, dialog, stdin>>

\* Bound: one call of a kind is in flight at a time (prompts are not bounded).
Unsent(kind) == /\ \A c \in pending : c.kind # kind
                /\ \A a \in answered : a.call.kind # kind

-----------------------------------------------------------------------------
(* createShellSession.                                                      *)

\* Mutant: a final activity does not drop the lock.
PublishFinal_KeepsLock(outcome) == activity' = outcome /\ UNCHANGED requestState

\* publishActivity of a final state drops the lock, whoever calls it.
PublishFinal(outcome) == activity' = outcome /\ requestState' = "idle"
PublishActive(state) == activity' = state

\* Mutant: the lock is dropped without a word to the page.
FinishRequest_Silent(outcome) ==
    /\ outcome \in {"done", "error"}
    /\ requestState' = "idle" /\ phase' = "idle" /\ pendingError' = FALSE
    /\ UNCHANGED activity

FinishRequest(outcome) ==
    /\ PublishFinal(outcome)
    /\ phase' = "idle"
    /\ pendingError' = FALSE

SettleCommand ==
    IF requestState = "command"
    THEN FinishRequest(IF pendingError THEN "error" ELSE "done")
    ELSE UNCHANGED shell

BeginRequest(kind) ==
    /\ requestState = "idle" /\ turn < MaxRequests /\ ~closed
    /\ requestState' = kind
    /\ pendingError' = FALSE
    /\ turn' = turn + 1
    /\ PublishActive("active")
    /\ Send([kind |-> kind, turn |-> turn + 1, previous |-> "idle"])
    /\ UNCHANGED <<dialog, stdout, pi, noise, closed>>

-----------------------------------------------------------------------------
(* The POST routes.  A request that a guard turns away changes nothing.     *)

Input == "input" \in Routes /\ BeginRequest("input") /\ UNCHANGED phase

Command ==
    /\ "command" \in Routes
    /\ BeginRequest("command")
    /\ phase' \in {"verify", "other"}

Steer ==
    /\ "steer" \in Routes /\ requestState = "input" /\ ~closed
    /\ Unsent("steer")
    /\ Send(NewCall("steer"))
    /\ UNCHANGED <<shell, dialog, turn, stdout, pi, noise, closed>>

Abort ==
    /\ "abort" \in Routes /\ requestState \in {"input", "command"} /\ ~closed
    /\ Unsent("abort")
    /\ requestState' = "aborting"
    /\ PublishActive("active")
    /\ Send([NewCall("abort") EXCEPT !.previous = requestState])
    /\ UNCHANGED <<phase, pendingError, dialog, turn, stdout, pi, noise, closed>>

Compact ==
    /\ "compact" \in Routes /\ requestState = "idle" /\ ~closed
    /\ phase \notin {"compacting", "verify"}
    /\ Unsent("compact") /\ Unsent("sync")
    /\ phase' = "compacting"
    /\ PublishActive("active")
    /\ Send(NewCall("compact"))
    /\ UNCHANGED <<requestState, pendingError, dialog, turn, stdout, pi, noise,
                   closed>>

\* The user closes the approval dialog; a write that fails ends the request.
UiResponse ==
    /\ dialog /\ ~closed
    /\ dialog' = FALSE
    /\ IF pi.alive
       THEN /\ Send(NewCall("ui"))
            /\ PublishActive("active")
            /\ UNCHANGED <<requestState, phase, pendingError>>
       ELSE FinishRequest("error") /\ UNCHANGED rpc
    /\ UNCHANGED <<turn, stdout, pi, noise, closed>>

\* AppController.close: the Pi process is stopped.
Close ==
    /\ "close" \in Routes /\ ~closed
    /\ closed' = TRUE
    /\ pi' = [pi EXCEPT !.alive = FALSE]
    /\ UNCHANGED <<shell, dialog, turn, rpc, stdout, noise>>

-----------------------------------------------------------------------------
(* What follows the await of a call.                                        *)

\* Mutant: a prompt that could not be sent is not reported.
ContinueInput_Ignored(ok) == ok \in BOOLEAN /\ UNCHANGED shell

ContinueInput(ok) ==
    IF ok THEN UNCHANGED shell ELSE FinishRequest("error")

\* Mutant: the route has no catch handler.
ContinueCommand_NoCatch(ok) == IF ok THEN SettleCommand ELSE UNCHANGED shell

ContinueCommand(ok) ==
    IF ok THEN SettleCommand
    ELSE IF requestState = "command" THEN FinishRequest("error")
         ELSE UNCHANGED shell

ContinueSteer(ok) ==
    IF ok THEN /\ PublishActive("active")
               /\ UNCHANGED <<requestState, phase, pendingError>>
    ELSE UNCHANGED shell

\* Mutant: the answer to abort frees the lock, before the turn has settled.
ContinueAbort_Unlocks(ok, previous) ==
    IF ok THEN FinishRequest("done")
    ELSE /\ requestState' = previous
         /\ PublishActive("active")
         /\ UNCHANGED <<phase, pendingError>>

ContinueAbort(ok, previous) ==
    IF ok THEN UNCHANGED shell
    ELSE /\ requestState' = previous
         /\ PublishActive("active")
         /\ UNCHANGED <<phase, pendingError>>

\* compact awaits the compaction and then get_state; either may fail.
ContinueCompact(kind, ok) ==
    \/ ok /\ kind = "compact" /\ UNCHANGED shell
    \/ ok /\ kind = "sync" /\ PublishFinal("done")
          /\ UNCHANGED <<phase, pendingError>>
    \/ ~ok /\ PublishFinal("error") /\ phase' = "idle" /\ UNCHANGED pendingError

Continuation(call, ok) ==
    CASE call.kind = "input" -> ContinueInput(ok)
      [] call.kind = "command" -> ContinueCommand(ok)
      [] call.kind = "steer" -> ContinueSteer(ok)
      [] call.kind = "abort" -> ContinueAbort(ok, call.previous)
      [] OTHER -> ContinueCompact(call.kind, ok)

\* After a fixed command the task is read again: a discarded one closes Pi.
CloseAfter(call, ok) ==
    \/ UNCHANGED <<pi, closed>>
    \/ /\ ok /\ call.kind = "command" /\ "close" \in Routes
       /\ closed' = TRUE
       /\ pi' = [pi EXCEPT !.alive = FALSE]

Continue(a) ==
    /\ a \in answered
    /\ Continuation(a.call, a.ok)
    /\ CloseAfter(a.call, a.ok)
    /\ LET rest == answered \ {a}
           sync == [a.call EXCEPT !.kind = "sync"]
       IN IF a.ok /\ a.call.kind = "compact"
          THEN IF pi.alive
               THEN /\ answered' = rest
                    /\ pending' = pending \cup {sync}
                    /\ stdin' = Append(stdin, sync)
               ELSE /\ answered' = rest \cup {[call |-> sync, ok |-> FALSE]}
                    /\ UNCHANGED <<pending, stdin>>
          ELSE answered' = rest /\ UNCHANGED <<pending, stdin>>
    /\ UNCHANGED <<dialog, turn, stdout, noise>>

-----------------------------------------------------------------------------
(* reducePiEvent.                                                           *)

AgentStart ==
    /\ phase' = "other"
    /\ PublishActive("active")
    /\ UNCHANGED <<requestState, pendingError>>

\* Mutant: text does not make up for an earlier error.
Text_KeepsError == /\ PublishActive("active")
                   /\ UNCHANGED <<requestState, phase, pendingError>>

Text == /\ pendingError' = FALSE
        /\ PublishActive("active")
        /\ UNCHANGED <<requestState, phase>>

ModelError == /\ pendingError' = TRUE
              /\ PublishActive("active")
              /\ UNCHANGED <<requestState, phase>>

ExtensionError ==
    /\ pendingError' = TRUE
    /\ IF requestState = "idle" THEN UNCHANGED activity
                                ELSE PublishActive("active")
    /\ UNCHANGED <<requestState, phase>>

NotifyError == IF requestState = "idle" THEN UNCHANGED shell ELSE ExtensionError

Tool == /\ phase' \in {"verify", "other"}
        /\ PublishActive("active")
        /\ UNCHANGED <<requestState, pendingError>>

Ask == /\ phase' = "approval"
       /\ PublishActive("approval")
       /\ UNCHANGED <<requestState, pendingError>>

\* Mutant: a settled turn that is being stopped is left alone.
AgentSettled_NotAborting ==
    IF requestState \in {"idle", "aborting"}
    THEN phase' = "idle" /\ UNCHANGED <<requestState, pendingError, activity>>
    ELSE FinishRequest(IF pendingError THEN "error" ELSE "done")

AgentSettled ==
    CASE requestState = "idle" ->
            phase' = "idle" /\ UNCHANGED <<requestState, pendingError, activity>>
      [] requestState = "aborting" -> FinishRequest("done")
      [] OTHER -> FinishRequest(IF pendingError THEN "error" ELSE "done")

CompactionStart == /\ phase' = "compacting"
                   /\ PublishActive("active")
                   /\ UNCHANGED <<requestState, pendingError>>

CompactionEnd(ok) ==
    IF requestState = "idle"
    THEN /\ phase' = "idle"
         /\ PublishFinal(IF ok THEN "done" ELSE "error")
         /\ UNCHANGED pendingError
    ELSE /\ phase' = "compacting"
         /\ pendingError' = (pendingError \/ ~ok)
         /\ PublishActive("active")
         /\ UNCHANGED requestState

HandleEvent(line) ==
    /\ CASE line.type = "agent_start" -> AgentStart
         [] line.type = "text" -> Text
         [] line.type = "model_error" -> ModelError
         [] line.type = "extension_error" -> ExtensionError
         [] line.type = "notify_error" -> NotifyError
         [] line.type = "tool" -> Tool
         [] line.type = "ask" -> Ask
         [] line.type = "agent_settled" -> AgentSettled
         [] line.type = "compaction_start" -> CompactionStart
         [] OTHER -> CompactionEnd(line.ok)
    /\ dialog' = (dialog \/ line.type = "ask")
    /\ UNCHANGED rpc

\* PiRpcProcess.handleLine; once closed, the controller drops the events.
ReadLine ==
    /\ stdout # <<>>
    /\ LET line == Head(stdout)
       IN CASE line.type = "response" -> ReadResponse(line)
            [] line.type # "response" /\ closed -> UNCHANGED <<shell, dialog, rpc>>
            [] OTHER -> HandleEvent(line)
    /\ stdout' = Tail(stdout)
    /\ UNCHANGED <<turn, pi, noise, closed>>

-----------------------------------------------------------------------------
(* The Pi process.                                                          *)

Write(lines) == Len(stdout) + Len(lines) <= MaxLines /\ stdout' = stdout \o lines
Reply(call, ok) == [type |-> "response", call |-> call, ok |-> ok]

StartAgent(call) ==
    /\ pi' = [pi EXCEPT !.agent = call.turn, !.failed = FALSE]
    /\ Write(<<Reply(call, TRUE), Line("agent_start", TRUE)>>)

Refuse(call) == Write(<<Reply(call, FALSE)>>) /\ UNCHANGED pi

\* A prompt is accepted by an idle agent, a steering prompt by any; an idle
\* agent takes it as a prompt.  Pi may refuse any call but an abort.
ServePrompt(call) ==
    \/ pi.agent = 0 /\ StartAgent(call)
    \/ /\ pi.agent # 0 /\ call.kind = "steer"
       /\ Write(<<Reply(call, TRUE)>>) /\ UNCHANGED pi
    \/ Refuse(call)

\* No dialog of the extension takes the abort signal: it stays open.
ServeAbort(call) == Write(<<Reply(call, TRUE)>>) /\ UNCHANGED pi

ServeCompact(call) ==
    \/ /\ pi.agent = 0 /\ ~pi.compacting
       /\ pi' = [pi EXCEPT !.compacting = TRUE]
       /\ Write(<<Line("compaction_start", TRUE)>>)
    \/ Refuse(call)

Serve(call) ==
    CASE call.kind \in {"input", "steer"} -> ServePrompt(call)
      [] call.kind = "command" ->
            /\ pi' = [pi EXCEPT !.commands = @ \cup {call.turn}]
            /\ UNCHANGED stdout
      [] call.kind = "abort" -> ServeAbort(call)
      [] call.kind = "compact" -> ServeCompact(call)
      [] call.kind = "ui" -> pi' = [pi EXCEPT !.asking = FALSE]
                             /\ UNCHANGED stdout
      [] OTHER -> Write(<<Reply(call, TRUE)>>) /\ UNCHANGED pi

PiReads ==
    /\ pi.alive /\ stdin # <<>>
    /\ Serve(Head(stdin))
    /\ stdin' = Tail(stdin)
    /\ UNCHANGED <<shell, dialog, turn, pending, answered, noise, closed>>

\* An event of a running turn or command; text makes up for an error.
PiReports(type) ==
    /\ pi.alive /\ ~pi.asking /\ noise < MaxNoise
    /\ IF type \in {"text", "model_error", "tool"} THEN pi.agent # 0
       ELSE pi.agent # 0 \/ pi.commands # {}
    /\ pi' = [pi EXCEPT
                !.failed = CASE type = "text" -> FALSE
                             [] type \in {"tool", "ask"} -> @
                             [] OTHER -> TRUE,
                !.asking = (type = "ask")]
    /\ Write(<<Line(type, TRUE)>>)
    /\ noise' = noise + 1
    /\ UNCHANGED <<shell, dialog, turn, rpc, closed>>

PiSettles ==
    /\ pi.alive /\ pi.agent # 0 /\ ~pi.asking
    /\ pi' = [pi EXCEPT !.agent = 0]
    /\ Write(<<Line("agent_settled", ~pi.failed)>>)
    /\ UNCHANGED <<shell, dialog, turn, rpc, noise, closed>>

\* An extension command answers when its handler returns, and settles no turn.
PiEndsCommand ==
    /\ pi.alive /\ ~pi.asking
    /\ \E call \in pending, ok \in BOOLEAN :
         /\ call.kind = "command" /\ call.turn \in pi.commands
         /\ pi' = [pi EXCEPT !.commands = @ \ {call.turn}]
         /\ Write(<<Reply(call, ok)>>)
    /\ UNCHANGED <<shell, dialog, turn, rpc, noise, closed>>

PiEndsCompaction ==
    /\ pi.alive /\ pi.compacting
    /\ \E call \in pending, ok \in BOOLEAN :
         /\ call.kind = "compact"
         /\ pi' = [pi EXCEPT !.compacting = FALSE]
         /\ Write(<<Line("compaction_end", ok), Reply(call, ok)>>)
    /\ UNCHANGED <<shell, dialog, turn, rpc, noise, closed>>

PiDies ==
    /\ PiMayDie /\ pi.alive
    /\ pi' = [pi EXCEPT !.alive = FALSE]
    /\ UNCHANGED <<shell, dialog, turn, rpc, stdout, noise, closed>>

\* The "close" event of the child: what is pending fails, and the controller
\* closes with it.
ChildClosed ==
    /\ ~pi.alive /\ stdout = <<>>
    /\ pending # {} \/ ~closed
    /\ answered' = answered \cup {[call |-> c, ok |-> FALSE] : c \in pending}
    /\ pending' = {} /\ stdin' = <<>>
    /\ closed' = TRUE
    /\ UNCHANGED <<shell, dialog, turn, stdout, pi, noise>>

-----------------------------------------------------------------------------
Client == Input \/ Command \/ Steer \/ Abort \/ Compact \/ Close
PiWorks == \E type \in {"text", "model_error", "extension_error",
                        "notify_error", "tool", "ask"} : PiReports(type)
Next ==
    \/ Client \/ UiResponse \/ (\E a \in answered : Continue(a)) \/ ReadLine
    \/ PiReads \/ PiWorks \/ PiSettles \/ PiEndsCommand \/ PiEndsCompaction
    \/ PiDies \/ ChildClosed

\* Lines are read and every continuation runs; Pi reads, its turns, commands and
\* compactions end; a user who is asked answers.  No client has to send.
Fairness ==
    /\ \A a \in Answer : WF_vars(Continue(a))
    /\ WF_vars(ReadLine) /\ WF_vars(PiReads)
    /\ WF_vars(PiSettles) /\ WF_vars(PiEndsCommand)
    /\ WF_vars(PiEndsCompaction) /\ WF_vars(UiResponse) /\ WF_vars(ChildClosed)

Spec == Init /\ [][Next]_vars
FairSpec == Spec /\ Fairness

-----------------------------------------------------------------------------
(* Properties.                                                              *)

\* While the lock is held the page is shown a running request, the only state
\* in which it offers to stop or to steer: dropping the lock and showing a
\* final activity go together on every path.
LockedIsShownBusy ==
    requestState # "idle" => activity \in {"active", "approval"}

\* requestState is what tells whether Pi is occupied by a request
\* (ARCHITECTURE.md, requests): it is not idle while the agent loop or a
\* fixed command of the Shell runs or a prompt is on its way.  (A Pi that has
\* died is not occupied: the controller closes.)
LockCoversPi ==
    requestState # "idle" \/ ~pi.alive
    \/ /\ pi.agent = 0 /\ pi.commands = {}
       /\ \A i \in DOMAIN stdin : stdin[i].kind \notin {"input", "command"}

\* Nothing runs, is on its way or waits for its continuation.
Quiet ==
    /\ pi.alive /\ pi.agent = 0 /\ pi.commands = {} /\ ~pi.compacting
    /\ stdin = <<>> /\ stdout = <<>> /\ pending = {} /\ answered = {}

\* Once Pi is quiet and the lock is free, the page shows a final activity: a
\* page that still shows a busy one sends what the user types to /api/steer,
\* which refuses it ("agent_settled, then the Shell unlocks the input",
\* ARCHITECTURE.md).
IdleIsShown == Quiet /\ requestState = "idle" => activity \in {"done", "error"}

\* A promise of an RPC call is settled once: a call that has its answer is
\* not pending, and has one answer.
AnsweredOnce ==
    \A a \in answered :
        /\ a.call \notin pending
        /\ \A b \in answered : a.call = b.call => a = b

\* A turn that ends unaborted is reported as an error exactly when the last
\* thing Pi reported in it was one.
OutcomeIsTruthful ==
    [][\A ok \in BOOLEAN :
          /\ stdout # <<>> /\ stdout' = Tail(stdout) /\ ~closed
          /\ Head(stdout) = Line("agent_settled", ok)
          /\ requestState = "input"
          => activity' = IF ok THEN "done" ELSE "error"]_vars

\* The lock taken by an input is dropped again, also when it is aborted.
InputUnlocks == requestState = "input" ~> requestState = "idle" \/ closed

\* A lock taken by an input does not stay with it, whatever else the clients
\* send in the meantime.
InputLeaves == requestState = "input" ~> requestState # "input" \/ closed

\* A fixed command that nobody aborts drops its lock.
CommandLeaves == requestState = "command" ~> requestState # "command" \/ closed

\* The lock taken by a fixed command is dropped again, also when it is
\* aborted (ARCHITECTURE.md: "input / command -> aborting -> idle").
CommandUnlocks == requestState = "command" ~> requestState = "idle" \/ closed
=============================================================================
