------------------------- MODULE ShellRequestProofs -------------------------
(***************************************************************************)
(* Theorems about ShellRequest for every choice of routes and bounds.      *)
(***************************************************************************)
EXTENDS ShellRequest, TLAPS

Lines == Event \cup Response

LEMMA TurnsAreInts == Turns \subseteq Int /\ 0 \in Turns
  BY BoundsAssumption DEF Turns

LEMMA NewCallType ==
    ASSUME turn \in Turns,
           NEW kind \in {"steer", "compact", "sync", "ui"}
    PROVE  NewCall(kind) \in Call
  BY DEF NewCall, Call

LEMMA ReplyType ==
    ASSUME NEW call \in Call, NEW ok \in BOOLEAN
    PROVE  Reply(call, ok) \in Lines
  BY DEF Reply, Lines, Response

LEMMA LineType ==
    ASSUME NEW type \in EventType, NEW ok \in BOOLEAN
    PROVE  Line(type, ok) \in Lines
  BY DEF Line, Lines, Event

LEMMA ShortSeq ==
    ASSUME NEW S
    PROVE  \A a, b \in S : <<a>> \in Seq(S) /\ <<a, b>> \in Seq(S)
  OBVIOUS

LEMMA SendType ==
    ASSUME TypeOK, NEW call \in Call, Send(call)
    PROVE  /\ pending' \subseteq Call /\ answered' \subseteq Answer
           /\ stdin' \in Seq(Call)
  <1>1. [call |-> call, ok |-> FALSE] \in Answer
    BY DEF Answer
  <1>2. Append(stdin, call) \in Seq(Call)
    BY DEF TypeOK
  <1> QED
    BY <1>1, <1>2 DEF Send, TypeOK

LEMMA WriteType ==
    ASSUME TypeOK, NEW lines \in Seq(Lines), Write(lines)
    PROVE  stdout' \in Seq(Lines)
  BY DEF Write, TypeOK, Lines

\* The state of the Shell proper.
ShellOK ==
    /\ requestState \in {"idle", "input", "command", "aborting"}
    /\ phase \in {"idle", "compacting", "verify", "approval", "other"}
    /\ pendingError \in BOOLEAN
    /\ activity \in {"done", "error", "active", "approval"}

RpcOK == pending \subseteq Call /\ answered \subseteq Answer /\ stdin \in Seq(Call)

LEMMA TypeParts ==
    /\ TypeOK <=> /\ ShellOK /\ RpcOK /\ stdout \in Seq(Lines)
                  /\ dialog \in BOOLEAN /\ turn \in Turns /\ pi \in PiProcess
                  /\ noise \in 0 .. MaxNoise /\ closed \in BOOLEAN
    /\ TypeOK' <=> /\ ShellOK' /\ RpcOK' /\ stdout' \in Seq(Lines)
                   /\ dialog' \in BOOLEAN /\ turn' \in Turns
                   /\ pi' \in PiProcess
                   /\ noise' \in 0 .. MaxNoise /\ closed' \in BOOLEAN
  BY DEF TypeOK, ShellOK, RpcOK, Lines

LEMMA FinishType ==
    ASSUME NEW outcome \in {"done", "error"}, FinishRequest(outcome)
    PROVE  ShellOK'
  BY DEF FinishRequest, PublishFinal, ShellOK

LEMMA ContinuationType ==
    ASSUME ShellOK, NEW a \in Answer, Continuation(a.call, a.ok)
    PROVE  ShellOK'
  <1>1. /\ a.ok \in BOOLEAN
        /\ a.call.kind = "abort" => a.call.previous \in {"input", "command"}
    BY DEF Answer, Call
  <1>2. CASE a.call.kind = "input"
    BY <1>2, FinishType DEF Continuation, ContinueInput, ShellOK, shell
  <1>3. CASE a.call.kind = "command"
    BY <1>3, FinishType DEF Continuation, ContinueCommand, SettleCommand,
       ShellOK, shell
  <1>4. CASE a.call.kind = "steer"
    BY <1>4 DEF Continuation, ContinueSteer, PublishActive, ShellOK, shell
  <1>5. CASE a.call.kind = "abort"
    BY <1>1, <1>5 DEF Continuation, ContinueAbort, PublishActive, ShellOK, shell
  <1>6. CASE a.call.kind \notin {"input", "command", "steer", "abort"}
    <2>1. ContinueCompact(a.call.kind, a.ok)
      BY <1>6 DEF Continuation
    <2> QED
      BY <2>1 DEF ContinueCompact, PublishFinal, ShellOK, shell
  <1> QED
    BY <1>2, <1>3, <1>4, <1>5, <1>6

LEMMA EventStep ==
    ASSUME ShellOK, NEW line \in Event, HandleEvent(line)
    PROVE  ShellOK'
  <1>1. line.type \in EventType /\ line.ok \in BOOLEAN
    BY DEF Event
  <1>2. CASE line.type = "agent_settled"
    BY <1>2, FinishType DEF HandleEvent, AgentSettled, ShellOK
  <1>3. CASE line.type = "compaction_end"
    BY <1>1, <1>3 DEF HandleEvent, CompactionEnd, PublishFinal, PublishActive, ShellOK
  <1>4. CASE line.type \in {"extension_error", "notify_error"}
    BY <1>4 DEF HandleEvent, ExtensionError, NotifyError, PublishActive, ShellOK, shell
  <1>5. CASE line.type \in {"agent_start", "text", "model_error", "tool",
                            "ask", "compaction_start"}
    BY <1>5 DEF HandleEvent, AgentStart, Text, ModelError, Tool, Ask,
       CompactionStart, PublishActive, ShellOK
  <1> QED
    BY <1>1, <1>2, <1>3, <1>4, <1>5 DEF EventType

LEMMA BeginType ==
    ASSUME TypeOK, NEW kind \in {"input", "command"}, BeginRequest(kind)
    PROVE  /\ RpcOK' /\ turn' \in Turns
           /\ requestState' = kind /\ pendingError' = FALSE
           /\ activity' = "active"
           /\ UNCHANGED <<dialog, stdout, pi, noise, closed>>
  <1>1. turn + 1 \in Turns
    BY BoundsAssumption DEF BeginRequest, TypeOK, Turns
  <1>2. [kind |-> kind, turn |-> turn + 1, previous |-> "idle"] \in Call
    BY <1>1 DEF Call
  <1> QED
    BY <1>1, <1>2, SendType DEF BeginRequest, PublishActive, RpcOK

\* What PiReads does to the Pi process and to its output.
LEMMA ServeType ==
    ASSUME TypeOK, NEW call \in Call, Serve(call)
    PROVE  pi' \in PiProcess /\ stdout' \in Seq(Lines)
  <1>0. pi \in PiProcess /\ stdout \in Seq(Lines) /\ call.turn \in Turns
    BY TypeParts DEF Call
  <1>a. /\ Line("agent_start", TRUE) \in Lines
        /\ Line("compaction_start", TRUE) \in Lines
    BY LineType DEF EventType
  <1>b. \A ok \in BOOLEAN : Reply(call, ok) \in Lines
    BY ReplyType
  <1>1. \A ok \in BOOLEAN : <<Reply(call, ok)>> \in Seq(Lines)
    BY <1>b, ShortSeq
  <1>2. <<Reply(call, TRUE), Line("agent_start", TRUE)>> \in Seq(Lines)
    BY <1>a, <1>b, ShortSeq
  <1>3. <<Line("compaction_start", TRUE)>> \in Seq(Lines)
    BY <1>a, ShortSeq
  <1>4. ASSUME Refuse(call) PROVE pi' \in PiProcess /\ stdout' \in Seq(Lines)
    BY <1>0, <1>1, <1>4, WriteType DEF Refuse
  <1>5. CASE call.kind \in {"input", "steer"}
    <2>1. ASSUME StartAgent(call)
          PROVE  pi' \in PiProcess /\ stdout' \in Seq(Lines)
      BY <1>0, <1>2, <2>1, WriteType DEF StartAgent, PiProcess
    <2>2. ServePrompt(call)
      BY <1>5 DEF Serve
    <2> QED
      BY <1>0, <1>1, <1>4, <2>1, <2>2, WriteType DEF ServePrompt
  <1>6. CASE call.kind = "command"
    BY <1>0, <1>6 DEF Serve, PiProcess
  <1>7. CASE call.kind = "abort"
    BY <1>0, <1>1, <1>7, WriteType DEF Serve, ServeAbort
  <1>8. CASE call.kind = "compact"
    <2>1. ServeCompact(call)
      BY <1>8 DEF Serve
    <2> QED
      BY <1>0, <1>3, <1>4, <2>1, WriteType DEF ServeCompact, PiProcess
  <1>9. CASE call.kind = "ui"
    BY <1>0, <1>9 DEF Serve, PiProcess
  <1>10. CASE call.kind = "sync"
    BY <1>0, <1>1, <1>10, WriteType DEF Serve
  <1> QED
    BY <1>5, <1>6, <1>7, <1>8, <1>9, <1>10 DEF Call

LEMMA HeadAndTail ==
    ASSUME NEW S, NEW s \in Seq(S), s # <<>>
    PROVE  Head(s) \in S /\ Tail(s) \in Seq(S)
  OBVIOUS

-----------------------------------------------------------------------------
LEMMA InitType == Init => TypeOK
  <1> SUFFICES ASSUME Init PROVE TypeOK
    OBVIOUS
  <1>1. pi \in PiProcess
    BY TurnsAreInts DEF Init, PiProcess
  <1>2. stdin \in Seq(Call) /\ stdout \in Seq(Lines)
    BY DEF Init
  <1>3. turn \in Turns /\ noise \in 0 .. MaxNoise
    BY TurnsAreInts, BoundsAssumption DEF Init
  <1>4. ShellOK /\ RpcOK
    BY <1>2 DEF Init, ShellOK, RpcOK
  <1>5. dialog \in BOOLEAN /\ closed \in BOOLEAN
    BY DEF Init
  <1> QED
    BY <1>1, <1>2, <1>3, <1>4, <1>5, TypeParts

LEMMA RoutesType ==
    ASSUME TypeOK, Client \/ UiResponse
    PROVE  TypeOK'
  <1>0. /\ ShellOK /\ RpcOK /\ stdout \in Seq(Lines) /\ dialog \in BOOLEAN
        /\ turn \in Turns /\ pi \in PiProcess /\ noise \in 0 .. MaxNoise
        /\ closed \in BOOLEAN
    BY TypeParts
  <1>1. CASE Input
    BY <1>0, <1>1, BeginType, TypeParts DEF Input, ShellOK
  <1>2. CASE Command
    BY <1>0, <1>2, BeginType, TypeParts DEF Command, ShellOK
  <1>3. CASE Steer
    <2>1. RpcOK'
      BY <1>0, <1>3, NewCallType, SendType DEF Steer, RpcOK
    <2> QED
      BY <1>0, <1>3, <2>1, TypeParts DEF Steer, ShellOK, shell
  <1>4. CASE Abort
    <2>1. [NewCall("abort") EXCEPT !.previous = requestState] \in Call
      BY <1>0, <1>4 DEF Abort, NewCall, Call
    <2>2. RpcOK'
      BY <1>4, <2>1, SendType DEF Abort, RpcOK
    <2> QED
      BY <1>0, <1>4, <2>2, TypeParts DEF Abort, ShellOK, PublishActive
  <1>5. CASE Compact
    <2>1. RpcOK'
      BY <1>0, <1>5, NewCallType, SendType DEF Compact, RpcOK
    <2> QED
      BY <1>0, <1>5, <2>1, TypeParts DEF Compact, ShellOK, PublishActive
  <1>6. CASE Close
    <2>1. pi' \in PiProcess /\ closed' \in BOOLEAN
      BY <1>0, <1>6 DEF Close, PiProcess
    <2> QED
      BY <1>0, <1>6, <2>1, TypeParts DEF Close, ShellOK, RpcOK, shell, rpc
  <1>7. CASE UiResponse
    <2>1. RpcOK'
      <3>1. CASE pi.alive
        BY <1>0, <1>7, <3>1, NewCallType, SendType DEF UiResponse, RpcOK
      <3>2. CASE ~pi.alive
        BY <1>0, <1>7, <3>2 DEF UiResponse, RpcOK, rpc
      <3> QED
        BY <3>1, <3>2
    <2>2. ShellOK'
      BY <1>0, <1>7, FinishType DEF UiResponse, ShellOK, PublishActive
    <2> QED
      BY <1>0, <1>7, <2>1, <2>2, TypeParts DEF UiResponse
  <1> QED
    BY <1>1, <1>2, <1>3, <1>4, <1>5, <1>6, <1>7 DEF Client

LEMMA ContinueType ==
    ASSUME TypeOK, NEW a \in answered, Continue(a)
    PROVE  TypeOK'
  <1>0. /\ ShellOK /\ RpcOK /\ stdout \in Seq(Lines) /\ dialog \in BOOLEAN
        /\ turn \in Turns /\ pi \in PiProcess /\ noise \in 0 .. MaxNoise
        /\ closed \in BOOLEAN
    BY TypeParts
  <1>1. a \in Answer
    BY <1>0 DEF RpcOK
  <1>2. ShellOK'
    BY <1>0, <1>1, ContinuationType DEF Continue
  <1>3. pi' \in PiProcess /\ closed' \in BOOLEAN
    BY <1>0 DEF Continue, CloseAfter, PiProcess
  <1>4. RpcOK'
    <2>1. CASE a.ok /\ a.call.kind = "compact"
      <3> DEFINE sync == [a.call EXCEPT !.kind = "sync"]
      <3>1. sync \in Call
        BY <1>1, <2>1 DEF Answer, Call
      <3>2. /\ Append(stdin, sync) \in Seq(Call)
            /\ [call |-> sync, ok |-> FALSE] \in Answer
        BY <1>0, <3>1 DEF RpcOK, Answer
      <3> HIDE DEF sync
      <3>3. \/ /\ answered' = answered \ {a} /\ pending' = pending \cup {sync}
               /\ stdin' = Append(stdin, sync)
            \/ /\ answered' = (answered \ {a})
                                \cup {[call |-> sync, ok |-> FALSE]}
               /\ UNCHANGED <<pending, stdin>>
        BY <2>1 DEF Continue, sync
      <3> QED
        BY <1>0, <3>1, <3>2, <3>3 DEF RpcOK
    <2>2. CASE ~(a.ok /\ a.call.kind = "compact")
      BY <1>0, <2>2 DEF Continue, RpcOK
    <2> QED
      BY <2>1, <2>2
  <1> QED
    BY <1>0, <1>2, <1>3, <1>4, TypeParts DEF Continue

LEMMA ReadLineType ==
    ASSUME TypeOK, ReadLine
    PROVE  TypeOK'
  <1>0. /\ ShellOK /\ RpcOK /\ stdout \in Seq(Lines) /\ dialog \in BOOLEAN
        /\ turn \in Turns /\ pi \in PiProcess /\ noise \in 0 .. MaxNoise
        /\ closed \in BOOLEAN
    BY TypeParts
  <1> DEFINE line == Head(stdout)
  <1>1. line \in Lines /\ Tail(stdout) \in Seq(Lines)
    BY <1>0, HeadAndTail DEF ReadLine
  <1>2. ShellOK' /\ RpcOK' /\ dialog' \in BOOLEAN
    <2>1. CASE line.type = "response"
      <3>1. line \in Response
        BY <1>1, <2>1 DEF Lines, Event, EventType
      <3>2. ReadResponse(line)
        BY <2>1 DEF ReadLine
      <3> HIDE DEF line
      <3>3. [call |-> line.call, ok |-> line.ok] \in Answer
        BY <3>1 DEF Response, Answer
      <3> QED
        BY <1>0, <3>2, <3>3 DEF ReadResponse, ShellOK, RpcOK, shell
    <2>2. CASE line.type # "response" /\ closed
      BY <1>0, <2>2 DEF ReadLine, ShellOK, RpcOK, shell, rpc
    <2>3. CASE line.type # "response" /\ ~closed
      <3>1. line \in Event
        BY <1>1, <2>3 DEF Lines, Response
      <3>2. HandleEvent(line)
        BY <2>3 DEF ReadLine
      <3> HIDE DEF line
      <3> QED
        BY <1>0, <3>1, <3>2, EventStep DEF HandleEvent, RpcOK, rpc
    <2> QED
      BY <2>1, <2>2, <2>3
  <1> QED
    BY <1>0, <1>1, <1>2, TypeParts DEF ReadLine

LEMMA PiType ==
    ASSUME TypeOK,
           PiReads \/ PiWorks \/ PiSettles \/ PiEndsCommand
             \/ PiEndsCompaction \/ PiDies \/ ChildClosed
    PROVE  TypeOK'
  <1>0. /\ ShellOK /\ RpcOK /\ stdout \in Seq(Lines) /\ dialog \in BOOLEAN
        /\ turn \in Turns /\ pi \in PiProcess /\ noise \in 0 .. MaxNoise
        /\ closed \in BOOLEAN
    BY TypeParts
  <1>1. CASE PiReads
    <2>1. Head(stdin) \in Call /\ Tail(stdin) \in Seq(Call)
      BY <1>0, <1>1, HeadAndTail DEF PiReads, RpcOK
    <2>2. pi' \in PiProcess /\ stdout' \in Seq(Lines)
      BY <1>1, <2>1, ServeType DEF PiReads
    <2> QED
      BY <1>0, <1>1, <2>1, <2>2, TypeParts DEF PiReads, ShellOK, RpcOK, shell
  <1>2. CASE PiWorks
    <2>1. PICK type \in EventType : PiReports(type)
      BY <1>2 DEF PiWorks, EventType
    <2>2. stdout' \in Seq(Lines)
      <3>1. Line(type, TRUE) \in Lines
        BY <2>1, LineType
      <3>2. <<Line(type, TRUE)>> \in Seq(Lines)
        BY <3>1, ShortSeq
      <3> QED
        BY <2>1, <3>2, WriteType DEF PiReports
    <2>3. noise' \in 0 .. MaxNoise
      BY <1>0, <2>1, BoundsAssumption DEF PiReports
    <2>4. \A b, c \in BOOLEAN :
             [pi EXCEPT !.failed = b, !.asking = c] \in PiProcess
      BY <1>0 DEF PiProcess
    <2>5. pi.failed \in BOOLEAN
      BY <1>0 DEF PiProcess
    <2>6. pi' \in PiProcess
      BY <2>1, <2>4, <2>5 DEF PiReports
    <2> QED
      BY <1>0, <2>1, <2>2, <2>3, <2>6, TypeParts
      DEF PiReports, ShellOK, RpcOK, shell, rpc
  <1>3. CASE PiSettles
    <2>1. stdout' \in Seq(Lines)
      <3>1. Line("agent_settled", ~pi.failed) \in Lines
        BY <1>0, LineType DEF PiProcess, EventType
      <3>2. <<Line("agent_settled", ~pi.failed)>> \in Seq(Lines)
        BY <3>1, ShortSeq
      <3> QED
        BY <1>3, <3>2, WriteType DEF PiSettles
    <2>2. pi' \in PiProcess
      BY <1>0, <1>3, TurnsAreInts DEF PiSettles, PiProcess
    <2> QED
      BY <1>0, <1>3, <2>1, <2>2, TypeParts
      DEF PiSettles, ShellOK, RpcOK, shell, rpc
  <1>4. CASE PiEndsCommand
    <2>1. PICK call \in pending, ok \in BOOLEAN :
             /\ pi' = [pi EXCEPT !.commands = @ \ {call.turn}]
             /\ Write(<<Reply(call, ok)>>)
      BY <1>4 DEF PiEndsCommand
    <2>2. <<Reply(call, ok)>> \in Seq(Lines)
      <3>1. Reply(call, ok) \in Lines
        BY <1>0, ReplyType DEF RpcOK
      <3> QED
        BY <3>1, ShortSeq
    <2>3. stdout' \in Seq(Lines) /\ pi' \in PiProcess
      BY <1>0, <2>1, <2>2, WriteType DEF PiProcess
    <2> QED
      BY <1>0, <1>4, <2>3, TypeParts
      DEF PiEndsCommand, ShellOK, RpcOK, shell, rpc
  <1>5. CASE PiEndsCompaction
    <2>1. PICK call \in pending, ok \in BOOLEAN :
             /\ pi' = [pi EXCEPT !.compacting = FALSE]
             /\ Write(<<Line("compaction_end", ok), Reply(call, ok)>>)
      BY <1>5 DEF PiEndsCompaction
    <2>2. <<Line("compaction_end", ok), Reply(call, ok)>> \in Seq(Lines)
      <3>1. Line("compaction_end", ok) \in Lines
        BY LineType DEF EventType
      <3>2. Reply(call, ok) \in Lines
        BY <1>0, ReplyType DEF RpcOK
      <3> QED
        BY <3>1, <3>2, ShortSeq
    <2>3. stdout' \in Seq(Lines) /\ pi' \in PiProcess
      BY <1>0, <2>1, <2>2, WriteType DEF PiProcess
    <2> QED
      BY <1>0, <1>5, <2>3, TypeParts
      DEF PiEndsCompaction, ShellOK, RpcOK, shell, rpc
  <1>6. CASE PiDies
    <2>1. pi' \in PiProcess
      BY <1>0, <1>6 DEF PiDies, PiProcess
    <2> QED
      BY <1>0, <1>6, <2>1, TypeParts DEF PiDies, ShellOK, RpcOK, shell, rpc
  <1>7. CASE ChildClosed
    <2>1. RpcOK'
      <3>1. \A c \in pending : [call |-> c, ok |-> FALSE] \in Answer
        BY <1>0 DEF RpcOK, Answer
      <3>2. pending' = {} /\ stdin' = <<>> /\ stdin' \in Seq(Call)
        BY <1>7 DEF ChildClosed
      <3>3. answered' \subseteq Answer
        BY <1>0, <1>7, <3>1 DEF ChildClosed, RpcOK
      <3> QED
        BY <3>2, <3>3 DEF RpcOK
    <2> QED
      BY <1>0, <1>7, <2>1, TypeParts DEF ChildClosed, ShellOK, shell
  <1> QED
    BY <1>1, <1>2, <1>3, <1>4, <1>5, <1>6, <1>7

LEMMA StutterType == TypeOK /\ UNCHANGED vars => TypeOK'
  BY DEF vars, shell, rpc, TypeOK

\* Every variable keeps its type, for all routes and bounds.
THEOREM ShellTypes == Spec => []TypeOK
  <1>1. TypeOK /\ [Next]_vars => TypeOK'
    BY RoutesType, ContinueType, ReadLineType, PiType, StutterType DEF Next
  <1> QED
    BY <1>1, InitType, PTL DEF Spec

-----------------------------------------------------------------------------
(* The lock and what the page is shown.                                     *)

LEMMA BusySteps ==
    ASSUME TypeOK, LockedIsShownBusy, [Next]_vars
    PROVE  LockedIsShownBusy'
  <1> USE DEF LockedIsShownBusy
  <1>0. UNCHANGED shell => LockedIsShownBusy'
    BY DEF shell
  <1>f. \A outcome : FinishRequest(outcome) => LockedIsShownBusy'
    BY DEF FinishRequest, PublishFinal
  <1>1. CASE Client
    BY <1>0, <1>1 DEF Client, Input, Command, Steer, Abort, Compact, Close,
       BeginRequest, PublishActive
  <1>2. CASE UiResponse
    BY <1>f, <1>2 DEF UiResponse, PublishActive
  <1>3. ASSUME NEW a \in answered, Continue(a)
        PROVE  LockedIsShownBusy'
    <2>1. Continuation(a.call, a.ok)
      BY <1>3 DEF Continue
    <2>2. ContinueInput(a.ok) => LockedIsShownBusy'
      BY <1>0, <1>f DEF ContinueInput
    <2>3. ContinueCommand(a.ok) => LockedIsShownBusy'
      BY <1>0, <1>f DEF ContinueCommand, SettleCommand
    <2>4. ContinueSteer(a.ok) => LockedIsShownBusy'
      BY <1>0 DEF ContinueSteer, PublishActive
    <2>5. ContinueAbort(a.ok, a.call.previous) => LockedIsShownBusy'
      BY <1>0 DEF ContinueAbort, PublishActive
    <2>6. ContinueCompact(a.call.kind, a.ok) => LockedIsShownBusy'
      BY <1>0 DEF ContinueCompact, PublishFinal
    <2> QED
      BY <2>1, <2>2, <2>3, <2>4, <2>5, <2>6 DEF Continuation
  <1>4. CASE ReadLine
    <2>1. CASE UNCHANGED shell
      BY <1>0, <2>1
    <2>2. ASSUME NEW line, HandleEvent(line)
          PROVE  LockedIsShownBusy'
      <3>1. CASE line.type \in {"agent_start", "text", "model_error", "tool",
                                "ask", "compaction_start"}
        BY <2>2, <3>1 DEF HandleEvent, AgentStart, Text, ModelError, Tool, Ask,
           CompactionStart, PublishActive
      <3>2. ExtensionError => LockedIsShownBusy'
        BY DEF ExtensionError, PublishActive
      <3>3. NotifyError => LockedIsShownBusy'
        BY <1>0, <3>2 DEF NotifyError
      <3>4. AgentSettled => LockedIsShownBusy'
        BY <1>f DEF AgentSettled
      <3>5. CompactionEnd(line.ok) => LockedIsShownBusy'
        BY DEF CompactionEnd, PublishFinal, PublishActive
      <3> QED
        BY <2>2, <3>1, <3>2, <3>3, <3>4, <3>5 DEF HandleEvent
    <2>3. UNCHANGED shell \/ HandleEvent(Head(stdout))
      BY <1>4 DEF ReadLine, ReadResponse
    <2> QED
      BY <2>1, <2>2, <2>3
  <1>5. CASE \/ PiReads \/ PiWorks \/ PiSettles \/ PiEndsCommand
             \/ PiEndsCompaction \/ PiDies \/ ChildClosed
    BY <1>0, <1>5 DEF PiReads, PiWorks, PiReports, PiSettles, PiEndsCommand,
       PiEndsCompaction, PiDies, ChildClosed
  <1>6. CASE UNCHANGED vars
    BY <1>0, <1>6 DEF vars
  <1> QED
    BY <1>1, <1>2, <1>3, <1>4, <1>5, <1>6 DEF Next

\* No path drops the lock and leaves a busy page, or keeps it behind a page
\* that shows a final activity.
THEOREM LockIsShown == Spec => []LockedIsShownBusy
  <1>1. Init => LockedIsShownBusy
    BY DEF Init, LockedIsShownBusy
  <1> QED
    BY <1>1, BusySteps, ShellTypes, PTL DEF Spec

-----------------------------------------------------------------------------
(* Every promise of a call is settled once.                                 *)

\* No call is of a later turn than the last; the answer to a dialog is never
\* pending; a compaction and the synchronisation after it exclude each other.
CallInv ==
    /\ \A c \in pending : c.turn <= turn /\ c.kind # "ui"
    /\ \A a \in answered : a.call.turn <= turn
    /\ \A c, d \in pending \cup {a.call : a \in answered} :
          c.kind \in {"compact", "sync"} /\ d.kind \in {"compact", "sync"}
          => c = d
    /\ AnsweredOnce

\* A call that is new stays the only one of its name.
LEMMA NewCallOnce ==
    ASSUME TypeOK, CallInv, NEW call \in Call,
           call.turn <= turn', turn' \in Int, turn <= turn',
           Send(call), pi.alive \/ call.kind # "ui",
           call \notin pending, \A a \in answered : a.call # call,
           call.kind \in {"compact", "sync"} =>
             \A c \in pending \cup {a.call : a \in answered} :
                c.kind \notin {"compact", "sync"}
    PROVE  CallInv'
  <1> DEFINE new == [call |-> call, ok |-> FALSE]
  <1>0. turn \in Int /\ pending \subseteq Call /\ answered \subseteq Answer
    BY TurnsAreInts DEF TypeOK
  <1>t. /\ \A c \in Call : c.turn \in Int
        /\ \A a \in Answer : a.call \in Call
    BY TurnsAreInts DEF Call, Answer
  <1>1. \/ /\ pending' = pending /\ answered' = answered
        \/ /\ call.kind # "ui"
           /\ pending' = pending \cup {call} /\ answered' = answered
        \/ /\ pending' = pending /\ answered' = answered \cup {new}
    BY DEF Send
  <1>2. new.call = call
    OBVIOUS
  <1> HIDE DEF new
  <1>3. \A c \in pending' : c.turn <= turn' /\ c.kind # "ui"
    BY <1>0, <1>t, <1>1 DEF CallInv
  <1>4. \A a \in answered' : a.call.turn <= turn'
    BY <1>0, <1>t, <1>1, <1>2 DEF CallInv
  <1>5. \A c, d \in pending' \cup {a.call : a \in answered'} :
           c.kind \in {"compact", "sync"} /\ d.kind \in {"compact", "sync"}
           => c = d
    <2>1. pending' \cup {a.call : a \in answered'}
            \subseteq (pending \cup {a.call : a \in answered}) \cup {call}
      BY <1>1, <1>2
    <2> QED
      BY <2>1 DEF CallInv
  <1>6. AnsweredOnce'
    BY <1>1, <1>2 DEF CallInv, AnsweredOnce
  <1> QED
    BY <1>3, <1>4, <1>5, <1>6 DEF CallInv

\* Calls that are forgotten, or answered for the first time, break nothing.
LEMMA FewerCalls ==
    ASSUME CallInv, turn' = turn, pending' \subseteq pending,
           \A a \in answered' :
              a \in answered \/ (a.call \in pending \ pending'
                                /\ \A b \in answered' : b.call = a.call => a = b)
    PROVE  CallInv'
  <1>1. /\ \A c \in pending' : c.turn <= turn' /\ c.kind # "ui"
        /\ \A a \in answered' : a.call.turn <= turn'
    BY DEF CallInv
  <1>2. pending' \cup {a.call : a \in answered'}
          \subseteq pending \cup {a.call : a \in answered}
    OBVIOUS
  <1>3. AnsweredOnce'
    BY DEF CallInv, AnsweredOnce
  <1> QED
    BY <1>1, <1>2, <1>3 DEF CallInv

LEMMA UnsentIsNew ==
    ASSUME NEW call, Unsent(call.kind)
    PROVE  call \notin pending /\ \A a \in answered : a.call # call
  BY DEF Unsent

LEMMA RouteCalls ==
    ASSUME TypeOK, CallInv, Client \/ UiResponse
    PROVE  CallInv'
  <1>0. turn \in Int /\ turn \in Turns /\ requestState \in
          {"idle", "input", "command", "aborting"}
    BY TurnsAreInts DEF TypeOK
  <1>t. turn + 1 > turn /\ turn + 1 \in Int /\ turn <= turn
    BY <1>0
  <1>1. ASSUME NEW kind \in {"input", "command"}, BeginRequest(kind)
        PROVE  CallInv'
    <2> DEFINE call == [kind |-> kind, turn |-> turn + 1, previous |-> "idle"]
    <2>1. call \in Call
      <3>1. turn + 1 \in Turns
        BY <1>1, BoundsAssumption DEF BeginRequest, TypeOK, Turns
      <3> QED
        BY <3>1 DEF Call
    <2>2. call.turn = turn + 1 /\ call.kind = kind
      OBVIOUS
    <2>3. Send(call) /\ turn' = turn + 1
      BY <1>1 DEF BeginRequest
    <2> HIDE DEF call
    <2>4. call \notin pending /\ \A a \in answered : a.call # call
      BY <1>0, <1>t, <2>2 DEF CallInv
    <2> QED
      BY <1>0, <1>t, <2>1, <2>2, <2>3, <2>4, NewCallOnce
  <1>2. CASE Input \/ Command
    BY <1>1, <1>2 DEF Input, Command
  <1>3. CASE Steer
    <2> DEFINE call == NewCall("steer")
    <2>1. call \in Call /\ call.turn = turn /\ call.kind = "steer"
      BY <1>0, NewCallType DEF NewCall
    <2>2. Send(call) /\ turn' = turn /\ Unsent("steer")
      BY <1>3 DEF Steer
    <2> HIDE DEF call
    <2> QED
      BY <1>0, <1>t, <2>1, <2>2, UnsentIsNew, NewCallOnce
  <1>4. CASE Abort
    <2> DEFINE call == [NewCall("abort") EXCEPT !.previous = requestState]
    <2>1. call \in Call /\ call.turn = turn /\ call.kind = "abort"
      BY <1>0, <1>4 DEF Abort, NewCall, Call
    <2>2. Send(call) /\ turn' = turn /\ Unsent("abort")
      BY <1>4 DEF Abort
    <2> HIDE DEF call
    <2> QED
      BY <1>0, <1>t, <2>1, <2>2, UnsentIsNew, NewCallOnce
  <1>5. CASE Compact
    <2> DEFINE call == NewCall("compact")
    <2>1. call \in Call /\ call.turn = turn /\ call.kind = "compact"
      BY <1>0, NewCallType DEF NewCall
    <2>2. Send(call) /\ turn' = turn /\ Unsent("compact") /\ Unsent("sync")
      BY <1>5 DEF Compact
    <2> HIDE DEF call
    <2>3. \A c \in pending \cup {a.call : a \in answered} :
             c.kind \notin {"compact", "sync"}
      BY <2>2 DEF Unsent
    <2> QED
      BY <1>0, <1>t, <2>1, <2>2, <2>3, UnsentIsNew, NewCallOnce
  <1>6. CASE Close
    BY <1>6, FewerCalls DEF Close, rpc
  <1>7. CASE UiResponse
    <2>1. UNCHANGED <<pending, answered, turn>>
      BY <1>7 DEF UiResponse, Send, NewCall, rpc
    <2> QED
      BY <2>1, FewerCalls
  <1> QED
    BY <1>2, <1>3, <1>4, <1>5, <1>6, <1>7 DEF Client

LEMMA ContinueCalls ==
    ASSUME TypeOK, CallInv, NEW a \in answered, Continue(a)
    PROVE  CallInv'
  <1>1. CASE a.ok /\ a.call.kind = "compact"
    <2> DEFINE sync == [a.call EXCEPT !.kind = "sync"]
               out == [call |-> sync, ok |-> FALSE]
    <2>0. a.call \in Call
      BY DEF TypeOK, Answer
    <2>1. /\ sync.turn = a.call.turn /\ sync.kind = "sync"
          /\ out.call = sync
      BY <1>1, <2>0 DEF Call
    <2>2. /\ turn' = turn
          /\ \/ /\ answered' = answered \ {a}
                /\ pending' = pending \cup {sync}
             \/ /\ answered' = (answered \ {a}) \cup {out}
                /\ pending' = pending
      BY <1>1 DEF Continue
    <2> HIDE DEF sync, out
    <2>3. \A c \in pending \cup {b.call : b \in answered} :
             c.kind \in {"compact", "sync"} => c = a.call
      BY <1>1 DEF CallInv
    <2>4. a.call \notin pending
          /\ \A b \in answered \ {a} : b.call # a.call
      BY DEF CallInv, AnsweredOnce
    <2>5. \A c \in pending \cup {b.call : b \in answered \ {a}} :
             c.kind \notin {"compact", "sync"}
      BY <2>3, <2>4
    <2>6. /\ \A c \in pending' : c.turn <= turn' /\ c.kind # "ui"
          /\ \A b \in answered' : b.call.turn <= turn'
      BY <2>1, <2>2 DEF CallInv
    <2>7. \A c, d \in pending' \cup {b.call : b \in answered'} :
             c.kind \in {"compact", "sync"} /\ d.kind \in {"compact", "sync"}
             => c = d
      BY <2>1, <2>2, <2>5
    <2>8. AnsweredOnce'
      BY <2>1, <2>2, <2>5 DEF CallInv, AnsweredOnce
    <2> QED
      BY <2>6, <2>7, <2>8 DEF CallInv
  <1>2. CASE ~(a.ok /\ a.call.kind = "compact")
    BY <1>2, FewerCalls DEF Continue
  <1> QED
    BY <1>1, <1>2

LEMMA ReadCalls ==
    ASSUME TypeOK, CallInv, ReadLine
    PROVE  CallInv'
  <1> DEFINE line == Head(stdout)
             new == [call |-> line.call, ok |-> line.ok]
  <1>1. CASE ReadResponse(line)
    <2>1. /\ pending' = pending \ {line.call}
          /\ \/ answered' = answered
             \/ line.call \in pending /\ answered' = answered \cup {new}
      BY <1>1 DEF ReadResponse
    <2>2. new.call = line.call /\ turn' = turn
      BY DEF ReadLine
    <2> HIDE DEF line, new
    <2>3. line.call \in pending => \A a \in answered : a.call # line.call
      BY DEF CallInv, AnsweredOnce
    <2> QED
      BY <2>1, <2>2, <2>3, FewerCalls
  <1>2. CASE UNCHANGED rpc
    BY <1>2, FewerCalls DEF ReadLine, rpc
  <1> QED
    BY <1>1, <1>2 DEF ReadLine, HandleEvent

LEMMA ClosedCalls ==
    ASSUME TypeOK, CallInv, ChildClosed
    PROVE  CallInv'
  <1> DEFINE failed == {[call |-> c, ok |-> FALSE] : c \in pending}
  <1>1. /\ pending' = {} /\ turn' = turn
        /\ answered' = answered \cup failed
    BY DEF ChildClosed
  <1>2. \A a \in failed : a.call \in pending /\ a = [call |-> a.call, ok |-> FALSE]
    OBVIOUS
  <1> HIDE DEF failed
  <1>3. \A a \in answered : a.call \notin pending
    BY DEF CallInv, AnsweredOnce
  <1>4. \A a \in failed, b \in answered' : b.call = a.call => a = b
    BY <1>1, <1>2, <1>3
  <1>5. \A a \in answered' :
           a \in answered \/ (a.call \in pending \ pending'
                             /\ \A b \in answered' : b.call = a.call => a = b)
    BY <1>1, <1>2, <1>4
  <1> QED
    BY <1>1, <1>5, FewerCalls

\* A call has one outcome: it is not answered while it is pending, nor twice,
\* whichever of a response, a failed write and the end of Pi comes first.
THEOREM OneOutcome == Spec => []AnsweredOnce
  <1>1. Init => CallInv
    BY DEF Init, CallInv, AnsweredOnce
  <1>2. TypeOK /\ CallInv /\ [Next]_vars => CallInv'
    <2> SUFFICES ASSUME TypeOK, CallInv, [Next]_vars PROVE CallInv'
      OBVIOUS
    <2>1. CASE \/ PiReads \/ PiWorks \/ PiSettles \/ PiEndsCommand
               \/ PiEndsCompaction \/ PiDies
      BY <2>1, FewerCalls DEF PiReads, PiWorks, PiReports, PiSettles,
         PiEndsCommand, PiEndsCompaction, PiDies, rpc
    <2>2. CASE UNCHANGED vars
      BY <2>2, FewerCalls DEF vars, rpc
    <2> QED
      BY <2>1, <2>2, RouteCalls, ContinueCalls, ReadCalls, ClosedCalls DEF Next
  <1>3. CallInv => AnsweredOnce
    BY DEF CallInv
  <1> QED
    BY <1>1, <1>2, <1>3, ShellTypes, PTL DEF Spec

-----------------------------------------------------------------------------
(* The lock and what occupies Pi.                                           *)

\* A Shell whose clients neither steer nor compact.
PlainRoutes == Routes \subseteq {"input", "abort", "command", "close"}

AtMostOne(S) == \A x, y \in S : x = y

\* The places of a sequence that hold an element of M.
Hits(s, M) == {i \in 1 .. Len(s) : s[i] \in M}

\* Behind every element of B comes one of M.
Behind(s, B, M) == \A i \in Hits(s, B) : \E j \in Hits(s, M) : i < j

LEMMA HitsTail ==
    ASSUME NEW S, NEW s \in Seq(S), s # <<>>, NEW M
    PROVE  /\ Hits(s, M) = {} => Hits(Tail(s), M) = {}
           /\ AtMostOne(Hits(s, M)) => AtMostOne(Hits(Tail(s), M))
           /\ AtMostOne(Hits(s, M)) /\ Head(s) \in M => Hits(Tail(s), M) = {}
           /\ Head(s) \in M => Hits(s, M) # {}
  <1>0. Len(s) \in Nat \ {0} /\ Head(s) = s[1] /\ 1 \in 1 .. Len(s)
    OBVIOUS
  <1>1. ASSUME NEW i \in Hits(Tail(s), M)
        PROVE  i \in Nat /\ i + 1 \in Hits(s, M) /\ i + 1 # 1
    BY <1>0 DEF Hits
  <1>2. Head(s) \in M => 1 \in Hits(s, M)
    BY <1>0 DEF Hits
  <1>3. Hits(s, M) = {} => Hits(Tail(s), M) = {}
    BY <1>1
  <1>4. AtMostOne(Hits(s, M)) => AtMostOne(Hits(Tail(s), M))
    BY <1>1 DEF AtMostOne
  <1>5. AtMostOne(Hits(s, M)) /\ Head(s) \in M => Hits(Tail(s), M) = {}
    BY <1>1, <1>2 DEF AtMostOne
  <1> QED
    BY <1>2, <1>3, <1>4, <1>5

LEMMA BehindTail ==
    ASSUME NEW S, NEW s \in Seq(S), s # <<>>, NEW B, NEW M, Behind(s, B, M)
    PROVE  Behind(Tail(s), B, M)
  <1> SUFFICES ASSUME NEW i \in Hits(Tail(s), B)
               PROVE  \E j \in Hits(Tail(s), M) : i < j
    BY DEF Behind
  <1>1. i \in Nat /\ i + 1 \in Hits(s, B)
    BY DEF Hits
  <1>2. PICK j \in Hits(s, M) : i + 1 < j
    BY <1>1 DEF Behind
  <1>3. j \in Nat /\ j <= Len(s) /\ s[j] \in M /\ Len(s) \in Nat
    BY DEF Hits
  <1>4. j - 1 \in 1 .. Len(Tail(s)) /\ i < j - 1
    BY <1>1, <1>2, <1>3
  <1>5. Tail(s)[j - 1] = s[j]
    BY <1>3, <1>4
  <1>6. j - 1 \in Hits(Tail(s), M)
    BY <1>3, <1>4, <1>5 DEF Hits
  <1> QED
    BY <1>4, <1>6

\* More elements that are none of M.
LEMMA HitsJoin ==
    ASSUME NEW S, NEW s \in Seq(S), NEW t \in Seq(S), NEW M,
           \A i \in 1 .. Len(t) : t[i] \notin M
    PROVE  Hits(s \o t, M) = Hits(s, M)
  <1>1. /\ Len(s \o t) = Len(s) + Len(t) /\ Len(s) \in Nat /\ Len(t) \in Nat
        /\ \A i \in 1 .. Len(s) : (s \o t)[i] = s[i]
        /\ \A i \in 1 .. Len(t) : (s \o t)[Len(s) + i] = t[i]
    OBVIOUS
  <1>2. ASSUME NEW i \in 1 .. Len(s \o t), i \notin 1 .. Len(s)
        PROVE  (s \o t)[i] \notin M
    <2>1. i - Len(s) \in 1 .. Len(t) /\ i = Len(s) + (i - Len(s))
      BY <1>1, <1>2
    <2>2. (s \o t)[i] = t[i - Len(s)]
      BY <1>1, <2>1
    <2> QED
      BY <2>1, <2>2
  <1>3. \A i \in 1 .. Len(s) : i \in 1 .. Len(s \o t)
    BY <1>1
  <1> QED
    BY <1>1, <1>2, <1>3 DEF Hits

LEMMA NoneOfTwo ==
    ASSUME NEW a, NEW b, NEW M, NEW N, a \notin M /\ a \notin N,
           b \notin M /\ b \notin N
    PROVE  \A i \in 1 .. Len(<<a, b>>) :
              <<a, b>>[i] \notin M /\ <<a, b>>[i] \notin N
  <1>1. Len(<<a, b>>) = 2 /\ <<a, b>>[1] = a /\ <<a, b>>[2] = b
    OBVIOUS
  <1>2. \A i \in 1 .. 2 : i = 1 \/ i = 2
    OBVIOUS
  <1> QED
    BY <1>1, <1>2

LEMMA HitsOne ==
    ASSUME NEW S, NEW s \in Seq(S), NEW e \in S, NEW M
    PROVE  /\ e \notin M => Hits(s \o <<e>>, M) = Hits(s, M)
           /\ Hits(s, M) = {} => AtMostOne(Hits(s \o <<e>>, M))
           /\ e \in M => Len(s) + 1 \in Hits(s \o <<e>>, M)
  <1>1. <<e>> \in Seq(S) /\ Len(<<e>>) = 1 /\ \A i \in 1 .. 1 : <<e>>[i] = e
    OBVIOUS
  <1>2. e \notin M => Hits(s \o <<e>>, M) = Hits(s, M)
    BY <1>1, HitsJoin
  <1>3. /\ Len(s \o <<e>>) = Len(s) + 1 /\ Len(s) \in Nat
        /\ \A i \in 1 .. Len(s) : (s \o <<e>>)[i] = s[i]
        /\ (s \o <<e>>)[Len(s) + 1] = e
    OBVIOUS
  <1>4. e \in M => Len(s) + 1 \in Hits(s \o <<e>>, M)
    BY <1>3 DEF Hits
  <1>5. ASSUME Hits(s, M) = {}, NEW i \in Hits(s \o <<e>>, M)
        PROVE  i = Len(s) + 1
    BY <1>3, <1>5 DEF Hits
  <1> QED
    BY <1>2, <1>4, <1>5 DEF AtMostOne

LEMMA BehindOne ==
    ASSUME NEW S, NEW s \in Seq(S), NEW e \in S, NEW B, NEW M, e \notin B,
           Behind(s, B, M) \/ e \in M
    PROVE  Behind(s \o <<e>>, B, M)
  <1>1. Hits(s \o <<e>>, B) = Hits(s, B)
    BY HitsOne
  <1>2. \A i \in Hits(s, B) : i \in Nat /\ i < Len(s) + 1
    BY DEF Hits
  <1>3. CASE e \in M
    BY <1>1, <1>2, <1>3, HitsOne DEF Behind
  <1>4. CASE e \notin M
    BY <1>1, <1>4, HitsOne DEF Behind
  <1> QED
    BY <1>3, <1>4

PromptCalls == {c \in Call : c.kind \in {"input", "command"}}
UiCalls == {c \in Call : c.kind = "ui"}

\* What makes the Shell drop the lock, on its way and as a call's outcome.
Ends(kind, ok) == kind = "command" \/ (kind = "input" /\ ~ok)
EndLines == {l \in Lines : l.type = "agent_settled"
                           \/ (l.type = "response" /\ Ends(l.call.kind, l.ok))}
BusyLines == {l \in Lines : l.type \notin {"agent_settled", "response"}}
AskLines == {l \in Lines : l.type = "ask"}

\* The stages of a request, each with what is at it.
Asked == Hits(stdin, PromptCalls)
Works == pi.agent # 0 \/ pi.commands # {}
Ended == Hits(stdout, EndLines)
Endings == {a \in answered : Ends(a.call.kind, a.ok)}

\* The stages of an approval dialog.
Asking == Hits(stdout, AskLines)
Replies == Hits(stdin, UiCalls)

\* No steering, compaction or dialog is among the calls with a promise.
KindInv ==
    /\ \A c \in pending : c.kind \in {"input", "command", "abort"}
    /\ \A a \in answered : a.call.kind \in {"input", "command", "abort"}
    /\ \A i \in 1 .. Len(stdin) :
          /\ stdin[i].kind \in {"input", "command", "abort", "ui"}
          /\ stdin[i].kind = "input" => stdin[i].turn # 0

\* The request that holds the lock is at one stage, and at one place of it.
TurnInv ==
    /\ AtMostOne(Asked) /\ AtMostOne(Ended) /\ AtMostOne(Endings)
    /\ AtMostOne(pi.commands) /\ (pi.agent = 0 \/ pi.commands = {})
    /\ Asked # {} => ~Works /\ Ended = {} /\ Endings = {}
    /\ Works => Ended = {} /\ Endings = {}
    /\ Ended # {} => Endings = {}
    /\ Asked # {} \/ Works \/ Ended # {} \/ Endings # {} => requestState # "idle"

\* What Pi reports of its work is read before its end.
LineInv == ~Works => Behind(stdout, BusyLines, EndLines)

\* A dialog is open only while Pi waits for it, within a turn or a command.
DialogInv ==
    /\ pi.asking => Works
    /\ AtMostOne(Asking) /\ AtMostOne(Replies)
    /\ Asking # {} => pi.asking /\ ~dialog /\ Replies = {}
    /\ dialog => pi.asking /\ Replies = {}
    /\ Replies # {} => pi.asking

ShownInv == requestState = "idle" => activity \in {"done", "error"}

AliveInv == TurnInv /\ LineInv /\ DialogInv /\ ShownInv
LockInv == KindInv /\ (pi.alive => AliveInv)

LEMMA ReplyIs ==
    ASSUME NEW call \in Call, NEW ok \in BOOLEAN
    PROVE  /\ Reply(call, ok) \in Lines
           /\ Reply(call, ok) \in EndLines <=> Ends(call.kind, ok)
           /\ Reply(call, ok) \notin BusyLines /\ Reply(call, ok) \notin AskLines
  <1>1. Reply(call, ok).type = "response" /\ Reply(call, ok).call = call
        /\ Reply(call, ok).ok = ok
    BY DEF Reply
  <1>2. Reply(call, ok) \in Lines
    BY ReplyType
  <1> QED
    BY <1>1, <1>2 DEF EndLines, BusyLines, AskLines

LEMMA LineIs ==
    ASSUME NEW type \in EventType, NEW ok \in BOOLEAN
    PROVE  /\ Line(type, ok) \in Lines
           /\ Line(type, ok) \in EndLines <=> type = "agent_settled"
           /\ Line(type, ok) \in BusyLines <=> type # "agent_settled"
           /\ Line(type, ok) \in AskLines <=> type = "ask"
  <1>1. Line(type, ok).type = type /\ type # "response"
    BY DEF Line, EventType
  <1>2. Line(type, ok) \in Lines
    BY LineType
  <1> QED
    BY <1>1, <1>2 DEF EndLines, BusyLines, AskLines

\* A call is written to Pi, or read by it.
LEMMA StdinGrows ==
    ASSUME TypeOK, NEW call \in Call, stdin' = Append(stdin, call)
    PROVE  /\ call \notin PromptCalls => Asked' = Asked
           /\ call \notin UiCalls => Replies' = Replies
           /\ Asked = {} => AtMostOne(Asked')
           /\ Replies = {} => AtMostOne(Replies')
  <1>1. stdin' = stdin \o <<call>> /\ stdin \in Seq(Call)
    BY DEF TypeOK
  <1>2. /\ call \notin PromptCalls =>
              Hits(stdin \o <<call>>, PromptCalls) = Hits(stdin, PromptCalls)
        /\ Hits(stdin, PromptCalls) = {} =>
              AtMostOne(Hits(stdin \o <<call>>, PromptCalls))
    BY <1>1, HitsOne
  <1>3. /\ call \notin UiCalls =>
              Hits(stdin \o <<call>>, UiCalls) = Hits(stdin, UiCalls)
        /\ Hits(stdin, UiCalls) = {} =>
              AtMostOne(Hits(stdin \o <<call>>, UiCalls))
    BY <1>1, HitsOne
  <1> QED
    BY <1>1, <1>2, <1>3 DEF Asked, Replies

LEMMA StdinShrinks ==
    ASSUME TypeOK, stdin # <<>>, stdin' = Tail(stdin)
    PROVE  /\ Head(stdin) \in Call
           /\ Asked = {} => Asked' = {}
           /\ Replies = {} => Replies' = {}
           /\ AtMostOne(Asked) => AtMostOne(Asked')
           /\ AtMostOne(Replies) => AtMostOne(Replies')
           /\ Head(stdin) \in PromptCalls =>
                 Asked # {} /\ (AtMostOne(Asked) => Asked' = {})
           /\ Head(stdin) \in UiCalls =>
                 Replies # {} /\ (AtMostOne(Replies) => Replies' = {})
  <1>1. stdin \in Seq(Call) /\ Head(stdin) \in Call
    BY HeadAndTail DEF TypeOK
  <1>2. /\ Hits(stdin, PromptCalls) = {} => Hits(Tail(stdin), PromptCalls) = {}
        /\ AtMostOne(Hits(stdin, PromptCalls)) =>
              AtMostOne(Hits(Tail(stdin), PromptCalls))
        /\ AtMostOne(Hits(stdin, PromptCalls)) /\ Head(stdin) \in PromptCalls =>
              Hits(Tail(stdin), PromptCalls) = {}
        /\ Head(stdin) \in PromptCalls => Hits(stdin, PromptCalls) # {}
    BY <1>1, HitsTail
  <1>3. /\ Hits(stdin, UiCalls) = {} => Hits(Tail(stdin), UiCalls) = {}
        /\ AtMostOne(Hits(stdin, UiCalls)) =>
              AtMostOne(Hits(Tail(stdin), UiCalls))
        /\ AtMostOne(Hits(stdin, UiCalls)) /\ Head(stdin) \in UiCalls =>
              Hits(Tail(stdin), UiCalls) = {}
        /\ Head(stdin) \in UiCalls => Hits(stdin, UiCalls) # {}
    BY <1>1, HitsTail
  <1> QED
    BY <1>1, <1>2, <1>3 DEF Asked, Replies

\* Pi writes one line, or the Shell reads it.
LEMMA StdoutGrows ==
    ASSUME TypeOK, NEW line \in Lines, Write(<<line>>)
    PROVE  /\ line \notin EndLines => Ended' = Ended
           /\ line \notin AskLines => Asking' = Asking
           /\ Ended = {} => AtMostOne(Ended')
           /\ Asking = {} => AtMostOne(Asking')
           /\ line \notin BusyLines /\
                 (Behind(stdout, BusyLines, EndLines) \/ line \in EndLines)
              => Behind(stdout, BusyLines, EndLines)'
  <1>1. stdout' = stdout \o <<line>> /\ stdout \in Seq(Lines)
    BY DEF TypeOK, Lines, Write
  <1>2. /\ line \notin EndLines =>
              Hits(stdout \o <<line>>, EndLines) = Hits(stdout, EndLines)
        /\ Hits(stdout, EndLines) = {} =>
              AtMostOne(Hits(stdout \o <<line>>, EndLines))
    BY <1>1, HitsOne
  <1>3. /\ line \notin AskLines =>
              Hits(stdout \o <<line>>, AskLines) = Hits(stdout, AskLines)
        /\ Hits(stdout, AskLines) = {} =>
              AtMostOne(Hits(stdout \o <<line>>, AskLines))
    BY <1>1, HitsOne
  <1>4. line \notin BusyLines /\
           (Behind(stdout, BusyLines, EndLines) \/ line \in EndLines)
        => Behind(stdout \o <<line>>, BusyLines, EndLines)
    BY <1>1, BehindOne
  <1>5. Behind(stdout, BusyLines, EndLines)' <=>
           Behind(stdout', BusyLines, EndLines)
    BY DEF Behind, Hits, BusyLines, EndLines, Lines, Event, Response, Call
  <1> QED
    BY <1>1, <1>2, <1>3, <1>4, <1>5 DEF Ended, Asking

LEMMA StdoutShrinks ==
    ASSUME TypeOK, stdout # <<>>, stdout' = Tail(stdout)
    PROVE  /\ Head(stdout) \in Lines
           /\ Ended = {} => Ended' = {}
           /\ Asking = {} => Asking' = {}
           /\ AtMostOne(Ended) => AtMostOne(Ended')
           /\ AtMostOne(Asking) => AtMostOne(Asking')
           /\ Head(stdout) \in EndLines =>
                 Ended # {} /\ (AtMostOne(Ended) => Ended' = {})
           /\ Head(stdout) \in AskLines =>
                 Asking # {} /\ (AtMostOne(Asking) => Asking' = {})
           /\ Head(stdout) \in BusyLines => Hits(stdout, BusyLines) # {}
           /\ Behind(stdout, BusyLines, EndLines) =>
                 Behind(stdout, BusyLines, EndLines)'
  <1>1. stdout \in Seq(Lines) /\ Head(stdout) \in Lines
    BY HeadAndTail DEF TypeOK, Lines
  <1>2. /\ Hits(stdout, EndLines) = {} => Hits(Tail(stdout), EndLines) = {}
        /\ AtMostOne(Hits(stdout, EndLines)) =>
              AtMostOne(Hits(Tail(stdout), EndLines))
        /\ AtMostOne(Hits(stdout, EndLines)) /\ Head(stdout) \in EndLines =>
              Hits(Tail(stdout), EndLines) = {}
        /\ Head(stdout) \in EndLines => Hits(stdout, EndLines) # {}
    BY <1>1, HitsTail
  <1>3. /\ Hits(stdout, AskLines) = {} => Hits(Tail(stdout), AskLines) = {}
        /\ AtMostOne(Hits(stdout, AskLines)) =>
              AtMostOne(Hits(Tail(stdout), AskLines))
        /\ AtMostOne(Hits(stdout, AskLines)) /\ Head(stdout) \in AskLines =>
              Hits(Tail(stdout), AskLines) = {}
        /\ Head(stdout) \in AskLines => Hits(stdout, AskLines) # {}
    BY <1>1, HitsTail
  <1>4. Head(stdout) \in BusyLines => Hits(stdout, BusyLines) # {}
    BY <1>1, HitsTail
  <1>5. Behind(stdout, BusyLines, EndLines) =>
           Behind(Tail(stdout), BusyLines, EndLines)
    BY <1>1, BehindTail
  <1>6. Behind(stdout, BusyLines, EndLines)' <=>
           Behind(stdout', BusyLines, EndLines)
    BY DEF Behind, Hits, BusyLines, EndLines, Lines, Event, Response, Call
  <1> QED
    BY <1>1, <1>2, <1>3, <1>4, <1>5, <1>6 DEF Ended, Asking

\* A plain call is sent.
LEMMA SendKind ==
    ASSUME TypeOK, KindInv, NEW call \in Call, Send(call),
           \/ call.kind \in {"input", "command", "abort"}
           \/ call.kind = "ui" /\ pi.alive,
           call.kind = "input" => call.turn # 0
    PROVE  KindInv'
  <1>1. stdin \in Seq(Call)
    BY DEF TypeOK
  <1>2. CASE pi.alive
    <2>1. stdin' = Append(stdin, call) /\ answered' = answered
          /\ pending' = IF call.kind = "ui" THEN pending ELSE pending \cup {call}
      BY <1>2 DEF Send
    <2>2. \A i \in 1 .. Len(stdin') : i \in 1 .. Len(stdin) \/ stdin'[i] = call
      BY <1>1, <2>1
    <2>3. \A i \in 1 .. Len(stdin) : stdin'[i] = stdin[i]
      BY <1>1, <2>1
    <2> QED
      BY <2>1, <2>2, <2>3 DEF KindInv
  <1>3. CASE ~pi.alive
    <2>1. /\ answered' = answered \cup {[call |-> call, ok |-> FALSE]}
          /\ UNCHANGED <<pending, stdin>>
      BY <1>3 DEF Send
    <2>2. call.kind \in {"input", "command", "abort"}
      BY <1>3
    <2> QED
      BY <2>1, <2>2 DEF KindInv
  <1> QED
    BY <1>2, <1>3

LEMMA KindSteps ==
    ASSUME PlainRoutes, TypeOK, KindInv, [Next]_vars
    PROVE  KindInv'
  <1>0. UNCHANGED <<pending, answered, stdin>> => KindInv'
    BY DEF KindInv
  <1>1. ASSUME NEW kind \in {"input", "command"}, BeginRequest(kind)
        PROVE  KindInv'
    <2> DEFINE call == [kind |-> kind, turn |-> turn + 1, previous |-> "idle"]
    <2>1. call \in Call /\ call.kind \in {"input", "command"} /\ call.turn # 0
      <3>1. turn + 1 \in Turns /\ turn + 1 # 0
        BY <1>1, BoundsAssumption DEF BeginRequest, TypeOK, Turns
      <3> QED
        BY <3>1 DEF Call
    <2>2. Send(call)
      BY <1>1 DEF BeginRequest
    <2> HIDE DEF call
    <2> QED
      BY <2>1, <2>2, SendKind
  <1>2. CASE Client
    <2>1. CASE Input \/ Command
      BY <1>1, <2>1 DEF Input, Command
    <2>2. CASE Steer \/ Compact
      BY <2>2 DEF PlainRoutes, Steer, Compact
    <2>3. CASE Abort
      <3> DEFINE call == [NewCall("abort") EXCEPT !.previous = requestState]
      <3>1. call \in Call /\ call.kind = "abort" /\ Send(call)
        BY <2>3 DEF Abort, NewCall, Call, TypeOK
      <3> HIDE DEF call
      <3> QED
        BY <3>1, SendKind
    <2>4. CASE Close
      BY <1>0, <2>4 DEF Close, rpc
    <2> QED
      BY <1>2, <2>1, <2>2, <2>3, <2>4 DEF Client
  <1>3. CASE UiResponse
    <2>1. CASE pi.alive
      <3>1. NewCall("ui") \in Call /\ NewCall("ui").kind = "ui"
        BY NewCallType DEF NewCall, TypeOK
      <3>2. Send(NewCall("ui"))
        BY <1>3, <2>1 DEF UiResponse
      <3> QED
        BY <2>1, <3>1, <3>2, SendKind
    <2>2. CASE ~pi.alive
      BY <1>0, <1>3, <2>2 DEF UiResponse, rpc
    <2> QED
      BY <2>1, <2>2
  <1>4. ASSUME NEW a \in answered, Continue(a)
        PROVE  KindInv'
    <2>1. a.call.kind # "compact"
      BY DEF KindInv
    <2>2. answered' = answered \ {a} /\ UNCHANGED <<pending, stdin>>
      BY <1>4, <2>1 DEF Continue
    <2> QED
      BY <2>2 DEF KindInv
  <1>5. CASE ReadLine
    <2>1. ASSUME NEW line, ReadResponse(line)
          PROVE  KindInv'
      BY <2>1 DEF ReadResponse, KindInv
    <2>2. UNCHANGED <<pending, answered, stdin>> \/ ReadResponse(Head(stdout))
      BY <1>5 DEF ReadLine, HandleEvent, rpc
    <2> QED
      BY <1>0, <2>1, <2>2
  <1>6. CASE PiReads
    <2>1. stdin \in Seq(Call) /\ stdin # <<>> /\ stdin' = Tail(stdin)
          /\ UNCHANGED <<pending, answered>>
      BY <1>6 DEF PiReads, TypeOK
    <2>2. \A i \in 1 .. Len(stdin') :
             i + 1 \in 1 .. Len(stdin) /\ stdin'[i] = stdin[i + 1]
      BY <2>1
    <2> QED
      BY <2>1, <2>2 DEF KindInv
  <1>7. CASE ChildClosed
    <2>1. /\ answered' = answered \cup {[call |-> c, ok |-> FALSE] : c \in pending}
          /\ pending' = {} /\ stdin' = <<>>
      BY <1>7 DEF ChildClosed
    <2>2. \A a \in answered' : a \in answered \/ a.call \in pending
      BY <2>1
    <2> QED
      BY <2>1, <2>2 DEF KindInv
  <1>8. CASE PiWorks \/ PiSettles \/ PiEndsCommand \/ PiEndsCompaction \/ PiDies
    BY <1>0, <1>8 DEF PiWorks, PiReports, PiSettles, PiEndsCommand,
       PiEndsCompaction, PiDies, rpc
  <1>9. CASE UNCHANGED vars
    BY <1>0, <1>9 DEF vars, rpc
  <1> QED
    BY <1>2, <1>3, <1>4, <1>5, <1>6, <1>7, <1>8, <1>9 DEF Next

\* What is left alone stays at its stage.
LEMMA Unmoved ==
    /\ stdin' = stdin => Asked' = Asked /\ Replies' = Replies
    /\ stdout' = stdout =>
          /\ Ended' = Ended /\ Asking' = Asking
          /\ Behind(stdout, BusyLines, EndLines)
                => Behind(stdout, BusyLines, EndLines)'
    /\ answered' = answered => Endings' = Endings
    /\ pi' = pi => (Works' <=> Works)
  <1>1. stdin' = stdin => Asked' = Asked /\ Replies' = Replies
    BY DEF Asked, Replies
  <1>2. stdout' = stdout => Ended' = Ended /\ Asking' = Asking
    BY DEF Ended, Asking
  <1>3. stdout' = stdout =>
           (Behind(stdout, BusyLines, EndLines)
              => Behind(stdout, BusyLines, EndLines)')
    BY DEF Behind, Hits, BusyLines, EndLines, Lines, Event, Response, Call
  <1>4. answered' = answered => Endings' = Endings
    BY DEF Endings
  <1>5. pi' = pi => (Works' <=> Works)
    BY DEF Works
  <1> QED
    BY <1>1, <1>2, <1>3, <1>4, <1>5

\* A request begins when nothing is at any stage.
LEMMA BeginsAlive ==
    ASSUME TypeOK, AliveInv, pi.alive, NEW kind \in {"input", "command"},
           BeginRequest(kind)
    PROVE  AliveInv'
  <1> DEFINE call == [kind |-> kind, turn |-> turn + 1, previous |-> "idle"]
  <1>1. call \in Call /\ call \in PromptCalls /\ call \notin UiCalls
    <2>1. turn + 1 \in Turns
      BY BoundsAssumption DEF BeginRequest, TypeOK, Turns
    <2> QED
      BY <2>1 DEF Call, PromptCalls, UiCalls
  <1>2. Send(call) /\ requestState = "idle" /\ requestState' = kind
        /\ UNCHANGED <<dialog, stdout, pi>>
    BY DEF BeginRequest
  <1>3. stdin' = Append(stdin, call) /\ answered' = answered
    BY <1>2 DEF Send
  <1> HIDE DEF call
  <1>4. /\ Asked = {} /\ ~Works /\ Ended = {} /\ Endings = {}
        /\ ~pi.asking /\ Replies = {} /\ Asking = {} /\ ~dialog
    BY <1>2 DEF AliveInv, TurnInv, DialogInv
  <1>5. AtMostOne(Asked') /\ Replies' = {}
    BY <1>1, <1>3, <1>4, StdinGrows
  <1>6. /\ Ended' = {} /\ Asking' = {} /\ Endings' = {} /\ ~Works'
        /\ Behind(stdout, BusyLines, EndLines)'
    BY <1>2, <1>3, <1>4, Unmoved DEF AliveInv, LineInv
  <1>7. TurnInv'
    BY <1>2, <1>5, <1>6 DEF TurnInv, AtMostOne, AliveInv
  <1>8. LineInv'
    BY <1>6 DEF LineInv
  <1>9. DialogInv'
    BY <1>2, <1>4, <1>5, <1>6 DEF DialogInv, AtMostOne
  <1>10. ShownInv'
    BY <1>2 DEF ShownInv
  <1> QED
    BY <1>7, <1>8, <1>9, <1>10 DEF AliveInv

LEMMA AbortAlive ==
    ASSUME TypeOK, AliveInv, pi.alive, Abort
    PROVE  AliveInv'
  <1> DEFINE call == [NewCall("abort") EXCEPT !.previous = requestState]
  <1>1. call \in Call /\ call \notin PromptCalls /\ call \notin UiCalls
    BY DEF Abort, NewCall, Call, TypeOK, PromptCalls, UiCalls
  <1>2. Send(call) /\ requestState' = "aborting"
        /\ UNCHANGED <<dialog, stdout, pi>>
    BY DEF Abort
  <1>3. stdin' = Append(stdin, call) /\ answered' = answered
    BY <1>1, <1>2 DEF Send
  <1> HIDE DEF call
  <1>4. Asked' = Asked /\ Replies' = Replies
    BY <1>1, <1>3, StdinGrows
  <1>5. /\ Ended' = Ended /\ Asking' = Asking /\ Endings' = Endings
        /\ (Works' <=> Works)
        /\ Behind(stdout, BusyLines, EndLines)
              => Behind(stdout, BusyLines, EndLines)'
    BY <1>2, <1>3, Unmoved
  <1>6. TurnInv' /\ LineInv'
    BY <1>2, <1>4, <1>5 DEF AliveInv, TurnInv, LineInv
  <1>7. DialogInv' /\ ShownInv'
    BY <1>2, <1>4, <1>5 DEF AliveInv, DialogInv, ShownInv
  <1> QED
    BY <1>6, <1>7 DEF AliveInv

\* The answer to a dialog goes to a turn or a command that waits for it.
LEMMA UiAlive ==
    ASSUME TypeOK, AliveInv, pi.alive, UiResponse
    PROVE  AliveInv'
  <1> DEFINE call == NewCall("ui")
  <1>1. call \in Call /\ call \notin PromptCalls /\ call \in UiCalls
    <2>1. call \in Call
      BY NewCallType DEF TypeOK
    <2> QED
      BY <2>1 DEF NewCall, PromptCalls, UiCalls
  <1>2. stdin' = Append(stdin, call) /\ answered' = answered
        /\ UNCHANGED <<requestState, stdout, pi>> /\ dialog /\ ~dialog'
    BY DEF UiResponse, Send
  <1> HIDE DEF call
  <1>3. /\ pi.asking /\ Works /\ Replies = {} /\ Asking = {}
        /\ requestState # "idle"
    BY <1>2 DEF AliveInv, TurnInv, DialogInv
  <1>4. Asked' = Asked /\ AtMostOne(Replies')
    BY <1>1, <1>2, <1>3, StdinGrows
  <1>5. /\ Ended' = Ended /\ Asking' = Asking /\ Endings' = Endings
        /\ (Works' <=> Works)
        /\ Behind(stdout, BusyLines, EndLines)
              => Behind(stdout, BusyLines, EndLines)'
    BY <1>2, Unmoved
  <1>6. TurnInv' /\ LineInv'
    BY <1>2, <1>3, <1>4, <1>5 DEF AliveInv, TurnInv, LineInv
  <1>7. DialogInv' /\ ShownInv'
    BY <1>2, <1>3, <1>4, <1>5 DEF AliveInv, DialogInv, ShownInv, AtMostOne
  <1> QED
    BY <1>6, <1>7 DEF AliveInv

\* What drops the lock was the last thing at any stage.
LEMMA ContinueAlive ==
    ASSUME TypeOK, KindInv, AliveInv, NEW a \in answered, Continue(a), pi'.alive
    PROVE  AliveInv'
  <1>0. /\ a \in Answer /\ a.ok \in BOOLEAN /\ a.call \in Call
        /\ a.call.kind \in {"input", "command", "abort"}
    BY DEF TypeOK, KindInv, Answer
  <1>1. /\ answered' = answered \ {a} /\ UNCHANGED <<stdin, stdout, dialog>>
        /\ Continuation(a.call, a.ok)
    BY <1>0 DEF Continue
  <1>2. pi' = pi
    <2>1. pi' = [pi EXCEPT !.alive = FALSE] => ~pi'.alive
      BY DEF TypeOK, PiProcess
    <2> QED
      BY <2>1 DEF Continue, CloseAfter
  <1>3. Endings' \subseteq Endings /\ (a \in Endings => Endings' = {} \/ ~AtMostOne(Endings))
    <2>1. Endings' = Endings \ {a}
      BY <1>1 DEF Endings
    <2> QED
      BY <2>1 DEF AtMostOne
  <1>4. /\ Asked' = Asked /\ Replies' = Replies /\ Ended' = Ended
        /\ Asking' = Asking /\ (Works' <=> Works)
        /\ Behind(stdout, BusyLines, EndLines)
              => Behind(stdout, BusyLines, EndLines)'
    BY <1>1, <1>2, Unmoved
  <1>5. LineInv' /\ DialogInv'
    BY <1>1, <1>2, <1>4 DEF AliveInv, LineInv, DialogInv
  <1>6. ASSUME requestState' # "idle" \/ UNCHANGED <<requestState, activity>>
        PROVE  AliveInv'
    <2>1. AtMostOne(Endings')
      BY <1>3 DEF AliveInv, TurnInv, AtMostOne
    <2>2. TurnInv'
      BY <1>2, <1>3, <1>4, <1>6, <2>1 DEF AliveInv, TurnInv
    <2>3. ShownInv'
      BY <1>6 DEF AliveInv, ShownInv
    <2> QED
      BY <1>5, <2>2, <2>3 DEF AliveInv
  <1>7. ASSUME NEW outcome \in {"done", "error"}, FinishRequest(outcome),
               a \in Endings
        PROVE  AliveInv'
    <2>1. Endings' = {} /\ Asked' = {} /\ Ended' = {} /\ ~Works'
      BY <1>3, <1>4, <1>7 DEF AliveInv, TurnInv
    <2>2. TurnInv'
      BY <1>2, <2>1 DEF AliveInv, TurnInv, AtMostOne
    <2>3. ShownInv'
      BY <1>7 DEF ShownInv, FinishRequest, PublishFinal
    <2> QED
      BY <1>5, <2>2, <2>3 DEF AliveInv
  <1>8. CASE a.call.kind = "input"
    <2>1. ContinueInput(a.ok)
      BY <1>1, <1>8 DEF Continuation
    <2>2. CASE a.ok
      BY <1>6, <2>1, <2>2 DEF ContinueInput, shell
    <2>3. CASE ~a.ok
      <3>1. a \in Endings /\ FinishRequest("error")
        BY <1>8, <2>1, <2>3 DEF Endings, Ends, ContinueInput
      <3> QED
        BY <1>7, <3>1
    <2> QED
      BY <2>2, <2>3
  <1>9. CASE a.call.kind = "command"
    <2>1. ContinueCommand(a.ok) /\ a \in Endings
      BY <1>1, <1>9 DEF Continuation, Endings, Ends
    <2>2. UNCHANGED shell \/ \E outcome \in {"done", "error"} : FinishRequest(outcome)
      BY <2>1 DEF ContinueCommand, SettleCommand
    <2> QED
      BY <1>6, <1>7, <2>1, <2>2 DEF shell
  <1>10. CASE a.call.kind = "abort"
    <2>1. ContinueAbort(a.ok, a.call.previous)
      BY <1>1, <1>10 DEF Continuation
    <2>2. a.call.previous \in {"input", "command"}
      BY <1>0, <1>10 DEF Call
    <2> QED
      BY <1>6, <2>1, <2>2 DEF ContinueAbort, shell
  <1> QED
    BY <1>0, <1>8, <1>9, <1>10

\* A report of Pi is read while the lock is held.
LEMMA BusyRead ==
    ASSUME TypeOK, AliveInv, stdout # <<>>, stdout' = Tail(stdout),
           Head(stdout) \in BusyLines
    PROVE  requestState # "idle"
  <1>1. Hits(stdout, BusyLines) # {}
    BY StdoutShrinks
  <1>2. ~Works => Ended # {}
    BY <1>1 DEF AliveInv, LineInv, Behind, Ended
  <1> QED
    BY <1>2 DEF AliveInv, TurnInv

LEMMA ReadAlive ==
    ASSUME TypeOK, AliveInv, ReadLine
    PROVE  AliveInv'
  <1> DEFINE line == Head(stdout)
  <1>0. stdout # <<>> /\ stdout' = Tail(stdout) /\ pi' = pi
    BY DEF ReadLine
  <1>1. /\ line \in Lines
        /\ Ended = {} => Ended' = {}
        /\ Asking = {} => Asking' = {}
        /\ AtMostOne(Ended) => AtMostOne(Ended')
        /\ AtMostOne(Asking) => AtMostOne(Asking')
        /\ line \in EndLines => Ended # {} /\ (AtMostOne(Ended) => Ended' = {})
        /\ line \in AskLines => Asking # {} /\ (AtMostOne(Asking) => Asking' = {})
        /\ Behind(stdout, BusyLines, EndLines) => Behind(stdout, BusyLines, EndLines)'
    BY <1>0, StdoutShrinks
  <1>2. Works' <=> Works
    BY <1>0, Unmoved
  <1>3. LineInv'
    BY <1>1, <1>2 DEF AliveInv, LineInv
  <1>4. ASSUME dialog' = dialog, stdin' = stdin
        PROVE  DialogInv'
    <2>1. Replies' = Replies
      BY <1>4, Unmoved
    <2> QED
      BY <1>0, <1>1, <1>2, <1>4, <2>1 DEF AliveInv, DialogInv
  <1>5. ASSUME stdin' = stdin, answered' = answered,
               requestState' # "idle" \/ requestState' = requestState
        PROVE  TurnInv'
    <2>1. Asked' = Asked /\ Endings' = Endings
      BY <1>5, Unmoved
    <2> QED
      BY <1>0, <1>1, <1>2, <1>5, <2>1 DEF AliveInv, TurnInv
  <1>6. CASE line.type = "response"
    <2>1. /\ UNCHANGED <<shell, dialog, stdin>>
          /\ \/ answered' = answered
             \/ answered' = answered \cup {[call |-> line.call, ok |-> line.ok]}
      BY <1>6 DEF ReadLine, ReadResponse
    <2>2. Endings' = Endings \/ (line \in EndLines /\
             Endings' = Endings \cup {[call |-> line.call, ok |-> line.ok]})
      <3> DEFINE new == [call |-> line.call, ok |-> line.ok]
      <3>1. new.call = line.call /\ new.ok = line.ok
        OBVIOUS
      <3>2. line \in EndLines <=> Ends(line.call.kind, line.ok)
        BY <1>1, <1>6 DEF EndLines
      <3>3. answered' = answered \/ answered' = answered \cup {new}
        BY <2>1
      <3> HIDE DEF new, line
      <3>4. Endings' = Endings
            \/ (Ends(new.call.kind, new.ok) /\ Endings' = Endings \cup {new})
        <4>1. CASE answered' = answered
          BY <4>1 DEF Endings
        <4>2. CASE answered' = answered \cup {new} /\ Ends(new.call.kind, new.ok)
          BY <4>2 DEF Endings
        <4>3. CASE answered' = answered \cup {new} /\ ~Ends(new.call.kind, new.ok)
          BY <4>3 DEF Endings
        <4> QED
          BY <3>3, <4>1, <4>2, <4>3
      <3> QED
        BY <3>1, <3>2, <3>4 DEF new
    <2>3. Asked' = Asked
      BY <2>1, Unmoved
    <2>4. TurnInv'
      <3>1. CASE Endings' = Endings
        BY <1>0, <1>1, <1>2, <2>1, <2>3, <3>1 DEF AliveInv, TurnInv, shell
      <3>2. CASE Endings' # Endings
        <4>1. Ended # {} /\ Ended' = {}
          BY <1>1, <2>2, <3>2 DEF AliveInv, TurnInv
        <4>2. /\ Asked = {} /\ ~Works /\ Endings = {} /\ requestState # "idle"
          BY <4>1 DEF AliveInv, TurnInv
        <4>3. AtMostOne(Endings')
          BY <2>2, <4>2 DEF AtMostOne
        <4> QED
          BY <1>0, <1>2, <2>1, <2>3, <4>1, <4>2, <4>3
          DEF AliveInv, TurnInv, AtMostOne, shell
      <3> QED
        BY <3>1, <3>2
    <2>5. ShownInv'
      BY <2>1 DEF AliveInv, ShownInv, shell
    <2> QED
      BY <1>3, <1>4, <2>1, <2>4, <2>5 DEF AliveInv
  <1>7. CASE line.type # "response" /\ closed
    <2>1. UNCHANGED <<shell, dialog, rpc>>
      BY <1>7 DEF ReadLine
    <2>2. ShownInv'
      BY <2>1 DEF AliveInv, ShownInv, shell
    <2> QED
      BY <1>3, <1>4, <1>5, <2>1, <2>2 DEF AliveInv, shell, rpc
  <1>8. CASE line.type = "agent_settled" /\ ~closed
    <2>1. AgentSettled /\ dialog' = dialog /\ UNCHANGED rpc
      BY <1>8 DEF ReadLine, HandleEvent, TypeOK
    <2>2. line \in EndLines
      BY <1>1, <1>8 DEF EndLines
    <2>3. Ended # {} /\ Ended' = {}
      BY <1>1, <2>2 DEF AliveInv, TurnInv
    <2>4. Asked = {} /\ ~Works /\ Endings = {} /\ requestState # "idle"
      BY <2>3 DEF AliveInv, TurnInv
    <2>5. Asked' = {} /\ Endings' = {}
      BY <2>1, <2>4, Unmoved DEF rpc
    <2>6. TurnInv'
      BY <1>0, <1>2, <2>3, <2>4, <2>5 DEF AliveInv, TurnInv, AtMostOne
    <2>7. \E outcome \in {"done", "error"} : FinishRequest(outcome)
      BY <2>1, <2>4 DEF AgentSettled
    <2>8. ShownInv'
      BY <2>7 DEF ShownInv, FinishRequest, PublishFinal
    <2> QED
      BY <1>3, <1>4, <2>1, <2>6, <2>8 DEF AliveInv, rpc
  <1>9. CASE line.type \notin {"response", "agent_settled"} /\ ~closed
    <2>1. line \in BusyLines
      BY <1>1, <1>9 DEF BusyLines
    <2>2. requestState # "idle"
      BY <1>0, <2>1, BusyRead
    <2>3. HandleEvent(line) /\ UNCHANGED rpc
      BY <1>9 DEF ReadLine, HandleEvent
    <2>4. requestState' = requestState
      BY <1>9, <2>2, <2>3 DEF HandleEvent, AgentStart, Text, ModelError, Tool, Ask,
         CompactionStart, ExtensionError, NotifyError, CompactionEnd, shell
    <2>5. ShownInv'
      BY <2>2, <2>4 DEF ShownInv
    <2>6. DialogInv'
      <3>1. CASE line.type = "ask"
        <4>1. line \in AskLines /\ dialog'
          BY <1>1, <2>3, <3>1 DEF AskLines, HandleEvent
        <4>2. Asking # {} /\ Asking' = {}
          BY <1>1, <4>1 DEF AliveInv, DialogInv
        <4>3. Replies' = Replies
          BY <2>3, Unmoved DEF rpc
        <4> QED
          BY <1>0, <1>2, <4>2, <4>3 DEF AliveInv, DialogInv, AtMostOne
      <3>2. CASE line.type # "ask"
        <4>1. dialog' = dialog
          BY <2>3, <3>2 DEF HandleEvent, TypeOK
        <4> QED
          BY <1>4, <2>3, <4>1 DEF rpc
      <3> QED
        BY <3>1, <3>2
    <2> QED
      BY <1>3, <1>5, <2>3, <2>4, <2>5, <2>6 DEF AliveInv, rpc
  <1> QED
    BY <1>6, <1>7, <1>8, <1>9

\* Pi takes up what it is asked.
LEMMA StartAlive ==
    ASSUME TypeOK, AliveInv, stdin # <<>>, stdin' = Tail(stdin),
           NEW call, call = Head(stdin), call.kind = "input", call.turn # 0,
           ServePrompt(call),
           UNCHANGED <<requestState, activity, dialog, answered>>
    PROVE  AliveInv'
  <1>1. call \in Call /\ call \in PromptCalls /\ Asked # {} /\ Asked' = {}
        /\ (Replies = {} => Replies' = {})
    <2>1. call \in Call /\ call \in PromptCalls
      BY StdinShrinks DEF PromptCalls
    <2> QED
      BY <2>1, StdinShrinks DEF AliveInv, TurnInv
  <1>2. /\ ~Works /\ Ended = {} /\ Endings = {} /\ requestState # "idle"
        /\ ~pi.asking /\ Asking = {} /\ ~dialog /\ Replies = {}
        /\ Behind(stdout, BusyLines, EndLines)
    BY <1>1 DEF AliveInv, TurnInv, DialogInv, LineInv
  <1>3. Endings' = {} /\ Replies' = {}
    BY <1>1, <1>2, Unmoved
  <1>4. ShownInv'
    BY <1>2 DEF ShownInv
  <1>5. CASE StartAgent(call)
    <2> DEFINE lines == <<Reply(call, TRUE), Line("agent_start", TRUE)>>
    <2>1. /\ Reply(call, TRUE) \in Lines /\ Line("agent_start", TRUE) \in Lines
          /\ Reply(call, TRUE) \notin EndLines /\ Reply(call, TRUE) \notin AskLines
          /\ Line("agent_start", TRUE) \notin EndLines
          /\ Line("agent_start", TRUE) \notin AskLines
      BY <1>1, ReplyIs, LineIs DEF EventType, Ends
    <2>2. lines \in Seq(Lines)
      BY <2>1, ShortSeq
    <2>3. \A i \in 1 .. Len(lines) : lines[i] \notin EndLines /\ lines[i] \notin AskLines
      BY <2>1, NoneOfTwo
    <2>4. stdout' = stdout \o lines /\ stdout \in Seq(Lines)
      BY <1>5 DEF StartAgent, Write, TypeOK, Lines
    <2> HIDE DEF lines
    <2>5. Ended' = {} /\ Asking' = {}
      BY <1>2, <2>2, <2>3, <2>4, HitsJoin DEF Ended, Asking
    <2>6. pi' = [pi EXCEPT !.agent = call.turn, !.failed = FALSE] /\ pi \in PiProcess
      BY <1>5 DEF StartAgent, TypeOK
    <2>7. Works' /\ pi'.commands = {} /\ ~pi'.asking
      BY <1>2, <2>6 DEF Works, PiProcess
    <2>8. TurnInv'
      BY <1>1, <1>2, <1>3, <2>5, <2>7 DEF TurnInv, AtMostOne
    <2>9. LineInv' /\ DialogInv'
      BY <1>2, <1>3, <2>5, <2>7 DEF LineInv, DialogInv, AtMostOne
    <2> QED
      BY <1>4, <2>8, <2>9 DEF AliveInv
  <1>6. CASE Refuse(call)
    <2>1. /\ Reply(call, FALSE) \in Lines /\ Reply(call, FALSE) \in EndLines
          /\ Reply(call, FALSE) \notin AskLines /\ Reply(call, FALSE) \notin BusyLines
      BY <1>1, ReplyIs DEF Ends
    <2>2. pi' = pi /\ Write(<<Reply(call, FALSE)>>)
      BY <1>6 DEF Refuse
    <2>3. AtMostOne(Ended') /\ Asking' = {} /\ Behind(stdout, BusyLines, EndLines)'
      BY <1>2, <2>1, <2>2, StdoutGrows
    <2>4. ~Works'
      BY <1>2, <2>2, Unmoved
    <2>5. TurnInv'
      BY <1>1, <1>2, <1>3, <2>2, <2>3, <2>4 DEF AliveInv, TurnInv, AtMostOne
    <2>6. LineInv' /\ DialogInv'
      BY <1>2, <1>3, <2>2, <2>3, <2>4 DEF LineInv, DialogInv, AtMostOne
    <2> QED
      BY <1>4, <2>5, <2>6 DEF AliveInv
  <1> QED
    BY <1>5, <1>6 DEF ServePrompt

LEMMA PiReadsAlive ==
    ASSUME TypeOK, KindInv, AliveInv, PiReads
    PROVE  AliveInv'
  <1>0. PICK call : call = Head(stdin)
    OBVIOUS
  <1>1. /\ stdin # <<>> /\ stdin' = Tail(stdin) /\ Serve(call)
        /\ UNCHANGED <<requestState, activity, dialog, answered>>
    BY <1>0 DEF PiReads, shell
  <1>2. /\ call \in Call /\ call.kind \in {"input", "command", "abort", "ui"}
        /\ call.kind = "input" => call.turn # 0
    <2>1. stdin[1] = call /\ 1 \in 1 .. Len(stdin)
      BY <1>0, <1>1 DEF TypeOK
    <2> QED
      BY <1>0, <1>1, <2>1, StdinShrinks DEF KindInv
  <1>3. /\ Asked = {} => Asked' = {}
        /\ Replies = {} => Replies' = {}
        /\ AtMostOne(Asked) => AtMostOne(Asked')
        /\ AtMostOne(Replies) => AtMostOne(Replies')
        /\ call \in PromptCalls => Asked # {} /\ (AtMostOne(Asked) => Asked' = {})
        /\ call \in UiCalls => Replies # {} /\ (AtMostOne(Replies) => Replies' = {})
    BY <1>0, <1>1, StdinShrinks
  <1>4. Endings' = Endings
    BY <1>1, Unmoved
  <1>5. ShownInv'
    BY <1>1 DEF AliveInv, ShownInv
  <1>6. pi \in PiProcess
    BY DEF TypeOK
  <1>7. CASE call.kind = "input"
    BY <1>0, <1>1, <1>2, <1>7, StartAlive DEF Serve
  <1>8. CASE call.kind = "command"
    <2>1. /\ pi' = [pi EXCEPT !.commands = @ \cup {call.turn}] /\ stdout' = stdout
      BY <1>1, <1>8 DEF Serve
    <2>2. call \in PromptCalls
      BY <1>2, <1>8 DEF PromptCalls
    <2>3. /\ Asked' = {} /\ ~Works /\ Ended = {} /\ Endings = {}
          /\ requestState # "idle" /\ ~pi.asking /\ Asking = {} /\ ~dialog
          /\ Replies = {}
      BY <1>3, <2>2 DEF AliveInv, TurnInv, DialogInv
    <2>4. Ended' = {} /\ Asking' = {} /\ Replies' = {} /\ Endings' = {}
      BY <1>3, <1>4, <2>1, <2>3, Unmoved
    <2>5. pi'.agent = 0 /\ pi'.commands = {call.turn} /\ ~pi'.asking
      BY <1>6, <2>1, <2>3 DEF PiProcess, Works
    <2>6. TurnInv'
      BY <1>1, <2>3, <2>4, <2>5 DEF TurnInv, AtMostOne
    <2>7. LineInv' /\ DialogInv'
      BY <1>1, <2>3, <2>4, <2>5 DEF LineInv, DialogInv, AtMostOne, Works
    <2> QED
      BY <1>5, <2>6, <2>7 DEF AliveInv
  <1>9. CASE call.kind = "abort"
    <2>1. pi' = pi /\ Write(<<Reply(call, TRUE)>>)
      BY <1>1, <1>9 DEF Serve, ServeAbort
    <2>2. /\ Reply(call, TRUE) \in Lines /\ Reply(call, TRUE) \notin EndLines
          /\ Reply(call, TRUE) \notin AskLines /\ Reply(call, TRUE) \notin BusyLines
      BY <1>2, <1>9, ReplyIs DEF Ends
    <2>3. /\ Ended' = Ended /\ Asking' = Asking
          /\ Behind(stdout, BusyLines, EndLines)
                => Behind(stdout, BusyLines, EndLines)'
      BY <2>1, <2>2, StdoutGrows
    <2>4. Works' <=> Works
      BY <2>1, Unmoved
    <2>5. TurnInv'
      BY <1>1, <1>3, <1>4, <2>1, <2>3, <2>4 DEF AliveInv, TurnInv
    <2>6. LineInv' /\ DialogInv'
      BY <1>1, <1>3, <2>1, <2>3, <2>4 DEF AliveInv, LineInv, DialogInv
    <2> QED
      BY <1>5, <2>5, <2>6 DEF AliveInv
  <1>10. CASE call.kind = "ui"
    <2>1. pi' = [pi EXCEPT !.asking = FALSE] /\ stdout' = stdout
      BY <1>1, <1>10 DEF Serve
    <2>2. call \in UiCalls
      BY <1>2, <1>10 DEF UiCalls
    <2>3. Replies' = {} /\ ~dialog /\ Asking = {}
      BY <1>3, <2>2 DEF AliveInv, DialogInv
    <2>4. /\ Ended' = Ended /\ Asking' = {}
          /\ Behind(stdout, BusyLines, EndLines)
                => Behind(stdout, BusyLines, EndLines)'
      BY <2>1, <2>3, Unmoved
    <2>5. /\ pi'.agent = pi.agent /\ pi'.commands = pi.commands /\ ~pi'.asking
          /\ (Works' <=> Works)
      BY <1>6, <2>1 DEF PiProcess, Works
    <2>6. TurnInv'
      BY <1>1, <1>3, <1>4, <2>4, <2>5 DEF AliveInv, TurnInv
    <2>7. LineInv' /\ DialogInv'
      BY <1>1, <2>3, <2>4, <2>5 DEF AliveInv, LineInv, DialogInv, AtMostOne
    <2> QED
      BY <1>5, <2>6, <2>7 DEF AliveInv
  <1> QED
    BY <1>2, <1>7, <1>8, <1>9, <1>10

\* A running request reports, asks and ends.
LEMMA ReportsAlive ==
    ASSUME TypeOK, AliveInv, NEW type \in {"text", "model_error",
              "extension_error", "notify_error", "tool", "ask"},
           PiReports(type)
    PROVE  AliveInv'
  <1>1. PICK line : line = Line(type, TRUE)
    OBVIOUS
  <1>2. /\ line \in Lines /\ line \notin EndLines
        /\ line \in AskLines <=> type = "ask"
    BY <1>1, LineIs DEF EventType
  <1>3. /\ Write(<<line>>)
        /\ UNCHANGED <<requestState, activity, dialog, stdin, answered>>
        /\ ~pi.asking
    BY <1>1 DEF PiReports, shell, rpc
  <1>4. pi.agent # 0 \/ pi.commands # {}
    BY DEF PiReports
  <1>5. /\ pi'.agent = pi.agent /\ pi'.commands = pi.commands
        /\ pi'.asking = (type = "ask")
    BY DEF PiReports, TypeOK, PiProcess
  <1>6. Works /\ Works'
    BY <1>4, <1>5 DEF Works
  <1>7. /\ Ended' = Ended /\ AtMostOne(Asking')
        /\ (type # "ask" => Asking' = {})
    BY <1>2, <1>3, StdoutGrows DEF AliveInv, DialogInv
  <1>8. Asked' = Asked /\ Replies' = Replies /\ Endings' = Endings
    BY <1>3, Unmoved
  <1>9. TurnInv'
    BY <1>3, <1>5, <1>6, <1>7, <1>8 DEF AliveInv, TurnInv
  <1>10. DialogInv'
    BY <1>3, <1>5, <1>6, <1>7, <1>8 DEF AliveInv, DialogInv
  <1>11. LineInv' /\ ShownInv'
    BY <1>3, <1>6 DEF AliveInv, LineInv, ShownInv
  <1> QED
    BY <1>9, <1>10, <1>11 DEF AliveInv

\* The last line of a turn or of a fixed command.
LEMMA EndsAlive ==
    ASSUME TypeOK, AliveInv, ~pi.asking, Works,
           ~pi'.asking, pi'.agent = 0, pi'.commands = {},
           NEW line \in Lines, line \in EndLines,
           line \notin BusyLines, line \notin AskLines, Write(<<line>>),
           UNCHANGED <<requestState, activity, dialog, stdin, answered>>
    PROVE  AliveInv'
  <1>1. /\ Asked = {} /\ Ended = {} /\ Endings = {} /\ requestState # "idle"
        /\ Asking = {} /\ ~dialog /\ Replies = {}
    BY DEF AliveInv, TurnInv, DialogInv
  <1>2. /\ AtMostOne(Ended') /\ Asking' = {}
        /\ Behind(stdout, BusyLines, EndLines)'
    BY <1>1, StdoutGrows
  <1>3. Asked' = {} /\ Replies' = {} /\ Endings' = {}
    BY <1>1, Unmoved
  <1>4. ~Works'
    BY DEF Works
  <1>5. TurnInv'
    BY <1>1, <1>2, <1>3, <1>4 DEF TurnInv, AtMostOne
  <1>6. LineInv' /\ DialogInv' /\ ShownInv'
    BY <1>1, <1>2, <1>3, <1>4 DEF LineInv, DialogInv, ShownInv, AtMostOne
  <1> QED
    BY <1>5, <1>6 DEF AliveInv

LEMMA SettlesAlive ==
    ASSUME TypeOK, AliveInv, PiSettles
    PROVE  AliveInv'
  <1>1. PICK line : line = Line("agent_settled", ~pi.failed)
    OBVIOUS
  <1>2. /\ line \in Lines /\ line \in EndLines
        /\ line \notin BusyLines /\ line \notin AskLines
    <2>1. (~pi.failed) \in BOOLEAN
      BY DEF TypeOK, PiProcess
    <2> QED
      BY <1>1, <2>1, LineIs DEF EventType
  <1>3. /\ Write(<<line>>) /\ ~pi.asking /\ pi.agent # 0
        /\ UNCHANGED <<requestState, activity, dialog, stdin, answered>>
    BY <1>1 DEF PiSettles, shell, rpc
  <1>4. pi.commands = {}
    BY <1>3 DEF AliveInv, TurnInv
  <1>5. ~pi'.asking /\ pi'.agent = 0 /\ pi'.commands = {}
    BY <1>3, <1>4 DEF PiSettles, TypeOK, PiProcess
  <1>6. Works
    BY <1>3 DEF Works
  <1> QED
    BY <1>2, <1>3, <1>5, <1>6, EndsAlive

LEMMA EndsCommandAlive ==
    ASSUME TypeOK, AliveInv, PiEndsCommand
    PROVE  AliveInv'
  <1>1. PICK call \in pending, ok \in BOOLEAN :
           /\ call.kind = "command" /\ call.turn \in pi.commands
           /\ pi' = [pi EXCEPT !.commands = @ \ {call.turn}]
           /\ Write(<<Reply(call, ok)>>)
    BY DEF PiEndsCommand
  <1>2. PICK line : line = Reply(call, ok)
    OBVIOUS
  <1>3. /\ line \in Lines /\ line \in EndLines
        /\ line \notin BusyLines /\ line \notin AskLines
    BY <1>1, <1>2, ReplyIs DEF TypeOK, Ends
  <1>4. /\ Write(<<line>>) /\ ~pi.asking
        /\ UNCHANGED <<requestState, activity, dialog, stdin, answered>>
    BY <1>1, <1>2 DEF PiEndsCommand, shell, rpc
  <1>5. pi.agent = 0 /\ pi.commands \ {call.turn} = {}
    BY <1>1 DEF AliveInv, TurnInv, AtMostOne
  <1>6. ~pi'.asking /\ pi'.agent = 0 /\ pi'.commands = {}
    BY <1>1, <1>4, <1>5 DEF TypeOK, PiProcess
  <1>7. Works
    BY <1>1 DEF Works
  <1> QED
    BY <1>3, <1>4, <1>6, <1>7, EndsAlive

LEMMA LockSteps ==
    ASSUME PlainRoutes, TypeOK, LockInv, [Next]_vars
    PROVE  LockInv'
  <1>1. KindInv' /\ KindInv
    BY KindSteps DEF LockInv
  <1>2. SUFFICES ASSUME pi'.alive PROVE AliveInv'
    BY <1>1 DEF LockInv
  <1>a. ASSUME pi.alive PROVE AliveInv
    BY <1>a DEF LockInv
  <1>d. ASSUME pi' = [pi EXCEPT !.alive = FALSE] PROVE FALSE
    BY <1>2, <1>d DEF TypeOK, PiProcess
  <1>s. ASSUME pi' = pi, UNCHANGED <<requestState, activity, dialog, stdin,
                                     stdout, answered>>
        PROVE  AliveInv'
    <2>1. AliveInv
      BY <1>2, <1>a, <1>s
    <2>2. /\ Asked' = Asked /\ Replies' = Replies /\ Ended' = Ended
          /\ Asking' = Asking /\ Endings' = Endings /\ (Works' <=> Works)
          /\ Behind(stdout, BusyLines, EndLines)
                => Behind(stdout, BusyLines, EndLines)'
      BY <1>s, Unmoved
    <2>3. TurnInv' /\ LineInv'
      BY <1>s, <2>1, <2>2 DEF AliveInv, TurnInv, LineInv
    <2>4. DialogInv' /\ ShownInv'
      BY <1>s, <2>1, <2>2 DEF AliveInv, DialogInv, ShownInv
    <2> QED
      BY <2>3, <2>4 DEF AliveInv
  <1>3. CASE Client
    <2>1. CASE Input \/ Command
      <3>1. \E kind \in {"input", "command"} : BeginRequest(kind)
        BY <2>1 DEF Input, Command
      <3>2. pi.alive
        BY <1>2, <3>1 DEF BeginRequest
      <3> QED
        BY <1>a, <3>1, <3>2, BeginsAlive
    <2>2. CASE Steer \/ Compact
      BY <2>2 DEF PlainRoutes, Steer, Compact
    <2>3. CASE Abort
      <3>1. pi.alive
        BY <1>2, <2>3 DEF Abort
      <3> QED
        BY <1>a, <2>3, <3>1, AbortAlive
    <2>4. CASE Close
      BY <1>d, <2>4 DEF Close
    <2> QED
      BY <1>3, <2>1, <2>2, <2>3, <2>4 DEF Client
  <1>4. CASE UiResponse
    <2>1. pi.alive
      BY <1>2, <1>4 DEF UiResponse
    <2> QED
      BY <1>4, <1>a, <2>1, UiAlive
  <1>5. ASSUME NEW a \in answered, Continue(a)
        PROVE  AliveInv'
    <2>1. pi.alive
      BY <1>2, <1>5, <1>d DEF Continue, CloseAfter
    <2> QED
      BY <1>1, <1>2, <1>5, <1>a, <2>1, ContinueAlive
  <1>6. CASE ReadLine
    <2>1. pi.alive
      BY <1>2, <1>6 DEF ReadLine
    <2> QED
      BY <1>6, <1>a, <2>1, ReadAlive
  <1>7. CASE PiReads
    BY <1>1, <1>7, <1>a, PiReadsAlive DEF PiReads
  <1>8. CASE PiWorks
    <2>1. PICK type \in {"text", "model_error", "extension_error",
                         "notify_error", "tool", "ask"} : PiReports(type)
      BY <1>8 DEF PiWorks
    <2>2. AliveInv
      BY <1>a, <2>1 DEF PiReports
    <2> QED
      BY <2>1, <2>2, ReportsAlive
  <1>9. CASE PiSettles
    BY <1>9, <1>a, SettlesAlive DEF PiSettles
  <1>10. CASE PiEndsCommand
    BY <1>10, <1>a, EndsCommandAlive DEF PiEndsCommand
  <1>11. CASE PiEndsCompaction
    BY <1>1, <1>11 DEF PiEndsCompaction, KindInv
  <1>12. CASE PiDies
    BY <1>12, <1>d DEF PiDies
  <1>13. CASE ChildClosed
    BY <1>2, <1>13 DEF ChildClosed
  <1>14. CASE UNCHANGED vars
    BY <1>14, <1>s DEF vars, shell, rpc
  <1> QED
    BY <1>3, <1>4, <1>5, <1>6, <1>7, <1>8, <1>9, <1>10, <1>11, <1>12, <1>13,
       <1>14 DEF Next

LEMMA InitLock == Init => LockInv
  <1> SUFFICES ASSUME Init PROVE LockInv
    OBVIOUS
  <1>1. stdin = <<>> /\ stdout = <<>> /\ answered = {} /\ pending = {}
    BY DEF Init
  <1>2. Len(<<>>) = 0 /\ 1 .. 0 = {}
    OBVIOUS
  <1>3. /\ Asked = {} /\ Replies = {} /\ Ended = {} /\ Asking = {}
        /\ Endings = {} /\ Hits(stdout, BusyLines) = {}
    BY <1>1, <1>2 DEF Asked, Replies, Ended, Asking, Endings, Hits
  <1>4. KindInv
    BY <1>1, <1>2 DEF KindInv
  <1>5. /\ pi.agent = 0 /\ pi.commands = {} /\ ~pi.asking /\ ~dialog
        /\ activity = "done"
    BY DEF Init
  <1>6. ~Works
    BY <1>5 DEF Works
  <1>7. TurnInv /\ DialogInv
    BY <1>3, <1>5, <1>6 DEF TurnInv, DialogInv, AtMostOne
  <1>8. LineInv /\ ShownInv
    BY <1>3, <1>5 DEF LineInv, ShownInv, Behind
  <1> QED
    BY <1>4, <1>7, <1>8 DEF LockInv, AliveInv

\* While the agent loop or a fixed command runs, or a prompt is on its way to
\* a living Pi, requestState is not idle: no path of the Shell (an answer that
\* fails, an abort, a dialog, a settled turn) drops the lock early.
THEOREM LockCovers ==
    ASSUME PlainRoutes
    PROVE  Spec => []LockCoversPi
  <1>1. Init => TypeOK /\ LockInv
    BY InitType, InitLock
  <1>2. TypeOK /\ LockInv /\ [Next]_vars => LockInv'
    BY LockSteps
  <1>3. TypeOK /\ LockInv => LockCoversPi
    <2> SUFFICES ASSUME TypeOK, LockInv, requestState = "idle", pi.alive
                 PROVE  /\ pi.agent = 0 /\ pi.commands = {}
                        /\ \A i \in DOMAIN stdin :
                              stdin[i].kind \notin {"input", "command"}
      BY DEF LockCoversPi
    <2>1. Asked = {} /\ ~Works
      BY DEF LockInv, AliveInv, TurnInv
    <2>2. stdin \in Seq(Call) /\ DOMAIN stdin = 1 .. Len(stdin)
      BY DEF TypeOK
    <2>3. ASSUME NEW i \in DOMAIN stdin
          PROVE  stdin[i].kind \notin {"input", "command"}
      <3>1. stdin[i] \in Call /\ stdin[i] \notin PromptCalls
        BY <2>1, <2>2, <2>3 DEF Asked, Hits
      <3> QED
        BY <3>1 DEF PromptCalls
    <2> QED
      BY <2>1, <2>3 DEF Works
  <1> QED
    BY <1>1, <1>2, <1>3, ShellTypes, PTL DEF Spec

\* A free lock in front of a quiet Pi shows a final activity: no report that
\* Pi wrote before its last line makes the page busy again.
THEOREM FreeIsShown ==
    ASSUME PlainRoutes
    PROVE  Spec => []IdleIsShown
  <1>1. TypeOK /\ LockInv /\ [Next]_vars => LockInv'
    BY LockSteps
  <1>2. LockInv => IdleIsShown
    BY DEF LockInv, AliveInv, ShownInv, IdleIsShown, Quiet
  <1> QED
    BY <1>1, <1>2, InitLock, ShellTypes, PTL DEF Spec

-----------------------------------------------------------------------------
(* What a turn reports and what is said of it.                              *)

\* Lines that tell how the turn fares, and lines that end one.
ToldLines == {l \in Lines : l.type \in {"text", "model_error",
                                        "extension_error", "notify_error"}}
SettledLines == {l \in Lines : l.type = "agent_settled"}
CompactionLines == {l \in Lines : l.type \in {"compaction_start", "compaction_end"}}

\* Reading the lines before place n leaves pendingError as `failed`: the last
\* of them that tells decides, and what it was before if none does.
Leaves(s, n, failed, before) ==
    \/ \E j \in Hits(s, ToldLines) :
          /\ j < n /\ (failed <=> s[j].type # "text")
          /\ \A k \in Hits(s, ToldLines) : k < n => k <= j
    \/ (\A k \in Hits(s, ToldLines) : ~(k < n)) /\ (failed <=> before)

LEMMA LeavesMore ==
    ASSUME NEW s \in Seq(Lines), NEW t \in Seq(Lines), NEW n \in 1 .. Len(s) + 1,
           NEW failed, NEW before, Leaves(s, n, failed, before)
    PROVE  Leaves(s \o t, n, failed, before)
  <1>1. /\ Len(s) \in Nat /\ Len(t) \in Nat /\ Len(s \o t) = Len(s) + Len(t)
        /\ \A i \in 1 .. Len(s) : (s \o t)[i] = s[i]
    OBVIOUS
  <1>2. \A k \in Hits(s, ToldLines) :
           k \in Hits(s \o t, ToldLines) /\ (s \o t)[k] = s[k]
    BY <1>1 DEF Hits
  <1>3. ASSUME NEW k \in Hits(s \o t, ToldLines), k < n
        PROVE  k \in Hits(s, ToldLines)
    BY <1>1, <1>3 DEF Hits
  <1>4. CASE \E j \in Hits(s, ToldLines) :
                /\ j < n /\ (failed <=> s[j].type # "text")
                /\ \A k \in Hits(s, ToldLines) : k < n => k <= j
    BY <1>2, <1>3, <1>4 DEF Leaves
  <1>5. CASE (\A k \in Hits(s, ToldLines) : ~(k < n)) /\ (failed <=> before)
    BY <1>3, <1>5 DEF Leaves
  <1> QED
    BY <1>4, <1>5 DEF Leaves

\* Lines that do not tell change nothing.
LEMMA LeavesOn ==
    ASSUME NEW s \in Seq(Lines), NEW t \in Seq(Lines), NEW failed, NEW before,
           \A i \in 1 .. Len(t) : t[i] \notin ToldLines,
           Leaves(s, Len(s) + 1, failed, before)
    PROVE  Leaves(s \o t, Len(s \o t) + 1, failed, before)
  <1>1. Hits(s \o t, ToldLines) = Hits(s, ToldLines)
    BY HitsJoin
  <1>2. /\ Len(s) \in Nat /\ Len(t) \in Nat /\ Len(s \o t) = Len(s) + Len(t)
        /\ \A i \in 1 .. Len(s) : (s \o t)[i] = s[i]
    OBVIOUS
  <1>3. ASSUME NEW k \in Hits(s, ToldLines)
        PROVE  /\ k < Len(s) + 1 /\ k < Len(s \o t) + 1
               /\ (s \o t)[k] = s[k]
    <2>1. k \in 1 .. Len(s)
      BY DEF Hits
    <2> QED
      BY <1>2, <2>1
  <1>4. CASE \E j \in Hits(s, ToldLines) :
                /\ j < Len(s) + 1 /\ (failed <=> s[j].type # "text")
                /\ \A k \in Hits(s, ToldLines) : k < Len(s) + 1 => k <= j
    BY <1>1, <1>3, <1>4 DEF Leaves
  <1>5. CASE (\A k \in Hits(s, ToldLines) : ~(k < Len(s) + 1)) /\ (failed <=> before)
    BY <1>1, <1>3, <1>5 DEF Leaves
  <1> QED
    BY <1>4, <1>5 DEF Leaves

\* A line that tells decides.
LEMMA LeavesLast ==
    ASSUME NEW s \in Seq(Lines), NEW e \in ToldLines, NEW failed, NEW before,
           failed <=> e.type # "text"
    PROVE  Leaves(s \o <<e>>, Len(s \o <<e>>) + 1, failed, before)
  <1>1. /\ Len(s) \in Nat /\ Len(s \o <<e>>) = Len(s) + 1
        /\ (s \o <<e>>)[Len(s) + 1] = e
    OBVIOUS
  <1>2. PICK j : j = Len(s) + 1
    OBVIOUS
  <1>3. /\ j \in Hits(s \o <<e>>, ToldLines) /\ j < Len(s \o <<e>>) + 1
        /\ (s \o <<e>>)[j] = e
    BY <1>1, <1>2 DEF Hits
  <1>4. \A k \in Hits(s \o <<e>>, ToldLines) : k <= j
    BY <1>1, <1>2 DEF Hits
  <1> QED
    BY <1>3, <1>4 DEF Leaves

\* The first line is read.
LEMMA LeavesRest ==
    ASSUME NEW s \in Seq(Lines), s # <<>>, NEW n \in Nat, n > 1,
           NEW failed, NEW before, NEW now, Leaves(s, n, failed, before),
           Head(s) \in ToldLines => (now <=> Head(s).type # "text"),
           Head(s) \notin ToldLines => (now <=> before)
    PROVE  Leaves(Tail(s), n - 1, failed, now)
  <1>1. /\ Len(s) \in Nat \ {0} /\ Head(s) = s[1] /\ Len(Tail(s)) = Len(s) - 1
        /\ \A i \in 1 .. Len(s) - 1 : Tail(s)[i] = s[i + 1]
    OBVIOUS
  <1>2. ASSUME NEW k \in Hits(Tail(s), ToldLines)
        PROVE  k \in Nat /\ k + 1 \in Hits(s, ToldLines) /\ k + 1 # 1
    BY <1>1 DEF Hits
  <1>3. ASSUME NEW k \in Hits(s, ToldLines), k # 1
        PROVE  /\ k \in Nat /\ k - 1 \in Nat /\ k - 1 \in Hits(Tail(s), ToldLines)
               /\ Tail(s)[k - 1] = s[k]
    <2>1. k \in 1 .. Len(s) /\ k - 1 \in 1 .. Len(s) - 1 /\ k - 1 + 1 = k
      BY <1>1, <1>3 DEF Hits
    <2>2. Tail(s)[k - 1] = s[k] /\ s[k] \in ToldLines
      BY <1>1, <2>1 DEF Hits
    <2> QED
      BY <1>1, <2>1, <2>2 DEF Hits
  <1>4. 1 \in Hits(s, ToldLines) <=> Head(s) \in ToldLines
    BY <1>1 DEF Hits
  <1>5. ASSUME NEW j \in Hits(s, ToldLines), j < n,
               failed <=> s[j].type # "text",
               \A k \in Hits(s, ToldLines) : k < n => k <= j
        PROVE  Leaves(Tail(s), n - 1, failed, now)
    <2>1. CASE j = 1
      <3>1. \A k \in Hits(Tail(s), ToldLines) : ~(k < n - 1)
        BY <1>2, <1>5, <2>1
      <3>2. failed <=> now
        BY <1>1, <1>4, <1>5, <2>1
      <3> QED
        BY <3>1, <3>2 DEF Leaves
    <2>2. CASE j # 1
      <3>1. PICK i \in Hits(Tail(s), ToldLines) :
               i = j - 1 /\ Tail(s)[i] = s[j] /\ j \in Nat
        BY <1>3, <2>2
      <3>2. i < n - 1
        BY <1>5, <3>1
      <3>4. failed <=> Tail(s)[i].type # "text"
        BY <1>5, <3>1
      <3>3. ASSUME NEW k \in Hits(Tail(s), ToldLines), k < n - 1
            PROVE  k <= i
        BY <1>2, <1>5, <3>1, <3>3
      <3> QED
        BY <3>2, <3>3, <3>4 DEF Leaves
    <2> QED
      BY <2>1, <2>2
  <1>6. ASSUME \A k \in Hits(s, ToldLines) : ~(k < n), failed <=> before
        PROVE  Leaves(Tail(s), n - 1, failed, now)
    <2>1. Head(s) \notin ToldLines
      BY <1>4, <1>6
    <2>2. \A k \in Hits(Tail(s), ToldLines) : ~(k < n - 1)
      BY <1>2, <1>6
    <2>3. failed <=> now
      BY <1>6, <2>1
    <2> QED
      BY <2>2, <2>3 DEF Leaves
  <1> QED
    BY <1>5, <1>6 DEF Leaves

\* What is said of every turn whose end is on its way is what was reported.
Truthful(s, before) ==
    \A i \in Hits(s, SettledLines) : Leaves(s, i, ~s[i].ok, before)

LEMMA TruthMore ==
    ASSUME NEW s \in Seq(Lines), NEW t \in Seq(Lines), NEW before,
           Truthful(s, before), \A i \in 1 .. Len(t) : t[i] \notin SettledLines
    PROVE  Truthful(s \o t, before)
  <1>1. Hits(s \o t, SettledLines) = Hits(s, SettledLines)
    BY HitsJoin
  <1> SUFFICES ASSUME NEW i \in Hits(s, SettledLines)
               PROVE  Leaves(s \o t, i, ~(s \o t)[i].ok, before)
    BY <1>1 DEF Truthful
  <1>2. i \in 1 .. Len(s) + 1 /\ (s \o t)[i] = s[i]
    BY DEF Hits
  <1>3. Leaves(s, i, ~s[i].ok, before)
    BY DEF Truthful
  <1>4. Leaves(s \o t, i, ~s[i].ok, before)
    BY <1>2, <1>3, LeavesMore
  <1> QED
    BY <1>2, <1>4

LEMMA TruthSettles ==
    ASSUME NEW s \in Seq(Lines), NEW e \in Lines, NEW failed, NEW before,
           Hits(s, SettledLines) = {}, failed <=> ~e.ok,
           Leaves(s, Len(s) + 1, failed, before)
    PROVE  Truthful(s \o <<e>>, before)
  <1>0. /\ Len(s) \in Nat /\ Len(s \o <<e>>) = Len(s) + 1
        /\ (s \o <<e>>)[Len(s) + 1] = e
        /\ \A i \in 1 .. Len(s) : (s \o <<e>>)[i] = s[i]
        /\ <<e>> \in Seq(Lines)
    OBVIOUS
  <1> SUFFICES ASSUME NEW i \in Hits(s \o <<e>>, SettledLines)
               PROVE  Leaves(s \o <<e>>, i, ~(s \o <<e>>)[i].ok, before)
    BY DEF Truthful
  <1>1. i = Len(s) + 1 /\ (s \o <<e>>)[i] = e
    BY <1>0 DEF Hits
  <1>2. Leaves(s \o <<e>>, Len(s) + 1, failed, before)
    <2>1. Len(s) + 1 \in 1 .. Len(s) + 1
      BY <1>0
    <2> QED
      BY <1>0, <2>1, LeavesMore
  <1>3. Leaves(s \o <<e>>, i, failed, before)
    BY <1>1, <1>2
  <1> QED
    BY <1>1, <1>3 DEF Leaves

LEMMA TruthRest ==
    ASSUME NEW s \in Seq(Lines), s # <<>>, NEW before, NEW now,
           Truthful(s, before),
           Head(s) \in ToldLines => (now <=> Head(s).type # "text"),
           Head(s) \notin ToldLines => (now <=> before)
    PROVE  Truthful(Tail(s), now)
  <1> SUFFICES ASSUME NEW i \in Hits(Tail(s), SettledLines)
               PROVE  Leaves(Tail(s), i, ~Tail(s)[i].ok, now)
    BY DEF Truthful
  <1>1. /\ i \in Nat /\ i + 1 \in Hits(s, SettledLines) /\ i + 1 > 1
        /\ Tail(s)[i] = s[i + 1]
    BY DEF Hits
  <1>2. Leaves(s, i + 1, ~s[i + 1].ok, before)
    BY <1>1 DEF Truthful
  <1>3. PICK n \in Nat : n = i + 1 /\ n - 1 = i
    BY <1>1
  <1>4. Leaves(Tail(s), n - 1, ~s[n].ok, now)
    BY <1>1, <1>2, <1>3, LeavesRest
  <1> QED
    BY <1>1, <1>3, <1>4

\* The end of a request and the dialogs of it, also when Pi has died: the Shell
\* still reads what Pi wrote, and clients still send.
FreeParts ==
    /\ AtMostOne(Ended) /\ AtMostOne(Endings) /\ AtMostOne(Asking)
    /\ Ended # {} => Endings = {}
    /\ Ended # {} \/ Endings # {} \/ Asking # {} \/ dialog => requestState # "idle"
    /\ Asking # {} \/ dialog => Ended = {} /\ Endings = {}
    /\ Asking # {} => ~dialog
FreeInv == ~closed => FreeParts

LEMMA AliveFree ==
    /\ AliveInv => FreeParts
    /\ AliveInv' => FreeParts'
  BY DEF AliveInv, TurnInv, DialogInv, FreeParts

\* A request that a dead Pi cannot be sent ends at once.
LEMMA BeginsFree ==
    ASSUME FreeParts, ~pi.alive, NEW kind \in {"input", "command"},
           BeginRequest(kind)
    PROVE  FreeParts'
  <1>1. PICK a : a = [call |-> [kind |-> kind, turn |-> turn + 1,
                                previous |-> "idle"], ok |-> FALSE]
    OBVIOUS
  <1>2. /\ answered' = answered \cup {a} /\ requestState = "idle"
        /\ requestState' = kind /\ UNCHANGED <<dialog, stdout>>
    BY <1>1 DEF BeginRequest, Send
  <1>3. Ended = {} /\ Endings = {} /\ Asking = {} /\ ~dialog
    BY <1>2 DEF FreeParts
  <1>4. Ended' = {} /\ Asking' = {}
    BY <1>2, <1>3, Unmoved
  <1>5. AtMostOne(Endings')
    BY <1>2, <1>3 DEF Endings, AtMostOne
  <1> QED
    BY <1>2, <1>3, <1>4, <1>5 DEF FreeParts, AtMostOne

LEMMA ContinueFree ==
    ASSUME TypeOK, KindInv, FreeParts, NEW a \in answered, Continue(a), ~closed'
    PROVE  /\ FreeParts'
           /\ \/ UNCHANGED <<pendingError>>
              \/ Ended = {} /\ a \in Endings /\ pendingError' = FALSE
  <1>0. /\ a \in Answer /\ a.ok \in BOOLEAN /\ a.call \in Call
        /\ a.call.kind \in {"input", "command", "abort"}
    BY DEF TypeOK, KindInv, Answer
  <1>1. /\ answered' = answered \ {a} /\ UNCHANGED <<stdout, dialog>>
        /\ Continuation(a.call, a.ok)
    BY <1>0 DEF Continue
  <1>2. Endings' = Endings \ {a}
    BY <1>1 DEF Endings
  <1>3. Ended' = Ended /\ Asking' = Asking
    BY <1>1, Unmoved
  <1>4. ASSUME a \in Endings
        PROVE  FreeParts' /\ Ended = {}
    <2>1. Endings' = {} /\ Ended = {} /\ Asking = {} /\ ~dialog
      BY <1>2, <1>4 DEF FreeParts, AtMostOne
    <2> QED
      BY <1>1, <1>3, <2>1 DEF FreeParts, AtMostOne
  <1>5. ASSUME a \notin Endings, requestState' # "idle" \/ requestState' = requestState
        PROVE  FreeParts'
    BY <1>1, <1>2, <1>3, <1>5 DEF FreeParts, AtMostOne
  <1>6. CASE a.call.kind = "input"
    <2>1. ContinueInput(a.ok)
      BY <1>1, <1>6 DEF Continuation
    <2>2. CASE a.ok
      <3>1. a \notin Endings /\ UNCHANGED <<requestState, pendingError>>
        BY <1>6, <2>1, <2>2 DEF ContinueInput, shell, Endings, Ends
      <3> QED
        BY <1>5, <3>1
    <2>3. CASE ~a.ok
      <3>1. a \in Endings /\ pendingError' = FALSE
        BY <1>6, <2>1, <2>3 DEF ContinueInput, FinishRequest, Endings, Ends
      <3> QED
        BY <1>4, <3>1
    <2> QED
      BY <2>2, <2>3
  <1>7. CASE a.call.kind = "command"
    <2>1. ContinueCommand(a.ok) /\ a \in Endings
      BY <1>1, <1>7 DEF Continuation, Endings, Ends
    <2>2. UNCHANGED pendingError \/ pendingError' = FALSE
      BY <2>1 DEF ContinueCommand, SettleCommand, FinishRequest, shell
    <2> QED
      BY <1>4, <2>1, <2>2
  <1>8. CASE a.call.kind = "abort"
    <2>1. ContinueAbort(a.ok, a.call.previous) /\ a \notin Endings
      BY <1>1, <1>8 DEF Continuation, Endings, Ends
    <2>2. a.call.previous \in {"input", "command"}
      BY <1>0, <1>8 DEF Call
    <2>3. /\ requestState' # "idle" \/ requestState' = requestState
          /\ UNCHANGED pendingError
      BY <2>1, <2>2 DEF ContinueAbort, shell
    <2> QED
      BY <1>5, <2>1, <2>3
  <1> QED
    BY <1>0, <1>6, <1>7, <1>8

LEMMA ReadFree ==
    ASSUME TypeOK, FreeParts, ReadLine, ~closed
    PROVE  FreeParts'
  <1> DEFINE line == Head(stdout)
  <1>0. stdout # <<>> /\ stdout' = Tail(stdout)
    BY DEF ReadLine
  <1>1. /\ line \in Lines
        /\ Ended = {} => Ended' = {}
        /\ Asking = {} => Asking' = {}
        /\ AtMostOne(Ended) => AtMostOne(Ended')
        /\ AtMostOne(Asking) => AtMostOne(Asking')
        /\ line \in EndLines => Ended # {} /\ (AtMostOne(Ended) => Ended' = {})
        /\ line \in AskLines => Asking # {} /\ (AtMostOne(Asking) => Asking' = {})
    BY <1>0, StdoutShrinks
  <1>2. ASSUME answered' = answered, dialog' = dialog, requestState' = requestState
        PROVE  FreeParts'
    <2>1. Endings' = Endings
      BY <1>2, Unmoved
    <2> QED
      BY <1>1, <1>2, <2>1 DEF FreeParts
  <1>3. CASE line.type = "response"
    <2>1. /\ UNCHANGED <<requestState, dialog>>
          /\ \/ answered' = answered
             \/ answered' = answered \cup {[call |-> line.call, ok |-> line.ok]}
      BY <1>3 DEF ReadLine, ReadResponse, shell
    <2>2. PICK new : new = [call |-> line.call, ok |-> line.ok]
      OBVIOUS
    <2>3. new.call = line.call /\ new.ok = line.ok
      BY <2>2
    <2>4. line \in EndLines <=> Ends(line.call.kind, line.ok)
      BY <1>1, <1>3 DEF EndLines
    <2>5. CASE answered' = answered
      BY <1>2, <2>1, <2>5
    <2>6. CASE answered' = answered \cup {new} /\ line \notin EndLines
      <3>1. Endings' = Endings
        BY <2>3, <2>4, <2>6 DEF Endings
      <3> QED
        BY <1>1, <2>1, <3>1 DEF FreeParts
    <2>7. CASE answered' = answered \cup {new} /\ line \in EndLines
      <3>1. Ended # {} /\ Ended' = {} /\ Endings = {} /\ requestState # "idle"
            /\ Asking = {} /\ ~dialog
        BY <1>1, <2>7 DEF FreeParts
      <3>2. AtMostOne(Endings')
        BY <2>7, <3>1 DEF Endings, AtMostOne
      <3> QED
        BY <1>1, <2>1, <3>1, <3>2 DEF FreeParts, AtMostOne
    <2> QED
      BY <2>1, <2>2, <2>5, <2>6, <2>7
  <1>4. CASE line.type = "agent_settled"
    <2>1. AgentSettled /\ dialog' = dialog /\ UNCHANGED rpc
      BY <1>4 DEF ReadLine, HandleEvent, TypeOK
    <2>2. line \in EndLines
      BY <1>1, <1>4 DEF EndLines
    <2>3. Ended # {} /\ Ended' = {} /\ Endings = {} /\ Asking = {} /\ ~dialog
      BY <1>1, <2>2 DEF FreeParts
    <2>4. Endings' = {} /\ Asking' = {}
      BY <1>1, <2>1, <2>3, Unmoved DEF rpc
    <2> QED
      BY <2>1, <2>3, <2>4 DEF FreeParts, AtMostOne
  <1>5. CASE line.type \notin {"response", "agent_settled"}
    <2>1. HandleEvent(line) /\ UNCHANGED rpc
      BY <1>5 DEF ReadLine, HandleEvent
    <2>2. requestState' = requestState
      BY <1>5, <2>1 DEF HandleEvent, AgentStart, Text, ModelError, Tool, Ask,
         CompactionStart, ExtensionError, NotifyError, CompactionEnd, PublishFinal, shell
    <2>3. CASE line.type = "ask"
      <3>1. line \in AskLines /\ dialog'
        BY <1>1, <2>1, <2>3 DEF AskLines, HandleEvent
      <3>2. /\ Asking # {} /\ Asking' = {} /\ Ended = {} /\ Endings = {}
            /\ requestState # "idle"
        BY <1>1, <3>1 DEF FreeParts
      <3>3. Endings' = {} /\ Ended' = {}
        BY <1>1, <2>1, <3>2, Unmoved DEF rpc
      <3> QED
        BY <2>2, <3>2, <3>3 DEF FreeParts, AtMostOne
    <2>4. CASE line.type # "ask"
      <3>1. dialog' = dialog
        BY <2>1, <2>4 DEF HandleEvent, TypeOK
      <3> QED
        BY <1>2, <2>1, <2>2, <3>1 DEF rpc
    <2> QED
      BY <2>3, <2>4
  <1> QED
    BY <1>3, <1>4, <1>5

LEMMA ServeLives ==
    ASSUME TypeOK, NEW call \in Call, Serve(call)
    PROVE  pi'.alive = pi.alive
  <1>1. pi \in PiProcess
    BY DEF TypeOK
  <1>2. CASE call.kind \in {"input", "steer"}
    BY <1>1, <1>2 DEF Serve, ServePrompt, StartAgent, Refuse, PiProcess
  <1>3. CASE call.kind = "compact"
    BY <1>1, <1>3 DEF Serve, ServeCompact, Refuse, PiProcess
  <1>4. CASE call.kind \notin {"input", "steer", "compact"}
    BY <1>1, <1>4 DEF Serve, ServeAbort, PiProcess
  <1> QED
    BY <1>2, <1>3, <1>4

\* What a living Pi does keeps it alive.
LEMMA PiLives ==
    ASSUME TypeOK,
           PiReads \/ PiWorks \/ PiSettles \/ PiEndsCommand \/ PiEndsCompaction
    PROVE  pi.alive /\ pi'.alive /\ closed' = closed
  <1>1. pi \in PiProcess
    BY DEF TypeOK
  <1>2. CASE PiReads
    <2>1. Head(stdin) \in Call
      BY <1>2, HeadAndTail DEF PiReads, TypeOK
    <2> QED
      BY <1>2, <2>1, ServeLives DEF PiReads
  <1>3. CASE PiWorks
    BY <1>1, <1>3 DEF PiWorks, PiReports, PiProcess
  <1>4. CASE PiSettles
    BY <1>1, <1>4 DEF PiSettles, PiProcess
  <1>5. CASE PiEndsCommand
    BY <1>1, <1>5 DEF PiEndsCommand, PiProcess
  <1>6. CASE PiEndsCompaction
    BY <1>1, <1>6 DEF PiEndsCompaction, PiProcess
  <1> QED
    BY <1>2, <1>3, <1>4, <1>5, <1>6

LEMMA FreeSteps ==
    ASSUME PlainRoutes, TypeOK, LockInv, LockInv', FreeInv, [Next]_vars
    PROVE  FreeInv'
  <1> SUFFICES ASSUME ~closed', ~pi'.alive PROVE FreeParts'
    BY AliveFree DEF FreeInv, LockInv
  <1>1. ASSUME ~closed PROVE FreeParts
    BY <1>1 DEF FreeInv
  <1>2. KindInv
    BY DEF LockInv
  <1>3. ASSUME UNCHANGED <<requestState, dialog, answered, stdout, closed>>
        PROVE  FreeParts'
    <2>1. Ended' = Ended /\ Asking' = Asking /\ Endings' = Endings
      BY <1>3, Unmoved
    <2> QED
      BY <1>1, <1>3, <2>1 DEF FreeParts
  <1>4. CASE Client
    <2>1. CASE Input \/ Command
      <3>1. \E kind \in {"input", "command"} : BeginRequest(kind)
        BY <2>1 DEF Input, Command
      <3>2. ~pi.alive /\ ~closed
        BY <3>1 DEF BeginRequest
      <3> QED
        BY <1>1, <3>1, <3>2, BeginsFree
    <2>2. CASE Steer \/ Compact
      BY <2>2 DEF PlainRoutes, Steer, Compact
    <2>3. CASE Abort
      <3>1. PICK call : call = [NewCall("abort") EXCEPT !.previous = requestState]
        OBVIOUS
      <3>2. /\ Send(call) /\ call.kind = "abort" /\ requestState' = "aborting"
            /\ UNCHANGED <<dialog, stdout, pi>> /\ ~closed
        BY <2>3, <3>1 DEF Abort, NewCall
      <3>3. PICK a : a = [call |-> call, ok |-> FALSE]
        OBVIOUS
      <3>4. answered' = answered \cup {a} /\ a.call.kind = "abort"
        BY <3>2, <3>3 DEF Send
      <3>5. Endings' = Endings
        BY <3>4 DEF Endings, Ends
      <3>6. Ended' = Ended /\ Asking' = Asking
        BY <3>2, Unmoved
      <3> QED
        BY <1>1, <3>2, <3>5, <3>6 DEF FreeParts
    <2>4. CASE Close
      BY <2>4 DEF Close
    <2> QED
      BY <1>4, <2>1, <2>2, <2>3, <2>4 DEF Client
  <1>5. CASE UiResponse
    <2>1. ~pi.alive /\ dialog /\ ~closed /\ ~dialog' /\ UNCHANGED <<stdout, rpc>>
          /\ FinishRequest("error")
      BY <1>5 DEF UiResponse
    <2>2. Ended = {} /\ Endings = {} /\ Asking = {}
      BY <1>1, <2>1 DEF FreeParts
    <2>3. Ended' = {} /\ Endings' = {} /\ Asking' = {}
      BY <2>1, <2>2, Unmoved DEF rpc
    <2> QED
      BY <2>1, <2>3 DEF FreeParts, AtMostOne
  <1>6. ASSUME NEW a \in answered, Continue(a)
        PROVE  FreeParts'
    <2>1. ~closed
      BY <1>6 DEF Continue, CloseAfter
    <2> QED
      BY <1>1, <1>2, <1>6, <2>1, ContinueFree
  <1>7. CASE ReadLine
    BY <1>1, <1>7, ReadFree DEF ReadLine
  <1>8. CASE PiReads \/ PiWorks \/ PiSettles \/ PiEndsCommand \/ PiEndsCompaction
    BY <1>8, PiLives
  <1>9. CASE PiDies
    BY <1>3, <1>9 DEF PiDies, shell, rpc
  <1>10. CASE ChildClosed
    BY <1>10 DEF ChildClosed
  <1>11. CASE UNCHANGED vars
    BY <1>3, <1>11 DEF vars, shell, rpc
  <1> QED
    BY <1>4, <1>5, <1>6, <1>7, <1>8, <1>9, <1>10, <1>11 DEF Next

-----------------------------------------------------------------------------
(* The outcome of a turn.                                                   *)

\* Nothing but the lines in the pipe stands between what Pi thinks of the turn
\* and what the Shell will say of it; a request starts without an error.
QuietInv == Hits(stdout, CompactionLines) = {}
TruthInv == ~closed => Truthful(stdout, pendingError)
FreshInv == pi.alive /\ Asked # {} => ~pendingError
RunInv == pi.alive /\ pi.agent # 0 =>
             Leaves(stdout, Len(stdout) + 1, pi.failed, pendingError)
OpenInv == closed => ~pi.alive
OutcomeInv == QuietInv /\ TruthInv /\ FreshInv /\ RunInv /\ OpenInv

LEMMA OutcomePrimed ==
    /\ QuietInv' <=> Hits(stdout', CompactionLines) = {}
    /\ TruthInv' <=> (~closed' => Truthful(stdout', pendingError'))
    /\ FreshInv' <=> (pi'.alive /\ Asked' # {} => ~pendingError')
    /\ RunInv' <=> (pi'.alive /\ pi'.agent # 0 =>
                      Leaves(stdout', Len(stdout') + 1, pi'.failed, pendingError'))
    /\ OpenInv' <=> (closed' => ~pi'.alive)
  <1>1. QuietInv' <=> Hits(stdout', CompactionLines) = {}
    BY DEF QuietInv, Hits, CompactionLines, Lines, Event, Response, Call
  <1>2. TruthInv' <=> (~closed' => Truthful(stdout', pendingError'))
    BY DEF TruthInv, Truthful, Leaves, Hits, SettledLines, ToldLines, Lines,
       Event, Response, Call
  <1>3. FreshInv' <=> (pi'.alive /\ Asked' # {} => ~pendingError')
    BY DEF FreshInv
  <1>4. RunInv' <=> (pi'.alive /\ pi'.agent # 0 =>
                      Leaves(stdout', Len(stdout') + 1, pi'.failed, pendingError'))
    BY DEF RunInv, Leaves, Hits, ToldLines, Lines, Event, Response, Call
  <1>5. OpenInv' <=> (closed' => ~pi'.alive)
    BY DEF OpenInv
  <1> QED
    BY <1>1, <1>2, <1>3, <1>4, <1>5

LEMMA ReplyTells ==
    ASSUME NEW call \in Call, NEW ok \in BOOLEAN
    PROVE  /\ Reply(call, ok) \in Lines /\ Reply(call, ok) \notin ToldLines
           /\ Reply(call, ok) \notin SettledLines
           /\ Reply(call, ok) \notin CompactionLines
  BY ReplyType DEF Reply, ToldLines, SettledLines, CompactionLines

LEMMA LineTells ==
    ASSUME NEW type \in EventType, NEW ok \in BOOLEAN
    PROVE  /\ Line(type, ok) \in Lines
           /\ Line(type, ok) \in ToldLines <=>
                 type \in {"text", "model_error", "extension_error", "notify_error"}
           /\ Line(type, ok) \in SettledLines <=> type = "agent_settled"
           /\ Line(type, ok) \in CompactionLines <=>
                 type \in {"compaction_start", "compaction_end"}
           /\ Line(type, ok).type = type /\ Line(type, ok).ok = ok
  <1>1. Line(type, ok).type = type /\ Line(type, ok).ok = ok
    BY DEF Line
  <1> QED
    BY <1>1, LineType DEF ToldLines, SettledLines, CompactionLines

\* Lines that a turn ends with, or that tell of it, in the pipe.
LEMMA PipeHits ==
    /\ Ended = {} => Hits(stdout, SettledLines) = {}
    /\ Hits(stdout, BusyLines) = {} => Hits(stdout, ToldLines) = {}
  BY DEF Ended, Hits, SettledLines, EndLines, ToldLines, BusyLines

\* Nothing is written or read, and nothing is said of errors.
LEMMA StayOutcome ==
    ASSUME OutcomeInv, UNCHANGED <<stdout, pendingError>>,
           closed => closed', closed' # closed => ~pi'.alive,
           pi'.alive => pi' = pi /\ (Asked' # {} => Asked # {})
    PROVE  OutcomeInv'
  <1>1. QuietInv' /\ FreshInv' /\ OpenInv'
    BY OutcomePrimed DEF OutcomeInv, QuietInv, FreshInv, OpenInv
  <1>2. TruthInv' /\ RunInv'
    BY OutcomePrimed DEF OutcomeInv, TruthInv, RunInv
  <1> QED
    BY <1>1, <1>2 DEF OutcomeInv

\* A request begins or is over with nothing more to come of it.
LEMMA NothingLeft ==
    ASSUME OutcomeInv, UNCHANGED <<stdout, closed>>, pendingError' = FALSE,
           ~closed => Ended = {}, pi'.alive => pi' = pi /\ pi.agent = 0
    PROVE  OutcomeInv'
  <1>1. QuietInv' /\ FreshInv' /\ OpenInv' /\ RunInv'
    BY OutcomePrimed DEF OutcomeInv, QuietInv, OpenInv
  <1>2. TruthInv'
    <2>1. ~closed => Hits(stdout, SettledLines) = {}
      BY PipeHits
    <2> QED
      BY <2>1, OutcomePrimed DEF Truthful
  <1> QED
    BY <1>1, <1>2 DEF OutcomeInv

\* One line is written that neither ends a turn nor is about a compaction.
LEMMA WriteOutcome ==
    ASSUME TypeOK, OutcomeInv, NEW line \in Lines, Write(<<line>>),
           line \notin SettledLines, line \notin CompactionLines,
           UNCHANGED <<pendingError, closed>>, pi'.alive = pi.alive,
           Asked' # {} => Asked # {},
           pi'.agent # 0 =>
              /\ pi.agent # 0
              /\ \/ line \notin ToldLines /\ pi'.failed = pi.failed
                 \/ line \in ToldLines /\ (pi'.failed <=> line.type # "text")
    PROVE  OutcomeInv'
  <1>1. /\ stdout' = stdout \o <<line>> /\ stdout \in Seq(Lines)
        /\ <<line>> \in Seq(Lines)
        /\ \A i \in 1 .. Len(<<line>>) : <<line>>[i] = line
    BY DEF TypeOK, Lines, Write
  <1>2. QuietInv'
    BY <1>1, HitsOne, OutcomePrimed DEF OutcomeInv, QuietInv
  <1>3. TruthInv'
    BY <1>1, TruthMore, OutcomePrimed DEF OutcomeInv, TruthInv
  <1>4. FreshInv' /\ OpenInv'
    BY OutcomePrimed DEF OutcomeInv, FreshInv, OpenInv
  <1>5. ASSUME pi'.alive, pi'.agent # 0
        PROVE  Leaves(stdout', Len(stdout') + 1, pi'.failed, pendingError)
    <2>1. Leaves(stdout, Len(stdout) + 1, pi.failed, pendingError)
      BY <1>5 DEF OutcomeInv, RunInv
    <2>2. CASE line \notin ToldLines /\ pi'.failed = pi.failed
      <3>1. \A i \in 1 .. Len(<<line>>) : <<line>>[i] \notin ToldLines
        BY <1>1, <2>2
      <3>2. Leaves(stdout \o <<line>>, Len(stdout \o <<line>>) + 1, pi.failed,
                   pendingError)
        BY <1>1, <2>1, <3>1, LeavesOn
      <3> QED
        BY <1>1, <2>2, <3>2
    <2>3. CASE line \in ToldLines /\ (pi'.failed <=> line.type # "text")
      <3>1. Leaves(stdout \o <<line>>, Len(stdout \o <<line>>) + 1, pi'.failed,
                   pendingError)
        BY <1>1, <2>3, LeavesLast
      <3> QED
        BY <1>1, <3>1
    <2> QED
      BY <1>5, <2>2, <2>3
  <1>6. RunInv'
    BY <1>5, OutcomePrimed
  <1> QED
    BY <1>2, <1>3, <1>4, <1>6 DEF OutcomeInv

\* What reading a line makes of pendingError.
LEMMA ReadTells ==
    ASSUME TypeOK, ReadLine, ~closed, requestState # "idle",
           Head(stdout) \notin CompactionLines, Head(stdout) \notin SettledLines
    PROVE  /\ Head(stdout) \in ToldLines =>
                 (pendingError' <=> Head(stdout).type # "text")
           /\ Head(stdout) \notin ToldLines => (pendingError' <=> pendingError)
  <1>1. PICK line : line = Head(stdout)
    OBVIOUS
  <1>2. line \in Lines
    BY <1>1, HeadAndTail DEF ReadLine, TypeOK, Lines
  <1>3. line.type \notin {"compaction_start", "compaction_end", "agent_settled"}
    BY <1>1, <1>2 DEF CompactionLines, SettledLines
  <1>4. CASE line.type = "response"
    BY <1>1, <1>4 DEF ReadLine, ReadResponse, ToldLines, shell
  <1>5. CASE line.type # "response"
    <2>1. HandleEvent(line)
      BY <1>1, <1>5 DEF ReadLine
    <2>2. line.type \in EventType
      BY <1>2, <1>5 DEF Lines, Event, Response
    <2>3. CASE line.type = "text"
      <3>1. pendingError' = FALSE
        BY <2>1, <2>3 DEF HandleEvent, Text
      <3> QED
        BY <1>1, <1>2, <2>3, <3>1 DEF ToldLines
    <2>4. CASE line.type \in {"model_error", "extension_error", "notify_error"}
      <3>1. pendingError' = TRUE
        BY <2>1, <2>4 DEF HandleEvent, ModelError, ExtensionError, NotifyError
      <3> QED
        BY <1>1, <1>2, <2>4, <3>1 DEF ToldLines
    <2>5. CASE line.type \in {"agent_start", "tool", "ask"}
      <3>1. pendingError' = pendingError
        BY <2>1, <2>5 DEF HandleEvent, AgentStart, Tool, Ask
      <3> QED
        BY <1>1, <1>2, <2>5, <3>1 DEF ToldLines
    <2> QED
      BY <1>3, <2>2, <2>3, <2>4, <2>5 DEF EventType
  <1> QED
    BY <1>4, <1>5

LEMMA ReadOutcome ==
    ASSUME TypeOK, LockInv, FreeInv, OutcomeInv, ReadLine
    PROVE  OutcomeInv'
  <1>1. /\ stdout # <<>> /\ stdout' = Tail(stdout) /\ UNCHANGED <<pi, closed>>
        /\ stdout \in Seq(Lines) /\ Head(stdout) \in Lines
    BY HeadAndTail DEF ReadLine, TypeOK, Lines
  <1>2. stdin' = stdin
    BY DEF ReadLine, ReadResponse, HandleEvent, rpc
  <1>3. Asked' = Asked
    BY <1>2, Unmoved
  <1>4. QuietInv' /\ OpenInv' /\ Head(stdout) \notin CompactionLines
    <2>1. /\ Hits(Tail(stdout), CompactionLines) = {}
          /\ Head(stdout) \notin CompactionLines
      BY <1>1, HitsTail DEF OutcomeInv, QuietInv
    <2> QED
      BY <1>1, <2>1, OutcomePrimed DEF OutcomeInv, OpenInv
  <1>5. pi.alive => AliveInv /\ ~closed
    BY DEF LockInv, OutcomeInv, OpenInv
  <1>6. CASE closed
    BY <1>1, <1>4, <1>5, <1>6, OutcomePrimed DEF OutcomeInv
  <1>7. CASE ~closed /\ Head(stdout) \in SettledLines
    <2>1. /\ Head(stdout) \in EndLines /\ Ended # {} /\ AtMostOne(Ended)
          /\ requestState # "idle"
      <3>1. Head(stdout) \in EndLines
        BY <1>1, <1>7 DEF SettledLines, EndLines
      <3> QED
        BY <1>1, <1>7, <3>1, StdoutShrinks DEF FreeInv, FreeParts
    <2>2. Ended' = {}
      BY <1>1, <2>1, StdoutShrinks
    <2>3. pendingError' = FALSE
      BY <1>7, <2>1 DEF ReadLine, HandleEvent, AgentSettled, FinishRequest, SettledLines
    <2>4. pi.alive => pi.agent = 0
      BY <1>5, <2>1 DEF AliveInv, TurnInv, Works
    <2>5. FreshInv' /\ RunInv'
      BY <1>1, <2>3, <2>4, OutcomePrimed
    <2>6. TruthInv'
      <3>1. Hits(Tail(stdout), SettledLines) = {}
        <4>1. \A i \in Hits(stdout', SettledLines) : i \in Ended'
          BY <1>1 DEF Ended, Hits, SettledLines, EndLines, Lines, Event, Response, Call
        <4> QED
          BY <1>1, <2>2, <4>1
      <3> QED
        BY <1>1, <3>1, OutcomePrimed DEF Truthful
    <2> QED
      BY <1>4, <2>5, <2>6 DEF OutcomeInv
  <1>8. CASE ~closed /\ Head(stdout) \notin SettledLines /\ requestState # "idle"
    <2>1. /\ Head(stdout) \in ToldLines =>
                (pendingError' <=> Head(stdout).type # "text")
          /\ Head(stdout) \notin ToldLines => (pendingError' <=> pendingError)
      BY <1>4, <1>8, ReadTells
    <2>2. TruthInv'
      BY <1>1, <1>8, <2>1, TruthRest, OutcomePrimed DEF OutcomeInv, TruthInv
    <2>3. RunInv'
      <3> SUFFICES ASSUME pi.alive, pi.agent # 0
                   PROVE  Leaves(Tail(stdout), Len(Tail(stdout)) + 1, pi.failed,
                                 pendingError')
        BY <1>1, OutcomePrimed
      <3>1. Leaves(stdout, Len(stdout) + 1, pi.failed, pendingError)
        BY DEF OutcomeInv, RunInv
      <3>2. PICK n \in Nat : /\ n = Len(stdout) + 1 /\ n > 1
                             /\ n - 1 = Len(Tail(stdout)) + 1
        BY <1>1
      <3>3. Leaves(Tail(stdout), n - 1, pi.failed, pendingError')
        BY <1>1, <2>1, <3>1, <3>2, LeavesRest
      <3> QED
        BY <3>2, <3>3
    <2>4. FreshInv'
      <3> SUFFICES ASSUME pi.alive, Asked # {}
                   PROVE  ~pendingError'
        BY <1>1, <1>3, OutcomePrimed
      <3>1. ~Works /\ Ended = {} /\ ~pendingError
        BY <1>5 DEF AliveInv, TurnInv, OutcomeInv, FreshInv
      <3>2. Hits(stdout, BusyLines) = {}
        BY <1>5, <3>1 DEF AliveInv, LineInv, Behind, Ended
      <3>3. Head(stdout) \notin BusyLines
        BY <1>1, <3>2, HitsTail
      <3>4. Head(stdout) \notin ToldLines
        BY <3>3 DEF BusyLines, ToldLines
      <3> QED
        BY <2>1, <3>1, <3>4
    <2> QED
      BY <1>4, <2>2, <2>3, <2>4 DEF OutcomeInv
  <1>9. CASE ~closed /\ Head(stdout) \notin SettledLines /\ requestState = "idle"
    <2>1. Ended = {} /\ (pi.alive => Asked = {} /\ ~Works)
      BY <1>5, <1>9 DEF FreeInv, FreeParts, AliveInv, TurnInv
    <2>2. Hits(Tail(stdout), SettledLines) = {}
      BY <1>1, <2>1, PipeHits, HitsTail
    <2>3. TruthInv'
      BY <1>1, <2>2, OutcomePrimed DEF Truthful
    <2>4. FreshInv' /\ RunInv'
      BY <1>1, <1>3, <2>1, OutcomePrimed DEF Works
    <2> QED
      BY <1>4, <2>3, <2>4 DEF OutcomeInv
  <1> QED
    BY <1>6, <1>7, <1>8, <1>9

\* A turn starts with nothing told of it.
LEMMA StartOutcome ==
    ASSUME TypeOK, AliveInv, OutcomeInv, pi.alive, Asked # {}, Asked' = {},
           NEW call \in Call, StartAgent(call), UNCHANGED <<pendingError, closed>>
    PROVE  OutcomeInv'
  <1> DEFINE lines == <<Reply(call, TRUE), Line("agent_start", TRUE)>>
  <1>1. /\ Reply(call, TRUE) \in Lines /\ Line("agent_start", TRUE) \in Lines
        /\ Reply(call, TRUE) \notin ToldLines
        /\ Reply(call, TRUE) \notin SettledLines
        /\ Reply(call, TRUE) \notin CompactionLines
        /\ Line("agent_start", TRUE) \notin ToldLines
        /\ Line("agent_start", TRUE) \notin SettledLines
        /\ Line("agent_start", TRUE) \notin CompactionLines
    BY ReplyTells, LineTells DEF EventType
  <1>2. lines \in Seq(Lines)
    BY <1>1, ShortSeq
  <1>3. \A i \in 1 .. Len(lines) : lines[i] \notin ToldLines /\ lines[i] \notin SettledLines
    BY <1>1, NoneOfTwo
  <1>4. \A i \in 1 .. Len(lines) : lines[i] \notin CompactionLines
    BY <1>1, NoneOfTwo
  <1>5. stdout' = stdout \o lines /\ stdout \in Seq(Lines)
    BY DEF StartAgent, Write, TypeOK, Lines
  <1>6. pi' = [pi EXCEPT !.agent = call.turn, !.failed = FALSE] /\ pi \in PiProcess
    BY DEF StartAgent, TypeOK
  <1>7. pi'.failed = FALSE /\ pi'.alive = pi.alive
    BY <1>6 DEF PiProcess
  <1> HIDE DEF lines
  <1>8. QuietInv'
    BY <1>2, <1>4, <1>5, HitsJoin, OutcomePrimed DEF OutcomeInv, QuietInv
  <1>9. TruthInv'
    BY <1>2, <1>3, <1>5, TruthMore, OutcomePrimed DEF OutcomeInv, TruthInv
  <1>10. FreshInv' /\ OpenInv'
    BY <1>7, OutcomePrimed DEF OutcomeInv, OpenInv
  <1>11. RunInv'
    <2>1. ~Works /\ Ended = {} /\ ~pendingError
      BY DEF AliveInv, TurnInv, OutcomeInv, FreshInv
    <2>2. Hits(stdout, BusyLines) = {}
      BY <2>1 DEF AliveInv, LineInv, Behind, Ended
    <2>3. Hits(stdout, ToldLines) = {}
      BY <2>2, PipeHits
    <2>4. Leaves(stdout, Len(stdout) + 1, FALSE, pendingError)
      BY <2>1, <2>3 DEF Leaves
    <2>5. Leaves(stdout \o lines, Len(stdout \o lines) + 1, FALSE, pendingError)
      BY <1>2, <1>3, <1>5, <2>4, LeavesOn
    <2> QED
      BY <1>5, <1>7, <2>5, OutcomePrimed
  <1> QED
    BY <1>8, <1>9, <1>10, <1>11 DEF OutcomeInv

LEMMA PiReadsOutcome ==
    ASSUME TypeOK, KindInv, AliveInv, OutcomeInv, PiReads
    PROVE  OutcomeInv'
  <1>0. PICK call : call = Head(stdin)
    OBVIOUS
  <1>1. /\ stdin # <<>> /\ stdin' = Tail(stdin) /\ Serve(call) /\ pi.alive
        /\ UNCHANGED <<pendingError, closed>>
    BY <1>0 DEF PiReads, shell
  <1>2. call \in Call /\ call.kind \in {"input", "command", "abort", "ui"}
    <2>1. stdin[1] = call /\ 1 \in 1 .. Len(stdin)
      BY <1>0, <1>1 DEF TypeOK
    <2> QED
      BY <1>0, <1>1, <2>1, StdinShrinks DEF KindInv
  <1>3. /\ Asked' # {} => Asked # {}
        /\ call \in PromptCalls => Asked # {} /\ Asked' = {}
    BY <1>0, <1>1, StdinShrinks DEF AliveInv, TurnInv
  <1>4. pi \in PiProcess /\ pi'.alive = pi.alive
    BY <1>1, <1>2, ServeLives DEF TypeOK
  <1>5. ASSUME NEW ok \in BOOLEAN, Write(<<Reply(call, ok)>>), pi' = pi
        PROVE  OutcomeInv'
    <2>1. PICK line : line = Reply(call, ok)
      OBVIOUS
    <2>2. /\ line \in Lines /\ Write(<<line>>) /\ line \notin ToldLines
          /\ line \notin SettledLines /\ line \notin CompactionLines
      BY <1>2, <1>5, <2>1, ReplyTells
    <2> QED
      BY <1>1, <1>3, <1>5, <2>2, WriteOutcome
  <1>6. CASE call.kind = "input"
    <2>1. call \in PromptCalls
      BY <1>2, <1>6 DEF PromptCalls
    <2>2. StartAgent(call) \/ Refuse(call)
      BY <1>1, <1>6 DEF Serve, ServePrompt
    <2>3. CASE StartAgent(call)
      BY <1>1, <1>2, <1>3, <2>1, <2>3, StartOutcome
    <2>4. CASE Refuse(call)
      BY <1>5, <2>4 DEF Refuse
    <2> QED
      BY <2>2, <2>3, <2>4
  <1>7. CASE call.kind = "abort"
    BY <1>1, <1>5, <1>7 DEF Serve, ServeAbort
  <1>8. CASE call.kind \in {"command", "ui"}
    <2>1. stdout' = stdout /\ pi'.agent = pi.agent /\ pi'.failed = pi.failed
      BY <1>1, <1>4, <1>8 DEF Serve, PiProcess
    <2>2. QuietInv' /\ TruthInv' /\ OpenInv'
      BY <1>1, <1>4, <2>1, OutcomePrimed
      DEF OutcomeInv, QuietInv, TruthInv, OpenInv
    <2>3. FreshInv' /\ RunInv'
      BY <1>1, <1>3, <1>4, <2>1, OutcomePrimed DEF OutcomeInv, FreshInv, RunInv
    <2> QED
      BY <2>2, <2>3 DEF OutcomeInv
  <1> QED
    BY <1>2, <1>6, <1>7, <1>8

LEMMA ReportsOutcome ==
    ASSUME TypeOK, AliveInv, OutcomeInv,
           NEW type \in {"text", "model_error", "extension_error",
                         "notify_error", "tool", "ask"}, PiReports(type)
    PROVE  OutcomeInv'
  <1>1. PICK line : line = Line(type, TRUE)
    OBVIOUS
  <1>2. /\ line \in Lines /\ line \notin SettledLines
        /\ line \notin CompactionLines /\ line.type = type
        /\ line \in ToldLines <=> type \notin {"tool", "ask"}
    BY <1>1, LineTells DEF EventType
  <1>3. Write(<<line>>) /\ UNCHANGED <<stdin, pendingError, closed>>
    BY <1>1 DEF PiReports, shell, rpc
  <1>4. Asked' = Asked
    BY <1>3, Unmoved
  <1>5. pi \in PiProcess
    BY DEF TypeOK
  <1>6. pi'.alive = pi.alive /\ pi'.agent = pi.agent
    BY <1>5 DEF PiReports, PiProcess
  <1>7. type \in {"tool", "ask"} => pi'.failed = pi.failed
    BY <1>5 DEF PiReports, PiProcess
  <1>8. type \notin {"tool", "ask"} => (pi'.failed <=> type # "text")
    <2>1. CASE type = "text"
      BY <1>5, <2>1 DEF PiReports, PiProcess
    <2>2. CASE type \notin {"tool", "ask", "text"}
      BY <1>5, <2>2 DEF PiReports, PiProcess
    <2> QED
      BY <2>1, <2>2
  <1> QED
    BY <1>2, <1>3, <1>4, <1>6, <1>7, <1>8, WriteOutcome

LEMMA SettlesOutcome ==
    ASSUME TypeOK, AliveInv, OutcomeInv, PiSettles
    PROVE  OutcomeInv'
  <1>1. PICK line : line = Line("agent_settled", ~pi.failed)
    OBVIOUS
  <1>2. pi \in PiProcess /\ (~pi.failed) \in BOOLEAN
    BY DEF TypeOK, PiProcess
  <1>3. /\ line \in Lines /\ line \notin CompactionLines
        /\ (pi.failed <=> ~line.ok)
    BY <1>1, <1>2, LineTells DEF EventType
  <1>4. /\ Write(<<line>>) /\ UNCHANGED <<stdin, pendingError, closed>>
        /\ pi.alive /\ pi.agent # 0
    BY <1>1 DEF PiSettles, shell, rpc
  <1>5. pi'.agent = 0 /\ pi'.alive = pi.alive
    BY <1>2 DEF PiSettles, PiProcess
  <1>6. Asked' = Asked /\ Ended = {}
    BY <1>4, Unmoved DEF AliveInv, TurnInv, Works
  <1>7. stdout' = stdout \o <<line>> /\ stdout \in Seq(Lines)
    BY <1>4 DEF TypeOK, Lines, Write
  <1>8. QuietInv'
    BY <1>3, <1>7, HitsOne, OutcomePrimed DEF OutcomeInv, QuietInv
  <1>9. TruthInv'
    <2>1. Hits(stdout, SettledLines) = {}
      BY <1>6, PipeHits
    <2>2. Leaves(stdout, Len(stdout) + 1, pi.failed, pendingError)
      BY <1>4 DEF OutcomeInv, RunInv
    <2>3. Truthful(stdout \o <<line>>, pendingError)
      BY <1>3, <1>7, <2>1, <2>2, TruthSettles
    <2> QED
      BY <1>4, <1>7, <2>3, OutcomePrimed
  <1>10. FreshInv' /\ OpenInv' /\ RunInv'
    BY <1>4, <1>5, <1>6, OutcomePrimed DEF OutcomeInv, FreshInv, OpenInv
  <1> QED
    BY <1>8, <1>9, <1>10 DEF OutcomeInv

LEMMA EndsCommandOutcome ==
    ASSUME TypeOK, AliveInv, OutcomeInv, PiEndsCommand
    PROVE  OutcomeInv'
  <1>1. PICK call \in pending, ok \in BOOLEAN :
           /\ call.kind = "command" /\ call.turn \in pi.commands
           /\ pi' = [pi EXCEPT !.commands = @ \ {call.turn}]
           /\ Write(<<Reply(call, ok)>>)
    BY DEF PiEndsCommand
  <1>2. PICK line : line = Reply(call, ok)
    OBVIOUS
  <1>3. /\ line \in Lines /\ Write(<<line>>) /\ line \notin ToldLines
        /\ line \notin SettledLines /\ line \notin CompactionLines
    BY <1>1, <1>2, ReplyTells DEF TypeOK
  <1>4. UNCHANGED <<stdin, pendingError, closed>>
    BY DEF PiEndsCommand, shell, rpc
  <1>5. pi'.agent = 0 /\ pi'.alive = pi.alive
    BY <1>1 DEF AliveInv, TurnInv, TypeOK, PiProcess
  <1>6. Asked' = Asked
    BY <1>4, Unmoved
  <1> QED
    BY <1>3, <1>4, <1>5, <1>6, WriteOutcome

LEMMA ContinueOutcome ==
    ASSUME TypeOK, LockInv, FreeInv, OutcomeInv, NEW a \in answered, Continue(a)
    PROVE  OutcomeInv'
  <1>1. a.call.kind # "compact"
    BY DEF LockInv, KindInv
  <1>2. UNCHANGED <<stdin, stdout>> /\ CloseAfter(a.call, a.ok)
    BY <1>1 DEF Continue
  <1>3. Asked' = Asked
    BY <1>2, Unmoved
  <1>4. pi' = [pi EXCEPT !.alive = FALSE] => ~pi'.alive
    BY DEF TypeOK, PiProcess
  <1>5. CASE closed'
    <2>1. ~pi'.alive
      BY <1>2, <1>4, <1>5 DEF CloseAfter, OutcomeInv, OpenInv
    <2> QED
      BY <1>2, <1>5, <2>1, OutcomePrimed DEF OutcomeInv, QuietInv
  <1>6. CASE ~closed'
    <2>1. closed' = closed /\ pi' = pi
      BY <1>2, <1>6 DEF CloseAfter
    <2>2. UNCHANGED pendingError
          \/ (Ended = {} /\ a \in Endings /\ pendingError' = FALSE)
      BY <1>6, <2>1, ContinueFree DEF LockInv, FreeInv
    <2>3. CASE UNCHANGED pendingError
      BY <1>2, <1>3, <2>1, <2>3, StayOutcome
    <2>4. CASE Ended = {} /\ a \in Endings /\ pendingError' = FALSE
      <3>1. pi.alive => pi.agent = 0
        BY <2>4 DEF LockInv, AliveInv, TurnInv, Works
      <3> QED
        BY <1>2, <2>1, <2>4, <3>1, NothingLeft
    <2> QED
      BY <2>2, <2>3, <2>4
  <1> QED
    BY <1>5, <1>6

LEMMA RouteOutcome ==
    ASSUME PlainRoutes, TypeOK, LockInv, FreeInv, OutcomeInv, Client \/ UiResponse
    PROVE  OutcomeInv'
  <1>1. CASE Input \/ Command
    <2>1. /\ requestState = "idle" /\ pendingError' = FALSE
          /\ UNCHANGED <<stdout, closed, pi>>
      BY <1>1 DEF Input, Command, BeginRequest
    <2>2. ~closed => Ended = {}
      BY <2>1 DEF FreeInv, FreeParts
    <2>3. pi.alive => pi.agent = 0
      BY <2>1 DEF LockInv, AliveInv, TurnInv, Works
    <2> QED
      BY <2>1, <2>2, <2>3, NothingLeft
  <1>2. CASE Steer \/ Compact
    BY <1>2 DEF PlainRoutes, Steer, Compact
  <1>3. CASE Abort
    <2>1. PICK call : call = [NewCall("abort") EXCEPT !.previous = requestState]
      OBVIOUS
    <2>2. /\ call \in Call /\ call \notin PromptCalls /\ Send(call)
          /\ UNCHANGED <<pendingError, stdout, pi, closed>>
      BY <1>3, <2>1 DEF Abort, NewCall, Call, TypeOK, PromptCalls
    <2>3. pi.alive => stdin' = Append(stdin, call)
      BY <2>2 DEF Send
    <2>4. pi.alive => Asked' = Asked
      BY <2>2, <2>3, StdinGrows
    <2> QED
      BY <2>2, <2>4, StayOutcome
  <1>4. CASE Close
    <2>1. ~pi'.alive
      BY <1>4 DEF Close, TypeOK, PiProcess
    <2> QED
      BY <1>4, <2>1, StayOutcome DEF Close, shell
  <1>5. CASE UiResponse
    <2>1. dialog /\ ~closed /\ UNCHANGED <<stdout, pi, closed>>
      BY <1>5 DEF UiResponse
    <2>2. CASE pi.alive
      <3>1. NewCall("ui") \in Call /\ NewCall("ui") \notin PromptCalls
        <4>1. NewCall("ui") \in Call
          BY NewCallType DEF TypeOK
        <4> QED
          BY <4>1 DEF NewCall, PromptCalls
      <3>2. stdin' = Append(stdin, NewCall("ui")) /\ pendingError' = pendingError
        BY <1>5, <2>2 DEF UiResponse, Send
      <3>3. Asked' = Asked
        BY <3>1, <3>2, StdinGrows
      <3> QED
        BY <2>1, <3>2, <3>3, StayOutcome
    <2>3. CASE ~pi.alive
      <3>1. pendingError' = FALSE
        BY <1>5, <2>3 DEF UiResponse, FinishRequest
      <3>2. Ended = {}
        BY <2>1 DEF FreeInv, FreeParts
      <3> QED
        BY <2>1, <2>3, <3>1, <3>2, NothingLeft
    <2> QED
      BY <2>2, <2>3
  <1> QED
    BY <1>1, <1>2, <1>3, <1>4, <1>5 DEF Client

LEMMA OutcomeSteps ==
    ASSUME PlainRoutes, TypeOK, LockInv, FreeInv, OutcomeInv, [Next]_vars
    PROVE  OutcomeInv'
  <1>1. pi.alive => AliveInv
    BY DEF LockInv
  <1>2. KindInv
    BY DEF LockInv
  <1>3. CASE PiReads \/ PiWorks \/ PiSettles \/ PiEndsCommand \/ PiEndsCompaction
    <2>1. AliveInv
      BY <1>1, <1>3, PiLives
    <2>2. CASE PiReads
      BY <1>2, <2>1, <2>2, PiReadsOutcome
    <2>3. CASE PiWorks
      BY <2>1, <2>3, ReportsOutcome DEF PiWorks
    <2>4. CASE PiSettles
      BY <2>1, <2>4, SettlesOutcome
    <2>5. CASE PiEndsCommand
      BY <2>1, <2>5, EndsCommandOutcome
    <2>6. CASE PiEndsCompaction
      BY <1>2, <2>6 DEF PiEndsCompaction, KindInv
    <2> QED
      BY <1>3, <2>2, <2>3, <2>4, <2>5, <2>6
  <1>4. CASE Client \/ UiResponse
    BY <1>4, RouteOutcome
  <1>5. ASSUME NEW a \in answered, Continue(a)
        PROVE  OutcomeInv'
    BY <1>5, ContinueOutcome
  <1>6. CASE ReadLine
    BY <1>6, ReadOutcome
  <1>7. CASE PiDies
    <2>1. ~pi'.alive
      BY <1>7 DEF PiDies, TypeOK, PiProcess
    <2> QED
      BY <1>7, <2>1, StayOutcome DEF PiDies, shell
  <1>8. CASE ChildClosed
    BY <1>8, StayOutcome DEF ChildClosed, shell
  <1>9. CASE UNCHANGED vars
    <2>1. Asked' = Asked
      BY <1>9, Unmoved DEF vars, rpc
    <2> QED
      BY <1>9, <2>1, StayOutcome DEF vars, shell
  <1> QED
    BY <1>3, <1>4, <1>5, <1>6, <1>7, <1>8, <1>9 DEF Next

LEMMA InitOutcome == Init => FreeInv /\ OutcomeInv
  <1> SUFFICES ASSUME Init PROVE FreeInv /\ OutcomeInv
    OBVIOUS
  <1>1. /\ stdout = <<>> /\ stdin = <<>> /\ answered = {} /\ pi.agent = 0
        /\ ~dialog /\ ~closed /\ ~pendingError
    BY DEF Init
  <1>2. \A M : Hits(<<>>, M) = {}
    BY DEF Hits
  <1>3. Ended = {} /\ Asking = {} /\ Endings = {} /\ Asked = {}
    BY <1>1, <1>2 DEF Ended, Asking, Endings, Asked
  <1>4. FreeInv
    BY <1>1, <1>3 DEF FreeInv, FreeParts, AtMostOne
  <1>5. OutcomeInv
    BY <1>1, <1>2 DEF OutcomeInv, QuietInv, TruthInv, Truthful, FreshInv, RunInv, OpenInv
  <1> QED
    BY <1>4, <1>5

\* Only the Shell takes a line from the pipe.
LEMMA OnlyReads ==
    ASSUME TypeOK, [Next]_vars, stdout # <<>>, stdout' = Tail(stdout)
    PROVE  ReadLine
  <1>a. stdout \in Seq(Lines)
    BY DEF TypeOK, Lines
  <1>b. Len(stdout) \in Nat /\ Len(Tail(stdout)) = Len(stdout) - 1
    BY <1>a
  <1>c. PICK n \in Nat : n = Len(stdout) /\ Len(stdout') = n - 1
    BY <1>b
  <1>1. stdout' # stdout
    <2>1. n - 1 # n
      OBVIOUS
    <2> QED
      BY <1>c, <2>1, Zenon
  <1>2. ASSUME NEW lines \in Seq(Lines), Write(lines) PROVE FALSE
    <2>1. Len(stdout \o lines) = Len(stdout) + Len(lines) /\ Len(lines) \in Nat
      BY <1>a
    <2>2. stdout' = stdout \o lines
      BY <1>2 DEF Write
    <2>3. Len(stdout') = n + Len(lines)
      BY <1>c, <2>1, <2>2, Zenon
    <2> QED
      BY <1>c, <2>1, <2>3
  <1>3. ASSUME NEW call \in Call, NEW ok \in BOOLEAN
        PROVE  <<Reply(call, ok)>> \in Seq(Lines)
    BY ReplyType, ShortSeq
  <1>4. ASSUME NEW type \in EventType, NEW ok \in BOOLEAN
        PROVE  <<Line(type, ok)>> \in Seq(Lines)
    BY LineType, ShortSeq
  <1>5. CASE PiReads
    <2>1. PICK call \in Call : Serve(call)
      BY <1>5, HeadAndTail DEF PiReads, TypeOK
    <2>2. <<Reply(call, TRUE), Line("agent_start", TRUE)>> \in Seq(Lines)
      BY ReplyType, LineType, ShortSeq DEF EventType
    <2>3. CASE call.kind \in {"input", "steer"}
      BY <1>2, <1>3, <2>1, <2>2, <2>3 DEF Serve, ServePrompt, StartAgent, Refuse
    <2>4. CASE call.kind = "compact"
      BY <1>2, <1>3, <1>4, <2>1, <2>4 DEF Serve, ServeCompact, Refuse, EventType
    <2>5. CASE call.kind \notin {"input", "steer", "compact"}
      BY <1>1, <1>2, <1>3, <2>1, <2>5 DEF Serve, ServeAbort
    <2> QED
      BY <2>3, <2>4, <2>5
  <1>6. CASE PiWorks
    BY <1>2, <1>4, <1>6 DEF PiWorks, PiReports, EventType
  <1>7. CASE PiSettles
    <2>1. (~pi.failed) \in BOOLEAN
      BY DEF TypeOK, PiProcess
    <2> QED
      BY <1>2, <1>4, <1>7, <2>1 DEF PiSettles, EventType
  <1>8. CASE PiEndsCommand
    BY <1>2, <1>3, <1>8 DEF PiEndsCommand, TypeOK
  <1>9. CASE PiEndsCompaction
    <2>1. PICK call \in Call, ok \in BOOLEAN :
             Write(<<Line("compaction_end", ok), Reply(call, ok)>>)
      BY <1>9 DEF PiEndsCompaction, TypeOK
    <2>2. <<Line("compaction_end", ok), Reply(call, ok)>> \in Seq(Lines)
      BY ReplyType, LineType, ShortSeq DEF EventType
    <2> QED
      BY <1>2, <2>1, <2>2
  <1>10. CASE Client \/ UiResponse
    BY <1>1, <1>10 DEF Client, Input, Command, BeginRequest, Steer, Abort, Compact,
       Close, UiResponse
  <1>11. CASE \E a \in answered : Continue(a)
    BY <1>1, <1>11 DEF Continue
  <1>12. CASE PiDies \/ ChildClosed \/ UNCHANGED vars
    BY <1>1, <1>12 DEF PiDies, ChildClosed, vars
  <1> QED
    BY <1>5, <1>6, <1>7, <1>8, <1>9, <1>10, <1>11, <1>12 DEF Next

\* A turn that ends unaborted is reported as an error exactly when the last
\* thing Pi reported in it was one, whatever clients send and whenever Pi dies:
\* no error of an earlier request and no reset of a later one comes between.
THEOREM OutcomeIsReported ==
    ASSUME PlainRoutes
    PROVE  Spec => OutcomeIsTruthful
  <1>1. Init => LockInv /\ FreeInv /\ OutcomeInv
    BY InitLock, InitOutcome
  <1>2. TypeOK /\ LockInv /\ FreeInv /\ OutcomeInv /\ [Next]_vars
          => LockInv' /\ FreeInv' /\ OutcomeInv'
    BY LockSteps, FreeSteps, OutcomeSteps
  <1>3. TypeOK /\ OutcomeInv /\ [Next]_vars
          => [\A ok \in BOOLEAN :
                /\ stdout # <<>> /\ stdout' = Tail(stdout) /\ ~closed
                /\ Head(stdout) = Line("agent_settled", ok)
                /\ requestState = "input"
                => activity' = IF ok THEN "done" ELSE "error"]_vars
    <2> SUFFICES ASSUME TypeOK, OutcomeInv, [Next]_vars, NEW ok \in BOOLEAN,
                        stdout # <<>>, stdout' = Tail(stdout), ~closed,
                        Head(stdout) = Line("agent_settled", ok),
                        requestState = "input"
                 PROVE  activity' = IF ok THEN "done" ELSE "error"
      OBVIOUS
    <2>1. ReadLine
      BY OnlyReads
    <2>2. PICK line : line = Head(stdout)
      OBVIOUS
    <2>3. line.type = "agent_settled" /\ line.ok = ok /\ line \in SettledLines
      BY <2>2, LineTells DEF EventType
    <2>4. FinishRequest(IF pendingError THEN "error" ELSE "done")
      BY <2>1, <2>2, <2>3 DEF ReadLine, HandleEvent, AgentSettled
    <2>5. 1 \in Hits(stdout, SettledLines) /\ stdout[1] = line
      BY <2>2, <2>3 DEF TypeOK, Hits
    <2>6. Leaves(stdout, 1, ~ok, pendingError)
      BY <2>3, <2>5 DEF OutcomeInv, TruthInv, Truthful
    <2>7. \A j \in Hits(stdout, ToldLines) : ~(j < 1)
      BY DEF Hits
    <2>8. ~ok <=> pendingError
      BY <2>6, <2>7 DEF Leaves
    <2> QED
      BY <2>4, <2>8 DEF FinishRequest, PublishFinal
  <1> QED
    BY <1>1, <1>2, <1>3, ShellTypes, PTL DEF Spec, OutcomeIsTruthful
=============================================================================
