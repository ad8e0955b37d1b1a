------------------------------ MODULE GameReplay ------------------------------
(***************************************************************************)
(* The game of a repair session: the runtime that opens Vite and the       *)
(* browser, the driver that records what the model plays from a one-time   *)
(* checkpoint, the reproduction that is saved from the record, and its     *)
(* replay after an edit, by /play or for a verification.                   *)
(*                                                                         *)
(* The game itself is external: a position on a way of which every place   *)
(* wants one kind of action, and a version of the code, which decides what *)
(* answers the terminal accepts.  A failed action leaves the game where it *)
(* was.  Tools and commands run one after the other, but Vite reloads the  *)
(* page on its own after a write, once at most, and when it likes: while   *)
(* the replay of the edit waits for it, when there is no such replay, in   *)
(* the middle of one, or not at all.                                       *)
(***************************************************************************)
EXTENDS Integers, Sequences, FiniteSets, SequencesExt

CONSTANTS
    MaxAt,          \* the last place of the way
    Needs,          \* what each place before it wants
    Versions,       \* the versions of the worktree
    Base,           \* the one a session starts with
    Answers,        \* what can be typed into the terminal
    Accepts,        \* the answers each version accepts
    Expected,       \* the places an assertion can demand
    Faults,         \* what can go wrong: "open", "event", "window"
    Capacity,       \* entries the trace holds
    MaxSequence     \* bound on the entries of one driver

NoAnswer == "none"  \* null, for the answer still to be submitted

ASSUME GameAssumption ==
    /\ MaxAt \in Nat
    /\ Needs \in [0 .. MaxAt - 1 -> {"go", "use", "query"}]
    /\ Base \in Versions
    /\ NoAnswer \notin Answers
    /\ Accepts \in [Versions -> SUBSET Answers]
    /\ Expected \subseteq 0 .. MaxAt
    /\ Faults \subseteq {"open", "event", "window"}
    /\ {Capacity, MaxSequence} \subseteq Nat \ {0}

VARIABLES
    runtime,    \* the server, the browser and who holds them
    page,       \* the document in the game's frame
    token,      \* the checkpoint in its session storage
    code,       \* the version of the worktree
    hot,        \* Vite has yet to react to a write
    driver,     \* checkpointReady, lastView, pendingSql and the sequence
    trace,      \* the ring of recorded actions
    sqls,       \* replayInputSql
    repro,      \* the active reproduction
    cached,     \* versions with a successful replay of it
    replay,     \* the replay in progress
    start,      \* where the checkpoint was first made (history)
    lost,       \* since then Vite reloaded the page while no replay was
                \* waiting for it (history)
    dropped     \* since the trace was cleared it lost an entry, or the page
                \* changed its code (history)

record == <<driver, trace, sqls, start, lost, dropped>>
vars == <<runtime, page, token, code, hot, record, repro, cached, replay>>

None == -1

(* A document: where the game stands, whether it was restored from a       *)
(* checkpoint, whether the driver took that restoration for its own, and   *)
(* the version it loaded.                                                  *)
NewPage == [at |-> 0, restored |-> FALSE, taken |-> FALSE, code |-> code]
NoPage == [at |-> 0, restored |-> FALSE, taken |-> FALSE, code |-> Base]

NewDriver == [ready |-> FALSE, view |-> None, pending |-> NoAnswer, sequence |-> 0]
NoRepro == [actions |-> <<>>, expect |-> 0, start |-> 0, end |-> 0,
            code |-> Base, whole |-> FALSE, here |-> FALSE]
Idle == [phase |-> "none", todo |-> <<>>, caches |-> FALSE, failed |-> FALSE]

(* Who holds what: `opening` is the step the one shared start has reached. *)
Closed == [opening |-> "no", server |-> FALSE, browser |-> FALSE, active |-> FALSE]

Init ==
    /\ runtime = Closed
    /\ page = NoPage /\ token = None /\ hot = FALSE
    /\ code = Base
    /\ driver = NewDriver /\ trace = <<>> /\ sqls = <<>>
    /\ start = None /\ lost = FALSE /\ dropped = FALSE
    /\ repro = NoRepro /\ cached = {} /\ replay = Idle

-------------------------------------------------------------------------------
(* The game.                                                               *)

Wants(at, act) == at < MaxAt /\ Needs[at] = act

(* "off" stands for action-not-available and query-not-available.          *)
Outcome(act, at, answer, version) ==
    CASE ~ Wants(at, act) -> IF act = "go" THEN "no" ELSE "off"
      [] Wants(at, act) /\ act = "query" /\ answer \notin Accepts[version] -> "no"
      [] OTHER -> "yes"

After(at, outcome) == IF outcome = "yes" THEN at + 1 ELSE at

(* Loading a document consumes the token, if there is one.                 *)
Loaded ==
    IF token = None THEN NewPage
    ELSE [NewPage EXCEPT !.at = token, !.restored = TRUE]

-------------------------------------------------------------------------------
(* The runtime.                                                            *)

Up == runtime.active /\ runtime.browser
Free == Up /\ replay.phase = "none"

(* ensure(): session start and /play; a start in progress is shared.       *)
Ensure ==
    /\ ~ runtime.active /\ runtime.opening = "no"
    /\ runtime' = [runtime EXCEPT !.opening = "server", !.server = TRUE]
    /\ UNCHANGED <<page, token, code, hot, record, repro, cached, replay>>

OpenBrowser ==
    /\ runtime.opening = "server"
    /\ runtime' = [runtime EXCEPT !.opening = "browser", !.browser = TRUE]
    /\ page' = NewPage
    /\ token' = None
    /\ UNCHANGED <<code, hot, record, repro, cached, replay>>

(* The driver is new, and with it the trace and the answers it can replay. *)
Activate ==
    /\ runtime.opening = "browser"
    /\ runtime' = [runtime EXCEPT !.opening = "event", !.active = TRUE]
    /\ driver' = NewDriver /\ trace' = <<>> /\ sqls' = <<>>
    /\ start' = None /\ lost' = FALSE /\ dropped' = FALSE
    /\ UNCHANGED <<page, token, code, hot, repro, cached, replay>>

Opened ==
    /\ runtime.opening = "event"
    /\ runtime' = [runtime EXCEPT !.opening = "no"]
    /\ UNCHANGED <<page, token, code, hot, record, repro, cached, replay>>

OpenFails_Bug ==
    /\ \/ "open" \in Faults /\ runtime.opening \in {"server", "browser"}
       \/ "event" \in Faults /\ runtime.opening = "event"
    /\ runtime' = [runtime EXCEPT !.opening = "no", !.browser = FALSE]
    /\ UNCHANGED <<page, token, code, hot, record, repro, cached, replay>>

(* A failed start closes what it opened; what was made active stays so.    *)
OpenFails ==
    /\ \/ "open" \in Faults /\ runtime.opening \in {"server", "browser"}
       \/ "event" \in Faults /\ runtime.opening = "event"
    /\ runtime' = [runtime EXCEPT !.opening = "no", !.browser = FALSE,
                                  !.server = FALSE]
    /\ UNCHANGED <<page, token, code, hot, record, repro, cached, replay>>

(* The user closes the window.                                             *)
LoseWindow ==
    /\ "window" \in Faults /\ Up
    /\ runtime' = [runtime EXCEPT !.browser = FALSE]
    /\ replay' = Idle
    /\ UNCHANGED <<page, token, code, hot, record, repro, cached>>

(* close() waits for a start in progress.  The next session takes a        *)
(* reproduction that needs an answer out of the active ones, because the   *)
(* answer was only in memory, and finds the actions and the assertion of   *)
(* any other.                                                              *)
NeedsSql(actions) == \E k \in 1 .. Len(actions) : actions[k].act = "input"

EndSession ==
    /\ runtime.opening = "no" /\ runtime.active /\ replay.phase = "none"
    /\ runtime' = Closed
    /\ page' = NoPage /\ token' = None /\ hot' = FALSE
    /\ driver' = NewDriver /\ trace' = <<>> /\ sqls' = <<>>
    /\ start' = None /\ lost' = FALSE /\ dropped' = FALSE
    /\ repro' = IF NeedsSql(repro.actions) THEN NoRepro
                ELSE [NoRepro EXCEPT !.actions = repro.actions,
                                     !.expect = repro.expect]
    /\ cached' = {}
    /\ UNCHANGED <<code, replay>>

-------------------------------------------------------------------------------
(* The driver.                                                             *)

(* beginReproduction.  It does not tell the restorations apart: one that   *)
(* the driver has not taken would still be taken by the next replay.       *)
Begin ==
    /\ token' = page.at
    /\ trace' = <<>> /\ sqls' = <<>>
    /\ driver' = [driver EXCEPT !.ready = TRUE, !.view = page.at,
                                !.pending = NoAnswer]
    /\ start' = page.at /\ dropped' = FALSE
    /\ lost' = (page.restored /\ ~ page.taken)
    /\ UNCHANGED <<runtime, page, code, hot, repro, cached>>

(* look, and the checkpoint every tool makes when there is none.           *)
Look ==
    /\ Free
    /\ IF driver.ready
       THEN /\ driver' = [driver EXCEPT !.view = page.at]
            /\ UNCHANGED <<runtime, page, token, code, hot, trace, sqls, start,
                           lost, dropped, repro, cached>>
       ELSE Begin
    /\ UNCHANGED replay

Entry(act, outcome, k) == [sequence |-> driver.sequence + k, act |-> act, ok |-> outcome]

Ring(entries) ==
    LET all == trace \o entries
    IN  SubSeq(all, IF Len(all) > Capacity THEN Len(all) - Capacity + 1 ELSE 1, Len(all))

(* trace.push                                                              *)
Push(entries) ==
    /\ trace' = Ring(entries)
    /\ dropped' = (dropped \/ Len(trace) + Len(entries) > Capacity)

Play(act) ==
    LET outcome == Outcome(act, page.at, NoAnswer, page.code)
    IN  /\ driver.sequence < MaxSequence
        /\ page' = [page EXCEPT !.at = After(page.at, outcome)]
        /\ Push(<<Entry(act, outcome, 1)>>)
        /\ driver' = [driver EXCEPT !.view = page'.at, !.sequence = @ + 1]
        /\ UNCHANGED sqls

(* inputSql sees the terminal through the last view, and keeps the answer  *)
(* under the number of its entry, even if there is no terminal.            *)
TerminalSeen == driver.view # None /\ Wants(driver.view, "query")

Input(answer) ==
    /\ driver.sequence < MaxSequence
    /\ Push(<<Entry("input", IF TerminalSeen THEN "yes" ELSE "off", 1)>>)
    /\ sqls' = Append(sqls, [sequence |-> driver.sequence + 1, answer |-> answer])
    /\ driver' = [driver EXCEPT !.pending = answer, !.sequence = @ + 1]
    /\ UNCHANGED page

Submit ==
    LET outcome == Outcome("query", page.at, driver.pending, page.code)
    IN  /\ driver.pending # NoAnswer
        /\ driver.sequence < MaxSequence
        /\ page' = [page EXCEPT !.at = After(page.at, outcome)]
        /\ Push(<<Entry("query", outcome, 1)>>)
        /\ driver' = [driver EXCEPT !.view = page'.at, !.sequence = @ + 1,
                                    !.pending = NoAnswer]
        /\ UNCHANGED sqls

Untouched == UNCHANGED <<runtime, token, code, hot, repro, cached, replay, start,
                         lost>>

(* The act tool.                                                           *)
Act(act) == Free /\ driver.ready /\ Play(act) /\ Untouched

(* The query tool: input, and the query when the terminal was seen.        *)
Query(answer) ==
    LET outcome == Outcome("query", page.at, answer, page.code)
        input == Entry("input", IF TerminalSeen THEN "yes" ELSE "off", 1)
    IN  /\ Free /\ driver.ready
        /\ driver.sequence + 1 < MaxSequence
        /\ sqls' = Append(sqls, [sequence |-> driver.sequence + 1, answer |-> answer])
        /\ IF TerminalSeen
           THEN /\ Push(<<input, Entry("query", outcome, 2)>>)
                /\ page' = [page EXCEPT !.at = After(page.at, outcome)]
                /\ driver' = [driver EXCEPT !.view = page'.at, !.pending = NoAnswer,
                                            !.sequence = @ + 2]
           ELSE /\ Push(<<input>>)
                /\ driver' = [driver EXCEPT !.pending = answer, !.sequence = @ + 1]
                /\ UNCHANGED page
        /\ Untouched

-------------------------------------------------------------------------------
(* The reproduction.                                                       *)

(* The entries of a trace that are among those kept, in their order.       *)
Only(entries, kept) ==
    LET upTo[k \in 0 .. Len(entries)] ==
            IF k = 0 THEN <<>>
            ELSE upTo[k - 1] \o IF entries[k] \in kept THEN <<entries[k]>> ELSE <<>>
    IN  upTo[Len(entries)]

Replayable_Bug(entries) ==
    Only(entries, {e \in ToSet(entries) : e.act # "input" /\ e.ok = "yes"})

(* A failed probe is left out, unless it came last or may be the cause of  *)
(* what follows.                                                           *)
Replayable(entries) ==
    Only(entries, {e \in ToSet(entries) : \/ e.act = "input" \/ e.ok = "yes"
                                          \/ e.ok = "off"
                                          \/ e = Last(entries)})

(* finish(reproduced)                                                      *)
SaveReproduction(expect) ==
    /\ Free /\ trace # <<>> /\ Replayable(trace) # <<>>
    /\ repro' = [actions |-> Replayable(trace), expect |-> expect,
                 start |-> start, end |-> page.at, code |-> page.code,
                 whole |-> ~ dropped, here |-> TRUE]
    /\ cached' = {}
    /\ UNCHANGED <<runtime, page, token, code, hot, record, replay>>

(* A request with a new problem supersedes it.                             *)
NewGoal ==
    /\ repro.actions # <<>> /\ replay.phase = "none"
    /\ repro' = NoRepro
    /\ cached' = {}
    /\ UNCHANGED <<runtime, page, token, code, hot, record, replay>>

-------------------------------------------------------------------------------
(* The replay.                                                             *)

Answer(sequence) ==
    {sqls[k].answer : k \in {j \in 1 .. Len(sqls) : sqls[j].sequence = sequence}}

SqlAvailable(actions) ==
    \A k \in 1 .. Len(actions) :
        actions[k].act = "input" => Answer(actions[k].sequence) # {}

(* reloadAndReplay refuses without a checkpoint or without an answer.      *)
Replaying(caches) ==
    replay' = IF SqlAvailable(repro.actions)
              THEN [phase |-> "asked", todo |-> repro.actions, caches |-> caches,
                    failed |-> FALSE]
              ELSE Idle

HasRepro == repro.actions # <<>>

(* edit: the checkpoint is there before the files are written (Look makes  *)
(* it, if it is not); with a reproduction the replay follows, and fails at *)
(* once when the window is gone.                                           *)
Edit(version) ==
    /\ replay.phase = "none" /\ runtime.opening = "no" /\ version # code
    /\ runtime.active => driver.ready
    /\ HasRepro => runtime.active
    /\ driver.sequence + Len(repro.actions) <= MaxSequence
    /\ code' = version
    /\ hot' = runtime.server
    /\ IF HasRepro /\ runtime.browser THEN Replaying(TRUE) ELSE UNCHANGED replay
    /\ UNCHANGED <<runtime, page, token, record, repro, cached>>

(* /verify, and finish(result): only what is not known to pass is replayed. *)
Verify ==
    /\ Free /\ driver.ready /\ HasRepro /\ code \notin cached
    /\ driver.sequence + Len(repro.actions) <= MaxSequence
    /\ Replaying(TRUE)
    /\ UNCHANGED <<runtime, page, token, code, hot, record, repro, cached>>

(* /play: with a reproduction the start is made only if there is none yet, *)
(* and the replay follows; without one it is made anew.                    *)
PlayCommand ==
    /\ Free
    /\ driver.sequence + Len(repro.actions) <= MaxSequence
    /\ IF HasRepro /\ driver.ready
       THEN UNCHANGED <<runtime, page, token, code, hot, record, repro, cached>>
       ELSE Begin
    /\ IF HasRepro THEN Replaying(FALSE) ELSE UNCHANGED replay

Reload_Bug ==
    /\ Up /\ replay.phase = "asked"
    /\ LET next == IF page.restored THEN page ELSE Loaded
       IN  /\ page' = [next EXCEPT !.taken = next.restored]
           /\ token' = IF page.restored THEN token ELSE None
           /\ replay' = IF next.restored THEN [replay EXCEPT !.phase = "reloaded"]
                        ELSE Idle
    /\ UNCHANGED <<runtime, code, hot, record, repro, cached>>

(* reloadFromCheckpoint: a restoration that is not the one already taken   *)
(* is Vite's, and saves the reload.                                        *)
Reload ==
    /\ Up /\ replay.phase = "asked"
    /\ LET vite == page.restored /\ ~ page.taken
           next == IF vite THEN page ELSE Loaded
       IN  /\ page' = [next EXCEPT !.taken = next.restored]
           /\ token' = IF vite THEN token ELSE None
           /\ replay' = IF next.restored THEN [replay EXCEPT !.phase = "reloaded"]
                        ELSE Idle
    /\ UNCHANGED <<runtime, code, hot, record, repro, cached>>

Recheckpoint_Bug ==
    /\ Up /\ replay.phase = "reloaded"
    /\ trace' = <<>> /\ dropped' = FALSE
    /\ driver' = [driver EXCEPT !.view = page.at, !.pending = NoAnswer]
    /\ replay' = [replay EXCEPT !.phase = "running"]
    /\ UNCHANGED <<runtime, page, token, code, hot, sqls, start, lost, repro, cached>>

Recheckpoint_Forgets ==
    /\ Up /\ replay.phase = "reloaded"
    /\ token' = page.at
    /\ trace' = <<>> /\ sqls' = <<>> /\ dropped' = FALSE
    /\ driver' = [driver EXCEPT !.view = page.at, !.pending = NoAnswer]
    /\ replay' = [replay EXCEPT !.phase = "running"]
    /\ UNCHANGED <<runtime, page, code, hot, start, lost, repro, cached>>

(* The same start is made a checkpoint again.                              *)
Recheckpoint ==
    /\ Up /\ replay.phase = "reloaded"
    /\ token' = page.at
    /\ trace' = <<>> /\ dropped' = FALSE
    /\ driver' = [driver EXCEPT !.view = page.at, !.pending = NoAnswer]
    /\ replay' = [replay EXCEPT !.phase = "running"]
    /\ UNCHANGED <<runtime, page, code, hot, sqls, start, lost, repro, cached>>

(* Each action waits until the page wants it; movement only until no       *)
(* terminal is open.  A query without an answer in the buffer throws.      *)
Awaited(act) ==
    CASE act = "go" -> ~ Wants(page.at, "query")
      [] act = "use" -> Wants(page.at, "use")
      [] OTHER -> Wants(page.at, "query")

Fail == replay' = [replay EXCEPT !.todo = <<>>, !.failed = TRUE]

ReplayAction ==
    /\ Up /\ replay.phase = "running" /\ replay.todo # <<>>
    /\ LET action == Head(replay.todo)
       IN  IF ~ Awaited(action.act)
              \/ (action.act = "query" /\ driver.pending = NoAnswer)
           THEN Fail /\ UNCHANGED <<page, driver, trace, sqls, dropped>>
           ELSE /\ CASE action.act = "input" -> \E answer \in Answer(action.sequence) :
                                                    Input(answer)
                     [] action.act = "query" -> Submit
                     [] OTHER -> Play(action.act)
                /\ IF action.ok = "yes" /\ Last(trace').ok # "yes" THEN Fail
                   ELSE replay' = [replay EXCEPT !.todo = Tail(@)]
    /\ UNCHANGED <<runtime, token, code, hot, start, lost, repro, cached>>

Passed == ~ replay.failed /\ page.at >= repro.expect

(* The assertions are judged on the final view, and a success is kept for  *)
(* the version the worktree had.                                           *)
FinishReplay ==
    /\ replay.phase = "running" /\ replay.todo = <<>>
    /\ replay' = Idle
    /\ cached' = IF Passed /\ replay.caches THEN cached \cup {code} ELSE cached
    /\ UNCHANGED <<runtime, page, token, code, hot, record, repro>>

(* Vite's own reload: before the replay the edit asked for, or unasked, as *)
(* after an edit without an active reproduction, which replays nothing.    *)
(* In either case the token goes with it.                                  *)
OwnReload ==
    /\ runtime.browser /\ hot
    /\ page' = Loaded
    /\ token' = None
    /\ hot' = FALSE
    /\ lost' = (lost \/ replay.phase # "asked")
    /\ UNCHANGED <<runtime, code, driver, trace, sqls, start, dropped, repro, cached,
                   replay>>

(* Vite replaced the module in the running page, or had nothing to do.     *)
HotUpdate ==
    /\ hot
    /\ hot' = FALSE
    /\ page' \in {page, [page EXCEPT !.code = code]}
    /\ dropped' = (dropped \/ page' # page)
    /\ UNCHANGED <<runtime, token, code, driver, trace, sqls, start, lost, repro,
                   cached, replay>>

Next ==
    \/ Ensure \/ OpenBrowser \/ Activate \/ Opened \/ OpenFails
    \/ LoseWindow \/ EndSession
    \/ Look
    \/ \E act \in {"go", "use"} : Act(act)
    \/ \E answer \in Answers : Query(answer)
    \/ \E expect \in Expected : SaveReproduction(expect)
    \/ NewGoal
    \/ \E version \in Versions : Edit(version)
    \/ Verify \/ PlayCommand
    \/ Reload \/ Recheckpoint \/ ReplayAction \/ FinishReplay
    \/ OwnReload \/ HotUpdate

Spec == Init /\ [][Next]_vars

-------------------------------------------------------------------------------
(* Properties.                                                             *)

(* play.ts and patch.ts: the start of a reproduction is never overwritten  *)
(* in the state of the symptom, so that a later verification begins where  *)
(* this one did.  Whenever no replay is reloading the page, the token is   *)
(* the place where the first checkpoint was made, and that of the active   *)
(* reproduction if it is from this session.  This holds until Vite reloads *)
(* the page unasked, see ReplayStartsOver.                                 *)
StartKept ==
    Up /\ driver.ready /\ ~ lost /\ replay.phase \in {"none", "running"} =>
        /\ token = start
        /\ HasRepro /\ repro.here => repro.start = start

(* A session never loses an answer its reproduction needs, nor takes one   *)
(* for another: after any number of replays, which record the answers once *)
(* more, replay-input-unavailable is not among the results.                *)
ReplayHasItsSql ==
    Up /\ repro.here =>
        \A k \in 1 .. Len(repro.actions) :
            repro.actions[k].act = "input"
                => Cardinality(Answer(repro.actions[k].sequence)) = 1

(* Vite and the browser are never left running by a start that failed, an  *)
(* event that could not be written or a session that ended: someone who    *)
(* will close them holds them.                                             *)
RuntimeIsOwned ==
    runtime.server \/ runtime.browser => runtime.active \/ runtime.opening # "no"

(* driver.ts: a replay runs the newest code of the worktree.  What counts  *)
(* as a successful replay of a version ran on that version, also when Vite *)
(* reloads the page on its own while the replay waits for the reload.      *)
ReplayRanTheCode ==
    [][\A version \in cached' \ cached : lost \/ page.code = version]_vars

(* What the filter leaves of a trace is enough: replayed on the version it *)
(* was saved on it goes through to the end and stops where the model saw   *)
(* the symptom.  Excepted are traces that outgrew the ring or saw two      *)
(* versions, and those with a failed action the replay waits for in vain,  *)
(* and a start that Vite took away.                                        *)
Settled(actions) ==
    \A k \in 1 .. Len(actions) :
        actions[k].ok = "yes" \/ (actions[k].act = "query" /\ actions[k].ok = "no")

ReplayReproduces ==
    [][FinishReplay /\ ~ lost /\ repro.here /\ repro.whole /\ ~ dropped
          /\ Settled(repro.actions) /\ page.code = repro.code
        => ~ replay.failed /\ page.at = repro.end]_vars

(* verification.ts: with an active reproduction the replay must reload     *)
(* from the original checkpoint.                                           *)
ReplayStartsOver ==
    [][replay.phase = "asked" /\ replay'.phase = "reloaded" => page'.at = start]_vars
=============================================================================
