--------------------------- MODULE GameReplayProofs ---------------------------
(***************************************************************************)
(* What a session opens has an owner, and the start of a reproduction is   *)
(* kept until Vite reloads the page unasked: for every way through the     *)
(* game, every version, any number of sessions and replays, and a ring and *)
(* a driver of any size.  Its answers are kept in any case, and what is    *)
(* recorded and filtered leads, replayed on the same version, where the    *)
(* record did.                                                             *)
(***************************************************************************)
EXTENDS GameReplay, WellFoundedInduction, FiniteSetTheorems, TLAPS

\* The part of the types that the arguments need.
Shape ==
    /\ runtime \in [opening : {"no", "server", "browser", "event"},
                    server : BOOLEAN, browser : BOOLEAN, active : BOOLEAN]
    /\ DOMAIN page = {"at", "restored", "taken", "code"}
    /\ page.at \in Nat /\ page.restored \in BOOLEAN /\ page.taken \in BOOLEAN
    /\ token \in Nat \cup {None}
    /\ hot \in BOOLEAN /\ lost \in BOOLEAN
    /\ DOMAIN driver = {"ready", "view", "pending", "sequence"}
    /\ driver.ready \in BOOLEAN
    /\ DOMAIN replay = {"phase", "todo", "caches", "failed"}
    /\ replay.phase \in {"none", "asked", "reloaded", "running"}
    /\ DOMAIN repro = {"actions", "expect", "start", "end", "code", "whole", "here"}
    /\ repro.here \in BOOLEAN

\* How far a start has got, and who holds what it opened.
Owner ==
    /\ runtime.opening \in {"server", "browser"} => ~ runtime.active
    /\ runtime.opening = "event" => runtime.active
    /\ RuntimeIsOwned
    /\ ~ runtime.active => ~ hot
    /\ runtime.opening = "browser" => ~ page.restored

\* What needs a driver that made a checkpoint.
Ready ==
    /\ replay.phase # "none" => runtime.active /\ driver.ready
    /\ trace # <<>> => driver.ready
    /\ repro.here => /\ runtime.active /\ driver.ready /\ HasRepro
                     /\ repro.start = start
    /\ runtime.active /\ driver.ready => start \in Nat

\* As long as Vite reloads the page for a replay only, a restoration the driver
\* has not taken is Vite's, at the start.
Restored ==
    runtime.browser /\ page.restored /\ ~ page.taken /\ ~ lost =>
        replay.phase = "asked" /\ token = None /\ page.at = start /\ ~ hot

\* Where the start is meanwhile.
Kept ==
    Up /\ driver.ready /\ ~ lost =>
        /\ replay.phase \in {"none", "running"} => token = start
        /\ replay.phase = "asked" =>
               token = start \/ (page.restored /\ ~ page.taken)
        /\ replay.phase = "reloaded" => page.at = start

Inv == Shape /\ Owner /\ Ready /\ Restored /\ Kept

USE DEF None

LEMMA InitInv == Init => Inv
  <1> SUFFICES ASSUME Init PROVE Inv
    OBVIOUS
  <1>1. Shape
    BY DEF Init, Shape, Closed, NoPage, NewDriver, NoRepro, Idle
  <1>2. Owner
    BY DEF Init, Owner, RuntimeIsOwned, Closed
  <1>3. Ready
    BY DEF Init, Ready, Closed, NewDriver, NoRepro, Idle
  <1>4. Restored /\ Kept
    BY DEF Init, Restored, Kept, Closed, Up
  <1> QED
    BY <1>1, <1>2, <1>3, <1>4 DEF Inv

-------------------------------------------------------------------------------
(* The runtime.                                                            *)

LEMMA EnsureKeeps == ASSUME Inv, Ensure PROVE Inv'
  BY DEF Ensure, Inv, Shape, Owner, RuntimeIsOwned, Ready, Restored, Kept,
         HasRepro, Up, record

LEMMA OpenBrowserKeeps == ASSUME Inv, OpenBrowser PROVE Inv'
  BY DEF OpenBrowser, NewPage, Inv, Shape, Owner, RuntimeIsOwned, Ready, Restored,
         Kept, HasRepro, Up, record

LEMMA ActivateKeeps == ASSUME Inv, Activate PROVE Inv'
  BY DEF Activate, NewDriver, Inv, Shape, Owner, RuntimeIsOwned, Ready, Restored,
         Kept, HasRepro, Up

LEMMA OpenedKeeps == ASSUME Inv, Opened PROVE Inv'
  BY DEF Opened, Inv, Shape, Owner, RuntimeIsOwned, Ready, Restored, Kept,
         HasRepro, Up, record

LEMMA OpenFailsKeeps == ASSUME Inv, OpenFails PROVE Inv'
  <1>1. /\ UNCHANGED <<page, token, hot, driver, trace, start, lost, repro, replay>>
        /\ runtime' = [runtime EXCEPT !.opening = "no", !.browser = FALSE,
                                      !.server = FALSE]
    BY DEF OpenFails, record
  <1>2. /\ runtime' \in [opening : {"no", "server", "browser", "event"},
                         server : BOOLEAN, browser : BOOLEAN, active : BOOLEAN]
        /\ runtime'.opening = "no" /\ runtime'.active = runtime.active
        /\ ~ runtime'.browser /\ ~ runtime'.server
    BY <1>1 DEF Inv, Shape
  <1>3. Shape'
    BY <1>1, <1>2 DEF Inv, Shape
  <1>4. Owner' /\ Ready'
    BY <1>1, <1>2 DEF Inv, Owner, RuntimeIsOwned, Ready, HasRepro
  <1>5. Restored' /\ Kept'
    BY <1>2 DEF Restored, Kept, Up
  <1> QED
    BY <1>3, <1>4, <1>5 DEF Inv

LEMMA LoseWindowKeeps == ASSUME Inv, LoseWindow PROVE Inv'
  BY DEF LoseWindow, Idle, Inv, Shape, Owner, RuntimeIsOwned, Ready, Restored,
         Kept, HasRepro, Up, record

LEMMA EndSessionKeeps == ASSUME Inv, EndSession PROVE Inv'
  BY DEF EndSession, Closed, NoPage, NewDriver, NoRepro, Inv, Shape, Owner,
         RuntimeIsOwned, Ready, Restored, Kept, HasRepro, Up

-------------------------------------------------------------------------------
(* The driver and the reproduction.                                        *)

\* A new start is made only while no reproduction of this session holds one.
LEMMA BeginKeeps ==
  ASSUME Inv, Begin, Free, ~ (HasRepro /\ driver.ready),
         replay' = replay \/ (HasRepro /\ Replaying(FALSE))
  PROVE  Inv'
  BY DEF Begin, Free, Replaying, Idle, Inv, Shape, Owner, RuntimeIsOwned, Ready,
         Restored, Kept, HasRepro, Up

LEMMA LookKeeps == ASSUME Inv, Look PROVE Inv'
  <1>1. CASE driver.ready
    <2>1. /\ UNCHANGED <<runtime, page, token, hot, trace, start, lost, repro, replay>>
          /\ DOMAIN driver' = DOMAIN driver /\ driver'.ready = driver.ready
      BY <1>1 DEF Look, Inv, Shape
    <2>2. Shape' /\ Owner'
      BY <2>1 DEF Inv, Shape, Owner, RuntimeIsOwned
    <2>3. Ready' /\ Restored' /\ Kept'
      BY <2>1 DEF Inv, Ready, Restored, Kept, HasRepro, Up
    <2> QED
      BY <2>2, <2>3 DEF Inv
  <1>2. CASE ~ driver.ready
    BY <1>2, BeginKeeps DEF Look
  <1> QED
    BY <1>1, <1>2

\* An action moves the page and nothing else the argument looks at.
LEMMA MovesKeep ==
  ASSUME Inv, driver.ready, replay.phase \in {"none", "running"},
         UNCHANGED <<runtime, token, hot, repro, start, lost>>,
         \/ page' = page
         \/ \E at \in Nat : page' = [page EXCEPT !.at = at],
         DOMAIN driver' = DOMAIN driver, driver'.ready = driver.ready,
         DOMAIN replay' = DOMAIN replay, replay'.phase = replay.phase
  PROVE  Inv'
  BY DEF Inv, Shape, Owner, RuntimeIsOwned, Ready, Restored, Kept, HasRepro, Up

LEMMA AfterType == \A at \in Nat : \A outcome : After(at, outcome) \in Nat
  BY DEF After

LEMMA PlayMoves ==
  ASSUME Shape, NEW act, Play(act)
  PROVE  /\ page' = page \/ \E at \in Nat : page' = [page EXCEPT !.at = at]
         /\ DOMAIN driver' = DOMAIN driver /\ driver'.ready = driver.ready
  BY AfterType DEF Play, Shape

LEMMA SubmitMoves ==
  ASSUME Shape, Submit
  PROVE  /\ page' = page \/ \E at \in Nat : page' = [page EXCEPT !.at = at]
         /\ DOMAIN driver' = DOMAIN driver /\ driver'.ready = driver.ready
  BY AfterType DEF Submit, Shape

LEMMA ActKeeps == ASSUME Inv, NEW act, Act(act) PROVE Inv'
  BY PlayMoves, MovesKeep DEF Act, Untouched, Free, Inv

LEMMA QueryKeeps == ASSUME Inv, NEW answer, Query(answer) PROVE Inv'
  <1>1. /\ page' = page \/ \E at \in Nat : page' = [page EXCEPT !.at = at]
        /\ DOMAIN driver' = DOMAIN driver /\ driver'.ready = driver.ready
    BY AfterType DEF Query, Inv, Shape
  <1> QED
    BY <1>1, MovesKeep DEF Query, Untouched, Free, Inv

LEMMA SaveKeeps == ASSUME Inv, NEW expect, SaveReproduction(expect) PROVE Inv'
  BY DEF SaveReproduction, Free, Inv, Shape, Owner, RuntimeIsOwned, Ready,
         Restored, Kept, HasRepro, Up, record

LEMMA NewGoalKeeps == ASSUME Inv, NewGoal PROVE Inv'
  BY DEF NewGoal, NoRepro, Inv, Shape, Owner, RuntimeIsOwned, Ready, Restored,
         Kept, HasRepro, Up, record

-------------------------------------------------------------------------------
(* The replay.                                                             *)

\* A replay begins at rest, where the token is the start.
LEMMA ReplayingKeeps ==
  ASSUME Inv, NEW caches, Replaying(caches) \/ replay' = replay,
         replay.phase = "none", runtime.active, driver.ready,
         UNCHANGED <<runtime, page, token, record, repro>>, hot' \in BOOLEAN
  PROVE  Inv'
  <1>1. /\ DOMAIN replay' = {"phase", "todo", "caches", "failed"}
        /\ replay'.phase \in {"none", "asked"}
    BY DEF Replaying, Idle, Inv, Shape
  <1>2. UNCHANGED <<driver, trace, start, lost>>
    BY DEF record
  <1>3. Shape' /\ Owner'
    BY <1>1, <1>2 DEF Inv, Shape, Owner, RuntimeIsOwned
  <1>4. Ready'
    BY <1>1, <1>2 DEF Inv, Ready, HasRepro
  <1>5. Restored'
    BY <1>2 DEF Inv, Restored
  <1>6. Kept'
    BY <1>1, <1>2 DEF Inv, Kept, Up
  <1> QED
    BY <1>3, <1>4, <1>5, <1>6 DEF Inv

LEMMA EditKeeps == ASSUME Inv, NEW version, Edit(version) PROVE Inv'
  <1>0. hot' \in BOOLEAN
    BY DEF Edit, Inv, Shape
  <1>1. CASE runtime.active
    BY <1>0, <1>1, ReplayingKeeps DEF Edit
  <1>2. CASE ~ runtime.active
    BY <1>0, <1>2 DEF Edit, Inv, Shape, Owner, RuntimeIsOwned, Ready, Restored,
                      Kept, HasRepro, Up, record
  <1> QED
    BY <1>1, <1>2

LEMMA VerifyKeeps == ASSUME Inv, Verify PROVE Inv'
  <1>1. hot' \in BOOLEAN
    BY DEF Verify, Inv, Shape
  <1> QED
    BY <1>1, ReplayingKeeps DEF Verify, Free, Up

LEMMA PlayCommandKeeps == ASSUME Inv, PlayCommand PROVE Inv'
  <1>1. CASE HasRepro /\ driver.ready
    <2>1. hot' \in BOOLEAN
      BY <1>1 DEF PlayCommand, Inv, Shape
    <2> QED
      BY <1>1, <2>1, ReplayingKeeps DEF PlayCommand, Free, Up
  <1>2. CASE ~ (HasRepro /\ driver.ready)
    BY <1>2, BeginKeeps DEF PlayCommand
  <1> QED
    BY <1>1, <1>2

\* A document that loads with a token stands where the token says.
LEMMA Restoration ==
  ASSUME token \in Nat
  PROVE  Loaded = [at |-> token, restored |-> TRUE, taken |-> FALSE, code |-> code]
  <1>1. Loaded = [NewPage EXCEPT !.at = token, !.restored = TRUE]
    BY DEF Loaded
  <1> QED
    BY <1>1 DEF NewPage

\* Either the page is Vite's restoration, or the token makes it now.
LEMMA ReloadKeeps == ASSUME Inv, Reload PROVE Inv'
  <1>1. CASE page.restored /\ ~ page.taken
    BY <1>1 DEF Reload, Inv, Shape, Owner, RuntimeIsOwned, Ready, Restored, Kept,
                HasRepro, Up, record
  <1>2. CASE ~ (page.restored /\ ~ page.taken) /\ token # None
    <2>1. ~ lost => token = start /\ start \in Nat
      BY <1>2 DEF Reload, Inv, Shape, Ready, Kept, Up
    <2>2. token \in Nat
      BY <1>2 DEF Inv, Shape
    <2>3. Loaded = [at |-> token, restored |-> TRUE, taken |-> FALSE, code |-> code]
      BY <2>2, Restoration
    <2> QED
      BY <1>2, <2>1, <2>2, <2>3 DEF Reload, Inv, Shape, Owner, RuntimeIsOwned, Ready,
                                    Restored, Kept, HasRepro, Up, record
  <1>3. CASE ~ (page.restored /\ ~ page.taken) /\ token = None
    <2>1. Loaded = [at |-> 0, restored |-> FALSE, taken |-> FALSE, code |-> code]
      BY <1>3 DEF Loaded, NewPage
    <2>2. /\ replay' = Idle /\ token' = None
          /\ page' = [at |-> 0, restored |-> FALSE, taken |-> FALSE, code |-> code]
      BY <1>3, <2>1 DEF Reload
    <2>3. lost
      BY <1>3 DEF Reload, Inv, Shape, Ready, Kept, Up
    <2>4. UNCHANGED <<runtime, hot, driver, trace, start, lost, repro>>
      BY DEF Reload, record
    <2>5. Shape'
      BY <2>2, <2>4 DEF Idle, Inv, Shape
    <2>6. Owner' /\ Ready'
      BY <2>2, <2>4 DEF Idle, Inv, Owner, RuntimeIsOwned, Ready, HasRepro
    <2>7. Restored' /\ Kept'
      BY <2>3, <2>4 DEF Restored, Kept
    <2> QED
      BY <2>5, <2>6, <2>7 DEF Inv
  <1> QED
    BY <1>1, <1>2, <1>3

LEMMA RecheckpointKeeps == ASSUME Inv, Recheckpoint PROVE Inv'
  BY DEF Recheckpoint, Inv, Shape, Owner, RuntimeIsOwned, Ready, Restored, Kept,
         HasRepro, Up

LEMMA ReplayActionKeeps == ASSUME Inv, ReplayAction PROVE Inv'
  <1>1. /\ driver.ready /\ replay.phase = "running"
        /\ UNCHANGED <<runtime, token, hot, repro, start, lost>>
    BY DEF ReplayAction, Inv, Ready
  <1>2. DOMAIN replay' = DOMAIN replay /\ replay'.phase = replay.phase
    BY DEF ReplayAction, Fail, Inv, Shape
  <1>3. /\ page' = page \/ \E at \in Nat : page' = [page EXCEPT !.at = at]
        /\ DOMAIN driver' = DOMAIN driver /\ driver'.ready = driver.ready
    <2> DEFINE action == Head(replay.todo)
    <2>1. \/ UNCHANGED <<page, driver>>
          \/ \E answer : Input(answer)
          \/ Submit
          \/ Play(action.act)
      BY DEF ReplayAction
    <2> QED
      BY <2>1, PlayMoves, SubmitMoves DEF Input, Inv, Shape
  <1> QED
    BY <1>1, <1>2, <1>3, MovesKeep

LEMMA FinishReplayKeeps == ASSUME Inv, FinishReplay PROVE Inv'
  BY DEF FinishReplay, Idle, Inv, Shape, Owner, RuntimeIsOwned, Ready, Restored,
         Kept, HasRepro, Up, record

\* Vite's reload comes while a replay is asked for, and restores the start, or
\* it is noted.
LEMMA OwnReloadKeeps == ASSUME Inv, OwnReload PROVE Inv'
  <1>1. /\ UNCHANGED <<runtime, driver, trace, start, repro, replay>>
        /\ token' = None /\ hot' = FALSE /\ page' = Loaded
        /\ lost' = (lost \/ replay.phase # "asked") /\ hot /\ runtime.browser
    BY DEF OwnReload
  <1>2. runtime.active /\ runtime.opening # "browser"
    BY <1>1 DEF Inv, Shape, Owner
  <1>3. /\ DOMAIN page' = {"at", "restored", "taken", "code"}
        /\ page'.at \in Nat /\ page'.restored \in BOOLEAN /\ page'.taken \in BOOLEAN
    <2>1. CASE token \in Nat
      <3>1. page' = [at |-> token, restored |-> TRUE, taken |-> FALSE, code |-> code]
        BY <1>1, <2>1, Restoration
      <3> QED
        BY <2>1, <3>1
    <2>2. CASE token = None
      BY <1>1, <2>2 DEF Loaded, NewPage
    <2>3. token \in Nat \cup {None}
      BY DEF Inv, Shape
    <2> QED
      BY <2>1, <2>2, <2>3
  <1>4. Shape'
    BY <1>1, <1>3 DEF Inv, Shape
  <1>5. Owner' /\ Ready'
    BY <1>1, <1>2 DEF Inv, Owner, RuntimeIsOwned, Ready, HasRepro
  <1>6. CASE lost'
    BY <1>4, <1>5, <1>6 DEF Inv, Restored, Kept
  <1>7. CASE ~ lost'
    <2>1. ~ lost /\ replay.phase = "asked"
      BY <1>1, <1>7 DEF Inv, Shape
    <2>2. token = start /\ start \in Nat
      BY <1>1, <1>2, <2>1 DEF Inv, Shape, Ready, Restored, Kept, Up
    <2>3. page'.at = start /\ page'.restored = TRUE /\ page'.taken = FALSE
      BY <1>1, <2>2, Restoration
    <2>4. Restored' /\ Kept'
      BY <1>1, <2>1, <2>3 DEF Restored, Kept, Up
    <2> QED
      BY <1>4, <1>5, <2>4 DEF Inv
  <1> QED
    BY <1>6, <1>7

LEMMA HotUpdateKeeps == ASSUME Inv, HotUpdate PROVE Inv'
  <1>1. /\ UNCHANGED <<runtime, token, driver, trace, start, lost, repro, replay>>
        /\ hot' = FALSE
    BY DEF HotUpdate
  <1>2. /\ DOMAIN page' = {"at", "restored", "taken", "code"} /\ page'.at = page.at
        /\ page'.restored = page.restored /\ page'.taken = page.taken
    BY DEF HotUpdate, Inv, Shape
  <1>3. Shape'
    <2>1. page'.at \in Nat /\ page'.restored \in BOOLEAN /\ page'.taken \in BOOLEAN
      BY <1>2 DEF Inv, Shape
    <2>2. hot' \in BOOLEAN
      BY <1>1
    <2> QED
      BY <1>1, <1>2, <2>1, <2>2 DEF Inv, Shape
  <1>4. Owner' /\ Ready'
    BY <1>1, <1>2 DEF Inv, Owner, RuntimeIsOwned, Ready, HasRepro
  <1>5. Restored'
    BY <1>1, <1>2 DEF Inv, Restored
  <1>6. Kept'
    BY <1>1, <1>2 DEF Inv, Kept, Up
  <1> QED
    BY <1>3, <1>4, <1>5, <1>6 DEF Inv

-------------------------------------------------------------------------------

LEMMA StepKeepsInv ==
  ASSUME Inv, [Next]_vars
  PROVE  Inv'
  <1>1. CASE Next
    BY <1>1, EnsureKeeps, OpenBrowserKeeps, ActivateKeeps, OpenedKeeps,
       OpenFailsKeeps,
       LoseWindowKeeps, EndSessionKeeps, LookKeeps, ActKeeps, QueryKeeps, SaveKeeps,
       NewGoalKeeps, EditKeeps, VerifyKeeps, PlayCommandKeeps, ReloadKeeps,
       RecheckpointKeeps, ReplayActionKeeps, FinishReplayKeeps, OwnReloadKeeps,
       HotUpdateKeeps
       DEF Next
  <1>2. CASE UNCHANGED vars
    BY <1>2 DEF vars, record, Inv, Shape, Owner, RuntimeIsOwned, Ready, Restored,
                Kept, HasRepro, Up
  <1> QED
    BY <1>1, <1>2

(* The start of a reproduction (play.ts, patch.ts) survives every reload   *)
(* for a replay, Vite's own among them, every replay and every /play of    *)
(* its session; only a reload while no replay waits for it takes it away.  *)
THEOREM StartIsKept == Spec => []StartKept
  <1>1. Init => Inv
    BY InitInv
  <1>2. Inv /\ [Next]_vars => Inv'
    BY StepKeepsInv
  <1>3. Inv => StartKept
    BY DEF Inv, StartKept, Kept, Ready
  <1> QED
    BY <1>1, <1>2, <1>3, PTL DEF Spec

(* No start that fails, no event that cannot be written and no end of a    *)
(* session leaves Vite or a browser without someone who will close it.     *)
THEOREM RuntimeHasAnOwner == Spec => []RuntimeIsOwned
  <1>1. Init => Inv
    BY InitInv
  <1>2. Inv /\ [Next]_vars => Inv'
    BY StepKeepsInv
  <1>3. Inv => RuntimeIsOwned
    BY DEF Inv, Owner
  <1> QED
    BY <1>1, <1>2, <1>3, PTL DEF Spec

-------------------------------------------------------------------------------
(* The version a replay runs on.                                           *)

\* What a replay takes for its reload has loaded the present version: only
\* an edit changes the version, and none comes between, unless Vite reloaded
\* the page unasked.
Fresh ==
    ~ lost =>
        /\ replay.phase \in {"reloaded", "running"} => page.code = code
        /\ runtime.browser /\ page.restored /\ ~ page.taken => page.code = code

LEMMA InitFresh == Init => Fresh
  BY DEF Init, Fresh, NoPage, Idle

\* Actions of the player keep the document.
LEMMA DocumentStays ==
  ASSUME Shape, \/ page' = page
                \/ \E at \in Nat : page' = [page EXCEPT !.at = at]
  PROVE  /\ page'.code = page.code /\ page'.restored = page.restored
         /\ page'.taken = page.taken
  BY DEF Shape

LEMMA PlayersKeepFresh ==
  ASSUME Inv, Fresh,
         \/ ReplayAction
         \/ \E act : Act(act)
         \/ \E answer : Query(answer)
  PROVE  Fresh'
  <1>1. UNCHANGED <<runtime, code, lost>>
    BY DEF ReplayAction, Act, Query, Untouched
  <1>2. /\ replay'.phase = replay.phase
        /\ page' = page \/ \E at \in Nat : page' = [page EXCEPT !.at = at]
    <2>1. CASE ReplayAction
      <3> DEFINE action == Head(replay.todo)
      <3>1. \/ UNCHANGED <<page, driver>>
            \/ \E answer : Input(answer)
            \/ Submit
            \/ Play(action.act)
        BY <2>1 DEF ReplayAction
      <3>2. replay'.phase = replay.phase
        BY <2>1 DEF ReplayAction, Fail, Inv, Shape
      <3> QED
        BY <3>1, <3>2, PlayMoves, SubmitMoves DEF Input, Inv
    <2>2. CASE \E act : Act(act)
      BY <2>2, PlayMoves DEF Act, Untouched, Inv
    <2>3. CASE \E answer : Query(answer)
      BY <2>3, AfterType DEF Query, Untouched, Inv, Shape
    <2> QED
      BY <2>1, <2>2, <2>3
  <1>3. /\ page'.code = page.code /\ page'.restored = page.restored
        /\ page'.taken = page.taken
    BY <1>2, DocumentStays DEF Inv
  <1> QED
    BY <1>1, <1>2, <1>3 DEF Fresh

\* A replay begins at a page no one has restored yet.
LEMMA EditKeepsFresh ==
  ASSUME Inv, Fresh, NEW version, Edit(version)
  PROVE  Fresh'
  <1>1. /\ ~ lost => ~ (runtime.browser /\ page.restored /\ ~ page.taken)
        /\ UNCHANGED <<runtime, page, lost>> /\ replay'.phase \in {"none", "asked"}
    BY DEF Edit, Replaying, Idle, record, Inv, Restored
  <1> QED
    BY <1>1 DEF Fresh

LEMMA ReplayingKeepsFresh ==
  ASSUME Inv, Fresh, Verify \/ PlayCommand
  PROVE  Fresh'
  <1>1. UNCHANGED <<runtime, page, code>> /\ replay'.phase \in {"none", "asked"}
    BY DEF Verify, PlayCommand, Replaying, Begin, Idle, Free
  <1>2. lost' = lost \/ lost' = (page.restored /\ ~ page.taken)
    BY DEF Verify, PlayCommand, Begin, record
  <1> QED
    BY <1>1, <1>2 DEF Fresh

LEMMA ReloadKeepsFresh == ASSUME Inv, Fresh, Reload PROVE Fresh'
  <1>1. CASE page.restored /\ ~ page.taken
    BY <1>1 DEF Reload, record, Inv, Shape, Fresh, Up
  <1>2. CASE ~ (page.restored /\ ~ page.taken)
    <2>1. token \in Nat \/ lost
      BY <1>2 DEF Reload, Inv, Ready, Kept, Up
    <2> QED
      BY <1>2, <2>1, Restoration DEF Reload, record, Fresh, Inv, Shape
  <1> QED
    BY <1>1, <1>2

LEMMA HotUpdateKeepsFresh == ASSUME Inv, Fresh, HotUpdate PROVE Fresh'
  BY DEF HotUpdate, Inv, Shape, Fresh

LEMMA OwnReloadKeepsFresh ==
  ASSUME Inv, Fresh, OwnReload
  PROVE  Fresh'
  <1>1. page'.code = code /\ code' = code
    BY DEF OwnReload, Loaded, NewPage
  <1> QED
    BY <1>1 DEF Fresh

LEMMA StepKeepsFresh ==
  ASSUME Inv, Fresh, [Next]_vars
  PROVE  Fresh'
  <1>1. CASE Ensure \/ Opened \/ OpenFails
    <2>1. /\ UNCHANGED <<page, code, replay, lost>>
          /\ runtime'.browser => runtime.browser
      BY <1>1 DEF Ensure, Opened, OpenFails, record, Inv, Shape
    <2> QED
      BY <2>1 DEF Fresh
  <1>2. CASE Activate
    <2>1. replay' = replay /\ page' = page /\ replay.phase = "none" /\ ~ page.restored
      BY <1>2 DEF Activate, Inv, Owner, Ready
    <2> QED
      BY <2>1 DEF Fresh
  <1>3. CASE OpenBrowser \/ EndSession
    BY <1>3 DEF OpenBrowser, NewPage, EndSession, Closed, NoPage, Inv, Owner, Ready,
                Fresh
  <1>4. CASE Look \/ NewGoal \/ FinishReplay \/ Recheckpoint
             \/ \E expect \in Expected : SaveReproduction(expect)
    <2>1. UNCHANGED <<runtime, page, code>>
      BY <1>4 DEF Look, Begin, NewGoal, FinishReplay, Recheckpoint, SaveReproduction
    <2>2. \/ replay'.phase \in {"none", replay.phase}
          \/ replay.phase = "reloaded"
      BY <1>4 DEF Look, Begin, NewGoal, FinishReplay, Recheckpoint, SaveReproduction,
                  Idle
    <2>3. \/ lost' = lost
          \/ lost' = (page.restored /\ ~ page.taken) /\ replay'.phase = "none"
      BY <1>4 DEF Look, Begin, Free, NewGoal, FinishReplay, Recheckpoint,
                  SaveReproduction, record
    <2> QED
      BY <2>1, <2>2, <2>3 DEF Fresh
  <1>5. CASE LoseWindow
    BY <1>5 DEF LoseWindow, Idle, record, Inv, Shape, Fresh
  <1>6. CASE UNCHANGED vars
    BY <1>6 DEF vars, record, Fresh
  <1> QED
    BY <1>1, <1>2, <1>3, <1>4, <1>5, <1>6, PlayersKeepFresh, EditKeepsFresh,
       ReplayingKeepsFresh, ReloadKeepsFresh, HotUpdateKeepsFresh,
       OwnReloadKeepsFresh
       DEF Next

\* Only the end of a replay adds a version, the present one.
LEMMA StepRanTheCode ==
  ASSUME Inv, Fresh, [Next]_vars, NEW version \in cached' \ cached
  PROVE  lost \/ page.code = version
  <1>1. cached' \subseteq cached \/ FinishReplay
    BY DEF Next, vars, record, Ensure, OpenBrowser, Activate, Opened, OpenFails,
           LoseWindow, EndSession, Look, Begin, Act, Query, Untouched,
           SaveReproduction, NewGoal, Edit, Verify, PlayCommand, Reload,
           Recheckpoint, ReplayAction, OwnReload, HotUpdate
  <1>2. FinishReplay
    BY <1>1
  <1>3. version = code /\ replay.phase = "running"
    BY <1>2 DEF FinishReplay
  <1> QED
    BY <1>3 DEF Fresh

(* What is kept as a successful replay of a version ran on it (driver.ts), *)
(* also when Vite reloads the page while the replay waits: a reload while  *)
(* none waits is the only way to go wrong.                                 *)
THEOREM ReplaysRunTheCode == Spec => ReplayRanTheCode
  <1>1. Init => Inv /\ Fresh
    BY InitInv, InitFresh
  <1>2. Inv /\ Fresh /\ [Next]_vars => (Inv /\ Fresh)'
    BY StepKeepsInv, StepKeepsFresh
  <1>3. Inv /\ Fresh /\ [Next]_vars
            => [\A version \in cached' \ cached : lost \/ page.code = version]_vars
    BY StepRanTheCode
  <1> QED
    BY <1>1, <1>2, <1>3, PTL DEF Spec, ReplayRanTheCode

-------------------------------------------------------------------------------
(* The filter of a reproduction.                                           *)

\* Every nonempty set of naturals has a least element.
LEMMA Least ==
  ASSUME NEW T, T \subseteq Nat, T # {}
  PROVE  \E x \in T : \A y \in T : x <= y
  <1> DEFINE R == {ss \in Nat \X Nat : ss[1] < ss[2]}
  <1>1. R = OpToRel(<, Nat)
    BY Zenon DEF OpToRel
  <1>2. IsWellFoundedOn(OpToRel(<, Nat), Nat)
    BY NatLessThanWellFounded, Zenon
  <1>3. IsWellFoundedOn(R, Nat)
    BY <1>1, <1>2, Zenon
  <1>4. ASSUME NEW x \in Nat, NEW y \in Nat, y < x
        PROVE  <<y, x>> \in R
    BY <1>4
  <1> HIDE DEF R
  <1>5. PICK x \in T : \A y \in T : ~ (<<y, x>> \in R)
    BY <1>3, WFMin
  <1>6. ASSUME NEW y \in T PROVE x <= y
    <2>1. ~ (y < x)
      BY <1>4, <1>5
    <2> QED
      BY <2>1
  <1> QED
    BY <1>6

\* What the filter adds at a place.
Piece(entries, kept, k) == IF entries[k] \in kept THEN <<entries[k]>> ELSE <<>>

\* The filter up to a place, as the function its recursion defines.
IsFilter(f, n, entries, kept) ==
  f = [k \in 0 .. n |-> IF k = 0 THEN <<>>
                        ELSE f[k - 1] \o Piece(entries, kept, k)]

\* The recursion is sound: one step after the other it defines a function.
LEMMA FilterExists ==
  ASSUME NEW entries, NEW kept, NEW n \in Nat
  PROVE  \E f : IsFilter(f, n, entries, kept)
  <1> DEFINE T == {m \in Nat : ~ \E f : IsFilter(f, m, entries, kept)}
  <1>1. SUFFICES T = {}
    OBVIOUS
  <1>2. SUFFICES ASSUME T # {} PROVE FALSE
    OBVIOUS
  <1>3. PICK m \in T : \A y \in T : m <= y
    BY <1>2, Least
  <1>4. CASE m = 0
    <2> DEFINE f == [k \in 0 .. 0 |-> <<>>]
    <2>1. 0 .. 0 = {0}
      OBVIOUS
    <2>2. f = [k \in 0 .. 0 |-> IF k = 0 THEN <<>>
                                ELSE f[k - 1] \o Piece(entries, kept, k)]
      BY <2>1
    <2>3. IsFilter(f, 0, entries, kept)
      BY <2>2 DEF IsFilter
    <2> QED
      BY <1>4, <2>3
  <1>5. CASE m # 0
    <2>1. m \in Nat /\ m - 1 \in Nat /\ m - 1 \notin T
      BY <1>3, <1>5
    <2>2. PICK f : IsFilter(f, m - 1, entries, kept)
      BY <2>1
    <2> DEFINE g == [k \in 0 .. m |-> IF k = m
                         THEN f[m - 1] \o Piece(entries, kept, m) ELSE f[k]]
    <2>3. ASSUME NEW k \in 0 .. m
          PROVE  g[k] = IF k = 0 THEN <<>> ELSE g[k - 1] \o Piece(entries, kept, k)
      <3>1. CASE k = m
        <4>1. g[k] = f[m - 1] \o Piece(entries, kept, m)
          BY <3>1
        <4>2. g[k - 1] = f[m - 1]
          BY <2>1, <3>1
        <4> QED
          BY <1>5, <3>1, <4>1, <4>2
      <3>2. CASE k # m
        <4>1. k \in 0 .. m - 1 /\ g[k] = f[k]
          BY <2>1, <3>2
        <4>2. f[k] = IF k = 0 THEN <<>> ELSE f[k - 1] \o Piece(entries, kept, k)
          BY <2>2, <4>1 DEF IsFilter
        <4>3. k # 0 => g[k - 1] = f[k - 1]
          BY <2>1, <4>1
        <4> QED
          BY <4>1, <4>2, <4>3
      <3> QED
        BY <3>1, <3>2
    <2> HIDE DEF Piece
    <2>4. DOMAIN g = 0 .. m /\ g = [k \in 0 .. m |-> g[k]]
      OBVIOUS
    <2> HIDE DEF g
    <2>5. IsFilter(g, m, entries, kept)
      BY <2>3, <2>4 DEF IsFilter
    <2> QED
      BY <1>3, <2>5
  <1> QED
    BY <1>4, <1>5

\* The filter adds nothing: what it leaves is a sequence of entries it was
\* given.
LEMMA FilterKeeps ==
  ASSUME NEW S, NEW entries \in Seq(S), NEW kept
  PROVE  /\ Only(entries, kept) \in Seq(S)
         /\ \A i \in DOMAIN Only(entries, kept) :
               \E k \in DOMAIN entries : Only(entries, kept)[i] = entries[k]
  <1> DEFINE N == Len(entries)
             f == CHOOSE g : IsFilter(g, N, entries, kept)
             Some == {entries[k] : k \in DOMAIN entries}
  <1>1. N \in Nat /\ DOMAIN entries = 1 .. N /\ Some \subseteq S
    OBVIOUS
  <1>2. IsFilter(f, N, entries, kept)
    <2>1. \E g : IsFilter(g, N, entries, kept)
      BY <1>1, FilterExists
    <2> HIDE DEF IsFilter
    <2> QED
      BY <2>1
  <1>3. Only(entries, kept) = f[N]
    BY DEF Only, IsFilter, Piece
  <1> HIDE DEF f, N
  <1>4. ASSUME NEW k \in 0 .. N
        PROVE  f[k] \in Seq(Some)
    <2> DEFINE T == {m \in 0 .. N : f[m] \notin Seq(Some)}
    <2>1. SUFFICES ASSUME T # {} PROVE FALSE
      OBVIOUS
    <2>2. PICK m \in T : \A y \in T : m <= y
      <3>1. T \subseteq Nat
        BY <1>1
      <3> HIDE DEF T
      <3> QED
        BY <2>1, <3>1, Least
    <2>3. f[m] = IF m = 0 THEN <<>> ELSE f[m - 1] \o Piece(entries, kept, m)
      BY <1>2 DEF IsFilter
    <2>4. m # 0
      <3>1. <<>> \in Seq(Some)
        OBVIOUS
      <3>2. m = 0 => f[m] = <<>>
        BY <2>3
      <3> QED
        BY <2>2, <3>1, <3>2
    <2>5. m - 1 \in 0 .. N /\ m \in 1 .. N /\ m - 1 \notin T
      BY <1>1, <2>2, <2>4
    <2>6. f[m - 1] \in Seq(Some)
      BY <2>5
    <2>7. entries[m] \in Some
      BY <1>1, <2>5
    <2>8. Piece(entries, kept, m) \in Seq(Some)
      <3>1. \A x \in Some : <<x>> \in Seq(Some)
        OBVIOUS
      <3>2. <<>> \in Seq(Some)
        OBVIOUS
      <3> QED
        BY <2>7, <3>1, <3>2 DEF Piece
    <2>9. f[m] \in Seq(Some)
      BY <2>3, <2>4, <2>6, <2>8
    <2> QED
      BY <2>9
  <1>5. f[N] \in Seq(Some)
    BY <1>1, <1>4
  <1> QED
    BY <1>1, <1>3, <1>5

-------------------------------------------------------------------------------
(* The answers a reproduction needs.                                       *)

Entries == [sequence : Nat, act : {"go", "use", "input", "query"},
            ok : {"yes", "no", "off"}]
Sqls == [sequence : Nat, answer : Answers]

Runtimes == [opening : {"no", "server", "browser", "event"},
             server : BOOLEAN, browser : BOOLEAN, active : BOOLEAN]

AnswerTypes ==
    /\ runtime \in Runtimes
    /\ DOMAIN driver = {"ready", "view", "pending", "sequence"}
    /\ driver.sequence \in Nat /\ driver.ready \in BOOLEAN
    /\ trace \in Seq(Entries) /\ sqls \in Seq(Sqls)
    /\ DOMAIN repro = {"actions", "expect", "start", "end", "code", "whole", "here"}
    /\ repro.actions \in Seq(Entries) /\ repro.here \in BOOLEAN
    /\ DOMAIN replay = {"phase", "todo", "caches", "failed"}
    /\ replay.todo \in Seq(Entries)

\* Every answer has a number of its own, no later than the driver's.
Numbered ==
    /\ \A j \in DOMAIN sqls : sqls[j].sequence <= driver.sequence
    /\ \A i, j \in DOMAIN sqls : sqls[i].sequence = sqls[j].sequence => i = j

Answered(entries) ==
    \A k \in DOMAIN entries : entries[k].act = "input" =>
        \E j \in DOMAIN sqls : sqls[j].sequence = entries[k].sequence

\* The answers are kept as long as the record they came with, or a
\* reproduction of the same driver, needs them.
AnswerInv ==
    /\ AnswerTypes /\ Numbered /\ Answered(trace)
    /\ runtime.opening \in {"server", "browser"} => ~ runtime.active
    /\ trace # <<>> => driver.ready
    /\ replay.phase # "none" => runtime.active /\ driver.ready
    /\ repro.here => /\ runtime.active /\ driver.ready /\ HasRepro
                     /\ Answered(repro.actions)

LEMMA AnswerInit == Init => AnswerInv
  <1> SUFFICES ASSUME Init PROVE AnswerInv
    OBVIOUS
  <1>1. PICK e : e = <<>>
    OBVIOUS
  <1>2. DOMAIN e = {} /\ e \in Seq(Entries) /\ e \in Seq(Sqls)
    BY <1>1
  <1>3. trace = e /\ sqls = e /\ repro.actions = e /\ replay.todo = e
    BY <1>1 DEF Init, NoRepro, Idle
  <1>4. AnswerTypes
    BY <1>2, <1>3 DEF Init, AnswerTypes, Runtimes, Closed, NewDriver, NoRepro, Idle
  <1>5. Numbered /\ Answered(trace) /\ trace = <<>>
    BY <1>1, <1>2, <1>3 DEF Numbered, Answered
  <1>6. runtime.opening = "no" /\ ~ repro.here /\ replay.phase = "none"
    BY DEF Init, Closed, NoRepro, Idle
  <1> QED
    BY <1>4, <1>5, <1>6 DEF AnswerInv

\* What neither plays nor records keeps the answers; so does a new record.
LEMMA AnswersStay ==
  ASSUME AnswerInv, UNCHANGED <<trace, sqls>> \/ (trace' = <<>> /\ sqls' = sqls),
         runtime' \in Runtimes,
         runtime'.opening \in {"server", "browser"} => ~ runtime'.active,
         runtime.active => runtime'.active,
         DOMAIN driver' = DOMAIN driver, driver'.sequence = driver.sequence,
         driver'.ready = driver.ready,
         repro' = repro,
         DOMAIN replay' = {"phase", "todo", "caches", "failed"},
         replay'.todo \in Seq(Entries),
         replay'.phase # "none" => runtime.active /\ driver.ready
  PROVE  AnswerInv'
  <1>1. \A entries : Answered(entries) => Answered(entries)'
    BY DEF Answered
  <1>2. /\ trace' \in Seq(Entries) /\ Answered(trace)'
        /\ trace' # <<>> => driver.ready
    <2>1. CASE trace' = trace
      BY <1>1, <2>1 DEF AnswerInv, AnswerTypes
    <2>2. CASE trace' = <<>>
      <3>1. PICK e : e = <<>>
        OBVIOUS
      <3>2. DOMAIN e = {} /\ e \in Seq(Entries) /\ trace' = e
        BY <2>2, <3>1
      <3> QED
        BY <2>2, <3>2 DEF Answered
    <2> QED
      BY <2>1, <2>2
  <1>3. AnswerTypes'
    BY <1>2 DEF AnswerInv, AnswerTypes
  <1>4. Numbered'
    BY DEF AnswerInv, Numbered
  <1>5. repro'.here => /\ runtime'.active /\ driver'.ready /\ HasRepro'
                       /\ Answered(repro.actions)'
    BY <1>1 DEF AnswerInv, HasRepro, Answered
  <1> QED
    BY <1>2, <1>3, <1>4, <1>5 DEF AnswerInv

\* A driver that begins anew has no answers, and nobody needs one.
LEMMA AnswersBegin ==
  ASSUME AnswerInv, trace' = <<>>, sqls' = <<>>,
         runtime' \in Runtimes,
         runtime'.opening \in {"server", "browser"} => ~ runtime'.active,
         DOMAIN driver' = DOMAIN driver, driver'.sequence \in Nat,
         driver'.ready \in BOOLEAN,
         DOMAIN repro' = DOMAIN repro, repro'.actions \in Seq(Entries),
         repro'.here = FALSE,
         DOMAIN replay' = {"phase", "todo", "caches", "failed"},
         replay'.todo \in Seq(Entries),
         replay'.phase # "none" => runtime'.active /\ driver'.ready
  PROVE  AnswerInv'
  <1>1. PICK e : e = <<>>
    OBVIOUS
  <1>2. /\ DOMAIN e = {} /\ e \in Seq(Entries) /\ e \in Seq(Sqls)
        /\ trace' = e /\ sqls' = e
    BY <1>1
  <1>3. AnswerTypes'
    BY <1>2 DEF AnswerInv, AnswerTypes
  <1>4. Numbered' /\ Answered(trace)'
    BY <1>2 DEF Numbered, Answered
  <1> QED
    BY <1>3, <1>4 DEF AnswerInv

\* The ring holds old entries and new ones.
LEMMA RingKeeps ==
  ASSUME NEW S, trace \in Seq(S), NEW entries \in Seq(S)
  PROVE  /\ Ring(entries) \in Seq(S)
         /\ \A i \in DOMAIN Ring(entries) :
               \/ \E k \in DOMAIN trace : Ring(entries)[i] = trace[k]
               \/ \E k \in DOMAIN entries : Ring(entries)[i] = entries[k]
  <1>1. PICK all, first, n, m :
            /\ all = trace \o entries /\ n = Len(trace) /\ m = Len(entries)
            /\ first = IF Len(all) > Capacity THEN Len(all) - Capacity + 1 ELSE 1
    OBVIOUS
  <1>2. /\ n \in Nat /\ m \in Nat /\ all \in Seq(S) /\ Len(all) = n + m
        /\ \A i \in 1 .. n : all[i] = trace[i]
        /\ \A i \in n + 1 .. n + m : all[i] = entries[i - n]
    BY <1>1
  <1>3. first \in 1 .. n + m + 1
    BY <1>1, <1>2, GameAssumption
  <1>4. Ring(entries) = SubSeq(all, first, n + m)
    BY <1>1, <1>2 DEF Ring
  <1>5. /\ SubSeq(all, first, n + m) \in Seq(S)
        /\ \A i \in DOMAIN SubSeq(all, first, n + m) :
              /\ SubSeq(all, first, n + m)[i] = all[first + i - 1]
              /\ first + i - 1 \in 1 .. n + m
    BY <1>2, <1>3
  <1>6. /\ DOMAIN trace = 1 .. n /\ DOMAIN entries = 1 .. m
        /\ \A i \in 1 .. n + m : i \in 1 .. n \/ (i \in n + 1 .. n + m /\ i - n \in 1 .. m)
    BY <1>1, <1>2
  <1>7. ASSUME NEW i \in DOMAIN Ring(entries)
        PROVE  \/ \E k \in DOMAIN trace : Ring(entries)[i] = trace[k]
               \/ \E k \in DOMAIN entries : Ring(entries)[i] = entries[k]
    <2>1. PICK j \in 1 .. n + m : Ring(entries)[i] = all[j]
      BY <1>4, <1>5, <1>7
    <2>2. CASE j \in 1 .. n
      BY <1>2, <1>6, <2>1, <2>2
    <2>3. CASE j \in n + 1 .. n + m /\ j - n \in 1 .. m
      BY <1>2, <1>6, <2>1, <2>3
    <2> QED
      BY <1>6, <2>2, <2>3
  <1> QED
    BY <1>4, <1>5, <1>7

\* An answer is kept with a new number, and the old ones stay.
LEMMA AnswerAdded ==
  ASSUME AnswerInv, NEW answer \in Answers,
         sqls' = Append(sqls, [sequence |-> driver.sequence + 1, answer |-> answer]),
         driver'.sequence \in Nat, driver'.sequence > driver.sequence
  PROVE  /\ sqls' \in Seq(Sqls) /\ Numbered'
         /\ \A j \in DOMAIN sqls : j \in DOMAIN sqls' /\ sqls'[j] = sqls[j]
         /\ \E j \in DOMAIN sqls' : sqls'[j].sequence = driver.sequence + 1
  <1>1. PICK s, n, q : /\ s = [sequence |-> driver.sequence + 1, answer |-> answer]
                       /\ n = Len(sqls) /\ q = Append(sqls, s)
    OBVIOUS
  <1>2. sqls \in Seq(Sqls) /\ driver.sequence \in Nat
    BY DEF AnswerInv, AnswerTypes
  <1>3. s \in Sqls /\ s.sequence = driver.sequence + 1
    BY <1>1, <1>2 DEF Sqls
  <1>4. /\ n \in Nat /\ q \in Seq(Sqls) /\ DOMAIN q = 1 .. n + 1 /\ q[n + 1] = s
        /\ DOMAIN sqls = 1 .. n /\ \A j \in 1 .. n : q[j] = sqls[j]
    BY <1>1, <1>2, <1>3
  <1>5. sqls' = q
    BY <1>1
  <1>6. \A j \in 1 .. n + 1 : j \in 1 .. n \/ j = n + 1
    BY <1>4
  <1>7. \A j \in 1 .. n : sqls[j].sequence <= driver.sequence /\ sqls[j].sequence \in Nat
    <2>1. \A j \in 1 .. n : sqls[j] \in Sqls
      BY <1>2, <1>4
    <2> QED
      BY <1>4, <2>1 DEF AnswerInv, Numbered, Sqls
  <1>8. \A j \in 1 .. n + 1 : q[j].sequence <= driver'.sequence
    BY <1>2, <1>3, <1>4, <1>6, <1>7
  <1>9. ASSUME NEW i \in 1 .. n + 1, NEW j \in 1 .. n + 1,
               q[i].sequence = q[j].sequence
        PROVE  i = j
    <2>1. CASE i \in 1 .. n /\ j \in 1 .. n
      BY <1>4, <1>9, <2>1 DEF AnswerInv, Numbered
    <2>2. CASE i = n + 1 /\ j \in 1 .. n
      BY <1>2, <1>3, <1>4, <1>7, <1>9, <2>2
    <2>3. CASE i \in 1 .. n /\ j = n + 1
      BY <1>2, <1>3, <1>4, <1>7, <1>9, <2>3
    <2> QED
      BY <1>6, <2>1, <2>2, <2>3
  <1>10. Numbered'
    BY <1>4, <1>5, <1>8, <1>9 DEF Numbered
  <1>11. \A j \in 1 .. n : j \in 1 .. n + 1
    BY <1>4
  <1>12. n + 1 \in 1 .. n + 1
    BY <1>4
  <1> QED
    BY <1>3, <1>4, <1>5, <1>10, <1>11, <1>12

\* What is played is recorded together with its answer.
LEMMA RecordsAnswer ==
  ASSUME AnswerInv, driver.ready, NEW entries \in Seq(Entries), Push(entries),
         DOMAIN driver' = DOMAIN driver, driver'.ready = driver.ready,
         driver'.sequence \in Nat, driver'.sequence > driver.sequence,
         UNCHANGED <<runtime, repro>>,
         DOMAIN replay' = DOMAIN replay, replay'.todo \in Seq(Entries),
         replay'.phase = replay.phase,
         \/ /\ sqls' = sqls
            /\ \A k \in DOMAIN entries : entries[k].act # "input"
         \/ /\ \E answer \in Answers :
                  sqls' = Append(sqls, [sequence |-> driver.sequence + 1,
                                        answer |-> answer])
            /\ \A k \in DOMAIN entries :
                  entries[k].act = "input"
                     => entries[k].sequence = driver.sequence + 1
  PROVE  AnswerInv'
  <1>1. trace \in Seq(Entries) /\ sqls \in Seq(Sqls) /\ driver.sequence \in Nat
    BY DEF AnswerInv, AnswerTypes
  <1>2. /\ trace' \in Seq(Entries)
        /\ \A i \in DOMAIN trace' :
              \/ \E k \in DOMAIN trace : trace'[i] = trace[k]
              \/ \E k \in DOMAIN entries : trace'[i] = entries[k]
    BY <1>1, RingKeeps DEF Push
  <1>3. /\ sqls' \in Seq(Sqls) /\ Numbered'
        /\ \A j \in DOMAIN sqls : j \in DOMAIN sqls' /\ sqls'[j] = sqls[j]
        /\ \A k \in DOMAIN entries : entries[k].act = "input" =>
              \E j \in DOMAIN sqls' : sqls'[j].sequence = entries[k].sequence
    <2>1. CASE /\ sqls' = sqls
               /\ \A k \in DOMAIN entries : entries[k].act # "input"
      <3>1. \A j \in DOMAIN sqls : sqls[j].sequence \in Nat
        <4>1. \A j \in DOMAIN sqls : sqls[j] \in Sqls
          BY <1>1
        <4> QED
          BY <4>1 DEF Sqls
      <3>2. Numbered'
        BY <1>1, <2>1, <3>1 DEF AnswerInv, Numbered
      <3> QED
        BY <1>1, <2>1, <3>2
    <2>2. CASE /\ \E answer \in Answers :
                     sqls' = Append(sqls, [sequence |-> driver.sequence + 1,
                                           answer |-> answer])
               /\ \A k \in DOMAIN entries :
                     entries[k].act = "input"
                        => entries[k].sequence = driver.sequence + 1
      BY <2>2, AnswerAdded
    <2> QED
      BY <2>1, <2>2
  <1>4. \A old : Answered(old) => \A k \in DOMAIN old : old[k].act = "input" =>
                    \E j \in DOMAIN sqls' : sqls'[j].sequence = old[k].sequence
    BY <1>3 DEF Answered
  <1>5. Answered(trace)'
    <2> SUFFICES ASSUME NEW i \in DOMAIN trace', trace'[i].act = "input"
                 PROVE  \E j \in DOMAIN sqls' :
                            sqls'[j].sequence = trace'[i].sequence
      BY DEF Answered
    <2>1. ASSUME NEW k \in DOMAIN trace, trace'[i] = trace[k]
          PROVE  \E j \in DOMAIN sqls' : sqls'[j].sequence = trace[k].sequence
      BY <1>4, <2>1 DEF AnswerInv
    <2>2. ASSUME NEW k \in DOMAIN entries, trace'[i] = entries[k]
          PROVE  \E j \in DOMAIN sqls' : sqls'[j].sequence = entries[k].sequence
      BY <1>3, <2>2
    <2> QED
      BY <1>2, <2>1, <2>2
  <1>6. AnswerTypes'
    BY <1>2, <1>3 DEF AnswerInv, AnswerTypes
  <1>7. repro'.here => /\ runtime'.active /\ driver'.ready /\ HasRepro'
                       /\ Answered(repro.actions)'
    BY <1>4 DEF AnswerInv, HasRepro, Answered
  <1> QED
    BY <1>3, <1>5, <1>6, <1>7 DEF AnswerInv

LEMMA EntryIs ==
  ASSUME NEW act \in {"go", "use", "input", "query"}, NEW ok \in {"yes", "no", "off"},
         NEW k \in Nat, driver.sequence \in Nat
  PROVE  /\ Entry(act, ok, k) \in Entries /\ <<Entry(act, ok, k)>> \in Seq(Entries)
         /\ \A i \in DOMAIN <<Entry(act, ok, k)>> :
               /\ <<Entry(act, ok, k)>>[i].act = act
               /\ <<Entry(act, ok, k)>>[i].sequence = driver.sequence + k
  <1>1. PICK e : e = Entry(act, ok, k)
    OBVIOUS
  <1>2. e \in Entries /\ e.act = act /\ e.sequence = driver.sequence + k
    BY <1>1 DEF Entry, Entries
  <1>3. PICK s : s = <<e>>
    OBVIOUS
  <1>4. s \in Seq(Entries) /\ DOMAIN s = {1} /\ s[1] = e
    BY <1>2, <1>3
  <1> QED
    BY <1>1, <1>2, <1>3, <1>4

LEMMA OutcomeIs ==
  \A act, at, answer, version : Outcome(act, at, answer, version) \in {"yes", "no", "off"}
  BY DEF Outcome

LEMMA PlayAnswers ==
  ASSUME AnswerInv, driver.ready, NEW act \in {"go", "use"}, Play(act),
         UNCHANGED <<runtime, repro>>,
         DOMAIN replay' = DOMAIN replay, replay'.todo \in Seq(Entries),
         replay'.phase = replay.phase
  PROVE  AnswerInv'
  <1>1. DOMAIN driver = {"ready", "view", "pending", "sequence"}
        /\ driver.sequence \in Nat
    BY DEF AnswerInv, AnswerTypes
  <1>2. PICK ok, entries : /\ ok \in {"yes", "no", "off"} /\ Push(entries)
                           /\ entries = <<Entry(act, ok, 1)>>
    BY OutcomeIs DEF Play
  <1>3. /\ entries \in Seq(Entries)
        /\ \A k \in DOMAIN entries : entries[k].act # "input"
    BY <1>1, <1>2, EntryIs
  <1>4. /\ DOMAIN driver' = DOMAIN driver /\ driver'.ready = driver.ready
        /\ driver'.sequence = driver.sequence + 1 /\ sqls' = sqls
    BY <1>1 DEF Play
  <1>5. driver'.sequence \in Nat /\ driver'.sequence > driver.sequence
    BY <1>1, <1>4
  <1>6. Push(entries)
    BY <1>2
  <1> QED
    BY <1>3, <1>4, <1>5, <1>6, RecordsAnswer

LEMMA SubmitAnswers ==
  ASSUME AnswerInv, driver.ready, Submit,
         UNCHANGED <<runtime, repro>>,
         DOMAIN replay' = DOMAIN replay, replay'.todo \in Seq(Entries),
         replay'.phase = replay.phase
  PROVE  AnswerInv'
  <1>1. DOMAIN driver = {"ready", "view", "pending", "sequence"}
        /\ driver.sequence \in Nat
    BY DEF AnswerInv, AnswerTypes
  <1>2. PICK ok, entries : /\ ok \in {"yes", "no", "off"} /\ Push(entries)
                           /\ entries = <<Entry("query", ok, 1)>>
    BY OutcomeIs DEF Submit
  <1>3. /\ entries \in Seq(Entries)
        /\ \A k \in DOMAIN entries : entries[k].act # "input"
    BY <1>1, <1>2, EntryIs
  <1>4. /\ DOMAIN driver' = DOMAIN driver /\ driver'.ready = driver.ready
        /\ driver'.sequence = driver.sequence + 1 /\ sqls' = sqls
    BY <1>1 DEF Submit
  <1>5. driver'.sequence \in Nat /\ driver'.sequence > driver.sequence
    BY <1>1, <1>4
  <1>6. Push(entries)
    BY <1>2
  <1> QED
    BY <1>3, <1>4, <1>5, <1>6, RecordsAnswer

LEMMA InputAnswers ==
  ASSUME AnswerInv, driver.ready, NEW answer \in Answers, Input(answer),
         UNCHANGED <<runtime, repro>>,
         DOMAIN replay' = DOMAIN replay, replay'.todo \in Seq(Entries),
         replay'.phase = replay.phase
  PROVE  AnswerInv'
  <1>1. DOMAIN driver = {"ready", "view", "pending", "sequence"}
        /\ driver.sequence \in Nat
    BY DEF AnswerInv, AnswerTypes
  <1>2. PICK ok, entries : /\ ok \in {"yes", "no", "off"} /\ Push(entries)
                           /\ entries = <<Entry("input", ok, 1)>>
    BY DEF Input
  <1>3. /\ entries \in Seq(Entries)
        /\ \A k \in DOMAIN entries : entries[k].sequence = driver.sequence + 1
    BY <1>1, <1>2, EntryIs
  <1>4. /\ DOMAIN driver' = DOMAIN driver /\ driver'.ready = driver.ready
        /\ driver'.sequence = driver.sequence + 1
        /\ sqls' = Append(sqls, [sequence |-> driver.sequence + 1, answer |-> answer])
    BY <1>1 DEF Input
  <1>5. driver'.sequence \in Nat /\ driver'.sequence > driver.sequence
    BY <1>1, <1>4
  <1>6. Push(entries)
    BY <1>2
  <1> QED
    BY <1>3, <1>4, <1>5, <1>6, RecordsAnswer

LEMMA QueryAnswers ==
  ASSUME AnswerInv, NEW answer \in Answers, Query(answer)
  PROVE  AnswerInv'
  <1>1. /\ DOMAIN driver = {"ready", "view", "pending", "sequence"}
        /\ driver.sequence \in Nat /\ driver.ready
        /\ UNCHANGED <<runtime, repro, replay>> /\ replay.todo \in Seq(Entries)
    BY DEF AnswerInv, AnswerTypes, Query, Untouched
  <1>2. sqls' = Append(sqls, [sequence |-> driver.sequence + 1, answer |-> answer])
    BY DEF Query
  <1>3. CASE ~ TerminalSeen
    <2>1. PICK entries : Push(entries) /\ entries = <<Entry("input", "off", 1)>>
      BY <1>3 DEF Query
    <2>2. /\ entries \in Seq(Entries)
          /\ \A k \in DOMAIN entries : entries[k].sequence = driver.sequence + 1
      BY <1>1, <2>1, EntryIs
    <2>3. /\ DOMAIN driver' = DOMAIN driver /\ driver'.ready = driver.ready
          /\ driver'.sequence = driver.sequence + 1
      BY <1>1, <1>3 DEF Query
    <2>4. driver'.sequence \in Nat /\ driver'.sequence > driver.sequence
      BY <1>1, <2>3
    <2>5. Push(entries)
      BY <2>1
    <2>6. /\ DOMAIN replay' = DOMAIN replay /\ replay'.todo \in Seq(Entries)
          /\ replay'.phase = replay.phase
      BY <1>1
    <2> QED
      BY <1>1, <1>2, <2>2, <2>3, <2>4, <2>5, <2>6, RecordsAnswer
  <1>4. CASE TerminalSeen
    <2>1. PICK ok, x, y, entries :
             /\ ok \in {"yes", "no", "off"} /\ Push(entries)
             /\ x = Entry("input", "yes", 1) /\ y = Entry("query", ok, 2)
             /\ entries = <<x, y>>
      BY <1>4, OutcomeIs DEF Query
    <2>2. /\ x \in Entries /\ y \in Entries
          /\ x.sequence = driver.sequence + 1 /\ y.act = "query"
      BY <1>1, <2>1 DEF Entry, Entries
    <2>3. /\ entries \in Seq(Entries) /\ DOMAIN entries = {1, 2}
          /\ entries[1] = x /\ entries[2] = y
      BY <2>1, <2>2
    <2>4. /\ DOMAIN driver' = DOMAIN driver /\ driver'.ready = driver.ready
          /\ driver'.sequence = driver.sequence + 2
      BY <1>1, <1>4 DEF Query
    <2>5. \A k \in DOMAIN entries :
             entries[k].act = "input" => entries[k].sequence = driver.sequence + 1
      BY <2>2, <2>3
    <2>6. driver'.sequence \in Nat /\ driver'.sequence > driver.sequence
      BY <1>1, <2>4
    <2>7. Push(entries)
      BY <2>1
    <2>8. /\ DOMAIN replay' = DOMAIN replay /\ replay'.todo \in Seq(Entries)
          /\ replay'.phase = replay.phase
      BY <1>1
    <2> QED
      BY <1>1, <1>2, <2>3, <2>4, <2>5, <2>6, <2>7, <2>8, RecordsAnswer
  <1> QED
    BY <1>3, <1>4

\* A replay takes the actions of the reproduction, one after the other.
LEMMA ReplayAnswers ==
  ASSUME AnswerInv, ReplayAction
  PROVE  AnswerInv'
  <1>1. /\ driver.ready /\ runtime.active /\ replay.phase = "running"
        /\ replay.todo \in Seq(Entries) /\ replay.todo # <<>>
        /\ DOMAIN replay = {"phase", "todo", "caches", "failed"}
        /\ UNCHANGED <<runtime, repro>>
    BY DEF ReplayAction, AnswerInv, AnswerTypes
  <1>2. PICK action : action = Head(replay.todo)
    OBVIOUS
  <1>3. action \in Entries /\ Tail(replay.todo) \in Seq(Entries)
    BY <1>1, <1>2
  <1>4. /\ DOMAIN replay' = DOMAIN replay /\ replay'.todo \in Seq(Entries)
        /\ replay'.phase = replay.phase
    <2>1. PICK e : e = <<>>
      OBVIOUS
    <2>2. e \in Seq(Entries)
      BY <2>1
    <2>3. \/ replay' = [replay EXCEPT !.todo = e, !.failed = TRUE]
          \/ replay' = [replay EXCEPT !.todo = Tail(@)]
      BY <2>1 DEF ReplayAction, Fail
    <2> QED
      BY <1>1, <1>3, <2>2, <2>3
  <1>5. \/ UNCHANGED <<driver, trace, sqls>>
        \/ action.act = "input" /\ \E answer \in Answer(action.sequence) : Input(answer)
        \/ action.act = "query" /\ Submit
        \/ action.act \in {"go", "use"} /\ Play(action.act)
    BY <1>2, <1>3 DEF ReplayAction, Entries
  <1>6. CASE UNCHANGED <<driver, trace, sqls>>
    <2>1. runtime \in Runtimes
          /\ (runtime.opening \in {"server", "browser"} => ~ runtime.active)
      BY DEF AnswerInv, AnswerTypes
    <2> QED
      BY <1>1, <1>4, <1>6, <2>1, AnswersStay
  <1>7. ASSUME NEW answer \in Answer(action.sequence), Input(answer)
        PROVE  AnswerInv'
    <2>1. answer \in Answers
      <3>1. \A k \in 1 .. Len(sqls) : sqls[k] \in Sqls
        BY DEF AnswerInv, AnswerTypes
      <3> QED
        BY <3>1 DEF Answer, Sqls
    <2> QED
      BY <1>1, <1>4, <1>7, <2>1, InputAnswers
  <1>8. CASE Submit
    BY <1>1, <1>4, <1>8, SubmitAnswers
  <1>9. CASE action.act \in {"go", "use"} /\ Play(action.act)
    BY <1>1, <1>4, <1>9, PlayAnswers
  <1> QED
    BY <1>5, <1>6, <1>7, <1>8, <1>9

LEMMA BeginAnswers ==
  ASSUME AnswerInv, Begin, ~ repro.here, runtime.active,
         DOMAIN replay' = {"phase", "todo", "caches", "failed"},
         replay'.todo \in Seq(Entries)
  PROVE  AnswerInv'
  <1>1. /\ trace' = <<>> /\ sqls' = <<>> /\ UNCHANGED <<runtime, repro>>
        /\ DOMAIN driver' = DOMAIN driver /\ driver'.sequence = driver.sequence
        /\ driver'.ready = TRUE
    BY DEF Begin, AnswerInv, AnswerTypes
  <1> QED
    BY <1>1, AnswersBegin DEF AnswerInv, AnswerTypes

LEMMA SavesAnswered ==
  ASSUME AnswerInv, NEW expect, SaveReproduction(expect)
  PROVE  AnswerInv'
  <1>1. /\ trace \in Seq(Entries) /\ Answered(trace) /\ trace # <<>>
        /\ Replayable(trace) # <<>> /\ runtime.active /\ driver.ready
        /\ UNCHANGED <<runtime, driver, trace, sqls, replay>>
    BY DEF SaveReproduction, Free, Up, AnswerInv, AnswerTypes, record
  <1>2. PICK actions : actions = Replayable(trace)
    OBVIOUS
  <1>3. /\ actions \in Seq(Entries)
        /\ \A i \in DOMAIN actions : \E k \in DOMAIN trace : actions[i] = trace[k]
    <2>1. PICK kept : actions = Only(trace, kept)
      BY <1>2 DEF Replayable
    <2> QED
      BY <1>1, <2>1, FilterKeeps
  <1>4. /\ DOMAIN repro' = {"actions", "expect", "start", "end", "code", "whole",
                            "here"}
        /\ repro'.actions = actions /\ repro'.here = TRUE
    BY <1>2 DEF SaveReproduction
  <1>5. Answered(actions)
    BY <1>1, <1>3 DEF Answered
  <1>6. Answered(repro.actions)' /\ Answered(trace)'
    BY <1>1, <1>4, <1>5 DEF Answered
  <1>7. AnswerTypes'
    BY <1>1, <1>3, <1>4 DEF AnswerInv, AnswerTypes
  <1>8. Numbered'
    BY <1>1 DEF AnswerInv, Numbered
  <1> QED
    BY <1>1, <1>2, <1>4, <1>6, <1>7, <1>8 DEF AnswerInv, HasRepro

LEMMA NewGoalAnswers ==
  ASSUME AnswerInv, NewGoal
  PROVE  AnswerInv'
  <1>1. PICK e : e = <<>>
    OBVIOUS
  <1>2. e \in Seq(Entries)
    BY <1>1
  <1>3. /\ UNCHANGED <<runtime, driver, trace, sqls, replay>>
        /\ DOMAIN repro' = {"actions", "expect", "start", "end", "code", "whole",
                            "here"}
        /\ repro'.actions = e /\ repro'.here = FALSE
    BY <1>1 DEF NewGoal, NoRepro, record
  <1>4. AnswerTypes'
    BY <1>2, <1>3 DEF AnswerInv, AnswerTypes
  <1>5. Numbered' /\ Answered(trace)'
    BY <1>3 DEF AnswerInv, Numbered, Answered
  <1> QED
    BY <1>3, <1>4, <1>5 DEF AnswerInv

LEMMA EndsAnswers ==
  ASSUME AnswerInv, EndSession
  PROVE  AnswerInv'
  <1>1. PICK e : e = <<>>
    OBVIOUS
  <1>2. e \in Seq(Entries)
    BY <1>1
  <1>3. /\ DOMAIN repro' = DOMAIN repro /\ repro'.here = FALSE
        /\ repro'.actions \in Seq(Entries)
    <2>1. CASE NeedsSql(repro.actions)
      BY <1>1, <1>2, <2>1 DEF EndSession, NoRepro, AnswerInv, AnswerTypes
    <2>2. CASE ~ NeedsSql(repro.actions)
      BY <2>2 DEF EndSession, NoRepro, AnswerInv, AnswerTypes
    <2> QED
      BY <2>1, <2>2
  <1>4. /\ runtime' \in Runtimes
        /\ runtime'.opening = "no"
    BY DEF EndSession, Closed, Runtimes
  <1>5. DOMAIN driver' = DOMAIN driver
    BY DEF EndSession, NewDriver, AnswerInv, AnswerTypes
  <1>6. /\ trace' = <<>> /\ sqls' = <<>> /\ replay'.phase = "none"
        /\ DOMAIN replay' = {"phase", "todo", "caches", "failed"}
        /\ replay'.todo \in Seq(Entries)
    BY DEF EndSession, AnswerInv, AnswerTypes
  <1>7. driver'.sequence \in Nat /\ driver'.ready \in BOOLEAN
    BY DEF EndSession, NewDriver
  <1> QED
    BY <1>3, <1>4, <1>5, <1>6, <1>7, AnswersBegin

LEMMA ReplayingTypes ==
  ASSUME AnswerInv, NEW caches, Replaying(caches) \/ replay' = replay
  PROVE  /\ DOMAIN replay' = {"phase", "todo", "caches", "failed"}
         /\ replay'.todo \in Seq(Entries)
  <1>1. PICK e : e = <<>>
    OBVIOUS
  <1>2. e \in Seq(Entries) /\ repro.actions \in Seq(Entries)
    BY <1>1 DEF AnswerInv, AnswerTypes
  <1>3. CASE replay' = replay
    BY <1>3 DEF AnswerInv, AnswerTypes
  <1>4. CASE replay' = [phase |-> "asked", todo |-> repro.actions,
                        caches |-> caches, failed |-> FALSE]
    BY <1>2, <1>4
  <1>5. CASE replay' = Idle
    BY <1>1, <1>2, <1>5 DEF Idle
  <1> QED
    BY <1>3, <1>4, <1>5 DEF Replaying

LEMMA AnswerSteps ==
  ASSUME AnswerInv, [Next]_vars
  PROVE  AnswerInv'
  <1>1. /\ runtime \in Runtimes
        /\ replay.phase # "none" => runtime.active /\ driver.ready
        /\ runtime.opening \in {"server", "browser"} => ~ runtime.active
        /\ DOMAIN driver = {"ready", "view", "pending", "sequence"}
        /\ DOMAIN replay = {"phase", "todo", "caches", "failed"}
        /\ replay.todo \in Seq(Entries)
    BY DEF AnswerInv, AnswerTypes, Runtimes
  <1>2. PICK e : e = <<>>
    OBVIOUS
  <1>3. e \in Seq(Entries)
    BY <1>2
  <1>4. CASE Ensure \/ OpenBrowser \/ Opened \/ OpenFails
    <2>1. UNCHANGED <<driver, trace, sqls, repro, replay>>
      BY <1>4 DEF Ensure, OpenBrowser, Opened, OpenFails, record
    <2>2. /\ runtime' \in Runtimes /\ runtime'.active = runtime.active
          /\ runtime'.opening \in {"server", "browser"} => ~ runtime'.active
      <3>1. CASE Ensure
        BY <1>1, <3>1 DEF Ensure, Runtimes
      <3>2. CASE OpenBrowser
        BY <1>1, <3>2 DEF OpenBrowser, Runtimes
      <3>3. CASE Opened
        BY <1>1, <3>3 DEF Opened, Runtimes
      <3>4. CASE OpenFails
        BY <1>1, <3>4 DEF OpenFails, Runtimes
      <3> QED
        BY <1>4, <3>1, <3>2, <3>3, <3>4
    <2> QED
      BY <1>1, <2>1, <2>2, AnswersStay DEF Runtimes
  <1>5. CASE Activate
    <2>1. /\ runtime' \in Runtimes /\ runtime'.opening = "event"
          /\ trace' = <<>> /\ sqls' = <<>> /\ UNCHANGED <<repro, replay>>
          /\ DOMAIN driver' = DOMAIN driver
      BY <1>1, <1>5 DEF Activate, NewDriver, Runtimes
    <2>2. repro.here = FALSE /\ replay.phase = "none"
      BY <1>5 DEF Activate, AnswerInv, AnswerTypes
    <2>3. repro'.actions \in Seq(Entries)
      BY <2>1 DEF AnswerInv, AnswerTypes
    <2>4. driver'.sequence \in Nat /\ driver'.ready \in BOOLEAN
      BY <1>5 DEF Activate, NewDriver
    <2> QED
      BY <1>1, <2>1, <2>2, <2>3, <2>4, AnswersBegin DEF Runtimes
  <1>6. CASE LoseWindow
    <2>1. /\ UNCHANGED <<driver, trace, sqls, repro>> /\ replay' = Idle
          /\ runtime' \in Runtimes /\ runtime'.active = runtime.active
          /\ runtime'.opening = runtime.opening
      BY <1>1, <1>6 DEF LoseWindow, Runtimes, record
    <2>2. /\ DOMAIN replay' = {"phase", "todo", "caches", "failed"}
          /\ replay'.todo \in Seq(Entries) /\ replay'.phase = "none"
      BY <1>2, <1>3, <2>1 DEF Idle
    <2> QED
      BY <1>1, <2>1, <2>2, AnswersStay DEF Runtimes
  <1>7. CASE EndSession
    BY <1>7, EndsAnswers
  <1>8. CASE Look
    <2>1. CASE driver.ready
      <3>1. /\ UNCHANGED <<runtime, trace, sqls, repro, replay>>
            /\ DOMAIN driver' = DOMAIN driver /\ driver'.ready = driver.ready
            /\ driver'.sequence = driver.sequence
        BY <1>1, <1>8, <2>1 DEF Look
      <3> QED
        BY <1>1, <3>1, AnswersStay DEF Runtimes
    <2>2. CASE ~ driver.ready
      <3>1. Begin /\ replay' = replay /\ ~ repro.here /\ runtime.active
        BY <1>8, <2>2 DEF Look, AnswerInv, Free, Up
      <3> QED
        BY <1>1, <3>1, BeginAnswers
    <2> QED
      BY <2>1, <2>2
  <1>9. ASSUME NEW act \in {"go", "use"}, Act(act)
        PROVE  AnswerInv'
    <2>1. driver.ready /\ Play(act) /\ UNCHANGED <<runtime, repro, replay>>
      BY <1>9 DEF Act, Untouched
    <2> QED
      BY <1>1, <2>1, PlayAnswers
  <1>10. ASSUME NEW answer \in Answers, Query(answer)
         PROVE  AnswerInv'
    BY <1>10, QueryAnswers
  <1>11. ASSUME NEW expect \in Expected, SaveReproduction(expect)
         PROVE  AnswerInv'
    BY <1>11, SavesAnswered
  <1>12. CASE NewGoal
    BY <1>12, NewGoalAnswers
  <1>13. CASE Verify \/ \E version \in Versions : Edit(version)
    <2>1. /\ UNCHANGED <<runtime, driver, trace, sqls, repro>>
          /\ \E caches : Replaying(caches) \/ replay' = replay
          /\ replay' # replay => runtime.active /\ driver.ready
      BY <1>13 DEF Verify, Edit, record, Free, Up
    <2>2. /\ DOMAIN replay' = {"phase", "todo", "caches", "failed"}
          /\ replay'.todo \in Seq(Entries)
      BY <2>1, ReplayingTypes
    <2> QED
      BY <1>1, <2>1, <2>2, AnswersStay DEF Runtimes
  <1>14. CASE PlayCommand
    <2>1. \E caches : Replaying(caches) \/ replay' = replay
      BY <1>14 DEF PlayCommand
    <2>2. /\ DOMAIN replay' = {"phase", "todo", "caches", "failed"}
          /\ replay'.todo \in Seq(Entries)
      BY <2>1, ReplayingTypes
    <2>3. CASE HasRepro /\ driver.ready
      <3>1. UNCHANGED <<runtime, driver, trace, sqls, repro>> /\ runtime.active
        BY <1>14, <2>3 DEF PlayCommand, record, Free, Up
      <3> QED
        BY <1>1, <2>2, <2>3, <3>1, AnswersStay DEF Runtimes
    <2>4. CASE ~ (HasRepro /\ driver.ready)
      <3>1. Begin /\ ~ repro.here /\ runtime.active
        BY <1>14, <2>4 DEF PlayCommand, AnswerInv, Free, Up
      <3> QED
        BY <2>2, <3>1, BeginAnswers
    <2> QED
      BY <2>3, <2>4
  <1>15. CASE Reload \/ FinishReplay
    <2>1. /\ UNCHANGED <<runtime, driver, trace, sqls, repro>>
          /\ replay' = Idle \/ replay' = [replay EXCEPT !.phase = "reloaded"]
          /\ replay.phase # "none"
      BY <1>15 DEF Reload, FinishReplay, record
    <2>2. /\ DOMAIN replay' = {"phase", "todo", "caches", "failed"}
          /\ replay'.todo \in Seq(Entries)
      <3>1. CASE replay' = Idle
        BY <1>2, <1>3, <3>1 DEF Idle
      <3>2. CASE replay' = [replay EXCEPT !.phase = "reloaded"]
        BY <1>1, <3>2
      <3> QED
        BY <2>1, <3>1, <3>2
    <2> QED
      BY <1>1, <2>1, <2>2, AnswersStay DEF Runtimes
  <1>16. CASE Recheckpoint
    <2>1. /\ UNCHANGED <<runtime, sqls, repro>> /\ trace' = <<>>
          /\ DOMAIN driver' = DOMAIN driver /\ driver'.ready = driver.ready
          /\ driver'.sequence = driver.sequence
          /\ DOMAIN replay' = DOMAIN replay /\ replay'.todo = replay.todo
          /\ replay.phase # "none"
      BY <1>1, <1>16 DEF Recheckpoint
    <2> QED
      BY <1>1, <2>1, AnswersStay DEF Runtimes
  <1>17. CASE ReplayAction
    BY <1>17, ReplayAnswers
  <1>18. CASE OwnReload \/ HotUpdate \/ UNCHANGED vars
    <2>1. UNCHANGED <<runtime, driver, trace, sqls, repro, replay>>
      BY <1>18 DEF OwnReload, HotUpdate, vars, record
    <2> QED
      BY <1>1, <2>1, AnswersStay DEF Runtimes
  <1> QED
    BY <1>4, <1>5, <1>6, <1>7, <1>8, <1>9, <1>10, <1>11, <1>12, <1>13, <1>14,
       <1>15, <1>16, <1>17, <1>18 DEF Next

\* Whatever is replayed, reloaded, started anew or saved again, a reproduction
\* of this session finds the one answer to each of its queries.
THEOREM AnswersAreKept == Spec => []ReplayHasItsSql
  <1>1. AnswerInv => ReplayHasItsSql
    <2> SUFFICES ASSUME AnswerInv, repro.here, NEW k \in 1 .. Len(repro.actions),
                        repro.actions[k].act = "input"
                 PROVE  Cardinality(Answer(repro.actions[k].sequence)) = 1
      BY DEF ReplayHasItsSql
    <2>1. repro.actions \in Seq(Entries) /\ sqls \in Seq(Sqls)
      BY DEF AnswerInv, AnswerTypes
    <2>2. PICK j \in DOMAIN sqls : sqls[j].sequence = repro.actions[k].sequence
      BY <2>1 DEF AnswerInv, Answered
    <2>3. \A i \in DOMAIN sqls : sqls[i].sequence = sqls[j].sequence => i = j
      BY DEF AnswerInv, Numbered
    <2>4. Answer(repro.actions[k].sequence) = {sqls[j].answer}
      BY <2>1, <2>2, <2>3 DEF Answer
    <2> QED
      BY <2>4, FS_Singleton
  <1> QED
    BY <1>1, AnswerInit, AnswerSteps, PTL DEF Spec

-------------------------------------------------------------------------------
(* Playing a record.                                                       *)

\* The answers kept under a number.
Typed(q, n) == {q[k].answer : k \in {j \in 1 .. Len(q) : q[j].sequence = n}}

\* An entry is played: from the place `at` with the answer `buf` typed and not
\* submitted it ends in `at2` and `buf2`, as it is recorded.
Steps(e, at, buf, at2, buf2, version, q) ==
    /\ e.act = "input" =>
          /\ at2 = at /\ buf2 \in Typed(q, e.sequence)
          /\ e.ok = "yes" => Wants(at, "query")
    /\ e.act = "query" =>
          /\ buf # NoAnswer /\ buf2 = NoAnswer
          /\ e.ok = Outcome("query", at, buf, version) /\ at2 = After(at, e.ok)
    /\ e.act \notin {"input", "query"} =>
          /\ buf2 = buf
          /\ e.ok = Outcome(e.act, at, NoAnswer, version) /\ at2 = After(at, e.ok)

Run(at, buf, s, a, b, z, d, version, q) ==
    /\ at[0] = a /\ buf[0] = b
    /\ at[Len(s)] = z /\ buf[Len(s)] = d
    /\ \A k \in 1 .. Len(s) :
          Steps(s[k], at[k - 1], buf[k - 1], at[k], buf[k], version, q)

\* Played one after the other, the entries lead from place and answer a, b to
\* z, d.
Leads(s, a, b, z, d, version, q) ==
    \E at, buf : Run(at, buf, s, a, b, z, d, version, q)

LEMMA LeadsNowhere ==
  ASSUME NEW a, NEW b, NEW version, NEW q
  PROVE  /\ Leads(<<>>, a, b, a, b, version, q)
         /\ \A z, d : Leads(<<>>, a, b, z, d, version, q) => z = a
  <1>1. PICK s : s = <<>>
    OBVIOUS
  <1>2. Len(s) = 0 /\ 1 .. Len(s) = {}
    BY <1>1
  <1>3. Leads(s, a, b, a, b, version, q)
    <2> DEFINE at == [k \in {0} |-> a]
               buf == [k \in {0} |-> b]
    <2>1. at[0] = a /\ buf[0] = b
      OBVIOUS
    <2> HIDE DEF at, buf
    <2>2. Run(at, buf, s, a, b, a, b, version, q)
      BY <1>2, <2>1 DEF Run
    <2> QED
      BY <2>2 DEF Leads
  <1>4. ASSUME NEW z, NEW d, Leads(s, a, b, z, d, version, q)
        PROVE  z = a
    <2>1. PICK at, buf : Run(at, buf, s, a, b, z, d, version, q)
      BY <1>4 DEF Leads
    <2> QED
      BY <1>2, <2>1 DEF Run
  <1> QED
    BY <1>1, <1>3, <1>4

\* One more entry.
LEMMA LeadsOn ==
  ASSUME NEW S, NEW s \in Seq(S), NEW e \in S,
         NEW a, NEW b, NEW z, NEW d, NEW z2, NEW d2, NEW version, NEW q,
         Leads(s, a, b, z, d, version, q), Steps(e, z, d, z2, d2, version, q)
  PROVE  Leads(s \o <<e>>, a, b, z2, d2, version, q)
  <1>1. PICK at, buf : Run(at, buf, s, a, b, z, d, version, q)
    BY DEF Leads
  <1>2. PICK n, t : n = Len(s) /\ t = s \o <<e>>
    OBVIOUS
  <1>3. /\ n \in Nat /\ Len(t) = n + 1 /\ t[n + 1] = e
        /\ \A k \in 1 .. n : t[k] = s[k]
    BY <1>2
  <1> DEFINE at2 == [k \in 0 .. n + 1 |-> IF k = n + 1 THEN z2 ELSE at[k]]
             buf2 == [k \in 0 .. n + 1 |-> IF k = n + 1 THEN d2 ELSE buf[k]]
  <1>4. /\ at2[n + 1] = z2 /\ buf2[n + 1] = d2
        /\ \A k \in 0 .. n : at2[k] = at[k] /\ buf2[k] = buf[k]
    BY <1>3
  <1> HIDE DEF at2, buf2
  <1>5. /\ at[0] = a /\ buf[0] = b /\ at[n] = z /\ buf[n] = d
        /\ \A k \in 1 .. n :
              Steps(s[k], at[k - 1], buf[k - 1], at[k], buf[k], version, q)
    BY <1>1, <1>2 DEF Run
  <1>6. at2[0] = a /\ buf2[0] = b /\ at2[n] = z /\ buf2[n] = d
    BY <1>3, <1>4, <1>5
  <1>7. ASSUME NEW k \in 1 .. n + 1
        PROVE  Steps(t[k], at2[k - 1], buf2[k - 1], at2[k], buf2[k], version, q)
    <2>1. CASE k = n + 1
      <3>1. k - 1 = n
        BY <1>3, <2>1
      <3> QED
        BY <1>3, <1>4, <1>6, <2>1, <3>1
    <2>2. CASE k # n + 1
      <3>1. k \in 1 .. n /\ k \in 0 .. n /\ k - 1 \in 0 .. n
        BY <1>3, <2>2
      <3> QED
        BY <1>3, <1>4, <1>5, <3>1
    <2> QED
      BY <2>1, <2>2
  <1>8. Run(at2, buf2, t, a, b, z2, d2, version, q)
    BY <1>3, <1>4, <1>6, <1>7 DEF Run
  <1> QED
    BY <1>2, <1>8 DEF Leads

\* The first entry, and the rest.
LEMMA LeadsFrom ==
  ASSUME NEW S, NEW s \in Seq(S), s # <<>>,
         NEW a, NEW b, NEW z, NEW d, NEW version, NEW q,
         Leads(s, a, b, z, d, version, q)
  PROVE  \E a2, b2 : /\ Steps(Head(s), a, b, a2, b2, version, q)
                     /\ Leads(Tail(s), a2, b2, z, d, version, q)
  <1>1. PICK at, buf : Run(at, buf, s, a, b, z, d, version, q)
    BY DEF Leads
  <1>2. PICK n, t : n = Len(s) /\ t = Tail(s)
    OBVIOUS
  <1>3. /\ n \in Nat \ {0} /\ Len(t) = n - 1 /\ Head(s) = s[1]
        /\ \A k \in 1 .. n - 1 : t[k] = s[k + 1]
    BY <1>2
  <1> DEFINE at2 == [k \in 0 .. n - 1 |-> at[k + 1]]
             buf2 == [k \in 0 .. n - 1 |-> buf[k + 1]]
  <1>4. \A k \in 0 .. n - 1 : at2[k] = at[k + 1] /\ buf2[k] = buf[k + 1]
    OBVIOUS
  <1> HIDE DEF at2, buf2
  <1>5. /\ at[0] = a /\ buf[0] = b /\ at[n] = z /\ buf[n] = d
        /\ \A k \in 1 .. n :
              Steps(s[k], at[k - 1], buf[k - 1], at[k], buf[k], version, q)
    BY <1>1, <1>2 DEF Run
  <1>6. Steps(Head(s), a, b, at[1], buf[1], version, q)
    <2>1. 1 \in 1 .. n /\ 1 - 1 = 0
      BY <1>3
    <2> QED
      BY <1>3, <1>5, <2>1
  <1>7. at2[0] = at[1] /\ buf2[0] = buf[1] /\ at2[n - 1] = z /\ buf2[n - 1] = d
    <2>1. 0 \in 0 .. n - 1 /\ n - 1 \in 0 .. n - 1 /\ n - 1 + 1 = n /\ 0 + 1 = 1
      BY <1>3
    <2> QED
      BY <1>4, <1>5, <2>1
  <1>8. ASSUME NEW k \in 1 .. n - 1
        PROVE  Steps(t[k], at2[k - 1], buf2[k - 1], at2[k], buf2[k], version, q)
    <2>1. PICK i, j : i = k - 1 /\ j = k + 1
      OBVIOUS
    <2>2. /\ i \in 0 .. n - 1 /\ k \in 0 .. n - 1 /\ j \in 1 .. n
          /\ i + 1 = k /\ j - 1 = k
      BY <1>3, <2>1
    <2>3. Steps(s[j], at[k], buf[k], at[j], buf[j], version, q)
      BY <1>5, <2>2
    <2>4. /\ t[k] = s[j] /\ at2[i] = at[k] /\ buf2[i] = buf[k]
          /\ at2[k] = at[j] /\ buf2[k] = buf[j]
      BY <1>3, <1>4, <2>1, <2>2
    <2> QED
      BY <2>1, <2>3, <2>4
  <1>9. Run(at2, buf2, t, at[1], buf[1], z, d, version, q)
    BY <1>3, <1>7, <1>8 DEF Run
  <1>10. Leads(t, at[1], buf[1], z, d, version, q)
    BY <1>9 DEF Leads
  <1> QED
    BY <1>2, <1>6, <1>10

\* Answers that are added change nothing.
LEMMA LeadsStill ==
  ASSUME NEW s, NEW a, NEW b, NEW z, NEW d, NEW version, NEW q, NEW q2,
         \A n : Typed(q, n) \subseteq Typed(q2, n),
         Leads(s, a, b, z, d, version, q)
  PROVE  Leads(s, a, b, z, d, version, q2)
  <1>1. PICK at, buf : Run(at, buf, s, a, b, z, d, version, q)
    BY DEF Leads
  <1>2. ASSUME NEW k \in 1 .. Len(s)
        PROVE  Steps(s[k], at[k - 1], buf[k - 1], at[k], buf[k], version, q2)
    BY <1>1 DEF Run, Steps
  <1>3. Run(at, buf, s, a, b, z, d, version, q2)
    BY <1>1, <1>2 DEF Run
  <1> QED
    BY <1>3 DEF Leads

\* A failed action that was available can be left out: it moved nothing, and
\* what it submitted is typed again before the next query.
LEMMA FilterLeads ==
  ASSUME NEW entries \in Seq(Entries), NEW kept, NEW a, NEW z, NEW d,
         NEW version, NEW q,
         Leads(entries, a, NoAnswer, z, d, version, q),
         \A k \in DOMAIN entries :
            entries[k] \in kept \/ (entries[k].act # "input" /\ entries[k].ok = "no")
  PROVE  \E d2 : Leads(Only(entries, kept), a, NoAnswer, z, d2, version, q)
  <1> DEFINE N == Len(entries)
             f == CHOOSE g : IsFilter(g, N, entries, kept)
  <1>1. N \in Nat /\ DOMAIN entries = 1 .. N
    OBVIOUS
  <1>2. IsFilter(f, N, entries, kept)
    <2>1. \E g : IsFilter(g, N, entries, kept)
      BY <1>1, FilterExists
    <2> HIDE DEF IsFilter
    <2> QED
      BY <2>1
  <1>3. Only(entries, kept) = f[N]
    BY DEF Only, IsFilter, Piece
  <1>4. PICK at, buf : Run(at, buf, entries, a, NoAnswer, z, d, version, q)
    BY DEF Leads
  <1> HIDE DEF f
  <1>5. /\ at[0] = a /\ buf[0] = NoAnswer /\ at[N] = z
        /\ \A k \in 1 .. N :
              Steps(entries[k], at[k - 1], buf[k - 1], at[k], buf[k], version, q)
    BY <1>4 DEF Run
  <1> HIDE DEF N
  <1> DEFINE Good(k) ==
        /\ f[k] \in Seq(Entries)
        /\ \E d2 : /\ Leads(f[k], a, NoAnswer, at[k], d2, version, q)
                   /\ buf[k] = NoAnswer \/ d2 = buf[k]
             T == {m \in 0 .. N : ~ Good(m)}
  <1>6. Good(0)
    <2>1. 0 \in 0 .. N
      BY <1>1
    <2>2. f[0] = <<>>
      BY <1>2, <2>1 DEF IsFilter
    <2>3. f[0] \in Seq(Entries)
      BY <2>2
    <2>4. Leads(f[0], a, NoAnswer, at[0], NoAnswer, version, q)
      BY <1>5, <2>2, LeadsNowhere
    <2> QED
      BY <1>5, <2>3, <2>4
  <1>7. ASSUME NEW m \in 1 .. N, Good(m - 1)
        PROVE  Good(m)
    <2>1. m \in 0 .. N /\ m # 0
      BY <1>1
    <2>2. f[m] = f[m - 1] \o Piece(entries, kept, m)
      BY <1>2, <2>1 DEF IsFilter
    <2>3. PICK e, g, a1, b1, a2, b2, d1 :
             /\ e = entries[m] /\ g = f[m - 1]
             /\ a1 = at[m - 1] /\ b1 = buf[m - 1] /\ a2 = at[m] /\ b2 = buf[m]
             /\ Leads(g, a, NoAnswer, a1, d1, version, q)
             /\ b1 = NoAnswer \/ d1 = b1
      BY <1>7
    <2>4. /\ g \in Seq(Entries) /\ e \in Entries
          /\ Steps(e, a1, b1, a2, b2, version, q)
      BY <1>1, <1>5, <1>7, <2>3
    <2>5. CASE e \in kept
      <3>1. f[m] = g \o <<e>>
        BY <2>2, <2>3, <2>5 DEF Piece
      <3>2. PICK d2 : /\ Steps(e, a1, d1, a2, d2, version, q)
                      /\ b2 = NoAnswer \/ d2 = b2
        <4>1. CASE e.act = "input"
          BY <2>4, <4>1 DEF Steps
        <4>2. CASE e.act = "query"
          BY <2>3, <2>4, <4>2 DEF Steps
        <4>3. CASE e.act \notin {"input", "query"}
          <5>1. Steps(e, a1, d1, a2, d1, version, q)
            BY <2>4, <4>3 DEF Steps
          <5>2. b2 = b1
            BY <2>4, <4>3 DEF Steps
          <5> QED
            BY <2>3, <5>1, <5>2
        <4> QED
          BY <4>1, <4>2, <4>3
      <3>3. Leads(g \o <<e>>, a, NoAnswer, a2, d2, version, q)
        BY <2>3, <2>4, <3>2, LeadsOn
      <3>4. g \o <<e>> \in Seq(Entries)
        BY <2>4
      <3> QED
        BY <2>3, <3>1, <3>2, <3>3, <3>4
    <2>6. CASE e \notin kept
      <3>1. f[m] = g
        <4>1. Piece(entries, kept, m) = <<>>
          BY <2>3, <2>6 DEF Piece
        <4> QED
          BY <2>2, <2>3, <2>4, <4>1
      <3>2. e.act # "input" /\ e.ok = "no"
        BY <1>1, <2>3, <2>6
      <3>3. a2 = a1 /\ b2 \in {b1, NoAnswer}
        BY <2>4, <3>2 DEF Steps, After
      <3> QED
        BY <2>3, <2>4, <3>1, <3>3
    <2> QED
      BY <2>5, <2>6
  <1> HIDE DEF Good
  <1>8. T = {}
    <2>1. SUFFICES ASSUME T # {} PROVE FALSE
      OBVIOUS
    <2>2. PICK m \in T : \A y \in T : m <= y
      <3>1. T \subseteq Nat
        BY <1>1
      <3> HIDE DEF T
      <3> QED
        BY <2>1, <3>1, Least
    <2>3. m # 0
      BY <1>6, <2>2
    <2>4. m \in 1 .. N /\ m - 1 \in 0 .. N /\ m - 1 \notin T
      BY <1>1, <2>2, <2>3
    <2>5. Good(m - 1)
      BY <2>4
    <2> QED
      BY <1>7, <2>2, <2>4, <2>5
  <1>9. Good(N)
    BY <1>1, <1>8
  <1> QED
    BY <1>3, <1>5, <1>9 DEF Good
-------------------------------------------------------------------------------
(* A replay leads where its reproduction did.                              *)

Played == Up /\ driver.ready /\ replay.phase \in {"none", "running"}

Recorded ==
    Played => /\ driver.view = page.at
              /\ ~ dropped => Leads(trace, start, NoAnswer, page.at,
                                    driver.pending, page.code, sqls)

Saved ==
    repro.here /\ repro.whole =>
        \E d : Leads(repro.actions, repro.start, NoAnswer, repro.end, d,
                     repro.code, sqls)

\* What a replay still has to do leads to the end of the reproduction.
Comparable ==
    /\ replay.phase = "running" /\ repro.here /\ repro.whole /\ ~ dropped
    /\ Settled(repro.actions) /\ page.code = repro.code

Due ==
    /\ replay.phase \in {"asked", "reloaded"}
          => replay.todo = repro.actions /\ ~ replay.failed
    /\ Comparable =>
          /\ ~ replay.failed /\ Settled(replay.todo)
          /\ \E d : Leads(replay.todo, page.at, driver.pending, repro.end, d,
                          repro.code, sqls)

PlayInv == Recorded /\ Saved /\ Due

LEMMA PlayPrimed ==
  /\ Recorded' <=>
        (Played' => /\ driver'.view = page'.at
                    /\ ~ dropped' => Leads(trace', start', NoAnswer, page'.at,
                                           driver'.pending, page'.code, sqls'))
  /\ Saved' <=>
        (repro'.here /\ repro'.whole =>
            \E d : Leads(repro'.actions, repro'.start, NoAnswer, repro'.end, d,
                         repro'.code, sqls'))
  /\ Comparable' <=>
        /\ replay'.phase = "running" /\ repro'.here /\ repro'.whole /\ ~ dropped'
        /\ Settled(repro'.actions) /\ page'.code = repro'.code
  /\ Due' <=>
        /\ replay'.phase \in {"asked", "reloaded"}
              => replay'.todo = repro'.actions /\ ~ replay'.failed
        /\ Comparable' =>
              /\ ~ replay'.failed /\ Settled(replay'.todo)
              /\ \E d : Leads(replay'.todo, page'.at, driver'.pending, repro'.end,
                              d, repro'.code, sqls')
  <1>1. Recorded' <=>
        (Played' => /\ driver'.view = page'.at
                    /\ ~ dropped' => Leads(trace', start', NoAnswer, page'.at,
                                           driver'.pending, page'.code, sqls'))
    BY DEF Recorded, Leads, Run, Steps, Typed, Outcome, Wants, After
  <1>2. Saved' <=>
        (repro'.here /\ repro'.whole =>
            \E d : Leads(repro'.actions, repro'.start, NoAnswer, repro'.end, d,
                         repro'.code, sqls'))
    BY DEF Saved, Leads, Run, Steps, Typed, Outcome, Wants, After
  <1>3. Comparable' <=>
        /\ replay'.phase = "running" /\ repro'.here /\ repro'.whole /\ ~ dropped'
        /\ Settled(repro'.actions) /\ page'.code = repro'.code
    BY DEF Comparable, Settled
  <1>4. Due' <=>
        /\ replay'.phase \in {"asked", "reloaded"}
              => replay'.todo = repro'.actions /\ ~ replay'.failed
        /\ Comparable' =>
              /\ ~ replay'.failed /\ Settled(replay'.todo)
              /\ \E d : Leads(replay'.todo, page'.at, driver'.pending, repro'.end,
                              d, repro'.code, sqls')
    BY DEF Due, Settled, Leads, Run, Steps, Typed, Outcome, Wants, After
  <1> QED
    BY <1>1, <1>2, <1>3, <1>4

LEMMA PlayInit == Init => PlayInv
  BY DEF Init, PlayInv, Recorded, Saved, Due, Comparable, Played, Up, Closed,
         NoRepro, Idle

\* What leaves the page and the record alone.
LEMMA PlayStays ==
  ASSUME Shape, PlayInv, UNCHANGED <<page, trace, sqls, start>>, dropped => dropped',
         \/ repro' = repro
         \/ ~ repro'.here /\ replay' = replay /\ replay.phase = "none",
         driver'.pending = driver.pending, driver'.ready = driver.ready,
         driver'.view \in {driver.view, page.at},
         Up' => Up,
         \/ replay' = replay
         \/ /\ replay'.phase = "none"
            /\ Up' => replay.phase \in {"none", "running"}
         \/ /\ replay'.phase = "asked"
            /\ replay'.todo = repro'.actions /\ ~ replay'.failed
  PROVE  PlayInv'
  <1>1. Recorded'
    <2>1. Played' => Played
      BY DEF Played
    <2> QED
      BY <2>1, PlayPrimed DEF PlayInv, Recorded
  <1>2. Saved'
    BY PlayPrimed DEF PlayInv, Saved
  <1>3. Due'
    <2>1. CASE replay' = replay /\ repro' = repro
      BY <2>1, PlayPrimed DEF PlayInv, Due, Comparable
    <2>2. CASE replay'.phase = "none"
      BY <2>2, PlayPrimed
    <2>3. CASE /\ replay'.phase = "asked"
               /\ replay'.todo = repro'.actions /\ ~ replay'.failed
      BY <2>3, PlayPrimed
    <2> QED
      BY <2>1, <2>2, <2>3
  <1> QED
    BY <1>1, <1>2, <1>3 DEF PlayInv

\* A new record of a driver without a reproduction.
LEMMA PlayBegins ==
  ASSUME ~ repro'.here,
         \/ ~ (Up' /\ driver'.ready)
         \/ /\ trace' = <<>> /\ start' = page'.at
            /\ driver'.pending = NoAnswer /\ driver'.view = page'.at,
         \/ replay'.phase = "none"
         \/ /\ replay'.phase = "asked"
            /\ replay'.todo = repro'.actions /\ ~ replay'.failed
  PROVE  PlayInv'
  <1>1. Recorded'
    <2>1. CASE ~ (Up' /\ driver'.ready)
      BY <2>1, PlayPrimed DEF Played
    <2>2. CASE /\ trace' = <<>> /\ start' = page'.at
               /\ driver'.pending = NoAnswer /\ driver'.view = page'.at
      BY <2>2, PlayPrimed, LeadsNowhere
    <2> QED
      BY <2>1, <2>2
  <1>2. Saved' /\ Due'
    BY PlayPrimed
  <1> QED
    BY <1>1, <1>2 DEF PlayInv

\* While the page is reloaded nothing is played.
LEMMA PlayWaits ==
  ASSUME PlayInv, UNCHANGED <<sqls, repro>>,
         {replay.phase, replay'.phase} \subseteq {"asked", "reloaded"},
         replay'.todo = replay.todo, replay'.failed = replay.failed
  PROVE  PlayInv'
  <1>1. Recorded'
    BY PlayPrimed DEF Played
  <1>2. Saved'
    BY PlayPrimed DEF PlayInv, Saved
  <1>3. Due'
    BY PlayPrimed DEF PlayInv, Due
  <1> QED
    BY <1>1, <1>2, <1>3 DEF PlayInv

-------------------------------------------------------------------------------

LEMMA AsksOrRests ==
  ASSUME NEW caches, Replaying(caches)
  PROVE  \/ replay'.phase = "none"
         \/ /\ replay'.phase = "asked"
            /\ replay'.todo = repro.actions /\ ~ replay'.failed
  BY DEF Replaying, Idle

\* A driver begins a record: no reproduction of this session holds the last one.
Begins ==
    \/ Activate \/ EndSession
    \/ Look /\ ~ driver.ready
    \/ PlayCommand /\ ~ (HasRepro /\ driver.ready)

LEMMA BeginningPlays == ASSUME Inv, Begins PROVE PlayInv'
  <1>1. CASE Activate
    <2>1. ~ runtime.active /\ ~ repro.here /\ replay.phase = "none"
      BY <1>1 DEF Activate, Inv, Owner, Ready
    <2>2. ~ driver'.ready /\ repro' = repro /\ replay' = replay
      BY <1>1 DEF Activate, NewDriver
    <2> QED
      BY <2>1, <2>2, PlayBegins
  <1>2. CASE EndSession
    <2>1. ~ driver'.ready /\ ~ repro'.here /\ replay' = replay
          /\ replay.phase = "none"
      BY <1>2 DEF EndSession, NewDriver, NoRepro, Inv, Shape
    <2> QED
      BY <2>1, PlayBegins
  <1>3. CASE Look /\ ~ driver.ready
    <2>1. /\ trace' = <<>> /\ start' = page'.at /\ driver'.pending = NoAnswer
          /\ driver'.view = page'.at /\ repro' = repro /\ replay' = replay
          /\ replay.phase = "none"
      BY <1>3 DEF Look, Begin, Free, Inv, Shape
    <2> QED
      BY <1>3, <2>1, PlayBegins DEF Inv, Ready
  <1>4. CASE PlayCommand /\ ~ (HasRepro /\ driver.ready)
    <2>1. /\ replay.phase = "none" /\ repro' = repro
          /\ replay' = replay \/ Replaying(FALSE)
      BY <1>4 DEF PlayCommand, Begin, Free
    <2>2. \/ replay'.phase = "none"
          \/ /\ replay'.phase = "asked"
             /\ replay'.todo = repro'.actions /\ ~ replay'.failed
      BY <2>1, AsksOrRests
    <2>3. ~ repro'.here
      BY <1>4, <2>1 DEF Inv, Ready
    <2>4. /\ trace' = <<>> /\ start' = page'.at /\ driver'.pending = NoAnswer
          /\ driver'.view = page'.at
      BY <1>4 DEF PlayCommand, Begin, Inv, Shape
    <2> QED
      BY <2>2, <2>3, <2>4, PlayBegins
  <1> QED
    BY <1>1, <1>2, <1>3, <1>4 DEF Begins

\* Nothing else gives a start back.
LEMMA LostStays == ASSUME lost, [Next]_vars, ~ Begins PROVE lost'
  BY DEF Begins, Next, vars, record, Ensure, OpenBrowser, Opened, OpenFails,
         LoseWindow, Look, Act, Query, Untouched, SaveReproduction, NewGoal, Edit,
         Verify, PlayCommand, Reload, Recheckpoint, ReplayAction, FinishReplay,
         OwnReload, HotUpdate

LEMMA RuntimePlays ==
  ASSUME Inv, PlayInv, Ensure \/ OpenBrowser \/ Opened \/ OpenFails \/ LoseWindow
  PROVE  PlayInv'
  <1>1. CASE Ensure \/ Opened \/ OpenFails
    <2>1. /\ UNCHANGED <<page, trace, sqls, start, dropped, repro, driver, replay>>
          /\ Up' => Up
      BY <1>1 DEF Ensure, Opened, OpenFails, record, Up, Inv, Shape
    <2> QED
      BY <2>1, PlayStays DEF Inv
  <1>2. CASE LoseWindow
    <2>1. /\ UNCHANGED <<page, trace, sqls, start, dropped, repro, driver>>
          /\ ~ Up' /\ replay'.phase = "none"
      BY <1>2 DEF LoseWindow, record, Up, Inv, Shape, Idle
    <2> QED
      BY <2>1, PlayStays DEF Inv
  <1>3. CASE OpenBrowser
    <2>1. ~ runtime.active /\ ~ repro.here /\ replay.phase = "none"
      BY <1>3 DEF OpenBrowser, Inv, Owner, Ready
    <2>2. ~ Up' /\ repro' = repro /\ replay' = replay
      BY <1>3, <2>1 DEF OpenBrowser, Up, Inv, Shape
    <2> QED
      BY <2>1, <2>2, PlayBegins
  <1> QED
    BY <1>1, <1>2, <1>3

LEMMA CommandsPlay ==
  ASSUME Inv, PlayInv, ~ Begins,
         \/ Look \/ NewGoal \/ Verify \/ PlayCommand \/ FinishReplay
         \/ \E version \in Versions : Edit(version)
  PROVE  PlayInv'
  <1>1. CASE Look
    <2>1. /\ UNCHANGED <<runtime, page, trace, sqls, start, dropped, repro, replay>>
          /\ driver'.pending = driver.pending /\ driver'.ready = driver.ready
          /\ driver'.view = page.at
      BY <1>1 DEF Look, Begins, Inv, Shape
    <2> QED
      BY <2>1, PlayStays DEF Inv, Up
  <1>2. CASE NewGoal
    <2>1. /\ UNCHANGED <<runtime, page, trace, sqls, start, dropped, driver, replay>>
          /\ ~ repro'.here /\ replay.phase = "none"
      BY <1>2 DEF NewGoal, NoRepro, record
    <2> QED
      BY <2>1, PlayStays DEF Inv, Up
  <1>3. CASE Verify \/ \E version \in Versions : Edit(version)
    <2>1. /\ UNCHANGED <<runtime, page, trace, sqls, start, dropped, driver, repro>>
          /\ replay.phase = "none"
          /\ \/ replay' = replay
             \/ Replaying(TRUE)
      BY <1>3 DEF Verify, Edit, record, Free
    <2>2. \/ replay' = replay
          \/ replay'.phase = "none"
          \/ /\ replay'.phase = "asked"
             /\ replay'.todo = repro'.actions /\ ~ replay'.failed
      BY <2>1, AsksOrRests
    <2> QED
      BY <2>1, <2>2, PlayStays DEF Inv, Up
  <1>4. CASE PlayCommand
    <2>1. /\ replay.phase = "none" /\ repro' = repro /\ runtime' = runtime
          /\ replay' = replay \/ Replaying(FALSE)
      BY <1>4 DEF PlayCommand, Begin, Free
    <2>2. \/ replay' = replay
          \/ replay'.phase = "none"
          \/ /\ replay'.phase = "asked"
             /\ replay'.todo = repro'.actions /\ ~ replay'.failed
      BY <2>1, AsksOrRests
    <2>3. UNCHANGED <<page, trace, sqls, start, dropped, driver>>
      BY <1>4 DEF PlayCommand, Begins, record
    <2> QED
      BY <2>1, <2>2, <2>3, PlayStays DEF Inv, Up
  <1>5. CASE FinishReplay
    <2>1. /\ UNCHANGED <<runtime, page, trace, sqls, start, dropped, driver, repro>>
          /\ replay'.phase = "none" /\ replay.phase = "running"
      BY <1>5 DEF FinishReplay, record, Idle
    <2> QED
      BY <2>1, PlayStays DEF Inv, Up
  <1> QED
    BY <1>1, <1>2, <1>3, <1>4, <1>5
-------------------------------------------------------------------------------
(* The page is reloaded.                                                   *)

LEMMA ReloadPlays ==
  ASSUME Inv, PlayInv, ~ lost', Reload \/ OwnReload
  PROVE  PlayInv'
  <1>1. CASE OwnReload
    <2>1. /\ UNCHANGED <<sqls, repro, replay>> /\ replay.phase = "asked"
      BY <1>1 DEF OwnReload
    <2> QED
      BY <2>1, PlayWaits
  <1>2. CASE Reload
    <2>1. replay.phase = "asked" /\ Up /\ ~ lost /\ UNCHANGED <<sqls, repro>>
      BY <1>2 DEF Reload, record
    <2>2. replay' = [replay EXCEPT !.phase = "reloaded"]
      <3>1. CASE page.restored /\ ~ page.taken
        BY <1>2, <3>1 DEF Reload
      <3>2. CASE ~ (page.restored /\ ~ page.taken)
        <4>1. token \in Nat
          BY <2>1, <3>2 DEF Inv, Shape, Ready, Kept, Up
        <4> QED
          BY <1>2, <3>2, <4>1, Restoration DEF Reload
      <3> QED
        BY <3>1, <3>2
    <2>3. /\ replay'.phase = "reloaded" /\ replay'.todo = replay.todo
          /\ replay'.failed = replay.failed
      BY <2>2 DEF Inv, Shape
    <2> QED
      BY <2>1, <2>3, PlayWaits
  <1> QED
    BY <1>1, <1>2

\* The replay starts where the reproduction did.
LEMMA RecheckpointPlays ==
  ASSUME Inv, PlayInv, ~ lost, Recheckpoint
  PROVE  PlayInv'
  <1>1. /\ replay.phase = "reloaded" /\ Up /\ driver.ready /\ page.at = start
        /\ repro.here => repro.start = start
    BY DEF Recheckpoint, Inv, Ready, Kept, Up
  <1>2. /\ UNCHANGED <<page, sqls, start, repro>> /\ trace' = <<>>
        /\ driver'.view = page.at /\ driver'.pending = NoAnswer
        /\ replay'.phase = "running"
        /\ replay'.todo = repro.actions /\ ~ replay'.failed
    BY <1>1 DEF Recheckpoint, Inv, Shape, PlayInv, Due
  <1>3. Recorded'
    BY <1>1, <1>2, PlayPrimed, LeadsNowhere
  <1>4. Saved'
    BY <1>2, PlayPrimed DEF PlayInv, Saved
  <1>5. Due'
    <2> SUFFICES ASSUME Comparable'
                 PROVE  \E d : Leads(replay'.todo, page'.at, driver'.pending,
                                     repro'.end, d, repro'.code, sqls')
      BY <1>2, PlayPrimed
    <2>1. repro.here /\ repro.whole
      BY <1>2, PlayPrimed
    <2> QED
      BY <1>1, <1>2, <2>1 DEF PlayInv, Saved
  <1> QED
    BY <1>3, <1>4, <1>5 DEF PlayInv

\* A page that changes its code ends the comparison.
LEMMA HotUpdatePlays == ASSUME Inv, PlayInv, HotUpdate PROVE PlayInv'
  <1>1. UNCHANGED <<runtime, driver, trace, sqls, start, repro, replay>>
        /\ page'.at = page.at
    BY DEF HotUpdate, Inv, Shape
  <1>2. CASE page' = page
    <2>1. dropped => dropped'
      BY <1>2 DEF HotUpdate
    <2> QED
      BY <1>1, <1>2, <2>1, PlayStays DEF Inv, Up
  <1>3. CASE page' # page
    <2>1. dropped'
      BY <1>3 DEF HotUpdate
    <2>2. Recorded'
      BY <1>1, <2>1, PlayPrimed DEF PlayInv, Recorded, Played, Up
    <2>3. Saved'
      BY <1>1, PlayPrimed DEF PlayInv, Saved
    <2>4. Due'
      BY <1>1, <2>1, PlayPrimed DEF PlayInv, Due
    <2> QED
      BY <2>2, <2>3, <2>4 DEF PlayInv
  <1> QED
    BY <1>2, <1>3
-------------------------------------------------------------------------------
(* What is played is recorded as it went.                                  *)

LEMMA PushKeeps ==
  ASSUME trace \in Seq(Entries), NEW entries \in Seq(Entries), Push(entries),
         ~ dropped'
  PROVE  ~ dropped /\ trace' = trace \o entries
  <1>1. PICK all, n, m : /\ all = trace \o entries
                         /\ n = Len(trace) /\ m = Len(entries)
    OBVIOUS
  <1>2. n \in Nat /\ m \in Nat /\ all \in Seq(Entries) /\ Len(all) = n + m
    BY <1>1
  <1>3. ~ dropped /\ ~ (n + m > Capacity)
    BY <1>1 DEF Push
  <1>4. Ring(entries) = SubSeq(all, 1, n + m)
    BY <1>1, <1>2, <1>3 DEF Ring
  <1>5. SubSeq(all, 1, n + m) = all
    BY <1>2
  <1> QED
    BY <1>1, <1>3, <1>4, <1>5 DEF Push

LEMMA TypedGrows ==
  ASSUME sqls \in Seq(Sqls), NEW n, NEW answer,
         sqls' = Append(sqls, [sequence |-> n, answer |-> answer])
  PROVE  /\ answer \in Typed(sqls', n)
         /\ \A m : Typed(sqls, m) \subseteq Typed(sqls', m)
  <1>1. PICK s, k, q : /\ s = [sequence |-> n, answer |-> answer]
                       /\ k = Len(sqls) /\ q = Append(sqls, s)
    OBVIOUS
  <1>2. s.sequence = n /\ s.answer = answer
    BY <1>1
  <1>3. /\ k \in Nat /\ Len(q) = k + 1 /\ q[k + 1] = s
        /\ \A j \in 1 .. k : q[j] = sqls[j] /\ j \in 1 .. k + 1
        /\ k + 1 \in 1 .. k + 1
    BY <1>1
  <1>4. answer \in Typed(q, n)
    BY <1>2, <1>3 DEF Typed
  <1>5. ASSUME NEW m PROVE Typed(sqls, m) \subseteq Typed(q, m)
    BY <1>1, <1>3 DEF Typed
  <1> QED
    BY <1>1, <1>4, <1>5

LEMMA TypedOnce ==
  ASSUME AnswerInv, NEW n
  PROVE  /\ Typed(sqls, n) = Answer(n) /\ Typed(sqls, n) \subseteq Answers
         /\ \A x, y \in Typed(sqls, n) : x = y
  <1>1. Typed(sqls, n) = Answer(n)
    BY DEF Typed, Answer
  <1>2. sqls \in Seq(Sqls) /\ DOMAIN sqls = 1 .. Len(sqls)
    BY DEF AnswerInv, AnswerTypes
  <1>3. \A k \in 1 .. Len(sqls) : sqls[k].answer \in Answers
    <2>1. \A k \in 1 .. Len(sqls) : sqls[k] \in Sqls
      BY <1>2
    <2> QED
      BY <2>1 DEF Sqls
  <1>4. Typed(sqls, n) \subseteq Answers
    BY <1>3 DEF Typed
  <1>5. \A x, y \in Typed(sqls, n) : x = y
    BY <1>2 DEF Typed, AnswerInv, Numbered
  <1> QED
    BY <1>1, <1>4, <1>5

LEMMA RecordedOn ==
  ASSUME AnswerInv, PlayInv, Played, NEW e \in Entries, Push(<<e>>),
         Steps(e, page.at, driver.pending, page'.at, driver'.pending, page.code, sqls'),
         \A n : Typed(sqls, n) \subseteq Typed(sqls', n),
         page'.code = page.code, start' = start, driver'.view = page'.at
  PROVE  Recorded'
  <1> SUFFICES ASSUME ~ dropped'
               PROVE  Leads(trace', start, NoAnswer, page'.at, driver'.pending,
                            page.code, sqls')
    BY PlayPrimed
  <1>1. trace \in Seq(Entries) /\ <<e>> \in Seq(Entries)
    BY DEF AnswerInv, AnswerTypes
  <1>2. ~ dropped /\ trace' = trace \o <<e>>
    BY <1>1, PushKeeps
  <1>3. Leads(trace, start, NoAnswer, page.at, driver.pending, page.code, sqls)
    BY <1>2 DEF PlayInv, Recorded
  <1>4. Leads(trace, start, NoAnswer, page.at, driver.pending, page.code, sqls')
    BY <1>3, LeadsStill
  <1> QED
    BY <1>1, <1>2, <1>4, LeadsOn

\* A reproduction leads to its end whatever is typed later.
LEMMA SavedStill ==
  ASSUME PlayInv, repro' = repro, \A n : Typed(sqls, n) \subseteq Typed(sqls', n)
  PROVE  Saved'
  BY PlayPrimed, LeadsStill DEF PlayInv, Saved

LEMMA PlaySteps ==
  ASSUME Inv, AnswerInv, NEW act \in {"go", "use"}, Play(act)
  PROVE  \E e \in Entries :
            /\ Push(<<e>>) /\ e.act = act
            /\ e.ok = Outcome(act, page.at, NoAnswer, page.code)
            /\ Steps(e, page.at, driver.pending, page'.at, driver'.pending,
                     page.code, sqls')
            /\ page'.code = page.code /\ driver'.view = page'.at /\ sqls' = sqls
  <1>1. PICK ok, e : /\ ok = Outcome(act, page.at, NoAnswer, page.code)
                     /\ e = Entry(act, ok, 1)
    OBVIOUS
  <1>2. e \in Entries /\ e.act = act /\ e.ok = ok
    <2>1. ok \in {"yes", "no", "off"} /\ driver.sequence \in Nat
      BY <1>1, OutcomeIs DEF AnswerInv, AnswerTypes
    <2> QED
      BY <1>1, <2>1, EntryIs DEF Entry
  <1>3. /\ Push(<<e>>) /\ page' = [page EXCEPT !.at = After(page.at, ok)]
        /\ driver' = [driver EXCEPT !.view = page'.at, !.sequence = @ + 1]
        /\ sqls' = sqls
    BY <1>1 DEF Play
  <1>4. /\ page'.at = After(page.at, ok) /\ page'.code = page.code
        /\ driver'.view = page'.at /\ driver'.pending = driver.pending
    BY <1>3 DEF Inv, Shape
  <1>5. Steps(e, page.at, driver.pending, page'.at, driver'.pending, page.code, sqls')
    BY <1>1, <1>2, <1>4 DEF Steps
  <1> QED
    BY <1>1, <1>2, <1>3, <1>4, <1>5

LEMMA SubmitSteps ==
  ASSUME Inv, AnswerInv, Submit
  PROVE  \E e \in Entries :
            /\ Push(<<e>>) /\ e.act = "query"
            /\ e.ok = Outcome("query", page.at, driver.pending, page.code)
            /\ Steps(e, page.at, driver.pending, page'.at, driver'.pending,
                     page.code, sqls')
            /\ page'.code = page.code /\ driver'.view = page'.at /\ sqls' = sqls
  <1>1. PICK ok, e : /\ ok = Outcome("query", page.at, driver.pending, page.code)
                     /\ e = Entry("query", ok, 1)
    OBVIOUS
  <1>2. e \in Entries /\ e.act = "query" /\ e.ok = ok
    <2>1. ok \in {"yes", "no", "off"} /\ driver.sequence \in Nat
      BY <1>1, OutcomeIs DEF AnswerInv, AnswerTypes
    <2> QED
      BY <1>1, <2>1, EntryIs DEF Entry
  <1>3. /\ Push(<<e>>) /\ page' = [page EXCEPT !.at = After(page.at, ok)]
        /\ driver' = [driver EXCEPT !.view = page'.at, !.sequence = @ + 1,
                                    !.pending = NoAnswer]
        /\ sqls' = sqls /\ driver.pending # NoAnswer
    BY <1>1 DEF Submit
  <1>4. /\ page'.at = After(page.at, ok) /\ page'.code = page.code
        /\ driver'.view = page'.at /\ driver'.pending = NoAnswer
    BY <1>3 DEF Inv, Shape
  <1>5. Steps(e, page.at, driver.pending, page'.at, driver'.pending, page.code, sqls')
    BY <1>1, <1>2, <1>3, <1>4 DEF Steps
  <1> QED
    BY <1>1, <1>2, <1>3, <1>4, <1>5

\* The terminal of the last view is the one of the page.
LEMMA InputSteps ==
  ASSUME Inv, AnswerInv, PlayInv, Played, NEW answer, Input(answer)
  PROVE  \E e \in Entries :
            /\ Push(<<e>>) /\ e.act = "input"
            /\ e.ok = IF Wants(page.at, "query") THEN "yes" ELSE "off"
            /\ Steps(e, page.at, driver.pending, page'.at, driver'.pending,
                     page.code, sqls')
            /\ page' = page /\ driver'.view = page'.at /\ driver'.pending = answer
            /\ \A n : Typed(sqls, n) \subseteq Typed(sqls', n)
  <1>1. TerminalSeen <=> Wants(page.at, "query")
    <2>1. driver.view = page.at /\ page.at \in Nat
      BY DEF PlayInv, Recorded, Inv, Shape
    <2>2. driver.view # None
      BY <2>1
    <2> QED
      BY <2>1, <2>2 DEF TerminalSeen
  <1>2. PICK ok, e : /\ ok = IF Wants(page.at, "query") THEN "yes" ELSE "off"
                     /\ e = Entry("input", ok, 1)
    OBVIOUS
  <1>3. ok \in {"yes", "off"}
    BY <1>2
  <1>4. /\ e \in Entries /\ e.act = "input" /\ e.ok = ok
        /\ e.sequence = driver.sequence + 1
    BY <1>2, <1>3, EntryIs DEF AnswerInv, AnswerTypes, Entry
  <1>5. /\ Push(<<e>>) /\ page' = page
        /\ sqls' = Append(sqls, [sequence |-> driver.sequence + 1, answer |-> answer])
        /\ driver' = [driver EXCEPT !.pending = answer, !.sequence = @ + 1]
    BY <1>1, <1>2 DEF Input
  <1>6. driver'.view = page'.at /\ driver'.pending = answer
    BY <1>5 DEF Inv, Shape, PlayInv, Recorded
  <1>7. /\ answer \in Typed(sqls', e.sequence)
        /\ \A n : Typed(sqls, n) \subseteq Typed(sqls', n)
    BY <1>4, <1>5, TypedGrows DEF AnswerInv, AnswerTypes
  <1>8. Steps(e, page.at, driver.pending, page'.at, driver'.pending, page.code, sqls')
    BY <1>2, <1>4, <1>5, <1>6, <1>7 DEF Steps
  <1> QED
    BY <1>2, <1>4, <1>5, <1>6, <1>7, <1>8
-------------------------------------------------------------------------------
(* The tools and the reproduction.                                         *)

LEMMA ActPlays ==
  ASSUME Inv, AnswerInv, PlayInv, NEW act \in {"go", "use"}, Act(act)
  PROVE  PlayInv'
  <1>1. /\ Played /\ Play(act) /\ replay.phase = "none"
        /\ UNCHANGED <<repro, replay, start>>
    BY DEF Act, Free, Untouched, Played
  <1>2. PICK e \in Entries :
            /\ Push(<<e>>)
            /\ Steps(e, page.at, driver.pending, page'.at, driver'.pending,
                     page.code, sqls')
            /\ page'.code = page.code /\ driver'.view = page'.at /\ sqls' = sqls
    BY <1>1, PlaySteps
  <1>3. Recorded'
    BY <1>1, <1>2, RecordedOn
  <1>4. Saved'
    BY <1>1, <1>2, SavedStill
  <1>5. Due'
    BY <1>1, PlayPrimed
  <1> QED
    BY <1>3, <1>4, <1>5 DEF PlayInv

LEMMA OneByOne ==
  ASSUME NEW S, NEW s \in Seq(S), NEW i \in S, NEW e \in S
  PROVE  /\ <<i, e>> \in Seq(S) /\ s \o <<i>> \in Seq(S)
         /\ s \o <<i, e>> = (s \o <<i>>) \o <<e>>
  <1>1. PICK n, two, t, u, v : /\ n = Len(s) /\ two = <<i, e>> /\ t = s \o <<i>>
                               /\ u = s \o two /\ v = t \o <<e>>
    OBVIOUS
  <1>2. n \in Nat /\ two \in Seq(S) /\ Len(two) = 2 /\ two[1] = i /\ two[2] = e
    BY <1>1
  <1>3. /\ t \in Seq(S) /\ Len(t) = n + 1 /\ t[n + 1] = i
        /\ \A k \in 1 .. n : t[k] = s[k]
    BY <1>1, <1>2
  <1>4. /\ u \in Seq(S) /\ Len(u) = n + 2 /\ u[n + 1] = i /\ u[n + 2] = e
        /\ \A k \in 1 .. n : u[k] = s[k]
    BY <1>1, <1>2
  <1>5. /\ v \in Seq(S) /\ Len(v) = n + 2 /\ v[n + 1] = i /\ v[n + 2] = e
        /\ \A k \in 1 .. n : v[k] = s[k]
    BY <1>1, <1>2, <1>3
  <1>6. \A k \in 1 .. n + 2 : k \in 1 .. n \/ k = n + 1 \/ k = n + 2
    BY <1>2
  <1>7. u = v
    BY <1>2, <1>4, <1>5, <1>6
  <1> QED
    BY <1>1, <1>2, <1>3, <1>7

LEMMA QueryPlays ==
  ASSUME Inv, AnswerInv, PlayInv, NEW answer \in Answers, Query(answer)
  PROVE  PlayInv'
  <1>1. /\ Played /\ replay.phase = "none" /\ UNCHANGED <<repro, replay, start>>
        /\ sqls' = Append(sqls, [sequence |-> driver.sequence + 1, answer |-> answer])
    BY DEF Query, Free, Untouched, Played
  <1>2. /\ answer \in Typed(sqls', driver.sequence + 1)
        /\ \A n : Typed(sqls, n) \subseteq Typed(sqls', n)
    BY <1>1, TypedGrows DEF AnswerInv, AnswerTypes
  <1>3. Saved' /\ Due'
    BY <1>1, <1>2, SavedStill, PlayPrimed
  <1>4. TerminalSeen <=> Wants(page.at, "query")
    <2>1. driver.view = page.at /\ page.at \in Nat
      BY <1>1 DEF PlayInv, Recorded, Inv, Shape
    <2>2. driver.view # None
      BY <2>1
    <2> QED
      BY <2>1, <2>2 DEF TerminalSeen
  <1>5. PICK ok, out, i, e :
            /\ ok = IF TerminalSeen THEN "yes" ELSE "off"
            /\ out = Outcome("query", page.at, answer, page.code)
            /\ i = Entry("input", ok, 1) /\ e = Entry("query", out, 2)
    OBVIOUS
  <1>6. /\ i \in Entries /\ i.act = "input" /\ i.ok = ok
        /\ i.sequence = driver.sequence + 1
        /\ e \in Entries /\ e.act = "query" /\ e.ok = out
    <2>1. /\ ok \in {"yes", "no", "off"} /\ out \in {"yes", "no", "off"}
          /\ driver.sequence \in Nat
      BY <1>5, OutcomeIs DEF AnswerInv, AnswerTypes
    <2> QED
      BY <1>5, <2>1, EntryIs DEF Entry
  <1>7. Steps(i, page.at, driver.pending, page.at, answer, page.code, sqls')
    BY <1>2, <1>4, <1>5, <1>6 DEF Steps
  <1>8. CASE ~ TerminalSeen
    <2>1. /\ Push(<<i>>) /\ page' = page
          /\ driver' = [driver EXCEPT !.pending = answer, !.sequence = @ + 1]
      BY <1>5, <1>8 DEF Query
    <2>2. driver'.view = page'.at /\ driver'.pending = answer
      BY <1>1, <2>1 DEF Inv, Shape, PlayInv, Recorded
    <2>3. Recorded'
      BY <1>1, <1>2, <1>6, <1>7, <2>1, <2>2, RecordedOn
    <2> QED
      BY <1>3, <2>3 DEF PlayInv
  <1>9. CASE TerminalSeen
    <2>1. /\ Push(<<i, e>>) /\ page' = [page EXCEPT !.at = After(page.at, out)]
          /\ driver' = [driver EXCEPT !.view = page'.at, !.pending = NoAnswer,
                                      !.sequence = @ + 2]
      BY <1>5, <1>9 DEF Query
    <2>2. /\ driver'.view = page'.at /\ driver'.pending = NoAnswer
          /\ page'.at = After(page.at, out) /\ page'.code = page.code
      BY <2>1 DEF Inv, Shape
    <2>3. Steps(e, page.at, answer, page'.at, NoAnswer, page.code, sqls')
      BY <1>5, <1>6, <2>2, GameAssumption DEF Steps
    <2>4. ASSUME ~ dropped'
          PROVE  Leads(trace', start, NoAnswer, page'.at, NoAnswer, page.code, sqls')
      <3>1. PICK one, two : one = <<i>> /\ two = <<i, e>>
        OBVIOUS
      <3>2. /\ trace \in Seq(Entries) /\ two \in Seq(Entries)
            /\ trace \o <<i>> \in Seq(Entries)
            /\ trace \o two = (trace \o <<i>>) \o <<e>>
        <4>1. trace \in Seq(Entries)
          BY DEF AnswerInv, AnswerTypes
        <4> QED
          BY <1>6, <3>1, <4>1, OneByOne
      <3>3. ~ dropped /\ trace' = trace \o two
        BY <2>1, <2>4, <3>1, <3>2, PushKeeps
      <3>4. Leads(trace, start, NoAnswer, page.at, driver.pending, page.code, sqls)
        BY <1>1, <3>3 DEF PlayInv, Recorded
      <3>5. Leads(trace, start, NoAnswer, page.at, driver.pending, page.code, sqls')
        BY <1>2, <3>4, LeadsStill
      <3>6. Leads(trace \o <<i>>, start, NoAnswer, page.at, answer, page.code, sqls')
        BY <1>6, <1>7, <3>2, <3>5, LeadsOn
      <3>7. Leads((trace \o <<i>>) \o <<e>>, start, NoAnswer, page'.at, NoAnswer,
                  page.code, sqls')
        BY <1>6, <2>3, <3>2, <3>6, LeadsOn
      <3> QED
        BY <3>2, <3>3, <3>7
    <2>5. Recorded'
      BY <1>1, <2>2, <2>4, PlayPrimed
    <2> QED
      BY <1>3, <2>5 DEF PlayInv
  <1> QED
    BY <1>8, <1>9

\* The filter leaves out only what was available and failed.
LEMMA SavePlays ==
  ASSUME Inv, AnswerInv, PlayInv, NEW expect, SaveReproduction(expect)
  PROVE  PlayInv'
  <1>1. /\ Played /\ replay.phase = "none"
        /\ UNCHANGED <<runtime, page, driver, trace, sqls, start, dropped, replay>>
    BY DEF SaveReproduction, Free, Played, record, Inv, Ready
  <1>2. Recorded'
    BY <1>1, PlayPrimed DEF PlayInv, Recorded, Played, Up
  <1>3. Due'
    BY <1>1, PlayPrimed
  <1>4. /\ repro'.actions = Replayable(trace) /\ repro'.start = start
        /\ repro'.end = page.at /\ repro'.code = page.code
        /\ repro'.whole => ~ dropped
    BY DEF SaveReproduction
  <1>5. ASSUME repro'.whole
        PROVE  \E d : Leads(repro'.actions, repro'.start, NoAnswer, repro'.end, d,
                            repro'.code, sqls')
    <2> DEFINE kept == {e \in ToSet(trace) : \/ e.act = "input" \/ e.ok = "yes"
                                             \/ e.ok = "off"
                                             \/ e = Last(trace)}
    <2>1. Replayable(trace) = Only(trace, kept)
      BY DEF Replayable
    <2>2. trace \in Seq(Entries)
      BY DEF AnswerInv, AnswerTypes
    <2>3. ASSUME NEW k \in DOMAIN trace, trace[k] \notin kept
          PROVE  trace[k].act # "input" /\ trace[k].ok = "no"
      <3>1. trace[k] \in ToSet(trace) /\ trace[k] \in Entries
        BY <2>2 DEF ToSet
      <3>2. trace[k].ok \in {"yes", "no", "off"}
        BY <3>1 DEF Entries
      <3> QED
        BY <2>3, <3>1, <3>2
    <2> HIDE DEF kept
    <2>4. Leads(trace, start, NoAnswer, page.at, driver.pending, page.code, sqls)
      BY <1>1, <1>4, <1>5 DEF PlayInv, Recorded
    <2>5. \E d : Leads(Only(trace, kept), start, NoAnswer, page.at, d, page.code, sqls)
      BY <2>2, <2>3, <2>4, FilterLeads
    <2> QED
      BY <1>1, <1>4, <2>1, <2>5
  <1>6. Saved'
    BY <1>5, PlayPrimed
  <1> QED
    BY <1>2, <1>3, <1>6 DEF PlayInv
-------------------------------------------------------------------------------
(* The replay.                                                             *)

\* What a replayed action records.
Repeats(e, action) ==
    /\ e \in Entries /\ Push(<<e>>)
    /\ Steps(e, page.at, driver.pending, page'.at, driver'.pending, page.code, sqls')
    /\ page'.code = page.code /\ driver'.view = page'.at
    /\ \A n : Typed(sqls, n) \subseteq Typed(sqls', n)
    /\ action.act = "input" =>
          /\ driver'.pending \in Typed(sqls, action.sequence)
          /\ page'.at = page.at
          /\ e.ok = IF Wants(page.at, "query") THEN "yes" ELSE "off"
    /\ action.act = "query" =>
          /\ e.act = "query"
          /\ e.ok = Outcome("query", page.at, driver.pending, page.code)
    /\ action.act \in {"go", "use"} =>
          /\ e.act = action.act
          /\ e.ok = Outcome(action.act, page.at, NoAnswer, page.code)

Goes(action) ==
    Awaited(action.act) /\ ~ (action.act = "query" /\ driver.pending = NoAnswer)

LEMMA ReplayRepeats ==
  ASSUME Inv, AnswerInv, PlayInv, Played, ReplayAction,
         NEW action \in Entries, action = Head(replay.todo), Goes(action)
  PROVE  \E e : Repeats(e, action)
  <1>1. CASE action.act = "input"
    <2>1. PICK answer \in Answer(action.sequence) : Input(answer)
      BY <1>1 DEF ReplayAction, Goes
    <2>2. PICK e \in Entries :
            /\ Push(<<e>>) /\ e.act = "input"
            /\ e.ok = IF Wants(page.at, "query") THEN "yes" ELSE "off"
            /\ Steps(e, page.at, driver.pending, page'.at, driver'.pending,
                     page.code, sqls')
            /\ page' = page /\ driver'.view = page'.at /\ driver'.pending = answer
            /\ \A n : Typed(sqls, n) \subseteq Typed(sqls', n)
      BY <2>1, InputSteps
    <2>3. driver'.pending \in Typed(sqls, action.sequence)
      BY <2>1, <2>2, TypedOnce
    <2> QED
      BY <1>1, <2>2, <2>3 DEF Repeats
  <1>2. CASE action.act = "query"
    <2>1. Submit
      BY <1>2 DEF ReplayAction, Goes
    <2>2. PICK e \in Entries :
            /\ Push(<<e>>) /\ e.act = "query"
            /\ e.ok = Outcome("query", page.at, driver.pending, page.code)
            /\ Steps(e, page.at, driver.pending, page'.at, driver'.pending,
                     page.code, sqls')
            /\ page'.code = page.code /\ driver'.view = page'.at /\ sqls' = sqls
      BY <2>1, SubmitSteps
    <2> QED
      BY <1>2, <2>2 DEF Repeats
  <1>3. CASE action.act \in {"go", "use"}
    <2>1. Play(action.act)
      BY <1>3 DEF ReplayAction, Goes
    <2>2. PICK e \in Entries :
            /\ Push(<<e>>) /\ e.act = action.act
            /\ e.ok = Outcome(action.act, page.at, NoAnswer, page.code)
            /\ Steps(e, page.at, driver.pending, page'.at, driver'.pending,
                     page.code, sqls')
            /\ page'.code = page.code /\ driver'.view = page'.at /\ sqls' = sqls
      BY <1>3, <2>1, PlaySteps
    <2> QED
      BY <1>3, <2>2 DEF Repeats
  <1> QED
    BY <1>1, <1>2, <1>3 DEF Entries

\* An action that is recorded as it would go now is not waited for in vain,
\* goes the same way and leaves the replay on its way.
LEMMA ReplayFollows ==
  ASSUME Inv, AnswerInv, PlayInv, Played, ReplayAction, ~ dropped',
         NEW action \in Entries, action = Head(replay.todo),
         action.ok = "yes" \/ (action.act = "query" /\ action.ok = "no"),
         NEW at, NEW buf,
         Steps(action, page.at, driver.pending, at, buf, page.code, sqls)
  PROVE  /\ page'.at = at /\ driver'.pending = buf
         /\ replay' = [replay EXCEPT !.todo = Tail(@)]
         /\ \A n : Typed(sqls, n) \subseteq Typed(sqls', n)
  <1>1. Goes(action)
    <2>1. CASE action.act = "input"
      BY <2>1 DEF Steps, Goes, Awaited
    <2>2. CASE action.act = "query"
      BY <2>2 DEF Steps, Goes, Awaited, Outcome
    <2>3. CASE action.act \in {"go", "use"}
      BY <2>3 DEF Steps, Goes, Awaited, Outcome, Wants
    <2> QED
      BY <2>1, <2>2, <2>3 DEF Entries
  <1>2. PICK e : Repeats(e, action)
    BY <1>1, ReplayRepeats
  <1>3. e.ok = "yes" \/ action.ok # "yes"
    BY <1>2 DEF Steps, Repeats, Entries
  <1>4. page'.at = at /\ driver'.pending = buf
    <2>1. CASE action.act = "input"
      BY <1>2, <2>1, TypedOnce DEF Steps, Repeats
    <2>2. CASE action.act = "query"
      BY <1>2, <2>2 DEF Steps, Repeats
    <2>3. CASE action.act \in {"go", "use"}
      BY <1>2, <2>3 DEF Steps, Repeats
    <2> QED
      BY <2>1, <2>2, <2>3 DEF Entries
  <1>5. Last(trace') = e
    <2>1. trace \in Seq(Entries) /\ <<e>> \in Seq(Entries) /\ e \in Entries
      BY <1>2 DEF Repeats, AnswerInv, AnswerTypes
    <2>2. PICK t, n : t = trace \o <<e>> /\ n = Len(trace)
      OBVIOUS
    <2>3. n \in Nat /\ Len(t) = n + 1 /\ t[n + 1] = e
      BY <2>1, <2>2
    <2>4. trace' = t
      BY <1>2, <2>1, <2>2, PushKeeps DEF Repeats
    <2> QED
      BY <2>3, <2>4 DEF Last
  <1>6. replay' = [replay EXCEPT !.todo = Tail(@)]
    BY <1>1, <1>3, <1>5 DEF ReplayAction, Goes
  <1> QED
    BY <1>2, <1>4, <1>6 DEF Repeats

LEMMA ReplayActionPlays ==
  ASSUME Inv, AnswerInv, PlayInv, ReplayAction
  PROVE  PlayInv'
  <1>1. /\ Played /\ replay.phase = "running" /\ replay.todo # <<>>
        /\ replay.todo \in Seq(Entries)
        /\ UNCHANGED <<runtime, repro, start>>
    BY DEF ReplayAction, Played, Inv, Ready, AnswerInv, AnswerTypes
  <1>2. PICK action \in Entries : action = Head(replay.todo)
    BY <1>1
  <1>3. /\ Recorded' /\ Saved' /\ replay'.phase = "running"
        /\ page'.code = page.code /\ (dropped => dropped')
    <2>1. CASE ~ Goes(action)
      <3>1. UNCHANGED <<page, driver, trace, sqls, dropped>> /\ Fail
        BY <1>2, <2>1 DEF ReplayAction, Goes
      <3>2. Recorded' /\ Saved'
        BY <1>1, <3>1, PlayPrimed DEF PlayInv, Recorded, Saved
      <3>3. replay'.phase = "running"
        BY <1>1, <3>1 DEF Fail, Inv, Shape
      <3> QED
        BY <3>1, <3>2, <3>3
    <2>2. CASE Goes(action)
      <3>1. PICK e : Repeats(e, action)
        BY <1>1, <1>2, <2>2, ReplayRepeats
      <3>2. Recorded'
        BY <1>1, <3>1, RecordedOn DEF Repeats
      <3>3. Saved'
        BY <1>1, <3>1, SavedStill DEF Repeats
      <3>4. replay'.phase = "running"
        BY <1>1 DEF ReplayAction, Fail, Inv, Shape
      <3>5. dropped => dropped'
        BY <3>1 DEF Repeats, Push
      <3> QED
        BY <3>1, <3>2, <3>3, <3>4, <3>5 DEF Repeats
    <2> QED
      BY <2>1, <2>2
  <1>4. Due'
    <2> SUFFICES ASSUME Comparable'
                 PROVE  /\ ~ replay'.failed /\ Settled(replay'.todo)
                        /\ \E d : Leads(replay'.todo, page'.at, driver'.pending,
                                        repro'.end, d, repro'.code, sqls')
      BY <1>3, PlayPrimed
    <2>1. Comparable /\ ~ dropped' /\ page.code = repro.code
      <3>1. /\ repro'.here /\ repro'.whole /\ ~ dropped'
            /\ Settled(repro'.actions) /\ page'.code = repro'.code
        BY PlayPrimed
      <3>2. /\ repro.here /\ repro.whole /\ ~ dropped /\ ~ dropped'
            /\ page.code = repro.code
        BY <1>1, <1>3, <3>1
      <3>3. Settled(repro.actions)
        BY <1>1, <3>1
      <3> QED
        BY <1>1, <3>2, <3>3 DEF Comparable
    <2>2. PICK d : /\ ~ replay.failed /\ Settled(replay.todo)
                   /\ Leads(replay.todo, page.at, driver.pending, repro.end, d,
                            page.code, sqls)
      BY <2>1 DEF PlayInv, Due
    <2>3. PICK at, buf :
             /\ Steps(action, page.at, driver.pending, at, buf, page.code, sqls)
             /\ Leads(Tail(replay.todo), at, buf, repro.end, d, page.code, sqls)
      BY <1>1, <1>2, <2>2, LeadsFrom
    <2>4. /\ action.ok = "yes" \/ (action.act = "query" /\ action.ok = "no")
          /\ Settled(Tail(replay.todo))
      <3>1. PICK todo, n, t : todo = replay.todo /\ n = Len(todo) /\ t = Tail(todo)
        OBVIOUS
      <3>2. /\ todo \in Seq(Entries) /\ todo # <<>>
            /\ \A k \in 1 .. n : todo[k].ok = "yes"
                                  \/ (todo[k].act = "query" /\ todo[k].ok = "no")
        BY <1>1, <2>2, <3>1 DEF Settled
      <3>3. /\ n \in Nat \ {0} /\ Head(todo) = todo[1] /\ Len(t) = n - 1
            /\ \A k \in 1 .. n - 1 : t[k] = todo[k + 1] /\ k + 1 \in 1 .. n
            /\ 1 \in 1 .. n
        BY <3>1, <3>2
      <3>4. \A k \in 1 .. n - 1 : t[k].ok = "yes"
                                   \/ (t[k].act = "query" /\ t[k].ok = "no")
        BY <3>2, <3>3
      <3>5. Settled(t)
        BY <3>3, <3>4 DEF Settled
      <3> QED
        BY <1>2, <3>1, <3>2, <3>3, <3>5
    <2>5. /\ page'.at = at /\ driver'.pending = buf
          /\ replay' = [replay EXCEPT !.todo = Tail(@)]
          /\ \A n : Typed(sqls, n) \subseteq Typed(sqls', n)
      BY <1>1, <1>2, <2>1, <2>3, <2>4, ReplayFollows
    <2>6. replay'.todo = Tail(replay.todo) /\ replay'.failed = replay.failed
      BY <2>5 DEF Inv, Shape
    <2>7. Leads(Tail(replay.todo), at, buf, repro.end, d, page.code, sqls')
      BY <2>3, <2>5, LeadsStill
    <2> QED
      BY <1>1, <2>1, <2>2, <2>4, <2>5, <2>6, <2>7
  <1> QED
    BY <1>3, <1>4 DEF PlayInv

\* The record and the reproduction lead where they did until a start is lost.
Straight == ~ lost => PlayInv

LEMMA StraightOn ==
  ASSUME Inv, AnswerInv, Straight, [Next]_vars
  PROVE  Straight'
  <1>1. CASE Begins
    BY <1>1, BeginningPlays DEF Straight
  <1>2. CASE lost /\ ~ Begins
    BY <1>2, LostStays DEF Straight
  <1>3. CASE UNCHANGED vars
    <2>1. UNCHANGED <<runtime, page, trace, sqls, start, dropped, repro, driver, replay,
                      lost>>
      BY <1>3 DEF vars, record
    <2> QED
      BY <2>1, PlayStays DEF Straight, Inv, Up
  <1>4. CASE Next /\ ~ lost /\ ~ Begins
    <2> SUFFICES ASSUME ~ lost' PROVE PlayInv'
      BY DEF Straight
    <2> QED
      BY <1>4, RuntimePlays, CommandsPlay, ActPlays, QueryPlays, SavePlays,
         ReloadPlays, RecheckpointPlays, ReplayActionPlays, HotUpdatePlays
         DEF Next, Straight, Begins
  <1> QED
    BY <1>1, <1>2, <1>3, <1>4

\* What the filter (reproduction.ts) leaves of a complete record, replayed from
\* its checkpoint on the version it was saved on, goes through and ends where
\* the symptom was seen: for every way, every version and whatever was played,
\* replayed and saved before.
THEOREM ReplaysReproduce == Spec => ReplayReproduces
  <1>1. Init => Inv /\ AnswerInv /\ Straight
    BY InitInv, AnswerInit, PlayInit DEF Straight
  <1>2. Inv /\ AnswerInv /\ Straight /\ [Next]_vars
            => (Inv /\ AnswerInv /\ Straight)'
    BY StepKeepsInv, AnswerSteps, StraightOn
  <1>3. ASSUME Straight,
               FinishReplay /\ ~ lost /\ repro.here /\ repro.whole /\ ~ dropped
                  /\ Settled(repro.actions) /\ page.code = repro.code
        PROVE  ~ replay.failed /\ page.at = repro.end
    <2>1. Comparable /\ replay.todo = <<>> /\ PlayInv
      BY <1>3 DEF Comparable, FinishReplay, Straight
    <2>2. PICK d : /\ ~ replay.failed
                   /\ Leads(<<>>, page.at, driver.pending, repro.end, d, repro.code,
                            sqls)
      BY <2>1, <1>3 DEF PlayInv, Due
    <2> QED
      BY <2>2, LeadsNowhere
  <1>4. Straight => [FinishReplay /\ ~ lost /\ repro.here /\ repro.whole /\ ~ dropped
                        /\ Settled(repro.actions) /\ page.code = repro.code
                      => ~ replay.failed /\ page.at = repro.end]_vars
    BY <1>3
  <1> QED
    BY <1>1, <1>2, <1>4, PTL DEF Spec, ReplayReproduces
=============================================================================
