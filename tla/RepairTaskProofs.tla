-------------------------- MODULE RepairTaskProofs --------------------------
(***************************************************************************)
(* Theorems about RepairTask for every set of files, contents, budgets and *)
(* faults.                                                                 *)
(***************************************************************************)
EXTENDS RepairTask, FiniteSetTheorems, SequenceTheorems, TLAPS

-----------------------------------------------------------------------------
(* Types of the helpers.                                                   *)

LEMMA StatesList ==
    States = {"created", "active", "awaiting_approval", "verifying",
              "paused", "ready_to_apply", "applied", "blocked", "discarded"}
  BY DEF States, Transitions

LEMMA MovedType ==
    ASSUME NEW t \in Tasks, NEW state \in States
    PROVE  Moved(t, state) \in Tasks
  BY DEF Moved, Tasks

LEMMA UnverifiedType ==
    ASSUME NEW t \in Tasks
    PROVE  Unverified(t) \in Tasks
  BY DEF Unverified, Tasks

LEMMA ApproveType ==
    ASSUME NEW t \in Tasks, NEW S \in SUBSET Paths
    PROVE  Approve(t, S) \in Tasks
  BY DEF Approve, Tasks

LEMMA CloseType ==
    ASSUME NEW t \in Tasks
    PROVE  Close(t) \in Tasks
  BY DEF Close, Tasks

LEMMA ResetType ==
    ASSUME NEW t \in Tasks, NEW S \in SUBSET Paths
    PROVE  [t EXCEPT !.changed = S, !.lines = 0, !.verification = None,
                     !.patch = FALSE] \in Tasks
  <1>1. 0 \in 0..MaxLines /\ None \in Verifications \union {None}
    BY BudgetAssumption
  <1> HIDE DEF Verifications
  <1>2. [t EXCEPT !.changed = S, !.lines = 0] \in Tasks
    BY <1>1 DEF Tasks
  <1>3. \A u \in Tasks :
           [u EXCEPT !.verification = None, !.patch = FALSE] \in Tasks
    BY <1>1 DEF Tasks
  <1>4. [t EXCEPT !.changed = S, !.lines = 0, !.verification = None,
                  !.patch = FALSE]
        = [[t EXCEPT !.changed = S, !.lines = 0]
              EXCEPT !.verification = None, !.patch = FALSE]
    OBVIOUS
  <1> QED
    BY <1>2, <1>3, <1>4

LEMMA SingleSave ==
    /\ <<>> \in Seq(Tasks)
    /\ \A t \in Tasks : <<t>> \in Seq(Tasks)
  OBVIOUS

LEMMA SaveIfType ==
    ASSUME NEW c \in BOOLEAN, NEW t \in Tasks
    PROVE  SaveIf(c, t) \in Seq(Tasks)
  BY DEF SaveIf

LEMMA ReleaseType ==
    ASSUME NEW t \in Tasks
    PROVE  Release(t) \in Seq(Tasks)
  BY CloseType, SaveIfType DEF Release, HasActiveWriteScope

LEMMA NoEditType == NoEdit \in Edits /\ DOMAIN NoEdit = {}
  <1>1. NoEdit \in [{} -> Versions]
    BY DEF NoEdit
  <1> QED BY <1>1 DEF Edits, NoEdit

LEMMA EditDomain ==
    ASSUME NEW e \in Edits
    PROVE  /\ DOMAIN e \in SUBSET Paths
           /\ e \in [DOMAIN e -> Versions]
           /\ IsFiniteSet(DOMAIN e)
           /\ Cardinality(DOMAIN e) \in Nat
  <1>1. PICK S \in SUBSET Paths : e \in [S -> Versions]
    BY DEF Edits
  <1>2. DOMAIN e = S
    BY <1>1
  <1>3. IsFiniteSet(S)
    BY PathsAssumption, FS_Subset
  <1> QED BY <1>1, <1>2, <1>3, FS_CardinalityType

LEMMA NewTaskType == NewTask \in Tasks
  BY StatesList, BudgetAssumption DEF NewTask, Tasks

-----------------------------------------------------------------------------
(* Type correctness.  TypeOK bounds the lines a task record may count; that *)
(* the bound survives RecordEdit rests on PassBudget, two steps earlier.    *)

BudgetInv == pc = "write" => todo = <<>> /\ WithinLines(edit)

TypeInv == TypeOK /\ BudgetInv

LEMMA InitTypes == Init => TypeInv
  <1> SUFFICES ASSUME Init PROVE TypeInv
    OBVIOUS
  <1>1. todo \in Seq(Tasks)
    BY DEF Init
  <1>2. worktree \in Contents
    BY VersionsAssumption DEF Init, Contents
  <1>3. ledger \in Ledgers
    BY DEF Init, Ledgers, NewLedger
  <1> QED
    BY <1>1, <1>2, <1>3, NewTaskType, NoEditType
    DEF Init, TypeInv, TypeOK, BudgetInv, Steps

LEMMA StoreTypes ==
    ASSUME TypeInv, StoreNext
    PROVE  TypeInv'
  <1> USE DEF TypeInv, TypeOK, BudgetInv, session, durable, At
  <1>1. CASE Save
    BY <1>1 DEF Save
  <1>2. CASE SaveFails
    BY <1>2, NoEditType DEF SaveFails, Steps, Written
  <1>3. CASE Crash
    <2>1. /\ up' \in BOOLEAN /\ pc' = "idle" /\ todo' = <<>>
          /\ task' \in Tasks
          /\ UNCHANGED durable
      BY <1>3 DEF Crash
    <2>2. /\ running' \in BOOLEAN /\ approved' \in BOOLEAN
          /\ refresh' \in BOOLEAN /\ cache' = {} /\ edit' \in Edits
          /\ granted' = {} /\ tested' = {}
      BY <1>3, NoEditType DEF Crash
    <2> QED
      BY <2>1, <2>2 DEF Steps
  <1>4. CASE OpenSession
    <2>1. Moved(disk, "active") \in Tasks
      BY MovedType, StatesList
    <2>2. todo' \in Seq(Tasks)
      BY <1>4, <2>1 DEF OpenSession, SaveIf
    <2>3. /\ up' \in BOOLEAN /\ pc' = "restore" /\ task' \in Tasks
          /\ UNCHANGED <<durable, session>>
      BY <1>4 DEF OpenSession
    <2> QED
      BY <2>2, <2>3 DEF Steps
  <1>5. CASE RestoreSession
    <2> DEFINE sql == ledger.reproduction = "sql"
               t == IF sql THEN Unverified(task) ELSE task
    <2>1. t \in Tasks
      BY UnverifiedType
    <2>2. SaveIf(sql, t) \in Seq(Tasks) /\ Release(t) \in Seq(Tasks)
      BY <2>1, SaveIfType, ReleaseType
    <2>3. todo' \in Seq(Tasks)
      BY <2>2, <1>5 DEF RestoreSession
    <2>4. ledger' \in Ledgers
      BY <1>5 DEF RestoreSession, Ledgers
    <2> QED
      BY <1>5, <2>3, <2>4 DEF RestoreSession, Steps
  <1> QED
    BY <1>1, <1>2, <1>3, <1>4, <1>5 DEF StoreNext

LEMMA RequestTypes ==
    ASSUME TypeInv, RequestNext
    PROVE  TypeInv'
  <1> USE DEF TypeInv, TypeOK, BudgetInv, session, durable, At
  <1>1. ASSUME NEW kind \in {"repair", "publish", "other"}, NewRequest(kind)
        PROVE  TypeInv'
    <2> DEFINE t == IF HasActiveWriteScope(task) THEN Close(task) ELSE task
               u == Moved(Unverified(t), "active")
               c == t.state = "ready_to_apply" /\ kind # "publish"
    <2>1. t \in Tasks /\ u \in Tasks
      BY CloseType, UnverifiedType, MovedType, StatesList
    <2>2. SaveIf(c, u) \in Seq(Tasks) /\ Release(task) \in Seq(Tasks)
      BY <2>1, SaveIfType, ReleaseType
    <2>3. todo' \in Seq(Tasks)
      BY <2>2, <1>1 DEF NewRequest
    <2> QED
      BY <1>1, <2>3 DEF NewRequest, Steps
  <1>2. CASE BeginGoal
    <2> DEFINE u == Moved(Unverified(task), "active")
    <2>1. Unverified(task) \in Tasks /\ u \in Tasks
      BY UnverifiedType, MovedType, StatesList
    <2>2. /\ SaveIf(task.verification # None, Unverified(task)) \in Seq(Tasks)
          /\ SaveIf(task.state = "verifying", u) \in Seq(Tasks)
      BY <2>1, SaveIfType
    <2>3. todo' \in Seq(Tasks)
      BY <2>2, <1>2 DEF BeginGoal
    <2>4. ledger' \in Ledgers
      BY <1>2 DEF BeginGoal, Ledgers, NewLedger
    <2> QED
      BY <1>2, <2>3, <2>4 DEF BeginGoal, Steps
  <1>3. ASSUME NEW changed \in BOOLEAN, SetObjective(changed)
        PROVE  TypeInv'
    BY <1>3, SaveIfType DEF SetObjective, Steps
  <1>4. CASE Settle
    BY <1>4, ReleaseType DEF Settle
  <1> QED
    BY <1>1, <1>2, <1>3, <1>4 DEF RequestNext

LEMMA HashType == TypeOK => Hash \in Hashes /\ Registered \in SUBSET NewPaths
                            /\ ChangedPaths(worktree) \in SUBSET Paths
  BY DEF TypeOK, Hash, Hashes, Registered, ChangedPaths

LEMMA EditTypes ==
    ASSUME TypeInv, EditNext
    PROVE  TypeInv'
  <1> USE DEF TypeInv, TypeOK, BudgetInv, session, durable, At
  <1>1. ASSUME NEW e \in Calls, GrantEdit(e)
        PROVE  TypeInv'
    <2>1. e \in Edits /\ DOMAIN e \in SUBSET Paths
      BY EditDomain DEF Calls
    <2>2. Approve(task, DOMAIN e) \in Tasks
      BY <2>1, ApproveType
    <2>3. todo' \in Seq(Tasks)
      BY <2>2, <1>1 DEF GrantEdit
    <2> QED
      BY <1>1, <2>1, <2>3 DEF GrantEdit, Steps
  <1>2. ASSUME NEW e \in Calls, ReuseGrant(e)
        PROVE  TypeInv'
    BY <1>2 DEF ReuseGrant, Steps, Calls, EditSteps
  <1>3. CASE EnableWrites
    BY <1>3, SaveIfType DEF EnableWrites, Steps, EditSteps
  <1>4. CASE StageEdit
    BY <1>4, SaveIfType, MovedType, StatesList
    DEF StageEdit, Steps, EditSteps
  <1>5. CASE PassBudget
    BY <1>5 DEF PassBudget, Steps, EditSteps, WithinLines
  <1>6. CASE WriteFile
    <2>1. PICK p \in Left : worktree' = [worktree EXCEPT ![p] = edit[p]]
      BY <1>6 DEF WriteFile
    <2>2. edit[p] \in Versions
      BY EditDomain DEF Left
    <2>3. worktree' \in Contents
      BY <2>1, <2>2 DEF Contents
    <2> QED
      BY <1>6, <2>3 DEF WriteFile, WithinLines
  <1>7. CASE AbortEdit
    BY <1>7, NoEditType DEF AbortEdit, Steps, Written
  <1>8. CASE RecordEdit
    <2>1. task.lines + Cardinality(DOMAIN edit) \in 0..MaxLines
      BY <1>8, EditDomain, BudgetAssumption DEF RecordEdit, WithinLines, Tasks
    <2>2. task' \in Tasks
      BY <1>8, <2>1, EditDomain DEF RecordEdit, Tasks
    <2>3. ledger' \in Ledgers
      BY <1>8, HashType DEF RecordEdit, Ledgers
    <2>4. todo' \in Seq(Tasks)
      BY <1>8, <2>2 DEF RecordEdit
    <2> QED
      BY <1>8, <2>2, <2>3, <2>4 DEF RecordEdit, Steps, EditSteps
  <1>9. ASSUME NEW passed \in BOOLEAN, RefreshReplay(passed)
        PROVE  TypeInv'
    BY <1>9, NoEditType, HashType DEF RefreshReplay, Steps
  <1> QED
    BY <1>1, <1>2, <1>3, <1>4, <1>5, <1>6, <1>7, <1>8, <1>9 DEF EditNext

LEMMA FinishTypes ==
    ASSUME TypeInv, FinishNext
    PROVE  TypeInv'
  <1> USE DEF TypeInv, TypeOK, BudgetInv, session, durable, At
  <1>1. CASE FinishReproduced
    BY <1>1, SaveIfType, MovedType, StatesList
    DEF FinishReproduced, Finishing, Steps
  <1>2. CASE SaveReproduction
    <2>0. Unverified(task) \in Tasks
      BY UnverifiedType
    <2>1. /\ todo' = <<Unverified(task)>> \/ todo' = <<>>
          /\ pc' \in {"index", "idle"}
      BY <1>2 DEF SaveReproduction
    <2>2. todo' \in Seq(Tasks)
      BY <2>0, <2>1, SingleSave DEF SaveIf
    <2> QED
      BY <1>2, <2>1, <2>2 DEF SaveReproduction, Steps
  <1>3. ASSUME NEW kind \in Kinds, IndexReproduction(kind)
        PROVE  TypeInv'
    <2>1. ledger' \in Ledgers
      BY <1>3, KindsAssumption DEF IndexReproduction, Ledgers
    <2> QED
      BY <1>3, <2>1 DEF IndexReproduction, Steps
  <1>4. ASSUME NEW S \in SUBSET Paths \ {{}}, NEW confirmed \in BOOLEAN,
               FinishProposed(S, confirmed)
        PROVE  TypeInv'
    <2>1. Approve(task, S) \in Tasks /\ Close(task) \in Tasks
      BY ApproveType, CloseType
    <2>2. SaveIf(task.scope # "unapproved", Close(task)) \in Seq(Tasks)
      BY <2>1, SaveIfType
    <2>3. todo' \in Seq(Tasks)
      BY <1>4, <2>1, <2>2 DEF FinishProposed
    <2> QED
      BY <1>4, <2>3 DEF FinishProposed, Finishing, Steps
  <1>5. CASE RevokeWrites
    <2>1. todo' \in Seq(Tasks) /\ pc' = "idle"
      BY <1>5 DEF RevokeWrites
    <2> QED
      BY <1>5, <2>1 DEF RevokeWrites, Steps
  <1>6. CASE FinishBlocked
    <2>1. Close(task) \in Tasks /\ Moved(Close(task), "blocked") \in Tasks
      BY CloseType, MovedType, StatesList
    <2>2. SaveIf(task.scope # "unapproved", Close(task)) \in Seq(Tasks)
      BY <2>1, SaveIfType
    <2>3. todo' \in Seq(Tasks)
      BY <1>6, <2>1, <2>2 DEF FinishBlocked
    <2> QED
      BY <1>6, <2>3 DEF FinishBlocked, Finishing
  <1>7. CASE FinishDiagnosed
    BY <1>7 DEF FinishDiagnosed, Finishing
  <1>8. ASSUME NEW status \in {"passed", "failed"}, CheckTool(status)
        PROVE  TypeInv'
    <2>1. ledger' \in Ledgers
      BY <1>8, HashType DEF CheckTool, CheckResult, Ledgers
    <2> QED
      BY <1>8, <2>1 DEF CheckTool, WithinLines
  <1> QED
    BY <1>1, <1>2, <1>3, <1>4, <1>5, <1>6, <1>7, <1>8 DEF FinishNext

LEMMA VerifyTypes ==
    ASSUME TypeInv, VerifyNext
    PROVE  TypeInv'
  <1> USE DEF TypeInv, TypeOK, BudgetInv, session, durable, At
  <1>1. CASE BeginVerify
    BY <1>1 DEF BeginVerify, Steps, VerifySteps
  <1>2. CASE SyncChanges
    <2>1. CASE Synchronised
      BY <1>2, <2>1 DEF SyncChanges, Steps, VerifySteps
    <2>2. CASE ~Synchronised
      <3> DEFINE u == [task EXCEPT !.changed = ChangedPaths(worktree),
                                   !.lines = 0,
                                   !.verification = None,
                                   !.patch = FALSE]
      <3>a. task' = u
        BY <1>2, <2>2 DEF SyncChanges
      <3>b. u \in Tasks
        BY HashType, ResetType
      <3>1. task' \in Tasks
        BY <3>a, <3>b
      <3>2. Moved(task', "active") \in Tasks
        BY <3>1, MovedType, StatesList
      <3>3. todo' \in Seq(Tasks)
        <4>1. \E t \in {task', Moved(task', "active")} : todo' = <<t>>
          BY <1>2, <2>2 DEF SyncChanges
        <4> QED
          BY <4>1, <3>1, <3>2
      <3>4. ledger' \in Ledgers
        BY <1>2, <2>2, HashType DEF SyncChanges, Ledgers
      <3> QED
        BY <1>2, <3>1, <3>3, <3>4 DEF SyncChanges, Steps, VerifySteps
    <2> QED
      BY <2>1, <2>2
  <1>3. CASE EnterVerifying
    <2>1. Moved(task, "active") \in Tasks /\ Moved(task, "verifying") \in Tasks
      BY MovedType, StatesList
    <2>2. /\ SaveIf(task.state = "ready_to_apply", Moved(task, "active"))
                \in Seq(Tasks)
          /\ SaveIf(task.state # "verifying", Moved(task, "verifying"))
                \in Seq(Tasks)
      BY <2>1, SaveIfType
    <2>3. todo' \in Seq(Tasks)
      BY <1>3, <2>2 DEF EnterVerifying
    <2> QED
      BY <1>3, <2>3 DEF EnterVerifying, Steps, VerifySteps
  <1>4. ASSUME NEW status \in {"passed", "failed"}, RunCheck(status)
        PROVE  TypeInv'
    <2> DEFINE Records == [hash : Hashes, status : {"passed", "failed"},
                           tests : SUBSET TestPaths]
    <2>1. ledger.checks \subseteq Records /\ CheckResult(status) \in Records
      BY HashType DEF Ledgers, CheckResult
    <2>2. PICK c \in IF CachedChecks # {} THEN CachedChecks
                     ELSE {CheckResult(status)} :
              /\ ledger' = [ledger EXCEPT !.checks = @ \union {c}]
              /\ IF c.status = "passed"
                 THEN /\ pc' = "replay"
                      /\ tested' = {[by |-> "check", content |-> c.hash[1],
                                    tests |-> c.tests]}
                 ELSE pc' = "idle" /\ tested' = {}
      BY <1>4 DEF RunCheck
    <2>3. c \in Records
      BY <2>1, <2>2 DEF CachedChecks
    <2>4. ledger' \in Ledgers
      BY <2>2, <2>3 DEF Ledgers
    <2>5. c.hash[1] \in Contents
      BY <2>3 DEF Hashes
    <2>6. tested' \in SUBSET Facts /\ pc' \in {"replay", "idle"}
      BY <2>2, <2>3, <2>5 DEF Facts
    <2> QED
      BY <1>4, <2>4, <2>6 DEF RunCheck, Steps, VerifySteps
  <1>5. CASE SkipCheck
    BY <1>5 DEF SkipCheck, Steps, VerifySteps
  <1>6. ASSUME NEW passed \in BOOLEAN, VerifyReplay(passed)
        PROVE  TypeInv'
    <2>1. PICK h \in IF \E h \in cache : ReplayHit(h)
                     THEN {h \in cache : ReplayHit(h)} ELSE {Hash} :
              /\ cache' = IF passed THEN cache \union {h} ELSE cache
              /\ IF h \in cache \/ passed
                 THEN /\ pc' = "capture"
                      /\ tested' = tested \union
                                    {[by |-> "replay", content |-> h[1],
                                      tests |-> {}]}
                 ELSE pc' = "idle" /\ tested' = {}
      BY <1>6 DEF VerifyReplay
    <2>2. h \in Hashes
      BY <2>1, HashType
    <2>3. h[1] \in Contents
      BY <2>2 DEF Hashes
    <2>4. tested' \in SUBSET Facts /\ pc' \in {"capture", "idle"}
      BY <2>1, <2>3 DEF Facts
    <2>5. cache' \in SUBSET Hashes
      BY <2>1, <2>2
    <2> QED
      BY <1>6, <2>4, <2>5 DEF VerifyReplay, Steps, VerifySteps
  <1>7. CASE SkipReplay
    BY <1>7 DEF SkipReplay, Steps, VerifySteps
  <1>8. CASE CapturePatch
    <2>1. [task EXCEPT !.patch = TRUE] \in Tasks
      BY DEF Tasks
    <2> QED
      BY <1>8, <2>1, HashType DEF CapturePatch, NewPatch, Steps, VerifySteps
  <1>9. CASE BindVerification
    <2>1. [hash |-> Hash, facts |-> tested] \in Verifications
      BY HashType DEF Verifications
    <2>2. task' \in Tasks
      BY <1>9, <2>1 DEF BindVerification, Tasks
    <2>3. todo' \in Seq(Tasks)
      BY <1>9, <2>2, MovedType, StatesList DEF BindVerification
    <2> QED
      BY <1>9, <2>2, <2>3 DEF BindVerification, Steps
  <1>10. CASE CloseVerify
    <2>1. Close(task) \in Tasks
      BY CloseType
    <2>2. SaveIf(task.scope # "unapproved", Close(task)) \in Seq(Tasks)
      BY <2>1, SaveIfType
    <2>3. todo' \in Seq(Tasks)
      BY <1>10, <2>1, <2>2 DEF CloseVerify
    <2> QED
      BY <1>10, <2>3 DEF CloseVerify, Steps
  <1>11. CASE FailVerify
    BY <1>11 DEF FailVerify, Steps
  <1> QED
    BY <1>1, <1>2, <1>3, <1>4, <1>5, <1>6, <1>7, <1>8, <1>9, <1>10, <1>11
    DEF VerifyNext

LEMMA CommandTypes ==
    ASSUME TypeInv, CommandNext
    PROVE  TypeInv'
  <1> USE DEF TypeInv, TypeOK, BudgetInv, session, durable, At, Command
  <1>1. CASE Diff
    BY <1>1, HashType DEF Diff
  <1>2. CASE Apply
    <2>1. todo' \in Seq(Tasks)
      BY <1>2, MovedType, StatesList DEF Apply
    <2> QED
      BY <1>2, <2>1 DEF Apply, Steps
  <1>3. CASE RollBack
    <2>1. todo' \in Seq(Tasks)
      BY <1>3, MovedType, StatesList DEF RollBack
    <2> QED
      BY <1>3, <2>1 DEF RollBack, Steps
  <1>4. CASE EndApply
    BY <1>4 DEF EndApply, Steps
  <1>5. CASE Discard
    <2>1. [task EXCEPT !.patch = TRUE] \in Tasks
      BY DEF Tasks
    <2> QED
      BY <1>5, <2>1, HashType DEF Discard, NewPatch, Steps
  <1>6. CASE CommitDiscard
    BY <1>6, MovedType, StatesList DEF CommitDiscard, Steps
  <1>7. CASE Shutdown
    BY <1>7, NoEditType DEF Shutdown, Steps
  <1> QED
    BY <1>1, <1>2, <1>3, <1>4, <1>5, <1>6, <1>7 DEF CommandNext

LEMMA OutsideTypes ==
    ASSUME TypeInv, OutsideEdit
    PROVE  TypeInv'
  <1>1. worktree' \in Contents
    BY DEF OutsideEdit, Contents, TypeInv, TypeOK
  <1> QED
    BY <1>1 DEF OutsideEdit, TypeInv, TypeOK, BudgetInv, session, WithinLines

LEMMA StutterTypes ==
    ASSUME TypeInv, UNCHANGED vars
    PROVE  TypeInv'
  BY DEF TypeInv, TypeOK, BudgetInv, WithinLines, vars, durable, session

\* Every variable keeps its type, and no task record ever counts more lines
\* than the budget: what PassBudget checked is what RecordEdit adds.
THEOREM TypesInvariant == Spec => []TypeInv
  <1>1. Init => TypeInv
    BY InitTypes
  <1>2. TypeInv /\ [Next]_vars => TypeInv'
    BY StoreTypes, RequestTypes, EditTypes, FinishTypes, VerifyTypes,
       CommandTypes, OutsideTypes, StutterTypes DEF Next
  <1> QED
    BY <1>1, <1>2, PTL DEF Spec

\* Every variable keeps its type.
THEOREM TypeCorrectness == Spec => []TypeOK
  <1>1. TypeInv => TypeOK
    BY DEF TypeInv
  <1> QED
    BY <1>1, TypesInvariant, PTL

-----------------------------------------------------------------------------
(* Write authority.  AuthorityIsConfirmed is not inductive: while a handler *)
(* has records to save, memory still holds the old scope.  AuthInv follows  *)
(* the queue, and the edit call from its authorisation to its writes.       *)

Confirmed(g) == {t \in Tasks : HasActiveWriteScope(t) => t.allowed \subseteq g}

AuthInv ==
    /\ pc \in {"apply", "discard", "shutdown"} => ~running
    /\ pc \in {"stage", "budget", "write"} => approved
    /\ pc = "write" => DOMAIN edit \subseteq granted
    /\ approved \/ pc = "granted" =>
          /\ up /\ running
          /\ todo \in Seq(Confirmed(granted))
          /\ todo = <<>> => task \in Confirmed(granted)

LEMMA ConfirmedSteps ==
    ASSUME NEW g, NEW t \in Confirmed(g)
    PROVE  /\ \A state \in States : Moved(t, state) \in Confirmed(g)
           /\ Unverified(t) \in Confirmed(g)
           /\ <<t>> \in Seq(Confirmed(g))
  <1>1. \A state \in States : Moved(t, state) \in Confirmed(g)
    BY MovedType DEF Confirmed, Moved, HasActiveWriteScope, Tasks
  <1>2. Unverified(t) \in Confirmed(g)
    BY UnverifiedType DEF Confirmed, Unverified, HasActiveWriteScope, Tasks
  <1> QED BY <1>1, <1>2

LEMMA ConfirmedScope ==
    ASSUME NEW t \in Tasks, NEW g
    PROVE  /\ Close(t) \in Confirmed(g)
           /\ ~HasActiveWriteScope(t) => t \in Confirmed(g)
           /\ \A S \in SUBSET Paths : Approve(t, S) \in Confirmed(S)
  <1>1. Close(t) \in Confirmed(g)
    BY CloseType DEF Confirmed, Close, HasActiveWriteScope, Tasks
  <1>2. \A S \in SUBSET Paths : Approve(t, S) \in Confirmed(S)
    BY ApproveType DEF Confirmed, Approve, HasActiveWriteScope, Tasks
  <1> QED BY <1>1, <1>2 DEF Confirmed

LEMMA ConfirmedSaveIf ==
    ASSUME NEW g, NEW c, NEW t, c => t \in Confirmed(g)
    PROVE  SaveIf(c, t) \in Seq(Confirmed(g))
  BY DEF SaveIf

LEMMA StoreAuth ==
    ASSUME TypeInv, AuthInv, StoreNext
    PROVE  AuthInv'
  <1> USE DEF AuthInv, session, durable, At
  <1>1. CASE Save
    <2>1. CASE approved \/ pc = "granted"
      <3>1. Head(todo) \in Confirmed(granted)
            /\ Tail(todo) \in Seq(Confirmed(granted))
        BY <1>1, <2>1 DEF Save
      <3> QED BY <1>1, <2>1, <3>1 DEF Save
    <2>2. CASE ~(approved \/ pc = "granted")
      BY <1>1, <2>2 DEF Save
    <2> QED BY <2>1, <2>2
  <1>2. CASE SaveFails
    <2>1. CASE approved
      <3>1. Head(todo) \in Confirmed(granted)
        BY <1>2, <2>1 DEF SaveFails
      <3> QED BY <1>2, <2>1, <3>1, SingleSave DEF SaveFails
    <2>2. CASE ~approved
      BY <1>2, <2>2 DEF SaveFails
    <2> QED BY <2>1, <2>2
  <1>3. CASE Crash
    BY <1>3 DEF Crash
  <1>4. CASE OpenSession
    BY <1>4 DEF OpenSession
  <1>5. CASE RestoreSession
    BY <1>5 DEF RestoreSession
  <1> QED
    BY <1>1, <1>2, <1>3, <1>4, <1>5 DEF StoreNext

LEMMA RequestAuth ==
    ASSUME TypeInv, AuthInv, RequestNext
    PROVE  AuthInv'
  <1> USE DEF AuthInv, session, durable, At
  <1>1. ASSUME NEW kind \in {"repair", "publish", "other"}, NewRequest(kind)
        PROVE  AuthInv'
    BY <1>1 DEF NewRequest
  <1>2. CASE BeginGoal
    <2>1. CASE approved
      <3> DEFINE u == Unverified(task)
                 m == Moved(u, "active")
      <3>1. u \in Confirmed(granted) /\ m \in Confirmed(granted)
        BY <1>2, <2>1, ConfirmedSteps, StatesList DEF BeginGoal
      <3>2. /\ SaveIf(task.verification # None, u) \in Seq(Confirmed(granted))
            /\ SaveIf(task.state = "verifying", m) \in Seq(Confirmed(granted))
        BY <3>1, ConfirmedSaveIf
      <3>3. todo' \in Seq(Confirmed(granted))
        BY <1>2, <3>2 DEF BeginGoal
      <3> QED BY <1>2, <2>1, <3>3 DEF BeginGoal
    <2>2. CASE ~approved
      BY <1>2, <2>2 DEF BeginGoal
    <2> QED BY <2>1, <2>2
  <1>3. ASSUME NEW changed \in BOOLEAN, SetObjective(changed)
        PROVE  AuthInv'
    <2>1. approved => todo' \in Seq(Confirmed(granted))
      BY <1>3, ConfirmedSaveIf DEF SetObjective
    <2> QED
      BY <1>3, <2>1 DEF SetObjective
  <1>4. CASE Settle
    BY <1>4 DEF Settle
  <1> QED
    BY <1>1, <1>2, <1>3, <1>4 DEF RequestNext

LEMMA EditAuth ==
    ASSUME TypeInv, AuthInv, EditNext
    PROVE  AuthInv'
  <1> USE DEF AuthInv, session, durable, At
  <1>1. ASSUME NEW e \in Calls, GrantEdit(e)
        PROVE  AuthInv'
    <2>1. DOMAIN e \in SUBSET Paths
      BY EditDomain DEF Calls
    <2>2. Approve(task, DOMAIN e) \in Confirmed(DOMAIN e)
      BY <2>1, ConfirmedScope DEF TypeInv, TypeOK
    <2>3. todo' \in Seq(Confirmed(granted')) /\ todo' # <<>>
      BY <1>1, <2>2 DEF GrantEdit
    <2> QED
      BY <1>1, <2>3 DEF GrantEdit
  <1>2. ASSUME NEW e \in Calls, ReuseGrant(e)
        PROVE  AuthInv'
    BY <1>2 DEF ReuseGrant
  <1>3. CASE EnableWrites
    <2>1. task \in Confirmed(granted) /\ running
      BY <1>3 DEF EnableWrites
    <2>2. todo' \in Seq(Confirmed(granted))
      BY <1>3, <2>1, ConfirmedSaveIf DEF EnableWrites
    <2> QED
      BY <1>3, <2>1, <2>2 DEF EnableWrites
  <1>4. CASE StageEdit
    <2>1. Moved(task, "active") \in Confirmed(granted)
      BY <1>4, ConfirmedSteps, StatesList DEF StageEdit
    <2>2. todo' \in Seq(Confirmed(granted))
      BY <1>4, <2>1, ConfirmedSaveIf DEF StageEdit
    <2> QED
      BY <1>4, <2>2 DEF StageEdit
  <1>5. CASE PassBudget
    <2>1. DOMAIN edit \subseteq granted
      BY <1>5 DEF PassBudget, WriteAllowed, Confirmed
    <2> QED
      BY <1>5, <2>1 DEF PassBudget
  <1>6. CASE WriteFile
    BY <1>6 DEF WriteFile
  <1>7. CASE AbortEdit
    BY <1>7 DEF AbortEdit
  <1>8. CASE RecordEdit
    <2> DEFINE c == task.changed \union DOMAIN edit
               l == task.lines + Cardinality(DOMAIN edit)
    <2>1. task' \in Tasks
      BY <1>8, EditTypes DEF EditNext, TypeInv, TypeOK
    <2>2. task'.scope = task.scope /\ task'.allowed = task.allowed
      BY <1>8 DEF RecordEdit, TypeInv, TypeOK, Tasks
    <2>3. task' \in Confirmed(granted)
      BY <1>8, <2>1, <2>2 DEF RecordEdit, Confirmed, HasActiveWriteScope
    <2>4. todo' \in Seq(Confirmed(granted))
      BY <1>8, <2>3 DEF RecordEdit
    <2> QED
      BY <1>8, <2>3, <2>4 DEF RecordEdit
  <1>9. ASSUME NEW passed \in BOOLEAN, RefreshReplay(passed)
        PROVE  AuthInv'
    BY <1>9 DEF RefreshReplay
  <1> QED
    BY <1>1, <1>2, <1>3, <1>4, <1>5, <1>6, <1>7, <1>8, <1>9 DEF EditNext

LEMMA FinishAuth ==
    ASSUME TypeInv, AuthInv, FinishNext
    PROVE  AuthInv'
  <1> USE DEF AuthInv, session, durable, At
  <1>1. CASE FinishReproduced
    <2>1. CASE approved
      <3>1. Moved(task, "active") \in Confirmed(granted)
        BY <1>1, <2>1, ConfirmedSteps, StatesList
        DEF FinishReproduced, Finishing
      <3>2. todo' \in Seq(Confirmed(granted))
        BY <1>1, <3>1, ConfirmedSaveIf DEF FinishReproduced
      <3> QED BY <1>1, <2>1, <3>2 DEF FinishReproduced, Finishing
    <2>2. CASE ~approved
      BY <1>1, <2>2 DEF FinishReproduced, Finishing
    <2> QED BY <2>1, <2>2
  <1>2. CASE SaveReproduction
    <2>1. CASE approved
      <3>1. Unverified(task) \in Confirmed(granted)
        BY <1>2, <2>1, ConfirmedSteps DEF SaveReproduction
      <3>2. /\ todo' = <<Unverified(task)>> \/ todo' = <<>>
            /\ pc' \in {"index", "idle"}
        BY <1>2 DEF SaveReproduction
      <3>3. todo' \in Seq(Confirmed(granted))
        <4>1. <<>> \in Seq(Confirmed(granted))
          OBVIOUS
        <4>2. <<Unverified(task)>> \in Seq(Confirmed(granted))
          BY <3>1, ConfirmedSteps
        <4> QED BY <4>1, <4>2, <3>2
      <3> QED BY <1>2, <2>1, <3>2, <3>3 DEF SaveReproduction
    <2>2. CASE ~approved
      <3>1. pc' \in {"index", "idle"}
        BY <1>2 DEF SaveReproduction
      <3> QED BY <1>2, <2>2, <3>1 DEF SaveReproduction
    <2> QED BY <2>1, <2>2
  <1>3. ASSUME NEW kind \in Kinds, IndexReproduction(kind)
        PROVE  AuthInv'
    BY <1>3 DEF IndexReproduction
  <1>4. ASSUME NEW S \in SUBSET Paths \ {{}}, NEW confirmed \in BOOLEAN,
               FinishProposed(S, confirmed)
        PROVE  AuthInv'
    <2>1. /\ Approve(task, S) \in Confirmed(S)
          /\ Close(task) \in Confirmed({})
          /\ task.scope = "unapproved" => task \in Confirmed({})
      BY ConfirmedScope DEF TypeInv, TypeOK, HasActiveWriteScope
    <2>2. CASE confirmed
      BY <1>4, <2>1, <2>2 DEF FinishProposed, Finishing
    <2>3. CASE ~confirmed
      <3>1. todo' \in Seq(Confirmed({}))
        BY <1>4, <2>1, <2>3, ConfirmedSaveIf DEF FinishProposed
      <3>2. todo' = <<>> => task.scope = "unapproved"
        BY <1>4, <2>3 DEF FinishProposed, SaveIf
      <3> QED
        BY <1>4, <2>1, <2>3, <3>1, <3>2 DEF FinishProposed, Finishing
    <2> QED BY <2>2, <2>3
  <1>5. CASE RevokeWrites
    BY <1>5 DEF RevokeWrites
  <1>6. CASE FinishBlocked
    BY <1>6 DEF FinishBlocked, Finishing
  <1>7. CASE FinishDiagnosed
    <2>1. approved => todo' \in Seq(Confirmed(granted)) /\ todo' # <<>>
      BY <1>7, ConfirmedSteps DEF FinishDiagnosed, Finishing
    <2> QED
      BY <1>7, <2>1 DEF FinishDiagnosed, Finishing
  <1>8. ASSUME NEW status \in {"passed", "failed"}, CheckTool(status)
        PROVE  AuthInv'
    BY <1>8 DEF CheckTool
  <1> QED
    BY <1>1, <1>2, <1>3, <1>4, <1>5, <1>6, <1>7, <1>8 DEF FinishNext

\* Changes of a record outside its scope keep it confirmed.
LEMMA ConfirmedKept ==
    ASSUME NEW g, NEW t \in Confirmed(g), NEW u \in Tasks,
           u.scope = t.scope, u.allowed = t.allowed
    PROVE  u \in Confirmed(g)
  BY DEF Confirmed, HasActiveWriteScope

LEMMA VerifyAuth ==
    ASSUME TypeInv, AuthInv, VerifyNext
    PROVE  AuthInv'
  <1> USE DEF AuthInv, session, durable, At
  <1>0. task \in Tasks /\ task' \in Tasks
    BY VerifyTypes DEF TypeInv, TypeOK
  <1>1. CASE BeginVerify
    BY <1>1 DEF BeginVerify, Finishing
  <1>2. CASE SyncChanges
    <2>1. task'.scope = task.scope /\ task'.allowed = task.allowed
      BY <1>0, <1>2 DEF SyncChanges, Tasks
    <2>2. CASE approved
      <3>1. task' \in Confirmed(granted)
        BY <1>0, <1>2, <2>1, <2>2, ConfirmedKept DEF SyncChanges
      <3>2. Moved(task', "active") \in Confirmed(granted)
        BY <3>1, ConfirmedSteps, StatesList
      <3>3. todo' \in {<<>>, <<task'>>, <<Moved(task', "active")>>}
        BY <1>2 DEF SyncChanges
      <3>4. todo' \in Seq(Confirmed(granted))
        <4>0. <<>> \in Seq(Confirmed(granted))
          OBVIOUS
        <4>1. /\ <<task'>> \in Seq(Confirmed(granted))
              /\ <<Moved(task', "active")>> \in Seq(Confirmed(granted))
          BY <3>1, <3>2, ConfirmedSteps
        <4> QED BY <4>0, <4>1, <3>3
      <3> QED BY <1>2, <2>2, <3>1, <3>4 DEF SyncChanges
    <2>3. CASE ~approved
      BY <1>2, <2>3 DEF SyncChanges
    <2> QED BY <2>2, <2>3
  <1>3. CASE EnterVerifying
    <2>1. CASE approved
      <3>1. /\ Moved(task, "active") \in Confirmed(granted)
            /\ Moved(task, "verifying") \in Confirmed(granted)
        BY <1>3, <2>1, ConfirmedSteps, StatesList DEF EnterVerifying
      <3>2. /\ SaveIf(task.state = "ready_to_apply", Moved(task, "active"))
                  \in Seq(Confirmed(granted))
            /\ SaveIf(task.state # "verifying", Moved(task, "verifying"))
                  \in Seq(Confirmed(granted))
        BY <3>1, ConfirmedSaveIf
      <3>3. todo' \in Seq(Confirmed(granted))
        BY <1>3, <3>2 DEF EnterVerifying
      <3> QED BY <1>3, <2>1, <3>3 DEF EnterVerifying
    <2>2. CASE ~approved
      BY <1>3, <2>2 DEF EnterVerifying
    <2> QED BY <2>1, <2>2
  <1>4. ASSUME NEW status \in {"passed", "failed"}, RunCheck(status)
        PROVE  AuthInv'
    <2>1. pc' \in {"replay", "idle"}
      BY <1>4 DEF RunCheck
    <2> QED
      BY <1>4, <2>1 DEF RunCheck
  <1>5. CASE SkipCheck
    BY <1>5 DEF SkipCheck
  <1>6. ASSUME NEW passed \in BOOLEAN, VerifyReplay(passed)
        PROVE  AuthInv'
    <2>1. pc' \in {"capture", "idle"}
      BY <1>6 DEF VerifyReplay
    <2> QED
      BY <1>6, <2>1 DEF VerifyReplay
  <1>7. CASE SkipReplay
    BY <1>7 DEF SkipReplay
  <1>8. CASE CapturePatch
    <2>1. task'.scope = task.scope /\ task'.allowed = task.allowed
      BY <1>0, <1>8 DEF CapturePatch, Tasks
    <2>2. approved => task' \in Confirmed(granted)
      BY <1>0, <1>8, <2>1, ConfirmedKept DEF CapturePatch
    <2>3. pc' \in {"bind", "idle"}
      BY <1>8 DEF CapturePatch
    <2> QED
      BY <1>8, <2>2, <2>3 DEF CapturePatch
  <1>9. CASE BindVerification
    <2>1. task'.scope = task.scope /\ task'.allowed = task.allowed
      BY <1>0, <1>9 DEF BindVerification, Tasks
    <2>2. CASE approved
      <3>1. task' \in Confirmed(granted)
        BY <1>0, <1>9, <2>1, <2>2, ConfirmedKept DEF BindVerification
      <3>2. Moved(task', "ready_to_apply") \in Confirmed(granted)
        BY <3>1, ConfirmedSteps, StatesList
      <3>3. todo' \in Seq(Confirmed(granted))
        BY <1>9, <3>2, ConfirmedSteps DEF BindVerification
      <3> QED BY <1>9, <2>2, <3>1, <3>3 DEF BindVerification
    <2>3. CASE ~approved
      BY <1>9, <2>3 DEF BindVerification
    <2> QED BY <2>2, <2>3
  <1>10. CASE CloseVerify
    BY <1>10 DEF CloseVerify
  <1>11. CASE FailVerify
    BY <1>11 DEF FailVerify
  <1> QED
    BY <1>1, <1>2, <1>3, <1>4, <1>5, <1>6, <1>7, <1>8, <1>9, <1>10, <1>11
    DEF VerifyNext

LEMMA CommandAuth ==
    ASSUME TypeInv, AuthInv, CommandNext
    PROVE  AuthInv'
  <1> USE DEF AuthInv, session, durable, At, Command
  <1>1. CASE Diff
    BY <1>1 DEF Diff
  <1>2. CASE Apply
    BY <1>2 DEF Apply
  <1>3. CASE RollBack
    BY <1>3 DEF RollBack
  <1>4. CASE EndApply
    BY <1>4 DEF EndApply
  <1>5. CASE Discard
    BY <1>5 DEF Discard
  <1>6. CASE CommitDiscard
    BY <1>6 DEF CommitDiscard
  <1>7. CASE Shutdown
    BY <1>7 DEF Shutdown
  <1> QED
    BY <1>1, <1>2, <1>3, <1>4, <1>5, <1>6, <1>7 DEF CommandNext

LEMMA OutsideAuth ==
    ASSUME AuthInv, OutsideEdit
    PROVE  AuthInv'
  BY DEF AuthInv, OutsideEdit, session

LEMMA StutterAuth ==
    ASSUME AuthInv, UNCHANGED vars
    PROVE  AuthInv'
  BY DEF AuthInv, vars, durable, session

LEMMA AuthorityInvariant == Spec => []AuthInv
  <1>1. Init => AuthInv
    BY DEF Init, AuthInv
  <1>2. TypeInv /\ AuthInv /\ [Next]_vars => AuthInv'
    BY StoreAuth, RequestAuth, EditAuth, FinishAuth, VerifyAuth,
       CommandAuth, OutsideAuth, StutterAuth DEF Next
  <1> QED
    BY <1>1, <1>2, TypesInvariant, PTL DEF Spec

\* Write authority exists only inside the agent run whose user confirmed it,
\* and only for the files of the last confirmation, whatever fails or is
\* interrupted in between.
THEOREM AuthorityCorrectness == Spec => []AuthorityIsConfirmed
  <1>1. AuthInv => AuthorityIsConfirmed
    BY DEF AuthInv, AuthorityIsConfirmed, Confirmed
  <1> QED
    BY <1>1, AuthorityInvariant, PTL

\* Only two steps write to the worktree.
LEMMA WorktreeFrame ==
    ASSUME [Next]_vars
    PROVE  WriteFile \/ OutsideEdit \/ worktree' = worktree
  <1> USE DEF durable, session
  <1>1. CASE StoreNext
    BY <1>1 DEF StoreNext, Save, SaveFails, Crash, OpenSession, RestoreSession
  <1>2. CASE RequestNext
    BY <1>2 DEF RequestNext, NewRequest, BeginGoal, SetObjective, Settle
  <1>3. CASE EditNext
    BY <1>3 DEF EditNext, GrantEdit, EnableWrites, ReuseGrant, StageEdit,
       PassBudget, AbortEdit, RecordEdit, RefreshReplay
  <1>4. CASE FinishNext
    BY <1>4 DEF FinishNext, FinishReproduced, SaveReproduction,
       IndexReproduction, FinishProposed, RevokeWrites, FinishBlocked,
       FinishDiagnosed, CheckTool
  <1>5. CASE VerifyNext
    BY <1>5 DEF VerifyNext, BeginVerify, SyncChanges, EnterVerifying,
       RunCheck, SkipCheck, VerifyReplay, SkipReplay, CapturePatch,
       BindVerification, CloseVerify, FailVerify
  <1>6. CASE CommandNext
    BY <1>6 DEF CommandNext, Diff, Apply, RollBack, EndApply, Discard,
       CommitDiscard, Shutdown
  <1>7. CASE UNCHANGED vars
    BY <1>7 DEF vars
  <1> QED
    BY <1>1, <1>2, <1>3, <1>4, <1>5, <1>6, <1>7 DEF Next

\* The edit tool changes only files the user confirmed in this agent run,
\* however requests, refusals, failed saves and restarts are interleaved.
THEOREM WritesAreApproved == Spec => ApprovedWritesOnly
  <1> DEFINE Confined == \A p \in Paths : worktree'[p] # worktree[p]
                            => p \in granted \/ pc \in OutsideEdits
  <1>1. TypeInv /\ AuthInv /\ [Next]_vars => [Confined]_vars
    <2> SUFFICES ASSUME TypeInv, AuthInv, [Next]_vars
                 PROVE  Confined
      OBVIOUS
    <2>1. CASE WriteFile
      <3>1. PICK q \in Left : worktree' = [worktree EXCEPT ![q] = edit[q]]
        BY <2>1 DEF WriteFile
      <3>2. q \in granted
        BY <2>1 DEF WriteFile, At, AuthInv, Left
      <3>3. \A p \in Paths : worktree'[p] # worktree[p] => p = q
        BY <3>1 DEF TypeInv, TypeOK, Contents
      <3> QED BY <3>2, <3>3
    <2>2. CASE OutsideEdit
      BY <2>2 DEF OutsideEdit
    <2>3. CASE worktree' = worktree
      BY <2>3
    <2> QED
      BY <2>1, <2>2, <2>3, WorktreeFrame
  <1> QED
    BY <1>1, TypesInvariant, AuthorityInvariant, PTL DEF Spec, ApprovedWritesOnly

-----------------------------------------------------------------------------
(* What follows is about the content a task certifies, with crashes and    *)
(* cancelled calls anywhere.  It assumes what the run of these properties  *)
(* assumes: that no save fails and that nothing but the edit tool changes  *)
(* the worktree.                                                           *)

Undisturbed == "save" \notin Faults /\ OutsideEdits = {}

-----------------------------------------------------------------------------
(* The inductive invariant.                                                *)

Records(s) == {s[i] : i \in 1..Len(s)}
Queued == Records(todo)

\* What a record that is, or will be, task.json must satisfy: a candidate is
\* bound to the worktree as it is and to its patch, every check in the ledger
\* ran the tests the record names, and a discarded task left its diff.
Good(t) ==
    /\ Verified(t) =>
          /\ t.verification.hash = Hash /\ Registered = ita
          /\ patchFile = worktree
          /\ t.changed = ChangedPaths(worktree)
          /\ Certifies(t.verification.facts, worktree)
    /\ \A c \in ledger.checks : c.tests = t.changed \cap TestPaths
    /\ t.state = "discarded" /\ ChangedPaths(worktree) # {}
          => patchFile = worktree

RecordsInv ==
    /\ Len(todo) <= 2
    /\ Good(disk) /\ \A t \in Queued : Good(t)
    /\ todo = <<>> => \/ task = disk
                      \/ /\ pc \in {"bind", "discard"}
                         /\ task = [disk EXCEPT !.patch = TRUE]
    /\ pc \in {"bind", "discard"} => todo = <<>>
    /\ ~up => pc = "idle" /\ todo = <<>>

\* What a handler relies on between its steps.
StepsInv ==
    /\ pc = "budget" => /\ todo = <<>> => task.state = "active"
                        /\ \A t \in Queued : t.state = "active"
    /\ pc = "write" => task.state = "active"
    /\ pc = "index" => /\ todo = <<>> => task.verification = None
                       /\ \A t \in Queued : t.verification = None
    /\ pc = "discard" => /\ task.state \notin Terminal
                         /\ ChangedPaths(worktree) # {}
                               => patchFile = worktree

Synced(t) == t.state \notin Terminal /\ t.changed = ChangedPaths(worktree)

\* The verification in progress is about the worktree as it is.
TestedInv ==
    /\ pc \in {"replay", "capture", "bind"} \/ tested = {}
    /\ \A f \in tested : f.content = worktree
    /\ pc \in {"replay", "capture", "bind"} =>
          ChangedPaths(worktree) \cap TestPaths
             \subseteq UNION {f.tests : f \in tested}
    /\ pc \in {"capture", "bind"} /\ ledger.reproduction # "none"
          => \E f \in tested : f.by = "replay"
    /\ pc = "bind" => patchFile = worktree /\ Registered = ita
    /\ pc \in {"enter", "check", "replay", "capture", "bind"} =>
          Synced(task) /\ \A t \in Queued : Synced(t)

\* A closed task stays closed, and while the target holds the patch no
\* record in the queue certifies a candidate that task.json does not.
ClosedInv ==
    /\ disk.state \in Terminal => \A t \in Queued : t.state = disk.state
    /\ disk.state \notin Terminal =>
          \A t \in Queued :
             t.state \in Terminal =>
                /\ Len(todo) = 1
                /\ t.state = "applied" => /\ Verified(disk)
                                          /\ applied = worktree
                                          /\ applied # None
    /\ pc = "bind" => applied = None
    /\ applied # None =>
          /\ \A t \in Queued : Verified(t) => Verified(disk)
          /\ todo # <<>> /\ ~Verified(Head(todo))
                => \A t \in Queued : ~Verified(t)

ContentInv == RecordsInv /\ StepsInv /\ TestedInv /\ ClosedInv

-----------------------------------------------------------------------------
(* Records and queues.                                                     *)

LEMMA RecordsOf ==
    /\ Records(<<>>) = {}
    /\ \A x : Records(<<x>>) = {x}
    /\ \A x, y : Records(<<x, y>>) = {x, y}
  <1>1. Records(<<>>) = {}
    BY DEF Records
  <1>2. ASSUME NEW x PROVE Records(<<x>>) = {x}
    <2>1. Len(<<x>>) = 1 /\ <<x>>[1] = x /\ 1..1 = {1}
      OBVIOUS
    <2> QED BY <2>1 DEF Records
  <1>3. ASSUME NEW x, NEW y PROVE Records(<<x, y>>) = {x, y}
    <2>1. /\ Len(<<x, y>>) = 2 /\ <<x, y>>[1] = x /\ <<x, y>>[2] = y
          /\ 1..2 = {1, 2}
      OBVIOUS
    <2> QED BY <2>1 DEF Records
  <1> QED BY <1>1, <1>2, <1>3

LEMMA TwoSaves ==
    ASSUME NEW p \in BOOLEAN, NEW q \in BOOLEAN, NEW x, NEW y
    PROVE  SaveIf(p, x) \o SaveIf(q, y)
              = IF p THEN IF q THEN <<x, y>> ELSE <<x>>
                     ELSE IF q THEN <<y>> ELSE <<>>
  <1> DEFINE S == {x, y}
  <1>0. x \in S /\ y \in S
    OBVIOUS
  <1> HIDE DEF S
  <1>s. \A z \in S : <<z>> \in Seq(S)
    OBVIOUS
  <1>e. <<>> \in Seq(S)
    OBVIOUS
  <1>1. <<x>> \o <<>> = <<x>> /\ <<>> \o <<y>> = <<y>> /\ <<>> \o <<>> = <<>>
    BY <1>0, <1>s, <1>e, ConcatEmptySeq
  <1>2. <<x>> \o <<y>> = <<x, y>>
    <2>1. <<x, y>> \in Seq(S)
      BY <1>0
    <2>2. /\ <<x>> \o <<y>> \in Seq(S)
          /\ Len(<<x>> \o <<y>>) = Len(<<x>>) + Len(<<y>>)
          /\ \A i \in 1..Len(<<x>>) + Len(<<y>>) :
                (<<x>> \o <<y>>)[i] = IF i <= Len(<<x>>) THEN <<x>>[i]
                                     ELSE <<y>>[i - Len(<<x>>)]
      BY <1>0, <1>s, ConcatProperties
    <2>3. /\ Len(<<x>>) = 1 /\ Len(<<y>>) = 1 /\ Len(<<x, y>>) = 2
          /\ <<x>>[1] = x /\ <<y>>[1] = y
          /\ <<x, y>>[1] = x /\ <<x, y>>[2] = y
      OBVIOUS
    <2>4. \A i \in 1..2 : (<<x>> \o <<y>>)[i] = <<x, y>>[i]
      <3>1. 1..2 = {1, 2} /\ 2 - 1 = 1 /\ 1 + 1 = 2 /\ 1 <= 1 /\ ~(2 <= 1)
        OBVIOUS
      <3>2. (<<x>> \o <<y>>)[1] = x
        BY <2>2, <2>3, <3>1
      <3>3. (<<x>> \o <<y>>)[2] = y
        BY <2>2, <2>3, <3>1
      <3> QED BY <2>3, <3>1, <3>2, <3>3
    <2>5. Len(<<x>> \o <<y>>) = 2
      BY <2>2, <2>3
    <2> DEFINE st == <<x>> \o <<y>>
               xy == <<x, y>>
    <2>6. st \in Seq(S) /\ xy \in Seq(S) /\ Len(st) = Len(xy)
          /\ \A i \in 1..Len(st) : st[i] = xy[i]
      BY <2>1, <2>2, <2>3, <2>4, <2>5
    <2> HIDE DEF st, xy
    <2>7. st = xy
      BY <2>6, SeqEqual
    <2> QED BY <2>7 DEF st, xy
  <1> QED BY <1>1, <1>2 DEF SaveIf

\* A queue of at most two records, and what its head is.
LEMMA QueueOfTwo ==
    ASSUME NEW p \in BOOLEAN, NEW q \in BOOLEAN, NEW x, NEW y
    PROVE  /\ Len(SaveIf(p, x) \o SaveIf(q, y)) <= 2
           /\ \A z \in Records(SaveIf(p, x) \o SaveIf(q, y)) :
                 (p /\ z = x) \/ (q /\ z = y)
           /\ SaveIf(p, x) \o SaveIf(q, y) # <<>>
                 => Head(SaveIf(p, x) \o SaveIf(q, y)) = IF p THEN x ELSE y
  <1> DEFINE s == SaveIf(p, x) \o SaveIf(q, y)
  <1> SUFFICES /\ Len(s) <= 2
               /\ \A z \in Records(s) : (p /\ z = x) \/ (q /\ z = y)
               /\ s # <<>> => Head(s) = IF p THEN x ELSE y
    OBVIOUS
  <1>1. /\ Len(<<>>) = 0 /\ Len(<<x>>) = 1 /\ Len(<<y>>) = 1
        /\ Len(<<x, y>>) = 2
        /\ Head(<<x>>) = x /\ Head(<<y>>) = y /\ Head(<<x, y>>) = x
        /\ <<x>> # <<>> /\ <<y>> # <<>> /\ <<x, y>> # <<>>
    OBVIOUS
  <1>2. s = IF p THEN IF q THEN <<x, y>> ELSE <<x>>
                 ELSE IF q THEN <<y>> ELSE <<>>
    BY TwoSaves
  <1> HIDE DEF s
  <1>3. CASE p /\ q
    BY <1>1, <1>2, <1>3, RecordsOf
  <1>4. CASE p /\ ~q
    BY <1>1, <1>2, <1>4, RecordsOf
  <1>5. CASE ~p /\ q
    BY <1>1, <1>2, <1>5, RecordsOf
  <1>6. CASE ~p /\ ~q
    BY <1>1, <1>2, <1>6, RecordsOf
  <1> QED BY <1>3, <1>4, <1>5, <1>6

LEMMA QueueOfOne ==
    ASSUME NEW p \in BOOLEAN, NEW x
    PROVE  \A z \in Records(SaveIf(p, x)) : p /\ z = x
  BY RecordsOf DEF SaveIf

LEMMA QueueHead ==
    ASSUME NEW s \in Seq(Tasks), s # <<>>
    PROVE  /\ Head(s) \in Records(s)
           /\ Records(Tail(s)) \subseteq Records(s)
           /\ Len(s) \in Nat /\ Len(Tail(s)) = Len(s) - 1
           /\ Len(s) = 1 => Tail(s) = <<>>
           /\ Len(s) <= 2 /\ Tail(s) # <<>>
                => Records(Tail(s)) = {Head(Tail(s))}
  <1>1. Len(s) \in Nat \ {0} /\ Head(s) = s[1] /\ Tail(s) \in Seq(Tasks)
        /\ Len(Tail(s)) = Len(s) - 1
    BY HeadTailProperties, LenProperties, EmptySeq
  <1>2. \A i \in 1..Len(Tail(s)) : Tail(s)[i] = s[i + 1] /\ i + 1 \in 1..Len(s)
    BY <1>1
  <1>3. Head(s) \in Records(s) /\ Records(Tail(s)) \subseteq Records(s)
    BY <1>1, <1>2 DEF Records
  <1>4. Len(s) = 1 => Tail(s) = <<>>
    <2>1. Tail(s) # <<>> => Len(Tail(s)) # 0
      BY <1>1, EmptySeq
    <2> QED BY <1>1, <2>1
  <1>5. ASSUME Len(s) <= 2, Tail(s) # <<>>
        PROVE  Records(Tail(s)) = {Head(Tail(s))}
    <2>1. Len(Tail(s)) = 1 /\ Head(Tail(s)) = Tail(s)[1]
      BY <1>1, <1>5
    <2>2. 1..1 = {1}
      OBVIOUS
    <2> QED BY <2>1, <2>2 DEF Records
  <1> QED BY <1>1, <1>3, <1>4, <1>5

-----------------------------------------------------------------------------
(* What a handler makes of a record keeps it as it was certified.          *)

\* A record x made from t: no step but BindVerification certifies, and no
\* step but the end of a task closes one.
Heir(x, t) ==
    /\ x.changed = t.changed
    /\ Verified(x) => Verified(t) /\ x.verification = t.verification
    /\ t.state \in Terminal \/ x.state \in Terminal => x.state = t.state

LEMMA HeirSelf ==
    ASSUME NEW t PROVE Heir(t, t)
  BY DEF Heir

LEMMA HeirTransitive ==
    ASSUME NEW t, NEW x, NEW y, Heir(x, t), Heir(y, x)
    PROVE  Heir(y, t)
  BY DEF Heir

LEMMA HeirClose ==
    ASSUME NEW t \in Tasks
    PROVE  Heir(Close(t), t) /\ (Verified(Close(t)) <=> Verified(t))
  <1>1. /\ Close(t).changed = t.changed /\ Close(t).state = t.state
        /\ Close(t).verification = t.verification
    BY DEF Close, Tasks
  <1> QED BY <1>1 DEF Heir, Verified

LEMMA HeirUnverified ==
    ASSUME NEW t \in Tasks
    PROVE  /\ Heir(Unverified(t), t) /\ ~Verified(Unverified(t))
           /\ Unverified(t).verification = None
           /\ Unverified(t).state = t.state
  <1>1. /\ Unverified(t).changed = t.changed /\ Unverified(t).state = t.state
        /\ Unverified(t).verification = None
    BY DEF Unverified, Tasks
  <1> QED BY <1>1 DEF Heir, Verified

LEMMA HeirApprove ==
    ASSUME NEW t \in Tasks, NEW S
    PROVE  Heir(Approve(t, S), t)
  <1>1. /\ Approve(t, S).changed = t.changed /\ Approve(t, S).state = t.state
        /\ Approve(t, S).verification = t.verification
    BY DEF Approve, Tasks
  <1> QED BY <1>1 DEF Heir, Verified

LEMMA HeirMoved ==
    ASSUME NEW t \in Tasks, t.state \notin Terminal,
           NEW state \in {"active", "verifying", "blocked"}
    PROVE  /\ Heir(Moved(t, state), t) /\ ~Verified(Moved(t, state))
           /\ Moved(t, state).state = state
  <1>1. Moved(t, state).changed = t.changed /\ Moved(t, state).state = state
    BY DEF Moved, Tasks
  <1> QED BY <1>1 DEF Heir, Verified, Terminal

LEMMA GoodHeir ==
    ASSUME NEW t, NEW x, Good(t)', Heir(x, t)
    PROVE  Good(x)'
  BY DEF Good, Heir, Verified, Terminal

\* A record stays good while the worktree, its registration and its patch
\* stay as they are, and the ledger gains no check and no reproduction.
LEMMA GoodKept ==
    ASSUME NEW t, Good(t), UNCHANGED <<worktree, ita, patchFile>>,
           ledger'.checks \subseteq ledger.checks,
           ledger'.reproduction = ledger.reproduction
              \/ ledger'.reproduction = "none"
    PROVE  Good(t)'
  <1>1. Hash' = Hash /\ Registered' = Registered
    BY DEF Hash, Registered
  <1>2. ASSUME NEW f, NEW c, Certifies(f, c) PROVE Certifies(f, c)'
    BY <1>2 DEF Certifies
  <1> QED BY <1>1, <1>2 DEF Good

-----------------------------------------------------------------------------
(* A step that queues heirs of task.json, and the step that saves one.      *)

Loaded == {"budget", "write", "index", "discard", "enter", "check", "replay",
           "capture", "bind"}

LEMMA QuietSteps ==
    ASSUME pc' \notin Loaded
    PROVE  StepsInv'
  BY DEF Loaded, StepsInv

LEMMA QuietTested ==
    ASSUME pc' \notin Loaded, tested' = {}
    PROVE  TestedInv'
  BY DEF Loaded, TestedInv

\* The records invariant after a step that leaves task.json as it is and
\* queues heirs of it, the certified ones first.
LEMMA HeirsQueued ==
    ASSUME TypeInv, RecordsInv, ClosedInv,
           up', todo = <<>>, task = disk,
           UNCHANGED <<task, disk, worktree, applied>>,
           Good(disk)', pc' \notin {"bind", "discard"},
           NEW p \in BOOLEAN, NEW q \in BOOLEAN, NEW x, NEW y,
           todo' = SaveIf(p, x) \o SaveIf(q, y),
           p => Heir(x, disk), q => Heir(y, disk),
           p /\ q /\ Verified(y) => Verified(x)
    PROVE  RecordsInv' /\ ClosedInv'
  <1>1. /\ Len(todo') <= 2
        /\ \A z \in Records(todo') : (p /\ z = x) \/ (q /\ z = y)
        /\ todo' # <<>> => Head(todo') = IF p THEN x ELSE y
    <2> DEFINE s == SaveIf(p, x) \o SaveIf(q, y)
    <2>1. /\ Len(s) <= 2
          /\ \A z \in Records(s) : (p /\ z = x) \/ (q /\ z = y)
          /\ s # <<>> => Head(s) = IF p THEN x ELSE y
      BY QueueOfTwo
    <2>2. todo' = s
      OBVIOUS
    <2> QED BY <2>1, <2>2
  <1>0. Queued' = Records(todo')
    BY DEF Queued, Records
  <1>2. \A z \in Queued' : Heir(z, disk)
    BY <1>0, <1>1
  <1>3. \A z \in Queued' : Good(z)'
    BY <1>2, GoodHeir
  <1>4. RecordsInv'
    <2>1. Good(disk)' /\ (\A z \in Queued : Good(z))'
      BY <1>3
    <2>2. task' = disk'
      OBVIOUS
    <2> QED BY <1>1, <2>1, <2>2 DEF RecordsInv
  <1>5. applied' # None =>
          /\ \A t \in Queued' : Verified(t) => Verified(disk')
          /\ todo' # <<>> /\ ~Verified(Head(todo'))
                => \A t \in Queued' : ~Verified(t)
    BY <1>0, <1>1, <1>2 DEF Heir
  <1>6. /\ disk'.state \in Terminal =>
             \A t \in Queued' : t.state = disk'.state
        /\ disk'.state \notin Terminal =>
             \A t \in Queued' : t.state \notin Terminal
    BY <1>2 DEF Heir
  <1>7. ClosedInv'
    BY <1>5, <1>6 DEF ClosedInv
  <1> QED BY <1>4, <1>7

LEMMA QuietTwo ==
    ASSUME TypeInv, ContentInv,
           up', todo = <<>>, task = disk,
           UNCHANGED <<task, disk, worktree, applied>>,
           Good(disk)', pc' \notin Loaded, tested' = {},
           NEW p \in BOOLEAN, NEW q \in BOOLEAN, NEW x, NEW y,
           todo' = SaveIf(p, x) \o SaveIf(q, y),
           p => Heir(x, disk), q => Heir(y, disk),
           p /\ q /\ Verified(y) => Verified(x)
    PROVE  ContentInv'
  <1>1. pc' \notin {"bind", "discard"}
    BY DEF Loaded
  <1>2. RecordsInv' /\ ClosedInv'
    BY <1>1, HeirsQueued DEF ContentInv
  <1> QED BY <1>2, QuietSteps, QuietTested DEF ContentInv

LEMMA OneOfTwo ==
    ASSUME NEW p \in BOOLEAN, NEW x
    PROVE  SaveIf(p, x) = SaveIf(p, x) \o SaveIf(FALSE, x)
  BY TwoSaves DEF SaveIf

LEMMA QuietOne ==
    ASSUME TypeInv, ContentInv,
           up', todo = <<>>, task = disk,
           UNCHANGED <<task, disk, worktree, applied>>,
           Good(disk)', pc' \notin Loaded, tested' = {},
           NEW p \in BOOLEAN, NEW x,
           todo' = SaveIf(p, x),
           p => Heir(x, disk)
    PROVE  ContentInv'
  <1>1. todo' = SaveIf(p, x) \o SaveIf(FALSE, x)
    BY OneOfTwo
  <1>2. FALSE => Heir(x, disk)
    OBVIOUS
  <1> QED BY <1>1, <1>2, QuietTwo

LEMMA QuietNone ==
    ASSUME TypeInv, ContentInv,
           up', todo = <<>>, task = disk,
           UNCHANGED <<task, disk, worktree, applied>>,
           Good(disk)', pc' \notin Loaded, tested' = {},
           todo' = <<>>
    PROVE  ContentInv'
  <1>1. todo' = SaveIf(FALSE, disk)
    BY DEF SaveIf
  <1>2. FALSE => Heir(disk, disk)
    OBVIOUS
  <1> QED BY <1>1, <1>2, QuietOne

\* Where a handler takes its next step, memory is task.json.
LEMMA AtRest ==
    ASSUME ContentInv, todo = <<>>, pc \notin {"bind", "discard"}
    PROVE  task = disk /\ Good(disk)
  BY DEF ContentInv, RecordsInv

LEMMA NothingTested ==
    ASSUME ContentInv, pc \notin {"replay", "capture", "bind"}
    PROVE  tested = {}
  BY DEF ContentInv, TestedInv

LEMMA SaveContent ==
    ASSUME TypeInv, ContentInv, Save
    PROVE  ContentInv'
  <1> USE DEF Save, ContentInv
  <1>0. /\ todo \in Seq(Tasks) /\ todo # <<>> /\ todo' = Tail(todo)
        /\ task' = Head(todo) /\ disk' = Head(todo)
        /\ pc' = pc /\ up' = up /\ applied' = applied /\ ledger' = ledger
        /\ worktree' = worktree /\ ita' = ita /\ patchFile' = patchFile
        /\ tested' = tested
    BY DEF TypeInv, TypeOK, session
  <1>1. /\ Head(todo) \in Queued /\ Queued' \subseteq Queued
        /\ Len(todo) \in Nat /\ Len(todo') = Len(todo) - 1
        /\ Len(todo) = 1 => Queued' = {}
        /\ Len(todo) <= 2 /\ todo' # <<>> => Queued' = {Head(todo')}
    <2>1. Queued' = Records(todo')
      BY DEF Queued, Records
    <2> QED BY <1>0, <2>1, QueueHead, RecordsOf DEF Queued
  <1>2. Good(disk)' /\ (\A t \in Queued : Good(t))'
    <2>1. \A t \in Queued : Good(t)'
      BY <1>0, GoodKept DEF RecordsInv
    <2> QED BY <1>0, <1>1, <2>1
  <1>3. pc \notin {"bind", "discard"} /\ up
    BY <1>0 DEF RecordsInv
  <1>4. RecordsInv'
    BY <1>0, <1>1, <1>2, <1>3 DEF RecordsInv
  <1>5. StepsInv'
    BY <1>0, <1>1, <1>3 DEF StepsInv, TypeInv, BudgetInv
  <1>6. TestedInv'
    BY <1>0, <1>1, <1>3 DEF TestedInv, Synced
  <1>7. ClosedInv'
    <2>1. CASE disk.state \in Terminal
      BY <1>0, <1>1, <1>3, <2>1 DEF ClosedInv, Verified, Terminal
    <2>2. CASE disk.state \notin Terminal
      BY <1>0, <1>1, <1>3, <2>2 DEF ClosedInv, RecordsInv
    <2> QED BY <2>1, <2>2
  <1> QED BY <1>4, <1>5, <1>6, <1>7

\* The end of a process: memory is task.json again, the queue is lost.
LEMMA EndContent ==
    ASSUME ContentInv, UNCHANGED durable, up' = FALSE, pc' = "idle",
           todo' = <<>>, task' = disk, tested' = {}
    PROVE  ContentInv'
  <1>1. pc' \notin Loaded /\ pc' # "bind"
    BY DEF Loaded
  <1>2. Good(disk)'
    BY GoodKept DEF ContentInv, RecordsInv, durable
  <1>3. Queued' = {} /\ Len(todo') <= 2 /\ task' = disk'
    BY DEF Queued, Records, durable
  <1>4. RecordsInv' /\ ClosedInv'
    BY <1>1, <1>2, <1>3 DEF RecordsInv, ClosedInv
  <1> QED
    BY <1>1, <1>4, QuietSteps, QuietTested DEF ContentInv

LEMMA StoreContent ==
    ASSUME TypeInv, ContentInv, StoreNext, Undisturbed
    PROVE  ContentInv'
  <1> USE DEF session, durable
  <1>1. CASE Save
    BY <1>1, SaveContent
  <1>2. CASE SaveFails
    BY <1>2 DEF SaveFails, Undisturbed
  <1>3. CASE Crash
    BY <1>3, EndContent DEF Crash
  <1>4. CASE OpenSession
    <2>1. todo = <<>> /\ pc = "idle" /\ ~up
      BY <1>4 DEF OpenSession, ContentInv, RecordsInv
    <2> DEFINE p == disk.state \in {"awaiting_approval", "created",
                                    "blocked", "paused"}
               x == Moved(disk, "active")
    <2>2. p \in BOOLEAN /\ todo' = SaveIf(p, x)
      BY <1>4 DEF OpenSession
    <2>3. Heir(x, disk)
      BY <1>4, HeirMoved DEF OpenSession, TypeInv, TypeOK
    <2>4. task = disk /\ Good(disk) /\ tested = {}
      BY <2>1, AtRest, NothingTested
    <2>5. Good(disk)'
      BY <1>4, <2>4, GoodKept DEF OpenSession
    <2>6. /\ up' /\ pc' \notin Loaded /\ tested' = {}
          /\ UNCHANGED <<task, disk, worktree, applied>>
      BY <1>4, <2>4 DEF OpenSession, Loaded
    <2> HIDE DEF p, x
    <2> QED
      BY <2>1, <2>2, <2>3, <2>4, <2>5, <2>6, QuietOne
  <1>5. CASE RestoreSession
    <2> DEFINE sql == ledger.reproduction = "sql"
               t == IF sql THEN Unverified(task) ELSE task
    <2>1. up /\ todo = <<>> /\ pc = "restore"
      BY <1>5 DEF RestoreSession, At
    <2>2. task = disk /\ Good(disk) /\ tested = {} /\ task \in Tasks
      BY <2>1, AtRest, NothingTested DEF TypeInv, TypeOK
    <2>3. ledger \in Ledgers
      BY DEF TypeInv, TypeOK
    <2>4. /\ ledger'.checks = ledger.checks
          /\ ledger'.reproduction = ledger.reproduction
                \/ ledger'.reproduction = "none"
      BY <1>5, <2>3 DEF RestoreSession, Ledgers
    <2>5. /\ up' /\ pc' \notin Loaded /\ tested' = {}
          /\ UNCHANGED <<task, disk, worktree, applied>>
          /\ UNCHANGED <<ita, patchFile>>
      BY <1>5, <2>1, <2>2 DEF RestoreSession, Loaded
    <2>6. Good(disk)'
      BY <2>2, <2>4, <2>5, GoodKept
    <2>7. t \in Tasks /\ Heir(t, disk)
      BY <2>2, HeirUnverified, HeirSelf, UnverifiedType
    <2>8. Heir(Close(t), disk) /\ (Verified(Close(t)) <=> Verified(t))
      BY <2>7, HeirClose, HeirTransitive
    <2>9. todo' = SaveIf(sql, t) \o SaveIf(HasActiveWriteScope(t), Close(t))
      BY <1>5 DEF RestoreSession, Release
    <2>10. sql \in BOOLEAN /\ HasActiveWriteScope(t) \in BOOLEAN
      BY DEF HasActiveWriteScope
    <2> HIDE DEF t, sql
    <2> QED
      BY <2>1, <2>2, <2>5, <2>6, <2>7, <2>8, <2>9, <2>10, QuietTwo
  <1> QED
    BY <1>1, <1>2, <1>3, <1>4, <1>5 DEF StoreNext

LEMMA RequestContent ==
    ASSUME TypeInv, ContentInv, RequestNext
    PROVE  ContentInv'
  <1> USE DEF session, durable
  <1>1. ASSUME NEW kind \in {"repair", "publish", "other"}, NewRequest(kind)
        PROVE  ContentInv'
    <2> DEFINE t == IF HasActiveWriteScope(task) THEN Close(task) ELSE task
               u == Moved(Unverified(t), "active")
               p == HasActiveWriteScope(task)
               q == t.state = "ready_to_apply" /\ kind # "publish"
    <2>1. up /\ todo = <<>> /\ pc = "idle"
      BY <1>1 DEF NewRequest, At
    <2>2. task = disk /\ Good(disk) /\ tested = {} /\ task \in Tasks
      BY <2>1, AtRest, NothingTested DEF TypeInv, TypeOK
    <2>3. /\ up' /\ pc' \notin Loaded /\ tested' = {}
          /\ UNCHANGED <<task, disk, worktree, applied>>
      BY <1>1, <2>1, <2>2 DEF NewRequest, Loaded
    <2>4. Good(disk)'
      BY <1>1, <2>2, GoodKept DEF NewRequest
    <2>5. Heir(Close(task), disk)
      BY <2>2, HeirClose
    <2>6. t \in Tasks /\ Heir(t, disk) /\ Unverified(t) \in Tasks
      BY <2>2, <2>5, HeirSelf, CloseType, UnverifiedType
    <2>7. q => Heir(u, disk) /\ ~Verified(u)
      <3>1. /\ Heir(Unverified(t), t) /\ Unverified(t).state = t.state
        BY <2>6, HeirUnverified
      <3>2. q => Heir(u, Unverified(t)) /\ ~Verified(u)
        BY <2>6, <3>1, HeirMoved DEF Terminal
      <3> HIDE DEF t, u, q
      <3> QED BY <2>6, <3>1, <3>2, HeirTransitive
    <2>8. todo' = SaveIf(p, Close(task)) \o SaveIf(q, u)
      BY <1>1 DEF NewRequest, Release
    <2>9. p \in BOOLEAN /\ q \in BOOLEAN
      BY DEF HasActiveWriteScope
    <2> HIDE DEF t, u, p, q
    <2> QED
      BY <2>1, <2>2, <2>3, <2>4, <2>5, <2>7, <2>8, <2>9, QuietTwo
  <1>2. CASE BeginGoal
    <2> DEFINE u == Unverified(task)
               m == Moved(u, "active")
               p == task.verification # None
               q == task.state = "verifying"
    <2>1. up /\ todo = <<>> /\ pc = "goal"
      BY <1>2 DEF BeginGoal, At
    <2>2. task = disk /\ Good(disk) /\ tested = {} /\ task \in Tasks
      BY <2>1, AtRest, NothingTested DEF TypeInv, TypeOK
    <2>3. /\ up' /\ pc' \notin Loaded /\ tested' = {}
          /\ UNCHANGED <<task, disk, worktree, applied, ita, patchFile>>
          /\ ledger'.checks = {} /\ ledger'.reproduction = "none"
      BY <1>2, <2>1, <2>2 DEF BeginGoal, Loaded, NewLedger
    <2>4. Good(disk)'
      BY <2>2, <2>3, GoodKept
    <2>5. Heir(u, disk) /\ ~Verified(u) /\ u \in Tasks /\ u.state = task.state
      BY <2>2, HeirUnverified, UnverifiedType
    <2>6. q => Heir(m, disk) /\ ~Verified(m)
      <3>1. q => Heir(m, u) /\ ~Verified(m)
        BY <2>5, HeirMoved DEF Terminal
      <3> QED BY <2>5, <3>1, HeirTransitive
    <2>7. todo' = SaveIf(p, u) \o SaveIf(q, m)
      BY <1>2 DEF BeginGoal
    <2>8. p \in BOOLEAN /\ q \in BOOLEAN
      OBVIOUS
    <2> HIDE DEF u, m, p, q
    <2> QED
      BY <2>1, <2>2, <2>3, <2>4, <2>5, <2>6, <2>7, <2>8, QuietTwo
  <1>3. ASSUME NEW changed \in BOOLEAN, SetObjective(changed)
        PROVE  ContentInv'
    <2>1. up /\ todo = <<>> /\ pc = "objective"
      BY <1>3 DEF SetObjective, At
    <2>2. task = disk /\ Good(disk) /\ tested = {}
      BY <2>1, AtRest, NothingTested
    <2>3. /\ up' /\ pc' \notin Loaded /\ tested' = {}
          /\ UNCHANGED <<task, disk, worktree, applied>>
          /\ todo' = SaveIf(changed, disk)
      BY <1>3, <2>1, <2>2 DEF SetObjective, Loaded
    <2>4. Good(disk)' /\ Heir(disk, disk)
      BY <1>3, <2>2, GoodKept, HeirSelf DEF SetObjective
    <2> QED
      BY <2>1, <2>2, <2>3, <2>4, QuietOne
  <1>4. CASE Settle
    <2>1. up /\ todo = <<>> /\ pc = "idle"
      BY <1>4 DEF Settle, At
    <2>2. task = disk /\ Good(disk) /\ tested = {} /\ task \in Tasks
      BY <2>1, AtRest, NothingTested DEF TypeInv, TypeOK
    <2>3. /\ up' /\ pc' \notin Loaded /\ tested' = {}
          /\ UNCHANGED <<task, disk, worktree, applied>>
      BY <1>4, <2>1, <2>2 DEF Settle, Loaded
    <2>4. Good(disk)' /\ Heir(Close(task), disk)
      BY <1>4, <2>2, GoodKept, HeirClose DEF Settle
    <2>5. /\ todo' = SaveIf(HasActiveWriteScope(task), Close(task))
          /\ HasActiveWriteScope(task) \in BOOLEAN
      BY <1>4 DEF Settle, Release, HasActiveWriteScope
    <2> QED
      BY <2>1, <2>2, <2>3, <2>4, <2>5, QuietOne
  <1> QED
    BY <1>1, <1>2, <1>3, <1>4 DEF RequestNext

LEMMA OneSave ==
    /\ \A x : <<x>> = SaveIf(TRUE, x)
    /\ <<>> = SaveIf(FALSE, NoEdit)
  BY DEF SaveIf

LEMMA StageContent ==
    ASSUME TypeInv, ContentInv, StageEdit
    PROVE  ContentInv'
  <1> DEFINE p == task.state # "active"
             x == Moved(task, "active")
  <1>1. up /\ todo = <<>> /\ pc = "stage"
    BY DEF StageEdit, At
  <1>2. task = disk /\ Good(disk) /\ tested = {} /\ task \in Tasks
    BY <1>1, AtRest, NothingTested DEF TypeInv, TypeOK
  <1>3. /\ up' /\ pc' = "budget" /\ tested' = {}
        /\ UNCHANGED <<task, disk, worktree, applied>>
        /\ todo' = SaveIf(p, x) /\ p \in BOOLEAN
    BY <1>1, <1>2 DEF StageEdit, durable, session
  <1>4. Good(disk)'
    BY <1>2, GoodKept DEF StageEdit, durable
  <1>5. Heir(x, disk) /\ x.state = "active"
    BY <1>2, HeirMoved DEF StageEdit, Terminal
  <1>6. RecordsInv' /\ ClosedInv'
    <2>1. todo' = SaveIf(p, x) \o SaveIf(FALSE, x)
      BY <1>3, OneOfTwo
    <2>2. (FALSE => Heir(x, disk)) /\ pc' \notin {"bind", "discard"}
      BY <1>3
    <2> HIDE DEF p, x
    <2> QED
      BY <1>1, <1>2, <1>3, <1>4, <1>5, <2>1, <2>2, HeirsQueued
      DEF ContentInv
  <1>7. StepsInv'
    <2>1. Queued' = Records(todo')
      BY DEF Queued, Records
    <2>2. \A z \in Queued' : z.state = "active"
      <3>1. \A z \in Records(SaveIf(p, x)) : p /\ z = x
        BY <1>3, QueueOfOne
      <3> QED BY <1>3, <1>5, <2>1, <3>1
    <2>3. todo' = <<>> => task'.state = "active"
      BY <1>3 DEF SaveIf
    <2> QED BY <1>3, <2>2, <2>3 DEF StepsInv
  <1>8. TestedInv'
    BY <1>3 DEF TestedInv
  <1> QED BY <1>6, <1>7, <1>8 DEF ContentInv

\* A write finds the candidate withdrawn, in memory and in task.json.
LEMMA WriteContent ==
    ASSUME TypeInv, ContentInv, WriteFile
    PROVE  ContentInv'
  <1>1. /\ up /\ todo = <<>> /\ pc = "write"
        /\ UNCHANGED <<up, pc, todo, task, disk, ledger, tested>>
    BY DEF WriteFile, At, session
  <1>2. task = disk /\ tested = {} /\ disk.state = "active" /\ Good(disk)
    BY <1>1, AtRest, NothingTested DEF ContentInv, StepsInv
  <1>3. Good(disk)'
    BY <1>1, <1>2 DEF Good, Verified
  <1>4. Queued' = {} /\ Len(todo') <= 2
    BY <1>1, RecordsOf DEF Queued, Records
  <1>5. RecordsInv'
    BY <1>1, <1>2, <1>3, <1>4 DEF RecordsInv
  <1>6. StepsInv' /\ TestedInv' /\ ClosedInv'
    BY <1>1, <1>2, <1>4 DEF StepsInv, TestedInv, ClosedInv
  <1> QED BY <1>5, <1>6 DEF ContentInv

LEMMA RecordContent ==
    ASSUME TypeInv, ContentInv, RecordEdit
    PROVE  ContentInv'
  <1>1. /\ up /\ todo = <<>> /\ pc = "write"
        /\ UNCHANGED <<up, disk, worktree, applied, tested>>
        /\ todo' = <<task'>> /\ pc' = "refresh"
    BY DEF RecordEdit, At, session
  <1>2. task = disk /\ tested = {} /\ disk.state = "active" /\ Good(disk)
    BY <1>1, AtRest, NothingTested DEF ContentInv, StepsInv
  <1>3. ledger'.checks = {}
    BY DEF RecordEdit, TypeInv, TypeOK, Ledgers
  <1>4. task'.state = "active" /\ task'.verification = None
    BY <1>2 DEF RecordEdit, TypeInv, TypeOK, Tasks
  <1>5. Good(disk)' /\ Good(task)'
    BY <1>1, <1>2, <1>3, <1>4 DEF Good, Verified
  <1>6. /\ Queued' = {task'} /\ Len(todo') = 1 /\ todo' # <<>>
        /\ Head(todo') = task'
    <2>1. Queued' = Records(todo')
      BY DEF Queued, Records
    <2>2. Len(<<task'>>) = 1 /\ <<task'>> # <<>> /\ Head(<<task'>>) = task'
      OBVIOUS
    <2> QED BY <1>1, <2>1, <2>2, RecordsOf
  <1>7. RecordsInv'
    BY <1>1, <1>5, <1>6 DEF RecordsInv
  <1>8. ClosedInv'
    BY <1>1, <1>2, <1>4, <1>6 DEF ClosedInv, Terminal, Verified
  <1>9. StepsInv' /\ TestedInv'
    BY <1>1, <1>2, QuietSteps, QuietTested DEF Loaded
  <1> QED BY <1>7, <1>8, <1>9 DEF ContentInv

LEMMA EditContent ==
    ASSUME TypeInv, ContentInv, EditNext
    PROVE  ContentInv'
  <1> USE DEF session, durable
  <1>1. ASSUME NEW e \in Calls, GrantEdit(e)
        PROVE  ContentInv'
    <2> DEFINE x == Approve(task, DOMAIN e)
    <2>1. up /\ todo = <<>> /\ pc = "idle"
      BY <1>1 DEF GrantEdit, At
    <2>2. task = disk /\ Good(disk) /\ tested = {} /\ task \in Tasks
      BY <2>1, AtRest, NothingTested DEF TypeInv, TypeOK
    <2>3. /\ up' /\ pc' \notin Loaded /\ tested' = {}
          /\ UNCHANGED <<task, disk, worktree, applied>>
          /\ todo' = SaveIf(TRUE, x)
      BY <1>1, <2>1, <2>2, OneSave DEF GrantEdit, Loaded
    <2>4. Good(disk)' /\ Heir(x, disk)
      BY <1>1, <2>2, GoodKept, HeirApprove DEF GrantEdit
    <2> HIDE DEF x
    <2> QED
      BY <2>1, <2>2, <2>3, <2>4, QuietOne
  <1>2. ASSUME NEW e \in Calls, ReuseGrant(e)
        PROVE  ContentInv'
    <2>1. up /\ todo = <<>> /\ pc = "idle"
      BY <1>2 DEF ReuseGrant, At
    <2>2. task = disk /\ Good(disk) /\ tested = {}
      BY <2>1, AtRest, NothingTested
    <2>3. /\ up' /\ pc' \notin Loaded /\ tested' = {} /\ todo' = <<>>
          /\ UNCHANGED <<task, disk, worktree, applied>>
      BY <1>2, <2>1, <2>2 DEF ReuseGrant, Loaded
    <2>4. Good(disk)'
      BY <1>2, <2>2, GoodKept DEF ReuseGrant
    <2> QED
      BY <2>1, <2>2, <2>3, <2>4, QuietNone
  <1>3. CASE EnableWrites
    <2>1. up /\ todo = <<>> /\ pc = "granted"
      BY <1>3 DEF EnableWrites, At
    <2>2. task = disk /\ Good(disk) /\ tested = {}
      BY <2>1, AtRest, NothingTested
    <2>3. /\ up' /\ pc' \notin Loaded /\ tested' = {}
          /\ UNCHANGED <<task, disk, worktree, applied>>
          /\ todo' = SaveIf(edit = NoEdit, disk) /\ (edit = NoEdit) \in BOOLEAN
      BY <1>3, <2>1, <2>2 DEF EnableWrites, Loaded
    <2>4. Good(disk)' /\ Heir(disk, disk)
      BY <1>3, <2>2, GoodKept, HeirSelf DEF EnableWrites
    <2> QED
      BY <2>1, <2>2, <2>3, <2>4, QuietOne
  <1>4. CASE StageEdit
    BY <1>4, StageContent
  <1>5. CASE PassBudget
    <2>1. /\ up /\ todo = <<>> /\ pc = "budget" /\ pc' = "write"
          /\ UNCHANGED <<up, todo, task, durable, tested>>
      BY <1>5 DEF PassBudget, At
    <2>2. /\ task = disk /\ Good(disk) /\ tested = {}
          /\ task.state = "active"
      BY <2>1, AtRest, NothingTested DEF ContentInv, StepsInv
    <2>3. Good(disk)'
      BY <2>1, <2>2, GoodKept
    <2>4. Queued' = {} /\ Len(todo') <= 2
      BY <2>1, RecordsOf DEF Queued, Records
    <2> QED
      BY <2>1, <2>2, <2>3, <2>4
      DEF ContentInv, RecordsInv, StepsInv, TestedInv, ClosedInv
  <1>6. CASE WriteFile
    BY <1>6, WriteContent
  <1>7. CASE AbortEdit
    <2>1. up /\ todo = <<>> /\ pc \in {"stage", "budget", "write"}
      BY <1>7 DEF AbortEdit, At
    <2>2. task = disk /\ Good(disk) /\ tested = {}
      BY <2>1, AtRest, NothingTested
    <2>3. /\ up' /\ pc' \notin Loaded /\ tested' = {} /\ todo' = <<>>
          /\ UNCHANGED <<task, disk, worktree, applied>>
      BY <1>7, <2>1, <2>2 DEF AbortEdit, Loaded
    <2>4. Good(disk)'
      BY <1>7, <2>2, GoodKept DEF AbortEdit
    <2> QED
      BY <2>1, <2>2, <2>3, <2>4, QuietNone
  <1>8. CASE RecordEdit
    BY <1>8, RecordContent
  <1>9. ASSUME NEW passed \in BOOLEAN, RefreshReplay(passed)
        PROVE  ContentInv'
    <2>1. up /\ todo = <<>> /\ pc = "refresh"
      BY <1>9 DEF RefreshReplay, At
    <2>2. task = disk /\ Good(disk) /\ tested = {}
      BY <2>1, AtRest, NothingTested
    <2>3. /\ up' /\ pc' \notin Loaded /\ tested' = {} /\ todo' = <<>>
          /\ UNCHANGED <<task, disk, worktree, applied>>
      BY <1>9, <2>1, <2>2 DEF RefreshReplay, Loaded
    <2>4. Good(disk)'
      BY <1>9, <2>2, GoodKept DEF RefreshReplay
    <2> QED
      BY <2>1, <2>2, <2>3, <2>4, QuietNone
  <1> QED
    BY <1>1, <1>2, <1>3, <1>4, <1>5, <1>6, <1>7, <1>8, <1>9 DEF EditNext

LEMMA SaveReproductionContent ==
    ASSUME TypeInv, ContentInv, SaveReproduction
    PROVE  ContentInv'
  <1> DEFINE x == Unverified(task)
  <1>1. up /\ todo = <<>> /\ pc = "reproduce"
    BY DEF SaveReproduction, At
  <1>2. task = disk /\ Good(disk) /\ tested = {} /\ task \in Tasks
    BY <1>1, AtRest, NothingTested DEF TypeInv, TypeOK
  <1>3. /\ up' /\ tested' = {}
        /\ UNCHANGED <<task, disk, worktree, applied>>
    BY <1>1, <1>2 DEF SaveReproduction, durable, session
  <1>4. Good(disk)'
    BY <1>2, GoodKept DEF SaveReproduction, durable
  <1>5. Heir(x, disk) /\ x.verification = None
    BY <1>2, HeirUnverified
  <1>6. CASE todo' = <<>> /\ pc' = "idle"
    BY <1>1, <1>2, <1>3, <1>4, <1>6, QuietNone DEF Loaded
  <1>7. CASE todo' = <<Unverified(task)>> /\ pc' = "index"
    <2>1. todo' = <<x>> /\ todo' = SaveIf(TRUE, x) /\ todo' # <<>>
      BY <1>7 DEF SaveIf
    <2> HIDE DEF x
    <2>2. todo' = SaveIf(TRUE, x) \o SaveIf(FALSE, x)
      BY <2>1, OneOfTwo
    <2>3. (FALSE => Heir(x, disk)) /\ pc' \notin {"bind", "discard"}
      BY <1>7
    <2>4. RecordsInv' /\ ClosedInv'
      BY <1>1, <1>2, <1>3, <1>4, <1>5, <2>2, <2>3, HeirsQueued
      DEF ContentInv
    <2>5. Queued' = {x}
      <3>1. Queued' = Records(todo')
        BY DEF Queued, Records
      <3> QED BY <2>1, <3>1, RecordsOf
    <2>6. StepsInv' /\ TestedInv'
      BY <1>3, <1>5, <1>7, <2>1, <2>5 DEF StepsInv, TestedInv
    <2> QED BY <2>4, <2>6 DEF ContentInv
  <1> QED
    BY <1>6, <1>7 DEF SaveReproduction

LEMMA FinishContent ==
    ASSUME TypeInv, ContentInv, FinishNext
    PROVE  ContentInv'
  <1> USE DEF session, durable
  <1>1. CASE FinishReproduced
    <2> DEFINE p == task.state # "active"
               x == Moved(task, "active")
    <2>1. up /\ todo = <<>> /\ pc = "idle"
      BY <1>1 DEF FinishReproduced, Finishing, At
    <2>2. task = disk /\ Good(disk) /\ tested = {} /\ task \in Tasks
      BY <2>1, AtRest, NothingTested DEF TypeInv, TypeOK
    <2>3. /\ up' /\ pc' \notin Loaded /\ tested' = {}
          /\ UNCHANGED <<task, disk, worktree, applied>>
          /\ todo' = SaveIf(p, x) /\ p \in BOOLEAN
      BY <1>1, <2>1, <2>2 DEF FinishReproduced, Loaded
    <2>4. Good(disk)' /\ Heir(x, disk)
      BY <1>1, <2>2, GoodKept, HeirMoved DEF FinishReproduced, Finishing
    <2> HIDE DEF p, x
    <2> QED
      BY <2>1, <2>2, <2>3, <2>4, QuietOne
  <1>2. CASE SaveReproduction
    BY <1>2, SaveReproductionContent
  <1>3. ASSUME NEW kind \in Kinds, IndexReproduction(kind)
        PROVE  ContentInv'
    <2>1. up /\ todo = <<>> /\ pc = "index"
      BY <1>3 DEF IndexReproduction, At
    <2>2. /\ task = disk /\ Good(disk) /\ tested = {}
          /\ disk.verification = None
      BY <2>1, AtRest, NothingTested DEF ContentInv, StepsInv
    <2>3. /\ up' /\ pc' \notin Loaded /\ tested' = {}
          /\ UNCHANGED <<task, disk, worktree, applied, ita, patchFile>>
          /\ todo' = SaveIf(TRUE, disk)
      BY <1>3, <2>1, <2>2, OneSave DEF IndexReproduction, Loaded
    <2>4. ledger'.checks = ledger.checks
      BY <1>3 DEF IndexReproduction, TypeInv, TypeOK, Ledgers
    <2>5. Good(disk)' /\ Heir(disk, disk)
      BY <2>2, <2>3, <2>4, HeirSelf DEF Good, Verified
    <2> QED
      BY <2>1, <2>2, <2>3, <2>5, QuietOne
  <1>4. ASSUME NEW S \in SUBSET Paths \ {{}}, NEW confirmed \in BOOLEAN,
               FinishProposed(S, confirmed)
        PROVE  ContentInv'
    <2>1. up /\ todo = <<>> /\ pc = "idle"
      BY <1>4 DEF FinishProposed, Finishing, At
    <2>2. task = disk /\ Good(disk) /\ tested = {} /\ task \in Tasks
      BY <2>1, AtRest, NothingTested DEF TypeInv, TypeOK
    <2>3. /\ up' /\ pc' \notin Loaded /\ tested' = {}
          /\ UNCHANGED <<task, disk, worktree, applied>>
      BY <1>4, <2>1, <2>2 DEF FinishProposed, Finishing, Loaded
    <2>4. /\ Good(disk)' /\ Heir(Approve(task, S), disk)
          /\ Heir(Close(task), disk)
      BY <1>4, <2>2, GoodKept, HeirApprove, HeirClose DEF FinishProposed
    <2>5. CASE confirmed
      <3>1. todo' = SaveIf(TRUE, Approve(task, S))
        BY <1>4, <2>5, OneSave DEF FinishProposed
      <3> QED
        BY <2>1, <2>2, <2>3, <2>4, <3>1, QuietOne
    <2>6. CASE ~confirmed
      <3>1. /\ todo' = SaveIf(task.scope # "unapproved", Close(task))
            /\ (task.scope # "unapproved") \in BOOLEAN
        BY <1>4, <2>6 DEF FinishProposed
      <3> QED
        BY <2>1, <2>2, <2>3, <2>4, <3>1, QuietOne
    <2> QED BY <2>5, <2>6
  <1>5. CASE RevokeWrites
    <2>1. up /\ todo = <<>> /\ pc = "revoke"
      BY <1>5 DEF RevokeWrites, At
    <2>2. task = disk /\ Good(disk) /\ tested = {}
      BY <2>1, AtRest, NothingTested
    <2>3. /\ up' /\ pc' \notin Loaded /\ tested' = {}
          /\ UNCHANGED <<task, disk, worktree, applied>>
          /\ todo' = SaveIf(TRUE, disk)
      BY <1>5, <2>1, <2>2, OneSave DEF RevokeWrites, Loaded
    <2>4. Good(disk)' /\ Heir(disk, disk)
      BY <1>5, <2>2, GoodKept, HeirSelf DEF RevokeWrites
    <2> QED
      BY <2>1, <2>2, <2>3, <2>4, QuietOne
  <1>6. CASE FinishBlocked
    <2> DEFINE p == task.scope # "unapproved"
               x == Close(task)
               y == Moved(x, "blocked")
    <2>1. up /\ todo = <<>> /\ pc = "idle"
      BY <1>6 DEF FinishBlocked, Finishing, At
    <2>2. task = disk /\ Good(disk) /\ tested = {} /\ task \in Tasks
      BY <2>1, AtRest, NothingTested DEF TypeInv, TypeOK
    <2>3. /\ up' /\ pc' \notin Loaded /\ tested' = {}
          /\ UNCHANGED <<task, disk, worktree, applied>>
          /\ todo' = SaveIf(p, x) \o SaveIf(TRUE, y) /\ p \in BOOLEAN
      BY <1>6, <2>1, <2>2, OneSave DEF FinishBlocked, Finishing, Loaded
    <2>4. Good(disk)'
      BY <1>6, <2>2, GoodKept DEF FinishBlocked
    <2>5. Heir(x, disk) /\ x \in Tasks /\ x.state \notin Terminal
      BY <1>6, <2>2, HeirClose, CloseType DEF FinishBlocked, Finishing, Heir
    <2>6. Heir(y, x) /\ ~Verified(y)
      BY <2>5, HeirMoved
    <2>7. Heir(y, disk)
      BY <2>5, <2>6, HeirTransitive
    <2> HIDE DEF p, x, y
    <2> QED
      BY <2>1, <2>2, <2>3, <2>4, <2>5, <2>6, <2>7, QuietTwo
  <1>7. CASE FinishDiagnosed
    <2>1. up /\ todo = <<>> /\ pc = "idle"
      BY <1>7 DEF FinishDiagnosed, Finishing, At
    <2>2. task = disk /\ Good(disk) /\ tested = {}
      BY <2>1, AtRest, NothingTested
    <2>3. /\ up' /\ pc' \notin Loaded /\ tested' = {}
          /\ UNCHANGED <<task, disk, worktree, applied>>
          /\ todo' = SaveIf(TRUE, disk)
      BY <1>7, <2>1, <2>2, OneSave DEF FinishDiagnosed, Finishing, Loaded
    <2>4. Good(disk)' /\ Heir(disk, disk)
      BY <1>7, <2>2, GoodKept, HeirSelf DEF FinishDiagnosed
    <2> QED
      BY <2>1, <2>2, <2>3, <2>4, QuietOne
  <1>8. ASSUME NEW status \in {"passed", "failed"}, CheckTool(status)
        PROVE  ContentInv'
    <2>1. up /\ todo = <<>> /\ pc = "idle"
      BY <1>8 DEF CheckTool, At
    <2>2. task = disk /\ Good(disk) /\ tested = {}
      BY <2>1, AtRest, NothingTested
    <2>3. /\ up' /\ pc' \notin Loaded /\ tested' = {} /\ todo' = <<>>
          /\ UNCHANGED <<task, disk, worktree, applied, ita, patchFile>>
      BY <1>8, <2>1, <2>2 DEF CheckTool, Loaded
    <2>4. /\ ledger'.checks = ledger.checks \union {CheckResult(status)}
          /\ ledger'.reproduction = ledger.reproduction
      BY <1>8 DEF CheckTool, TypeInv, TypeOK, Ledgers
    <2>5. CheckResult(status).tests = disk.changed \cap TestPaths
      BY <2>2 DEF CheckResult
    <2>6. Hash' = Hash /\ Registered' = Registered
      BY <2>3 DEF Hash, Registered
    <2>7. \A f, c : Certifies(f, c) => Certifies(f, c)'
      BY <2>4 DEF Certifies
    <2>8. Good(disk)'
      BY <2>2, <2>3, <2>4, <2>5, <2>6, <2>7 DEF Good
    <2> QED
      BY <2>1, <2>2, <2>3, <2>8, QuietNone
  <1> QED
    BY <1>1, <1>2, <1>3, <1>4, <1>5, <1>6, <1>7, <1>8 DEF FinishNext

\* A step of a verification that queues nothing.
LEMMA RestingContent ==
    ASSUME TypeInv, ContentInv, up', todo = <<>>, task = disk, todo' = <<>>,
           UNCHANGED <<task, disk, worktree, applied>>,
           Good(disk)', pc' \notin {"bind", "discard", "budget", "write",
                                    "index"}
    PROVE  RecordsInv' /\ StepsInv' /\ ClosedInv' /\ Queued' = {}
  <1>1. Queued' = {} /\ Len(todo') <= 2 /\ task' = disk'
    BY RecordsOf DEF Queued, Records
  <1>2. RecordsInv'
    BY <1>1 DEF RecordsInv
  <1>3. StepsInv' /\ ClosedInv'
    BY <1>1 DEF StepsInv, ClosedInv
  <1> QED BY <1>1, <1>2, <1>3

LEMMA SyncContent ==
    ASSUME TypeInv, ContentInv, SyncChanges
    PROVE  ContentInv'
  <1>1. /\ up /\ todo = <<>> /\ pc = "sync" /\ pc' = "enter"
        /\ UNCHANGED <<up, disk, worktree, ita, patchFile, applied, tested>>
        /\ task.state \notin Terminal
    BY DEF SyncChanges, At, session
  <1>2. task = disk /\ Good(disk) /\ tested = {} /\ task \in Tasks
    BY <1>1, AtRest, NothingTested DEF TypeInv, TypeOK
  <1>3. CASE Synchronised
    <2>1. /\ UNCHANGED <<todo, task, ledger>>
          /\ task.changed = ChangedPaths(worktree)
      BY <1>3 DEF SyncChanges, Synchronised
    <2>2. Good(disk)'
      BY <1>1, <1>2, <2>1, GoodKept
    <2>3. RecordsInv' /\ StepsInv' /\ ClosedInv' /\ Queued' = {}
      BY <1>1, <1>2, <2>1, <2>2, RestingContent
    <2>4. TestedInv'
      <3>1. Synced(task)'
        BY <1>1, <2>1 DEF Synced
      <3> QED BY <1>1, <1>2, <2>3, <3>1 DEF TestedInv
    <2> QED BY <2>3, <2>4 DEF ContentInv
  <1>4. CASE ~Synchronised
    <2> DEFINE S == ChangedPaths(worktree)
    <2>1. /\ task' = [task EXCEPT !.changed = S, !.lines = 0,
                                  !.verification = None, !.patch = FALSE]
          /\ ledger' = [ledger EXCEPT !.change = Hash, !.checks = {}]
          /\ todo' = <<task'>> \/ todo' = <<Moved(task', "active")>>
      BY <1>4 DEF SyncChanges
    <2>2. /\ task'.state = task.state /\ task'.verification = None
          /\ task'.changed = S
      BY <1>2, <2>1 DEF Tasks
    <2>3. ledger'.checks = {}
      BY <2>1 DEF TypeInv, TypeOK, Ledgers
    <2>4. PICK x : /\ todo' = <<x>>
                   /\ x.state \notin Terminal /\ ~Verified(x)
                   /\ x.changed = S
      <3>1. task' \in Tasks
        BY <2>1, <1>2, HashType, ResetType DEF TypeInv, TypeOK
      <3>2. /\ Moved(task', "active").changed = S
            /\ Moved(task', "active").state = "active"
        BY <2>2, <3>1 DEF Moved, Tasks
      <3>3. CASE todo' = <<task'>>
        BY <1>1, <2>2, <3>3 DEF Verified
      <3>4. CASE todo' = <<Moved(task', "active")>>
        BY <3>2, <3>4 DEF Verified, Terminal
      <3> QED BY <2>1, <3>3, <3>4
    <2>5. /\ Queued' = {x} /\ Len(todo') = 1 /\ todo' # <<>>
          /\ Head(todo') = x
      <3>1. Queued' = Records(todo')
        BY DEF Queued, Records
      <3>2. Len(<<x>>) = 1 /\ <<x>> # <<>> /\ Head(<<x>>) = x
        OBVIOUS
      <3> QED BY <2>4, <3>1, <3>2, RecordsOf
    <2>6. Good(disk)'
      <3>1. Hash' = Hash /\ Registered' = Registered
        BY <1>1 DEF Hash, Registered
      <3>2. ledger'.reproduction = ledger.reproduction
        BY <2>1 DEF TypeInv, TypeOK, Ledgers
      <3> QED BY <1>1, <1>2, <2>3, <3>2, GoodKept
    <2>7. Good(x)'
      BY <2>3, <2>4 DEF Good, Terminal
    <2>8. RecordsInv'
      BY <1>1, <2>5, <2>6, <2>7 DEF RecordsInv
    <2>9. TestedInv'
      BY <1>1, <1>2, <2>2, <2>4, <2>5 DEF TestedInv, Synced
    <2>10. StepsInv' /\ ClosedInv'
      BY <1>1, <1>2, <2>4, <2>5 DEF StepsInv, ClosedInv
    <2> QED BY <2>8, <2>9, <2>10 DEF ContentInv
  <1> QED BY <1>3, <1>4

LEMMA EnterContent ==
    ASSUME TypeInv, ContentInv, EnterVerifying
    PROVE  ContentInv'
  <1> DEFINE p == task.state = "ready_to_apply"
             q == task.state # "verifying"
             x == Moved(task, "active")
             y == Moved(task, "verifying")
  <1>1. /\ up /\ todo = <<>> /\ pc = "enter" /\ pc' = "check"
        /\ todo' = SaveIf(p, x) \o SaveIf(q, y)
        /\ UNCHANGED <<up, task, disk, worktree, applied, tested>>
    BY DEF EnterVerifying, At, session, durable
  <1>2. /\ task = disk /\ Good(disk) /\ tested = {} /\ task \in Tasks
        /\ Synced(task)
    BY <1>1, AtRest, NothingTested
    DEF TypeInv, TypeOK, ContentInv, TestedInv
  <1>3. Good(disk)'
    BY <1>2, GoodKept DEF EnterVerifying, durable
  <1>4. /\ Heir(x, disk) /\ Heir(y, disk) /\ ~Verified(x) /\ ~Verified(y)
        /\ x.state = "active" /\ y.state = "verifying"
    BY <1>2, HeirMoved DEF Synced
  <1>5. p \in BOOLEAN /\ q \in BOOLEAN /\ pc' \notin {"bind", "discard"}
    BY <1>1
  <1>6. RecordsInv' /\ ClosedInv'
    <2> HIDE DEF p, q, x, y
    <2> QED BY <1>1, <1>2, <1>3, <1>4, <1>5, HeirsQueued DEF ContentInv
  <1>7. \A z \in Queued' : z = x \/ z = y
    <2>1. Queued' = Records(todo')
      BY DEF Queued, Records
    <2> HIDE DEF p, q, x, y
    <2>2. \A z \in Records(SaveIf(p, x) \o SaveIf(q, y)) :
             (p /\ z = x) \/ (q /\ z = y)
      BY <1>5, QueueOfTwo
    <2> QED BY <1>1, <2>1, <2>2
  <1>8. x.changed = task.changed /\ y.changed = task.changed
    BY <1>2, <1>4 DEF Heir
  <1>9. TestedInv'
    <2> HIDE DEF x, y
    <2>1. Synced(task)' /\ (\A z \in Queued : Synced(z))'
      BY <1>1, <1>2, <1>4, <1>7, <1>8 DEF Synced, Terminal
    <2> QED BY <1>1, <1>2, <2>1 DEF TestedInv
  <1>10. StepsInv'
    BY <1>1 DEF StepsInv
  <1> QED BY <1>6, <1>9, <1>10 DEF ContentInv

\* Every check the ledger answers with ran the tests the worktree needs.
LEMMA CheckContent ==
    ASSUME TypeInv, ContentInv,
           NEW status \in {"passed", "failed"}, RunCheck(status)
    PROVE  ContentInv'
  <1>1. /\ up /\ todo = <<>> /\ pc = "check"
        /\ UNCHANGED <<up, todo, task, disk, worktree, ita, patchFile,
                       applied>>
    BY DEF RunCheck, At
  <1>2. /\ task = disk /\ Good(disk) /\ Synced(task)
    BY <1>1, AtRest DEF ContentInv, TestedInv
  <1>3. PICK c \in IF CachedChecks # {} THEN CachedChecks
                   ELSE {CheckResult(status)} :
            /\ ledger' = [ledger EXCEPT !.checks = @ \union {c}]
            /\ IF c.status = "passed"
               THEN /\ pc' = "replay"
                    /\ tested' = {[by |-> "check", content |-> c.hash[1],
                                  tests |-> c.tests]}
               ELSE pc' = "idle" /\ tested' = {}
    BY DEF RunCheck
  <1>4. /\ ledger'.checks = ledger.checks \union {c}
        /\ ledger'.reproduction = ledger.reproduction
    BY <1>3 DEF TypeInv, TypeOK, Ledgers
  <1>5. c.hash = Hash /\ c.tests = disk.changed \cap TestPaths
    BY <1>2, <1>3 DEF CachedChecks, CheckResult, Good
  <1>6. Good(disk)'
    <2>1. Hash' = Hash /\ Registered' = Registered
      BY <1>1 DEF Hash, Registered
    <2>2. \A f, d : Certifies(f, d) => Certifies(f, d)'
      BY <1>4 DEF Certifies
    <2> QED BY <1>1, <1>2, <1>4, <1>5, <2>1, <2>2 DEF Good
  <1>7. RecordsInv' /\ StepsInv' /\ ClosedInv' /\ Queued' = {}
    <2>1. pc' = "replay" \/ pc' = "idle"
      BY <1>3
    <2> QED BY <1>1, <1>2, <1>6, <2>1, RestingContent
  <1>8. TestedInv'
    <2>1. CASE pc' = "idle" /\ tested' = {}
      BY <2>1 DEF TestedInv
    <2>2. CASE /\ pc' = "replay"
               /\ tested' = {[by |-> "check", content |-> c.hash[1],
                              tests |-> c.tests]}
      <3>1. c.hash[1] = worktree /\ Synced(task)'
        BY <1>1, <1>2, <1>5 DEF Hash, Synced
      <3>2. c.tests = ChangedPaths(worktree) \cap TestPaths
        BY <1>2, <1>5 DEF Synced
      <3>3. UNION {f.tests : f \in tested'} = c.tests
        BY <2>2
      <3>4. \A f \in tested' : f.content = worktree'
        BY <1>1, <2>2, <3>1
      <3>5. ChangedPaths(worktree)' = ChangedPaths(worktree)
        BY <1>1 DEF ChangedPaths
      <3> QED BY <1>7, <2>2, <3>1, <3>2, <3>3, <3>4, <3>5 DEF TestedInv
    <2> QED BY <1>3, <2>1, <2>2
  <1> QED BY <1>7, <1>8 DEF ContentInv

\* A cached answer of the replay is one for the worktree as it is.
LEMMA ReplayContent ==
    ASSUME TypeInv, ContentInv, NEW passed \in BOOLEAN, VerifyReplay(passed)
    PROVE  ContentInv'
  <1>1. /\ up /\ todo = <<>> /\ pc = "replay"
        /\ UNCHANGED <<up, todo, task, disk, worktree, ita, patchFile,
                       ledger, applied>>
    BY DEF VerifyReplay, At, durable
  <1>2. /\ task = disk /\ Good(disk) /\ Synced(task)
        /\ ledger.reproduction # "none"
    BY <1>1, AtRest DEF ContentInv, TestedInv, VerifyReplay
  <1>3. PICK h \in IF \E h \in cache : ReplayHit(h)
                   THEN {h \in cache : ReplayHit(h)} ELSE {Hash} :
            IF h \in cache \/ passed
            THEN /\ pc' = "capture"
                 /\ tested' = tested \union
                               {[by |-> "replay", content |-> h[1],
                                 tests |-> {}]}
            ELSE pc' = "idle" /\ tested' = {}
    BY DEF VerifyReplay
  <1>4. h = Hash
    BY <1>3 DEF ReplayHit
  <1>5. Good(disk)'
    BY <1>1, <1>2, GoodKept
  <1>6. RecordsInv' /\ StepsInv' /\ ClosedInv' /\ Queued' = {}
    <2>1. pc' = "capture" \/ pc' = "idle"
      BY <1>3
    <2> QED BY <1>1, <1>2, <1>5, <2>1, RestingContent
  <1>7. TestedInv'
    <2>1. CASE pc' = "idle" /\ tested' = {}
      BY <2>1 DEF TestedInv
    <2>2. CASE /\ pc' = "capture"
               /\ tested' = tested \union
                             {[by |-> "replay", content |-> h[1],
                               tests |-> {}]}
      <3>1. h[1] = worktree /\ Synced(task)'
        BY <1>1, <1>2, <1>4 DEF Hash, Synced
      <3>2. \A f \in tested' : f.content = worktree'
        BY <1>1, <2>2, <3>1 DEF ContentInv, TestedInv
      <3>3. \E f \in tested' : f.by = "replay"
        <4> DEFINE r == [by |-> "replay", content |-> h[1], tests |-> {}]
        <4>1. r \in tested' /\ r.by = "replay"
          BY <2>2
        <4> QED BY <4>1
      <3>4. ChangedPaths(worktree) \cap TestPaths
               \subseteq UNION {f.tests : f \in tested'}
        BY <1>1, <2>2 DEF ContentInv, TestedInv
      <3>5. ChangedPaths(worktree)' = ChangedPaths(worktree)
        BY <1>1 DEF ChangedPaths
      <3> QED BY <1>6, <2>2, <3>1, <3>2, <3>3, <3>4, <3>5 DEF TestedInv
    <2> QED BY <1>3, <2>1, <2>2
  <1> QED BY <1>6, <1>7 DEF ContentInv

LEMMA PatchedRecord ==
    ASSUME NEW t \in Tasks
    PROVE  LET u == [t EXCEPT !.patch = TRUE]
           IN  /\ u.changed = t.changed /\ u.state = t.state
               /\ u.verification = t.verification
  BY DEF Tasks

LEMMA CaptureContent ==
    ASSUME TypeInv, ContentInv, CapturePatch
    PROVE  ContentInv'
  <1>1. /\ up /\ todo = <<>> /\ pc = "capture" /\ applied = None
        /\ UNCHANGED <<up, todo, disk, worktree, ledger, applied>>
        /\ ita' = Registered /\ patchFile' = worktree
    BY DEF CapturePatch, At, NewPatch, SourceUnchanged
  <1>2. /\ task = disk /\ Good(disk) /\ Synced(task) /\ task \in Tasks
    BY <1>1, AtRest DEF ContentInv, TestedInv, TypeInv, TypeOK
  <1>3. Registered' = Registered /\ Registered' = ita'
        /\ ChangedPaths(worktree)' = ChangedPaths(worktree)
    BY <1>1 DEF Registered, ChangedPaths
  <1>4. Good(disk)'
    <2>1. Verified(disk) => ita' = ita /\ Hash' = Hash
      BY <1>1, <1>2 DEF Good, Hash
    <2>2. \A f, d : Certifies(f, d) => Certifies(f, d)'
      BY <1>1 DEF Certifies
    <2> QED BY <1>1, <1>2, <1>3, <2>1, <2>2 DEF Good
  <1>5. Queued' = {} /\ Len(todo') <= 2
    BY <1>1, RecordsOf DEF Queued, Records
  <1>6. CASE pc' = "idle" /\ tested' = {} /\ UNCHANGED task
    <2>1. RecordsInv' /\ StepsInv' /\ ClosedInv' /\ Queued' = {}
      BY <1>1, <1>2, <1>4, <1>6, RestingContent
    <2>2. TestedInv'
      BY <1>6 DEF TestedInv
    <2> QED BY <2>1, <2>2 DEF ContentInv
  <1>7. CASE /\ pc' = "bind" /\ task' = [task EXCEPT !.patch = TRUE]
             /\ UNCHANGED tested
    <2>1. RecordsInv'
      BY <1>1, <1>2, <1>4, <1>5, <1>7 DEF RecordsInv
    <2>2. StepsInv' /\ ClosedInv'
      BY <1>1, <1>5, <1>7 DEF StepsInv, ClosedInv
    <2>3. Synced(task)'
      BY <1>1, <1>2, <1>3, <1>7, PatchedRecord DEF Synced
    <2>4. TestedInv'
      BY <1>1, <1>3, <1>5, <1>7, <2>3 DEF ContentInv, TestedInv
    <2> QED BY <2>1, <2>2, <2>4 DEF ContentInv
  <1> QED BY <1>6, <1>7 DEF CapturePatch

\* The candidate: what was tested is what the worktree and the patch hold.
LEMMA BindContent ==
    ASSUME TypeInv, ContentInv, BindVerification
    PROVE  ContentInv'
  <1>1. /\ up /\ todo = <<>> /\ pc = "bind" /\ pc' = "close"
        /\ UNCHANGED <<up, disk, worktree, ita, patchFile, ledger, applied>>
        /\ tested' = {} /\ todo' = <<Moved(task', "ready_to_apply")>>
        /\ task' = [task EXCEPT !.verification = [hash |-> Hash,
                                                  facts |-> tested]]
    BY DEF BindVerification, At
  <1>2. /\ Good(disk) /\ disk \in Tasks /\ task \in Tasks
        /\ task.state = disk.state /\ task.changed = disk.changed
        /\ Synced(task) /\ applied = None
        /\ patchFile = worktree /\ Registered = ita
    <2>1. task = disk \/ task = [disk EXCEPT !.patch = TRUE]
      BY <1>1 DEF ContentInv, RecordsInv
    <2> QED
      BY <1>1, <2>1, PatchedRecord
      DEF TypeInv, TypeOK, ContentInv, RecordsInv, TestedInv, ClosedInv
  <1>3. Good(disk)'
    BY <1>1, <1>2, GoodKept
  <1>4. PICK x :
           /\ todo' = <<x>>
           /\ x.verification = [hash |-> Hash, facts |-> tested]
           /\ x.state = "ready_to_apply" /\ x.changed = task.changed
    <2>1. task' \in Tasks
      BY VerifyTypes DEF VerifyNext, TypeInv, TypeOK
    <2>2. /\ task'.verification = [hash |-> Hash, facts |-> tested]
          /\ task'.changed = task.changed
      BY <1>1, <1>2 DEF Tasks
    <2>3. PICK x : x = Moved(task', "ready_to_apply")
      OBVIOUS
    <2>4. /\ x.verification = task'.verification
          /\ x.state = "ready_to_apply" /\ x.changed = task'.changed
      BY <2>1, <2>3 DEF Moved, Tasks
    <2>5. todo' = <<x>>
      BY <1>1, <2>3
    <2> QED BY <2>2, <2>4, <2>5
  <1>5. Certifies(tested, worktree)
    BY <1>1 DEF ContentInv, TestedInv, Certifies
  <1>6. Good(x)'
    <2>1. Hash' = Hash /\ Registered' = Registered
          /\ ChangedPaths(worktree)' = ChangedPaths(worktree)
      BY <1>1 DEF Hash, Registered, ChangedPaths
    <2>2. \A f : Certifies(f, worktree)' <=> Certifies(f, worktree)
      BY <1>1 DEF Certifies
    <2>3. \A c \in ledger'.checks : c.tests = x.changed \cap TestPaths
      BY <1>1, <1>2, <1>4 DEF Good
    <2>4. /\ x.verification.hash = Hash /\ x.verification.facts = tested
      BY <1>4
    <2> QED BY <1>1, <1>2, <1>4, <1>5, <2>1, <2>2, <2>3, <2>4
            DEF Good, Synced
  <1>7. Queued' = {x} /\ Len(todo') = 1 /\ todo' # <<>> /\ Head(todo') = x
    <2>1. Queued' = Records(todo')
      BY DEF Queued, Records
    <2>2. Len(<<x>>) = 1 /\ <<x>> # <<>> /\ Head(<<x>>) = x
      OBVIOUS
    <2> QED BY <1>4, <2>1, <2>2, RecordsOf
  <1>8. RecordsInv'
    BY <1>1, <1>3, <1>6, <1>7 DEF RecordsInv
  <1>9. ClosedInv'
    BY <1>1, <1>2, <1>4, <1>7 DEF ClosedInv, Synced, Terminal
  <1>10. StepsInv' /\ TestedInv'
    BY <1>1, QuietSteps, QuietTested DEF Loaded
  <1> QED BY <1>8, <1>9, <1>10 DEF ContentInv

LEMMA VerifyContent ==
    ASSUME TypeInv, ContentInv, VerifyNext
    PROVE  ContentInv'
  <1> USE DEF session, durable
  <1>1. CASE BeginVerify
    <2>1. up /\ todo = <<>> /\ pc = "idle"
      BY <1>1 DEF BeginVerify, At
    <2>2. task = disk /\ Good(disk) /\ tested = {}
      BY <2>1, AtRest, NothingTested
    <2>3. /\ up' /\ pc' \notin Loaded /\ tested' = {} /\ todo' = <<>>
          /\ UNCHANGED <<task, disk, worktree, applied>>
      BY <1>1, <2>1, <2>2 DEF BeginVerify, Loaded
    <2>4. Good(disk)'
      BY <1>1, <2>2, GoodKept DEF BeginVerify
    <2> QED
      BY <2>1, <2>2, <2>3, <2>4, QuietNone
  <1>2. CASE SyncChanges
    BY <1>2, SyncContent
  <1>3. CASE EnterVerifying
    BY <1>3, EnterContent
  <1>4. ASSUME NEW status \in {"passed", "failed"}, RunCheck(status)
        PROVE  ContentInv'
    BY <1>4, CheckContent
  <1>5. CASE SkipCheck
    <2>1. /\ up /\ todo = <<>> /\ pc = "check" /\ pc' = "replay"
          /\ UNCHANGED <<up, todo, task, durable, tested>>
      BY <1>5 DEF SkipCheck, At
    <2>2. task = disk /\ Good(disk) /\ tested = {} /\ Synced(task)
      BY <2>1, AtRest, NothingTested DEF ContentInv, TestedInv
    <2>3. Good(disk)'
      BY <2>1, <2>2, GoodKept
    <2>4. RecordsInv' /\ StepsInv' /\ ClosedInv' /\ Queued' = {}
      BY <2>1, <2>2, <2>3, RestingContent
    <2>5. ChangedPaths(worktree) \cap TestPaths = {}
      BY <1>5, <2>2 DEF SkipCheck, Synced
    <2>6. Synced(task)' /\ ChangedPaths(worktree)' = ChangedPaths(worktree)
      BY <2>1, <2>2 DEF Synced, ChangedPaths
    <2>7. TestedInv'
      BY <2>1, <2>2, <2>4, <2>5, <2>6 DEF TestedInv
    <2> QED BY <2>4, <2>7 DEF ContentInv
  <1>6. ASSUME NEW passed \in BOOLEAN, VerifyReplay(passed)
        PROVE  ContentInv'
    BY <1>6, ReplayContent
  <1>7. CASE SkipReplay
    <2>1. /\ up /\ todo = <<>> /\ pc = "replay" /\ pc' = "capture"
          /\ UNCHANGED <<up, todo, task, durable, tested>>
          /\ ledger.reproduction = "none"
      BY <1>7 DEF SkipReplay, At
    <2>2. task = disk /\ Good(disk) /\ Synced(task)
      BY <2>1, AtRest DEF ContentInv, TestedInv
    <2>3. Good(disk)'
      BY <2>1, <2>2, GoodKept
    <2>4. RecordsInv' /\ StepsInv' /\ ClosedInv' /\ Queued' = {}
      BY <2>1, <2>2, <2>3, RestingContent
    <2>5. Synced(task)' /\ ChangedPaths(worktree)' = ChangedPaths(worktree)
      BY <2>1, <2>2 DEF Synced, ChangedPaths
    <2>6. TestedInv'
      BY <2>1, <2>4, <2>5 DEF ContentInv, TestedInv
    <2> QED BY <2>4, <2>6 DEF ContentInv
  <1>8. CASE CapturePatch
    BY <1>8, CaptureContent
  <1>9. CASE BindVerification
    BY <1>9, BindContent
  <1>10. CASE CloseVerify
    <2> DEFINE x == Close(task)
               p == running /\ task.scope # "unapproved"
    <2>1. up /\ todo = <<>> /\ pc = "close"
      BY <1>10 DEF CloseVerify, At
    <2>2. task = disk /\ Good(disk) /\ tested = {} /\ task \in Tasks
      BY <2>1, AtRest, NothingTested DEF TypeInv, TypeOK
    <2>3. /\ up' /\ pc' \notin Loaded /\ tested' = {}
          /\ UNCHANGED <<task, disk, worktree, applied>>
      BY <1>10, <2>1, <2>2 DEF CloseVerify, Loaded
    <2>4. Good(disk)' /\ Heir(x, disk)
      BY <1>10, <2>2, GoodKept, HeirClose DEF CloseVerify
    <2>5. todo' = SaveIf(p, x) \o SaveIf(running, x)
      <3>1. CASE running
        BY <1>10, <3>1, OneSave DEF CloseVerify
      <3>2. CASE ~running
        <4>1. todo' = <<>>
          BY <1>10, <3>2 DEF CloseVerify
        <4>2. SaveIf(FALSE, x) \o SaveIf(FALSE, x) = <<>>
          BY TwoSaves
        <4>3. p = FALSE /\ running = FALSE
          BY <3>2 DEF TypeInv, TypeOK
        <4> QED BY <4>1, <4>2, <4>3
      <3> QED BY <3>1, <3>2
    <2>6. p \in BOOLEAN /\ running \in BOOLEAN
      BY DEF TypeInv, TypeOK
    <2> HIDE DEF p, x
    <2> QED
      BY <2>1, <2>2, <2>3, <2>4, <2>5, <2>6, QuietTwo
  <1>11. CASE FailVerify
    <2>1. up /\ todo = <<>> /\ pc \notin {"bind", "discard"}
      BY <1>11 DEF FailVerify, At, VerifySteps
    <2>2. task = disk /\ Good(disk)
      BY <2>1, AtRest
    <2>3. /\ up' /\ pc' \notin Loaded /\ tested' = {} /\ todo' = <<>>
          /\ UNCHANGED <<task, disk, worktree, applied>>
      BY <1>11, <2>1, <2>2 DEF FailVerify, Loaded
    <2>4. Good(disk)'
      BY <1>11, <2>2, GoodKept DEF FailVerify
    <2> QED
      BY <2>1, <2>2, <2>3, <2>4, QuietNone
  <1> QED
    BY <1>1, <1>2, <1>3, <1>4, <1>5, <1>6, <1>7, <1>8, <1>9, <1>10, <1>11
    DEF VerifyNext

-----------------------------------------------------------------------------
(* The commands.                                                           *)

\* Registering the new files changes no hash a candidate is bound to.
LEMMA RegisteredKeepsGood ==
    ASSUME NEW t, Good(t), ita' = Registered, UNCHANGED <<worktree, ledger>>,
           patchFile' = patchFile \/ patchFile' = worktree
    PROVE  Good(t)'
  <1>1. /\ Registered' = Registered
        /\ ChangedPaths(worktree)' = ChangedPaths(worktree)
    BY DEF Registered, ChangedPaths
  <1>2. Verified(t) => ita' = ita /\ Hash' = Hash
    BY DEF Good, Hash
  <1>3. \A f, c : Certifies(f, c) => Certifies(f, c)'
    BY DEF Certifies
  <1> QED BY <1>1, <1>2, <1>3 DEF Good

LEMMA ApplyContent ==
    ASSUME TypeInv, ContentInv, Apply
    PROVE  ContentInv'
  <1>1. /\ up /\ todo = <<>> /\ pc = "idle" /\ pc' = "apply"
        /\ UNCHANGED <<up, task, disk, worktree, ita, patchFile, ledger,
                       tested>>
        /\ todo' = <<Moved(task, "applied")>>
        /\ applied' = patchFile /\ patchFile # None
    BY DEF Apply, Command, At, session
  <1>2. /\ task = disk /\ Good(disk) /\ tested = {} /\ disk \in Tasks
        /\ Verified(disk)
    BY <1>1, AtRest, NothingTested
    DEF TypeInv, TypeOK, Apply, BoundTo, Verified
  <1>3. PICK x : /\ todo' = <<x>> /\ x.state = "applied"
                 /\ x.changed = disk.changed
    <2>1. /\ Moved(disk, "applied").state = "applied"
          /\ Moved(disk, "applied").changed = disk.changed
      BY <1>2 DEF Moved, Tasks
    <2> QED BY <1>1, <1>2, <2>1
  <1>4. Good(disk)'
    BY <1>1, <1>2, GoodKept
  <1>5. Good(x)'
    BY <1>1, <1>2, <1>3 DEF Good, Verified
  <1>6. Queued' = {x} /\ Len(todo') = 1 /\ todo' # <<>> /\ Head(todo') = x
    <2>1. Queued' = Records(todo')
      BY DEF Queued, Records
    <2>2. Len(<<x>>) = 1 /\ <<x>> # <<>> /\ Head(<<x>>) = x
      OBVIOUS
    <2> QED BY <1>3, <2>1, <2>2, RecordsOf
  <1>7. RecordsInv'
    BY <1>1, <1>4, <1>5, <1>6 DEF RecordsInv
  <1>8. ClosedInv'
    <2>1. applied' = worktree' /\ disk'.state = "ready_to_apply"
      BY <1>1, <1>2 DEF Good, Verified
    <2> QED
      BY <1>1, <1>2, <1>3, <1>6, <2>1 DEF ClosedInv, Terminal, Verified
  <1>9. StepsInv' /\ TestedInv'
    BY <1>1, <1>2, QuietSteps, QuietTested DEF Loaded
  <1> QED BY <1>7, <1>8, <1>9 DEF ContentInv

LEMMA DiscardContent ==
    ASSUME TypeInv, ContentInv, Discard
    PROVE  ContentInv'
  <1>1. /\ up /\ todo = <<>> /\ pc = "idle" /\ pc' = "discard"
        /\ UNCHANGED <<up, todo, disk, worktree, ledger, applied, tested>>
        /\ ita' = Registered /\ task.state \notin Terminal
        /\ \/ UNCHANGED task
           \/ task' = [task EXCEPT !.patch = TRUE]
        /\ patchFile' = patchFile \/ patchFile' = worktree
        /\ ChangedPaths(worktree) # {} => patchFile' = worktree
    BY DEF Discard, Command, At, session, NewPatch
  <1>2. task = disk /\ Good(disk) /\ tested = {} /\ task \in Tasks
    BY <1>1, AtRest, NothingTested DEF TypeInv, TypeOK
  <1>3. Good(disk)'
    BY <1>1, <1>2, RegisteredKeepsGood
  <1>4. Queued' = {} /\ Len(todo') <= 2
    BY <1>1, RecordsOf DEF Queued, Records
  <1>5. RecordsInv'
    BY <1>1, <1>2, <1>3, <1>4 DEF RecordsInv
  <1>6. task'.state = task.state
    BY <1>1, <1>2, PatchedRecord
  <1>7. ChangedPaths(worktree)' = ChangedPaths(worktree)
    BY <1>1 DEF ChangedPaths
  <1>8. StepsInv' /\ TestedInv' /\ ClosedInv'
    BY <1>1, <1>2, <1>4, <1>6, <1>7 DEF StepsInv, TestedInv, ClosedInv
  <1> QED BY <1>5, <1>8 DEF ContentInv

LEMMA CommitDiscardContent ==
    ASSUME TypeInv, ContentInv, CommitDiscard
    PROVE  ContentInv'
  <1>1. /\ up /\ todo = <<>> /\ pc = "discard" /\ pc' = "shutdown"
        /\ UNCHANGED <<up, task, disk, worktree, ita, patchFile, ledger,
                       applied, tested>>
        /\ todo' = <<Moved(task, "discarded")>>
    BY DEF CommitDiscard, At, durable, session
  <1>2. /\ Good(disk) /\ tested = {} /\ task \in Tasks /\ disk \in Tasks
        /\ task.state = disk.state /\ task.changed = disk.changed
        /\ task.state \notin Terminal
        /\ ChangedPaths(worktree) # {} => patchFile = worktree
    <2>1. task = disk \/ task = [disk EXCEPT !.patch = TRUE]
      BY <1>1 DEF ContentInv, RecordsInv
    <2> QED
      BY <1>1, <2>1, PatchedRecord, NothingTested
      DEF TypeInv, TypeOK, ContentInv, RecordsInv, StepsInv
  <1>3. PICK x : /\ todo' = <<x>> /\ x.state = "discarded"
                 /\ x.changed = disk.changed
    <2>1. /\ Moved(task, "discarded").state = "discarded"
          /\ Moved(task, "discarded").changed = disk.changed
      BY <1>2 DEF Moved, Tasks
    <2> QED BY <1>1, <2>1
  <1>4. Good(disk)'
    BY <1>1, <1>2, GoodKept
  <1>5. Good(x)'
    <2>1. ChangedPaths(worktree)' = ChangedPaths(worktree)
      BY <1>1 DEF ChangedPaths
    <2> QED BY <1>1, <1>2, <1>3, <2>1 DEF Good, Verified
  <1>6. Queued' = {x} /\ Len(todo') = 1 /\ todo' # <<>> /\ Head(todo') = x
    <2>1. Queued' = Records(todo')
      BY DEF Queued, Records
    <2>2. Len(<<x>>) = 1 /\ <<x>> # <<>> /\ Head(<<x>>) = x
      OBVIOUS
    <2> QED BY <1>3, <2>1, <2>2, RecordsOf
  <1>7. RecordsInv'
    BY <1>1, <1>4, <1>5, <1>6 DEF RecordsInv
  <1>8. ClosedInv'
    BY <1>1, <1>2, <1>3, <1>6 DEF ClosedInv, Verified
  <1>9. StepsInv' /\ TestedInv'
    BY <1>1, <1>2, QuietSteps, QuietTested DEF Loaded
  <1> QED BY <1>7, <1>8, <1>9 DEF ContentInv

LEMMA CommandContent ==
    ASSUME TypeInv, ContentInv, CommandNext, Undisturbed
    PROVE  ContentInv'
  <1> USE DEF session, durable
  <1>1. CASE Diff
    <2>1. up /\ todo = <<>> /\ pc = "idle"
      BY <1>1 DEF Diff, Command, At
    <2>2. task = disk /\ Good(disk) /\ tested = {}
      BY <2>1, AtRest, NothingTested
    <2>3. /\ up' /\ pc' \notin Loaded /\ tested' = {} /\ todo' = <<>>
          /\ UNCHANGED <<task, disk, worktree, applied>>
      BY <1>1, <2>1, <2>2 DEF Diff, Loaded
    <2>4. Good(disk)'
      BY <1>1, <2>2, RegisteredKeepsGood DEF Diff
    <2> QED
      BY <2>1, <2>2, <2>3, <2>4, QuietNone
  <1>2. CASE Apply
    BY <1>2, ApplyContent
  <1>3. CASE RollBack
    BY <1>3 DEF RollBack, Undisturbed
  <1>4. CASE EndApply
    <2>1. up /\ todo = <<>> /\ pc = "apply"
      BY <1>4 DEF EndApply, At
    <2>2. task = disk /\ Good(disk) /\ tested = {}
      BY <2>1, AtRest, NothingTested
    <2>3. /\ up' /\ pc' \notin Loaded /\ tested' = {} /\ todo' = <<>>
          /\ UNCHANGED <<task, disk, worktree, applied>>
      BY <1>4, <2>1, <2>2 DEF EndApply, Loaded
    <2>4. Good(disk)'
      BY <1>4, <2>2, GoodKept DEF EndApply
    <2> QED
      BY <2>1, <2>2, <2>3, <2>4, QuietNone
  <1>5. CASE Discard
    BY <1>5, DiscardContent
  <1>6. CASE CommitDiscard
    BY <1>6, CommitDiscardContent
  <1>7. CASE Shutdown
    <2>1. todo' = <<>> /\ UNCHANGED durable
      BY <1>7 DEF Shutdown, At
    <2> QED BY <1>7, <2>1, EndContent DEF Shutdown
  <1> QED
    BY <1>1, <1>2, <1>3, <1>4, <1>5, <1>6, <1>7 DEF CommandNext

LEMMA StutterContent ==
    ASSUME ContentInv, UNCHANGED vars
    PROVE  ContentInv'
  <1> USE DEF vars, durable, session
  <1>1. Queued' = Queued /\ (\A t \in Queued : Good(t) => Good(t)')
    BY GoodKept DEF Queued, Records
  <1>2. Good(disk)' /\ (\A t \in Queued : Good(t))'
    BY <1>1, GoodKept DEF ContentInv, RecordsInv
  <1>3. Registered' = Registered
    BY DEF Registered
  <1> QED
    BY <1>1, <1>2, <1>3
    DEF ContentInv, RecordsInv, StepsInv, TestedInv, ClosedInv, Synced

LEMMA InitContent ==
    ASSUME Init PROVE ContentInv
  <1>1. Queued = {} /\ Len(todo) <= 2
    BY RecordsOf DEF Init, Queued, Records
  <1>2. Good(disk)
    BY DEF Init, NewTask, NewLedger, Good, Verified
  <1> QED
    BY <1>1, <1>2
    DEF Init, ContentInv, RecordsInv, StepsInv, TestedInv, ClosedInv, NewTask,
        Terminal

LEMMA ContentInvariant ==
    ASSUME Undisturbed
    PROVE  Spec => []ContentInv
  <1>1. Init => ContentInv
    BY InitContent
  <1>2. TypeInv /\ ContentInv /\ [Next]_vars => ContentInv'
    <2>1. ~OutsideEdit
      BY DEF OutsideEdit, Undisturbed
    <2> QED
      BY <2>1, StoreContent, RequestContent, EditContent, FinishContent,
         VerifyContent, CommandContent, StutterContent DEF Next
  <1> QED
    BY <1>1, <1>2, TypesInvariant, PTL DEF Spec

-----------------------------------------------------------------------------
(* What the run of the content properties checks.                          *)

\* A task.json that says ready_to_apply belongs to a patch.diff with the
\* content its verification is bound to, and every check and replay it rests
\* on ran on exactly that content, cached answers included.
THEOREM ReadyCorrectness ==
    ASSUME Undisturbed
    PROVE  Spec => []ReadyIsCertified
  <1>1. TypeInv /\ ContentInv => ReadyIsCertified
    <2> SUFFICES ASSUME TypeInv, ContentInv, Verified(disk)
                 PROVE  /\ patchFile = disk.verification.hash[1]
                        /\ Certifies(disk.verification.facts, patchFile)
      BY DEF ReadyIsCertified
    <2>1. /\ disk.verification.hash = Hash /\ patchFile = worktree
          /\ Certifies(disk.verification.facts, worktree)
      BY DEF ContentInv, RecordsInv, Good
    <2>2. Hash[1] = worktree
      BY DEF Hash
    <2> QED BY <2>1, <2>2
  <1> QED
    BY <1>1, TypesInvariant, ContentInvariant, PTL

\* A candidate is withdrawn on disk before the worktree moves away from it,
\* wherever an edit is cut off.
THEOREM WithdrawalCorrectness ==
    ASSUME Undisturbed
    PROVE  Spec => []WithdrawnBeforeEdit
  <1>1. ContentInv => WithdrawnBeforeEdit
    BY DEF ContentInv, RecordsInv, Good, WithdrawnBeforeEdit, BoundTo,
           Verified
  <1> QED
    BY <1>1, ContentInvariant, PTL

\* /discard leaves the last content of the worktree in patch.diff.
THEOREM DiscardCorrectness ==
    ASSUME Undisturbed
    PROVE  Spec => []DiscardKeepsDiff
  <1>1. ContentInv => DiscardKeepsDiff
    BY DEF ContentInv, RecordsInv, Good, DiscardKeepsDiff
  <1> QED
    BY <1>1, ContentInvariant, PTL

\* Only /apply and its roll back change the target.
LEMMA AppliedFrame ==
    ASSUME [Next]_vars
    PROVE  Apply \/ RollBack \/ applied' = applied
  <1> USE DEF durable, session
  <1>1. CASE StoreNext
    BY <1>1 DEF StoreNext, Save, SaveFails, Crash, OpenSession, RestoreSession
  <1>2. CASE RequestNext
    BY <1>2 DEF RequestNext, NewRequest, BeginGoal, SetObjective, Settle
  <1>3. CASE EditNext
    BY <1>3 DEF EditNext, GrantEdit, EnableWrites, ReuseGrant, StageEdit,
       PassBudget, WriteFile, AbortEdit, RecordEdit, RefreshReplay
  <1>4. CASE FinishNext
    BY <1>4 DEF FinishNext, FinishReproduced, SaveReproduction,
       IndexReproduction, FinishProposed, RevokeWrites, FinishBlocked,
       FinishDiagnosed, CheckTool
  <1>5. CASE VerifyNext
    BY <1>5 DEF VerifyNext, BeginVerify, SyncChanges, EnterVerifying,
       RunCheck, SkipCheck, VerifyReplay, SkipReplay, CapturePatch,
       BindVerification, CloseVerify, FailVerify
  <1>6. CASE CommandNext
    BY <1>6 DEF CommandNext, Diff, Apply, RollBack, EndApply, Discard,
       CommitDiscard, Shutdown
  <1>7. CASE OutsideEdit
    BY <1>7 DEF OutsideEdit
  <1>8. CASE UNCHANGED vars
    BY <1>8 DEF vars
  <1> QED
    BY <1>1, <1>2, <1>3, <1>4, <1>5, <1>6, <1>7, <1>8 DEF Next

\* /apply brings to the target only the content of the worktree, certified,
\* and within the files the user approved last.
THEOREM ApplyCorrectness ==
    ASSUME Undisturbed
    PROVE  Spec => AppliedIsCertified
  <1> DEFINE Brought ==
               applied' \notin {applied, None}
                  => /\ applied' = worktree
                     /\ Certifies(task.verification.facts, applied')
                     /\ ChangedPaths(applied') \subseteq task.allowed
  <1>1. TypeInv /\ ContentInv /\ [Next]_vars => [Brought]_vars
    <2> SUFFICES ASSUME TypeInv, ContentInv, [Next]_vars
                 PROVE  Brought
      OBVIOUS
    <2>1. CASE Apply
      <3>1. /\ up /\ todo = <<>> /\ pc = "idle" /\ applied' = patchFile
        BY <2>1 DEF Apply, Command, At
      <3>2. Verified(task) /\ Good(task)
        BY <2>1, <3>1, AtRest DEF Apply, BoundTo, Verified
      <3>3. /\ patchFile = worktree /\ task.changed = ChangedPaths(worktree)
            /\ Certifies(task.verification.facts, worktree)
        BY <3>2 DEF Good
      <3>4. task.changed \subseteq task.allowed
        BY <2>1 DEF Apply, WithinScope
      <3> QED BY <3>1, <3>3, <3>4
    <2>2. CASE RollBack
      BY <2>2 DEF RollBack
    <2>3. CASE applied' = applied
      BY <2>3
    <2> QED BY <2>1, <2>2, <2>3, AppliedFrame
  <1> QED
    BY <1>1, TypesInvariant, ContentInvariant, PTL
    DEF Spec, AppliedIsCertified

-----------------------------------------------------------------------------
(* The promise.  What RepairPromise speaks of changes in two steps only: a *)
(* save of task.json, and /apply writing to the target.                    *)

LEMMA DiskFrame ==
    ASSUME [Next]_vars
    PROVE  Save \/ disk' = disk
  <1> USE DEF durable, session
  <1>1. CASE StoreNext
    BY <1>1 DEF StoreNext, SaveFails, Crash, OpenSession, RestoreSession
  <1>2. CASE RequestNext
    BY <1>2 DEF RequestNext, NewRequest, BeginGoal, SetObjective, Settle
  <1>3. CASE EditNext
    BY <1>3 DEF EditNext, GrantEdit, EnableWrites, ReuseGrant, StageEdit,
       PassBudget, WriteFile, AbortEdit, RecordEdit, RefreshReplay
  <1>4. CASE FinishNext
    BY <1>4 DEF FinishNext, FinishReproduced, SaveReproduction,
       IndexReproduction, FinishProposed, RevokeWrites, FinishBlocked,
       FinishDiagnosed, CheckTool
  <1>5. CASE VerifyNext
    BY <1>5 DEF VerifyNext, BeginVerify, SyncChanges, EnterVerifying,
       RunCheck, SkipCheck, VerifyReplay, SkipReplay, CapturePatch,
       BindVerification, CloseVerify, FailVerify
  <1>6. CASE CommandNext
    BY <1>6 DEF CommandNext, Diff, Apply, RollBack, EndApply, Discard,
       CommitDiscard, Shutdown
  <1>7. CASE OutsideEdit
    BY <1>7 DEF OutsideEdit
  <1>8. CASE UNCHANGED vars
    BY <1>8 DEF vars
  <1> QED
    BY <1>1, <1>2, <1>3, <1>4, <1>5, <1>6, <1>7, <1>8 DEF Next

LEMMA ApplyIsPromised ==
    ASSUME TypeInv, ContentInv, Apply
    PROVE  Promise!Apply
  <1>1. /\ up /\ todo = <<>> /\ pc = "idle" /\ disk' = disk
        /\ applied' = patchFile /\ patchFile # None /\ applied = None
    BY DEF Apply, Command, At, SourceUnchanged
  <1>2. Verified(disk) /\ Good(disk) /\ disk.state = "ready_to_apply"
    BY <1>1, AtRest DEF Apply, BoundTo, Verified
  <1>3. disk.verification.hash[1] = patchFile
    BY <1>2 DEF Good, Hash
  <1>4. Candidate = patchFile /\ Candidate' = patchFile
    BY <1>1, <1>2, <1>3 DEF Candidate, Verified
  <1> QED
    BY <1>1, <1>2, <1>4 DEF Promise!Apply, Terminal

\* A save certifies, withdraws, closes or discards, or changes nothing the
\* promise speaks of.
LEMMA SaveIsPromised ==
    ASSUME TypeInv, ContentInv, Save
    PROVE  [Promise!Next]_Promise!vars
  <1>1. /\ todo \in Seq(Tasks) /\ todo # <<>> /\ disk' = Head(todo)
        /\ applied' = applied /\ disk \in Tasks
        /\ UNCHANGED <<worktree, ita>>
    BY DEF Save, TypeInv, TypeOK
  <1>2. /\ disk' \in Queued /\ disk' \in Tasks
        /\ Good(disk) /\ Good(disk') /\ RecordsInv /\ ClosedInv
    BY <1>1, QueueHead DEF Queued, ContentInv, RecordsInv
  <1>3. CASE disk.state \in Terminal
    <2>1. disk'.state = disk.state
      BY <1>2, <1>3 DEF ClosedInv
    <2>2. Candidate' = Candidate
      BY <1>1, <1>3, <2>1 DEF Candidate, Verified, Terminal
    <2> QED
      BY <1>1, <2>1, <2>2 DEF Promise!vars
  <1>4. CASE disk.state \notin Terminal /\ disk'.state = "applied"
    <2>1. /\ Verified(disk) /\ applied = worktree /\ applied # None
      BY <1>2, <1>4 DEF ClosedInv, Terminal
    <2>2. Candidate = applied /\ Candidate' = applied
      BY <1>1, <1>2, <1>4, <2>1 DEF Candidate, Good, Hash, Terminal
    <2>3. Promise!Close
      BY <1>1, <1>4, <2>1, <2>2 DEF Promise!Close, Terminal
    <2> QED
      BY <2>3 DEF Promise!Next
  <1>5. CASE disk.state \notin Terminal /\ disk'.state = "discarded"
    <2>1. Candidate' = None
      BY <1>5 DEF Candidate, Verified
    <2>2. Promise!Discard
      BY <1>1, <1>5, <2>1 DEF Promise!Discard, Terminal
    <2> QED
      BY <2>2 DEF Promise!Next
  <1>6. CASE disk.state \notin Terminal /\ disk'.state \notin Terminal
    <2>1. CASE ~Verified(disk')
      <3>1. Candidate' = None
        BY <1>6, <2>1 DEF Candidate, Terminal
      <3>2. Promise!Withdraw
        BY <1>1, <1>6, <3>1 DEF Promise!Withdraw
      <3> QED
        BY <3>2 DEF Promise!Next
    <2>2. CASE Verified(disk') /\ Verified(disk)
      <3>1. Candidate' = worktree /\ Candidate = worktree
        BY <1>2, <1>6, <2>2 DEF Candidate, Good, Hash, Terminal
      <3> QED
        BY <1>1, <1>6, <3>1 DEF Promise!vars
    <2>3. CASE Verified(disk') /\ ~Verified(disk)
      <3>1. applied = None
        BY <1>2, <2>3 DEF ClosedInv
      <3>2. Candidate' = worktree /\ worktree \in Contents
        BY <1>2, <1>6, <2>3
        DEF Candidate, Good, Hash, Terminal, TypeInv, TypeOK
      <3>3. Promise!Certify(worktree)
        BY <1>1, <1>6, <3>1, <3>2 DEF Promise!Certify
      <3> QED
        BY <3>2, <3>3 DEF Promise!Next
    <2> QED BY <2>1, <2>2, <2>3
  <1> QED
    BY <1>3, <1>4, <1>5, <1>6 DEF Terminal

\* Every behaviour of the handlers keeps the promise to the user: no content
\* reaches the target but the certified candidate, no candidate is certified
\* while a patch is in the target, and a closed task stays closed.
THEOREM PromiseKept ==
    ASSUME Undisturbed
    PROVE  Spec => KeepsPromise
  <1>1. Init => Promise!Init
    BY DEF Init, NewTask, Promise!Init, Candidate, Verified, Terminal
  <1>2. TypeInv /\ ContentInv /\ [Next]_vars
           => [Promise!Next]_Promise!vars
    <2> SUFFICES ASSUME TypeInv, ContentInv, [Next]_vars
                 PROVE  [Promise!Next]_Promise!vars
      OBVIOUS
    <2>1. CASE Save
      BY <2>1, SaveIsPromised
    <2>2. CASE Apply
      BY <2>2, ApplyIsPromised DEF Promise!Next
    <2>3. CASE disk' = disk /\ applied' = applied
      BY <2>3 DEF Promise!vars, Candidate
    <2> QED
      BY <2>1, <2>2, <2>3, DiskFrame, AppliedFrame
      DEF RollBack, Undisturbed, Save
  <1> QED
    BY <1>1, <1>2, TypesInvariant, ContentInvariant, PTL
    DEF Spec, KeepsPromise, Promise!Spec
=============================================================================
