--------------------------- MODULE EvalSuiteProofs ---------------------------
(***************************************************************************)
(* Theorems about EvalSuite for every set of jobs and workers, any number  *)
(* of starts and all faults: lost writes, a killed suite, and runs in      *)
(* which anything fails.                                                   *)
(***************************************************************************)
EXTENDS EvalSuite, FiniteSetTheorems, TLAPS

-----------------------------------------------------------------------------
(* The inductive invariant.                                                *)

Agents == {"none", "settled", "timeout", "infra_error"}
Failures == {"setup", "prompt", "pi", "stop", "oracle", "cleanup"}
Results == [job : Jobs, status : {"passed", "failed", "infra_error"},
            agent : Agents, failed : SUBSET Failures]
Started == Options \cup {{}}
Checkpoints == [options : Started, results : Seq(Results), failures : Seq(Jobs)]
Suites == [step : {"down", "first", "pool"}, options : Started,
           results : Seq(Results), failures : Seq(Jobs), pending : Seq(Jobs),
           queue : Seq(Checkpoints), written : Nat, rejected : BOOLEAN]
RunSteps == {"setup", "prompt", "agent", "stop", "oracle", "clean", "ended"}
RunRecords == [step : RunSteps \cup {"idle", "persist", "caught"},
               job : Jobs \cup {{}},
               agent : Agents, matched : BOOLEAN, infra : BOOLEAN,
               failed : SUBSET Failures,
               alive : BOOLEAN, ticket : Nat]

TypeInv ==
    /\ disk \in Checkpoints
    /\ suite \in Suites
    /\ worker \in [Workers -> RunRecords]
    /\ \A w \in Workers : worker[w].step # "idle" => worker[w].job \in Jobs

\* What the property says of one result.
Rightly(result) ==
    result.status = "infra_error" <=> result.failed \ Outlived(result) # {}
Honest(results) == \A k \in DOMAIN results : Rightly(results[k])

\* What can have failed in a run when it gets to a step, and what the code has
\* made of it: before the Agent's profile reports nothing, then all of it.
Straight(run) ==
    /\ run.step \in {"idle", "setup"} => run.failed = {} /\ run.alive
    /\ run.step \in {"prompt", "agent"} =>
          run.failed \subseteq {"pi"} /\ (run.alive => run.failed = {})
    /\ run.step \in {"idle", "setup", "prompt", "agent"} =>
          run.agent = "none" /\ ~run.infra
    /\ run.step = "stop" =>
          /\ run.agent \in {"settled", "timeout", "infra_error"}
          /\ run.agent = "settled" => run.failed = {}
          /\ run.agent = "timeout" => run.failed \subseteq {"pi"}
          /\ run.agent = "infra_error" => run.failed # {}
    /\ run.step \notin {"setup", "prompt", "agent", "stop"} =>
          (run.infra <=> run.failed \ Outlived(run) # {})

HonestInv ==
    /\ Honest(disk.results) /\ Honest(suite.results)
    /\ \A k \in DOMAIN suite.queue : Honest(suite.queue[k].results)
    /\ \A w \in Workers : Straight(worker[w])

\* A checkpoint that is written, or will be, has one result of a job and none
\* that failed: a failure is noted only when no further write can follow.
OneEach(results) ==
    \A j, k \in DOMAIN results : results[j].job = results[k].job => j = k
Readable(checkpoint) == checkpoint.failures = <<>> /\ OneEach(checkpoint.results)

ReadInv ==
    /\ Readable(disk)
    /\ \A k \in DOMAIN suite.queue : Readable(suite.queue[k])
    /\ OneEach(suite.results)
    /\ suite.rejected \/ suite.failures = <<>>

\* Every job waits, runs or has a result, and one of them only.
Running == {w \in Workers : worker[w].step \in RunSteps}

JobInv ==
    /\ IsInjective(suite.pending)
    /\ ToSet(suite.pending) \cap JobsOf(suite.results) = {}
    /\ \A w \in Running :
          /\ worker[w].job \in Jobs
          /\ worker[w].job \notin ToSet(suite.pending)
          /\ worker[w].job \notin JobsOf(suite.results)
          /\ \A v \in Running : worker[v].job = worker[w].job => v = w
    /\ Up => \A j \in Jobs : \/ j \in JobsOf(suite.results)
                             \/ j \in ToSet(suite.pending)
                             \/ \E w \in Running : worker[w].job = j
    /\ suite.step # "pool" => \A w \in Workers : worker[w].step = "idle"

\* The last write of the chain holds the results as they are.
LastInv ==
    Up /\ ~suite.rejected =>
        IF suite.queue = <<>> THEN disk.results = suite.results
        ELSE suite.queue[Len(suite.queue)].results = suite.results

\* A summary is of the last session, which has ended.
SummaryInv == summary # NoSummary => suite.step = "down" /\ SummaryIsTrue

EvalInv ==
    TypeInv /\ HonestInv /\ ReadInv /\ JobInv /\ LastInv /\ SummaryInv

LEMMA IdleIs == Idle \in RunRecords /\ Idle.step = "idle" /\ Straight(Idle)
  BY DEF Idle, RunRecords, Agents, Failures, Straight, Outlived

-----------------------------------------------------------------------------
(* The sequences of a session.                                             *)

\* SetToSeq lists every element of a finite set once.
LEMMA Listing ==
    ASSUME NEW S, IsFiniteSet(S)
    PROVE  /\ SetToSeq(S) \in Seq(S)
           /\ IsInjective(SetToSeq(S))
           /\ ToSet(SetToSeq(S)) = S
  <1> DEFINE n == Cardinality(S)
             F == {f \in [1 .. n -> S] : IsInjective(f)}
             s == CHOOSE f \in [1 .. n -> S] : IsInjective(f)
  <1>1. n \in Nat /\ ExistsBijection(1 .. n, S)
    BY FS_CardinalityType
  <1>2. F # {}
    BY <1>1 DEF ExistsBijection, Bijection, Injection, IsInjective
  <1>3. s \in [1 .. n -> S] /\ IsInjective(s)
    BY <1>2
  <1>4. SetToSeq(S) = s
    BY DEF SetToSeq
  <1> HIDE DEF s
  <1>5. s \in Injection(1 .. n, S)
    BY <1>3 DEF Injection, IsInjective
  <1>6. IsFiniteSet(1 .. n) /\ Cardinality(1 .. n) = n
    BY <1>1, FS_Interval
  <1>7. s \in Surjection(1 .. n, S)
    BY <1>5, <1>6, FS_Injection
  <1>8. s \in Seq(S)
    BY <1>1, <1>3
  <1>9. ToSet(s) = S
    BY <1>3, <1>7 DEF ToSet, Surjection
  <1> QED
    BY <1>3, <1>4, <1>8, <1>9

LEMMA JobsAreFinite == IsFiniteSet(Jobs)
  BY EvalAssumption

\* The jobs of results that are of one job each are as many.
LEMMA JobsOfEach ==
    ASSUME NEW results \in Seq(Results), OneEach(results)
    PROVE  /\ [k \in DOMAIN results |-> results[k].job] \in Seq(Jobs)
           /\ IsInjective([k \in DOMAIN results |-> results[k].job])
           /\ Len([k \in DOMAIN results |-> results[k].job]) = Len(results)
           /\ Len(results) <= Cardinality(Jobs)
           /\ IsFiniteSet(ToSet(results))
  <1> DEFINE n == Len(results)
             jobs == [k \in DOMAIN results |-> results[k].job]
  <1>1. n \in Nat /\ DOMAIN results = 1 .. n
        /\ \A k \in 1 .. n : results[k] \in Results
    OBVIOUS
  <1>2. jobs \in [1 .. n -> Jobs]
    BY <1>1 DEF Results
  <1>3. IsInjective(jobs)
    BY DEF OneEach, IsInjective
  <1>4. jobs \in Injection(1 .. n, Jobs)
    BY <1>2, <1>3 DEF Injection, IsInjective
  <1>5. Cardinality(1 .. n) = n /\ IsFiniteSet(1 .. n)
    <2>1. n \in Nat
      BY <1>1
    <2> HIDE DEF n
    <2> QED
      BY <2>1, FS_Interval
  <1>6. n <= Cardinality(Jobs)
    BY <1>4, <1>5, JobsAreFinite, FS_Injection
  <1>7. jobs \in Seq(Jobs) /\ Len(jobs) = n
    BY <1>1, <1>2
  <1>8. results \in Surjection(1 .. n, ToSet(results))
    BY <1>1 DEF Surjection, ToSet
  <1>9. IsFiniteSet(ToSet(results))
    BY <1>5, <1>8, FS_Surjection
  <1> QED
    BY <1>3, <1>6, <1>7, <1>9

\* What is readable can be resumed.
LEMMA ReadableIsCompatible ==
    ASSUME NEW checkpoint \in Checkpoints, Readable(checkpoint)
    PROVE  Compatible(checkpoint, checkpoint.options)
  <1> DEFINE results == checkpoint.results
             own == [k \in DOMAIN results |-> results[k].job]
             jobs == own \o checkpoint.failures
  <1>1. results \in Seq(Results) /\ OneEach(results) /\ checkpoint.failures = <<>>
    BY DEF Checkpoints, Readable
  <1>2. own \in Seq(Jobs) /\ IsInjective(own) /\ Len(own) = Len(results)
        /\ Len(results) <= Cardinality(Jobs)
    BY <1>1, JobsOfEach
  <1> HIDE DEF own
  <1>3. jobs = own
    BY <1>1, <1>2
  <1>4. ToSet(own) \subseteq Jobs
    BY <1>2 DEF ToSet
  <1> QED
    BY <1>2, <1>3, <1>4 DEF Compatible, own

-----------------------------------------------------------------------------
(* A session begins.                                                       *)

\* What a start takes over from the checkpoint.
LEMMA TakenOver ==
    ASSUME EvalInv, NEW R,
           R = SetToSeq(Concluded(disk.results)) \/ R = <<>>
    PROVE  /\ R \in Seq(Results) /\ OneEach(R) /\ Honest(R)
           /\ Concluded(R) = ToSet(R)
           /\ R = SetToSeq(Concluded(disk.results))
                 => ToSet(R) = Concluded(disk.results)
  <1>1. disk.results \in Seq(Results) /\ OneEach(disk.results)
        /\ Honest(disk.results)
    BY DEF EvalInv, TypeInv, Checkpoints, ReadInv, Readable, HonestInv
  <1>2. CASE R = <<>> /\ R # SetToSeq(Concluded(disk.results))
    <2>1. DOMAIN R = {} /\ R \in Seq(Results)
      BY <1>2
    <2> QED
      BY <1>2, <2>1 DEF OneEach, Honest, Concluded, ToSet
  <1>3. CASE R = SetToSeq(Concluded(disk.results))
    <2> DEFINE C == Concluded(disk.results)
    <2>1. C \subseteq ToSet(disk.results)
      BY DEF Concluded
    <2>2. IsFiniteSet(C)
      <3>1. IsFiniteSet(ToSet(disk.results))
        BY <1>1, JobsOfEach
      <3> QED
        BY <2>1, <3>1, FS_Subset
    <2> HIDE DEF C
    <2>3. R \in Seq(C) /\ IsInjective(R) /\ ToSet(R) = C
      BY <1>3, <2>2, Listing DEF C
    <2>4. \A r \in C : /\ r \in Results /\ r.status # "infra_error" /\ Rightly(r)
                       /\ \E a \in DOMAIN disk.results : r = disk.results[a]
      <3> TAKE r \in C
      <3>1. r \in ToSet(disk.results) /\ r.status # "infra_error"
        BY DEF C, Concluded
      <3>2. PICK a \in DOMAIN disk.results : r = disk.results[a]
        BY <3>1 DEF ToSet
      <3>3. r \in Results
        BY <1>1, <3>2
      <3> QED
        BY <1>1, <3>1, <3>2, <3>3 DEF Honest
    <2>5. \A k \in DOMAIN R : R[k] \in C
      BY <2>3
    <2>6. R \in Seq(Results)
      BY <2>3, <2>4
    <2>7. ASSUME NEW j \in DOMAIN R, NEW k \in DOMAIN R, R[j].job = R[k].job
          PROVE  j = k
      <3>1. PICK a \in DOMAIN disk.results : R[j] = disk.results[a]
        BY <2>4, <2>5
      <3>2. PICK b \in DOMAIN disk.results : R[k] = disk.results[b]
        BY <2>4, <2>5
      <3>3. a = b
        BY <1>1, <2>7, <3>1, <3>2 DEF OneEach
      <3> QED
        BY <2>3, <3>1, <3>2, <3>3 DEF IsInjective
    <2>8. OneEach(R)
      BY <2>7 DEF OneEach
    <2>9. Honest(R)
      BY <2>4, <2>5 DEF Honest
    <2>10. Concluded(R) = ToSet(R)
      BY <2>3, <2>4 DEF Concluded
    <2> QED
      BY <2>3, <2>6, <2>8, <2>9, <2>10 DEF C
  <1> QED
    BY <1>2, <1>3

LEMMA DownIs ==
    /\ Down \in Suites
    /\ Down.step = "down" /\ Down.results = <<>> /\ Down.failures = <<>>
    /\ Down.pending = <<>> /\ Down.queue = <<>> /\ ~Down.rejected
  <1>1. PICK e : e = <<>>
    OBVIOUS
  <1>2. e \in Seq(Jobs) /\ e \in Seq(Results) /\ e \in Seq(Checkpoints)
    BY <1>1
  <1>3. Down = [step |-> "down", options |-> {}, results |-> e, failures |-> e,
                pending |-> e, queue |-> e, written |-> 0, rejected |-> FALSE]
    BY <1>1 DEF Down
  <1>4. Down \in Suites
    BY <1>2, <1>3 DEF Suites, Started
  <1>5. /\ Down.step = "down" /\ Down.results = e /\ Down.failures = e
        /\ Down.pending = e /\ Down.queue = e /\ ~Down.rejected
    BY <1>3
  <1> QED
    BY <1>1, <1>4, <1>5

LEMMA StartKeeps ==
    ASSUME EvalInv, NEW options \in Options, Start(options)
    PROVE  EvalInv'
  <1>1. PICK R : /\ R = SetToSeq(Concluded(disk.results)) \/ R = <<>>
                 /\ suite' = PersistCheckpoint([Down EXCEPT
                       !.step = "first", !.options = options, !.results = R,
                       !.pending = PendingJobs(R)])
    BY DEF Start
  <1>2. /\ R \in Seq(Results) /\ OneEach(R) /\ Honest(R)
        /\ Concluded(R) = ToSet(R)
    BY <1>1, TakenOver
  <1>3. PICK P : P = PendingJobs(R)
    OBVIOUS
  <1>4. P \in Seq(Jobs) /\ IsInjective(P) /\ ToSet(P) = Jobs \ JobsOf(R)
    <2>1. {r.job : r \in Concluded(R)} = JobsOf(R)
      BY <1>2 DEF ToSet, JobsOf
    <2>2. P = SetToSeq(Jobs \ JobsOf(R))
      BY <1>3, <2>1 DEF PendingJobs
    <2>3. IsFiniteSet(Jobs \ JobsOf(R))
      BY JobsAreFinite, FS_Difference
    <2>4. /\ P \in Seq(Jobs \ JobsOf(R)) /\ IsInjective(P)
          /\ ToSet(P) = Jobs \ JobsOf(R)
      BY <2>2, <2>3, Listing
    <2> QED
      BY <2>4
  <1>5. PICK shot : shot = [options |-> options, results |-> R, failures |-> <<>>]
    OBVIOUS
  <1>6. shot \in Checkpoints /\ Readable(shot) /\ shot.results = R
    <2>1. <<>> \in Seq(Jobs)
      OBVIOUS
    <2> QED
      BY <1>2, <1>5, <2>1 DEF Checkpoints, Readable, Started
  <1>7. PICK q : q = <<shot>>
    OBVIOUS
  <1>8. /\ q \in Seq(Checkpoints) /\ DOMAIN q = {1} /\ q # <<>> /\ Len(q) = 1
        /\ q[1] = shot
    BY <1>6, <1>7
  <1>9. /\ suite' \in Suites
        /\ suite'.step = "first" /\ suite'.results = R /\ suite'.failures = <<>>
        /\ suite'.pending = P /\ suite'.queue = q /\ ~suite'.rejected
    <2> DEFINE s == [Down EXCEPT !.step = "first", !.options = options,
                                 !.results = R, !.pending = P]
    <2>1. suite' = PersistCheckpoint(s)
      BY <1>1, <1>3
    <2>2. /\ s \in Suites
          /\ s.step = "first" /\ s.results = R /\ s.failures = <<>>
          /\ s.pending = P /\ s.queue = <<>> /\ ~s.rejected
          /\ s.options = options
      BY <1>2, <1>4, DownIs DEF Suites, Started
    <2> HIDE DEF s
    <2>3. Snapshot(s) = shot
      BY <1>5, <2>2 DEF Snapshot
    <2>4. Append(<<>>, shot) = q
      BY <1>7
    <2>5. suite' = [s EXCEPT !.queue = q]
      BY <2>1, <2>2, <2>3, <2>4 DEF PersistCheckpoint
    <2> QED
      BY <1>8, <2>2, <2>5 DEF Suites
  <1>10. /\ worker' = [w \in Workers |-> Idle] /\ summary' = NoSummary
         /\ disk' = disk
    BY DEF Start
  <1>11. Idle \in RunRecords /\ Idle.step = "idle" /\ Straight(Idle)
    BY IdleIs
  <1>12. TypeInv'
    BY <1>9, <1>10, <1>11 DEF EvalInv, TypeInv
  <1>13. HonestInv'
    BY <1>2, <1>6, <1>8, <1>9, <1>10, <1>11 DEF EvalInv, HonestInv
  <1>14. ReadInv'
    BY <1>2, <1>6, <1>8, <1>9, <1>10 DEF EvalInv, ReadInv
  <1>15. JobInv'
    <2>1. \A w \in Workers : worker'[w].step = "idle"
      BY <1>10, <1>11
    <2>2. Running' = {}
      BY <2>1 DEF Running, RunSteps
    <2> QED
      BY <1>4, <1>9, <2>1, <2>2 DEF JobInv, Up
  <1>16. LastInv'
    BY <1>6, <1>8, <1>9 DEF LastInv
  <1>17. SummaryInv'
    BY <1>10 DEF SummaryInv
  <1> QED
    BY <1>12, <1>13, <1>14, <1>15, <1>16, <1>17 DEF EvalInv

-----------------------------------------------------------------------------
(* A run goes on.                                                          *)

LEMMA StillNoSummary ==
    ASSUME EvalInv, Up, summary' = summary
    PROVE  SummaryInv'
  BY DEF EvalInv, SummaryInv, Up

\* From step to step a run keeps its job, and what fails is marked.
LEMMA RunsOn ==
    ASSUME EvalInv, NEW w \in Workers, NEW run \in RunRecords,
           suite.step = "pool", worker' = [worker EXCEPT ![w] = run],
           worker[w].step \in RunSteps, run.step \in RunSteps,
           run.job = worker[w].job, Straight(run),
           UNCHANGED <<disk, suite, summary>>
    PROVE  EvalInv'
  <1>1. /\ \A v \in Workers : v # w => worker'[v] = worker[v]
        /\ worker'[w] = run
    BY DEF EvalInv, TypeInv
  <1>2. Running' = Running /\ \A v \in Workers : worker'[v].job = worker[v].job
    BY <1>1 DEF Running
  <1>3. TypeInv'
    BY <1>1 DEF EvalInv, TypeInv, RunSteps
  <1>4. HonestInv'
    BY <1>1 DEF EvalInv, HonestInv
  <1>5. ReadInv' /\ LastInv'
    BY DEF EvalInv, ReadInv, LastInv, Up
  <1>6. JobInv'
    <2>1. \A v \in Running : v \in Workers
      BY DEF Running
    <2> QED
      BY <1>2, <2>1 DEF EvalInv, JobInv, Up
  <1>7. SummaryInv'
    BY StillNoSummary DEF Up
  <1> QED
    BY <1>3, <1>4, <1>5, <1>6, <1>7 DEF EvalInv

\* A run whose result is written, or whose failure has been noted, is over.
LEMMA GoesIdle ==
    ASSUME EvalInv, NEW w \in Workers, suite.step = "pool",
           worker' = [worker EXCEPT ![w] = Idle],
           worker[w].step \in {"persist", "caught"},
           UNCHANGED <<disk, suite, summary>>
    PROVE  EvalInv'
  <1>1. Idle \in RunRecords /\ Idle.step = "idle" /\ Straight(Idle)
    BY IdleIs
  <1>2. /\ \A v \in Workers : v # w => worker'[v] = worker[v]
        /\ worker'[w] = Idle
    BY DEF EvalInv, TypeInv
  <1>3. Running' = Running /\ \A v \in Running : v \in Workers /\ v # w
    BY <1>1, <1>2 DEF Running, RunSteps
  <1>4. TypeInv'
    BY <1>1 DEF EvalInv, TypeInv
  <1>5. HonestInv'
    BY <1>1, <1>2 DEF EvalInv, HonestInv
  <1>6. ReadInv' /\ LastInv'
    BY DEF EvalInv, ReadInv, LastInv, Up
  <1>7. JobInv'
    BY <1>2, <1>3 DEF EvalInv, JobInv, Up
  <1>8. SummaryInv'
    BY StillNoSummary DEF Up
  <1> QED
    BY <1>4, <1>5, <1>6, <1>7, <1>8 DEF EvalInv

\* What the profile reports is of the Agent, and nothing else is lost by it.
LEMMA ReportedIs ==
    ASSUME NEW run \in RunRecords, NEW agent \in Agents
    PROVE  /\ Reported(run, agent) \in RunRecords
           /\ Reported(run, agent).step \in RunSteps
           /\ Reported(run, agent).step \in {"oracle", "clean"}
           /\ Reported(run, agent).job = run.job
           /\ Reported(run, agent).agent = agent
           /\ Reported(run, agent).failed = run.failed
           /\ Reported(run, agent).infra <=> agent = "infra_error"
  <1>1. PICK infra \in BOOLEAN : infra = (agent = "infra_error")
    OBVIOUS
  <1>2. PICK step \in {"oracle", "clean"} :
           step = IF agent = "settled" THEN "oracle" ELSE "clean"
    OBVIOUS
  <1>3. Reported(run, agent) =
           [run EXCEPT !.agent = agent, !.infra = infra, !.step = step]
    BY <1>1, <1>2 DEF Reported
  <1> QED
    BY <1>1, <1>2, <1>3 DEF RunRecords, RunSteps

\* A run that waits for its result to be written is what it was.
LEMMA StraightOn ==
    ASSUME NEW run \in RunRecords, Straight(run), run.step \in {"ended", "persist"},
           NEW step \in {"persist", "caught"}, NEW ticket
    PROVE  Straight([run EXCEPT !.step = step, !.ticket = ticket])
  BY DEF Straight, RunRecords, Outlived

LEMMA RunStepsKeep ==
    ASSUME EvalInv, NEW w \in Workers,
           \/ SetUp(w) \/ SetupFails(w) \/ PromptAnswered(w) \/ PromptFails(w)
           \/ PiDies(w) \/ AgentSettles(w) \/ TimesOut(w) \/ StopPi(w)
           \/ StopFails(w) \/ Judge(w) \/ OracleFails(w) \/ Clean(w)
           \/ CleanFails(w)
    PROVE  EvalInv'
  <1>1. PICK old \in RunRecords : old = worker[w] /\ Straight(old)
    BY DEF EvalInv, TypeInv, HonestInv
  <1>2. ASSUME NEW run \in RunRecords, NEW from \in RunSteps, Goes(w, from, run),
               run.step \in RunSteps, run.job = old.job,
               old.step = from => Straight(run)
        PROVE  EvalInv'
    BY <1>1, <1>2, RunsOn DEF Goes, Runs
  <1>3. CASE SetUp(w)
    <2> DEFINE run == [old EXCEPT !.step = "prompt"]
    <2>1. run \in RunRecords /\ run.step \in RunSteps /\ run.job = old.job
      BY <1>1 DEF RunRecords, RunSteps, Agents, Failures
    <2>2. Goes(w, "setup", run) /\ "setup" \in RunSteps
      BY <1>1, <1>3 DEF SetUp, RunSteps
    <2>3. old.step = "setup" => Straight(run)
      BY <1>1, <1>3 DEF SetUp, RunRecords, Failures, Straight, Outlived
    <2> HIDE DEF run
    <2> QED
      BY <1>2, <2>1, <2>2, <2>3
  <1>4. CASE SetupFails(w)
    <2> DEFINE run == [Failing(old, "setup") EXCEPT !.step = "clean",
                                                !.infra = TRUE]
    <2>1. run \in RunRecords /\ run.step \in RunSteps /\ run.job = old.job
      BY <1>1 DEF RunRecords, RunSteps, Agents, Failures, Failing
    <2>2. Goes(w, "setup", run) /\ "setup" \in RunSteps
      BY <1>1, <1>4 DEF SetupFails, RunSteps
    <2>3. old.step = "setup" => Straight(run)
      BY <1>1, <1>4 DEF SetupFails, RunRecords, Failures, Straight, Outlived, Failing
    <2> HIDE DEF run
    <2> QED
      BY <1>2, <2>1, <2>2, <2>3
  <1>5. CASE PromptAnswered(w)
    <2> DEFINE run == [old EXCEPT !.step = "agent"]
    <2>1. run \in RunRecords /\ run.step \in RunSteps /\ run.job = old.job
      BY <1>1 DEF RunRecords, RunSteps, Agents, Failures
    <2>2. Goes(w, "prompt", run) /\ "prompt" \in RunSteps
      BY <1>1, <1>5 DEF PromptAnswered, RunSteps
    <2>3. old.step = "prompt" => Straight(run)
      BY <1>1, <1>5 DEF PromptAnswered, RunRecords, Failures, Straight, Outlived
    <2> HIDE DEF run
    <2> QED
      BY <1>2, <2>1, <2>2, <2>3
  <1>6. CASE PromptFails(w)
    <2> DEFINE run == [Failing(old, "prompt") EXCEPT !.step = "stop",
                                                 !.agent = "infra_error"]
    <2>1. run \in RunRecords /\ run.step \in RunSteps /\ run.job = old.job
      BY <1>1 DEF RunRecords, RunSteps, Agents, Failures, Failing
    <2>2. Goes(w, "prompt", run) /\ "prompt" \in RunSteps
      BY <1>1, <1>6 DEF PromptFails, RunSteps
    <2>3. old.step = "prompt" => Straight(run)
      BY <1>1, <1>6 DEF PromptFails, RunRecords, Failures, Straight, Outlived, Failing
    <2> HIDE DEF run
    <2> QED
      BY <1>2, <2>1, <2>2, <2>3
  <1>7. CASE PiDies(w)
    <2>1. PICK step \in {"prompt", "agent"} :
             Goes(w, step, [Failing(old, "pi") EXCEPT !.alive = FALSE])
      BY <1>1, <1>7 DEF PiDies
    <2> DEFINE run == [Failing(old, "pi") EXCEPT !.alive = FALSE]
    <2>2. run \in RunRecords /\ run.step = old.step /\ run.job = old.job
      BY <1>1 DEF RunRecords, Failures, Failing
    <2>3. Goes(w, step, run) /\ step \in RunSteps /\ old.step = step
      BY <1>1, <2>1 DEF RunSteps, Goes, Runs
    <2>4. Straight(run)
      BY <1>1, <2>3 DEF RunRecords, Failures, Failing, Straight, Outlived
    <2> HIDE DEF run
    <2> QED
      BY <1>2, <2>2, <2>3, <2>4
  <1>8. CASE AgentSettles(w)
    <2> DEFINE run == [old EXCEPT !.step = "stop", !.agent = "settled"]
    <2>1. run \in RunRecords /\ run.step \in RunSteps /\ run.job = old.job
      BY <1>1 DEF RunRecords, RunSteps, Agents, Failures
    <2>2. Goes(w, "agent", run) /\ "agent" \in RunSteps
      BY <1>1, <1>8 DEF AgentSettles, RunSteps
    <2>3. old.step = "agent" => Straight(run)
      BY <1>1, <1>8 DEF AgentSettles, RunRecords, Failures, Straight, Outlived
    <2> HIDE DEF run
    <2> QED
      BY <1>2, <2>1, <2>2, <2>3
  <1>9. CASE TimesOut(w)
    <2> DEFINE run == [old EXCEPT !.step = "stop", !.agent = "timeout"]
    <2>1. run \in RunRecords /\ run.step \in RunSteps /\ run.job = old.job
      BY <1>1 DEF RunRecords, RunSteps, Agents, Failures
    <2>2. Goes(w, "agent", run) /\ "agent" \in RunSteps
      BY <1>1, <1>9 DEF TimesOut, RunSteps
    <2>3. old.step = "agent" => Straight(run)
      BY <1>1, <1>9 DEF TimesOut, RunRecords, Failures, Straight, Outlived
    <2> HIDE DEF run
    <2> QED
      BY <1>2, <2>1, <2>2, <2>3
  <1>10. CASE StopPi(w)
    <2> DEFINE run == Reported(old, old.agent)
    <2>1. run \in RunRecords /\ run.step \in RunSteps /\ run.job = old.job
      BY <1>1, ReportedIs DEF RunRecords
    <2>2. Goes(w, "stop", run) /\ "stop" \in RunSteps
      BY <1>1, <1>10 DEF StopPi, RunSteps
    <2>3. old.step = "stop" => Straight(run)
      BY <1>1, ReportedIs DEF RunRecords, Straight, Outlived
    <2> HIDE DEF run
    <2> QED
      BY <1>2, <2>1, <2>2, <2>3
  <1>11. CASE StopFails(w)
    <2> DEFINE hung == Failing(old, "stop")
               agent == IF old.agent = "timeout" THEN "timeout" ELSE "infra_error"
               run == Reported(hung, agent)
    <2>0. /\ hung \in RunRecords /\ hung.job = old.job /\ agent \in Agents
          /\ hung.failed = old.failed \cup {"stop"}
      BY <1>1 DEF RunRecords, Agents, Failures, Failing
    <2>1. run \in RunRecords /\ run.step \in RunSteps /\ run.job = old.job
      BY <2>0, ReportedIs
    <2>2. Goes(w, "stop", run) /\ "stop" \in RunSteps
      BY <1>1, <1>11 DEF StopFails, RunSteps
    <2>3. old.step = "stop" => Straight(run)
      <3>1. /\ run.step \in {"oracle", "clean"} /\ run.agent = agent
            /\ run.failed = old.failed \cup {"stop"}
            /\ run.infra <=> agent = "infra_error"
        BY <2>0, ReportedIs
      <3> HIDE DEF run
      <3> QED
        BY <1>1, <3>1 DEF RunRecords, Straight, Outlived
    <2> HIDE DEF run
    <2> QED
      BY <1>2, <2>1, <2>2, <2>3
  <1>12. CASE Judge(w)
    <2>1. PICK matched \in BOOLEAN :
             Goes(w, "oracle", [old EXCEPT !.step = "clean", !.matched = matched])
      BY <1>1, <1>12 DEF Judge
    <2> DEFINE run == [old EXCEPT !.step = "clean", !.matched = matched]
    <2>2. run \in RunRecords /\ run.step \in RunSteps /\ run.job = old.job
      BY <1>1 DEF RunRecords, RunSteps, Agents, Failures
    <2>3. Goes(w, "oracle", run) /\ "oracle" \in RunSteps
      BY <2>1 DEF RunSteps
    <2>4. old.step = "oracle" => Straight(run)
      BY <1>1, <1>12 DEF Judge, RunRecords, Failures, Straight, Outlived
    <2> HIDE DEF run
    <2> QED
      BY <1>2, <2>2, <2>3, <2>4
  <1>13. CASE OracleFails(w)
    <2> DEFINE run == [Failing(old, "oracle") EXCEPT !.step = "clean",
                                                 !.infra = TRUE]
    <2>1. run \in RunRecords /\ run.step \in RunSteps /\ run.job = old.job
      BY <1>1 DEF RunRecords, RunSteps, Agents, Failures, Failing
    <2>2. Goes(w, "oracle", run) /\ "oracle" \in RunSteps
      BY <1>1, <1>13 DEF OracleFails, RunSteps
    <2>3. old.step = "oracle" => Straight(run)
      BY <1>1, <1>13 DEF OracleFails, RunRecords, Failures, Straight, Outlived, Failing
    <2> HIDE DEF run
    <2> QED
      BY <1>2, <2>1, <2>2, <2>3
  <1>14. CASE Clean(w)
    <2> DEFINE run == [old EXCEPT !.step = "ended"]
    <2>1. run \in RunRecords /\ run.step \in RunSteps /\ run.job = old.job
      BY <1>1 DEF RunRecords, RunSteps, Agents, Failures
    <2>2. Goes(w, "clean", run) /\ "clean" \in RunSteps
      BY <1>1, <1>14 DEF Clean, RunSteps
    <2>3. old.step = "clean" => Straight(run)
      BY <1>1, <1>14 DEF Clean, RunRecords, Failures, Straight, Outlived
    <2> HIDE DEF run
    <2> QED
      BY <1>2, <2>1, <2>2, <2>3
  <1>15. CASE CleanFails(w)
    <2> DEFINE run == [Failing(old, "cleanup") EXCEPT !.step = "ended",
                                                  !.infra = TRUE]
    <2>1. run \in RunRecords /\ run.step \in RunSteps /\ run.job = old.job
      BY <1>1 DEF RunRecords, RunSteps, Agents, Failures, Failing
    <2>2. Goes(w, "clean", run) /\ "clean" \in RunSteps
      BY <1>1, <1>15 DEF CleanFails, RunSteps
    <2>3. old.step = "clean" => Straight(run)
      BY <1>1, <1>15 DEF CleanFails, RunRecords, Failures, Straight, Outlived, Failing
    <2> HIDE DEF run
    <2> QED
      BY <1>2, <2>1, <2>2, <2>3
  <1> QED
    BY <1>3, <1>4, <1>5, <1>6, <1>7, <1>8, <1>9, <1>10, <1>11, <1>12, <1>13,
       <1>14, <1>15

-----------------------------------------------------------------------------
(* A job is taken, and reported.                                           *)

LEMMA FirstJob ==
    ASSUME NEW p \in Seq(Jobs), p # <<>>, IsInjective(p)
    PROVE  /\ Head(p) \in Jobs /\ Tail(p) \in Seq(Jobs) /\ IsInjective(Tail(p))
           /\ Head(p) \notin ToSet(Tail(p))
           /\ ToSet(p) = ToSet(Tail(p)) \cup {Head(p)}
  <1>1. PICK n \in Nat : n = Len(p)
    OBVIOUS
  <1>2. /\ n # 0 /\ DOMAIN p = 1 .. n /\ DOMAIN Tail(p) = 1 .. n - 1
        /\ Head(p) = p[1] /\ \A k \in 1 .. n - 1 : Tail(p)[k] = p[k + 1]
        /\ Tail(p) \in Seq(Jobs) /\ Head(p) \in Jobs
    BY <1>1
  <1>3. \A k \in 1 .. n - 1 : k + 1 \in 1 .. n /\ k + 1 # 1
    BY <1>1
  <1>4. IsInjective(Tail(p))
    <2> SUFFICES ASSUME NEW a \in 1 .. n - 1, NEW b \in 1 .. n - 1,
                        Tail(p)[a] = Tail(p)[b]
                 PROVE  a = b
      BY <1>2 DEF IsInjective
    <2>1. a + 1 = b + 1
      BY <1>2, <1>3 DEF IsInjective
    <2> QED
      BY <2>1
  <1>5. Head(p) \notin ToSet(Tail(p))
    <2> SUFFICES ASSUME NEW k \in 1 .. n - 1, Head(p) = Tail(p)[k]
                 PROVE  FALSE
      BY <1>2 DEF ToSet
    <2>1. 1 \in 1 .. n /\ p[1] = p[k + 1]
      BY <1>1, <1>2
    <2> QED
      BY <1>2, <1>3, <2>1 DEF IsInjective
  <1>6. \A k \in 1 .. n : k = 1 \/ k - 1 \in 1 .. n - 1
    BY <1>1
  <1>7. \A k \in 1 .. n : k = 1 \/ p[k] = Tail(p)[k - 1]
    BY <1>1, <1>2, <1>6
  <1>8. ToSet(p) \subseteq ToSet(Tail(p)) \cup {Head(p)}
    <2> SUFFICES ASSUME NEW k \in 1 .. n
                 PROVE  p[k] = Head(p) \/ p[k] \in ToSet(Tail(p))
      BY <1>2 DEF ToSet
    <2> QED
      BY <1>2, <1>6, <1>7 DEF ToSet
  <1>9. ToSet(Tail(p)) \cup {Head(p)} \subseteq ToSet(p)
    BY <1>1, <1>2, <1>3 DEF ToSet
  <1> QED
    BY <1>2, <1>4, <1>5, <1>8, <1>9

LEMMA TakeKeeps ==
    ASSUME EvalInv, NEW w \in Workers, Take(w)
    PROVE  EvalInv'
  <1>1. PICK p : p = suite.pending
    OBVIOUS
  <1>2. p \in Seq(Jobs) /\ p # <<>> /\ IsInjective(p)
    BY <1>1 DEF EvalInv, TypeInv, Suites, JobInv, Take
  <1>3. PICK h, t : h = Head(p) /\ t = Tail(p)
    OBVIOUS
  <1>4. /\ h \in Jobs /\ t \in Seq(Jobs) /\ IsInjective(t) /\ h \notin ToSet(t)
        /\ ToSet(p) = ToSet(t) \cup {h}
    BY <1>2, <1>3, FirstJob
  <1>5. PICK run : run = [Idle EXCEPT !.step = "setup", !.job = h]
    OBVIOUS
  <1>6. /\ run \in RunRecords /\ run.step \in RunSteps /\ run.job = h
        /\ Straight(run)
    BY <1>4, <1>5 DEF Idle, RunRecords, RunSteps, Agents, Failures, Straight
  <1>7. /\ worker' = [worker EXCEPT ![w] = run] /\ worker[w].step = "idle"
        /\ suite' = [suite EXCEPT !.pending = t] /\ suite.step = "pool"
        /\ UNCHANGED <<disk, summary>>
    BY <1>1, <1>3, <1>5 DEF Take, Runs
  <1>8. /\ suite' \in Suites /\ suite'.pending = t /\ suite'.step = "pool"
        /\ suite'.results = suite.results /\ suite'.failures = suite.failures
        /\ suite'.queue = suite.queue /\ suite'.rejected = suite.rejected
    BY <1>4, <1>7 DEF EvalInv, TypeInv, Suites
  <1>9. /\ \A v \in Workers : v # w => worker'[v] = worker[v]
        /\ worker'[w] = run
    BY <1>7 DEF EvalInv, TypeInv
  <1>10. Running' = Running \cup {w} /\ w \notin Running
    BY <1>6, <1>7, <1>9 DEF Running, RunSteps
  <1>11. \A v \in Running : v \in Workers /\ v # w
    BY <1>10 DEF Running
  <1>12. TypeInv'
    BY <1>4, <1>6, <1>7, <1>8, <1>9 DEF EvalInv, TypeInv
  <1>13. HonestInv'
    BY <1>6, <1>7, <1>8, <1>9 DEF EvalInv, HonestInv
  <1>14. ReadInv' /\ LastInv'
    BY <1>7, <1>8 DEF EvalInv, ReadInv, LastInv, Up
  <1>15. JobInv'
    <2>1. /\ ToSet(p) \cap JobsOf(suite.results) = {}
          /\ \A v \in Running :
                /\ worker[v].job \in Jobs
                /\ worker[v].job \notin ToSet(p)
                /\ worker[v].job \notin JobsOf(suite.results)
                /\ \A u \in Running : worker[u].job = worker[v].job => u = v
          /\ \A j \in Jobs : \/ j \in JobsOf(suite.results)
                             \/ j \in ToSet(p)
                             \/ \E v \in Running : worker[v].job = j
      BY <1>1, <1>7 DEF EvalInv, JobInv, Up
    <2>2. \A v \in Running' :
             /\ worker'[v].job \in Jobs
             /\ worker'[v].job \notin ToSet(t)
             /\ worker'[v].job \notin JobsOf(suite.results)
             /\ \A u \in Running' : worker'[u].job = worker'[v].job => u = v
      BY <1>4, <1>6, <1>9, <1>10, <1>11, <2>1
    <2>3. \A j \in Jobs : \/ j \in JobsOf(suite.results)
                          \/ j \in ToSet(t)
                          \/ \E v \in Running' : worker'[v].job = j
      BY <1>4, <1>6, <1>9, <1>10, <1>11, <2>1
    <2> QED
      BY <1>4, <1>8, <2>1, <2>2, <2>3 DEF JobInv
  <1>16. SummaryInv'
    BY <1>7, StillNoSummary DEF Up
  <1> QED
    BY <1>12, <1>13, <1>14, <1>15, <1>16 DEF EvalInv

\* One more result, of a job that had none.
LEMMA OneMore ==
    ASSUME NEW results \in Seq(Results), NEW r \in Results, OneEach(results),
           Honest(results), r.job \notin JobsOf(results),
           Rightly(r)
    PROVE  /\ Append(results, r) \in Seq(Results)
           /\ OneEach(Append(results, r)) /\ Honest(Append(results, r))
           /\ JobsOf(Append(results, r)) = JobsOf(results) \cup {r.job}
  <1>1. PICK n \in Nat : n = Len(results)
    OBVIOUS
  <1>2. PICK s : s = Append(results, r)
    OBVIOUS
  <1>3. /\ s \in Seq(Results) /\ DOMAIN s = 1 .. n + 1 /\ DOMAIN results = 1 .. n
        /\ \A k \in 1 .. n : s[k] = results[k]
        /\ s[n + 1] = r
    BY <1>1, <1>2
  <1>4. \A k \in 1 .. n + 1 : k \in 1 .. n \/ k = n + 1
    BY <1>1
  <1>5. \A k \in 1 .. n : results[k].job # r.job
    BY <1>3 DEF JobsOf
  <1>6. OneEach(s)
    BY <1>3, <1>4, <1>5 DEF OneEach
  <1>7. Honest(s)
    BY <1>3, <1>4 DEF Honest
  <1>8. JobsOf(s) \subseteq JobsOf(results) \cup {r.job}
    BY <1>3, <1>4 DEF JobsOf
  <1>9. JobsOf(results) \cup {r.job} \subseteq JobsOf(s)
    <2>1. n + 1 \in 1 .. n + 1 /\ \A k \in 1 .. n : k \in 1 .. n + 1
      BY <1>1
    <2> QED
      BY <1>3, <2>1 DEF JobsOf
  <1> QED
    BY <1>2, <1>3, <1>6, <1>7, <1>8, <1>9

LEMMA AddedIs ==
    ASSUME NEW s \in Suites
    PROVE  LET added == PersistCheckpoint(s)
           IN  /\ added \in Suites
               /\ added.step = s.step /\ added.results = s.results
               /\ added.failures = s.failures /\ added.pending = s.pending
               /\ added.rejected = s.rejected /\ added.options = s.options
               /\ s.rejected => added.queue = s.queue
               /\ ~s.rejected => added.queue = Append(s.queue, Snapshot(s))
  <1>1. Snapshot(s) \in Checkpoints
    BY DEF Snapshot, Suites, Checkpoints
  <1>2. PICK q : q = Append(s.queue, Snapshot(s))
    OBVIOUS
  <1>3. q \in Seq(Checkpoints)
    BY <1>1, <1>2 DEF Suites
  <1>4. CASE s.rejected
    BY <1>4 DEF PersistCheckpoint
  <1>5. CASE ~s.rejected
    <2>1. PersistCheckpoint(s) = [s EXCEPT !.queue = q]
      BY <1>2, <1>5 DEF PersistCheckpoint
    <2>2. [s EXCEPT !.queue = q] \in Suites
      BY <1>3 DEF Suites
    <2> QED
      BY <1>2, <1>5, <2>1, <2>2 DEF Suites
  <1> QED
    BY <1>4, <1>5

\* The chain of writes gets one more.
LEMMA OneMoreWrite ==
    ASSUME NEW queue \in Seq(Checkpoints), NEW shot \in Checkpoints, Readable(shot),
           Honest(shot.results),
           \A k \in DOMAIN queue : Readable(queue[k]) /\ Honest(queue[k].results)
    PROVE  LET q == Append(queue, shot)
           IN  /\ \A k \in DOMAIN q : Readable(q[k]) /\ Honest(q[k].results)
               /\ q # <<>> /\ q[Len(q)] = shot
  <1>1. PICK n \in Nat : n = Len(queue)
    OBVIOUS
  <1>2. PICK q : q = Append(queue, shot)
    OBVIOUS
  <1>3. /\ q # <<>> /\ Len(q) = n + 1 /\ q[n + 1] = shot
        /\ DOMAIN q = 1 .. n + 1 /\ DOMAIN queue = 1 .. n
        /\ \A k \in 1 .. n : q[k] = queue[k]
    BY <1>1, <1>2
  <1>4. \A k \in 1 .. n + 1 : k \in 1 .. n \/ k = n + 1
    BY <1>1
  <1>5. \A k \in DOMAIN q : Readable(q[k]) /\ Honest(q[k].results)
    BY <1>3, <1>4
  <1> QED
    BY <1>2, <1>3, <1>5

LEMMA ResultIs ==
    ASSUME NEW run \in RunRecords, run.job \in Jobs, Straight(run),
           run.step = "ended"
    PROVE  /\ Result(run) \in Results /\ Result(run).job = run.job
           /\ Rightly(Result(run))
  <1>1. /\ Status(run) \in {"passed", "failed", "infra_error"}
        /\ Status(run) = "infra_error" <=> run.infra
    BY DEF Status, RunRecords
  <1>2. run.infra <=> run.failed \ Outlived(run) # {}
    BY DEF Straight
  <1> QED
    BY <1>1, <1>2 DEF Result, Results, RunRecords, Rightly, Outlived

LEMMA TicketIs ==
    ASSUME NEW s \in Suites
    PROVE  Ticket(s) \in Nat /\ s.written + 1 \in Nat
  BY DEF Ticket, Suites

LEMMA ReportKeeps ==
    ASSUME EvalInv, NEW w \in Workers, Report(w)
    PROVE  EvalInv'
  <1>0. worker[w].step = "ended" /\ suite.step = "pool"
        /\ UNCHANGED <<disk, summary>>
    BY DEF Report, Runs
  <1>1. /\ w \in Running /\ worker[w] \in RunRecords /\ suite \in Suites
        /\ Straight(worker[w])
    BY <1>0 DEF Running, RunSteps, EvalInv, TypeInv, HonestInv
  <1>2. PICK job : job = worker[w].job
    OBVIOUS
  <1>3. /\ job \in Jobs /\ job \notin ToSet(suite.pending)
        /\ job \notin JobsOf(suite.results)
        /\ \A v \in Running : worker[v].job = job => v = w
    BY <1>1, <1>2 DEF EvalInv, JobInv
  <1>4. PICK r : r = Result(worker[w])
    OBVIOUS
  <1>5. /\ r \in Results /\ r.job = job
        /\ Rightly(r)
    BY <1>0, <1>1, <1>2, <1>3, <1>4, ResultIs
  <1>6. PICK rs : rs = Append(suite.results, r)
    OBVIOUS
  <1>7. /\ rs \in Seq(Results) /\ OneEach(rs) /\ Honest(rs)
        /\ JobsOf(rs) = JobsOf(suite.results) \cup {job}
    <2>1. /\ suite.results \in Seq(Results) /\ OneEach(suite.results)
          /\ Honest(suite.results)
      BY DEF EvalInv, TypeInv, Suites, ReadInv, HonestInv
    <2> QED
      BY <1>3, <1>5, <1>6, <2>1, OneMore
  <1>8. PICK s : s = [suite EXCEPT !.results = rs]
    OBVIOUS
  <1>9. /\ s \in Suites /\ s.results = rs /\ s.step = "pool"
        /\ s.failures = suite.failures /\ s.pending = suite.pending
        /\ s.queue = suite.queue /\ s.rejected = suite.rejected
    BY <1>0, <1>1, <1>7, <1>8 DEF Suites
  <1>10. suite' = PersistCheckpoint(s)
    BY <1>4, <1>6, <1>8 DEF Report
  <1>11. /\ suite' \in Suites /\ suite'.step = "pool" /\ suite'.results = rs
         /\ suite'.failures = suite.failures /\ suite'.pending = suite.pending
         /\ suite'.rejected = suite.rejected
         /\ suite.rejected => suite'.queue = suite.queue
         /\ ~suite.rejected => suite'.queue = Append(suite.queue, Snapshot(s))
    BY <1>9, <1>10, AddedIs
  <1>12. PICK ticket \in Nat :
            worker' = [worker EXCEPT ![w] = [@ EXCEPT !.step = "persist",
                                                      !.ticket = ticket]]
    <2>1. suite'.written \in Nat /\ suite.written + 1 \in Nat /\ Ticket(suite') \in Nat
      BY <1>1, <1>11, TicketIs DEF Suites
    <2> QED
      BY <1>4, <1>6, <1>8, <1>10, <2>1 DEF Report, Runs
  <1>13. /\ \A v \in Workers : v # w => worker'[v] = worker[v]
         /\ worker'[w] \in RunRecords /\ worker'[w].step = "persist"
         /\ worker'[w].job = worker[w].job
         /\ Straight(worker'[w])
         /\ worker' \in [Workers -> RunRecords]
    BY <1>0, <1>1, <1>12, StraightOn DEF EvalInv, TypeInv, RunRecords
  <1>14. /\ \A k \in DOMAIN suite'.queue :
               Readable(suite'.queue[k]) /\ Honest(suite'.queue[k].results)
         /\ ~suite.rejected =>
               /\ suite'.queue # <<>>
               /\ suite'.queue[Len(suite'.queue)].results = rs
    <2>1. /\ suite.queue \in Seq(Checkpoints)
          /\ \A k \in DOMAIN suite.queue :
                Readable(suite.queue[k]) /\ Honest(suite.queue[k].results)
      BY DEF EvalInv, TypeInv, Suites, ReadInv, HonestInv
    <2>2. CASE suite.rejected
      BY <1>11, <2>1, <2>2
    <2>3. CASE ~suite.rejected
      <3>1. PICK shot : shot = Snapshot(s)
        OBVIOUS
      <3>2. suite.failures = <<>>
        BY <2>3 DEF EvalInv, ReadInv
      <3>3. shot \in Checkpoints /\ shot.results = rs /\ shot.failures = <<>>
        BY <1>9, <3>1, <3>2 DEF Snapshot, Suites, Checkpoints
      <3>4. Readable(shot) /\ Honest(shot.results)
        BY <1>7, <3>3 DEF Readable
      <3> QED
        BY <1>11, <2>1, <2>3, <3>1, <3>3, <3>4, OneMoreWrite
    <2> QED
      BY <2>2, <2>3
  <1>15. TypeInv'
    BY <1>0, <1>2, <1>3, <1>11, <1>13 DEF EvalInv, TypeInv
  <1>16. HonestInv'
    BY <1>0, <1>7, <1>11, <1>13, <1>14 DEF EvalInv, HonestInv
  <1>17. ReadInv'
    BY <1>0, <1>7, <1>11, <1>14 DEF EvalInv, ReadInv
  <1>18. LastInv'
    BY <1>11, <1>14 DEF LastInv
  <1>19. Running' = Running \ {w} /\ \A v \in Running' : v \in Workers /\ v # w
    BY <1>1, <1>13 DEF Running, RunSteps
  <1>20. JobInv'
    <2>1. /\ IsInjective(suite.pending)
          /\ ToSet(suite.pending) \cap JobsOf(suite.results) = {}
          /\ \A v \in Running :
                /\ worker[v].job \in Jobs
                /\ worker[v].job \notin ToSet(suite.pending)
                /\ worker[v].job \notin JobsOf(suite.results)
                /\ \A u \in Running : worker[u].job = worker[v].job => u = v
          /\ \A j \in Jobs : \/ j \in JobsOf(suite.results)
                             \/ j \in ToSet(suite.pending)
                             \/ \E v \in Running : worker[v].job = j
      BY <1>0 DEF EvalInv, JobInv, Up
    <2>2. ToSet(suite.pending) \cap JobsOf(rs) = {}
      BY <1>3, <1>7, <2>1
    <2>3. \A v \in Running' :
             /\ worker'[v].job \in Jobs
             /\ worker'[v].job \notin ToSet(suite.pending)
             /\ worker'[v].job \notin JobsOf(rs)
             /\ \A u \in Running' : worker'[u].job = worker'[v].job => u = v
      BY <1>3, <1>7, <1>13, <1>19, <2>1
    <2>4. \A j \in Jobs : \/ j \in JobsOf(rs)
                          \/ j \in ToSet(suite.pending)
                          \/ \E v \in Running' : worker'[v].job = j
      BY <1>2, <1>7, <1>13, <1>19, <2>1
    <2> QED
      BY <1>11, <2>1, <2>2, <2>3, <2>4 DEF JobInv
  <1>21. SummaryInv'
    BY <1>0, StillNoSummary DEF Up
  <1> QED
    BY <1>15, <1>16, <1>17, <1>18, <1>20, <1>21 DEF EvalInv

\* A failure is noted when no write can follow.
LEMMA FailureKeeps ==
    ASSUME EvalInv, NEW w \in Workers, PersistFails(w)
    PROVE  EvalInv'
  <1>1. /\ suite \in Suites /\ worker[w] \in RunRecords /\ suite.rejected
        /\ worker[w].step = "persist" /\ suite.step = "pool"
        /\ UNCHANGED <<disk, summary>>
    BY DEF PersistFails, Runs, Lost, EvalInv, TypeInv
  <1>2. PICK fs : fs = Append(suite.failures, worker[w].job)
    OBVIOUS
  <1>3. PICK s : s = [suite EXCEPT !.failures = fs]
    OBVIOUS
  <1>4. s.rejected /\ s.results = suite.results /\ s.pending = suite.pending
        /\ s.queue = suite.queue /\ s.step = "pool" /\ s.written = suite.written
    BY <1>1, <1>3 DEF Suites
  <1>5. PersistCheckpoint(s) = s
    BY <1>4 DEF PersistCheckpoint
  <1>6. suite' = s
    BY <1>2, <1>3, <1>5 DEF PersistFails
  <1>7. fs \in Seq(Jobs)
    <2>1. worker[w].job \in Jobs
      BY <1>1 DEF EvalInv, TypeInv
    <2> QED
      BY <1>1, <1>2, <2>1 DEF Suites
  <1>8. suite' \in Suites
    BY <1>1, <1>3, <1>6, <1>7 DEF Suites
  <1>9. PICK ticket \in Nat :
            worker' = [worker EXCEPT ![w] = [@ EXCEPT !.step = "caught",
                                                      !.ticket = ticket]]
    <2>1. suite.written + 1 \in Nat
      BY <1>1, TicketIs
    <2> QED
      BY <1>2, <1>3, <1>4, <1>5, <2>1 DEF PersistFails, Runs
  <1>10. /\ \A v \in Workers : v # w => worker'[v] = worker[v]
         /\ worker'[w] \in RunRecords /\ worker'[w].step = "caught"
         /\ Straight(worker'[w])
         /\ worker'[w].job = worker[w].job
         /\ worker' \in [Workers -> RunRecords]
    BY <1>1, <1>9, StraightOn DEF EvalInv, TypeInv, HonestInv, RunRecords
  <1>11. TypeInv'
    BY <1>1, <1>8, <1>10 DEF EvalInv, TypeInv
  <1>12. HonestInv' /\ ReadInv'
    BY <1>1, <1>4, <1>6, <1>10 DEF EvalInv, HonestInv, ReadInv
  <1>13. LastInv'
    BY <1>4, <1>6, <1>1 DEF LastInv
  <1>14. Running' = Running /\ \A v \in Running : v \in Workers /\ v # w
    BY <1>1, <1>10 DEF Running, RunSteps
  <1>15. JobInv'
    BY <1>1, <1>4, <1>6, <1>10, <1>14 DEF EvalInv, JobInv, Up
  <1>16. SummaryInv'
    BY <1>1, StillNoSummary DEF Up
  <1> QED
    BY <1>11, <1>12, <1>13, <1>15, <1>16 DEF EvalInv

-----------------------------------------------------------------------------
(* The chain of writes, and the end of a session.                          *)

LEMMA WriteKeeps ==
    ASSUME EvalInv, Write
    PROVE  EvalInv'
  <1>1. /\ suite \in Suites /\ suite.queue \in Seq(Checkpoints)
        /\ suite.queue # <<>> /\ Up /\ UNCHANGED <<worker, summary>>
    BY DEF Write, EvalInv, TypeInv, Suites
  <1>2. PICK q, n : q = Tail(suite.queue) /\ n = Len(suite.queue)
    OBVIOUS
  <1>3. /\ n \in Nat \ {0} /\ DOMAIN suite.queue = 1 .. n /\ DOMAIN q = 1 .. n - 1
        /\ q \in Seq(Checkpoints) /\ Len(q) = n - 1
        /\ Head(suite.queue) = suite.queue[1]
        /\ \A k \in 1 .. n - 1 : q[k] = suite.queue[k + 1]
    BY <1>1, <1>2
  <1>4. \A k \in 1 .. n - 1 : k + 1 \in 1 .. n
    BY <1>3
  <1>5. 1 \in 1 .. n
    BY <1>3
  <1>6. /\ disk' = suite.queue[1]
        /\ \E m \in Nat : suite' = [suite EXCEPT !.queue = q, !.written = m]
    <2>1. suite.written + 1 \in Nat
      BY <1>1, TicketIs
    <2> QED
      BY <1>2, <1>3, <2>1 DEF Write
  <1>7. /\ suite' \in Suites /\ suite'.queue = q /\ suite'.step = suite.step
        /\ suite'.results = suite.results /\ suite'.failures = suite.failures
        /\ suite'.pending = suite.pending /\ suite'.rejected = suite.rejected
    BY <1>1, <1>3, <1>6 DEF Suites
  <1>8. disk' \in Checkpoints /\ Readable(disk') /\ Honest(disk'.results)
    BY <1>1, <1>3, <1>5, <1>6 DEF EvalInv, ReadInv, HonestInv
  <1>9. \A k \in DOMAIN q : Readable(q[k]) /\ Honest(q[k].results)
    BY <1>3, <1>4 DEF EvalInv, ReadInv, HonestInv
  <1>10. TypeInv'
    BY <1>1, <1>7, <1>8 DEF EvalInv, TypeInv
  <1>11. HonestInv' /\ ReadInv'
    BY <1>1, <1>7, <1>8, <1>9 DEF EvalInv, HonestInv, ReadInv
  <1>12. JobInv'
    BY <1>1, <1>7 DEF EvalInv, JobInv, Up, Running
  <1>13. LastInv'
    <2>1. suite.queue[n].results = suite.results
      BY <1>1, <1>2 DEF EvalInv, LastInv, Write
    <2>2. CASE q = <<>>
      <3>1. n = 1
        BY <1>3, <2>2
      <3> QED
        BY <1>6, <1>7, <2>1, <2>2, <3>1 DEF LastInv
    <2>3. CASE q # <<>>
      <3>1. n - 1 \in 1 .. n - 1 /\ (n - 1) + 1 = n
        BY <1>3, <2>3
      <3>2. q[Len(q)] = suite.queue[n]
        BY <1>3, <3>1
      <3> QED
        BY <1>7, <2>1, <2>3, <3>2 DEF LastInv
    <2> QED
      BY <2>2, <2>3
  <1>14. SummaryInv'
    BY <1>1, StillNoSummary
  <1> QED
    BY <1>10, <1>11, <1>12, <1>13, <1>14 DEF EvalInv

LEMMA WriteFailsKeeps ==
    ASSUME EvalInv, WriteFails
    PROVE  EvalInv'
  <1>1. PICK q : q = <<>>
    OBVIOUS
  <1>2. q \in Seq(Checkpoints) /\ DOMAIN q = {}
    BY <1>1
  <1>3. /\ suite \in Suites /\ Up /\ UNCHANGED <<disk, worker, summary>>
        /\ suite' = [suite EXCEPT !.queue = q, !.rejected = TRUE]
    BY <1>1 DEF WriteFails, EvalInv, TypeInv
  <1>4. /\ suite' \in Suites /\ suite'.queue = q /\ suite'.step = suite.step
        /\ suite'.results = suite.results /\ suite'.failures = suite.failures
        /\ suite'.pending = suite.pending /\ suite'.rejected
    BY <1>2, <1>3 DEF Suites
  <1>5. TypeInv' /\ HonestInv' /\ ReadInv'
    BY <1>2, <1>3, <1>4 DEF EvalInv, TypeInv, HonestInv, ReadInv
  <1>6. JobInv' /\ LastInv'
    BY <1>3, <1>4 DEF EvalInv, JobInv, LastInv, Up, Running
  <1>7. SummaryInv'
    BY <1>3, StillNoSummary
  <1> QED
    BY <1>5, <1>6, <1>7 DEF EvalInv

LEMMA BeginPoolKeeps ==
    ASSUME EvalInv, BeginPool
    PROVE  EvalInv'
  <1>1. /\ suite \in Suites /\ suite.step = "first"
        /\ UNCHANGED <<disk, worker, summary>>
        /\ suite' = [suite EXCEPT !.step = "pool"]
    BY DEF BeginPool, EvalInv, TypeInv
  <1>2. /\ suite' \in Suites /\ suite'.queue = suite.queue /\ suite'.step = "pool"
        /\ suite'.results = suite.results /\ suite'.failures = suite.failures
        /\ suite'.pending = suite.pending /\ suite'.rejected = suite.rejected
    BY <1>1 DEF Suites
  <1>3. TypeInv' /\ HonestInv' /\ ReadInv'
    BY <1>1, <1>2 DEF EvalInv, TypeInv, HonestInv, ReadInv
  <1>4. JobInv' /\ LastInv'
    BY <1>1, <1>2 DEF EvalInv, JobInv, LastInv, Up, Running
  <1>5. SummaryInv'
    BY <1>1, StillNoSummary DEF Up
  <1> QED
    BY <1>3, <1>4, <1>5 DEF EvalInv

\* A session that is over holds nothing.
LEMMA DownKeeps ==
    ASSUME EvalInv, suite' = Down, disk' = disk,
           \/ worker' = worker /\ \A w \in Workers : worker[w].step = "idle"
           \/ worker' = [w \in Workers |-> Idle]
    PROVE  TypeInv' /\ HonestInv' /\ ReadInv' /\ JobInv' /\ LastInv'
  <1>1. Idle \in RunRecords /\ Idle.step = "idle" /\ Straight(Idle)
    BY IdleIs
  <1>2. \A w \in Workers : /\ worker'[w].step = "idle"
                           /\ Straight(worker'[w])
    BY <1>1 DEF EvalInv, HonestInv
  <1>3. PICK e : e = <<>>
    OBVIOUS
  <1>4. DOMAIN e = {}
    BY <1>3
  <1>5. /\ suite' \in Suites /\ suite'.step = "down" /\ suite'.results = e
        /\ suite'.failures = e /\ suite'.pending = e /\ suite'.queue = e
    BY <1>3, DownIs
  <1>6. TypeInv'
    BY <1>1, <1>2, <1>5 DEF EvalInv, TypeInv
  <1>7. HonestInv'
    BY <1>2, <1>4, <1>5 DEF EvalInv, HonestInv, Honest
  <1>8. ReadInv'
    BY <1>3, <1>4, <1>5 DEF EvalInv, ReadInv, OneEach
  <1>9. Running' = {}
    BY <1>2 DEF Running, RunSteps
  <1>10. JobInv'
    BY <1>2, <1>4, <1>5, <1>9 DEF JobInv, IsInjective, ToSet, Up
  <1>11. LastInv'
    BY <1>5 DEF LastInv, Up
  <1> QED
    BY <1>6, <1>7, <1>8, <1>10, <1>11

LEMMA FinishKeeps ==
    ASSUME EvalInv, FinishSuite
    PROVE  EvalInv'
  <1>1. /\ suite.step = "pool" /\ suite.pending = <<>> /\ suite.queue = <<>>
        /\ ~suite.rejected /\ summary' = Summarise /\ suite' = Down
        /\ \A w \in Workers : worker[w].step = "idle"
        /\ UNCHANGED <<disk, worker>>
    BY DEF FinishSuite, PoolIsDone
  <1>2. /\ suite.results \in Seq(Results) /\ OneEach(suite.results)
        /\ suite.failures = <<>> /\ disk.results = suite.results
    BY <1>1 DEF EvalInv, TypeInv, Suites, ReadInv, LastInv, Up
  <1>3. JobsOf(suite.results) = Jobs
    <2>1. Running = {}
      BY <1>1 DEF Running, RunSteps
    <2>2. ToSet(suite.pending) = {}
      BY <1>1 DEF ToSet
    <2>3. Jobs \subseteq JobsOf(suite.results)
      BY <1>1, <2>1, <2>2 DEF EvalInv, JobInv, Up
    <2>4. JobsOf(suite.results) \subseteq Jobs
      <3>1. \A k \in DOMAIN suite.results : suite.results[k] \in Results
        BY <1>2
      <3>2. \A result \in Results : result.job \in Jobs
        BY DEF Results
      <3> QED
        BY <3>1, <3>2 DEF JobsOf
    <2> QED
      BY <2>3, <2>4
  <1>4. summary'.results = suite.results /\ summary'.failures = suite.failures
    BY <1>1 DEF Summarise
  <1>5. IsInjective([k \in DOMAIN summary'.results |-> summary'.results[k].job])
    BY <1>2, <1>4, JobsOfEach
  <1>6. SummaryInv'
    BY <1>1, <1>2, <1>3, <1>4, <1>5, DownIs DEF SummaryInv, SummaryIsTrue
  <1> QED
    BY <1>1, <1>6, DownKeeps DEF EvalInv

LEMMA BreaksOffKeeps ==
    ASSUME EvalInv, ThrowOut \/ Kill
    PROVE  EvalInv'
  <1>1. Up /\ suite' = Down /\ disk' = disk /\ summary' = summary
    BY DEF ThrowOut, Kill, Up
  <1>2. \/ worker' = worker /\ \A w \in Workers : worker[w].step = "idle"
        \/ worker' = [w \in Workers |-> Idle]
    BY DEF ThrowOut, Kill, PoolIsDone, EvalInv, JobInv
  <1> QED
    BY <1>1, <1>2, DownKeeps, StillNoSummary DEF EvalInv

-----------------------------------------------------------------------------
(* The theorems.                                                           *)

LEMMA EvalSteps == EvalInv /\ [Next]_vars => EvalInv'
  <1> SUFFICES ASSUME EvalInv, [Next]_vars PROVE EvalInv'
    OBVIOUS
  <1>1. ASSUME NEW options \in Options, Start(options)
        PROVE  EvalInv'
    BY <1>1, StartKeeps
  <1>2. CASE Work
    BY <1>2, WriteKeeps, WriteFailsKeeps, BeginPoolKeeps, FinishKeeps,
       BreaksOffKeeps DEF Work
  <1>3. CASE Kill
    BY <1>3, BreaksOffKeeps
  <1>4. ASSUME NEW w \in Workers, Step(w)
        PROVE  EvalInv'
    <2>1. CASE Take(w)
      BY <2>1, TakeKeeps
    <2>2. CASE Report(w)
      BY <2>2, ReportKeeps
    <2>3. CASE PersistFails(w)
      BY <2>3, FailureKeeps
    <2>4. CASE Persisted(w) \/ Settles(w)
      <3>1. /\ worker' = [worker EXCEPT ![w] = Idle] /\ suite.step = "pool"
            /\ worker[w].step \in {"persist", "caught"}
            /\ UNCHANGED <<disk, suite, summary>>
        BY <2>4 DEF Persisted, Settles, Goes, Runs
      <3> QED
        BY <3>1, GoesIdle
    <2> QED
      BY <1>4, <2>1, <2>2, <2>3, <2>4, RunStepsKeep DEF Step
  <1>5. CASE UNCHANGED vars
    <2>1. UNCHANGED <<disk, suite, worker, summary>>
      BY <1>5 DEF vars
    <2>2. Running' = Running
      BY <2>1 DEF Running
    <2>3. TypeInv' /\ HonestInv' /\ ReadInv'
      BY <2>1 DEF EvalInv, TypeInv, HonestInv, ReadInv
    <2>4. JobInv' /\ LastInv' /\ SummaryInv'
      BY <2>1, <2>2
      DEF EvalInv, JobInv, LastInv, SummaryInv, SummaryIsTrue, Up
    <2> QED
      BY <2>3, <2>4 DEF EvalInv
  <1> QED
    BY <1>1, <1>2, <1>3, <1>4, <1>5 DEF Next

LEMMA EvalInit == Init => EvalInv
  <1> SUFFICES ASSUME Init PROVE EvalInv
    OBVIOUS
  <1>1. Idle \in RunRecords /\ Idle.step = "idle" /\ Straight(Idle)
    BY IdleIs
  <1>2. \A w \in Workers : worker[w] = Idle
    BY DEF Init
  <1>3. PICK e : e = <<>>
    OBVIOUS
  <1>4. DOMAIN e = {} /\ e \in Seq(Results) /\ e \in Seq(Jobs)
    BY <1>3
  <1>5. /\ suite \in Suites /\ suite.step = "down" /\ suite.results = e
        /\ suite.failures = e /\ suite.pending = e /\ suite.queue = e
    BY <1>3, DownIs DEF Init
  <1>6. disk = [options |-> {}, results |-> e, failures |-> e]
    BY <1>3 DEF Init, NoCheckpoint
  <1>7. disk \in Checkpoints /\ disk.results = e /\ disk.failures = e
    BY <1>4, <1>6 DEF Checkpoints, Started
  <1>8. TypeInv
    <2>1. worker \in [Workers -> RunRecords]
      BY <1>1 DEF Init
    <2> QED
      BY <1>1, <1>2, <1>5, <1>7, <2>1 DEF TypeInv
  <1>9. HonestInv
    BY <1>1, <1>2, <1>4, <1>5, <1>7 DEF HonestInv, Honest
  <1>10. ReadInv
    BY <1>3, <1>4, <1>5, <1>7 DEF ReadInv, OneEach, Readable
  <1>11. Running = {}
    BY <1>1, <1>2 DEF Running, RunSteps
  <1>12. JobInv
    BY <1>1, <1>2, <1>4, <1>5, <1>11 DEF JobInv, IsInjective, ToSet, Up
  <1>13. LastInv /\ SummaryInv
    BY <1>5 DEF LastInv, Up, SummaryInv, Init
  <1> QED
    BY <1>8, <1>9, <1>10, <1>12, <1>13 DEF EvalInv

\* Whatever was written last, by whichever workers and before whichever kill
\* or lost write, can be resumed with its options.
THEOREM CheckpointCorrectness == Spec => []CheckpointReadable
  <1>1. EvalInv => CheckpointReadable
    <2> SUFFICES ASSUME EvalInv PROVE Compatible(disk, disk.options)
      BY DEF CheckpointReadable
    <2>1. disk \in Checkpoints /\ Readable(disk)
      BY DEF EvalInv, TypeInv, ReadInv
    <2> QED
      BY <2>1, ReadableIsCompatible
  <1> QED
    BY <1>1, EvalInit, EvalSteps, PTL DEF Spec

\* A session that ends with a summary has run every job once, and left a
\* checkpoint that says the same.
THEOREM SummaryCorrectness == Spec => []SummaryIsTrue
  <1>1. EvalInv => SummaryIsTrue
    BY DEF EvalInv, SummaryInv, SummaryIsTrue
  <1> QED
    BY <1>1, EvalInit, EvalSteps, PTL DEF Spec

\* Whatever fails in a run, in any order and across restarts, is the reason why
\* it is run again and the only one, but for the two failures the time limit
\* hides: the end of Pi's process and a Pi that cannot be stopped.
THEOREM ConclusionCorrectness == Spec => []ConclusionsAreAgents
  <1>1. EvalInv => ConclusionsAreAgents
    <2> SUFFICES ASSUME EvalInv,
                        NEW result \in ToSet(suite.results) \cup ToSet(disk.results)
                 PROVE  Rightly(result)
      BY DEF ConclusionsAreAgents, Rightly
    <2>1. PICK results \in {suite.results, disk.results} :
             result \in ToSet(results) /\ Honest(results)
      BY DEF EvalInv, HonestInv
    <2>2. PICK k \in DOMAIN results : result = results[k]
      BY <2>1 DEF ToSet
    <2> QED
      BY <2>1, <2>2 DEF Honest
  <1> QED
    BY <1>1, EvalInit, EvalSteps, PTL DEF Spec

-----------------------------------------------------------------------------
(* What is concluded stays.                                                *)

\* The checkpoints of a session, in the order of their writes, and its results
\* grow; the one on the disk is followed by what was taken over from it.
Kept(checkpoint) ==
    /\ Concluded(checkpoint.results) \subseteq ToSet(suite.results)
    /\ \A k \in DOMAIN suite.queue :
          Concluded(checkpoint.results) \subseteq ToSet(suite.queue[k].results)

GrowInv ==
    /\ \A k \in DOMAIN suite.queue :
          /\ suite.queue[k].options = suite.options
          /\ ToSet(suite.queue[k].results) \subseteq ToSet(suite.results)
          /\ \A j \in DOMAIN suite.queue : j <= k =>
                ToSet(suite.queue[j].results) \subseteq ToSet(suite.queue[k].results)
    /\ Up /\ disk.options = suite.options => Kept(disk)

LEMMA SameGrows ==
    ASSUME GrowInv, Up, disk' = disk, suite'.options = suite.options,
           suite'.results = suite.results, suite'.queue = suite.queue
    PROVE  GrowInv'
  BY DEF GrowInv, Kept

LEMMA DownGrows ==
    ASSUME suite' = Down
    PROVE  GrowInv'
  <1>1. PICK e : e = <<>>
    OBVIOUS
  <1>2. DOMAIN e = {} /\ suite'.queue = e /\ suite'.step = "down"
    BY <1>1, DownIs
  <1> QED
    BY <1>2 DEF GrowInv, Up

LEMMA StartGrows ==
    ASSUME EvalInv, NEW options \in Options, Start(options)
    PROVE  GrowInv'
  <1>1. PICK R : /\ R = IF Compatible(disk, options)
                        THEN SetToSeq(Concluded(disk.results)) ELSE <<>>
                 /\ suite' = PersistCheckpoint([Down EXCEPT
                       !.step = "first", !.options = options, !.results = R,
                       !.pending = PendingJobs(R)])
    BY DEF Start
  <1>2. R \in Seq(Results) /\ Concluded(R) = ToSet(R)
    BY <1>1, TakenOver
  <1>3. disk.options = options => Concluded(disk.results) = ToSet(R)
    <2>1. disk \in Checkpoints /\ Readable(disk)
      BY DEF EvalInv, TypeInv, ReadInv
    <2>2. Compatible(disk, disk.options)
      BY <2>1, ReadableIsCompatible
    <2> QED
      BY <1>1, <2>2, TakenOver
  <1>4. PICK s : s = [Down EXCEPT !.step = "first", !.options = options,
                                  !.results = R, !.pending = PendingJobs(R)]
    OBVIOUS
  <1>5. PendingJobs(R) \in Seq(Jobs)
    <2>1. IsFiniteSet(Jobs \ {r.job : r \in Concluded(R)})
      BY JobsAreFinite, FS_Difference
    <2>2. PendingJobs(R) \in Seq(Jobs \ {r.job : r \in Concluded(R)})
      BY <2>1, Listing DEF PendingJobs
    <2> QED
      BY <2>2
  <1>6. /\ s \in Suites /\ s.options = options /\ s.results = R
        /\ s.queue = <<>> /\ ~s.rejected
    BY <1>2, <1>4, <1>5, DownIs DEF Suites, Started
  <1>7. /\ suite'.options = options /\ suite'.results = R
        /\ suite'.queue = Append(<<>>, Snapshot(s)) /\ disk' = disk
    <2>1. suite' = PersistCheckpoint(s)
      BY <1>1, <1>4
    <2>2. /\ suite'.options = s.options /\ suite'.results = s.results
          /\ suite'.queue = Append(s.queue, Snapshot(s))
      BY <1>6, <2>1, AddedIs
    <2>3. disk' = disk
      BY DEF Start
    <2> QED
      BY <1>6, <2>2, <2>3
  <1>8. PICK shot, q : shot = Snapshot(s) /\ q = Append(<<>>, shot)
    OBVIOUS
  <1>9. DOMAIN q = {1} /\ q[1] = shot
    BY <1>8
  <1>10. shot.options = options /\ shot.results = R
    BY <1>6, <1>8 DEF Snapshot
  <1>11. suite'.queue = q
    BY <1>7, <1>8
  <1>12. disk.options = options => Kept(disk)'
    BY <1>3, <1>7, <1>9, <1>10, <1>11 DEF Kept
  <1> QED
    BY <1>7, <1>9, <1>10, <1>11, <1>12 DEF GrowInv

LEMMA WriteGrows ==
    ASSUME EvalInv, GrowInv, Write
    PROVE  /\ GrowInv'
           /\ disk'.options = disk.options
                 => Concluded(disk.results) \subseteq ToSet(disk'.results)
  <1>1. /\ suite \in Suites /\ suite.queue \in Seq(Checkpoints)
        /\ suite.queue # <<>> /\ Up
    BY DEF Write, EvalInv, TypeInv, Suites
  <1>2. PICK q, n : q = Tail(suite.queue) /\ n = Len(suite.queue)
    OBVIOUS
  <1>3. /\ n \in Nat \ {0} /\ DOMAIN suite.queue = 1 .. n /\ DOMAIN q = 1 .. n - 1
        /\ Head(suite.queue) = suite.queue[1]
        /\ \A k \in 1 .. n - 1 : q[k] = suite.queue[k + 1]
    BY <1>1, <1>2
  <1>4. \A k \in 1 .. n - 1 : k + 1 \in 1 .. n /\ 1 <= k + 1
    BY <1>3
  <1>5. 1 \in 1 .. n
    BY <1>3
  <1>6. /\ disk' = suite.queue[1] /\ suite'.queue = q
        /\ suite'.results = suite.results /\ suite'.options = suite.options
    BY <1>1, <1>2, <1>3 DEF Write, Suites
  <1>7. /\ disk'.options = suite.options
        /\ ToSet(disk'.results) \subseteq ToSet(suite.results)
        /\ \A k \in DOMAIN q :
              /\ q[k].options = suite.options
              /\ ToSet(q[k].results) \subseteq ToSet(suite.results)
              /\ ToSet(disk'.results) \subseteq ToSet(q[k].results)
    <2>1. \A k \in DOMAIN q : /\ q[k] = suite.queue[k + 1] /\ 1 <= k + 1
                              /\ k + 1 \in DOMAIN suite.queue
      BY <1>3, <1>4
    <2>2. 1 \in DOMAIN suite.queue
      BY <1>3, <1>5
    <2> QED
      BY <1>6, <2>1, <2>2 DEF GrowInv
  <1>8. ASSUME NEW j \in DOMAIN q, NEW k \in DOMAIN q, j <= k
        PROVE  ToSet(q[j].results) \subseteq ToSet(q[k].results)
    <2>1. j + 1 <= k + 1
      BY <1>3, <1>8
    <2> QED
      BY <1>3, <1>4, <2>1 DEF GrowInv
  <1>9. Concluded(disk'.results) \subseteq ToSet(disk'.results)
    BY DEF Concluded
  <1>10. Kept(disk)'
    BY <1>6, <1>7, <1>9 DEF Kept
  <1>11. GrowInv'
    BY <1>6, <1>7, <1>8, <1>10 DEF GrowInv
  <1>12. disk'.options = disk.options
            => Concluded(disk.results) \subseteq ToSet(disk'.results)
    BY <1>1, <1>3, <1>5, <1>6, <1>7 DEF GrowInv, Kept
  <1> QED
    BY <1>11, <1>12

LEMMA ReportGrows ==
    ASSUME EvalInv, GrowInv, NEW w \in Workers, Report(w)
    PROVE  GrowInv'
  <1>1. /\ suite.step = "pool" /\ disk' = disk /\ w \in Running
        /\ worker[w] \in RunRecords /\ suite \in Suites
        /\ Straight(worker[w]) /\ worker[w].step = "ended"
    BY DEF Report, Runs, Running, RunSteps, EvalInv, TypeInv, HonestInv
  <1>2. PICK r \in Results : r = Result(worker[w])
    <2>1. worker[w].job \in Jobs
      BY <1>1 DEF EvalInv, JobInv
    <2> QED
      BY <1>1, <2>1, ResultIs
  <1>3. PICK old, rs : old = suite.results /\ rs = Append(old, r)
    OBVIOUS
  <1>4. /\ old \in Seq(Results) /\ rs \in Seq(Results)
        /\ ToSet(old) \subseteq ToSet(rs)
    <2>1. old \in Seq(Results)
      BY <1>1, <1>3 DEF Suites
    <2>2. /\ rs \in Seq(Results)
          /\ \A k \in DOMAIN old : k \in DOMAIN rs /\ rs[k] = old[k]
      BY <1>3, <2>1
    <2> QED
      BY <2>1, <2>2 DEF ToSet
  <1>5. PICK s : s = [suite EXCEPT !.results = rs]
    OBVIOUS
  <1>6. /\ s \in Suites /\ s.results = rs /\ s.queue = suite.queue
        /\ s.options = suite.options /\ s.step = suite.step
    BY <1>1, <1>4, <1>5 DEF Suites
  <1>7. suite' = PersistCheckpoint(s)
    BY <1>2, <1>3, <1>5 DEF Report
  <1>8. /\ suite'.results = rs /\ suite'.options = suite.options
        /\ suite'.step = suite.step
        /\ \/ suite'.queue = suite.queue
           \/ suite'.queue = Append(suite.queue, Snapshot(s))
    BY <1>6, <1>7, AddedIs
  <1>9. Up
    BY <1>1 DEF Up
  <1>10. CASE suite'.queue = suite.queue
    <2>1. \A k \in DOMAIN suite.queue :
             ToSet(suite.queue[k].results) \subseteq ToSet(rs)
      BY <1>3, <1>4 DEF GrowInv
    <2>2. Kept(disk) => Kept(disk)'
      BY <1>1, <1>3, <1>4, <1>8, <1>10 DEF Kept
    <2> QED
      BY <1>1, <1>8, <1>9, <1>10, <2>1, <2>2 DEF GrowInv
  <1>11. CASE suite'.queue = Append(suite.queue, Snapshot(s))
    <2>1. PICK q, n, shot : /\ q = Append(suite.queue, shot)
                            /\ n = Len(suite.queue) /\ shot = Snapshot(s)
      OBVIOUS
    <2>2. shot.options = suite.options /\ shot.results = rs
      BY <1>6, <2>1 DEF Snapshot
    <2>3. /\ n \in Nat /\ DOMAIN q = 1 .. n + 1 /\ DOMAIN suite.queue = 1 .. n
          /\ q[n + 1] = shot /\ \A k \in 1 .. n : q[k] = suite.queue[k]
      <3>1. suite.queue \in Seq(Checkpoints)
        BY <1>1 DEF Suites
      <3> QED
        BY <2>1, <3>1
    <2>4. \A k \in 1 .. n + 1 : k \in 1 .. n \/ k = n + 1
      BY <2>3
    <2>5. \A k \in 1 .. n : ToSet(q[k].results) \subseteq ToSet(rs)
      BY <1>3, <1>4, <2>3 DEF GrowInv
    <2>6. \A k \in DOMAIN q : /\ q[k].options = suite.options
                              /\ ToSet(q[k].results) \subseteq ToSet(rs)
      BY <2>2, <2>3, <2>4, <2>5 DEF GrowInv
    <2>7. ASSUME NEW j \in DOMAIN q, NEW k \in DOMAIN q, j <= k
          PROVE  ToSet(q[j].results) \subseteq ToSet(q[k].results)
      <3>1. CASE k = n + 1
        BY <2>2, <2>3, <2>6, <3>1
      <3>2. CASE k # n + 1
        <4>1. j \in 1 .. n /\ k \in 1 .. n
          BY <2>3, <2>7, <3>2
        <4> QED
          BY <2>3, <2>7, <4>1 DEF GrowInv
      <3> QED
        BY <3>1, <3>2
    <2>8. suite'.queue = q
      BY <1>11, <2>1
    <2>9. Kept(disk) => Kept(disk)'
      BY <1>1, <1>3, <1>4, <1>8, <2>2, <2>3, <2>4, <2>8 DEF Kept
    <2> QED
      BY <1>1, <1>8, <1>9, <2>6, <2>7, <2>8, <2>9 DEF GrowInv
  <1> QED
    BY <1>8, <1>10, <1>11

LEMMA GrowSteps ==
    ASSUME EvalInv, GrowInv, [Next]_vars
    PROVE  /\ GrowInv'
           /\ disk'.options = disk.options
                 => Concluded(disk.results) \subseteq ToSet(disk'.results)
  <1> DEFINE Stay == disk'.options = disk.options
                        => Concluded(disk.results) \subseteq ToSet(disk'.results)
  <1>1. disk' = disk => Stay
    BY DEF Concluded
  <1>2. ASSUME NEW options \in Options, Start(options)
        PROVE  GrowInv' /\ disk' = disk
    BY <1>2, StartGrows DEF Start
  <1>3. CASE Write
    BY <1>3, WriteGrows
  <1>4. CASE WriteFails
    <2>1. PICK e : e = <<>>
      OBVIOUS
    <2>2. /\ DOMAIN e = {} /\ suite'.queue = e /\ disk' = disk
          /\ suite'.results = suite.results /\ suite'.options = suite.options
          /\ Up
      BY <1>4, <2>1 DEF WriteFails, EvalInv, TypeInv, Suites
    <2> QED
      BY <1>1, <2>2 DEF GrowInv, Kept
  <1>5. CASE BeginPool
    <2>1. /\ suite'.queue = suite.queue /\ suite'.results = suite.results
          /\ suite'.options = suite.options /\ disk' = disk /\ Up
      BY <1>5 DEF BeginPool, EvalInv, TypeInv, Suites, Up
    <2> QED
      BY <1>1, <2>1, SameGrows
  <1>6. CASE FinishSuite \/ ThrowOut \/ Kill
    <2>1. suite' = Down /\ disk' = disk
      BY <1>6 DEF FinishSuite, ThrowOut, Kill
    <2> QED
      BY <1>1, <2>1, DownGrows
  <1>7. ASSUME NEW w \in Workers, Step(w)
        PROVE  GrowInv' /\ disk' = disk
    <2>1. suite.step = "pool" /\ disk' = disk
      BY <1>7 DEF Step, Goes, Runs, Take, SetUp, SetupFails,
                  PromptAnswered, PromptFails, PiDies, AgentSettles, TimesOut,
                  StopPi, StopFails, Judge,
                  OracleFails, Clean, CleanFails, Report, Persisted,
                  PersistFails, Settles
    <2>2. Up
      BY <2>1 DEF Up
    <2>3. CASE Report(w)
      BY <2>1, <2>3, ReportGrows
    <2>4. CASE Take(w)
      <3>1. /\ suite'.queue = suite.queue /\ suite'.results = suite.results
            /\ suite'.options = suite.options
        BY <2>4 DEF Take, EvalInv, TypeInv, Suites
      <3> QED
        BY <2>1, <2>2, <3>1, SameGrows
    <2>5. CASE PersistFails(w)
      <3>1. suite.rejected /\ worker[w].job \in Jobs /\ suite \in Suites
        BY <2>5 DEF PersistFails, Lost, Runs, EvalInv, TypeInv
      <3>2. PICK fs : fs = Append(suite.failures, worker[w].job)
        OBVIOUS
      <3>3. fs \in Seq(Jobs)
        BY <3>1, <3>2 DEF Suites
      <3>4. PICK s : s = [suite EXCEPT !.failures = fs]
        OBVIOUS
      <3>5. /\ s \in Suites /\ s.rejected /\ s.queue = suite.queue
            /\ s.results = suite.results /\ s.options = suite.options
        BY <3>1, <3>3, <3>4 DEF Suites
      <3>6. suite' = PersistCheckpoint(s)
        BY <2>5, <3>2, <3>4 DEF PersistFails
      <3>7. /\ suite'.queue = suite.queue /\ suite'.results = suite.results
            /\ suite'.options = suite.options
        BY <3>5, <3>6, AddedIs
      <3> QED
        BY <2>1, <2>2, <3>7, SameGrows
    <2>6. CASE ~ (Report(w) \/ Take(w) \/ PersistFails(w))
      <3>1. suite' = suite
        BY <1>7, <2>6 DEF Step, Goes, SetUp, SetupFails,
                  PromptAnswered, PromptFails, PiDies, AgentSettles, TimesOut,
                  StopPi, StopFails, Judge,
                  OracleFails, Clean, CleanFails, Persisted, Settles
      <3> QED
        BY <2>1, <2>2, <3>1, SameGrows
    <2> QED
      BY <2>3, <2>4, <2>5, <2>6
  <1>8. CASE UNCHANGED vars
    <2>1. disk' = disk /\ suite' = suite
      BY <1>8 DEF vars
    <2> QED
      BY <1>1, <2>1 DEF GrowInv, Kept, Up
  <1> QED
    BY <1>1, <1>2, <1>3, <1>4, <1>5, <1>6, <1>7, <1>8 DEF Next, Work

\* A conclusion that reached the disk is never lost from the checkpoint while
\* the suite is started with the same options, however it ends in between.
THEOREM ConclusionsStay == Spec => FinishedKept
  <1>1. Init => GrowInv
    <2> SUFFICES ASSUME Init PROVE GrowInv
      OBVIOUS
    <2>1. PICK e : e = <<>>
      OBVIOUS
    <2>2. DOMAIN e = {} /\ suite.queue = e /\ suite.step = "down"
      BY <2>1, DownIs DEF Init
    <2> QED
      BY <2>2 DEF GrowInv, Up
  <1>2. EvalInv /\ GrowInv /\ [Next]_vars => GrowInv'
    BY GrowSteps
  <1>3. EvalInv /\ GrowInv /\ [Next]_vars
           => [disk # NoCheckpoint /\ disk'.options = disk.options
                 => Concluded(disk.results) \subseteq ToSet(disk'.results)]_vars
    BY GrowSteps
  <1> QED
    BY <1>1, <1>2, <1>3, EvalInit, EvalSteps, PTL DEF Spec, FinishedKept
=============================================================================
