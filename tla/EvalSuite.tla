------------------------------ MODULE EvalSuite ------------------------------
(***************************************************************************)
(* A suite of evaluation runs: workers that take scenarios from one list,  *)
(* each run with its Agent, its time limit, its Oracle and its cleaning,   *)
(* the chain of checkpoint writes the workers share, and the restart of a  *)
(* suite from its checkpoint.                                              *)
(*                                                                         *)
(* A job is a scenario, a profile and a repetition.  Options stands for    *)
(* what a checkpoint must agree on to be used: the run fingerprint, the    *)
(* dataset, the profile and the repetitions.  The order of the jobs, by    *)
(* which the results are sorted, and the metrics are left out.             *)
(***************************************************************************)
EXTENDS Integers, Sequences, FiniteSets, SequencesExt

CONSTANTS
    Jobs,           \* the jobs of the suite
    Workers,        \* the workers of the pool
    Options,        \* what the suite can be started with
    MaxSessions,    \* bound on the starts of the suite
    Faults          \* what can go wrong, see the assumption

ASSUME EvalAssumption ==
    /\ IsFiniteSet(Jobs) /\ MaxSessions \in Nat
    /\ Faults \subseteq {"write", "kill", "setup", "prompt", "die", "stop",
                         "oracle", "cleanup"}

VARIABLES
    disk,       \* checkpoint.json
    suite,      \* the process: its results and its chain of writes
    worker,     \* the run each worker is in
    summary,    \* summary.json of the last session
    sessions    \* the starts so far

vars == <<disk, suite, worker, summary, sessions>>

NoCheckpoint == [options |-> {}, results |-> <<>>, failures |-> <<>>]
Down == [step |-> "down", options |-> {}, results |-> <<>>, failures |-> <<>>,
         pending |-> <<>>, queue |-> <<>>, written |-> 0, rejected |-> FALSE]
Idle == [step |-> "idle", job |-> {}, agent |-> "none", matched |-> FALSE,
         infra |-> FALSE, failed |-> {}, alive |-> TRUE, ticket |-> 0]
NoSummary == [status |-> "none", results |-> <<>>, failures |-> <<>>]

Init ==
    /\ disk = NoCheckpoint /\ suite = Down /\ summary = NoSummary
    /\ worker = [w \in Workers |-> Idle] /\ sessions = 0

Up == suite.step # "down"

-------------------------------------------------------------------------------
(* The checkpoint.                                                         *)

Concluded(results) == {r \in ToSet(results) : r.status # "infra_error"}
JobsOf(results) == {results[k].job : k \in DOMAIN results}

(* evalSuiteCheckpointIsCompatible accepts no job twice.                   *)
Compatible(checkpoint, options) ==
    LET jobs == [k \in DOMAIN checkpoint.results |-> checkpoint.results[k].job]
                    \o checkpoint.failures
    IN  /\ checkpoint.options = options
        /\ Len(jobs) <= Cardinality(Jobs)
        /\ IsInjective(jobs) /\ ToSet(jobs) \subseteq Jobs

Snapshot(s) == [options |-> s.options, results |-> s.results, failures |-> s.failures]

(* Each write is chained to the one before it; once one has been rejected, *)
(* so is every later one.                                                  *)
PersistCheckpoint(s) ==
    IF s.rejected THEN s ELSE [s EXCEPT !.queue = Append(@, Snapshot(s))]

Ticket(s) == s.written + Len(s.queue)
Saved(w) == worker[w].ticket <= suite.written
Lost(w) == suite.rejected /\ worker[w].ticket > suite.written

Write_Bug ==
    /\ Up /\ ~ suite.rejected
    /\ \E k \in DOMAIN suite.queue :
        /\ disk' = suite.queue[k]
        /\ suite' = [suite EXCEPT !.queue = RemoveAt(@, k), !.written = @ + 1]
    /\ UNCHANGED <<worker, summary, sessions>>

Write ==
    /\ Up /\ ~ suite.rejected /\ suite.queue # <<>>
    /\ disk' = Head(suite.queue)
    /\ suite' = [suite EXCEPT !.queue = Tail(@), !.written = @ + 1]
    /\ UNCHANGED <<worker, summary, sessions>>

WriteFails ==
    /\ "write" \in Faults
    /\ Up /\ ~ suite.rejected /\ suite.queue # <<>>
    /\ suite' = [suite EXCEPT !.queue = <<>>, !.rejected = TRUE]
    /\ UNCHANGED <<disk, worker, summary, sessions>>

-------------------------------------------------------------------------------
(* The session.                                                            *)

PendingJobs(results) ==
    SetToSeq(Jobs \ {r.job : r \in Concluded(results)})

Start_Bug(options) ==
    /\ ~ Up /\ sessions < MaxSessions
    /\ LET results == IF Compatible(disk, options) THEN disk.results ELSE <<>>
       IN  suite' = PersistCheckpoint([Down EXCEPT
               !.step = "first", !.options = options, !.results = results,
               !.pending = PendingJobs(results)])
    /\ worker' = [w \in Workers |-> Idle]
    /\ summary' = NoSummary
    /\ sessions' = sessions + 1
    /\ UNCHANGED disk

(* The first write of a session replaces the checkpoint it was started     *)
(* from, also when the options do not agree.                               *)
Start(options) ==
    /\ ~ Up /\ sessions < MaxSessions
    /\ LET results == IF Compatible(disk, options)
                      THEN SetToSeq(Concluded(disk.results)) ELSE <<>>
       IN  suite' = PersistCheckpoint([Down EXCEPT
               !.step = "first", !.options = options, !.results = results,
               !.pending = PendingJobs(results)])
    /\ worker' = [w \in Workers |-> Idle]
    /\ summary' = NoSummary
    /\ sessions' = sessions + 1
    /\ UNCHANGED disk

BeginPool ==
    /\ suite.step = "first" /\ suite.written > 0
    /\ suite' = [suite EXCEPT !.step = "pool"]
    /\ UNCHANGED <<disk, worker, summary, sessions>>

PoolIsDone == suite.pending = <<>> /\ \A w \in Workers : worker[w].step = "idle"

Summarise ==
    [status |-> IF /\ Len(suite.results) = Cardinality(Jobs)
                   /\ suite.failures = <<>>
                   /\ \A k \in DOMAIN suite.results : suite.results[k].status = "passed"
                THEN "passed" ELSE "failed",
     results |-> suite.results, failures |-> suite.failures]

FinishSuite_Bug ==
    /\ suite.step = "pool" /\ PoolIsDone
    /\ summary' = Summarise
    /\ suite' = Down
    /\ UNCHANGED <<disk, worker, sessions>>

FinishSuite ==
    /\ suite.step = "pool" /\ PoolIsDone
    /\ ~ suite.rejected /\ suite.queue = <<>>
    /\ summary' = Summarise
    /\ suite' = Down
    /\ UNCHANGED <<disk, worker, sessions>>

(* A rejected chain ends the suite at its first write, or at the end, with *)
(* no summary.                                                             *)
ThrowOut ==
    /\ suite.rejected
    /\ suite.step = "first" \/ (suite.step = "pool" /\ PoolIsDone)
    /\ suite' = Down
    /\ UNCHANGED <<disk, worker, summary, sessions>>

Kill ==
    /\ "kill" \in Faults /\ Up
    /\ suite' = Down /\ worker' = [w \in Workers |-> Idle]
    /\ UNCHANGED <<disk, summary, sessions>>

-------------------------------------------------------------------------------
(* A run, runEvalScenario and the profile it calls.                        *)

Runs(w, from, to) ==
    /\ suite.step = "pool" /\ worker[w].step = from
    /\ worker' = [worker EXCEPT ![w] = to]
    /\ UNCHANGED <<disk, summary, sessions>>

Take(w) ==
    /\ suite.pending # <<>>
    /\ Runs(w, "idle", [Idle EXCEPT !.step = "setup", !.job = Head(suite.pending)])
    /\ suite' = [suite EXCEPT !.pending = Tail(@)]

Goes(w, from, to) == Runs(w, from, to) /\ UNCHANGED suite

(* `failed` only remembers what went wrong: "pi" is the end of the Agent's *)
(* process.  What the code makes of it is `agent`, the status its profile  *)
(* reports, and `infra`, the infrastructureFailure of the run.             *)
Failing(run, what) == [run EXCEPT !.failed = @ \cup {what}]

SetUp(w) == Goes(w, "setup", [worker[w] EXCEPT !.step = "prompt"])

SetupFails(w) ==
    /\ "setup" \in Faults
    /\ Goes(w, "setup", [Failing(worker[w], "setup") EXCEPT !.step = "clean",
                                                           !.infra = TRUE])

(* The prompt has no deadline: the time limit is armed by its answer.      *)
PromptAnswered(w) ==
    /\ worker[w].alive
    /\ Goes(w, "prompt", [worker[w] EXCEPT !.step = "agent"])

(* Pi refuses the prompt, or its end rejects the call that waits.          *)
PromptFails(w) ==
    /\ "prompt" \in Faults \/ ~ worker[w].alive
    /\ Goes(w, "prompt", [Failing(worker[w], "prompt") EXCEPT
                             !.step = "stop", !.agent = "infra_error"])

PiDies(w) ==
    /\ "die" \in Faults /\ worker[w].alive
    /\ \E step \in {"prompt", "agent"} :
           Goes(w, step, [Failing(worker[w], "pi") EXCEPT !.alive = FALSE])

(* The first agent_settled or the time limit ends the wait for the Agent;  *)
(* the end of its process does not.                                        *)
AgentSettles(w) ==
    /\ worker[w].alive
    /\ Goes(w, "agent", [worker[w] EXCEPT !.step = "stop", !.agent = "settled"])

TimesOut(w) ==
    Goes(w, "agent", [worker[w] EXCEPT !.step = "stop", !.agent = "timeout"])

(* What its profile reports of an Agent decides whether it is judged.      *)
Reported(run, agent) ==
    [run EXCEPT !.agent = agent, !.infra = (agent = "infra_error"),
                !.step = IF agent = "settled" THEN "oracle" ELSE "clean"]

StopPi(w) == Goes(w, "stop", Reported(worker[w], worker[w].agent))

StopFails_Bug(w) ==
    /\ "stop" \in Faults
    /\ Goes(w, "stop", Reported(Failing(worker[w], "stop"), worker[w].agent))

(* A time limit that has passed stays the outcome, also when Pi cannot be  *)
(* stopped.                                                                *)
StopFails(w) ==
    /\ "stop" \in Faults
    /\ Goes(w, "stop",
            Reported(Failing(worker[w], "stop"),
                     IF worker[w].agent = "timeout" THEN "timeout" ELSE "infra_error"))

Judge(w) ==
    \E matched \in BOOLEAN :
        Goes(w, "oracle", [worker[w] EXCEPT !.step = "clean", !.matched = matched])

OracleFails(w) ==
    /\ "oracle" \in Faults
    /\ Goes(w, "oracle", [Failing(worker[w], "oracle") EXCEPT !.step = "clean",
                                                             !.infra = TRUE])

Clean(w) == Goes(w, "clean", [worker[w] EXCEPT !.step = "ended"])

CleanFails(w) ==
    /\ "cleanup" \in Faults
    /\ Goes(w, "clean", [Failing(worker[w], "cleanup") EXCEPT !.step = "ended",
                                                             !.infra = TRUE])

Status(run) ==
    IF run.infra THEN "infra_error"
    ELSE IF run.agent = "settled" /\ run.matched THEN "passed" ELSE "failed"

Result(run) == [job |-> run.job, status |-> Status(run), agent |-> run.agent,
                failed |-> run.failed]

(* The result is pushed and written, and a write that is lost makes a      *)
(* failure of the same job.                                                *)
Report(w) ==
    LET added == PersistCheckpoint([suite EXCEPT !.results = Append(@, Result(worker[w]))])
        ticket == IF added.rejected THEN suite.written + 1 ELSE Ticket(added)
    IN  /\ Runs(w, "ended", [worker[w] EXCEPT !.step = "persist", !.ticket = ticket])
        /\ suite' = added

Persisted(w) ==
    Saved(w) /\ Goes(w, "persist", Idle)

PersistFails(w) ==
    LET added == PersistCheckpoint([suite EXCEPT !.failures = Append(@, worker[w].job)])
        ticket == IF added.rejected THEN suite.written + 1 ELSE Ticket(added)
    IN  /\ Lost(w)
        /\ Runs(w, "persist", [worker[w] EXCEPT !.step = "caught", !.ticket = ticket])
        /\ suite' = added

Settles_Bug(w) ==
    /\ Saved(w)
    /\ Goes(w, "caught", Idle)

(* The pool settles the worker's promise either way.                       *)
Settles(w) ==
    /\ Saved(w) \/ Lost(w)
    /\ Goes(w, "caught", Idle)

Step(w) ==
    \/ Take(w) \/ SetUp(w) \/ SetupFails(w)
    \/ PromptAnswered(w) \/ PromptFails(w) \/ PiDies(w)
    \/ AgentSettles(w) \/ TimesOut(w)
    \/ StopPi(w) \/ StopFails(w) \/ Judge(w) \/ OracleFails(w)
    \/ Clean(w) \/ CleanFails(w)
    \/ Report(w) \/ Persisted(w) \/ PersistFails(w) \/ Settles(w)

Work == Write \/ WriteFails \/ BeginPool \/ FinishSuite \/ ThrowOut

Next ==
    \/ \E options \in Options : Start(options)
    \/ Work \/ Kill
    \/ \E w \in Workers : Step(w)

Spec == Init /\ [][Next]_vars

(* Pi lives and has yet to answer the prompt.                              *)
Waits(w) == worker[w].step = "prompt" /\ worker[w].alive

(* Promises settle, and so does every step of a run, but nothing makes a   *)
(* Pi that lives answer the prompt; once it has, the time limit is armed.  *)
FairSpec ==
    /\ Spec /\ WF_vars(Work)
    /\ \A w \in Workers : WF_vars(~ Waits(w) /\ Step(w)) /\ WF_vars(TimesOut(w))

-------------------------------------------------------------------------------
(* Properties.                                                             *)

(* The checkpoint on the disk can always be resumed with the options it    *)
(* was written with: no interleaving of workers, lost write or kill makes  *)
(* one that evalSuiteCheckpointIsCompatible rejects.                       *)
CheckpointReadable ==
    disk # NoCheckpoint => Compatible(disk, disk.options)

(* A conclusion that reached the disk stays in the checkpoint, unchanged,  *)
(* through every later write and restart with the same options.            *)
FinishedKept ==
    [][disk # NoCheckpoint /\ disk'.options = disk.options
           => Concluded(disk.results) \subseteq ToSet(disk'.results)]_vars

(* A summary counts every job once, and the checkpoint holds what it says. *)
SummaryIsTrue ==
    summary # NoSummary =>
        /\ JobsOf(summary.results) = Jobs /\ summary.failures = <<>>
        /\ IsInjective([k \in DOMAIN summary.results |-> summary.results[k].job])
        /\ suite.step = "down" => disk.results = summary.results

(* run.ts: every infrastructure failure comes before the Agent's outcome.  *)
(* In a result, and in the checkpoint a resume reads, a run in which a step*)
(* failed is no conclusion about the Agent, so that it is run again, and   *)
(* one in which none did is a conclusion.  The code makes two exceptions,  *)
(* both under the time limit: it keeps the outcome of an Agent that ran    *)
(* out of time, though its process had ended or could not be stopped.      *)
Outlived(result) == IF result.agent = "timeout" THEN {"pi", "stop"} ELSE {}

ConclusionsAreAgents ==
    \A result \in ToSet(suite.results) \cup ToSet(disk.results) :
        result.status = "infra_error" <=> result.failed \ Outlived(result) # {}

(* suite.ts: only jobs with a functional conclusion may be skipped by a    *)
(* resume, every infrastructure failure must be run again.  A run whose    *)
(* Agent's process died gives no such conclusion.                          *)
DeathIsNoConclusion ==
    \A k \in DOMAIN suite.results :
        "pi" \in suite.results[k].failed => suite.results[k].status = "infra_error"

(* A session ends, also when writes are lost and Agents never settle,      *)
(* unless a Pi that lives leaves its prompt unanswered for ever.           *)
SuiteEnds == (\A w \in Workers : []<>~ Waits(w)) => (Up ~> ~ Up)
===============================================================================
