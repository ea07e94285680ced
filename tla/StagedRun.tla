----------------------------- MODULE StagedRun -----------------------------
(***************************************************************************)
(* `bench.py run` of qwen_bench/runner.py, with Progress of state.py: the  *)
(* staged search (screen, refine, qualify), its run.json, progress.json    *)
(* and recommendation.json, and how it survives failures, interrupts,      *)
(* kills and resumption with or without --retry-failed.                    *)
(*                                                                         *)
(* The containers of a candidate are one thing here: they "may run" from   *)
(* evaluate()'s launch to a complete cleanup, and they are then on record  *)
(* in the candidate's directory (NoOrphan of ContainerRuntime and          *)
(* WritesAhead of GatewayLifecycle), which recover_tree() searches.        *)
(***************************************************************************)
EXTENDS Integers, Sequences

CONSTANTS Matrix,           \* generate_candidates(config), in order
          Speculative,      \* the candidates with draft_tokens
          Identity(_),      \* precision, layout and chunk size of a candidate
          Outcomes,         \* what evaluate() may return
          Passed,           \* the outcomes with result["passed"]
          ShortlistOf(_, _, _), \* ranking.shortlist: stage, candidates, results
          NoResult,         \* no entry in state["results"]
          Raised,           \* an evaluation ended by an interrupt
          NoOne             \* no winner, no recommendation

Candidates == {Matrix[i] : i \in DOMAIN Matrix}
Stages == {"screen", "refine", "qualify"}
Keys == Stages \X Candidates

ASSUME StagedAssumption ==
    /\ Matrix \in Seq(Candidates)
    /\ {NoResult, Raised} \cap Outcomes = {} /\ Passed \subseteq Outcomes
    /\ NoOne \notin Candidates

\* shortlist() lists candidates it is given, and only those that passed.
ASSUME ShortlistAssumption ==
    \A s \in Stages, chosen \in SUBSET Candidates,
       results \in [Candidates -> Outcomes \cup {NoResult}] :
        LET best == ShortlistOf(s, chosen, results) IN
            /\ best \in Seq(chosen)
            /\ \A i \in DOMAIN best : results[best[i]] \in Passed

VARIABLES
    file,       \* run.json: results, status, winner; status "none" before it
    progress,   \* status in progress.json
    exported,   \* winner in recommendation.json
    left,       \* keys whose containers may run
    pc,         \* what the process is doing; "down" when there is none
    state,      \* the copy of run.json in memory
    stage,      \* the stage being run
    at,         \* the candidate being evaluated
    pending,    \* what its evaluation came to; Raised when interrupted
    err         \* the exception under way: "none", "interrupted", "failed"

disk == <<file, progress, exported>>
vars == <<file, progress, exported, left, pc, state, stage, at, pending, err>>

Record == [results : [Keys -> Outcomes \cup {NoResult}],
           status : {"none", "running", "completed", "failed", "interrupted"},
           winner : Candidates \cup {NoOne}]
Empty == [results |-> [k \in Keys |-> NoResult], status |-> "none",
          winner |-> NoOne]

TypeOK ==
    /\ file \in Record /\ state \in Record
    /\ progress \in {"none", "running", "completed", "failed", "interrupted"}
    /\ exported \in Candidates \cup {NoOne}
    /\ left \subseteq Keys
    /\ pc \in {"down", "recover", "checks", "stage", "evaluate", "cleanup",
               "store", "save", "export", "announce", "except", "finally", "exit"}
    /\ stage \in Stages
    /\ at \in Candidates \cup {NoOne}
    /\ pending \in Outcomes \cup {NoResult, Raised}
    /\ err \in {"none", "interrupted", "failed"}

Init ==
    /\ file = Empty /\ state = Empty
    /\ progress = "none"
    /\ exported = NoOne
    /\ left = {}
    /\ pc = "down"
    /\ stage = "screen"
    /\ at = NoOne
    /\ pending = NoResult
    /\ err = "none"

HasPassed(k, results) == results[k] \in Passed

-----------------------------------------------------------------------------
(* Which candidates a stage runs, given the results so far.                *)

\* shortlist() of a stage's results, and of all of them after "qualify".
Best(s, chosen, results) ==
    ShortlistOf(s, chosen, [c \in Candidates |-> results[<<s, c>>]])

Listed(list) == {list[i] : i \in DOMAIN list}

Screened == Candidates \ Speculative

Refined(results) ==
    LET selected == Listed(Best("screen", Screened, results))
    IN {c \in Candidates : \E d \in selected : Identity(d) = Identity(c)}

Finalists(results) == Best("refine", Refined(results), results)

Chosen(s, results) ==
    IF s = "screen" THEN Screened
    ELSE IF s = "refine" THEN Refined(results) ELSE Listed(Finalists(results))

\* What a stage walks through: the matrix, or the finalists by their rank.
Order(s, results) == IF s = "qualify" THEN Finalists(results) ELSE Matrix

\* The candidates whose result is not reused.
Todo(s) == {c \in Chosen(s, state.results) : state.results[<<s, c>>] = NoResult}

Selected == Best(stage, Chosen(stage, state.results), state.results)

-----------------------------------------------------------------------------
(* How the process leaves a step.                                          *)

ProcessEnds ==
    /\ pc' = "down"
    /\ state' = Empty
    /\ stage' = "screen"
    /\ at' = NoOne
    /\ pending' = NoResult
    /\ err' = "none"

Throw(e) == pc' = "except" /\ err' = e

-----------------------------------------------------------------------------
(* Up to the first stage                                                   *)

Begin ==
    /\ pc = "down"
    /\ file.status = "none"
    /\ state' = [Empty EXCEPT !.status = "running"]
    /\ file' = [Empty EXCEPT !.status = "running"]
    /\ pc' = "checks"
    /\ UNCHANGED <<progress, exported, left, stage, at, pending, err>>

\* MUTANT of Resume: --retry-failed drops every result.
ResumeAfresh(retry) ==
    /\ pc = "down"
    /\ file.status # "none"
    /\ state' = IF retry THEN [file EXCEPT !.results = Empty.results] ELSE file
    /\ pc' = "recover"
    /\ UNCHANGED <<disk, left, stage, at, pending, err>>

\* --resume: run.json is read first. The run's own containers are recovered
\* before --retry-failed drops the failed results, in memory.
Resume(retry) ==
    /\ pc = "down"
    /\ file.status # "none"
    /\ state' = IF retry
                THEN [file EXCEPT !.results =
                        [k \in Keys |-> IF HasPassed(k, file.results)
                                        THEN file.results[k] ELSE NoResult]]
                ELSE file
    /\ pc' = "recover"
    /\ UNCHANGED <<disk, left, stage, at, pending, err>>

\* recover_tree(): some containers may be gone by the time it fails or is
\* interrupted.
Recover ==
    /\ pc = "recover"
    /\ left' = {}
    /\ pc' = "checks"
    /\ UNCHANGED <<disk, state, stage, at, pending, err>>

RecoverFails ==
    /\ pc = "recover"
    /\ left' \in SUBSET left
    /\ ProcessEnds
    /\ UNCHANGED disk

\* Ports, GPUs, and the same hardware as before.
ChecksPass ==
    /\ pc = "checks"
    /\ file' = state
    /\ progress' = "running"
    /\ pc' = "stage"
    /\ UNCHANGED <<exported, left, state, stage, at, pending, err>>

ChecksFail ==
    /\ pc = "checks"
    /\ file' = [state EXCEPT !.status = "failed"]
    /\ ProcessEnds
    /\ UNCHANGED <<progress, exported, left>>

-----------------------------------------------------------------------------
(* stage() and evaluate()                                                  *)

\* The next candidate without a result; its launch may fail before there is
\* any container.
Evaluate ==
    /\ pc = "stage"
    /\ LET order == Order(stage, state.results)
           todo == Todo(stage) IN
         \E i \in DOMAIN order :
            /\ order[i] \in todo
            /\ \A j \in 1 .. (i - 1) : order[j] \notin todo
            /\ at' = order[i]
    /\ left' \in {left, left \cup {<<stage, at'>>}}
    /\ pc' = "evaluate"
    /\ UNCHANGED <<disk, state, stage, pending, err>>

\* The measurements end: passed, failed, or raised by an interrupt, which
\* the `except Exception` of evaluate() lets through.
Measured(outcome) ==
    /\ pc = "evaluate"
    /\ outcome \in Passed => <<stage, at>> \in left
    /\ pending' = outcome
    /\ pc' = "cleanup"
    /\ UNCHANGED <<disk, left, state, stage, at, err>>

\* MUTANT of CleanedUp: the interrupt is swallowed.
CleanedUpQuietly ==
    /\ pc = "cleanup"
    /\ left' = left \ {<<stage, at>>}
    /\ pc' = "store"
    /\ UNCHANGED <<disk, state, stage, at, pending, err>>

\* The `finally`: gateway and runtime are stopped, result.json is written.
CleanedUp ==
    /\ pc = "cleanup"
    /\ left' = left \ {<<stage, at>>}
    /\ IF pending = Raised THEN Throw("interrupted")
       ELSE pc' = "store" /\ UNCHANGED err
    /\ UNCHANGED <<disk, state, stage, at, pending>>

\* MUTANT of CleanupFails: the failure is only noted in the result.
CleanupFailureNoted(e) ==
    /\ pc = "cleanup"
    /\ pending # Raised
    /\ pc' = "store"
    /\ UNCHANGED <<disk, left, state, stage, at, pending, err>>

\* A stop() failed, or what precedes them raised: whatever was under way, a
\* RuntimeError takes its place. Or a second
\* interrupt, which `except Exception` does not hold back, ends the cleanup.
CleanupFails(e) ==
    /\ pc = "cleanup"
    /\ Throw(e)
    /\ UNCHANGED <<disk, left, state, stage, at, pending>>

\* MUTANT of Store: only a pass is stored.
StorePassed ==
    /\ pc = "store"
    /\ state' = IF pending \in Passed
                THEN [state EXCEPT !.results[<<stage, at>>] = pending] ELSE state
    /\ pc' = "save"
    /\ at' = NoOne
    /\ pending' = NoResult
    /\ UNCHANGED <<disk, left, stage, err>>

Store ==
    /\ pc = "store"
    /\ state' = [state EXCEPT !.results[<<stage, at>>] = pending]
    /\ pc' = "save"
    /\ at' = NoOne
    /\ pending' = NoResult
    /\ UNCHANGED <<disk, left, stage, err>>

Save ==
    /\ pc = "save"
    /\ file' = state
    /\ pc' = "stage"
    /\ UNCHANGED <<progress, exported, left, state, stage, at, pending,
                   err>>

\* MUTANT of StageOver: the first finalist wins, qualified or not.
StageOverFirst ==
    /\ pc = "stage"
    /\ Todo(stage) = {}
    /\ IF Selected = <<>> THEN Throw("failed") /\ UNCHANGED <<state, stage>>
       ELSE IF stage = "qualify"
       THEN /\ state' = [state EXCEPT !.status = "completed",
                            !.winner = Finalists(state.results)[1]]
            /\ pc' = "export"
            /\ UNCHANGED <<stage, err>>
       ELSE /\ stage' = IF stage = "screen" THEN "refine" ELSE "qualify"
            /\ UNCHANGED <<pc, state, err>>
    /\ UNCHANGED <<disk, left, at, pending>>

\* Every chosen candidate has a result: shortlist them, or give up.
StageOver ==
    /\ pc = "stage"
    /\ Todo(stage) = {}
    /\ LET selected == Selected IN
       IF selected = <<>> THEN Throw("failed") /\ UNCHANGED <<state, stage>>
       ELSE IF stage = "qualify"
       THEN /\ state' = [state EXCEPT !.status = "completed",
                                      !.winner = selected[1]]
            /\ pc' = "export"
            /\ UNCHANGED <<stage, err>>
       ELSE /\ stage' = IF stage = "screen" THEN "refine" ELSE "qualify"
            /\ UNCHANGED <<pc, state, err>>
    /\ UNCHANGED <<disk, left, at, pending>>

\* recommendation.json, then progress.json.
Export ==
    /\ pc = "export"
    /\ exported' = state.winner
    /\ pc' = "announce"
    /\ UNCHANGED <<file, progress, left, state, stage, at, pending, err>>

Announce ==
    /\ pc = "announce"
    /\ progress' = "completed"
    /\ pc' = "finally"
    /\ UNCHANGED <<file, exported, left, state, stage, at, pending, err>>

-----------------------------------------------------------------------------
(* Exceptions                                                              *)

\* An interrupt, or an error of the file system, between the steps above.
Raise(e) ==
    /\ pc \in {"stage", "store", "save", "export", "announce"}
    /\ Throw(e)
    /\ UNCHANGED <<disk, left, state, stage, at, pending>>

\* `except BaseException`: status in memory and in progress.json. A further
\* interrupt can cut it, and the `finally`, short while they write a file.
Except ==
    /\ pc = "except"
    /\ state' = [state EXCEPT !.status = err]
    /\ progress' = err
    /\ pc' = "finally"
    /\ UNCHANGED <<file, exported, left, stage, at, pending, err>>

Finally ==
    /\ pc = "finally"
    /\ file' = state
    /\ pc' = "exit"
    /\ UNCHANGED <<progress, exported, left, state, stage, at, pending,
                   err>>

CutShort ==
    /\ pc \in {"except", "finally"}
    /\ IF pc = "except"
       THEN pc' = "finally" /\ state' = [state EXCEPT !.status = err]
       ELSE pc' = "exit" /\ UNCHANGED state
    /\ err' = "interrupted"
    /\ UNCHANGED <<disk, left, stage, at, pending>>

\* Progress.__exit__, then entrypoint().
ExitRun ==
    /\ pc = "exit"
    /\ progress' = IF err # "none" THEN "interrupted" ELSE progress
    /\ ProcessEnds
    /\ UNCHANGED <<file, exported, left>>

\* SIGKILL or power failure.
Kill ==
    /\ pc # "down"
    /\ ProcessEnds
    /\ UNCHANGED <<disk, left>>

\* `bench.py cleanup` on the run directory, between two runs.
Cleanup ==
    /\ pc = "down"
    /\ left' \in SUBSET left
    /\ UNCHANGED <<disk, pc, state, stage, at, pending, err>>

-----------------------------------------------------------------------------
Step == \/ Recover \/ ChecksPass \/ Evaluate
        \/ \E o \in Outcomes : Measured(o)
        \/ CleanedUp \/ Store \/ Save \/ StageOver \/ Export \/ Announce
        \/ Except \/ Finally \/ ExitRun

Trouble == \/ \E e \in {"interrupted", "failed"} : CleanupFails(e) \/ Raise(e)
           \/ RecoverFails \/ ChecksFail \/ Measured(Raised) \/ CutShort \/ Kill

Next == Begin \/ (\E retry \in BOOLEAN : Resume(retry)) \/ Step \/ Trouble
        \/ Cleanup

Spec == Init /\ [][Next]_vars

\* A process that is not killed keeps executing, and every evaluation ends
\* (container startup, requests and workloads have deadlines).
FairSpec == Spec /\ WF_vars(Step)

-----------------------------------------------------------------------------
(* Properties                                                              *)

\* "Completed results survive interruption": what run.json once lists as
\* passed it lists for ever, through kills, interrupts and resumptions, and
\* is not measured again (runner.py:280-281, 303-309, 348).
CompletedSurvive ==
    [][\A k \in Keys : HasPassed(k, file.results)
            => /\ file'.results[k] = file.results[k]
               /\ ~(pc' = "evaluate" /\ k = <<stage', at'>>)]_vars

\* A candidate is measured while no other candidate of the run may have
\* containers on the GPUs: what an earlier evaluation or process left behind
\* is gone, or the run does not go on (runner.py:124-128, 253-265, 279).
MeasuredAlone == pc = "evaluate" => left \subseteq {<<stage, at>>}

\* What recommendation.json and run.json name as the winner has a passing
\* qualification in run.json, whatever was retried and wherever a process was
\* killed, and a run that reports completion has exported one
\* (runner.py:325-348).
WinnerQualified ==
    /\ exported # NoOne => HasPassed(<<"qualify", exported>>, file.results)
    /\ file.winner # NoOne => HasPassed(<<"qualify", file.winner>>, file.results)
    /\ file.status = "completed" => exported # NoOne

\* A run that is not killed ends: no result is measured for ever, no stage
\* repeats (runner.py:301-312).
RunEnds == pc # "down" ~> pc = "down"
=============================================================================
