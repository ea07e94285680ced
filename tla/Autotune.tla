------------------------------ MODULE Autotune ------------------------------
(***************************************************************************)
(* Tuner of autotune.py with write_profile() of scripts/deployment.py: the *)
(* maintenance run that measures one profile after the other on the one    *)
(* Compose service, keeps the best, and puts the original configuration    *)
(* and service state back when it does not get that far.                   *)
(*                                                                         *)
(* A profile is <<combination, size>>: a combination of mode, chunk size   *)
(* and draft tokens, and the context and cache size. All checks of one     *)
(* candidate (smoke, vision, trials, memory) are one step that passes, or  *)
(* is rejected.                                                            *)
(***************************************************************************)
EXTENDS Integers

CONSTANTS Combinations, \* how many of them: len(modes x chunks x draft_tokens)
          Expand        \* not --no-expand

ASSUME AutotuneAssumption == Combinations \in Nat \ {0} /\ Expand \in BOOLEAN

Sizes == {"base", "large"}
Profiles == (1 .. Combinations) \X Sizes
Selectors == {"manual", "candidate", "measured"}

VARIABLES
    config,     \* the profile rendered in config.yml
    record,     \* deployment.json: profile and selected_by
    server,     \* the Compose service: its state and the profile it loaded
    summary,    \* summary.json of the last run: status and its records
    original,   \* originals and was_running of the last run
    told,       \* how the last process ended: "nothing" after a kill
    pc,         \* what the process is doing; "down" when there is none
    report,     \* self.report
    next,       \* position in the matrix
    at,         \* the profile being started and checked
    why,        \* what for
    winner,     \* the best candidate with a context boundary
    err         \* the exception under way

disk == <<config, record, summary>>
search == <<next, at, why, winner>>
vars == <<config, record, server, summary, original, told, pc, report, next,
          at, why, winner, err>>

Record == [profile : Profiles, by : Selectors]
Reports == [status : {"running", "selected", "restoring", "restored", "attention"},
            passed : SUBSET Profiles,      \* records with status "passed"
            bounded : SUBSET Profiles]     \* records with a context_boundary
Fresh == [status |-> "running", passed |-> {}, bounded |-> {}]

Servers == [state : {"stopped", "loading", "healthy", "exited"}, profile : Profiles]
Originals == [record : Record, running : BOOLEAN]

Starting  == {"stop", "config", "record", "up", "wait", "check"}
Restoring == {"restore stop", "restore config", "restore record", "restore up",
              "restore wait"}

TypeOK ==
    /\ config \in Profiles /\ record \in Record
    /\ server \in Servers
    /\ summary \in Reports /\ report \in Reports
    /\ original \in Originals
    /\ told \in {"nothing", "selected", "failed", "interrupted"}
    /\ pc \in {"down", "next", "passed", "rejected", "rank", "expand", "select",
               "deploy", "report", "saved", "abort", "restored"}
              \cup Starting \cup Restoring
    /\ next \in 1 .. (Combinations + 1)
    /\ at \in Profiles /\ winner \in Profiles
    /\ why \in {"matrix", "boundary", "larger", "larger boundary", "final"}
    /\ err \in {"failed", "interrupted"}

Init ==
    /\ config \in Profiles
    /\ record = [profile |-> config, by |-> "manual"]
    /\ server \in [state : {"stopped", "healthy"}, profile : {config}]
    /\ original = [record |-> record, running |-> FALSE]
    /\ summary = Fresh /\ report = Fresh
    /\ told = "nothing"
    /\ pc = "down"
    /\ next = 1 /\ at = config /\ why = "matrix" /\ winner = config
    /\ err = "failed"

-----------------------------------------------------------------------------
Up(p)   == server' = [state |-> "loading", profile |-> p]
Halt    == server' = [server EXCEPT !.state = "stopped"]
Save(r) == report' = r /\ summary' = r

ProcessEnds(how) ==
    /\ pc' = "down"
    /\ told' = how

Throw(e) == pc' = "abort" /\ err' = e

Launch(p, purpose) ==
    /\ at' = p
    /\ why' = purpose
    /\ pc' = "stop"

\* main() and Tuner(): refused unless config.yml is what deployment.json says.
Begin ==
    /\ pc = "down"
    /\ config = record.profile
    /\ original' = [record |-> record, running |-> server.state \in {"loading", "healthy"}]
    /\ Save(Fresh)
    /\ next' = 1
    /\ pc' = "next"
    /\ UNCHANGED <<config, record, server, told, at, why, winner, err>>

Base(c) == <<c, original.record.profile[2]>>

-----------------------------------------------------------------------------
(* start() and the checks, of any candidate                                *)

\* MUTANT of StopServer: a running server is left to --force-recreate.
StopLater ==
    /\ pc = "stop"
    /\ pc' = "config"
    /\ UNCHANGED <<disk, server, original, told, report, search, err>>

StopServer ==
    /\ pc = "stop"
    /\ Halt
    /\ pc' = "config"
    /\ UNCHANGED <<disk, original, told, report, search, err>>

\* write_profile(): config.yml, then deployment.json.
WriteConfig ==
    /\ pc = "config"
    /\ config' = at
    /\ pc' = "record"
    /\ UNCHANGED <<record, summary, server, original, told, report, search, err>>

WriteRecord ==
    /\ pc = "record"
    /\ record' = [profile |-> at, by |-> "candidate"]
    /\ pc' = "up"
    /\ UNCHANGED <<config, summary, server, original, told, report, search, err>>

ComposeUp ==
    /\ pc = "up"
    /\ Up(config)
    /\ pc' = "wait"
    /\ UNCHANGED <<disk, original, told, report, search, err>>

SeenHealthy ==
    /\ pc = "wait"
    /\ server.state = "healthy"
    /\ pc' = "check"
    /\ UNCHANGED <<disk, server, original, told, report, search, err>>

Check ==
    /\ pc = "check"
    /\ server.state = "healthy"
    /\ pc' = "passed"
    /\ UNCHANGED <<disk, server, original, told, report, search, err>>

\* A Compose command that fails, times out or is cut off may have worked.
MayTakeEffect ==
    \/ UNCHANGED server
    \/ pc = "stop" /\ Halt
    \/ pc = "up" /\ Up(config)

\* A RuntimeError, OSError, ValueError or SubprocessError: a failed command,
\* the startup deadline, a failed or late check, too little free memory.
Reject ==
    /\ pc \in Starting
    /\ MayTakeEffect
    /\ pc' = "rejected"
    /\ UNCHANGED <<disk, original, told, report, search, err>>

-----------------------------------------------------------------------------
(* optimize()                                                              *)

\* MUTANT of Candidate: one candidate too many.
CandidatePastEnd ==
    /\ pc = "next"
    /\ IF next <= Combinations + 1 THEN Launch(Base(next), "matrix")
       ELSE pc' = "rank" /\ UNCHANGED <<at, why>>
    /\ UNCHANGED <<disk, server, original, told, report, next, winner, err>>

Candidate ==
    /\ pc = "next"
    /\ IF next <= Combinations THEN Launch(Base(next), "matrix")
       ELSE pc' = "rank" /\ UNCHANGED <<at, why>>
    /\ UNCHANGED <<disk, server, original, told, report, next, winner, err>>

\* The end of evaluate(): the server is stopped, the record saved.
Evaluated ==
    /\ pc \in {"passed", "rejected"}
    /\ why \in {"matrix", "larger"}
    /\ Halt
    /\ LET passed == IF pc = "passed" THEN report.passed \cup {at} ELSE report.passed
       IN Save([report EXCEPT !.passed = passed])
    /\ IF why = "matrix"
       THEN next' = next + 1 /\ pc' = "next" /\ UNCHANGED why
       ELSE /\ UNCHANGED next
            /\ \/ pc' = "select" /\ UNCHANGED why
               \/ pc = "passed" /\ pc' = "stop" /\ why' = "larger boundary"
    /\ UNCHANGED <<config, record, original, told, at, winner, err>>

\* rank_profiles(), then the boundary of the best that is left.
Rank ==
    /\ pc = "rank"
    /\ IF report.passed = {} THEN Throw("failed") /\ UNCHANGED <<at, why>>
       ELSE \E c \in report.passed : Launch(c, "boundary") /\ UNCHANGED err
    /\ UNCHANGED <<disk, server, original, told, report, next, winner>>

\* MUTANT of Bounded: any candidate that gets to the boundary wins.
BoundedAnyway ==
    /\ pc \in {"passed", "rejected"}
    /\ why \in {"boundary", "larger boundary"}
    /\ report' = IF pc = "passed" THEN [report EXCEPT !.bounded = @ \cup {at}]
                 ELSE report
    /\ winner' = at
    /\ pc' = IF why = "boundary" THEN "expand" ELSE "select"
    /\ UNCHANGED <<disk, server, original, told, next, at, why, err>>

Bounded ==
    /\ pc = "passed"
    /\ why \in {"boundary", "larger boundary"}
    /\ report' = [report EXCEPT !.bounded = @ \cup {at}]
    /\ winner' = at
    /\ pc' = IF why = "boundary" THEN "expand" ELSE "select"
    /\ UNCHANGED <<disk, server, original, told, next, at, why, err>>

\* MUTANT of Unbounded: the candidate keeps its status and is tried again.
UnboundedUnmarked ==
    /\ pc = "rejected"
    /\ why \in {"boundary", "larger boundary"}
    /\ IF why = "boundary" THEN Halt /\ pc' = "rank" ELSE pc' = "select" /\ UNCHANGED server
    /\ UNCHANGED <<disk, original, told, report, search, err>>

\* The candidate fails after all; after a matrix candidate the next is tried.
Unbounded ==
    /\ pc = "rejected"
    /\ why \in {"boundary", "larger boundary"}
    /\ LET r == [report EXCEPT !.passed = @ \ {at}]
       IN IF why = "boundary" THEN Halt /\ Save(r) /\ pc' = "rank"
          ELSE report' = r /\ pc' = "select" /\ UNCHANGED <<server, summary>>
    /\ UNCHANGED <<config, record, original, told, search, err>>

TryLarger ==
    /\ pc = "expand"
    /\ IF Expand /\ winner[2] = "base" THEN Launch(<<winner[1], "large">>, "larger")
       ELSE pc' = "select" /\ UNCHANGED <<at, why>>
    /\ UNCHANGED <<disk, server, original, told, report, next, winner, err>>

Select ==
    /\ pc = "select"
    /\ Launch(winner, "final")
    /\ UNCHANGED <<disk, server, original, told, report, next, winner, err>>

FinalChecks ==
    /\ pc \in {"passed", "rejected"}
    /\ why = "final"
    /\ IF pc = "passed" THEN pc' = "deploy" /\ UNCHANGED err ELSE Throw("failed")
    /\ UNCHANGED <<disk, server, original, told, report, search>>

\* write_profile(): the same config.yml, and who selected it.
Deploy ==
    /\ pc = "deploy"
    /\ config' = at
    /\ record' = [profile |-> at, by |-> "measured"]
    /\ pc' = "report"
    /\ UNCHANGED <<summary, server, original, told, report, search, err>>

SaveSelected ==
    /\ pc = "report"
    /\ Save([report EXCEPT !.status = "selected"])
    /\ pc' = "saved"
    /\ UNCHANGED <<config, record, server, original, told, search, err>>

\* An interrupt after success = True changes nothing any more.
Succeed ==
    /\ pc = "saved"
    /\ \E how \in {"selected", "interrupted"} : ProcessEnds(how)
    /\ UNCHANGED <<disk, server, original, report, search, err>>

-----------------------------------------------------------------------------
(* Everything else that may happen to the search                           *)

Searching == {"next", "passed", "rejected", "rank", "expand", "select",
              "deploy", "report", "saved"} \cup Starting

\* An interrupt, or an exception that evaluate() and optimize() do not catch;
\* the `finally` of evaluate() stops the server, if it can.
Abort(e) ==
    /\ pc \in Searching
    /\ MayTakeEffect \/ (why \in {"matrix", "larger"} /\ Halt)
    /\ Throw(e)
    /\ UNCHANGED <<disk, original, told, report, search>>

\* The `finally` of optimize().
RestoreBegins ==
    /\ pc = "abort"
    /\ Save([report EXCEPT !.status = "restoring"])
    /\ pc' = "restore stop"
    /\ UNCHANGED <<config, record, server, original, told, search, err>>

RestoreStop ==
    /\ pc = "restore stop"
    /\ Halt
    /\ pc' = "restore config"
    /\ UNCHANGED <<disk, original, told, report, search, err>>

RestoreConfig ==
    /\ pc = "restore config"
    /\ config' = original.record.profile
    /\ pc' = "restore record"
    /\ UNCHANGED <<record, summary, server, original, told, report, search, err>>

\* MUTANT of RestoreRecord: the service state is not restored.
RestoreFilesOnly ==
    /\ pc = "restore record"
    /\ record' = original.record
    /\ pc' = "restored"
    /\ UNCHANGED <<config, summary, server, original, told, report, search, err>>

RestoreRecord ==
    /\ pc = "restore record"
    /\ record' = original.record
    /\ pc' = IF original.running THEN "restore up" ELSE "restored"
    /\ UNCHANGED <<config, summary, server, original, told, report, search, err>>

RestoreUp ==
    /\ pc = "restore up"
    /\ Up(config)
    /\ pc' = "restore wait"
    /\ UNCHANGED <<disk, original, told, report, search, err>>

RestoreWait ==
    /\ pc = "restore wait"
    /\ server.state = "healthy"
    /\ pc' = "restored"
    /\ UNCHANGED <<disk, server, original, told, report, search, err>>

Restored ==
    /\ pc = "restored"
    /\ Save([report EXCEPT !.status = "restored"])
    /\ ProcessEnds(err)
    /\ UNCHANGED <<config, record, server, original, search, err>>

\* A step of restore() fails; an interrupt ends it with the status as it is.
RestoreCommand ==
    \/ UNCHANGED server
    \/ pc = "restore stop" /\ Halt
    \/ pc = "restore up" /\ Up(config)

RestoreFails ==
    /\ pc \in Restoring
    /\ RestoreCommand
    /\ Save([report EXCEPT !.status = "attention"])
    /\ ProcessEnds("failed")
    /\ UNCHANGED <<config, record, original, search, err>>

RestoreInterrupted ==
    /\ pc \in Restoring \cup {"abort", "restored"}
    /\ RestoreCommand
    /\ ProcessEnds("interrupted")
    /\ UNCHANGED <<disk, original, report, search, err>>

\* summary.json cannot be written.
SaveFails ==
    /\ pc \in {"abort", "restored"}
    /\ ProcessEnds("failed")
    /\ UNCHANGED <<disk, server, original, report, search, err>>

\* SIGKILL or power loss; a Compose command under way may still take effect.
Kill ==
    /\ pc # "down"
    /\ MayTakeEffect \/ RestoreCommand
    /\ ProcessEnds("nothing")
    /\ UNCHANGED <<disk, original, report, search, err>>

\* What a kill between the two files of write_profile() leaves is refused by
\* Begin: the operator copies original-*.json back (README.md:223).
ManualRecovery ==
    /\ pc = "down"
    /\ config # record.profile
    /\ config' = original.record.profile
    /\ record' = original.record
    /\ UNCHANGED <<server, summary, original, told, pc, report, search, err>>

-----------------------------------------------------------------------------
(* The service by itself: restart: unless-stopped, with the configuration  *)
(* the bind mount then has.                                                *)
ServerMoves ==
    /\ \/ /\ server.state = "loading"
          /\ server' = [server EXCEPT !.state = "healthy"]
       \/ /\ server.state \in {"loading", "healthy"}
          /\ server' = [server EXCEPT !.state = "exited"]
       \/ /\ server.state = "exited"
          /\ Up(config)
    /\ UNCHANGED <<disk, original, told, pc, report, search, err>>

-----------------------------------------------------------------------------
Step == \/ StopServer \/ WriteConfig \/ WriteRecord \/ ComposeUp \/ SeenHealthy
        \/ Check \/ Reject \/ Candidate \/ Evaluated \/ Rank \/ Bounded \/ Unbounded
        \/ TryLarger \/ Select \/ FinalChecks \/ Deploy \/ SaveSelected \/ Succeed
        \/ RestoreBegins \/ RestoreStop \/ RestoreConfig \/ RestoreRecord
        \/ RestoreUp \/ RestoreWait \/ Restored \/ RestoreFails

Trouble == \/ \E e \in {"failed", "interrupted"} : Abort(e)
           \/ RestoreInterrupted \/ SaveFails \/ Kill \/ ManualRecovery

Next == Begin \/ Step \/ Trouble \/ ServerMoves

Spec == Init /\ [][Next]_vars

\* A process that is not killed keeps executing, and every command and check
\* has a timeout (Reject and RestoreFails).
FairSpec == Spec /\ WF_vars(Step)

-----------------------------------------------------------------------------
(* Properties                                                              *)

\* What runs, or will be restarted by Docker, is what config.yml and
\* deployment.json both say, at every instant, kills included: the files are
\* only written while the service is stopped (autotune.py:171-176, 280-291).
RunsWhatIsRecorded ==
    server.state # "stopped" => /\ config = record.profile
                                /\ server.profile = config

\* A run that reports the original restored has restored both files and
\* whether the service was running (autotune.py:280-291, 351-354).
RestoredMeansRestored ==
    summary.status = "restored" /\ pc = "down" =>
        /\ record = original.record /\ config = original.record.profile
        /\ (server.state # "stopped") = original.running

\* A run that reports a selection has left it running and on record, and it
\* passed the trials and the context boundary (autotune.py:304-344).
SelectedIsMeasured ==
    summary.status = "selected" /\ pc = "down" =>
        /\ record.by = "measured"
        /\ record.profile \in summary.passed \cap summary.bounded
        /\ server.state # "stopped"

\* A run that is not killed ends, however its candidates fare.
TunerEnds == pc # "down" ~> pc = "down"

\* "Reporting must not prevent failure recovery if its destination becomes
\* unwritable" (scripts/progress.py:198): a failed run has restored the
\* original files or says that it needs attention.
FailedRunRestores ==
    pc = "down" /\ told = "failed" /\ summary.status # "attention"
        => config = original.record.profile
=============================================================================
