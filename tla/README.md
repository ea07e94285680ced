# Verification of the A100 deployment and benchmark tools

TLA+ models of the two Python programs of this repository, TLC configurations
that check them on small instances, and TLAPS proofs.

- `src/models/qwen3.8-27b/qwen_bench/`: the Qwen runner. It searches a matrix of
  vLLM configurations in stages, each candidate in containers of its own behind an
  HAProxy gateway, and serves a configuration.
- `src/autotune.py` with `src/scripts/`: the GLM tuner. It rewrites the
  configuration of one Compose service, measures, and keeps the best or restores.

Both are sequential programs driving things that are not: the Docker daemon,
containers that crash, threads that abort sockets, an operator with Ctrl-C, and
machines that lose power between two writes. That is what the models are about.

Source lines below without a directory are in `qwen_bench/`.

## 1. Inventory

| Component | State | Operations | Hard behaviour | What makes it correct |
|---|---|---|---|---|
| **DockerRuntime** `runtime.py` | `runtime.json` (run id, container names), `runtime-<id>.env` (API key), `self.containers`; containers in dockerd | `start`, `stop`, `recover`, `probe_image`, `download_models` | kill or interrupt between record, request and start; `docker run` that times out while dockerd still creates; sweeps that fail half-way; names taken by others | a container that may run is always on record; foreign containers are touched only where a name goes over between inspect and command; key file gone when serving; every call ends |
| **Gateway lifecycle** `gateway.py` | `gateway.json`, `_attempted`, container id; loopback port | `start`, `stop`, `recover` | two references (id, name) to sweep; configuration check in a container of its own; `docker run` that times out and whose container appears after the sweep; port taken between check and bind | a started gateway is on record until it is gone; nothing foreign is removed |
| **Gateway admission** `gateway.py:180-292` | HAProxy's session table, queues | routing | limits, affinity expiry | one backend per session, bounded queues |
| **Staged search** `runner.py:165-348`, `state.py` | `run.json`, `recommendation.json`, `progress.json`, result files | `tune`, `evaluate`, `recover_tree`, `--retry-failed`, resume | interrupt inside cleanup; kill between writes; resume with other results | only qualified candidates win; completed results survive; no two candidates on the GPUs at once |
| **Deployment** `runner.py:352-441` | `active.json` | `serve`, `stop`, `cleanup` | failure before and after `active.json`, half-done stops | what runs can be found by `stop` or `cleanup`; what is recorded was checked |
| **Ranking** `ranking.py` | none | `shortlist` | bands, missing latencies, coverage | finalists near the fastest, fair order, baseline and layouts kept |
| **Benchmark client: request** `benchmark.py:22-196, 267-430` | sockets, deadlines, watchdog and timer threads | `_open`, `_stream`, `_release`, `_abort`, `close` | three threads abort what a fourth is opening or reading | requests end, late output never counts, nothing leaks |
| **Benchmark client: workload** `benchmark.py:440-540` | threads, events, results, `_session_backends` | `run_workload`, `run_followup_workload` | barrier, stragglers, late results, moved sessions | a pass means the requests really overlapped on their sessions' backends |
| **Prompt search, retrieval, smoke** `benchmark.py:198-256, 542-664` | none kept | `exact_prompt`, `long_retrieval`, `smoke` | token counts that are not monotone | exact size or an error |
| **Telemetry** `telemetry.py` | counters of each server, samples, the sampler thread | `wait_idle`, `Telemetry.__enter__`, `_loop`, `__exit__`, `summary` | a restart resets a counter between two samples; backends asked one after the other; a sampler that hangs | measured on idle servers; a pass means no preemption and enough memory; the verdict comes |
| **Port checks** `ports.py` | none | reads of `ss` and `docker` | check-then-bind | conflicts reported |
| **GLM tuner** `src/autotune.py`, `src/scripts/deployment.py`, `TuningProgress` of `src/scripts/progress.py` | `config.yml`, `deployment.json`, `summary.json`, the Compose service | `optimize`, `evaluate`, `boundary`, `restore` | two files, a service Docker restarts, failing restoration | what runs is what both files say; reports say what was done |
| **GLM API check** `src/scripts/api_check.py`, `BenchmarkProgress` of `src/scripts/progress.py` | streams, events between them, timestamps; the progress file and its thread | `run_check`, `stream_request`, `summarize`, `make_prompt`; `publish`, `worker`, `__exit__` | threads that wait for one another's events; a file two threads write; a search over counts that are not monotone | a pass means the sessions overlapped; the file's last word is the report's; the check ends |
| **GLM configuration, chat, downloads** `src/configure.py`, other `src/scripts/` | configuration text | sequential | - | - |

Interactions. `tune()` calls `evaluate()` for each candidate, which owns one
DockerRuntime, one Gateway and one BenchmarkClient, and calls `stop()` on the
first two in its `finally`. `recover_tree()` calls `recover()` of gateway and
runtime on every directory an earlier process left. `serve()` starts the same
pair and leaves it running with `active.json`; `stop` and `cleanup` recover
it from its directory. The tuner starts the API check as a subprocess and reads the
progress file it publishes. `tune`, `serve`, `stop` and `cleanup` hold
`.gpu-benchmark.lock`, so one process at a time is what the models have; the
GLM tuner holds another lock. Memory is lost at every process end; what is on
disk and in dockerd stays.

## 2. Modules

| Module | Models | Uses |
|---|---|---|
| `DockerDaemon` | external: creates, starts, exits, restarts and removes containers asked for with `docker run`, by itself, in its own time | |
| `OwnershipLedger` | abstract specification: a name is written before its container may exist, and erased only when it no longer can | |
| `ContainerRuntime` | DockerRuntime, `recover()` | EXTENDS `DockerDaemon`; implements `OwnershipLedger` |
| `ContainerRuntime_proofs` | proofs about it | TLAPS |
| `GatewayLifecycle` | Gateway, `recover()` | EXTENDS `DockerDaemon`; implements `OwnershipLedger` |
| `GatewayAdmission` | what `_render()` has HAProxy do: affinity, queues, slots, the session table, health checks | |
| `GatewayServing`, `GatewayServing_proofs` | the composition: HAProxy serves while its container runs, whatever the process does, and forgets everything when it ends | EXTENDS the two above |
| `Loops` | a loop as the function its rounds iterate | |
| `Ranking`, `PromptSearch` | `shortlist()`; `exact_prompt()` and `make_prompt()`, as operators | EXTENDS `Loops` |
| `AlgorithmsCheck`, `AlgorithmsCheck_proofs` | their inputs, drawn piece by piece: every small input is a state | EXTENDS the two above |
| `StagedRun`, `StagedRun_proofs` | `tune()`, `evaluate()`, `recover_tree()`, `Progress`, the entry point | the shortlist is a constant operator of which `ShortlistAssumption` says what the proofs need; `MC_StagedRun` gives it by `Ranking` |
| `Deployment` | `serve`, `stop`, `cleanup` with runtime and gateway reduced to "up or not" | proofs at the end of `StagedRun_proofs` (the same process, `runner.py`) |
| `StreamWatch` | one streamed request and the threads that abort it | proofs at the end of `Workload_proofs` (a workload is made of such requests) |
| `Workload`, `Workload_proofs` | the threads of a cold workload and its follow-up | |
| `TelemetryGate`, `TelemetryGate_proofs` | `wait_idle()`, then `Telemetry` around a workload, with its sampler and the servers it reads | |
| `ProgressFile` | `BenchmarkProgress`: two threads that publish snapshots to one file | |
| `ApiCheck`, `ApiCheck_proofs` | `run_check()` and its threads, and `main()` around it | EXTENDS `ProgressFile` |
| `Autotune`, `Autotune_proofs` | the GLM tuner | |
| `MC_*` | instances for TLC: symmetry, matrices | |

How a model corresponds to its code: a variable is a file, a field or something
of Docker and is commented with what it stands for; `pc` (or `main`, `thread`)
is where the process or thread is; an action is the code from one point where
something else can happen to the next: an external command, a file write, a
lock, a wait. `map` in `PROJECT.json` names the lines of every definition.
Definitions preceded by `MUTANT of X` are not part of a model: each is `X` with
a plausible mistake, kept to show that some property notices it.

## 3. Runs

| Run | Shows |
|---|---|
| `containers` | With kills and interrupts at every step: everything that may run is named by `runtime.json` (`NoOrphan`), which agrees with memory (`LedgerAgrees`); a foreign container is only stopped or removed if it took its name between the inspect and the commands that follow (`ForeignSpared`); when serving, all backends are held and the key file is gone (`ServingComplete`); `WritesAhead`: `OwnershipLedger` is implemented |
| `containers_lag` | A daemon that serves a create after its client died: no *running* container is unrecorded as long as nothing is SIGKILLed (`NoRunningOrphan`), and `start()` and every sweep end (`CallsEnd`) |
| `gateway` | Two gateways one after the other, and what the first one's HAProxy serves meanwhile: `gateway.json` implements `OwnershipLedger` for all but what comes of a create that was pending while a sweep inspected its name (`WritesAhead`), foreign containers survive also when they take a name between inspect and removal (`ForeignUntouched`); requests of a session go and stay where its healthy server is (`AffinityKept`), and at all limits no admitted session lacks a table entry (`WithinLimits`) |
| `algorithms` | `shortlist()` against its docstring on all sets of up to three records (`RankingIsFair`, `CoverageKept`); `exact_prompt()` never takes a length for exact that is not, and finds it where counts grow with the text (`ExactIsFound`); what `make_prompt()` returns fits, whatever the tokenizer counts (`PromptFits`) |
| `staged` | One candidate at a time (`MeasuredAlone`), winners passed qualification and completed runs are exported (`WinnerQualified`), stored passes are never lost or repeated (`CompletedSurvive`), and a run that is not killed ends (`RunEnds`) |
| `deployment` | What a user was told is serving can be stopped (`Findable`); a deployment is recorded only while backends and gateway are up (`RecordedIsComplete`) |
| `stream` | A passed result kept its budgets even if the watchdog was slow, and came from the connection opened for it (`PassedInTime`); after the timeout no read waits on an open socket (`StreamAborted`); request, timer and watchdog end whatever the server sends (`StreamEnds`) |
| `workload` | A pass means real overlap and no stragglers (`PassedTogether`), and sessions stay where they are (`SessionKept`); the caller reaches a verdict although streams hang (`WorkloadEnds`) |
| `telemetry` | Servers asked one after the other are all idle when the workload starts (`MeasuredOnIdle`); a pass means no preemption, although a server may have restarted and lost its count, and no lack of memory longer than the gap (`PassedClean`); the verdict comes although the sampler hangs (`VerdictComes`) |
| `apicheck` | A pass means that every request was beside every long session, although events of failed sessions release the others (`PassedBeside`); the last snapshot is the report's and stays, although a publishing thread may be late (`LastSnapshotStays`); the check ends, unless the server feeds a line or an answer byte by byte for ever (`CheckEnds`) |
| `autotune` | What runs, or will be restarted, is what `config.yml` and `deployment.json` say (`RunsWhatIsRecorded`); "restored" and "selected" in `summary.json` mean it; the tuner ends (`TunerEnds`) |
| `autotune_restore` | **finding**: an unwritable report keeps `restore()` from being called |

### Disagreements without a run

Met while reading and modelling, visible in the models, and of less weight than
the finding above:

- "removes only matching owner-labelled containers"
  (`src/models/qwen3.8-27b/README.md:180`) and "only after verifying each persisted
  ownership label" (`runtime.py:273`). The label is verified by `docker inspect`, and
  `docker stop` and `docker rm` then go by name: a container of another owner that
  takes the name in between is stopped or removed (`ForeignTakes` of
  `ContainerRuntime`, at pc "stop", "remove" and "fetchstop"). `ForeignSpared` says that
  this gap is the only one. `_remove_owned()` of the gateway closes it: it removes by id.
- "Remove only containers carrying this object's ownership and role labels", then
  "stopped" in the manifest (`gateway.py:363-371`). A `docker run` that timed out
  may have left a create request with dockerd; the sweep inspects, finds nothing
  and writes "stopped", and the container that then appears is on no record
  (`LateCreate` of `GatewayLifecycle`). It does not run ("leftover"), unless its
  `docker run` outlived a process that was killed ("loose").
- "Wall-clock streaming budget in seconds" (`src/scripts/api_check.py:345`). The
  deadline is looked at after a complete line, and the socket's timeout starts
  again with every byte; an unfinished line that goes on holds the thread, and
  leaving the pool waits for it (`Drips` of `ApiCheck`). `CheckEnds` excepts this.
- "Ctrl-C cleans up only this downloader" (`runtime.py:605`). `docker stop`
  leaves a downloader that was created and not yet started; `download_models()`
  then forgets it (lines 640-641), and no recovery knows of it. `MayRun` of
  `ContainerRuntime` excludes it for that reason: it occupies a name, no GPU.
- "launch, then await worker health" (`gateway.py:314`). `start()` accepts a 200
  on the loopback port from any process; when another one bound it before
  HAProxy could, `start()` returns with a gateway that does not run. `Healthy` of
  `GatewayLifecycle` has this step.
- "Interrupted. Managed containers were stopped" (`runner.py:483`) is printed
  also after an interrupt that cut the cleanup or `recover_tree()` short
  (`CleanupFails`, `RecoverFails` of `StagedRun`).
- "Failure cleans up the attempted deployment"
  (`src/models/qwen3.8-27b/README.md:212`). An interrupt while `serve` prints
  its two last lines removes the containers and leaves `active.json`
  (`ServeFails` at "announce" in `Deployment`), so the next `serve` is refused.
- "shutdown wakes a blocked buffered readline" (`benchmark.py:92`). An abort
  between `connect()` and `request()` closes the connection, `request()` has
  `http.client` open another one, and nobody can shut that one down
  (`SendRequest` of `StreamWatch`). After the timer or the watchdog the request
  still ends, by `_deadline()`; after a `close()` in that moment it need not,
  which is why `StreamEnds` and `StreamAborted` except `close()`.
- "status" in `progress.json`. Of a failed run it says "failed"
  (`runner.py:345`) and then "interrupted", because `Progress.__exit__`
  (`state.py:118`) writes that for any exception (`Except`, `ExitRun` of
  `StagedRun`).
- "no production recommendation" (`runner.py:329`). When a completed run is
  resumed with `--retry-failed` and then nobody qualifies, the earlier
  `recommendation.json` stays. It still names a candidate with a passing
  qualification, which is why `WinnerQualified` holds.
- "The authoritative final report still reports file failures in the main thread."
  (`src/scripts/progress.py:70`). The publishing thread goes on after a failure; when
  the file still fails in `finish()` or `__exit__`, the `OSError` escapes `main()` and
  there is no report at all (`PublishRaises` of `ApiCheck`).
- "Release dependencies promptly" (`src/scripts/api_check.py:313`). Futures are
  collected in order, so a second long session that failed releases the extra
  users only once the first one's future is there (`Collect` of `ApiCheck`).
- "subsequent requests stay on that healthy backend"
  (`src/models/qwen3.8-27b/README.md:236-252`). Two first requests of one session
  may be under way at once; each goes to a server of its own, and the one
  answered last writes the entry (`Answer` of `GatewayAdmission`).

### Bounds

Two run ids are two runtimes one after the other (each is swept before the next
may be built, so a third repeats the second), two backends have a first and a
last, one precision is one downloader. Two gateway owners, for the same reason.
Three records and scores around the 5% band make and break every tie of
`shortlist()`. Buffers of lengths 0 to 6 with counts
up to four: three probes are just what a bisection of seven lengths needs, as 28
and 24 are enough for the code's buffers, so a search that narrows too slowly runs
out of them; a slack of one separates a close prompt from one that merely fits.
Three candidates, two of one layout, give a staged run one to lose in
each stage.
Three connections of two sessions on two servers with every limit at one have
the pool, a server's slot, its queue and the table full, each at a time and all at
once. Requests come only under the first of two gateways, and the second one is
made when HAProxy is idle: no state of HAProxy is shared by two gateways. For both,
nothing may be left of the first one's configuration check, which no other
container depends on (`NoCheckLeft`). A name may be taken by one other owner at a
time (`Strangers`, `OneStranger`), and the names of one owner have at most one
create request each that a sweep has overlooked.
Two backends are one that is asked while the other still moves. A server takes
four ticks to start again, one more than two gaps between samples and a last
reading, which is the relation of the code's numbers (15 s, some seconds,
minutes): with three ticks a restart can hide a preemption between two samples,
and `PassedClean` is false.
Two long sessions and one extra user have the extra wait for one session while the
other fails; three clock readings order all first and last outputs.
In `ApiCheck` and `Workload` the last reading is `MaxTime`.
Three directories are a deployment, one that is refused because of it and one
after it. Two long requests, a short one and two clock readings (`MaxTime = 2`) let
each begin and end before, with and after the others, which is what the verdict
tells apart. Two combinations
give the tuner a best, a second and an expansion. Nothing is counted without end
except by these bounds; runs that set `CHECK_DEADLOCK FALSE` say in the cfg
which bound stops the system, or that it has simply ended.

### Fairness

Weak fairness of a process's own steps: nothing in the code waits without a
timeout, and a failing step is one of them. Docker is fair only in answering
what it was asked. Containers, servers, callers, interrupts and kills are not
fair, with one exception: in `StreamWatch` connecting, sending and reading
headers end, by socket timeouts and the limits of `http.client`, and time passes.
In `TelemetryGate` nothing is assumed of the sampler or of the servers, only of
the main thread and of the deadline of `wait_idle()`. In `ApiCheck` the threads'
connections, their deadline and the lines of a stream are fair only while no line
or answer is being fed byte by byte, which nothing obliges the server to end, and
what the lines say is not fair at all; and
publishing is strongly fair, because the main thread can need the lock while the
worker takes it again and again, and the worker leaves it for its whole interval
each time.

## 4. Proofs

`ContainerRuntime_proofs`, for any number of run ids, backends and precisions,
from `ConstantsAssumption` (what the code draws its values from):

| Theorem | States | Holds |
|---|---|---|
| `TypeCorrect` | `[]TypeOK` | always |
| `LedgerAgreement` | `[]LedgerAgrees` | always |
| `ServingCompleteAlways` | `[]ServingComplete` | always |
| `ForeignSparedAlways` | `ForeignSpared`, an action property | always, names being taken also between an inspect and its commands |
| `NothingOrphaned` | `[]NoOrphan` | if `~DaemonLags` |
| `ImplementsLedger` | `WritesAhead`, the refinement | if `~DaemonLags` |
| `NothingRunsUnrecorded` | `[]NoRunningOrphan` | if `~Kills`, however the daemon lags |

`~DaemonLags` says that dockerd has dealt with a create before it answers an
inspect of that name. Without it `NoOrphan` is false of the code: a create that
arrives after the inspect is on no record. `NothingRunsUnrecorded` is what is left
then: such a container may be created, and only its client, which ends with the
call that waits for it, would start it. A SIGKILL leaves that client alive, hence
`~Kills`.

The inductive invariants come in three layers:

- `Base`: what holds whatever dockerd and other people do. Memory and manifest
  agree, also half-way through a sweep (else a rewrite would drop names), the
  container being launched is held (else the request after it would be
  unrecorded), a sweep only visits what is recorded, and `start()` climbs through
  its backends without leaving one out (`Climbing`, for `ServingComplete`). The
  first four theorems need no more, but for `OwnedAtHand`: what a sweep has at hand
  and is not its own took the name after the inspect, as the history variable
  `usurped` says.
- `IInv` adds what is behind `NoOrphan`, which is not inductive: what a sweep has
  passed over and not kept can no longer run (else the rewrite at its end would
  drop it), and a `--rm` container is never found exited. `OnlyAskLaunches` is the
  main lemma: only the step that sends `docker run` makes a name able to run, so all
  other steps need only be looked at for what they do to the record.
- `Watched`, for the daemon that lags: a client lives within the call that waits
  for it, and what a sweep has passed over or a download is about to forget does not
  run. `OnlyClientsStart` is the main lemma.

The other proof modules, each for all values of its constants that the named
assumption of its module admits. In each the inductive invariant is built from
named parts, and the step of every part has one case per action.

| Module | Theorem | Property | Beyond the type invariant it needs |
|---|---|---|---|
| `GatewayServing_proofs` | `WithinLimitsAlways` | `WithinLimits` | `Tracked`: what a connection has of the table before its answer writes it. Finiteness of sessions and connections (cardinalities) |
| | `AffinityKeptAlways` | `AffinityKept` | an action property: what one step of each kind does to a connection |
| | `ForeignUntouchedAlways` | `ForeignUntouched` | that a manifest names an owner that was drawn |
| | `ImplementsLedger` | `WritesAhead` | `Owning`, `Swept`: memory and `gateway.json` agree on the owner, and what a sweep has passed may not run again, but for a create it has overlooked |
| | `NothingLooseAlways` | `NothingLoose`: what was overlooked never runs, if `~Kills` | `Attended`: a `docker run` is there only while the process that issued it waits for it |
| `StagedRun_proofs` | `MeasuredAloneAlways` | `MeasuredAlone` | `Clean`: no containers are left while files are written or the machine is checked, nor before there is a `run.json` to resume |
| | `CompletedSurviveAlways` | `CompletedSurvive` | `Kept`: the copy in memory has every pass of the file, and what is being measured has no result |
| | `WinnerQualifiedAlways` | `WinnerQualified` | `Agree`: where file and memory agree, and that "completed" is at most one step ahead of the export |
| | `FindableAlways`, `RecordedIsCompleteAlways` | `Findable`, `RecordedIsComplete` of `Deployment` | `Serving`, `Started`: whose directory a command is in, and what of it runs by then |
| `Autotune_proofs` | `RunsWhatIsRecordedAlways` | `RunsWhatIsRecorded` | `Paired`: the files are only written while the service is stopped |
| | `RestoredMeansRestoredAlways`, `SelectedIsMeasuredAlways` | `RestoredMeansRestored`, `SelectedIsMeasured` | `Measured`, `Told`: how a profile gets to be the winner, and which status is on disk where a process may end |
| `TelemetryGate_proofs` | `OnlyIdleIsMeasured` | `MeasuredOnIdle` | `AskedAreIdle`: the servers asked so far hold nothing; what is over does not come back |
| | `PassedIsClean` | `PassedClean` | `Following`, `Headroom`, `Counted`: distances in time, see below |
| `Workload_proofs` | `SessionKeptAlways` | `SessionKept` | `Sessions`: a request expects the backend that is on record, and none is under way between workloads |
| | `PassedTogetherAlways` | `PassedTogether` | `Together`: timestamps against what was really under way |
| | `PassedIsInTime`, `TimeoutReachesTheSocket` | `PassedInTime`, `StreamAborted` of `StreamWatch` | `OneSocket`: until `close()` interferes, what is read is what the timer would shut down, or the request is bound to end; `Lateness`, `Reasons`: who aborts has a reason that the reading thread will find |
| `ApiCheck_proofs` | `LastSnapshotStaysAlways` | `LastSnapshotStays` | `Snapshots`: the lock is exclusive, and the main thread's last snapshot is the status |
| | `PassedBesideAlways` | `PassedBeside` | `Honest`: timestamps against what was really under way, and that an extra released by a failure cannot pass |
| `AlgorithmsCheck_proofs` | `RankingAlways`, `CoverageAlways` | `RankingIsFair`, `CoverageKept` | `StageInv`: finitely many results, numbered differently; one loop invariant per loop, see below |
| | `ExactAlways`, `FitAlways` | `ExactIsFound`, `PromptFits` | loop invariants of the bisections, see below |

Each of these modules also proves its type invariants (`TypeCorrect`,
`DeploymentTypeCorrect`, `StreamTypeCorrect`), but the algorithms, whose inputs
have theirs in `StageInv` and `Tokens`.

**`PassedClean`** says of a pass that no preemption went unnoticed, although a
restart takes a server's count back to zero. The argument is one about time. As
long as the measurement is not `Doomed` (an error, or samples further apart than
`Gap`), each server is read at least once between two samples, so one that is
down goes unnoticed for at most `Unnoticed(b)` ticks, which is less than a server
takes to start (`TelemetryAssumption`, the relation of the code's numbers). So none
has come back between the first sample and the last reading, its counter has only
grown (`NotMissed`), and a preemption is in it (`Counted`). `Headroom` bounds
in the same way for how long the memory can have been low without a sample that
shows it.

**Algorithms.** `Loops` has a loop as `Rounds(round, s, n)`, by a recursive
function, and two lemmas are all the proofs use of it: `SetInduction`, induction
over the naturals for a *set* of them instead of a property, and
`RoundsInvariant`, the rule of a loop: what is true before, and is preserved by
each of n rounds, is true after them (`Holds[k]` is what is true after k). On these
rest:

- `ExactAlways`, `FitAlways`: for a buffer of any length, any target and any
  counts. A bisection keeps its answer inside bounds whose distance halves, so it
  is decided within its probes if these halve the buffer away: `ProbesSuffice`,
  which TLC evaluates for the run. It holds of the code's numbers, 28 and 24
  probes, by far: the buffers are about ten times the target, or twelve
  times and a corpus, which is less than 2^24 characters.
- `RankingAlways`, `CoverageAlways`: for any results, counts up to three, and
  tolerances up to 10%, which is what `shortlist()` accepts. `BeforeOrders`: the
  keys order the records of a stage strictly and totally, so that a band can be
  sorted (`SortExists`) and its first has the lowest latency. `Fair` is the
  invariant of the loop over the bands, `FirstOfLayouts` and `Filled` those of the
  loops over the ranking. A sequence without repetitions is as long as it has
  elements (`DistinctLength`), which relates lengths and cardinalities.

`ShortlistAssumption` of `StagedRun` is all its proofs need to know of
`shortlist()`: it lists candidates it is given, and passed ones. The theorem
`ShortlistListsPassed` of `AlgorithmsCheck_proofs` says so of `Ranking`, for any
results and arguments; TLC evaluates the assumption itself, with `Ranking`, in the
run `staged`, as it evaluates the other assumptions.

Only model-checked:

- liveness and fairness, which are out of the prover's reach, as is ENABLED:
  `CallsEnd`, `RunEnds`, `StreamEnds`, `WorkloadEnds`, `VerdictComes`, `CheckEnds`
  and `TunerEnds`;
- the run that finds a violation, `autotune_restore`.

## 5. Not modelled, and limits

- In `ContainerRuntime` a name is taken by somebody else only where it can make a
  difference: before the launch or the inspect that finds it, or between the inspect
  and the commands after it.
- In `GatewayLifecycle` a create request that a sweep has overlooked and that dockerd
  serves between the inspect and the `docker rm` of that name counts as served after
  it: the `rm` goes by the id of another container. `WritesAhead` counts an
  overlooked request, and what comes of it, as outside the ledger; what it
  promises for such a container is `NothingLoose`.
- `containers.append()` and `_persist()` are one step, as are the assignment and the
  write at the end of a sweep (`SweepPersist`), and the write of `run.json` and of
  `progress.json` after the checks: nothing outside the process reads between them,
  and a kill before the write is a kill before the step. A `_persist()` that fails is
  not modelled.
- `ProgressFile.WorkerPublishes` has the thread look at the stop event and take the
  lock in one step (`src/scripts/progress.py:66`, 62). In the order that is lost it writes
  after the last snapshot, once the join has timed out or before it returns: a write
  of the final status.
- `Workload.InjectShort` looks once more whether a long request is alive when the
  short one is sent; the code looks at the head of its loop only (`benchmark.py:512`). A
  short request sent after all others have ended fails the verdict all the same.
- The `save()` that closes `Autotune.RestoreFails` succeeds; that one which does not
  hides the report of a failed restore is not modelled.
- A second interrupt inside an `except` clause before its first statement.
- A `docker compose` command cut off by its timeout takes effect at once or
  never in `Autotune`.
- `connection.request()` is one step in `StreamWatch` (`http.client` may send
  headers and body in two). What the events of a stream contain is left out.
- Log capture, KV capacity and GPU topology parsing, model snapshots, port checks,
  the smoke checks, `long_retrieval()`, `cache_check.py`, `GPUWatch` and
  `TuningProgress`: sequential reads and judgements of what others say. Their
  outcomes enter the models as checks that pass or fail.
- Of HAProxy's configuration: authentication, the rules for session ids and
  bodies, the rate limit, and timeouts as such (a connection may end at any time).
- Of telemetry: NVLink counters, which are recorded and judged by nobody.
- `configure.py` and `media_chat.py`: configuration text, one request and its
  answer.
- The GLM tuner and the Qwen runner take different locks: that both may find the
  GPUs idle is listed as a hazard and has no model.

## 6. Plan

Done, in this order: `DockerDaemon`, `OwnershipLedger`, `ContainerRuntime` and
its proofs, `GatewayLifecycle`, `Ranking`, `StagedRun`, `Deployment`, `Autotune`,
`StreamWatch`, `Workload`, `GatewayAdmission` and `GatewayServing`,
`TelemetryGate`, `PromptSearch`, `ProgressFile` and `ApiCheck`, and theorems for
every safety property the runs check.

Left:

1. A composition of `StagedRun` with `ContainerRuntime` and `GatewayLifecycle`
   that discharges the "up or not" of `StagedRun` and `Deployment`.
2. Steps towards the liveness properties: variants that bound the steps of a
   sweep, of a search over the matrix and of an aborted request.
3. The function-call lifecycle of `_stream()` as an acceptor against a reference
   definition.
