-------------------------- MODULE ContainerRuntime --------------------------
(***************************************************************************)
(* DockerRuntime and recover() of qwen_bench/runtime.py: how the benchmark *)
(* launches, polls and removes the vLLM containers of one run directory,   *)
(* together with the Docker daemon and the `docker run` clients it drives. *)
(*                                                                         *)
(* A container name "qwen-bench-<run_id>-<suffix>" is a pair <<r, s>>: r   *)
(* is the run id, s the suffix: 0.. for the backends, Probe for the image  *)
(* probe, a smaller number for each precision's downloader.                *)
(*                                                                         *)
(* A process can be killed between any two steps (Kill), and an interrupt  *)
(* (SIGINT, SIGTERM) can surface as an exception in any of its steps.      *)
(***************************************************************************)
EXTENDS Integers, FiniteSets, DockerDaemon

CONSTANTS Runs,        \* the run ids uuid4 may return
          NoRun,       \* "no runtime.json" and "no DockerRuntime"
          Replicas,    \* backends of the replica layout
          Precisions,  \* number of configured precisions
          Strangers,   \* bound: containers of other owners at a time
          DaemonLags,  \* may the daemon leave a create pending past an inspect?
          Kills        \* may SIGKILL or a power failure end the process?

ASSUME ConstantsAssumption ==
    /\ NoRun \notin Runs
    /\ Replicas \in Nat \ {0}
    /\ Precisions \in Nat /\ Strangers \in Nat
    /\ DaemonLags \in BOOLEAN
    /\ Kills \in BOOLEAN

Probe   == -1
Workers == 0 .. (Replicas - 1)
Fetches == (-1 - Precisions) .. -2
Slots   == (-1 - Precisions) .. (Replicas - 1)
Names   == Runs \X Slots

\* `docker run --rm`: the probe and the downloaders, not the backends.
AutoRemoved(s) == s <= Probe
Fetcher(s)     == s < Probe

VARIABLES
    \* what survives the process
    manifest,   \* runtime.json: the run id and the suffixes of its containers
    env,        \* run ids whose runtime-<run_id>.env (API key) is on disk
    used,       \* run ids already drawn
    \* the process
    pc,         \* what it is doing; "down" when there is none
    run,        \* self.run_id, or the run id a recovery read
    held,       \* self.containers
    width,      \* number of backends of the candidate being started
    at,         \* the container being launched, polled or removed
    ready,      \* `ready` of the current polling round
    mode,       \* whose sweep: "stop" or "recover"
    todo,       \* containers the sweep has still to visit
    remaining,  \* containers the sweep could not remove
    due,        \* download_models(): the next downloader, 0 when none is due
    \* history
    usurped     \* the name at hand, if another owner took it since its inspect

disk  == <<manifest, env>>
sweep == <<mode, todo, remaining, due>>
start == <<width, at, ready, usurped>>
vars  == <<manifest, env, docker, asked, clients, used, pc, run, held,
           width, at, ready, usurped, mode, todo, remaining, due>>

Sweeping == {"inspect", "stop", "remove", "unlink"}

\* Between the docker inspect of a name and the last command on it.
Commanding == {"stop", "remove", "fetchstop"}

TypeOK ==
    /\ manifest \in [run : Runs \cup {NoRun}, slots : SUBSET Slots]
    /\ env \subseteq Runs
    /\ docker \in [Names -> States]
    /\ asked \subseteq Names
    /\ clients \subseteq Names
    /\ used \subseteq Runs
    /\ pc \in {"down", "idle", "serving", "prepared", "ask", "wait", "poll",
               "fetched", "fetchstop", "forget"} \cup Sweeping
    /\ run \in Runs \cup {NoRun}
    /\ pc # "down" => run \in Runs
    /\ held \subseteq Slots
    /\ width \in 1 .. Replicas
    /\ at \in Slots
    /\ ready \in BOOLEAN
    /\ mode \in {"stop", "recover"}
    /\ todo \subseteq Slots
    /\ remaining \subseteq Slots
    /\ due \in Fetches \cup {0}
    /\ usurped \subseteq Names

Init ==
    /\ manifest = [run |-> NoRun, slots |-> {}]
    /\ env = {}
    /\ docker = [n \in Names |-> "absent"]
    /\ asked = {}
    /\ clients = {}
    /\ used = {}
    /\ pc = "down"
    /\ run = NoRun
    /\ held = {}
    /\ width = 1
    /\ at = 0
    /\ ready = TRUE
    /\ mode = "stop"
    /\ todo = {}
    /\ remaining = {}
    /\ due = 0
    /\ usurped = {}

Name(s) == <<run, s>>

-----------------------------------------------------------------------------
(* Helpers shared by the calls.                                            *)

\* MUTANT of Persist: the list is written before the container is appended.
PersistStale(slots) == manifest' = [run |-> run, slots |-> held]

\* self._persist(): runtime.json now names this run and these containers.
Persist(slots) == manifest' = [run |-> run, slots |-> slots]

\* A sweep over `slots` begins.
BeginSweep(m, slots) ==
    /\ mode' = m
    /\ todo' = slots
    /\ remaining' = {}
    /\ pc' = "inspect"

\* The call ends and the DockerRuntime stays; its containers are in `held`.
BackToCaller(state) ==
    /\ pc' = state
    /\ at' = 0
    /\ ready' = TRUE
    /\ usurped' = {}
    /\ width' = 1
    /\ mode' = "stop"
    /\ todo' = {}
    /\ remaining' = {}

\* The process is gone, and with it everything in its memory.
ProcessEnds ==
    /\ BackToCaller("down")
    /\ due' = 0
    /\ run' = NoRun
    /\ held' = {}

-----------------------------------------------------------------------------
(* DockerRuntime(config, run_dir): refused while runtime.json still lists  *)
(* containers. The run id is fresh.                                        *)
Construct(r) ==
    /\ pc = "down"
    /\ manifest.slots = {}
    /\ r \notin used
    /\ used' = used \cup {r}
    /\ run' = r
    /\ pc' = "idle"
    /\ UNCHANGED <<disk, world, held, start, sweep>>

-----------------------------------------------------------------------------
(* start(candidate)                                                        *)

\* The checks pass (matrix, ports, idle GPUs, NVLink pair) and
\* launch_commands has written the env file. A failed check changes nothing.
Start(w) ==
    /\ pc = "idle" /\ due = 0
    /\ held = {}
    /\ env' = env \cup {run}
    /\ width' = w
    /\ pc' = "prepared"
    /\ UNCHANGED <<manifest, world, used, run, held, at, ready, usurped, sweep>>

\* self.containers.append(...); self._persist(): before the docker run.
RecordWorker(s) ==
    /\ held' = held \cup {s}
    /\ Persist(held \cup {s})
    /\ at' = s
    /\ pc' = "ask"

FirstWorker ==
    /\ pc = "prepared"
    /\ RecordWorker(0)
    /\ UNCHANGED <<env, world, used, run, width, ready, usurped, sweep>>

\* docker run, of a backend, the probe or a downloader.
Ask ==
    /\ pc = "ask"
    /\ Request(Name(at))
    /\ pc' = "wait"
    /\ UNCHANGED <<disk, used, run, held, start, sweep>>

\* MUTANT of WorkerUp: the env file is only unlinked by stop().
WorkerUpLeavesEnv ==
    /\ pc = "wait"
    /\ at >= 0
    /\ docker[Name(at)] \in {"running", "exited"}
    /\ clients' = clients \ {Name(at)}
    /\ \/ at + 1 < width /\ RecordWorker(at + 1)
       \/ /\ at + 1 = width
          /\ at' = 0
          /\ pc' = "poll"
          /\ UNCHANGED <<manifest, held>>
    /\ UNCHANGED <<env, docker, asked, used, run, width, ready, usurped, sweep>>

\* `docker run --detach` exits 0; after the last one the env file goes.
WorkerUp ==
    /\ pc = "wait"
    /\ at >= 0
    /\ docker[Name(at)] \in {"running", "exited"}
    /\ clients' = clients \ {Name(at)}
    /\ \/ /\ at + 1 < width
          /\ RecordWorker(at + 1)
          /\ UNCHANGED env
       \/ /\ at + 1 = width
          /\ env' = env \ {run}
          /\ at' = 0
          /\ pc' = "poll"
          /\ UNCHANGED <<manifest, held>>
    /\ UNCHANGED <<docker, asked, used, run, width, ready, usurped, sweep>>

\* One container of a polling round: inspected as running; /health answers
\* 200 or not. A round in which all do ends start().
Poll(healthy) ==
    /\ pc = "poll"
    /\ docker[Name(at)] = "running"
    /\ \/ /\ at + 1 < width
          /\ at' = at + 1
          /\ ready' = (ready /\ healthy)
          /\ pc' = "poll"
       \/ /\ at + 1 = width
          /\ at' = 0
          /\ ready' = TRUE
          /\ pc' = IF ready /\ healthy THEN "serving" ELSE "poll"
    /\ UNCHANGED <<disk, world, used, run, held, width, usurped, sweep>>

\* MUTANT of Abandon: the timed-out `docker run` client is not killed.
AbandonLeavesClient ==
    /\ pc \in {"ask", "wait", "poll"}
    /\ ~Fetcher(at)
    /\ BeginSweep("stop", held)
    /\ due' = 0
    /\ UNCHANGED <<disk, world, used, run, held, start>>

\* `except BaseException: self.stop()`, and the `finally` of probe_image: a
\* refused or timed-out docker run, a container that is not running, the
\* startup deadline, a failed inspect, an interrupt. The client dies with
\* the call; what it asked of the daemon may still happen. No download
\* follows a failed probe.
Abandon ==
    /\ pc \in {"ask", "wait", "poll"}
    /\ ~Fetcher(at)
    /\ clients' = clients \ {Name(at)}
    /\ BeginSweep("stop", held)
    /\ due' = 0
    /\ UNCHANGED <<disk, docker, asked, used, run, held, start>>

-----------------------------------------------------------------------------
(* probe_image() and download_models(): one --rm container at a time,      *)
(* recorded before its docker run.                                         *)

RunOnce(s) ==
    /\ held' = {s}
    /\ Persist({s})
    /\ at' = s
    /\ pc' = "ask"
    /\ UNCHANGED <<env, world, used, run, width, ready, usurped, mode, todo,
                   remaining>>

\* probe_image(), alone or as the first thing download_models() does, for all
\* precisions or for one candidate's.
ProbeImage ==
    /\ pc = "idle" /\ due = 0
    /\ held = {}
    /\ RunOnce(Probe)
    /\ due' \in {0} \cup Fetches

\* The probe's client returned its report: stop() all the same.
ProbeOver ==
    /\ pc = "wait"
    /\ at = Probe
    /\ Name(at) \notin asked
    /\ docker[Name(at)] \in {"removing", "absent"} \cup Foreign
    /\ clients' = clients \ {Name(at)}
    /\ BeginSweep("stop", held)
    /\ UNCHANGED <<disk, docker, asked, used, run, held, start, due>>

\* The next precision of download_models(), in the configured order.
FetchNext ==
    /\ pc = "idle" /\ due # 0
    /\ RunOnce(due)
    /\ due' = IF due - 1 \in Fetches THEN due - 1 ELSE 0

\* The downloader's client returned 0, or it failed, or an interrupt killed
\* it: then nothing more is due.
FetchOver ==
    /\ pc \in {"ask", "wait"}
    /\ Fetcher(at)
    /\ clients' = clients \ {Name(at)}
    /\ pc' = "fetched"
    /\ due' \in {due, 0}
    /\ UNCHANGED <<disk, docker, asked, used, run, held, start,
                   mode, todo, remaining>>

\* The daemon has dealt with a create request before it answers an inspect.
Settled(n) == DaemonLags \/ n \notin asked

FetchGone ==
    /\ pc = "fetched"
    /\ docker[Name(at)] = "absent"
    /\ Settled(Name(at))
    /\ pc' = "forget"
    /\ UNCHANGED <<disk, world, used, run, held, start, sweep>>

FetchThere ==
    /\ pc = "fetched"
    /\ Exists(Name(at))
    /\ Settled(Name(at))
    /\ pc' = "fetchstop"
    /\ UNCHANGED <<disk, world, used, run, held, start, sweep>>

FetchStop ==
    /\ pc = "fetchstop"
    /\ docker[Name(at)] # "absent"
    /\ docker' = [docker EXCEPT ![Name(at)] = Stopped(Name(at), AutoRemoved(at))]
    /\ pc' = "forget"
    /\ UNCHANGED <<disk, asked, clients, used, run, held, start, sweep>>

\* MUTANT of FetchForget: the emptied list is not persisted.
FetchForgetInMemory ==
    /\ pc = "forget"
    /\ held' = {}
    /\ BackToCaller("idle")
    /\ UNCHANGED <<disk, world, used, run, due>>

\* self.containers = []; self._persist()
FetchForget ==
    /\ pc = "forget"
    /\ held' = {}
    /\ Persist({})
    /\ BackToCaller("idle")
    /\ UNCHANGED <<env, world, used, run, due>>

-----------------------------------------------------------------------------
(* stop() and recover(): the sweep over the recorded containers            *)

Stop ==
    /\ pc \in {"idle", "serving"} /\ due = 0
    /\ BeginSweep("stop", held)
    /\ width' = 1
    /\ UNCHANGED <<disk, world, used, run, held, at, ready, usurped, due>>

\* recover(run_dir) of a later process: what the manifest says is all it has.
Recover ==
    /\ pc = "down"
    /\ manifest.run # NoRun
    /\ run' = manifest.run
    /\ BeginSweep("recover", manifest.slots)
    /\ UNCHANGED <<disk, world, used, held, start, due>>

\* stop() goes through its containers backwards, recover() forwards.
IsNext(c) ==
    /\ c \in todo
    /\ \A d \in todo : IF mode = "stop" THEN d <= c ELSE c <= d

\* docker inspect says "No such": nothing to do for this container.
InspectGone(c) ==
    /\ pc = "inspect"
    /\ IsNext(c)
    /\ docker[Name(c)] = "absent"
    /\ Settled(Name(c))
    /\ todo' = todo \ {c}
    /\ UNCHANGED <<disk, world, used, pc, run, held, start, mode, remaining,
                   due>>

\* MUTANT of InspectOwned: the owner label is not looked at.
InspectNamed(c) ==
    /\ pc = "inspect"
    /\ IsNext(c)
    /\ docker[Name(c)] # "absent"
    /\ Settled(Name(c))
    /\ at' = c
    /\ pc' = "stop"
    /\ UNCHANGED <<disk, world, used, run, held, width, ready, usurped, sweep>>

\* docker inspect shows this run's label.
InspectOwned(c) ==
    /\ pc = "inspect"
    /\ IsNext(c)
    /\ Exists(Name(c))
    /\ Settled(Name(c))
    /\ at' = c
    /\ pc' = "stop"
    /\ UNCHANGED <<disk, world, used, run, held, width, ready, usurped, sweep>>

\* Another label, or Docker fails: keep the container on record.
InspectRefused(c) ==
    /\ pc = "inspect"
    /\ IsNext(c)
    /\ todo' = todo \ {c}
    /\ remaining' = remaining \cup {c}
    /\ UNCHANGED <<disk, world, used, pc, run, held, start, mode, due>>

DockerStop ==
    /\ pc = "stop"
    /\ docker[Name(at)] # "absent"
    /\ docker' = [docker EXCEPT ![Name(at)] = Stopped(Name(at), AutoRemoved(at))]
    /\ pc' = "remove"
    /\ UNCHANGED <<disk, asked, clients, used, run, held, start, sweep>>

\* docker rm; a container that is gone already counts as removed.
DockerRemove ==
    /\ pc = "remove"
    /\ Removable(Name(at))
    /\ docker' = [docker EXCEPT ![Name(at)] = "absent"]
    /\ todo' = todo \ {at}
    /\ at' = 0
    /\ usurped' = {}
    /\ pc' = "inspect"
    /\ UNCHANGED <<disk, asked, clients, used, run, held, width, ready,
                   mode, remaining, due>>

\* MUTANT of CommandFails: a failed container is retried until it goes.
CommandRetried ==
    /\ pc \in {"stop", "remove"}
    /\ at' = 0
    /\ pc' = "inspect"
    /\ UNCHANGED <<disk, world, used, run, held, width, ready, usurped, sweep>>

\* docker stop or docker rm fails or times out, perhaps after taking effect.
CommandFails ==
    /\ pc \in {"stop", "remove"}
    /\ \/ UNCHANGED docker
       \/ /\ pc = "stop"
          /\ docker' = [docker EXCEPT ![Name(at)] = Stopped(Name(at), AutoRemoved(at))]
       \/ /\ pc = "remove"
          /\ Removable(Name(at))
          /\ docker' = [docker EXCEPT ![Name(at)] = "absent"]
    /\ todo' = todo \ {at}
    /\ remaining' = remaining \cup {at}
    /\ at' = 0
    /\ usurped' = {}
    /\ pc' = "inspect"
    /\ UNCHANGED <<disk, asked, clients, used, run, held, width, ready, mode,
                   due>>

\* MUTANT of SweepPersist: what could not be removed is forgotten.
SweepPersistNothing ==
    /\ pc = "inspect"
    /\ todo = {}
    /\ Persist({})
    /\ held' = {}
    /\ pc' = "unlink"
    /\ UNCHANGED <<env, world, used, run, start, sweep>>

\* The loop is over: the manifest keeps exactly what could not be removed.
SweepPersist ==
    /\ pc = "inspect"
    /\ todo = {}
    /\ Persist(remaining)
    /\ held' = IF mode = "stop" THEN remaining ELSE {}
    /\ pc' = "unlink"
    /\ UNCHANGED <<env, world, used, run, start, sweep>>

\* env_file.unlink(missing_ok=True); stop() returns or raises, recover() too.
\* An error, or a probe that found no usable GPU, ends download_models().
SweepUnlink ==
    /\ pc = "unlink"
    /\ env' = env \ {run}
    /\ IF mode = "stop"
       THEN /\ BackToCaller("idle")
            /\ due' \in IF remaining = {} THEN {due, 0} ELSE {0}
            /\ UNCHANGED <<run, held>>
       ELSE ProcessEnds
    /\ UNCHANGED <<manifest, world, used>>

-----------------------------------------------------------------------------
(* Exceptions that no handler of this module turns into a sweep: before the *)
(* try of start(), in the finally of download_models(), and an interrupt    *)
(* inside a sweep, whose `except Exception` does not stop it.               *)
Raise ==
    /\ pc \in {"prepared", "fetched", "fetchstop", "forget"} \cup Sweeping
    /\ IF mode = "stop"
       THEN BackToCaller("idle") /\ due' = 0 /\ UNCHANGED <<run, held>>
       ELSE ProcessEnds
    /\ UNCHANGED <<disk, world, used>>

\* The process ends between calls; `serve` leaves its containers running.
Exit ==
    /\ pc \in {"idle", "serving"}
    /\ ProcessEnds
    /\ UNCHANGED <<disk, world, used>>

\* SIGKILL or power loss: a `docker run` client survives its parent.
Kill ==
    /\ Kills
    /\ pc # "down"
    /\ ProcessEnds
    /\ UNCHANGED <<disk, world, used>>

-----------------------------------------------------------------------------
(* The daemon moves by itself, and others use it too.                      *)
unchangedProcess == UNCHANGED <<disk, used, pc, run, held, start, sweep>>

\* The container that was inspected and is being stopped or removed.
AtHand(n) == pc \in Commanding /\ n = Name(at)

\* What the process hears from Docker depends on what carries the name n.
Concerns(n) ==
    \/ pc \in {"ask", "wait", "fetched"} /\ n = Name(at)
    \/ pc = "inspect" /\ \E c \in Slots : IsNext(c) /\ n = Name(c)
    \/ AtHand(n)

\* Somebody else takes a name, once its container is gone or an operator has
\* removed it: before the launch or the inspect that finds it, or between that
\* inspect and the commands that follow it. (Taken earlier it makes no other
\* difference; nor does it whether it runs, but for our docker rm.)
ForeignTakes(n) ==
    /\ Concerns(n)
    /\ docker[n] = "absent" \/ (docker[n] = "stopped" /\ AtHand(n))
    /\ Cardinality({m \in Names : docker[m] \in Foreign}) < Strangers
    /\ \/ docker' = [docker EXCEPT ![n] = "foreign"]
       \/ AtHand(n) /\ docker' = [docker EXCEPT ![n] = "halted"]
    /\ usurped' = usurped \cup {m \in {n} : AtHand(m)}
    /\ UNCHANGED <<disk, asked, clients, used, pc, run, held, width, at, ready,
                   sweep>>

\* Its owner removes it.
ForeignLeaves(n) ==
    /\ docker[n] \in Foreign
    /\ docker' = [docker EXCEPT ![n] = "absent"]
    /\ UNCHANGED <<asked, clients>>
    /\ unchangedProcess

Daemon(n) == \/ DaemonMoves(n, AutoRemoved(n[2])) /\ unchangedProcess
             \/ ForeignTakes(n) \/ ForeignLeaves(n)

-----------------------------------------------------------------------------
Call == \/ \E r \in Runs : Construct(r)
        \/ \E w \in {1, Replicas} : Start(w)
        \/ ProbeImage \/ FetchNext
        \/ Stop \/ Recover \/ Exit

Launching == FirstWorker \/ Ask \/ WorkerUp \/ Abandon \/ ProbeOver
             \/ FetchOver \/ \E healthy \in BOOLEAN : Poll(healthy)

Cleaning == \/ \E c \in Slots : InspectGone(c) \/ InspectOwned(c)
                                \/ InspectRefused(c)
            \/ DockerStop \/ DockerRemove \/ CommandFails
            \/ SweepPersist \/ SweepUnlink
            \/ FetchGone \/ FetchThere \/ FetchStop \/ FetchForget

Next == Call \/ Launching \/ Cleaning \/ Raise \/ Kill
        \/ \E n \in Names : Daemon(n)

Spec == Init /\ [][Next]_vars

\* The process keeps executing, its calls have timeouts and the startup a
\* deadline (WF of Abandon), and the daemon answers what it was asked.
\* Nothing obliges callers, interrupts, kills or containers.
FairSpec == /\ Spec
            /\ WF_vars(Launching) /\ WF_vars(Abandon) /\ WF_vars(Cleaning)
            /\ \A n \in Names :
                   /\ WF_vars((DaemonCreates(n) \/ DaemonRefuses(n))
                              /\ unchangedProcess)
                   /\ WF_vars(DaemonRemoves(n) /\ unchangedProcess)

-----------------------------------------------------------------------------
(* Properties                                                              *)

\* What could still occupy a GPU, a port or a name. A downloader that never
\* started counts only while a client can still start it: download_models()
\* forgets such a container, which then stays, created, for ever. A container
\* that Docker is removing does not count.
MayRun(n) == \/ n \in asked
             \/ docker[n] \in {"running", "exited", "stopped"}
             \/ docker[n] = "created" /\ (n \in clients \/ ~Fetcher(n[2]))

Recorded(n) == manifest.run = n[1] /\ n[2] \in manifest.slots

\* Whatever is killed, interrupted, refused or timed out at any step, every
\* container that may run, and every launch still under way, is named by
\* runtime.json, so that a recovery can find it (runtime.py:495-496, 551-569,
\* 283-301). Needs ~DaemonLags.
NoOrphan == \A n \in Names : MayRun(n) => Recorded(n)

\* The same for running containers only, with a daemon that may serve a
\* create long after its client is gone: without a kill nothing starts it.
NoRunningOrphan == \A n \in Names : docker[n] = "running" => Recorded(n)

\* Memory and disk agree whenever a DockerRuntime exists: runtime.json lists
\* exactly self.containers, so a stop() that rewrites it forgets nothing it
\* has not visited (runtime.py:326-331, 495-496, 565-566, 632-641).
LedgerAgrees ==
    pc # "down" =>
        IF mode = "stop"
        THEN /\ manifest.slots = held
             /\ held # {} => manifest.run = run
        ELSE held = {} /\ manifest.run = run

\* A container of another owner under one of our names is never stopped or
\* removed, by stop(), a download or the recovery of a later process, if it was
\* there for the inspect to see (runtime.py:293-294, 455-456). The commands go
\* by name, so the one that takes the name at hand after the inspect can be hit
\* (runtime.py:295-296, 560-561, 638-639): nothing else ever is.
ForeignSpared ==
    [][\A n \in Names : docker[n] \in Foreign /\ docker'[n] # docker[n]
            => n \in usurped \/ ForeignLeaves(n)]_vars

\* When start() has returned, every backend of the layout is held and on
\* record, and the copy of the API key is gone from the run directory
\* (runtime.py:503-515).
ServingComplete ==
    pc = "serving" => /\ held = 0 .. (width - 1)
                      /\ manifest = [run |-> run, slots |-> held]
                      /\ run \notin env

\* start() always ends, with the endpoints or with a sweep, and every sweep
\* ends, however many Docker commands fail on the way.
CallsEnd == (pc \in Sweeping \cup {"prepared", "ask", "wait", "poll"} /\ at >= Probe)
                ~> (pc \in {"idle", "serving", "down"})

\* A write-ahead ledger: a name is on disk before its container may exist
\* and is forgotten only once it can no longer run (runtime.py:495-497,
\* 561-566, 632-641). The manifest and the daemon implement OwnershipLedger.
Ledger == INSTANCE OwnershipLedger
              WITH ledger <- {n \in Names : Recorded(n)},
                   live   <- {n \in Names : MayRun(n)}
WritesAhead == Ledger!LedgerSpec

-----------------------------------------------------------------------------
(* The inductive invariants. Base holds of the process and its files,      *)
(* whatever Docker does; IInv adds what is behind NoOrphan, for            *)
(* ~DaemonLags, and Watched what is behind NoRunningOrphan, for ~Kills.    *)

\* The container being launched or fetched is held; a fetch holds nothing
\* else, and starts from nothing.
Holding ==
    /\ pc = "down" => held = {}
    /\ pc = "idle" /\ due # 0 => held = {}
    /\ pc = "unlink" /\ mode = "stop" => held = remaining
    /\ pc \notin Sweeping => mode = "stop"
    /\ pc \in {"ask", "wait"} => at \in held /\ (Fetcher(at) => held = {at})
    /\ pc \in {"fetched", "fetchstop", "forget"} => held = {at} /\ Fetcher(at)

\* start() holds the backends up to the one it launches, all of them once it
\* polls, and has unlinked the env file by then.
Climbing ==
    /\ pc = "prepared" => held = {}
    /\ pc \in {"ask", "wait"} /\ at >= 0 => held = 0 .. at /\ at < width
    /\ pc = "poll" => at \in 0 .. (width - 1)
    /\ pc \in {"poll", "serving"} => held = 0 .. (width - 1) /\ run \notin env

\* A sweep visits and keeps only what is on record.
SweepListed ==
    /\ pc \in {"inspect", "stop", "remove"} =>
           todo \cup remaining \subseteq manifest.slots
    /\ pc \in {"stop", "remove"} => at \in todo

Base == TypeOK /\ LedgerAgrees /\ Holding /\ Climbing /\ SweepListed

\* A downloader is forgotten when nothing can start it any more.
LaunchHeld ==
    /\ pc \in {"fetched", "fetchstop", "forget"} => Name(at) \notin clients
    /\ pc = "fetchstop" => Name(at) \notin asked
    /\ pc = "forget" => ~MayRun(Name(at))

\* What the sweep has passed over for good can never run again.
SweptGone ==
    /\ pc \in {"inspect", "stop", "remove"} =>
         \A s \in manifest.slots \ (todo \cup remaining) : ~MayRun(Name(s))
    /\ pc \in {"stop", "remove"} => Name(at) \notin asked

\* A --rm container goes straight from running to being removed.
RemovedOnExit ==
    \A n \in Names : AutoRemoved(n[2]) => docker[n] \notin {"exited", "stopped"}

IInv == Base /\ NoOrphan /\ LaunchHeld /\ SweptGone /\ RemovedOnExit

\* What is stopped and removed carried this run's label when it was inspected.
OwnedAtHand == pc \in Commanding /\ docker[Name(at)] \in Foreign => Name(at) \in usurped

\* What runs, or would be restarted, by itself.
Alive(n) == docker[n] \in {"running", "exited"}

\* Without a kill a `docker run` client lives within the call that waits for
\* it; so nothing that a sweep or a fetch leaves behind is ever started.
Watched ==
    /\ \A n \in clients : pc = "wait" /\ n = Name(at)
    /\ \A n \in Names : Alive(n) => Recorded(n)
    /\ pc \in {"inspect", "stop", "remove"} =>
         \A s \in manifest.slots \ (todo \cup remaining) : ~Alive(Name(s))
    /\ pc = "forget" => ~Alive(Name(at))
=============================================================================
