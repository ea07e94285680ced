----------------------------- MODULE Deployment -----------------------------
(***************************************************************************)
(* `bench.py serve`, `stop` and `cleanup` of qwen_bench/runner.py: one     *)
(* deployment at a time, its directory state/serve-*, the record           *)
(* state/active.json, and what failures, interrupts and kills leave.       *)
(*                                                                         *)
(* The commands exclude each other by .gpu-benchmark.lock, which the       *)
(* kernel releases when its holder dies, so one process is enough. The     *)
(* containers of a part of a deployment "may run" from its start() to a    *)
(* complete stop() or recover() of it (see StagedRun, with which this      *)
(* module has no name in common: the proofs extend both).                  *)
(***************************************************************************)
CONSTANTS Directories,  \* state/serve-<time>-<hex>, a fresh one per serve
          NoRecord      \* no active.json

ASSUME DeploymentAssumption == NoRecord \notin Directories

Parts == {"gateway", "runtime"}

VARIABLES
    active,     \* directory named by active.json
    remains,    \* <<directory, part>> pairs whose containers may run
    used,       \* directories already created
    announced,  \* directories whose serve told its user it is serving
    doing,      \* what the process is doing; "down" when there is none
    here,       \* the directory the command works on
    command     \* "serve", "stop" or "cleanup"

deployment == <<active, remains, used, announced, doing, here, command>>

DeploymentTypeOK ==
    /\ active \in Directories \cup {NoRecord}
    /\ remains \subseteq Directories \X Parts
    /\ used \subseteq Directories /\ announced \subseteq used
    /\ doing \in {"down", "runtime", "gateway", "smoke", "record", "announce",
                  "stop gateway", "stop runtime", "recover gateway",
                  "recover runtime", "unlink"}
    /\ here \in IF doing = "down" THEN {NoRecord} ELSE Directories
    /\ command \in {"serve", "stop", "cleanup"}

DeploymentInit ==
    /\ active = NoRecord
    /\ remains = {}
    /\ used = {} /\ announced = {}
    /\ doing = "down"
    /\ here = NoRecord
    /\ command = "cleanup"

Ends ==
    /\ doing' = "down"
    /\ here' = NoRecord
    /\ UNCHANGED command

Goes(to) == doing' = to /\ UNCHANGED <<here, command>>

\* Containers of this part: start() may have launched them, even if it fails;
\* a complete stop leaves none.
MayLaunch(part) == remains' \in {remains, remains \cup {<<here, part>>}}
Launched(part)  == remains' = remains \cup {<<here, part>>}
Removed(part)   == remains' = remains \ {<<here, part>>}

-----------------------------------------------------------------------------
(* serve                                                                   *)

\* MUTANT of Serve: a recorded deployment does not stop another serve.
ServeOverRecord(d) ==
    /\ doing = "down"
    /\ d \notin used
    /\ used' = used \cup {d}
    /\ here' = d
    /\ command' = "serve"
    /\ doing' = "runtime"
    /\ UNCHANGED <<active, remains, announced>>

\* Refused while a deployment is recorded. The checks of ports and GPUs see
\* only what runs at that moment: what an earlier serve left may escape them.
Serve(d) ==
    /\ doing = "down"
    /\ active = NoRecord
    /\ d \notin used
    /\ used' = used \cup {d}
    /\ here' = d
    /\ command' = "serve"
    /\ doing' = "runtime"
    /\ UNCHANGED <<active, remains, announced>>

StartRuntime ==
    /\ doing = "runtime"
    /\ Launched("runtime")
    /\ Goes("gateway")
    /\ UNCHANGED <<active, used, announced>>

StartGateway ==
    /\ doing = "gateway"
    /\ Launched("gateway")
    /\ Goes("smoke")
    /\ UNCHANGED <<active, used, announced>>

\* smoke(), wait_idle(), smoke.json
Smoke ==
    /\ doing = "smoke"
    /\ Goes("record")
    /\ UNCHANGED <<active, remains, used, announced>>

\* MUTANT of RecordActive: recorded before the gateway is started.
RecordActiveEarly ==
    /\ doing \in {"gateway", "record"}
    /\ active' = here
    /\ Goes(IF doing = "gateway" THEN "gateway" ELSE "announce")
    /\ UNCHANGED <<remains, used, announced>>

RecordActive ==
    /\ doing = "record"
    /\ active' = here
    /\ Goes("announce")
    /\ UNCHANGED <<remains, used, announced>>

\* The two prints.
TellUser ==
    /\ doing = "announce"
    /\ announced' = announced \cup {here}
    /\ Ends
    /\ UNCHANGED <<active, remains, used>>

\* `except BaseException`: gateway.stop(), finally runtime.stop(). A start()
\* that fails has stopped its own containers, unless that failed too.
ServeFails ==
    /\ doing \in {"runtime", "gateway", "smoke", "record", "announce"}
    /\ IF doing \in {"runtime", "gateway"} THEN MayLaunch(doing) ELSE UNCHANGED remains
    /\ Goes("stop gateway")
    /\ UNCHANGED <<active, used, announced>>

StopGateway ==
    /\ doing = "stop gateway"
    /\ Removed("gateway") \/ UNCHANGED remains
    /\ Goes("stop runtime")
    /\ UNCHANGED <<active, used, announced>>

StopRuntime ==
    /\ doing = "stop runtime"
    /\ Removed("runtime") \/ UNCHANGED remains
    /\ Ends
    /\ UNCHANGED <<active, used, announced>>

-----------------------------------------------------------------------------
(* stop and cleanup                                                        *)

\* MUTANT of Stop: a missing active.json is not noticed.
StopUnchecked ==
    /\ doing = "down"
    /\ here' = active
    /\ command' = "stop"
    /\ doing' = "recover gateway"
    /\ UNCHANGED <<active, remains, used, announced>>

Stop ==
    /\ doing = "down"
    /\ active # NoRecord
    /\ here' = active
    /\ command' = "stop"
    /\ doing' = "recover gateway"
    /\ UNCHANGED <<active, remains, used, announced>>

CleanUp(d) ==
    /\ doing = "down"
    /\ d \in used
    /\ here' = d
    /\ command' = "cleanup"
    /\ doing' = "recover gateway"
    /\ UNCHANGED <<active, remains, used, announced>>

\* recover_tree(): every gateway.json first, then every runtime.json.
RecoverGateway ==
    /\ doing = "recover gateway"
    /\ Removed("gateway")
    /\ Goes("recover runtime")
    /\ UNCHANGED <<active, used, announced>>

RecoverRuntime ==
    /\ doing = "recover runtime"
    /\ Removed("runtime")
    /\ IF command = "stop" THEN Goes("unlink") ELSE Ends
    /\ UNCHANGED <<active, used, announced>>

\* active.unlink()
Unlink ==
    /\ doing = "unlink"
    /\ active' = NoRecord
    /\ Ends
    /\ UNCHANGED <<remains, used, announced>>

\* A recovery that fails or is interrupted raises at once.
RecoveryFails ==
    /\ doing \in {"recover gateway", "recover runtime", "unlink"}
    /\ Ends
    /\ UNCHANGED <<active, remains, used, announced>>

KillCommand ==
    /\ doing # "down"
    /\ IF doing \in {"runtime", "gateway"} THEN MayLaunch(doing) ELSE UNCHANGED remains
    /\ Ends
    /\ UNCHANGED <<active, used, announced>>

DeploymentNext ==
    \/ \E d \in Directories : Serve(d) \/ CleanUp(d)
    \/ StartRuntime \/ StartGateway \/ Smoke \/ RecordActive \/ TellUser
    \/ ServeFails \/ StopGateway \/ StopRuntime
    \/ Stop \/ RecoverGateway \/ RecoverRuntime \/ Unlink \/ RecoveryFails
    \/ KillCommand

DeploymentSpec == DeploymentInit /\ [][DeploymentNext]_deployment

-----------------------------------------------------------------------------
(* Properties                                                              *)

\* A deployment whose user was told it serves stays within reach of `stop`:
\* while any of its containers may run, active.json names it, whatever later
\* commands fail, are interrupted or are killed (runner.py:377-380, 435-440,
\* 473-474).
Findable ==
    \A d \in announced : ({d} \X Parts) \cap remains # {} => active = d

\* A deployment is recorded as active only while its backends and its gateway are
\* both up (runner.py:367-378; of the functional checks between, which change
\* nothing, it says nothing).
RecordedIsComplete ==
    [][active' # NoRecord /\ active' # active
            => {active'} \X Parts \subseteq remains]_deployment
=============================================================================
