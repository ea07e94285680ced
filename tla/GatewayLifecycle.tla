-------------------------- MODULE GatewayLifecycle --------------------------
(***************************************************************************)
(* Gateway and recover() of qwen_bench/gateway.py: one HAProxy container,  *)
(* its throw-away configuration check, the ownership manifest gateway.json *)
(* and the loopback port both HAProxy and anybody else may listen on.      *)
(*                                                                         *)
(* A container name is a pair <<owner, role>>: "qwen-gateway-<owner>" has  *)
(* the role "main", "qwen-gateway-<owner>-check" the role "check".         *)
(***************************************************************************)
EXTENDS DockerDaemon, Integers

CONSTANTS Owners,      \* the owner ids uuid4 may return
          NoOwner,     \* "no gateway.json" and "no Gateway"
          Kills        \* may SIGKILL or a power failure end the process?

ASSUME GatewayAssumption == NoOwner \notin Owners /\ Kills \in BOOLEAN

Roles == {"main", "check"}
Names == Owners \X Roles

VARIABLES
    manifest,   \* gateway.json: owner and status
    late,       \* names with a create request that a sweep has overlooked
    port,       \* the gateway port: "free" (to HAProxy) or held by "other"
    used,       \* owner ids already drawn
    pc,         \* what the process is doing; "down" when there is none
    owner,      \* self.owner, or the owner a recovery read
    attempted,  \* self._attempted
    known,      \* is self.container_id set?
    mode,       \* whose sweep: "stop" or "recover"
    ref         \* the reference the sweep is at, "end" after the last one

process == <<used, pc, owner, attempted, known, mode, ref>>
gvars == <<docker, asked, clients, manifest, late, port, used, pc, owner,
           attempted, known, mode, ref>>

\* What comes of a create request that a sweep has overlooked: a container that
\* nobody starts, or one whose docker run has outlived its killed process.
Stray == {"leftover", "loose"}

Sweeping == {"inspect", "remove"}

TypeOK ==
    /\ manifest \in [owner : Owners \cup {NoOwner},
                     status : {"none", "starting", "running", "stopped"}]
    /\ docker \in [Names -> States \cup Stray]
    /\ asked \subseteq Names /\ clients \subseteq Names /\ late \subseteq Names
    /\ port \in {"free", "other"}
    /\ used \subseteq Owners
    /\ pc \in {"down", "idle", "saved", "check", "checking", "launch",
               "launching", "health", "serving"} \cup Sweeping
    /\ owner \in IF pc = "down" THEN {NoOwner} ELSE Owners
    /\ attempted \in BOOLEAN /\ known \in BOOLEAN
    /\ mode \in {"stop", "recover"}
    /\ ref \in Roles \cup {"end"}

Init ==
    /\ manifest = [owner |-> NoOwner, status |-> "none"]
    /\ docker = [n \in Names |-> "absent"]
    /\ asked = {} /\ clients = {} /\ late = {}
    /\ port = "free"
    /\ used = {}
    /\ pc = "down"
    /\ owner = NoOwner
    /\ attempted = FALSE /\ known = FALSE
    /\ mode = "stop"
    /\ ref = "main"

Name(r) == <<owner, r>>
Main == Name("main")

\* HAProxy holds the port while it runs, unless it found it taken.
Listening(n) == docker[n] = "running" /\ port = "free"

-----------------------------------------------------------------------------
\* self._save()
Save(status) == manifest' = [owner |-> owner, status |-> status]

BeginSweep(m) ==
    /\ mode' = m
    /\ ref' = "main"
    /\ pc' = "inspect"

BackToCaller(state) ==
    /\ pc' = state
    /\ mode' = "stop"
    /\ ref' = "main"

ProcessEnds ==
    /\ BackToCaller("down")
    /\ owner' = NoOwner
    /\ attempted' = FALSE
    /\ known' = FALSE

\* Gateway(config, run_dir)
Construct(o) ==
    /\ pc = "down"
    /\ o \notin used
    /\ used' = used \cup {o}
    /\ owner' = o
    /\ pc' = "idle"
    /\ UNCHANGED <<world, manifest, port, late, attempted, known, mode, ref>>

-----------------------------------------------------------------------------
(* start(backends)                                                         *)

\* Refused while started, or while the manifest is not "stopped".
Start ==
    /\ pc = "idle"
    /\ ~attempted
    /\ manifest.status \in {"none", "stopped"}
    /\ Save("starting")
    /\ pc' = "saved"
    /\ UNCHANGED <<world, port, late, used, owner, attempted, known, mode, ref>>

\* self._attempted = True: from here on a failure is cleaned up.
Attempt ==
    /\ pc = "saved"
    /\ attempted' = TRUE
    /\ pc' = "check"
    /\ UNCHANGED <<world, manifest, port, late, used, owner, known, mode, ref>>

\* docker run --rm: haproxy -c, in the foreground.
RunCheck ==
    /\ pc = "check"
    /\ Request(Name("check"))
    /\ pc' = "checking"
    /\ UNCHANGED <<manifest, port, late, used, owner, attempted, known, mode,
                   ref>>

CheckPassed ==
    /\ pc = "checking"
    /\ Name("check") \notin asked
    /\ docker[Name("check")] \in {"removing", "absent"} \cup Foreign \cup Stray
    /\ clients' = clients \ {Name("check")}
    /\ pc' = "launch"
    /\ UNCHANGED <<docker, asked, manifest, port, late, used, owner, attempted,
                   known, mode, ref>>

\* docker run --detach, which prints the container's id.
Launch ==
    /\ pc = "launch"
    /\ Request(Main)
    /\ pc' = "launching"
    /\ UNCHANGED <<manifest, port, late, used, owner, attempted, known, mode,
                   ref>>

Launched ==
    /\ pc = "launching"
    /\ docker[Main] \in {"running", "exited"}
    /\ clients' = clients \ {Main}
    /\ known' = TRUE
    /\ Save("starting")
    /\ pc' = "health"
    /\ UNCHANGED <<docker, asked, port, late, used, owner, attempted, mode, ref>>

\* 200 on the gateway port within the deadline, from whoever listens there.
Healthy ==
    /\ pc = "health"
    /\ \/ Listening(Main) \/ port = "other"
       \/ \E o \in Owners : docker[<<o, "main">>] = "loose"
    /\ Save("running")
    /\ pc' = "serving"
    /\ UNCHANGED <<world, port, late, used, owner, attempted, known, mode, ref>>

\* `except BaseException: self.stop()`: a failed or timed-out docker run, an
\* invalid id, the readiness deadline, an interrupt.
Fail ==
    /\ pc \in {"check", "checking", "launch", "launching", "health"}
    /\ clients' = clients \ {Name("check"), Main}
    /\ BeginSweep("stop")
    /\ UNCHANGED <<docker, asked, manifest, port, late, used, owner, attempted,
                   known>>

-----------------------------------------------------------------------------
(* stop() and recover()                                                    *)

Stop ==
    /\ pc \in {"idle", "serving"}
    /\ attempted
    /\ BeginSweep("stop")
    /\ UNCHANGED <<world, manifest, port, late, used, owner, attempted, known>>

Recover ==
    /\ pc = "down"
    /\ manifest.status # "none"
    /\ owner' = manifest.owner
    /\ BeginSweep("recover")
    /\ UNCHANGED <<world, manifest, port, late, used, attempted, known>>

At == Name(ref)

\* MUTANT of Onward: the configuration check is not swept.
OnwardPastCheck == ref' = "end"

Onward == ref' = IF ref = "main" THEN "check" ELSE "end"

\* The id when stop() has one, so that another container of that name is not
\* even seen; the name otherwise.
ById == mode = "stop" /\ known /\ ref = "main"

\* The inspect answers at once: it sees no create request that is pending.
Overlook ==
    /\ late' = late \cup ({At} \cap asked)
    /\ asked' = asked \ {At}

\* docker inspect: "no such container".
InspectGone ==
    /\ pc = "inspect" /\ ref # "end"
    /\ docker[At] = "absent" \/ (ById /\ docker[At] \in Foreign \cup Stray)
    /\ Overlook
    /\ Onward
    /\ UNCHANGED <<docker, clients, manifest, port, used, pc, owner, attempted,
                   known, mode>>

InspectOwned ==
    /\ pc = "inspect" /\ ref # "end"
    /\ Exists(At) \/ (~ById /\ docker[At] \in Stray)
    /\ Overlook
    /\ pc' = "remove"
    /\ UNCHANGED <<docker, clients, manifest, port, used, owner, attempted,
                   known, mode, ref>>

Removed == (Owned \ {"removing"}) \cup Stray

\* MUTANT of ForceRemove: the container is removed by its name.
ForceRemoveByName ==
    /\ pc = "remove"
    /\ docker[At] \notin {"removing", "absent"}
    /\ docker' = [docker EXCEPT ![At] = "absent"]
    /\ Onward
    /\ pc' = "inspect"
    /\ UNCHANGED <<asked, clients, manifest, port, late, used, owner, attempted,
                   known, mode>>

\* docker rm --force <id>: whatever carries the name by now, only the
\* container that was inspected is removed.
ForceRemove ==
    /\ pc = "remove"
    /\ docker[At] \in Removed
    /\ docker' = [docker EXCEPT ![At] = "absent"]
    /\ Onward
    /\ pc' = "inspect"
    /\ UNCHANGED <<asked, clients, manifest, port, late, used, owner, attempted,
                   known, mode>>

\* Docker fails, the labels or the id are not ours, or an interrupt: the sweep
\* ends there, and stop() can be called again.
SweepFails ==
    /\ pc \in Sweeping
    /\ IF mode = "stop"
       THEN BackToCaller("idle") /\ UNCHANGED <<owner, attempted, known>>
       ELSE ProcessEnds
    /\ \/ UNCHANGED docker
       \/ /\ pc = "remove" /\ docker[At] \in Removed
          /\ docker' = [docker EXCEPT ![At] = "absent"]
    /\ UNCHANGED <<asked, clients, manifest, port, late, used>>

SweepDone ==
    /\ pc = "inspect"
    /\ ref = "end"
    /\ Save("stopped")
    /\ IF mode = "stop"
       THEN /\ BackToCaller("idle")
            /\ known' = FALSE /\ attempted' = FALSE
            /\ UNCHANGED owner
       ELSE ProcessEnds
    /\ UNCHANGED <<world, port, late, used>>

-----------------------------------------------------------------------------
\* An interrupt between the save and `_attempted = True`: nothing cleans up.
Unattempted ==
    /\ pc = "saved"
    /\ BackToCaller("idle")
    /\ UNCHANGED <<world, manifest, port, late, used, owner, attempted, known>>

Exit ==
    /\ pc \in {"idle", "serving"}
    /\ ProcessEnds
    /\ UNCHANGED <<world, manifest, port, late, used>>

Kill ==
    /\ Kills
    /\ pc # "down"
    /\ ProcessEnds
    /\ UNCHANGED <<world, manifest, port, late, used>>

\* Another process binds the port, when HAProxy does not hold it, or leaves.
PortTaken ==
    /\ port = "free"
    /\ \A n \in Names : docker[n] # "running" \/ n[2] = "check"
    /\ port' = "other"
    /\ UNCHANGED <<world, manifest, late, process>>

PortReleased ==
    /\ port = "other"
    /\ port' = "free"
    /\ UNCHANGED <<world, manifest, late, process>>

\* The docker run of another process, which was killed.
Outlives(n) == n \in clients /\ (n[1] # owner \/ mode = "recover")

\* An overlooked create request is served or refused. One that is served between
\* inspect and rm has an id the rm does not name: as if it were served later.
LateCreate(n) ==
    /\ n \in late
    /\ late' = late \ {n}
    /\ \/ UNCHANGED docker
       \/ /\ docker[n] = "absent"
          /\ ~(pc = "remove" /\ n = At)
          /\ docker' = [docker EXCEPT ![n] = IF Outlives(n) THEN "loose" ELSE "leftover"]
    /\ UNCHANGED <<asked, clients, manifest, port, process>>

\* Nobody knows an owner id before it is drawn.
Daemon(n) ==
    /\ \/ DaemonMoves(n, n[2] = "check")
       \/ n[1] \in used /\ NameTaken(n)
    /\ UNCHANGED <<manifest, port, late, process>>

\* Somebody removes a container of ours behind our back, or the name of a
\* foreign one is freed.
RemovedByOther(n) ==
    /\ docker[n] \in {"created", "exited"} \cup Foreign \cup Stray
    /\ docker' = [docker EXCEPT ![n] = "absent"]
    /\ UNCHANGED <<asked, clients, manifest, port, late, process>>

Starting == Attempt \/ RunCheck \/ CheckPassed \/ Launch \/ Launched \/ Healthy
Cleaning == InspectGone \/ InspectOwned \/ ForceRemove \/ SweepFails \/ SweepDone

Next == \/ \E o \in Owners : Construct(o)
        \/ Start \/ Starting \/ Fail \/ Stop \/ Recover \/ Cleaning
        \/ Unattempted \/ Exit \/ Kill \/ PortTaken \/ PortReleased
        \/ \E n \in Names : Daemon(n) \/ LateCreate(n) \/ RemovedByOther(n)

Spec == Init /\ [][Next]_gvars

-----------------------------------------------------------------------------
(* Properties                                                              *)

MayRun(n)   == n \in asked \/ docker[n] \in {"created", "running", "exited", "stopped"}
Recorded(n) == manifest.owner = n[1] /\ manifest.status \in {"starting", "running"}

\* gateway.json is a write-ahead ledger of the gateway's two containers: it
\* says so before either may exist and says "stopped" only when neither can
\* (gateway.py:324-328, 138-154, 362-372), but for what comes of a create
\* request that was pending while a sweep inspected its name.
Ledger == INSTANCE OwnershipLedger
              WITH ledger <- {n \in Names : Recorded(n)},
                   live   <- {n \in Names : MayRun(n)}
WritesAhead == Ledger!LedgerSpec

\* "never remove a reused container name": a container under another owner
\* survives every step of ours, also when it takes the name between our
\* inspect and our rm (gateway.py:113-135).
ForeignUntouched ==
    [][\A n \in Names : docker[n] \in Foreign /\ docker'[n] # docker[n]
            => RemovedByOther(n)]_gvars

\* What escapes the ledger does not run, unless its docker run has outlived a
\* process that was killed: a docker run that fails or times out is ended
\* before the sweep (gateway.py:88, 355-361).
NothingLoose == ~Kills => \A n \in Names : docker[n] # "loose"
=============================================================================
