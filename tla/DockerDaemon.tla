---------------------------- MODULE DockerDaemon ----------------------------
(***************************************************************************)
(* The Docker daemon, its `docker run` clients and the containers, as the  *)
(* code of qwen_bench uses them. External: modelled from the commands the  *)
(* code issues (docker run, inspect, stop, rm) and the answers it expects. *)
(*                                                                         *)
(* A container is known by its name. `docker run` is a request to create,  *)
(* which the daemon serves or refuses later, and a client that starts what *)
(* was created; the client can die while the request is still pending.     *)
(***************************************************************************)
VARIABLES
    docker,     \* state of each container name in the daemon
    asked,      \* names with a create request the daemon has not answered
    clients     \* names with a live `docker run` client

world == <<docker, asked, clients>>

\* A container of that name without this run's owner label runs ("foreign") or
\* does not ("halted").
Owned == {"created", "running", "exited", "stopped", "removing"}
Foreign == {"foreign", "halted"}
States == Owned \cup Foreign \cup {"absent"}

Exists(n) == docker[n] \in Owned

-----------------------------------------------------------------------------
(* Commands                                                                *)

\* docker run: the client sends its create request.
Request(n) ==
    /\ asked' = asked \cup {n}
    /\ clients' = clients \cup {n}
    /\ UNCHANGED docker

\* docker stop <name>, `rm` telling whether our containers of that name run
\* under --rm: whatever carries the name is stopped; one that never started is
\* left as it is.
Stopped(n, rm) ==
    CASE docker[n] \in {"running", "exited"} -> IF rm THEN "removing" ELSE "stopped"
      [] docker[n] = "foreign" -> "halted"
      [] OTHER -> docker[n]

\* docker rm <name> without --force: whatever carries the name, but not a
\* running container, nor one the daemon is already removing; "No such" counts
\* as removed.
Removable(n) == docker[n] \in {"created", "exited", "stopped", "absent", "halted"}

-----------------------------------------------------------------------------
(* What happens in the daemon and the containers by itself                 *)

\* A create request is served, or refused (the name is taken, no image).
DaemonCreates(n) ==
    /\ n \in asked
    /\ docker[n] = "absent"
    /\ asked' = asked \ {n}
    /\ docker' = [docker EXCEPT ![n] = "created"]
    /\ UNCHANGED clients

DaemonRefuses(n) ==
    /\ n \in asked
    /\ asked' = asked \ {n}
    /\ UNCHANGED <<docker, clients>>

\* docker run starts what it created; only a live client does.
ClientStarts(n) ==
    /\ n \in clients
    /\ docker[n] = "created"
    /\ docker' = [docker EXCEPT ![n] = "running"]
    /\ UNCHANGED <<asked, clients>>

\* A client gives up (port taken, GPU missing) or outlived its parent.
ClientEnds(n) ==
    /\ n \in clients
    /\ clients' = clients \ {n}
    /\ UNCHANGED <<docker, asked>>

ContainerExits(n, rm) ==
    /\ docker[n] = "running"
    /\ docker' = [docker EXCEPT ![n] = IF rm THEN "removing" ELSE "exited"]
    /\ UNCHANGED <<asked, clients>>

\* --restart unless-stopped
DaemonRestarts(n) ==
    /\ docker[n] = "exited"
    /\ docker' = [docker EXCEPT ![n] = "running"]
    /\ UNCHANGED <<asked, clients>>

DaemonRemoves(n) ==
    /\ docker[n] = "removing"
    /\ docker' = [docker EXCEPT ![n] = "absent"]
    /\ UNCHANGED <<asked, clients>>

DaemonMoves(n, rm) ==
    \/ DaemonCreates(n) \/ DaemonRefuses(n) \/ ClientStarts(n) \/ ClientEnds(n)
    \/ ContainerExits(n, rm) \/ DaemonRestarts(n) \/ DaemonRemoves(n)

\* Somebody else creates a container of that name.
NameTaken(n) ==
    /\ docker[n] = "absent"
    /\ docker' = [docker EXCEPT ![n] = "foreign"]
    /\ UNCHANGED <<asked, clients>>
=============================================================================
