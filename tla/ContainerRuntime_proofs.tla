----------------------- MODULE ContainerRuntime_proofs -----------------------
(***************************************************************************)
(* Proofs about ContainerRuntime, for any number of run ids, replicas and  *)
(* precisions.                                                             *)
(***************************************************************************)
EXTENDS ContainerRuntime, TLAPS

(* Every suffix the actions use is one of Slots. *)
LEMMA SlotFacts ==
    /\ Probe \in Slots
    /\ 0 \in Slots
    /\ Fetches \subseteq Slots
    /\ \A w \in 1 .. Replicas : \A s \in Slots :
           s >= 0 /\ s + 1 < w => s + 1 \in Slots
    /\ \A s \in Slots : s \in Int
BY ConstantsAssumption DEF Probe, Slots, Fetches

(* Every step keeps every variable's type.                                 *)
LEMMA TypeStep == ASSUME TypeOK, [Next]_vars PROVE TypeOK'
<1> USE DEF TypeOK, Sweeping, Owned, Foreign, States, disk, world, start, sweep
<1>1. CASE Call
  <2>1. ASSUME NEW r \in Runs, Construct(r) PROVE TypeOK'
    BY <2>1 DEF Construct
  <2>2. ASSUME NEW w \in {1, Replicas}, Start(w) PROVE TypeOK'
    BY <2>2, ConstantsAssumption DEF Start
  <2>3. CASE ProbeImage
    BY <2>3, SlotFacts DEF ProbeImage, RunOnce, Persist
  <2>4. CASE FetchNext
    BY <2>4, SlotFacts DEF FetchNext, RunOnce, Persist
  <2>5. CASE Stop
    BY <2>5, ConstantsAssumption DEF Stop, BeginSweep
  <2>6. CASE Recover
    BY <2>6 DEF Recover, BeginSweep
  <2>7. CASE Exit
    BY <2>7, ConstantsAssumption, SlotFacts DEF Exit, ProcessEnds, BackToCaller
  <2>8. QED
    BY <1>1, <2>1, <2>2, <2>3, <2>4, <2>5, <2>6, <2>7 DEF Call
<1>2. CASE Launching
  <2>1. CASE FirstWorker
    BY <2>1, SlotFacts DEF FirstWorker, RecordWorker, Persist
  <2>2. CASE Ask
    BY <2>2 DEF Ask, Request, Name, Names
  <2>3. CASE WorkerUp
    BY <2>3, SlotFacts DEF WorkerUp, RecordWorker, Persist
  <2>4. CASE Abandon \/ ProbeOver
    BY <2>4 DEF Abandon, ProbeOver, BeginSweep
  <2>5. CASE FetchOver
    BY <2>5 DEF FetchOver
  <2>6. ASSUME NEW healthy \in BOOLEAN, Poll(healthy) PROVE TypeOK'
    <3>1. at >= 0 /\ at + 1 < width => at + 1 \in Slots
      BY SlotFacts
    <3>2. at + 1 < width => at + 1 \in Slots
      BY ConstantsAssumption DEF Slots
    <3> QED
      BY <2>6, <3>2, SlotFacts DEF Poll
  <2>7. QED
    BY <1>2, <2>1, <2>2, <2>3, <2>4, <2>5, <2>6 DEF Launching
<1>3. CASE Cleaning
  <2>1. ASSUME NEW c \in Slots, InspectGone(c) PROVE TypeOK'
    BY <2>1 DEF InspectGone
  <2>2. ASSUME NEW c \in Slots, InspectOwned(c) PROVE TypeOK'
    BY <2>2 DEF InspectOwned
  <2>3. ASSUME NEW c \in Slots, InspectRefused(c) PROVE TypeOK'
    BY <2>3 DEF InspectRefused
  <2>4. CASE DockerStop
    BY <2>4 DEF DockerStop, Stopped
  <2>5. CASE DockerRemove
    BY <2>5, SlotFacts DEF DockerRemove
  <2>6. CASE CommandFails
    BY <2>6, SlotFacts DEF CommandFails, Stopped
  <2>7. CASE SweepPersist
    BY <2>7 DEF SweepPersist, Persist
  <2>8. CASE SweepUnlink
    <3>1. CASE mode = "stop"
      BY <2>8, <3>1, ConstantsAssumption, SlotFacts
         DEF SweepUnlink, BackToCaller
    <3>2. CASE mode # "stop"
      BY <2>8, <3>2, ConstantsAssumption, SlotFacts
         DEF SweepUnlink, ProcessEnds, BackToCaller
    <3>3. QED
      BY <3>1, <3>2
  <2>9. CASE FetchGone
    BY <2>9 DEF FetchGone
  <2>10. CASE FetchThere
    BY <2>10 DEF FetchThere
  <2>11. CASE FetchStop
    BY <2>11 DEF FetchStop, Stopped
  <2>12. CASE FetchForget
    BY <2>12, ConstantsAssumption, SlotFacts
       DEF FetchForget, Persist, BackToCaller
  <2>13. QED
    BY <1>3, <2>1, <2>2, <2>3, <2>4, <2>5, <2>6, <2>7, <2>8, <2>9, <2>10,
       <2>11, <2>12 DEF Cleaning
<1>4. CASE Raise
  <2>1. CASE mode = "stop"
    BY <1>4, <2>1, ConstantsAssumption, SlotFacts DEF Raise, BackToCaller
  <2>2. CASE mode # "stop"
    BY <1>4, <2>2, ConstantsAssumption, SlotFacts
       DEF Raise, ProcessEnds, BackToCaller
  <2>3. QED
    BY <2>1, <2>2
<1>5. CASE Kill
  BY <1>5, ConstantsAssumption, SlotFacts DEF Kill, ProcessEnds, BackToCaller
<1>6. ASSUME NEW n \in Names, Daemon(n) PROVE TypeOK'
  BY <1>6 DEF Daemon, unchangedProcess, DaemonMoves, DaemonCreates,
       DaemonRefuses, ClientStarts, ClientEnds, ContainerExits,
       DaemonRestarts, DaemonRemoves, ForeignTakes, ForeignLeaves, AtHand
<1>7. CASE UNCHANGED vars
  BY <1>7 DEF vars
<1>8. QED
  BY <1>1, <1>2, <1>3, <1>4, <1>5, <1>6, <1>7 DEF Next

(* Every variable keeps its type; in particular a download never runs past *)
(* the configured precisions, nor a launch past the layout's backends.     *)
THEOREM TypeCorrect == Spec => []TypeOK
<1>1. Init => TypeOK
  BY ConstantsAssumption, SlotFacts DEF Init, TypeOK, Names, States
<1>2. TypeOK /\ [Next]_vars => TypeOK'
  BY TypeStep
<1>3. QED
  BY <1>1, <1>2, PTL DEF Spec

-----------------------------------------------------------------------------
(* What the process and its files agree on, whatever Docker does.          *)

(* Docker and other people's commands leave the process alone.             *)
LEMMA DaemonLeaves ==
    ASSUME NEW n \in Names, Daemon(n)
    PROVE  /\ UNCHANGED <<disk, used, pc, run, held, width, at, ready, sweep>>
           /\ asked' \subseteq asked /\ clients' \subseteq clients
BY DEF Daemon, DaemonMoves, DaemonCreates, DaemonRefuses, ClientStarts, ClientEnds,
       ContainerExits, DaemonRestarts, DaemonRemoves, ForeignTakes, ForeignLeaves, AtHand,
       unchangedProcess, start

LEMMA SweepListedStep ==
    ASSUME Base, [Next]_vars PROVE SweepListed'
<1> USE DEF Base, SweepListed, LedgerAgrees, disk, world, start, sweep, Sweeping
<1>1. CASE Call
  BY <1>1 DEF Call, Construct, Start, ProbeImage, FetchNext, RunOnce, Stop,
       Recover, Exit, BeginSweep, ProcessEnds, BackToCaller, Holding
<1>2. CASE Launching
  BY <1>2 DEF Launching, FirstWorker, Ask, Request, WorkerUp, RecordWorker, Abandon,
       ProbeOver, FetchOver, Poll, BeginSweep, Holding
<1>3. CASE Cleaning
  BY <1>3 DEF Cleaning, InspectGone, InspectOwned, InspectRefused, IsNext,
       DockerStop, DockerRemove, CommandFails, SweepPersist, SweepUnlink,
       FetchGone, FetchThere, FetchStop, FetchForget, ProcessEnds, BackToCaller
<1>4. CASE Raise \/ Kill
  BY <1>4 DEF Raise, Kill, ProcessEnds, BackToCaller
<1>5. ASSUME NEW n \in Names, Daemon(n) PROVE SweepListed'
  BY <1>5, DaemonLeaves
<1>6. CASE UNCHANGED vars
  BY <1>6 DEF vars
<1>7. QED
  BY <1>1, <1>2, <1>3, <1>4, <1>5, <1>6 DEF Next

(* Memory and manifest agree, and a launch is held before it is asked for. *)
LEMMA HoldingStep ==
    ASSUME Base, [Next]_vars PROVE LedgerAgrees' /\ Holding'
<1> USE DEF Base, LedgerAgrees, Holding, disk, world, start, sweep, Sweeping,
             Fetcher, Probe
<1>1. CASE Call
  <2>1. CASE ProbeImage \/ FetchNext
    <3>1. due # 0 => due < -1
      BY ConstantsAssumption DEF TypeOK, Fetches
    <3> QED
      BY <2>1, <3>1 DEF ProbeImage, FetchNext, RunOnce, Persist
  <2> QED
    BY <1>1, <2>1 DEF Call, Construct, Start, Stop, Recover, Exit, BeginSweep,
       ProcessEnds, BackToCaller
<1>2. CASE Launching
  <2>1. CASE FirstWorker
    BY <2>1 DEF FirstWorker, RecordWorker, Persist
  <2>2. CASE WorkerUp
    <3>1. at \in Int /\ ~(at + 1 < -1)
      BY <2>2, SlotFacts DEF TypeOK, WorkerUp
    <3> QED
      BY <2>2, <3>1 DEF WorkerUp, RecordWorker, Persist
  <2>3. CASE Ask \/ Abandon \/ ProbeOver \/ FetchOver
    BY <2>3 DEF Ask, Request, Abandon, ProbeOver, FetchOver, BeginSweep
  <2>4. ASSUME NEW healthy \in BOOLEAN, Poll(healthy) PROVE LedgerAgrees' /\ Holding'
    BY <2>4 DEF Poll
  <2> QED
    BY <1>2, <2>1, <2>2, <2>3, <2>4 DEF Launching
<1>3. CASE Cleaning
  BY <1>3 DEF Cleaning, InspectGone, InspectOwned, InspectRefused, DockerStop,
       DockerRemove, CommandFails, SweepPersist, SweepUnlink, FetchGone, FetchThere,
       FetchStop, FetchForget, Persist, ProcessEnds, BackToCaller
<1>4. CASE Raise \/ Kill
  BY <1>4 DEF Raise, Kill, ProcessEnds, BackToCaller
<1>5. ASSUME NEW n \in Names, Daemon(n) PROVE LedgerAgrees' /\ Holding'
  BY <1>5, DaemonLeaves
<1>6. CASE UNCHANGED vars
  BY <1>6 DEF vars
<1>7. QED
  BY <1>1, <1>2, <1>3, <1>4, <1>5, <1>6 DEF Next

(* start() climbs through its backends without leaving one out.            *)
LEMMA ClimbingStep ==
    ASSUME Base, [Next]_vars PROVE Climbing'
<1> USE DEF Base, Climbing, disk, world, start, sweep, Sweeping
<1>1. CASE Call
  BY <1>1 DEF Call, Construct, Start, ProbeImage, FetchNext, RunOnce, Stop, Recover,
       Exit, BeginSweep, ProcessEnds, BackToCaller, TypeOK, Fetches, Probe
<1>2. CASE Launching
  <2>1. CASE FirstWorker
    BY <2>1 DEF FirstWorker, RecordWorker, TypeOK
  <2>2. CASE WorkerUp
    <3>1. at \in Int /\ at >= 0 /\ width \in Int /\ held = 0 .. at /\ at < width
      BY <2>2, SlotFacts DEF WorkerUp, TypeOK
    <3>2. CASE at + 1 < width
      <4>1. (0 .. at) \cup {at + 1} = 0 .. (at + 1)
        BY <3>1
      <4>2. RecordWorker(at + 1) /\ UNCHANGED width
        BY <2>2, <3>1, <3>2 DEF WorkerUp
      <4>3. held' = held \cup {at + 1} /\ at' = at + 1 /\ pc' = "ask"
        BY <4>2 DEF RecordWorker
      <4>4. held' = 0 .. at'
        BY <3>1, <4>1, <4>3
      <4>5. at' < width'
        BY <3>2, <4>2, <4>3
      <4> QED
        BY <4>3, <4>4, <4>5
    <3>3. CASE at + 1 = width
      <4>1. held = 0 .. (width - 1) /\ 0 \in 0 .. (width - 1)
        BY <3>1, <3>3
      <4>2. /\ UNCHANGED <<held, width, run>>
            /\ at' = 0 /\ pc' = "poll" /\ env' = env \ {run}
        BY <2>2, <3>1, <3>3 DEF WorkerUp
      <4> QED
        BY <4>1, <4>2
    <3> QED
      BY <2>2, <3>2, <3>3 DEF WorkerUp
  <2>3. CASE Ask \/ Abandon \/ ProbeOver \/ FetchOver
    BY <2>3 DEF Ask, Request, Abandon, ProbeOver, FetchOver, BeginSweep
  <2>4. ASSUME NEW healthy \in BOOLEAN, Poll(healthy) PROVE Climbing'
    BY <2>4 DEF Poll, TypeOK
  <2> QED
    BY <1>2, <2>1, <2>2, <2>3, <2>4 DEF Launching
<1>3. CASE Cleaning
  BY <1>3 DEF Cleaning, InspectGone, InspectOwned, InspectRefused, DockerStop,
       DockerRemove, CommandFails, SweepPersist, SweepUnlink, FetchGone, FetchThere,
       FetchStop, FetchForget, ProcessEnds, BackToCaller
<1>4. CASE Raise \/ Kill
  BY <1>4 DEF Raise, Kill, ProcessEnds, BackToCaller
<1>5. ASSUME NEW n \in Names, Daemon(n) PROVE Climbing'
  BY <1>5, DaemonLeaves
<1>6. CASE UNCHANGED vars
  BY <1>6 DEF vars
<1>7. QED
  BY <1>1, <1>2, <1>3, <1>4, <1>5, <1>6 DEF Next

LEMMA BaseStep == ASSUME Base, [Next]_vars PROVE Base'
BY TypeStep, HoldingStep, ClimbingStep, SweepListedStep DEF Base

LEMMA BaseInit == ASSUME Init PROVE Base
<1>1. TypeOK
  BY ConstantsAssumption, SlotFacts DEF Init, TypeOK, Names, States
<1>2. QED
  BY <1>1 DEF Init, Base, LedgerAgrees, Holding, Climbing, SweepListed, Sweeping

(* Memory and manifest agree in every state with a process, whatever dockerd *)
(* and everybody else does, so that a stop() which rewrites runtime.json      *)
(* forgets nothing (runtime.py:326-331, 495-496, 565-566, 632-641).           *)
THEOREM LedgerAgreement == Spec => []LedgerAgrees
<1>1. Base => LedgerAgrees
  BY DEF Base
<1>2. QED
  BY <1>1, BaseInit, BaseStep, PTL DEF Spec

(* When start() has returned, every backend of the layout is held and on      *)
(* record, and the API key's file is gone: for any number of backends, and    *)
(* whatever was interrupted, timed out or swept before                        *)
(* (runtime.py:503-515).                                                      *)
THEOREM ServingCompleteAlways == Spec => []ServingComplete
<1>1. ASSUME Base PROVE ServingComplete
  <2> SUFFICES ASSUME pc = "serving"
               PROVE  /\ held = 0 .. (width - 1)
                      /\ manifest = [run |-> run, slots |-> held]
                      /\ run \notin env
    BY DEF ServingComplete
  <2>1. held = 0 .. (width - 1) /\ run \notin env /\ held # {}
    BY <1>1 DEF Base, Climbing, TypeOK
  <2>2. manifest.slots = held /\ manifest.run = run
    BY <1>1, <2>1 DEF Base, Holding, LedgerAgrees, Sweeping
  <2>3. manifest = [run |-> manifest.run, slots |-> manifest.slots]
    BY <1>1 DEF Base, TypeOK
  <2> QED
    BY <2>1, <2>2, <2>3
<1>2. QED
  BY <1>1, BaseInit, BaseStep, PTL DEF Spec

(* The steps that rewrite runtime.json.                                     *)
LEMMA ManifestWriters ==
    ASSUME [Next]_vars
    PROVE  UNCHANGED manifest \/ SweepPersist \/ FetchForget
           \/ FirstWorker \/ WorkerUp \/ ProbeImage \/ FetchNext
BY DaemonLeaves DEF Next, vars, Call, Launching, Cleaning, Construct, Start, Stop,
       Recover, Exit, Ask, Abandon, ProbeOver, FetchOver, Poll, InspectGone,
       InspectOwned, InspectRefused, DockerStop, DockerRemove, CommandFails,
       SweepUnlink, FetchGone, FetchThere, FetchStop, Raise, Kill, disk

(* A launch that is recorded takes nothing off the record.                  *)
LEMMA RecordKept ==
    ASSUME Base, FirstWorker \/ WorkerUp \/ ProbeImage \/ FetchNext,
           NEW n \in Names, Recorded(n)
    PROVE  Recorded(n)'
<1> USE DEF Base, LedgerAgrees, Holding, Sweeping
<1>1. manifest.slots = held /\ manifest.run = run
  BY DEF FirstWorker, WorkerUp, ProbeImage, FetchNext, Recorded
<1>2. \/ UNCHANGED manifest
      \/ manifest'.run = run /\ held \subseteq manifest'.slots
  <2>1. CASE FirstWorker \/ WorkerUp
    BY <2>1 DEF FirstWorker, WorkerUp, RecordWorker, Persist
  <2>2. CASE ProbeImage \/ FetchNext
    BY <2>2 DEF ProbeImage, FetchNext, RunOnce, Persist
  <2> QED
    BY <2>1, <2>2
<1>3. QED
  BY <1>1, <1>2 DEF Recorded

-----------------------------------------------------------------------------
(* Containers of other owners.                                             *)

(* What the process has at hand was its own when it was inspected, or the    *)
(* history variable says that the name has been taken since.                 *)
LEMMA OwnedStep ==
    ASSUME Base, OwnedAtHand, [Next]_vars PROVE OwnedAtHand'
<1> USE DEF Base, OwnedAtHand, Commanding, disk, world, start, sweep, Name
<1>1. CASE Call
  BY <1>1 DEF Call, Construct, Start, ProbeImage, FetchNext, RunOnce, Stop, Recover,
       Exit, BeginSweep, ProcessEnds, BackToCaller
<1>2. CASE Launching
  BY <1>2 DEF Launching, FirstWorker, Ask, Request, WorkerUp, RecordWorker, Abandon,
       ProbeOver, FetchOver, Poll, BeginSweep
<1>3. CASE Cleaning
  <2>1. CASE DockerStop
    BY <2>1 DEF DockerStop, Stopped, TypeOK, Names, Foreign
  <2>2. ASSUME NEW c \in Slots, InspectOwned(c) PROVE OwnedAtHand'
    BY <2>2 DEF InspectOwned, Exists, Owned, Foreign
  <2>3. CASE FetchThere
    BY <2>3 DEF FetchThere, Exists, Owned, Foreign
  <2>4. CASE pc' \notin Commanding
    BY <2>4
  <2> QED
    BY <1>3, <2>1, <2>2, <2>3, <2>4 DEF Cleaning, InspectGone, InspectRefused,
       DockerRemove, CommandFails, SweepPersist, SweepUnlink, FetchGone, FetchStop,
       FetchForget, ProcessEnds, BackToCaller
<1>4. CASE Raise \/ Kill
  BY <1>4 DEF Raise, Kill, ProcessEnds, BackToCaller
<1>5. ASSUME NEW n \in Names, Daemon(n) PROVE OwnedAtHand'
  <2>1. UNCHANGED <<pc, run, at>>
    BY <1>5, DaemonLeaves
  <2>2. CASE ForeignTakes(n)
    BY <2>1, <2>2 DEF ForeignTakes, AtHand, TypeOK, Names
  <2>3. CASE ~ForeignTakes(n)
    <3>1. usurped' = usurped
      BY <1>5, <2>3 DEF Daemon, ForeignLeaves, unchangedProcess
    <3>2. \A m \in Names : docker'[m] \in Foreign => docker[m] \in Foreign
      <4>1. \A m \in Names : docker'[m] = docker[m]
                \/ docker'[m] \in {"created", "running", "removing", "exited", "absent"}
        BY <1>5, <2>3 DEF TypeOK, Daemon, DaemonMoves, DaemonCreates, DaemonRefuses,
           ClientStarts, ClientEnds, ContainerExits, DaemonRestarts, DaemonRemoves,
           ForeignLeaves
      <4>2. QED
        BY <4>1 DEF Foreign
    <3>3. pc \in Commanding => Name(at) \in Names
      BY DEF TypeOK, Names
    <3>4. QED
      BY <2>1, <3>1, <3>2, <3>3
  <2> QED
    BY <2>2, <2>3
<1>6. CASE UNCHANGED vars
  BY <1>6 DEF vars
<1>7. QED
  BY <1>1, <1>2, <1>3, <1>4, <1>5, <1>6 DEF Next

(* A foreign container is touched only by a command on the name at hand,     *)
(* after that name was taken.                                                *)
LEMMA ForeignStep ==
    ASSUME Base, OwnedAtHand, [Next]_vars, NEW n \in Names, docker[n] \in Foreign,
           docker'[n] # docker[n]
    PROVE  n \in usurped \/ ForeignLeaves(n)
<1> USE DEF Base, TypeOK, disk, world, start, sweep
<1>1. CASE UNCHANGED docker
  BY <1>1
<1>2. CASE DockerStop \/ FetchStop \/ DockerRemove \/ CommandFails
  <2>1. n = Name(at)
    BY <1>2 DEF DockerStop, FetchStop, DockerRemove, CommandFails
  <2>2. pc \in Commanding
    BY <1>2 DEF DockerStop, FetchStop, DockerRemove, CommandFails, Commanding
  <2> QED
    BY <2>1, <2>2 DEF OwnedAtHand
<1>3. ASSUME NEW m \in Names, Daemon(m) PROVE ForeignLeaves(n)
  BY <1>3 DEF Foreign, Daemon, DaemonMoves, DaemonCreates, DaemonRefuses, ClientStarts,
       ClientEnds, ContainerExits, DaemonRestarts, DaemonRemoves, ForeignTakes,
       ForeignLeaves
<1>4. QED
  BY <1>1, <1>2, <1>3 DEF Next, vars, Call, Launching, Cleaning, Construct, Start,
     ProbeImage, FetchNext, RunOnce, Stop, Recover, Exit, FirstWorker, Ask, Request,
     WorkerUp, Abandon, ProbeOver, FetchOver, Poll, InspectGone, InspectOwned,
     InspectRefused, SweepPersist, SweepUnlink, FetchGone, FetchThere, FetchForget,
     Raise, Kill

(* A container of another owner is stopped or removed only where the code    *)
(* cannot know it: on the one name at hand, taken after its inspect said it  *)
(* was ours. One that was there for the inspect survives stop(), downloads   *)
(* and every recovery (runtime.py:293-296, 455-456, 556-561, 636-639), for   *)
(* any number of runs, backends, precisions and containers of others.        *)
THEOREM ForeignSparedAlways == Spec => ForeignSpared
<1>1. Init => Base /\ OwnedAtHand
  BY BaseInit DEF Init, OwnedAtHand, Commanding
<1>2. Base /\ OwnedAtHand /\ [Next]_vars => Base' /\ OwnedAtHand'
  BY BaseStep, OwnedStep
<1>3. Base /\ OwnedAtHand /\ [Next]_vars
          => [\A n \in Names : docker[n] \in Foreign /\ docker'[n] # docker[n]
                  => n \in usurped \/ ForeignLeaves(n)]_vars
  BY ForeignStep
<1>4. QED
  BY <1>1, <1>2, <1>3, PTL DEF Spec, ForeignSpared

-----------------------------------------------------------------------------
(* Only Ask sends a create request, and only for the container at hand.    *)
(* Nothing else makes a container, or a launch, appear.                    *)
LEMMA OnlyAskLaunches ==
    ASSUME TypeOK, [Next]_vars, NEW n \in Names, MayRun(n)', ~MayRun(n)
    PROVE  Ask /\ n = Name(at)
<1> USE DEF TypeOK, MayRun, Owned, Foreign, States, disk, world, start, sweep
<1>1. CASE Call
  BY <1>1 DEF Call, Construct, Start, ProbeImage, FetchNext, RunOnce, Stop,
       Recover, Exit
<1>2. CASE FirstWorker \/ WorkerUp \/ Abandon \/ ProbeOver \/ FetchOver
           \/ \E healthy \in BOOLEAN : Poll(healthy)
  BY <1>2 DEF FirstWorker, WorkerUp, Abandon, ProbeOver, FetchOver, Poll
<1>3. CASE Ask
  BY <1>3 DEF Ask, Request
<1>4. CASE Cleaning
  <2>1. CASE DockerStop \/ FetchStop \/ CommandFails
    BY <2>1 DEF DockerStop, FetchStop, CommandFails, Stopped, Removable, Exists
  <2>2. CASE DockerRemove
    BY <2>2 DEF DockerRemove, Removable
  <2>3. CASE SweepPersist \/ SweepUnlink \/ FetchGone \/ FetchThere
             \/ FetchForget
    BY <2>3 DEF SweepPersist, SweepUnlink, FetchGone, FetchForget, FetchThere
  <2>4. CASE \E c \in Slots : InspectGone(c) \/ InspectOwned(c)
                              \/ InspectRefused(c)
    BY <2>4 DEF InspectGone, InspectOwned, InspectRefused
  <2>5. QED
    BY <1>4, <2>1, <2>2, <2>3, <2>4 DEF Cleaning
<1>5. CASE Raise \/ Kill
  BY <1>5 DEF Raise, Kill
<1>6. ASSUME NEW m \in Names, Daemon(m) PROVE FALSE
  BY <1>6 DEF Daemon, DaemonMoves, DaemonCreates, DaemonRefuses, ClientStarts, ClientEnds,
       ContainerExits, DaemonRestarts, DaemonRemoves, ForeignTakes, ForeignLeaves, AtHand,
       unchangedProcess
<1>7. CASE UNCHANGED vars
  BY <1>7 DEF vars
<1>8. QED
  BY <1>1, <1>2, <1>3, <1>4, <1>5, <1>6, <1>7 DEF Next, Launching

(* A step that leaves the manifest alone and is not Ask keeps NoOrphan.    *)
LEMMA NoOrphanKept ==
    ASSUME IInv, [Next]_vars, UNCHANGED manifest, ~Ask
    PROVE  NoOrphan'
BY OnlyAskLaunches DEF IInv, Base, NoOrphan, Recorded

(* A step inside a sweep that asks nothing of the daemon keeps what it has *)
(* passed over from running again.                                         *)
LEMMA SweptKept ==
    ASSUME IInv, [Next]_vars, pc \in {"inspect", "stop", "remove"}, run' = run,
           NEW s \in manifest.slots \ (todo \cup remaining)
    PROVE  ~MayRun(Name(s))'
<1>1. Name(s) \in Names /\ Name(s)' = Name(s) /\ ~MayRun(Name(s))
  BY DEF IInv, Base, TypeOK, SweptGone, Name, Names
<1>2. ~Ask
  BY DEF Ask, Request
<1>3. MayRun(Name(s))' = MayRun(<<run, s>>)'
  BY <1>1 DEF Name
<1>4. QED
  BY <1>1, <1>2, OnlyAskLaunches DEF IInv, Base, MayRun, Name

(* The sweep's last step forgets only what it has passed over.             *)
LEMMA SweepPersistKeepsNoOrphan ==
    ASSUME IInv, SweepPersist PROVE NoOrphan'
<1>1. \A n \in Names : MayRun(n)' <=> MayRun(n)
  BY DEF SweepPersist, MayRun, world
<1>2. ASSUME NEW n \in Names, MayRun(n) PROVE Recorded(n)'
  <2>1. manifest.run = n[1] /\ n[2] \in manifest.slots /\ n = <<n[1], n[2]>>
    BY <1>2 DEF IInv, Base, NoOrphan, Recorded, Names
  <2>2. manifest.run = run
    BY <2>1 DEF IInv, Base, LedgerAgrees, SweepPersist
  <2>3. n = Name(n[2])
    BY <2>1, <2>2 DEF Name
  <2>4. n[2] \in remaining
    BY <1>2, <2>1, <2>3 DEF IInv, Base, SweptGone, SweepPersist
  <2>5. QED
    BY <2>1, <2>2, <2>4 DEF SweepPersist, Persist, Recorded
<1>3. QED
  BY <1>1, <1>2 DEF NoOrphan

(* A fetch is forgotten only when its container can no longer run.         *)
LEMMA FetchForgetKeepsNoOrphan ==
    ASSUME IInv, FetchForget PROVE NoOrphan'
<1>1. manifest.slots = {at} /\ manifest.run = run /\ ~MayRun(Name(at))
  BY DEF IInv, Base, Holding, LaunchHeld, LedgerAgrees, Sweeping, FetchForget
<1>2. \A n \in Names : MayRun(n)' <=> MayRun(n)
  BY DEF FetchForget, MayRun, world
<1>3. QED
  BY <1>1, <1>2 DEF IInv, Base, NoOrphan, Recorded, Name, Names

(* `docker stop` of a downloader leaves nothing that can run.              *)
LEMMA FetchStopped ==
    ASSUME IInv, FetchStop PROVE ~MayRun(Name(at))'
<1>1. Name(at) \in Names /\ Fetcher(at) /\ AutoRemoved(at) /\ Name(at)[2] = at
  BY DEF IInv, Base, TypeOK, Holding, FetchStop, Name, Names, Fetcher,
         AutoRemoved, Probe, Slots
<1>2. docker[Name(at)] \in {"created", "running", "removing", "foreign", "halted"}
  BY <1>1 DEF IInv, Base, TypeOK, RemovedOnExit, FetchStop, Owned, Foreign, States
<1>3. docker'[Name(at)] \in {"created", "removing", "foreign", "halted"}
  BY <1>1, <1>2 DEF IInv, Base, TypeOK, FetchStop, Stopped
<1>4. Name(at) \notin asked' /\ Name(at) \notin clients'
  BY DEF IInv, Base, LaunchHeld, FetchStop
<1>5. Name(at)' = Name(at)
  BY DEF FetchStop, start, Name
<1>6. QED
  BY <1>1, <1>3, <1>4, <1>5 DEF MayRun

-----------------------------------------------------------------------------
(* The conjuncts of the invariant other than Base and NoOrphan, action by  *)
(* action.                                                                 *)
LEMMA RemovedStep ==
    ASSUME IInv, [Next]_vars PROVE RemovedOnExit'
<1> USE DEF IInv, Base, TypeOK, disk, world, start, sweep, RemovedOnExit
<1>1. CASE DockerStop \/ FetchStop \/ CommandFails \/ DockerRemove
  <2>1. \/ UNCHANGED docker
        \/ \E s \in {Stopped(Name(at), AutoRemoved(at)), "absent"} :
               docker' = [docker EXCEPT ![<<run, at>>] = s]
    BY <1>1 DEF DockerStop, FetchStop, CommandFails, DockerRemove, Name
  <2>2. ASSUME NEW n \in Names, AutoRemoved(n[2])
        PROVE  docker'[n] \notin {"exited", "stopped"}
    <3>1. docker[n] \notin {"exited", "stopped"}
      BY <2>2
    <3>2. CASE n = <<run, at>>
      BY <2>1, <2>2, <3>1, <3>2 DEF Stopped, Name
    <3>3. CASE n # <<run, at>>
      BY <2>1, <3>1, <3>3
    <3>4. QED
      BY <3>2, <3>3
  <2>3. QED
    BY <2>2
<1>2. CASE UNCHANGED docker
  BY <1>2
<1>3. ASSUME NEW n \in Names, Daemon(n) PROVE RemovedOnExit'
  BY <1>3 DEF Daemon, DaemonMoves, DaemonCreates, DaemonRefuses, ClientStarts, ClientEnds,
       ContainerExits, DaemonRestarts, DaemonRemoves, ForeignTakes, ForeignLeaves, AtHand
<1>4. QED
  BY <1>1, <1>2, <1>3 DEF Next, vars, Call, Launching, Cleaning, Construct, Start,
     ProbeImage, FetchNext, RunOnce, Stop, Recover, Exit, FirstWorker, Ask, Request,
     WorkerUp, Abandon, ProbeOver, FetchOver, Poll, InspectGone, InspectOwned,
     InspectRefused, SweepPersist, SweepUnlink, FetchGone, FetchThere, FetchForget,
     Raise, Kill

(* A downloader is forgotten when nothing can start it any more.           *)
LEMMA LaunchHeldStep ==
    ASSUME ~DaemonLags, IInv, [Next]_vars PROVE LaunchHeld'
<1> USE DEF LaunchHeld, disk, world, start, sweep, Name
<1>1. CASE FetchGone
  <2>1. ~MayRun(Name(at))'
    BY <1>1 DEF FetchGone, Settled, MayRun, Owned
  <2>2. QED
    BY <1>1, <2>1 DEF IInv, FetchGone
<1>2. CASE FetchThere
  BY <1>2 DEF IInv, FetchThere, Settled
<1>3. CASE FetchStop
  <2>1. ~MayRun(Name(at))'
    BY <1>3, FetchStopped
  <2>2. QED
    BY <1>3, <2>1 DEF IInv, FetchStop
<1>4. CASE FetchOver
  BY <1>4 DEF FetchOver
<1>5. ASSUME NEW n \in Names, Daemon(n) PROVE LaunchHeld'
  <2>1. /\ UNCHANGED <<pc, run, at>>
        /\ asked' \subseteq asked /\ clients' \subseteq clients
    BY <1>5, DaemonLeaves
  <2>2. ASSUME pc = "forget" PROVE ~MayRun(<<run, at>>)'
    <3>1. PICK n0 \in Names : n0 = <<run, at>>
      BY <2>2 DEF IInv, Base, TypeOK, Names
    <3>2. ~MayRun(n0) /\ ~Ask
      BY <2>2, <3>1 DEF IInv, Ask
    <3>3. ~MayRun(n0)'
      BY <3>2, OnlyAskLaunches DEF IInv, Base
    <3>4. QED
      BY <2>1, <3>1, <3>3 DEF MayRun
  <2>3. pc = "forget" => ~MayRun(Name(at))'
    BY <2>1, <2>2 DEF MayRun
  <2>4. QED
    BY <2>1, <2>3 DEF IInv
<1>6. CASE Call \/ Launching
  BY <1>4, <1>6 DEF Call, Construct, Start, ProbeImage, FetchNext, RunOnce, Stop, Recover,
       Exit, BeginSweep, ProcessEnds, BackToCaller, Launching, FirstWorker, RecordWorker,
       Ask, WorkerUp, Abandon, ProbeOver, Poll
<1>7. CASE Cleaning
  BY <1>1, <1>2, <1>3, <1>7 DEF Cleaning, InspectGone, InspectOwned, InspectRefused,
       DockerStop, DockerRemove, CommandFails, SweepPersist, SweepUnlink, FetchForget,
       ProcessEnds, BackToCaller
<1>8. CASE Raise \/ Kill
  BY <1>8 DEF Raise, Kill, ProcessEnds, BackToCaller
<1>9. CASE UNCHANGED vars
  BY <1>9 DEF vars, IInv, MayRun
<1>10. QED
  BY <1>5, <1>6, <1>7, <1>8, <1>9 DEF Next

(* What a sweep has passed over for good stays so.                         *)
LEMMA SweptStep ==
    ASSUME ~DaemonLags, IInv, [Next]_vars PROVE SweptGone'
<1> USE DEF SweptGone, disk, world, start, sweep, Name
<1> DEFINE Over == manifest.slots \ (todo \cup remaining)
<1>1. ASSUME NEW c \in Slots, InspectGone(c) PROVE SweptGone'
  <2>1. ~MayRun(Name(c))'
    BY <1>1 DEF InspectGone, Settled, MayRun
  <2>2. \A s \in Over : ~MayRun(Name(s))'
    BY <1>1, SweptKept DEF InspectGone
  <2>3. QED
    BY <1>1, <2>1, <2>2 DEF InspectGone
<1>2. ASSUME NEW c \in Slots, InspectOwned(c) \/ InspectRefused(c) PROVE SweptGone'
  <2>1. \A s \in Over : ~MayRun(Name(s))'
    BY <1>2, SweptKept DEF InspectOwned, InspectRefused
  <2>2. QED
    BY <1>2, <2>1 DEF InspectOwned, InspectRefused, Settled
<1>3. CASE DockerStop \/ CommandFails
  <2>1. \A s \in Over : ~MayRun(Name(s))'
    BY <1>3, SweptKept DEF DockerStop, CommandFails
  <2>2. QED
    BY <1>3, <2>1 DEF IInv, DockerStop, CommandFails
<1>4. CASE DockerRemove
  <2>1. \A s \in Over : ~MayRun(Name(s))'
    BY <1>4, SweptKept DEF DockerRemove
  <2>2. ASSUME NEW s \in Slots, s = at PROVE ~MayRun(Name(s))'
    BY <1>4, <2>2 DEF IInv, Base, TypeOK, DockerRemove, MayRun, Names, Owned
  <2>3. \A s \in manifest.slots \ (todo' \cup remaining') : ~MayRun(Name(s))'
    BY <1>4, <2>1, <2>2 DEF DockerRemove, IInv, Base, TypeOK
  <2>4. QED
    BY <1>4, <2>3 DEF DockerRemove
<1>5. ASSUME NEW n \in Names, Daemon(n) PROVE SweptGone'
  <2>1. UNCHANGED <<manifest, pc, run, at, todo, remaining>> /\ asked' \subseteq asked
    BY <1>5, DaemonLeaves
  <2>2. pc \in {"inspect", "stop", "remove"} => \A s \in Over : ~MayRun(Name(s))'
    BY <2>1, SweptKept
  <2>3. QED
    BY <2>1, <2>2 DEF IInv
<1>6. CASE Call
  BY <1>6 DEF Call, Construct, Start, ProbeImage, FetchNext, RunOnce, Stop, Recover, Exit,
       BeginSweep, ProcessEnds, BackToCaller, IInv, Base, LedgerAgrees, Holding, Sweeping
<1>7. CASE Launching
  BY <1>7 DEF Launching, FirstWorker, RecordWorker, Ask, WorkerUp, Abandon, ProbeOver,
       FetchOver, Poll, BeginSweep, IInv, Base, LedgerAgrees, Holding, Sweeping
<1>8. CASE pc' \notin {"inspect", "stop", "remove"}
  BY <1>8
<1>9. CASE UNCHANGED vars
  BY <1>9 DEF vars, IInv, MayRun
<1>10. QED
  BY <1>1, <1>2, <1>3, <1>4, <1>5, <1>6, <1>7, <1>8, <1>9
     DEF Next, Cleaning, SweepPersist, SweepUnlink, FetchGone, FetchThere, FetchStop,
         FetchForget, Raise, Kill, ProcessEnds, BackToCaller

(* The invariant is inductive.                                             *)
LEMMA IInvStep ==
    ASSUME ~DaemonLags, IInv, [Next]_vars PROVE IInv'
<1>1. NoOrphan'
  <2>1. CASE UNCHANGED manifest /\ ~Ask
    BY <2>1, NoOrphanKept
  <2>2. CASE Ask
    <3>1. Recorded(Name(at))
      BY <2>2 DEF IInv, Base, Holding, LedgerAgrees, Ask, Recorded, Name, Sweeping
    <3>2. QED
      BY <2>2, <3>1, OnlyAskLaunches DEF IInv, Base, NoOrphan, Recorded, Ask, disk
  <2>3. CASE SweepPersist
    BY <2>3, SweepPersistKeepsNoOrphan
  <2>4. CASE FetchForget
    BY <2>4, FetchForgetKeepsNoOrphan
  <2>5. CASE FirstWorker \/ WorkerUp \/ ProbeImage \/ FetchNext
    <3>1. \A n \in Names : MayRun(n)' => MayRun(n)
      BY <2>5, OnlyAskLaunches
         DEF IInv, Base, Ask, FirstWorker, WorkerUp, ProbeImage, FetchNext
    <3>2. QED
      BY <2>5, <3>1, RecordKept DEF IInv, NoOrphan
  <2>6. QED
    BY <2>1, <2>2, <2>3, <2>4, <2>5, ManifestWriters
<1>2. Base'
  BY BaseStep DEF IInv
<1>3. QED
  BY <1>1, <1>2, LaunchHeldStep, SweptStep, RemovedStep DEF IInv

LEMMA IInvInit == ASSUME Init PROVE IInv
BY BaseInit DEF Init, IInv, NoOrphan, LaunchHeld, SweptGone, RemovedOnExit, MayRun, Names

(* Every container that may run is on record, for any number of run ids,   *)
(* replicas and precisions, whatever is killed, interrupted or refused     *)
(* (runtime.py:478-641, 272-304), provided the daemon settles a create     *)
(* request before it answers an inspect of the same name.                  *)
THEOREM NothingOrphaned == ~DaemonLags /\ Spec => []NoOrphan
<1>1. ~DaemonLags /\ IInv /\ [Next]_vars => IInv'
  BY IInvStep
<1>2. Init => IInv
  BY IInvInit
<1>3. IInv => NoOrphan
  BY DEF IInv, Base
<1>4. CASE ~DaemonLags
  BY <1>1, <1>2, <1>3, <1>4, PTL DEF Spec
<1>5. QED
  BY <1>4

-----------------------------------------------------------------------------
(* The manifest as a write-ahead ledger.                                   *)
OnRecord == {n \in Names : Recorded(n)}
MayRuns  == {n \in Names : MayRun(n)}

(* Recording one more container adds one name and launches nothing.        *)
LEMMA RecordWrites ==
    ASSUME IInv, [Next]_vars,
           FirstWorker \/ WorkerUp \/ ProbeImage \/ FetchNext
    PROVE  /\ MayRuns' = MayRuns
           /\ \/ OnRecord' = OnRecord
              \/ \E n \in Names : OnRecord' = OnRecord \cup {n}
<1>1. ~Ask
  BY DEF Ask, Request, FirstWorker, WorkerUp, ProbeImage, FetchNext
<1>2. ASSUME NEW n \in Names, MayRun(n) PROVE MayRun(n)'
  <2>1. CASE WorkerUp
    BY <1>2, <2>1 DEF WorkerUp, MayRun
  <2>2. CASE FirstWorker \/ ProbeImage \/ FetchNext
    BY <1>2, <2>2 DEF FirstWorker, ProbeImage, FetchNext, RunOnce, MayRun, world
  <2>3. QED
    BY <2>1, <2>2
<1>3. MayRuns' = MayRuns
  BY <1>1, <1>2, OnlyAskLaunches DEF IInv, Base, MayRuns
<1>4. manifest.slots = held /\ (held # {} => manifest.run = run) /\ run \in Runs
  BY DEF IInv, Base, TypeOK, LedgerAgrees, Holding, Sweeping, FirstWorker,
         WorkerUp, ProbeImage, FetchNext
<1>5. \/ UNCHANGED manifest
      \/ \E s \in Slots : manifest' = [run |-> run, slots |-> held \cup {s}]
  <2>1. CASE FirstWorker
    BY <2>1, SlotFacts DEF FirstWorker, RecordWorker, Persist
  <2>2. CASE WorkerUp
    BY <2>2, TypeStep
       DEF IInv, Base, TypeOK, WorkerUp, RecordWorker, Persist
  <2>3. CASE ProbeImage
    BY <2>3, SlotFacts DEF ProbeImage, RunOnce, Persist
  <2>4. CASE FetchNext
    <3>1. held = {} /\ due \in Slots
      BY <2>4, SlotFacts DEF IInv, Base, TypeOK, Holding, FetchNext
    <3>2. QED
      BY <2>4, <3>1 DEF FetchNext, RunOnce, Persist
  <2>5. QED
    BY <2>1, <2>2, <2>3, <2>4
<1>6. ASSUME NEW s \in Slots,
             manifest' = [run |-> run, slots |-> held \cup {s}]
      PROVE  \E n \in Names : OnRecord' = OnRecord \cup {n}
  <2>1. <<run, s>> \in Names
    BY <1>4 DEF Names
  <2>2. ASSUME NEW n \in Names
        PROVE  n \in OnRecord' <=> n \in OnRecord \/ n = <<run, s>>
    BY <1>4, <1>6 DEF OnRecord, Recorded, Names
  <2>3. OnRecord' = OnRecord \cup {<<run, s>>}
    BY <2>1, <2>2 DEF OnRecord
  <2>4. QED
    BY <2>1, <2>3
<1>7. UNCHANGED manifest => OnRecord' = OnRecord
  BY DEF OnRecord, Recorded
<1>8. QED
  BY <1>3, <1>5, <1>6, <1>7

(* Forgetting names launches nothing and drops only names.                 *)
LEMMA ForgetDrops ==
    ASSUME IInv, SweepPersist \/ FetchForget
    PROVE  MayRuns' = MayRuns /\ OnRecord' \subseteq OnRecord
<1>1. MayRuns' = MayRuns
  BY DEF SweepPersist, FetchForget, MayRuns, MayRun, world
<1>2. CASE FetchForget
  BY <1>1, <1>2 DEF FetchForget, Persist, OnRecord, Recorded
<1>3. CASE SweepPersist
  <2>1. remaining \subseteq manifest.slots /\ (remaining # {} => manifest.run = run)
    BY <1>3 DEF IInv, Base, SweepListed, LedgerAgrees, SweepPersist, Sweeping
  <2>2. QED
    BY <1>1, <1>3, <2>1 DEF SweepPersist, Persist, OnRecord, Recorded
<1>4. QED
  BY <1>2, <1>3

(* Every step is a ledger step, or invisible to the ledger.                *)
LEMMA LedgerStep ==
    ASSUME ~DaemonLags, IInv, [Next]_vars
    PROVE  [Ledger!LedgerNext]_(Ledger!lvars)
<1> USE DEF OnRecord, MayRuns
<1>1. NoOrphan'
  BY IInvStep DEF IInv, Base
<1>2. CASE Ask
  <2>1. Name(at) \in Names /\ Recorded(Name(at))
    BY <1>2 DEF IInv, Base, TypeOK, Holding, LedgerAgrees, Ask, Request, Recorded, Name,
       Names, Sweeping
  <2>2. OnRecord' = OnRecord
    BY <1>2 DEF Ask, Request, disk, Recorded
  <2>3. MayRuns' = MayRuns \cup {Name(at)}
    BY <1>2, <2>1 DEF IInv, Base, TypeOK, Ask, Request, MayRun, Name, start
  <2>4. Ledger!Launch(Name(at))
    BY <2>1, <2>2, <2>3 DEF Ledger!Launch
  <2>5. QED
    BY <2>1, <2>4 DEF Ledger!LedgerNext
<1>3. CASE FirstWorker \/ WorkerUp \/ ProbeImage \/ FetchNext
  <2>1. CASE OnRecord' = OnRecord
    BY <1>3, <2>1, RecordWrites DEF Ledger!lvars
  <2>2. ASSUME NEW n \in Names, OnRecord' = OnRecord \cup {n}
        PROVE  Ledger!LedgerNext
    <3>1. Ledger!Record({n}) /\ {n} \in SUBSET Names
      BY <1>3, <2>2, RecordWrites DEF Ledger!Record
    <3>2. QED
      BY <3>1 DEF Ledger!LedgerNext
  <2>3. QED
    BY <1>3, <2>1, <2>2, RecordWrites
<1>4. CASE SweepPersist \/ FetchForget
  <2> DEFINE gone == OnRecord \ OnRecord'
  <2>1. MayRuns' = MayRuns /\ OnRecord' = OnRecord \ gone
    BY <1>4, ForgetDrops
  <2>2. gone \cap MayRuns = {}
    BY <1>1, <2>1 DEF NoOrphan
  <2>3. Ledger!Forget(gone) /\ gone \in SUBSET Names
    BY <2>1, <2>2 DEF Ledger!Forget
  <2>4. QED
    BY <2>3 DEF Ledger!LedgerNext
<1>5. CASE UNCHANGED manifest /\ ~Ask
  <2> DEFINE gone == MayRuns \ MayRuns'
  <2>1. OnRecord' = OnRecord
    BY <1>5 DEF Recorded
  <2>2. MayRuns' = MayRuns \ gone
    BY <1>5, OnlyAskLaunches DEF IInv, Base
  <2>3. Ledger!Vanish(gone) /\ gone \in SUBSET Names
    BY <2>1, <2>2 DEF Ledger!Vanish
  <2>4. QED
    BY <2>3 DEF Ledger!LedgerNext
<1>6. QED
  BY <1>2, <1>3, <1>4, <1>5, ManifestWriters

(* runtime.json and the daemon implement the write-ahead ledger: no step,  *)
(* of a call, a kill or the daemon, launches a container that is not on    *)
(* disk, or takes one off the disk that may still run (runtime.py:495-497, *)
(* 561-566, 632-641), for any number of run ids, replicas and precisions.  *)
THEOREM ImplementsLedger == ~DaemonLags /\ Spec => WritesAhead
<1>1. Init => Ledger!LedgerInit
  BY DEF Init, Ledger!LedgerInit, Recorded, MayRun, Names
<1>2. ~DaemonLags /\ IInv /\ [Next]_vars => IInv'
  BY IInvStep
<1>3. ~DaemonLags /\ IInv /\ [Next]_vars => [Ledger!LedgerNext]_(Ledger!lvars)
  BY LedgerStep
<1>4. Init => IInv
  BY IInvInit
<1>5. CASE ~DaemonLags
  BY <1>1, <1>2, <1>3, <1>4, <1>5, PTL DEF Spec, WritesAhead, Ledger!LedgerSpec
<1>6. QED
  BY <1>5

-----------------------------------------------------------------------------
(* A daemon that serves a create after its client is gone.                 *)

(* Only a client that waits for its container gets one to run.             *)
LEMMA OnlyClientsStart ==
    ASSUME Base, [Next]_vars, NEW n \in Names, Alive(n)', ~Alive(n)
    PROVE  n \in clients
<1> USE DEF Base, TypeOK, Alive, disk, world, start, sweep
<1>1. CASE UNCHANGED docker
  BY <1>1
<1>2. CASE DockerStop \/ FetchStop \/ CommandFails \/ DockerRemove
  BY <1>2 DEF DockerStop, FetchStop, CommandFails, DockerRemove, Stopped
<1>3. ASSUME NEW m \in Names, Daemon(m) PROVE n \in clients
  BY <1>3 DEF Daemon, DaemonMoves, DaemonCreates, DaemonRefuses, ClientStarts, ClientEnds,
       ContainerExits, DaemonRestarts, DaemonRemoves, ForeignTakes, ForeignLeaves, AtHand
<1>4. QED
  BY <1>1, <1>2, <1>3 DEF Next, vars, Call, Launching, Cleaning, Construct, Start,
     ProbeImage, FetchNext, RunOnce, Stop, Recover, Exit, FirstWorker, Ask, Request,
     WorkerUp, Abandon, ProbeOver, FetchOver, Poll, InspectGone, InspectOwned,
     InspectRefused, SweepPersist, SweepUnlink, FetchGone, FetchThere, FetchForget,
     Raise, Kill

(* The client lives within the call that waits for it.                     *)
LEMMA ClientStep ==
    ASSUME ~Kills, Base, Watched, [Next]_vars
    PROVE  \A n \in clients' : pc' = "wait" /\ n = Name(at)'
<1> USE DEF Watched, disk, world, start, sweep, Name
<1>1. CASE Call
  BY <1>1 DEF Call, Construct, Start, ProbeImage, FetchNext, RunOnce, Stop, Recover, Exit
<1>2. CASE Launching
  BY <1>2 DEF Launching, FirstWorker, Ask, Request, WorkerUp, Abandon, ProbeOver,
       FetchOver, Poll
<1>3. CASE Cleaning
  BY <1>3 DEF Cleaning, InspectGone, InspectOwned, InspectRefused, DockerStop,
       DockerRemove, CommandFails, SweepPersist, SweepUnlink, FetchGone, FetchThere,
       FetchStop, FetchForget
<1>4. CASE Raise \/ Kill
  BY <1>4 DEF Raise, Kill, Sweeping
<1>5. ASSUME NEW n \in Names, Daemon(n)
      PROVE  \A m \in clients' : pc' = "wait" /\ m = Name(at)'
  BY <1>5, DaemonLeaves
<1>6. CASE UNCHANGED vars
  BY <1>6 DEF vars
<1>7. QED
  BY <1>1, <1>2, <1>3, <1>4, <1>5, <1>6 DEF Next

(* What a sweep has passed over, and the downloader about to be forgotten,  *)
(* cannot come to life: nobody waits for them.                             *)
LEMMA DeadStays ==
    ASSUME Base, Watched, [Next]_vars, pc # "wait", NEW n \in Names, ~Alive(n)
    PROVE  ~Alive(n)'
BY OnlyClientsStart DEF Watched

LEMMA AliveSweptStep ==
    ASSUME Base, Watched, [Next]_vars
    PROVE  pc' \in {"inspect", "stop", "remove"} =>
             \A s \in manifest'.slots \ (todo' \cup remaining') : ~Alive(Name(s))'
<1> USE DEF disk, world, start, sweep
<1> DEFINE Over == manifest.slots \ (todo \cup remaining)
           Goal == pc' \in {"inspect", "stop", "remove"} =>
                     \A s \in manifest'.slots \ (todo' \cup remaining') : ~Alive(Name(s))'
<1>1. ASSUME pc \in {"inspect", "stop", "remove"}, run' = run, NEW s \in Over
      PROVE  ~Alive(Name(s))'
  <2>1. <<run, s>> \in Names /\ ~Alive(<<run, s>>)
    BY <1>1 DEF Base, TypeOK, Watched, Names, Name
  <2>2. ~Alive(<<run, s>>)'
    BY <1>1, <2>1, DeadStays
  <2> QED
    BY <1>1, <2>2 DEF Alive, Name
<1>2. ASSUME NEW c \in Slots, InspectGone(c) PROVE Goal
  <2>1. ~Alive(Name(c))'
    BY <1>2 DEF InspectGone, Alive, Name
  <2>2. QED
    BY <1>1, <1>2, <2>1 DEF InspectGone
<1>3. ASSUME NEW c \in Slots, InspectOwned(c) \/ InspectRefused(c) PROVE Goal
  BY <1>1, <1>3 DEF InspectOwned, InspectRefused
<1>4. CASE DockerStop \/ CommandFails
  BY <1>1, <1>4 DEF DockerStop, CommandFails
<1>5. CASE DockerRemove
  <2>1. run' = run /\ manifest' = manifest /\ pc = "remove"
    BY <1>5 DEF DockerRemove
  <2>2. \A s \in Over : ~Alive(Name(s))'
    BY <1>1, <2>1
  <2>3. ASSUME NEW s \in Slots, s = at PROVE ~Alive(Name(s))'
    BY <1>5, <2>3 DEF Base, TypeOK, DockerRemove, Alive, Name, Names
  <2>4. \A s \in manifest.slots \ (todo' \cup remaining') : s \in Over \/ s = at
    BY <1>5 DEF DockerRemove
  <2>5. QED
    BY <2>1, <2>2, <2>3, <2>4 DEF Base, TypeOK
<1>6. ASSUME NEW n \in Names, Daemon(n) PROVE Goal
  <2>1. UNCHANGED <<manifest, pc, run, todo, remaining>>
    BY <1>6, DaemonLeaves
  <2>2. QED
    BY <1>1, <2>1
<1>7. CASE Call
  BY <1>7 DEF Call, Construct, Start, ProbeImage, FetchNext, RunOnce, Stop, Recover, Exit,
       BeginSweep, ProcessEnds, BackToCaller, Base, LedgerAgrees, Holding, Sweeping
<1>8. CASE Launching
  BY <1>8 DEF Launching, FirstWorker, RecordWorker, Ask, WorkerUp, Abandon, ProbeOver,
       FetchOver, Poll, BeginSweep, Base, LedgerAgrees, Holding, Sweeping
<1>9. CASE pc' \notin {"inspect", "stop", "remove"}
  BY <1>9
<1>10. CASE UNCHANGED vars
  BY <1>10 DEF vars, Watched, Alive, Name
<1>11. QED
  BY <1>2, <1>3, <1>4, <1>5, <1>6, <1>7, <1>8, <1>9, <1>10
     DEF Next, Cleaning, SweepPersist, SweepUnlink, FetchGone, FetchThere, FetchStop,
         FetchForget, Raise, Kill, ProcessEnds, BackToCaller

LEMMA AliveForgottenStep ==
    ASSUME Base, Watched, [Next]_vars PROVE pc' = "forget" => ~Alive(Name(at))'
<1> USE DEF disk, world, start, sweep
<1>1. CASE FetchGone
  BY <1>1 DEF FetchGone, Alive, Name
<1>2. CASE FetchStop
  <2>1. AutoRemoved(at) /\ Name(at) \in Names
    BY <1>2, SlotFacts DEF Base, TypeOK, Holding, FetchStop, Fetcher, AutoRemoved, Probe,
       Name, Names
  <2> QED
    BY <1>2, <2>1 DEF Base, TypeOK, FetchStop, Stopped, Alive, Name
<1>3. CASE pc = "forget" /\ UNCHANGED <<pc, run, at>>
  <2>1. <<run, at>> \in Names /\ ~Alive(<<run, at>>)
    BY <1>3 DEF Base, TypeOK, Watched, Names, Name
  <2>2. ~Alive(<<run, at>>)'
    BY <1>3, <2>1, DeadStays
  <2> QED
    BY <1>3, <2>2 DEF Alive, Name
<1>4. CASE pc' # "forget"
  BY <1>4
<1>5. ASSUME NEW n \in Names, Daemon(n) PROVE pc' = "forget" => ~Alive(Name(at))'
  BY <1>3, <1>4, <1>5, DaemonLeaves
<1>6. QED
  BY <1>1, <1>2, <1>3, <1>4, <1>5
     DEF Next, vars, Call, Construct, Start, ProbeImage, FetchNext, RunOnce, Stop, Recover,
         Exit, BeginSweep, Launching, FirstWorker, RecordWorker, Ask, WorkerUp, Abandon,
         ProbeOver, FetchOver, Poll, Cleaning, InspectGone, InspectOwned, InspectRefused,
         DockerStop, DockerRemove, CommandFails, SweepPersist, SweepUnlink, FetchThere,
         FetchForget, Raise, Kill, ProcessEnds, BackToCaller

LEMMA WatchedStep ==
    ASSUME ~Kills, Base, Watched, [Next]_vars PROVE Watched'
<1>1. ASSUME NEW n \in Names, Alive(n)' PROVE Recorded(n)'
  <2>1. CASE Alive(n)
    <3>1. Recorded(n) /\ n = <<manifest.run, n[2]>>
      BY <2>1 DEF Watched, Recorded, Names
    <3>2. CASE UNCHANGED manifest
      BY <3>1, <3>2 DEF Recorded
    <3>3. CASE FirstWorker \/ WorkerUp \/ ProbeImage \/ FetchNext
      BY <3>1, <3>3, RecordKept
    <3>4. CASE SweepPersist
      <4>1. n[1] = run /\ n = Name(n[2]) /\ n[2] \in manifest.slots
        BY <3>1, <3>4 DEF Base, LedgerAgrees, SweepPersist, Recorded, Name
      <4>2. n[2] \in remaining
        BY <2>1, <3>4, <4>1 DEF Watched, SweepPersist
      <4> QED
        BY <3>4, <4>1, <4>2 DEF SweepPersist, Persist, Recorded
    <3>5. CASE FetchForget
      <4>1. n = Name(at)
        BY <3>1, <3>5 DEF Base, LedgerAgrees, Holding, FetchForget, Recorded, Sweeping, Name
      <4> QED
        BY <2>1, <3>5, <4>1 DEF Watched, FetchForget
    <3> QED
      BY <3>2, <3>3, <3>4, <3>5, ManifestWriters
  <2>2. CASE ~Alive(n)
    <3>1. pc = "wait" /\ n = Name(at)
      BY <1>1, <2>2, OnlyClientsStart DEF Watched
    <3>2. Recorded(n)
      BY <3>1 DEF Base, LedgerAgrees, Holding, Recorded, Sweeping, Name
    <3>3. UNCHANGED manifest \/ WorkerUp
      BY <3>1, ManifestWriters
         DEF SweepPersist, FetchForget, FirstWorker, ProbeImage, FetchNext
    <3> QED
      BY <3>2, <3>3, RecordKept DEF Recorded
  <2> QED
    BY <2>1, <2>2
<1>2. QED
  BY <1>1, ClientStep, AliveSweptStep, AliveForgottenStep DEF Watched

(* With a daemon that may serve a create long after its client gave up, no    *)
(* container is running unrecorded, whatever is interrupted, refused or timed *)
(* out, as long as no process is killed (runtime.py:478-641, 272-304). It     *)
(* needs nothing of DaemonLags: only that a client dies with its call.        *)
THEOREM NothingRunsUnrecorded == ~Kills /\ Spec => []NoRunningOrphan
<1>1. Init => Base /\ Watched
  BY BaseInit DEF Init, Watched, Alive
<1>2. ~Kills /\ Base /\ Watched /\ [Next]_vars => Base' /\ Watched'
  BY BaseStep, WatchedStep
<1>3. Watched => NoRunningOrphan
  BY DEF Watched, Alive, NoRunningOrphan
<1>4. CASE ~Kills
  BY <1>1, <1>2, <1>3, <1>4, PTL DEF Spec
<1>5. QED
  BY <1>4
=============================================================================
