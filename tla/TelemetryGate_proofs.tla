------------------------ MODULE TelemetryGate_proofs ------------------------
(***************************************************************************)
(* Proofs about TelemetryGate, for any backends, gaps and start-up times.  *)
(***************************************************************************)
EXTENDS TelemetryGate, TLAPS

(* A read ends with the thread's next place, whatever it brought.          *)
LEMMA SweepTypes ==
    ASSUME TypeOK, NEW t \in Threads, NEW b \in Backends, Sweeping(t, b), Sweep(t, b)
    PROVE  /\ at' \in [Threads -> {"idle", "before", "after", "judge", "none", "wait", "over"}
                                   \cup Measuring \cup Final]
           /\ unread' \in [Threads -> SUBSET Backends]
           /\ since' \in 0 .. Gap + 1 \cup 0 .. AfterTime
<1>1. After(at[t]) \in {"read", "gpu", "judge"}
  BY DEF Sweeping, After
<1>2. 0 \in 0 .. Gap + 1
  BY TelemetryAssumption
<1>3. PICK p \in {at[t], After(at[t])} : at' = [at EXCEPT ![t] = p]
  BY DEF Sweep, Goto
<1>4. PICK r \in {Backends, unread[t] \ {b}} : unread' = [unread EXCEPT ![t] = r]
  BY DEF Sweep
<1>5. since' \in {0, since}
  BY DEF Sweep
<1> QED
  BY <1>1, <1>2, <1>3, <1>4, <1>5 DEF TypeOK, Measuring, Threads

LEMMA CountTypes == 0 \in Counts /\ Counts \subseteq Int /\ None \in Int
BY TelemetryAssumption DEF Counts, None

(* Every step keeps every variable's type.                                 *)
LEMMA TypeStep == ASSUME TypeOK, [Next]_vars PROVE TypeOK'
<1> USE DEF TypeOK, Threads, Measuring, Final
<1>1. ASSUME NEW t \in Threads, NEW b \in Backends, ReadMetrics(t, b) PROVE TypeOK'
  <2>1. Sweeping(t, b) /\ Sweep(t, b)
    BY <1>1 DEF ReadMetrics
  <2>2. errors' \in BOOLEAN
    BY <1>1 DEF ReadMetrics
  <2>3. {last', before', after'} \subseteq [Backends -> Counts \cup {None}]
    BY <1>1 DEF ReadMetrics
  <2> QED
    BY <1>1, <2>1, <2>2, <2>3, SweepTypes DEF ReadMetrics, server, gpu
<1>2. ASSUME NEW t \in Threads, NEW b \in Backends, ReadFails(t, b) PROVE TypeOK'
  BY <1>2, SweepTypes DEF ReadFails, server, gpu
<1>3. ASSUME NEW t \in Threads, GpuSample(t) PROVE TypeOK'
  BY <1>3, TelemetryAssumption DEF GpuSample, Sampled, Goto, server, gpu
<1>4. ASSUME NEW t \in Threads, GpuSampleFails(t) PROVE TypeOK'
  BY <1>4 DEF GpuSampleFails, Sampled, Goto, clock, server, gpu
<1>5. ASSUME NEW b \in Backends, Poll(b) PROVE TypeOK'
  <2>1. \E r \in {Backends, unread["main"] \ {b}} : unread' = [unread EXCEPT !["main"] = r]
    BY <1>5 DEF Poll
  <2>2. \E p \in {"before", "idle"} : at' = [at EXCEPT !["main"] = p] \/ at' = at
    BY <1>5 DEF Poll, Goto
  <2> QED
    BY <1>5, <2>1, <2>2 DEF Poll, record, clock, server, gpu
<1>6. CASE StartSampler \/ WorkloadOver \/ Summary \/ NotIdleInTime \/ EnterFails \/ WakeSampler
  BY <1>6 DEF StartSampler, WorkloadOver, Summary, NotIdleInTime, EnterFails, WakeSampler, Goto,
       record, clock, server, gpu
<1>7. CASE Join
  BY <1>7, TelemetryAssumption DEF Join, Ended, Goto, server, gpu
<1>8. CASE SamplerStops
  BY <1>8 DEF SamplerStops, Goto, clock, server, gpu
<1>9. CASE Memory
  BY <1>9, TelemetryAssumption DEF Memory, record, clock, server
<1>10. CASE Tick
  BY <1>10, TelemetryAssumption DEF Tick, AtMost, record
<1>11. ASSUME NEW b \in Backends, Preempt(b) \/ Schedule(b) \/ Crash(b) \/ Restarted(b)
       PROVE  TypeOK'
  <2>1. CASE Preempt(b)
    <3>1. count[b] + 1 \in Counts
      BY <2>1, TelemetryAssumption DEF Preempt, Counts
    <3> QED
      BY <2>1, <3>1 DEF Preempt, record, clock, gpu
  <2>2. CASE Schedule(b)
    BY <2>2 DEF Schedule, record, clock, gpu
  <2>3. CASE Crash(b)
    BY <2>3, TelemetryAssumption DEF Crash, record, clock, gpu
  <2>4. CASE Restarted(b)
    BY <2>4, TelemetryAssumption, CountTypes DEF Restarted, record, clock, gpu
  <2> QED
    BY <1>11, <2>1, <2>2, <2>3, <2>4
<1>12. CASE UNCHANGED vars
  BY <1>12 DEF vars, record, clock, server, gpu
<1>13. QED
  BY <1>1, <1>2, <1>3, <1>4, <1>5, <1>6, <1>7, <1>8, <1>9, <1>10, <1>11, <1>12
     DEF Next, Main, Sampler, World, Reading, Sampling

(* Every variable keeps its type; in particular the clocks are bounded by  *)
(* the gap and the time of the last reading.                               *)
THEOREM TypeCorrect == Spec => []TypeOK
<1>1. Init => TypeOK
  <2> SUFFICES ASSUME Init PROVE TypeOK
    OBVIOUS
  <2>1. 0 \in 0 .. Gap + 1 /\ 0 \in 0 .. Startup + 1
    BY TelemetryAssumption
  <2>2. {low, errors, sampled, short, wide, preempted, starved} \subseteq BOOLEAN
    BY DEF Init
  <2> QED
    BY <2>1, <2>2 DEF Init, TypeOK, Threads
<1>2. TypeOK /\ [Next]_vars => TypeOK'
  BY TypeStep
<1>3. QED
  BY <1>1, <1>2, PTL DEF Spec

-----------------------------------------------------------------------------
(* What has been found idle stays so: nobody sends requests meanwhile. So   *)
(* the backends already asked in this attempt of wait_idle() hold nothing,  *)
(* and after it no backend does.                                            *)
AskedAreIdle ==
    /\ at["main"] = "idle" => \A b \in Backends \ unread["main"] : leftover[b] = "none"
    /\ MeasuredOnIdle

(* Work that is over does not come back.                                    *)
LEMMA NoneStays ==
    ASSUME TypeOK, [Next]_vars, NEW b \in Backends, leftover[b] = "none"
    PROVE  leftover'[b] = "none"
<1>1. ASSUME NEW c \in Backends, Schedule(c) PROVE leftover'[b] = "none"
  BY <1>1 DEF Schedule, TypeOK
<1>2. CASE UNCHANGED leftover
  BY <1>2
<1>3. QED
  BY <1>1, <1>2 DEF Next, Main, Sampler, World, Reading, Sampling, ReadMetrics, ReadFails,
     GpuSample, GpuSampleFails, Poll, StartSampler, WorkloadOver, Summary, NotIdleInTime, EnterFails,
     WakeSampler, Join, SamplerStops, Memory, Tick, Preempt, Crash, Restarted, server, gpu, vars

LEMMA IdleStep == ASSUME TypeOK, AskedAreIdle, [Next]_vars PROVE AskedAreIdle'
<1> USE DEF AskedAreIdle, MeasuredOnIdle, Measuring, Threads
<1> DEFINE Before == {"before", "read", "gpu", "work", "join"}
<1>1. ASSUME NEW b \in Backends, Poll(b) PROVE AskedAreIdle'
  <2>1. at["main"] = "idle" /\ leftover' = leftover
    BY <1>1 DEF Poll, server
  <2>2. CASE unread' = [unread EXCEPT !["main"] = Backends] /\ UNCHANGED at
    BY <2>1, <2>2 DEF TypeOK
  <2>3. CASE leftover[b] = "none" /\ unread["main"] = {b}
    <3>1. \A c \in Backends : leftover[c] = "none"
      BY <2>1, <2>3
    <3> QED
      BY <2>1, <3>1
  <2>4. CASE /\ leftover[b] = "none" /\ unread["main"] # {b}
             /\ unread' = [unread EXCEPT !["main"] = unread["main"] \ {b}]
             /\ at' = [at EXCEPT !["main"] = "idle"]
    <3>1. \A c \in Backends \ unread'["main"] : leftover[c] = "none"
      BY <2>1, <2>4 DEF TypeOK
    <3> QED
      BY <2>1, <2>4, <3>1 DEF TypeOK
  <2> QED
    BY <1>1, <2>2, <2>3, <2>4 DEF Poll, Idle, Goto
<1>2. CASE /\ at'["main"] = "idle" => at["main"] = "idle" /\ unread'["main"] = unread["main"]
           /\ at'["main"] \in Before => at["main"] \in Before
  <2>1. \A b \in Backends : leftover[b] = "none" => leftover'[b] = "none"
    BY NoneStays
  <2> QED
    BY <1>2, <2>1
<1>3. ASSUME NEW t \in Threads, NEW b \in Backends, ReadMetrics(t, b) \/ ReadFails(t, b)
      PROVE  AskedAreIdle'
  <2>1. Sweeping(t, b) /\ Sweep(t, b)
    BY <1>3 DEF ReadMetrics, ReadFails
  <2>2. After(at[t]) \in {"read", "gpu", "judge"}
    BY <2>1 DEF Sweeping, After
  <2>3. PICK p \in {at[t], After(at[t])} : at' = [at EXCEPT ![t] = p]
    BY <2>1 DEF Sweep, Goto
  <2>4. PICK r : unread' = [unread EXCEPT ![t] = r]
    BY <2>1 DEF Sweep
  <2>5. at[t] = "after" => After(at[t]) = "judge"
    BY DEF After
  <2> QED
    BY <1>2, <2>1, <2>2, <2>3, <2>4, <2>5 DEF TypeOK, Sweeping
<1>4. ASSUME NEW t \in Threads, GpuSample(t) \/ GpuSampleFails(t) PROVE AskedAreIdle'
  BY <1>2, <1>4 DEF GpuSample, GpuSampleFails, Sampled, Goto, TypeOK
<1>5. CASE StartSampler \/ WorkloadOver \/ Summary \/ NotIdleInTime \/ EnterFails \/ WakeSampler
           \/ Join \/ SamplerStops
  BY <1>2, <1>5 DEF StartSampler, WorkloadOver, Summary, NotIdleInTime, EnterFails, WakeSampler,
       Join, Ended, SamplerStops, Goto, TypeOK, Final
<1>6. CASE World \/ UNCHANGED vars
  BY <1>2, <1>6 DEF World, Memory, Tick, Preempt, Schedule, Crash, Restarted, vars
<1>7. QED
  BY <1>1, <1>3, <1>4, <1>5, <1>6 DEF Next, Main, Sampler, Reading, Sampling

(* The workload is measured on backends that hold nothing of the requests   *)
(* before it, however many there are and in whatever order they are asked.  *)
THEOREM OnlyIdleIsMeasured == Spec => []MeasuredOnIdle
<1>1. Init => AskedAreIdle
  BY DEF Init, AskedAreIdle, MeasuredOnIdle, Measuring, Threads
<1>2. TypeOK /\ AskedAreIdle /\ [Next]_vars => AskedAreIdle'
  BY IdleStep
<1>3. AskedAreIdle => MeasuredOnIdle
  BY DEF AskedAreIdle
<1>4. QED
  BY <1>1, <1>2, <1>3, TypeCorrect, PTL DEF Spec

-----------------------------------------------------------------------------
(* What is behind PassedClean. A verdict is bound to fail once something    *)
(* could not be read, or two samples are further apart than the gap. Until  *)
(* then each backend is read at least once between any two samples, and a   *)
(* server that stopped answering is up again only after two gaps and the    *)
(* last reading: so none restarts between __enter__'s sample and the last   *)
(* reading, and the counters only grow.                                     *)

Doomed == errors \/ wide \/ (at["main"] \in Measuring /\ since > Gap)

\* Where the two threads can be, and what they have still to read there.
Places ==
    /\ at["main"] \in {"idle", "before", "after", "judge"} \cup Measuring \cup Final
    /\ at["sampler"] \in {"none", "wait", "read", "gpu", "over"}
    /\ at["main"] \in {"idle", "before", "read", "gpu"} => at["sampler"] = "none"
    /\ at["main"] \in {"gpu", "work", "join"} => unread["main"] = Backends
    /\ at["sampler"] \in {"none", "wait", "gpu"} => unread["sampler"] = Backends
    /\ at["main"] \in {"after", "judge"} => errors \/ at["sampler"] = "over"
    /\ at["main"] = "after" => since <= AfterTime

\* The memory has been low for no longer than the time since a sample.
Headroom ==
    /\ ~low => lowFor = 0
    /\ at["main"] \in {"idle", "before"} => lowFor = 0 /\ ~starved
    /\ at["main"] \in Measuring =>
           short \/ wide \/ (lowFor <= since /\ (starved => since > Gap))
    /\ at["main"] \in {"after", "judge"} => (starved => short \/ wide)

\* b has been read by __enter__'s sample, and not yet for the last time.
Followed(b) == \/ at["main"] \in {"gpu", "work", "join"}
               \/ at["main"] = "read" /\ b \notin unread["main"]
               \/ at["main"] = "after" /\ b \in unread["main"]

\* b has been read since the last sample.
JustRead(b) == \/ at["main"] \in {"read", "gpu"}
               \/ at["sampler"] = "gpu"
               \/ at["sampler"] = "read" /\ b \notin unread["sampler"]

\* The longest b can have been down without being found so.
Unnoticed(b) == since + (IF at["main"] = "after" THEN 2 * Gap
                         ELSE IF JustRead(b) THEN 0 ELSE Gap)

NotMissed(b) == Followed(b) => startup[b] <= Unnoticed(b) + 1 /\ last[b] <= count[b]

Following ==
    /\ errors \/ \A b \in Backends : before[b] <= last[b]
    /\ Doomed \/ \A b \in Backends : NotMissed(b)

\* The count summary() gets to see: the last reading, once it is made.
Latest(b) == IF at["main"] = "judge" \/ (at["main"] = "after" /\ b \notin unread["main"])
             THEN after[b] ELSE count[b]

\* A preemption of the workload is in a counter, to be read or already read.
Counted ==
    /\ at["main"] \in {"idle", "before", "read", "gpu"} => ~preempted
    /\ at["main"] \in {"work", "join", "after", "judge"} /\ preempted =>
           Doomed \/ \E b \in Backends : before[b] < Latest(b)

Judged == Places /\ Headroom /\ Following /\ Counted /\ PassedClean

(* What a read does to the two threads.                                     *)
LEMMA MainReads ==
    ASSUME TypeOK, NEW b \in Backends, Sweeping("main", b), Sweep("main", b)
    PROVE  /\ at'["sampler"] = at["sampler"] /\ unread'["sampler"] = unread["sampler"]
           /\ \/ /\ at'["main"] = at["main"] /\ since' = since
                 /\ unread'["main"] = unread["main"] \ {b}
              \/ /\ unread["main"] = {b} /\ unread'["main"] = Backends
                 /\ \/ at["main"] = "before" /\ at'["main"] = "read" /\ since' = 0
                    \/ at["main"] = "read" /\ at'["main"] = "gpu" /\ since' = since
                    \/ at["main"] = "after" /\ at'["main"] = "judge" /\ since' = since
<1>1. at["main"] \in {"before", "read", "after"}
  BY DEF Sweeping
<1>2. /\ at["main"] = "before" => After(at["main"]) = "read"
      /\ at["main"] = "read" => After(at["main"]) = "gpu"
      /\ at["main"] = "after" => After(at["main"]) = "judge"
  BY DEF After
<1>3. CASE unread["main"] = {b}
  BY <1>1, <1>2, <1>3 DEF Sweep, Goto, TypeOK, Threads
<1>4. CASE unread["main"] # {b}
  BY <1>1, <1>4 DEF Sweep, Goto, TypeOK, Threads
<1>5. QED
  BY <1>3, <1>4

LEMMA SamplerReads ==
    ASSUME TypeOK, Places, NEW b \in Backends, Sweeping("sampler", b), Sweep("sampler", b)
    PROVE  /\ at'["main"] = at["main"] /\ unread'["main"] = unread["main"] /\ since' = since
           /\ at["sampler"] = "read"
           /\ \/ at'["sampler"] = "read" /\ unread'["sampler"] = unread["sampler"] \ {b}
              \/ /\ at'["sampler"] = "gpu" /\ unread'["sampler"] = Backends
                 /\ unread["sampler"] = {b}
<1>1. at["sampler"] = "read"
  BY DEF Sweeping, Places
<1>2. After(at["sampler"]) = "gpu"
  BY <1>1 DEF After
<1>3. CASE unread["sampler"] = {b}
  BY <1>1, <1>2, <1>3 DEF Sweep, Goto, TypeOK, Threads
<1>4. CASE unread["sampler"] # {b}
  BY <1>1, <1>4 DEF Sweep, Goto, TypeOK, Threads
<1>5. QED
  BY <1>3, <1>4

LEMMA PlacesStep == ASSUME TypeOK, Places, [Next]_vars PROVE Places'
<1> USE DEF Places, Threads, Measuring, Final
<1>1. ASSUME NEW b \in Backends, ReadMetrics("main", b) \/ ReadFails("main", b)
      PROVE  Places'
  <2>1. (errors => errors') /\ Sweeping("main", b) /\ Sweep("main", b)
    BY <1>1 DEF ReadMetrics, ReadFails, TypeOK
  <2> QED
    BY <2>1, MainReads DEF Sweeping
<1>2. ASSUME NEW b \in Backends, ReadMetrics("sampler", b) \/ ReadFails("sampler", b)
      PROVE  Places'
  <2>1. errors => errors'
    BY <1>2 DEF ReadMetrics, ReadFails, TypeOK
  <2> QED
    BY <1>2, <2>1, SamplerReads DEF ReadMetrics, ReadFails, TypeOK
<1>3. ASSUME NEW t \in Threads, GpuSample(t) \/ GpuSampleFails(t) PROVE Places'
  BY <1>3, TelemetryAssumption
     DEF GpuSample, GpuSampleFails, Sampled, Goto, TypeOK, clock, server, gpu
<1>4. ASSUME NEW b \in Backends, Poll(b) PROVE Places'
  <2>1. /\ at'["sampler"] = at["sampler"] /\ unread'["sampler"] = unread["sampler"]
        /\ at'["main"] \in {"idle", "before"} /\ at["main"] = "idle"
    BY <1>4 DEF Poll, Goto, TypeOK
  <2> QED
    BY <2>1
<1>5. CASE StartSampler \/ WorkloadOver \/ Summary \/ NotIdleInTime \/ EnterFails
  BY <1>5 DEF StartSampler, WorkloadOver, Summary, NotIdleInTime, EnterFails, Goto, TypeOK,
     record, clock, Finished
<1>6. CASE WakeSampler \/ SamplerStops
  BY <1>6 DEF WakeSampler, SamplerStops, Goto, TypeOK, record, clock, Finished
<1>7. CASE Join
  <2>1. /\ at["main"] = "join" /\ at'["main"] = "after" /\ since' = 0
        /\ at'["sampler"] = at["sampler"] /\ unread' = unread
    BY <1>7 DEF Join, Ended, Goto, TypeOK
  <2>2. errors' \/ at["sampler"] = "over"
    BY <1>7 DEF Join
  <2> QED
    BY <2>1, <2>2, TelemetryAssumption
<1>8. CASE Tick
  BY <1>8, TelemetryAssumption DEF Tick, TypeOK, record
<1>9. CASE Memory \/ UNCHANGED vars
  BY <1>9 DEF Memory, vars, record, clock
<1>10. ASSUME NEW b \in Backends, Preempt(b) \/ Schedule(b) \/ Crash(b) \/ Restarted(b)
       PROVE  Places'
  BY <1>10 DEF Preempt, Schedule, Crash, Restarted, record, clock
<1>11. QED
  BY <1>1, <1>2, <1>3, <1>4, <1>5, <1>6, <1>7, <1>8, <1>9, <1>10
     DEF Next, Main, Sampler, World, Reading, Sampling

LEMMA HeadroomStep == ASSUME TypeOK, Places, Headroom, [Next]_vars PROVE Headroom'
<1> USE DEF Headroom, Threads, Measuring, Final
<1>1. ASSUME NEW b \in Backends, ReadMetrics("main", b) \/ ReadFails("main", b)
      PROVE  Headroom'
  <2>1. UNCHANGED <<low, lowFor, starved, short, wide>> /\ Sweeping("main", b) /\ Sweep("main", b)
    BY <1>1 DEF ReadMetrics, ReadFails, gpu
  <2> QED
    BY <2>1, MainReads
<1>2. ASSUME NEW b \in Backends, ReadMetrics("sampler", b) \/ ReadFails("sampler", b)
      PROVE  Headroom'
  <2>1. /\ UNCHANGED <<low, lowFor, starved, short, wide>>
        /\ Sweeping("sampler", b) /\ Sweep("sampler", b)
    BY <1>2 DEF ReadMetrics, ReadFails, gpu
  <2> QED
    BY <2>1, SamplerReads
<1>3. ASSUME NEW t \in Threads, GpuSample(t) PROVE Headroom'
  BY <1>3, TelemetryAssumption DEF GpuSample, Sampled, Goto, TypeOK, Places, server, gpu
<1>4. ASSUME NEW t \in Threads, GpuSampleFails(t) PROVE Headroom'
  BY <1>4 DEF GpuSampleFails, Sampled, Goto, TypeOK, Places, clock, server, gpu
<1>5. ASSUME NEW b \in Backends, Poll(b) PROVE Headroom'
  <2>1. /\ at'["main"] \in {"idle", "before"} /\ at["main"] = "idle"
        /\ UNCHANGED <<low, lowFor, starved>>
    BY <1>5 DEF Poll, Goto, TypeOK, gpu
  <2> QED
    BY <2>1
<1>6. CASE StartSampler \/ WorkloadOver \/ Summary \/ NotIdleInTime \/ EnterFails
           \/ WakeSampler \/ SamplerStops
  BY <1>6 DEF StartSampler, WorkloadOver, Summary, NotIdleInTime, EnterFails, WakeSampler,
     SamplerStops, Goto, TypeOK, record, clock, gpu
<1>7. CASE Join
  BY <1>7 DEF Join, Ended, Goto, TypeOK, gpu
<1>8. CASE Tick
  BY <1>8, TelemetryAssumption DEF Tick, AtMost, TypeOK, record
<1>9. CASE Memory
  BY <1>9, TelemetryAssumption DEF Memory, TypeOK, record, clock
<1>10. ASSUME NEW b \in Backends, Preempt(b) \/ Schedule(b) \/ Crash(b) \/ Restarted(b)
       PROVE  Headroom'
  BY <1>10 DEF Preempt, Schedule, Crash, Restarted, record, clock, gpu
<1>11. CASE UNCHANGED vars
  BY <1>11 DEF vars, record, clock, gpu
<1>12. QED
  BY <1>1, <1>2, <1>3, <1>4, <1>5, <1>6, <1>7, <1>8, <1>9, <1>10, <1>11
     DEF Next, Main, Sampler, World, Reading, Sampling

(* What is bound to fail stays so, or has failed.                           *)
LEMMA DoomedStays ==
    ASSUME TypeOK, Places, [Next]_vars, Doomed
    PROVE  Doomed' \/ at'["main"] = "failed"
<1> USE DEF Threads, Measuring, Final
<1>1. (errors => errors') /\ (wide => wide')
  BY DEF Next, Main, Sampler, World, Reading, Sampling, ReadMetrics, ReadFails,
     GpuSample, GpuSampleFails, Poll, StartSampler, WorkloadOver, Summary, NotIdleInTime,
     EnterFails, WakeSampler, Join, Ended, SamplerStops, Memory, Tick, Preempt, Schedule, Crash,
     Restarted, record, clock, vars, TypeOK
<1>2. ASSUME at["main"] \in Measuring, since > Gap
      PROVE  Doomed' \/ at'["main"] = "failed"
  <2>1. ASSUME NEW b \in Backends, ReadMetrics("main", b) \/ ReadFails("main", b)
        PROVE  at'["main"] \in Measuring /\ since' > Gap
    <3>1. Sweeping("main", b) /\ Sweep("main", b)
      BY <2>1 DEF ReadMetrics, ReadFails
    <3> QED
      BY <1>2, <3>1, MainReads
  <2>2. ASSUME NEW b \in Backends, ReadMetrics("sampler", b) \/ ReadFails("sampler", b)
        PROVE  at'["main"] \in Measuring /\ since' > Gap
    <3>1. Sweeping("sampler", b) /\ Sweep("sampler", b)
      BY <2>2 DEF ReadMetrics, ReadFails
    <3> QED
      BY <1>2, <3>1, SamplerReads
  <2>3. ASSUME NEW t \in Threads, GpuSample(t) \/ Join PROVE wide'
    BY <1>2, <2>3 DEF GpuSample, Join, Ended
  <2>4. CASE EnterFails
    BY <2>4 DEF EnterFails, Goto, TypeOK
  <2>5. ASSUME NEW t \in Threads, GpuSampleFails(t) PROVE at'["main"] \in Measuring /\ since' > Gap
    BY <1>2, <2>5 DEF GpuSampleFails, Sampled, Goto, TypeOK, clock
  <2>6. CASE StartSampler \/ WorkloadOver \/ WakeSampler \/ SamplerStops
    BY <1>2, <2>6 DEF StartSampler, WorkloadOver, WakeSampler, SamplerStops, Goto, TypeOK, clock, Doomed
  <2>7. CASE Tick
    <3>1. since' > Gap
      BY <1>2, <2>7, TelemetryAssumption DEF Tick, AtMost, TypeOK
    <3> QED
      BY <1>2, <2>7, <3>1 DEF Tick, Doomed
  <2>8. CASE Memory \/ UNCHANGED vars \/ (\E b \in Backends :
                 Preempt(b) \/ Schedule(b) \/ Crash(b) \/ Restarted(b))
    BY <1>2, <2>8 DEF Memory, Preempt, Schedule, Crash, Restarted, vars, clock, Doomed
  <2>9. ~(Summary \/ NotIdleInTime \/ (\E b \in Backends : Poll(b)))
    BY <1>2 DEF Summary, NotIdleInTime, Poll
  <2>10. QED
    BY <2>1, <2>2, <2>3, <2>4, <2>5, <2>6, <2>7, <2>8, <2>9
       DEF Next, Main, Sampler, World, Reading, Sampling, Doomed
<1>3. CASE errors \/ wide
  BY <1>1, <1>3, Zenon DEF Doomed
<1>4. QED
  BY <1>2, <1>3 DEF Doomed

LEMMA Numbers ==
    ASSUME TypeOK, NEW b \in Backends
    PROVE  /\ since \in Int /\ since >= 0 /\ startup[b] \in Int /\ startup[b] >= 0
           /\ {last[b], before[b], after[b], count[b]} \subseteq Int
           /\ last[b] >= None /\ count[b] >= 0
BY TelemetryAssumption DEF TypeOK, Counts, None

(* No counter is read to have gone back, unless that is an error.           *)
LEMMA ReadsGrow ==
    ASSUME TypeOK, Places, [Next]_vars, errors \/ \A b \in Backends : before[b] <= last[b]
    PROVE  (errors \/ \A b \in Backends : before[b] <= last[b])'
<1>1. ASSUME NEW t \in Threads, NEW b \in Backends, ReadMetrics(t, b), ~errors',
             NEW c \in Backends
      PROVE  before'[c] <= last'[c]
  <2>1. ~errors /\ (last[b] = None \/ ~(count[b] < last[b]))
    BY <1>1 DEF ReadMetrics
  <2>2. before[c] <= last[c]
    BY <2>1
  <2>3. last' = [last EXCEPT ![b] = count[b]]
    BY <1>1 DEF ReadMetrics
  <2>4. before' = before \/ before' = [before EXCEPT ![b] = count[b]]
    BY <1>1 DEF ReadMetrics
  <2>5. last[b] <= count[b]
    BY <2>1, Numbers DEF None
  <2> QED
    BY <2>2, <2>3, <2>4, <2>5, Numbers DEF TypeOK
<1>2. CASE errors' \/ (UNCHANGED <<before, last>> /\ (errors => errors'))
  BY <1>2
<1>3. \/ \E t \in Threads, b \in Backends : ReadMetrics(t, b)
      \/ errors' \/ (UNCHANGED <<before, last>> /\ (errors => errors'))
  BY DEF Next, Main, Sampler, World, Reading, Sampling, ReadFails, GpuSample, GpuSampleFails, Poll,
     StartSampler, WorkloadOver, Summary, NotIdleInTime, EnterFails, WakeSampler, Join, Ended,
     SamplerStops, Memory, Tick, Preempt, Schedule, Crash, Restarted, record, vars, Threads
<1>4. QED
  BY <1>1, <1>2, <1>3

(* Between __enter__'s sample and the last reading no server is up again.   *)
LEMMA NoRestart ==
    ASSUME TypeOK, Places, ~Doomed, NEW b \in Backends, Followed(b), NotMissed(b)
    PROVE  startup[b] < Startup + 1
<1>1. CASE at["main"] = "after"
  <2>1. since <= AfterTime /\ startup[b] <= since + 2 * Gap + 1
    BY <1>1 DEF Places, NotMissed, Unnoticed
  <2> QED
    BY <2>1, TelemetryAssumption, Numbers
<1>2. CASE at["main"] # "after"
  <2>1. since <= Gap
    BY <1>2, TelemetryAssumption, Numbers DEF Doomed, Followed, Measuring
  <2>2. startup[b] <= since + 1 \/ startup[b] <= since + Gap + 1
    BY <1>2, Numbers DEF NotMissed, Unnoticed
  <2> QED
    BY <2>1, <2>2, TelemetryAssumption, Numbers
<1>3. QED
  BY <1>1, <1>2

(* Each step leaves a backend followed as it was, or follows it anew.       *)
LEMMA NotMissedStep ==
    ASSUME TypeOK, Places, ~Doomed, [Next]_vars,
           NEW c \in Backends, NotMissed(c), Followed(c)'
    PROVE  Doomed' \/ NotMissed(c)'
<1> USE DEF NotMissed, Threads
<1>1. ASSUME NEW b \in Backends, ReadMetrics("main", b) PROVE NotMissed(c)'
  <2>1. /\ Sweeping("main", b) /\ Sweep("main", b) /\ UNCHANGED <<count, startup>>
        /\ startup[b] = 0 /\ last' = [last EXCEPT ![b] = count[b]]
    BY <1>1 DEF ReadMetrics, server
  <2>2. CASE c = b
    <3>1. since' \in Int /\ since' >= 0
      BY <2>1, MainReads, Numbers
    <3>2. Unnoticed(c)' \in Int /\ Unnoticed(c)' >= 0
      <4>1. Unnoticed(c)' \in {since' + 2 * Gap, since' + 0, since' + Gap}
        BY Zenon DEF Unnoticed
      <4> QED
        BY <3>1, <4>1, TelemetryAssumption
    <3>3. last'[c] = count[c]
      BY <2>1, <2>2 DEF TypeOK
    <3> QED
      BY <2>1, <2>2, <3>2, <3>3, Numbers
  <2>3. CASE c # b
    <3>1. Followed(c) /\ since' = since /\ (JustRead(c) <=> JustRead(c)')
          /\ (at["main"] = "after" <=> at'["main"] = "after")
      BY <2>1, <2>3, MainReads, Zenon DEF Followed, JustRead, Sweeping
    <3> QED
      BY <2>1, <2>3, <3>1 DEF Unnoticed, TypeOK
  <2> QED
    BY <2>2, <2>3
<1>2. ASSUME NEW b \in Backends, ReadMetrics("sampler", b) PROVE NotMissed(c)'
  <2>1. /\ Sweeping("sampler", b) /\ Sweep("sampler", b) /\ UNCHANGED <<count, startup>>
        /\ startup[b] = 0 /\ last' = [last EXCEPT ![b] = count[b]]
    BY <1>2 DEF ReadMetrics, server
  <2>2. CASE c = b
    <3>1. since' \in Int /\ since' >= 0
      BY <2>1, SamplerReads, Numbers
    <3>2. Unnoticed(c)' \in Int /\ Unnoticed(c)' >= 0
      <4>1. Unnoticed(c)' \in {since' + 2 * Gap, since' + 0, since' + Gap}
        BY Zenon DEF Unnoticed
      <4> QED
        BY <3>1, <4>1, TelemetryAssumption
    <3>3. last'[c] = count[c]
      BY <2>1, <2>2 DEF TypeOK
    <3> QED
      BY <2>1, <2>2, <3>2, <3>3, Numbers
  <2>3. CASE c # b
    <3>1. Followed(c) /\ since' = since /\ (JustRead(c)' => JustRead(c))
          /\ at'["main"] = at["main"]
      BY <2>1, <2>3, SamplerReads DEF Followed, JustRead
    <3> QED
      BY <2>1, <2>3, <3>1, TelemetryAssumption, Numbers DEF Unnoticed, TypeOK
  <2> QED
    BY <2>2, <2>3
<1>3. ASSUME NEW t \in Threads,
             GpuSampleFails(t) \/ SamplerStops \/ \E b \in Backends : ReadFails(t, b)
      PROVE  Doomed'
  BY <1>3 DEF GpuSampleFails, SamplerStops, ReadFails, Doomed
<1>4. ASSUME NEW t \in Threads, GpuSample(t) PROVE NotMissed(c)'
  <2>1. UNCHANGED <<unread, startup, last, count>> /\ since' = 0 /\ at[t] = "gpu" /\ Sampled(t)
    BY <1>4 DEF GpuSample, server
  <2>2. at'["main"] \in {"work", "join"} /\ at["main"] \in {"gpu", "work", "join"}
    BY <2>1 DEF Followed, Sampled, Goto, TypeOK, Places, Doomed
  <2>3. Followed(c) /\ JustRead(c) /\ ~JustRead(c)'
    BY <2>1, <2>2 DEF Followed, JustRead, Sampled, Goto, TypeOK, Places
  <2>4. since <= Gap
    BY <2>2, TelemetryAssumption, Numbers DEF Doomed, Measuring
  <2>5. startup[c] <= since + 1 /\ last[c] <= count[c]
    BY <2>2, <2>3, Numbers DEF Unnoticed
  <2>6. Unnoticed(c)' = Gap
    BY <2>1, <2>2, <2>3, TelemetryAssumption DEF Unnoticed
  <2> QED
    BY <2>1, <2>4, <2>5, <2>6, TelemetryAssumption, Numbers
<1>5. CASE StartSampler \/ WorkloadOver \/ WakeSampler
  <2>1. UNCHANGED <<unread, startup, last, count, since>>
    BY <1>5 DEF StartSampler, WorkloadOver, WakeSampler, record, clock, server
  <2>2. Followed(c) /\ (JustRead(c)' => JustRead(c))
        /\ (at["main"] = "after" <=> at'["main"] = "after")
    BY <1>5, <2>1 DEF StartSampler, WorkloadOver, WakeSampler, Goto, TypeOK, Places, Followed,
       JustRead
  <2> QED
    BY <2>1, <2>2, TelemetryAssumption, Numbers DEF Unnoticed
<1>6. CASE Join
  <2>1. /\ UNCHANGED <<unread, startup, last, count>> /\ since' = 0
        /\ at["main"] = "join" /\ at'["main"] = "after"
    BY <1>6 DEF Join, Ended, Goto, TypeOK, server
  <2>2. since <= Gap
    BY <2>1, TelemetryAssumption, Numbers DEF Doomed, Measuring
  <2>3. (startup[c] <= since + 1 \/ startup[c] <= since + Gap + 1) /\ last[c] <= count[c]
    BY <2>1, Numbers DEF Unnoticed, Followed
  <2> QED
    BY <2>1, <2>2, <2>3, TelemetryAssumption, Numbers DEF Unnoticed
<1>7. CASE Tick
  <2>1. UNCHANGED <<at, unread, last, count>>
    BY <1>7 DEF Tick, record
  <2>2. Followed(c) /\ (JustRead(c)' <=> JustRead(c))
    BY <2>1 DEF Followed, JustRead
  <2>3. startup'[c] <= startup[c] + 1 \/ startup'[c] = 0
    BY <1>7, TelemetryAssumption, Numbers DEF Tick, AtMost
  <2>4. since' = since + 1
    <3>1. CASE at["main"] = "after"
      BY <1>7, <3>1 DEF Tick
    <3>2. CASE at["main"] # "after"
      <4>1. since <= Gap
        BY <2>2, <3>2, TelemetryAssumption, Numbers DEF Doomed, Followed, Measuring
      <4> QED
        BY <1>7, <3>2, <4>1, TelemetryAssumption, Numbers DEF Tick, AtMost
    <3> QED
      BY <3>1, <3>2
  <2>5. Unnoticed(c)' = Unnoticed(c) + 1 /\ Unnoticed(c) \in Int /\ Unnoticed(c) >= 0
    BY <2>1, <2>2, <2>4, TelemetryAssumption, Numbers DEF Unnoticed
  <2>6. startup'[c] \in Int
    BY <1>7, TelemetryAssumption, Numbers DEF Tick, AtMost
  <2> QED
    BY <2>1, <2>2, <2>3, <2>5, <2>6, Numbers
<1>8. ASSUME NEW b \in Backends, Preempt(b) \/ Schedule(b) \/ Crash(b) \/ Restarted(b)
      PROVE  NotMissed(c)'
  <2>1. UNCHANGED <<at, unread, last, since>> /\ Followed(c)
    BY <1>8 DEF Preempt, Schedule, Crash, Restarted, record, clock, Followed
  <2>2. Unnoticed(c)' = Unnoticed(c) /\ Unnoticed(c) \in Int /\ Unnoticed(c) >= 0
    BY <2>1, TelemetryAssumption, Numbers DEF Unnoticed, JustRead
  <2>3. CASE Preempt(b)
    <3>1. count'[c] >= count[c] /\ startup' = startup
      BY <2>3, Numbers DEF Preempt, TypeOK
    <3>2. count'[c] \in Int
      BY <2>3, Numbers DEF Preempt, TypeOK
    <3> QED
      BY <2>1, <2>2, <3>1, <3>2, Numbers
  <2>4. CASE Schedule(b)
    BY <2>1, <2>2, <2>4 DEF Schedule
  <2>5. CASE Crash(b)
    <3>1. startup'[c] \in {1, startup[c]} /\ count' = count
      BY <2>5 DEF Crash, TypeOK
    <3> QED
      BY <2>1, <2>2, <3>1, Numbers
  <2>6. CASE Restarted(b)
    <3>1. b # c
      BY <2>1, <2>6, NoRestart, Numbers, TelemetryAssumption DEF Restarted
    <3> QED
      BY <2>1, <2>2, <2>6, <3>1 DEF Restarted, TypeOK
  <2> QED
    BY <1>8, <2>3, <2>4, <2>5, <2>6
<1>9. CASE Memory \/ UNCHANGED vars
  <2>1. UNCHANGED <<at, unread, last, since, count, startup>> /\ Followed(c)
    BY <1>9 DEF Memory, vars, record, clock, server, Followed
  <2> QED
    BY <2>1 DEF Unnoticed, JustRead
<1>10. ~(Summary \/ NotIdleInTime \/ EnterFails \/ (\E b \in Backends : Poll(b)))
  BY DEF Summary, NotIdleInTime, EnterFails, Poll, Goto, TypeOK, Followed
<1>11. QED
  BY <1>1, <1>2, <1>3, <1>4, <1>5, <1>6, <1>7, <1>8, <1>9, <1>10
     DEF Next, Main, Sampler, World, Reading, Sampling

LEMMA FollowingStep ==
    ASSUME TypeOK, Places, Following, [Next]_vars PROVE Following'
<1>1. (errors \/ \A b \in Backends : before[b] <= last[b])'
  BY ReadsGrow DEF Following
<1>2. CASE Doomed
  <2>1. Doomed' \/ at'["main"] = "failed"
    BY <1>2, DoomedStays
  <2>2. at'["main"] = "failed" => \A b \in Backends : NotMissed(b)'
    BY DEF NotMissed, Followed
  <2> QED
    BY <1>1, <2>1, <2>2 DEF Following
<1>3. CASE ~Doomed
  <2>1. \A b \in Backends : Doomed' \/ NotMissed(b)'
    <3> SUFFICES ASSUME NEW b \in Backends PROVE Doomed' \/ NotMissed(b)'
      OBVIOUS
    <3>1. NotMissed(b)
      BY <1>3 DEF Following
    <3>2. CASE Followed(b)'
      BY <1>3, <3>1, <3>2, NotMissedStep
    <3>3. CASE ~Followed(b)'
      BY <3>3 DEF NotMissed
    <3> QED
      BY <3>2, <3>3
  <2> QED
    BY <1>1, <2>1 DEF Following
<1>4. QED
  BY <1>2, <1>3

(* What summary() gets to see of a counter only grows, from the workload on.*)
LEMMA LatestGrows ==
    ASSUME TypeOK, Places, Following, ~Doomed, ~Doomed', [Next]_vars, NEW c \in Backends,
           at["main"] \in {"work", "join", "after", "judge"},
           at'["main"] \in {"work", "join", "after", "judge"}
    PROVE  before'[c] = before[c] /\ Latest(c)' >= Latest(c)
<1> USE DEF Threads
<1> DEFINE Read == at["main"] = "judge" \/ (at["main"] = "after" /\ c \notin unread["main"])
<1>a. Latest(c) \in Int
  BY Numbers, Zenon DEF Latest
<1>1. ASSUME NEW b \in Backends, ReadMetrics("main", b)
      PROVE  before' = before /\ Latest(c)' = Latest(c)
  <2>1. /\ Sweeping("main", b) /\ Sweep("main", b) /\ at["main"] = "after"
        /\ before' = before /\ count' = count /\ after' = [after EXCEPT ![b] = count[b]]
    BY <1>1 DEF ReadMetrics, Sweeping, server
  <2>2. b \in unread["main"]
    BY <2>1 DEF Sweeping
  <2>3. CASE c = b
    <3>1. Latest(c) = count[b] /\ Read'
      BY <2>1, <2>2, <2>3, MainReads DEF Latest
    <3> QED
      BY <2>1, <2>3, <3>1 DEF Latest, TypeOK
  <2>4. CASE c # b
    <3>1. (Read <=> Read') /\ after'[c] = after[c]
      BY <2>1, <2>4, MainReads DEF TypeOK
    <3> QED
      BY <2>1, <3>1 DEF Latest
  <2> QED
    BY <2>1, <2>3, <2>4
<1>2. ASSUME NEW b \in Backends, ReadMetrics("sampler", b)
      PROVE  before' = before /\ Latest(c)' = Latest(c)
  <2>1. /\ Sweeping("sampler", b) /\ Sweep("sampler", b) /\ count' = count
    BY <1>2 DEF ReadMetrics, server
  <2>2. /\ at["sampler"] = "read" /\ at'["main"] = at["main"]
        /\ unread'["main"] = unread["main"]
    BY <2>1, SamplerReads
  <2>3. before' = before /\ after' = after
    BY <1>2, <2>2 DEF ReadMetrics
  <2> QED
    BY <2>1, <2>2, <2>3 DEF Latest
<1>3. ASSUME NEW t \in Threads,
             GpuSampleFails(t) \/ SamplerStops \/ \E b \in Backends : ReadFails(t, b)
      PROVE  FALSE
  BY <1>3 DEF GpuSampleFails, SamplerStops, ReadFails, Doomed
<1>4. ASSUME NEW t \in Threads, GpuSample(t)
      PROVE  before' = before /\ Latest(c)' = Latest(c)
  <2>1. UNCHANGED <<before, after, count, unread>> /\ t = "sampler"
        /\ at'["main"] = at["main"]
    BY <1>4 DEF GpuSample, Sampled, Goto, server, TypeOK
  <2> QED
    BY <2>1 DEF Latest
<1>5. CASE StartSampler \/ WorkloadOver \/ WakeSampler \/ Join
  <2>1. UNCHANGED <<before, after, count, unread>> /\ (Read <=> Read')
    BY <1>5 DEF StartSampler, WorkloadOver, WakeSampler, Join, Ended, Goto, record, server,
       TypeOK, Places
  <2> QED
    BY <1>a, <2>1 DEF Latest
<1>6. ASSUME NEW b \in Backends, Preempt(b) \/ Schedule(b) \/ Crash(b) \/ Restarted(b)
      PROVE  before' = before /\ Latest(c)' >= Latest(c)
  <2>1. UNCHANGED <<at, unread, before, after>> /\ (Read <=> Read')
    BY <1>6 DEF Preempt, Schedule, Crash, Restarted, record
  <2>2. CASE Read
    BY <1>a, <2>1, <2>2 DEF Latest
  <2>3. CASE ~Read
    <3>1. Followed(c) /\ NotMissed(c)
      BY <2>3 DEF Followed, Following
    <3>2. ~(Restarted(b) /\ b = c)
      BY <3>1, NoRestart, Numbers, TelemetryAssumption DEF Restarted
    <3>3. count'[c] >= count[c]
      BY <1>6, <3>2, Numbers DEF Preempt, Schedule, Crash, Restarted, TypeOK
    <3>4. Latest(c) = count[c] /\ Latest(c)' = count'[c]
      BY <2>1, <2>3 DEF Latest
    <3> QED
      BY <2>1, <3>3, <3>4
  <2> QED
    BY <2>2, <2>3
<1>7. CASE Memory \/ Tick \/ UNCHANGED vars
  <2>1. UNCHANGED <<at, unread, before, after, count>>
    BY <1>7 DEF Memory, Tick, vars, record, server
  <2> QED
    BY <1>a, <2>1 DEF Latest
<1>8. ~(Summary \/ NotIdleInTime \/ EnterFails \/ (\E b \in Backends : Poll(b)))
  BY DEF Summary, NotIdleInTime, EnterFails, Poll, Goto, TypeOK
<1>9. QED
  BY <1>a, <1>1, <1>2, <1>3, <1>4, <1>5, <1>6, <1>7, <1>8
     DEF Next, Main, Sampler, World, Reading, Sampling

(* A preemption is counted on a backend that is followed, and its count is  *)
(* then above the first reading.                                            *)
LEMMA PreemptionCounts ==
    ASSUME TypeOK, Following, ~Doomed, at["main"] = "work", NEW b \in Backends, Preempt(b)
    PROVE  before'[b] < Latest(b)'
<1>1. /\ at' = at /\ unread' = unread /\ before' = before
      /\ count'[b] = count[b] + 1
  BY DEF Preempt, record, TypeOK
<1>2. before[b] <= last[b] /\ last[b] <= count[b]
  BY DEF Following, NotMissed, Followed, Doomed
<1>3. Latest(b)' = count'[b]
  BY <1>1 DEF Latest
<1>4. QED
  BY <1>1, <1>2, <1>3, Numbers

(* preempted changes with a preemption of the workload only.                *)
LEMMA PreemptedStep ==
    ASSUME TypeOK, [Next]_vars, preempted' # preempted
    PROVE  at["main"] = "work" /\ \E b \in Backends : Preempt(b)
BY DEF Next, Main, Sampler, World, Reading, Sampling, ReadMetrics, ReadFails, GpuSample,
   GpuSampleFails, Poll, StartSampler, WorkloadOver, Summary, NotIdleInTime, EnterFails, WakeSampler,
   Join, Ended, SamplerStops, Memory, Tick, Preempt, Schedule, Crash, Restarted, vars, TypeOK

(* Where the main thread comes from.                                        *)
LEMMA MainStep ==
    ASSUME TypeOK, Places, [Next]_vars
    PROVE  /\ at'["main"] \in {"idle", "before", "read", "gpu"} =>
                  at["main"] \in {"idle", "before", "read", "gpu"}
           /\ at'["main"] \in {"work", "join", "after", "judge"} =>
                  at["main"] \in {"gpu", "work", "join", "after", "judge"}
           /\ at'["main"] = "passed" => at["main"] = "passed" \/ Summary
<1> USE DEF Threads
<1>1. CASE at'["main"] = at["main"]
  BY <1>1 DEF Places
<1>2. ASSUME NEW b \in Backends, ReadMetrics("main", b) \/ ReadFails("main", b)
      PROVE  /\ at["main"] \in {"before", "read", "after"}
             /\ \/ at'["main"] = at["main"]
                \/ at["main"] = "before" /\ at'["main"] = "read"
                \/ at["main"] = "read" /\ at'["main"] = "gpu"
                \/ at["main"] = "after" /\ at'["main"] = "judge"
  <2>1. Sweeping("main", b) /\ Sweep("main", b)
    BY <1>2 DEF ReadMetrics, ReadFails
  <2> QED
    BY <2>1, MainReads DEF Sweeping
<1>3. ASSUME NEW b \in Backends, ReadMetrics("sampler", b) \/ ReadFails("sampler", b)
      PROVE  at'["main"] = at["main"]
  <2>1. Sweeping("sampler", b) /\ Sweep("sampler", b)
    BY <1>3 DEF ReadMetrics, ReadFails
  <2> QED
    BY <2>1, SamplerReads
<1>4. ASSUME NEW t \in Threads, GpuSample(t) \/ GpuSampleFails(t)
      PROVE  at'["main"] = at["main"] \/ (at["main"] = "gpu" /\ at'["main"] = "work")
  BY <1>4 DEF GpuSample, GpuSampleFails, Sampled, Goto, TypeOK
<1>5. ASSUME NEW b \in Backends, Poll(b)
      PROVE  at["main"] = "idle" /\ at'["main"] \in {"idle", "before"}
  BY <1>5 DEF Poll, Goto, TypeOK
<1>6. CASE StartSampler \/ WorkloadOver \/ Summary \/ NotIdleInTime \/ EnterFails
           \/ WakeSampler \/ SamplerStops \/ Join
  BY <1>6 DEF StartSampler, WorkloadOver, Summary, NotIdleInTime, EnterFails, WakeSampler,
     SamplerStops, Join, Ended, Goto, TypeOK, Places
<1>7. CASE World \/ UNCHANGED vars
  BY <1>1, <1>7 DEF World, Memory, Tick, Preempt, Schedule, Crash, Restarted, vars
<1>8. QED
  BY <1>1, <1>2, <1>3, <1>4, <1>5, <1>6, <1>7 DEF Next, Main, Sampler, Reading, Sampling

LEMMA CountedStep ==
    ASSUME TypeOK, Places, Following, Counted, [Next]_vars PROVE Counted'
<1>1. CASE at'["main"] \in {"idle", "before", "read", "gpu"}
  <2>1. ~preempted
    BY <1>1, MainStep DEF Counted
  <2>2. ~preempted'
    BY <1>1, <2>1, MainStep, PreemptedStep DEF TypeOK
  <2> QED
    BY <1>1, <2>2 DEF Counted
<1>2. ASSUME at'["main"] \in {"work", "join", "after", "judge"}, preempted', ~Doomed'
      PROVE  \E b \in Backends : before'[b] < Latest(b)'
  <2>1. ~Doomed
    BY <1>2, DoomedStays
  <2>2. CASE preempted' # preempted
    BY <2>1, <2>2, PreemptedStep, PreemptionCounts
  <2>3. CASE preempted
    <3>1. at["main"] \in {"work", "join", "after", "judge"}
      BY <1>2, <2>3, MainStep DEF Counted
    <3>2. PICK b \in Backends : before[b] < Latest(b)
      BY <2>1, <2>3, <3>1 DEF Counted
    <3>3. before'[b] = before[b] /\ Latest(b)' >= Latest(b)
      BY <1>2, <2>1, <3>1, LatestGrows
    <3>4. before[b] \in Int /\ Latest(b) \in Int
      BY Numbers, Zenon DEF Latest
    <3>5. Latest(b)' \in Int
      <4>1. {count'[b], after'[b]} \subseteq Int
        BY TypeStep, CountTypes DEF TypeOK
      <4> QED
        BY <4>1, Zenon DEF Latest
    <3> QED
      BY <3>2, <3>3, <3>4, <3>5
  <2> QED
    BY <1>2, <2>2, <2>3
<1>3. QED
  BY <1>1, <1>2 DEF Counted

LEMMA PassedStep ==
    ASSUME TypeOK, Places, Headroom, Counted, PassedClean, [Next]_vars PROVE PassedClean'
<1> USE DEF PassedClean
<1>1. CASE Summary
  <2>1. at["main"] = "judge" /\ UNCHANGED <<preempted, starved>>
    BY <1>1 DEF Summary, gpu
  <2>2. at'["main"] = "passed" => Passes
    BY <1>1 DEF Summary, Goto, TypeOK, Threads
  <2>3. ASSUME Passes PROVE ~preempted
    <3>1. \A b \in Backends : ~(before[b] < Latest(b))
      BY <2>1, <2>3, Numbers DEF Passes, Latest
    <3> QED
      BY <2>1, <2>3, <3>1 DEF Passes, Counted, Doomed, Measuring
  <2>4. ASSUME Passes PROVE ~starved
    BY <2>1, <2>4 DEF Passes, Headroom
  <2> QED
    BY <2>1, <2>2, <2>3, <2>4
<1>2. CASE at'["main"] = "passed" /\ at["main"] = "passed"
  <2>1. ~preempted /\ ~starved
    BY <1>2
  <2>2. ~preempted'
    BY <1>2, <2>1, PreemptedStep DEF TypeOK
  <2>3. starved' = starved
    BY <1>2 DEF Next, Main, Sampler, World, Reading, Sampling, ReadMetrics, ReadFails,
       GpuSample, GpuSampleFails, Poll, StartSampler, WorkloadOver, Summary, NotIdleInTime,
       EnterFails, WakeSampler, Join, Ended, SamplerStops, Memory, Tick, Open, Final, Preempt,
       Schedule, Crash, Restarted, gpu, vars
  <2> QED
    BY <2>1, <2>2, <2>3
<1>3. QED
  BY <1>1, <1>2, MainStep

(* A run that passes the gate had no preemption while the workload ran, and *)
(* its headroom was never lost for longer than the gap: for any number of   *)
(* backends, however the reads, samples, restarts and failures interleave,  *)
(* as long as a server needs longer to start than two gaps and the last     *)
(* reading.                                                                 *)
THEOREM PassedIsClean == Spec => []PassedClean
<1>1. Init => Judged
  <2> SUFFICES ASSUME Init PROVE Judged
    OBVIOUS
  <2>1. Places
    BY DEF Init, Places, Threads
  <2>2. Headroom
    BY DEF Init, Headroom, Threads, Measuring
  <2>3. Following
    BY DEF Init, Following, NotMissed, Followed, Threads, None
  <2>4. Counted /\ PassedClean
    BY DEF Init, Counted, PassedClean, Threads
  <2> QED
    BY <2>1, <2>2, <2>3, <2>4 DEF Judged
<1>2. TypeOK /\ Judged /\ [Next]_vars => Judged'
  BY PlacesStep, HeadroomStep, FollowingStep, CountedStep, PassedStep DEF Judged
<1>3. Judged => PassedClean
  BY DEF Judged
<1>4. QED
  BY <1>1, <1>2, <1>3, TypeCorrect, PTL DEF Spec
=============================================================================
