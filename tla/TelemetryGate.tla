--------------------------- MODULE TelemetryGate ---------------------------
(***************************************************************************)
(* qwen_bench/telemetry.py as evaluate() uses it: wait_idle() after the    *)
(* smoke requests, and then Telemetry around the workload: the main thread *)
(* (__enter__, __exit__, summary) and the sampler (_loop), which read the  *)
(* preemption counters of the backends and the free memory of the GPUs.    *)
(*                                                                         *)
(* Of the counters the preemptions are modelled, of the GPUs the one with  *)
(* the least free memory, and of a sample's times their distance. A server *)
(* that restarts counts from zero; until it is up, nobody can read it.     *)
(***************************************************************************)
EXTENDS Integers

CONSTANTS Backends,
          Gap,          \* max_sample_gap_s, in ticks
          AfterTime,    \* the most the last reading of all counters takes
          Startup,      \* ticks a server needs to start again
          MaxCount      \* bound on a preemption counter

\* A read ends within 5 s; loading the model takes minutes, the gap is 15 s.
ASSUME TelemetryAssumption ==
    /\ {Gap, AfterTime, Startup, MaxCount} \subseteq Nat
    /\ Startup > 2 * Gap + AfterTime

Threads == {"main", "sampler"}
None == -1
Counts == 0 .. MaxCount

VARIABLES
    at,         \* where each thread is
    unread,     \* the backends it has still to read
    last,       \* self.previous_metrics
    before, after,
    errors,     \* is anything in self.errors?
    sampled,    \* self.samples > 0
    short,      \* self.minimum_free_mib is below the floor
    since,      \* ticks since the last of self.sample_times, or of the ends
    wide,       \* some two of them were more than Gap apart
    \* the servers and the GPU
    count,      \* preemptions since the server started
    startup,    \* 0: it is up; n + 1: it has been down for n ticks
    leftover,   \* work of the smoke requests it still holds
    low, lowFor,\* the free memory is below the floor, for that many ticks
    trouble,    \* what may happen to them
    \* history
    preempted,  \* a backend preempted a request of the workload
    starved     \* the memory was low for longer than Gap

record == <<last, before, after, errors, sampled, short>>
clock  == <<since, wide>>
server == <<count, startup, leftover>>
gpu    == <<low, lowFor, starved, trouble>>
vars == <<at, unread, record, clock, server, gpu, preempted>>

Measuring == {"read", "gpu", "work", "join"}
Final     == {"passed", "failed"}

TypeOK ==
    /\ at \in [Threads -> {"idle", "before", "after", "judge", "none", "wait", "over"}
                            \cup Measuring \cup Final]
    /\ unread \in [Threads -> SUBSET Backends]
    /\ {last, before, after} \subseteq [Backends -> Counts \cup {None}]
    /\ count \in [Backends -> Counts]
    /\ startup \in [Backends -> 0 .. Startup + 1]
    /\ leftover \in [Backends -> {"none", "waiting", "running"}]
    /\ since \in 0 .. Gap + 1 \cup 0 .. AfterTime /\ lowFor \in 0 .. Gap + 1
    /\ trouble \in {"servers", "memory"}
    /\ {errors, sampled, short, wide, low, preempted, starved} \subseteq BOOLEAN

Init ==
    /\ at = [t \in Threads |-> IF t = "main" THEN "idle" ELSE "none"]
    /\ unread = [t \in Threads |-> Backends]
    /\ last = [b \in Backends |-> None] /\ before = last /\ after = last
    /\ errors = FALSE /\ sampled = FALSE /\ short = FALSE
    /\ since = 0 /\ wide = FALSE
    /\ count \in [Backends -> Counts]
    /\ startup = [b \in Backends |-> 0]
    /\ leftover \in [Backends -> {"none", "waiting", "running"}]
    /\ trouble \in {"servers", "memory"}   \* bound: one of the two
    /\ low \in {FALSE, trouble = "memory"} /\ lowFor = 0
    /\ preempted = FALSE /\ starved = FALSE

Goto(t, p) == at' = [at EXCEPT ![t] = p]

-----------------------------------------------------------------------------
(* wait_idle()                                                             *)

\* MUTANT of Idle: one of the two gauges.
NotRunning(b) == leftover[b] # "running"

\* num_requests_running and num_requests_waiting
Idle(b) == leftover[b] = "none"

\* An attempt reads one backend after the other and counts if all are idle.
Poll(b) ==
    /\ at["main"] = "idle" /\ b \in unread["main"]
    /\ \/ /\ startup[b] = 0 /\ Idle(b)
          /\ unread' = [unread EXCEPT !["main"] =
                          IF unread["main"] = {b} THEN Backends ELSE @ \ {b}]
          /\ Goto("main", IF unread["main"] = {b} THEN "before" ELSE "idle")
       \/ /\ unread' = [unread EXCEPT !["main"] = Backends]
          /\ UNCHANGED at
    /\ UNCHANGED <<record, clock, server, gpu, preempted>>

NotIdleInTime ==
    /\ at["main"] = "idle"
    /\ Goto("main", "failed")
    /\ UNCHANGED <<unread, record, clock, server, gpu, preempted>>

-----------------------------------------------------------------------------
(* _metrics() and _sample()                                                *)

After(p) == [before |-> "read", read |-> "gpu", after |-> "judge"][p]

\* The last backend of a sweep ends it; `started` follows the first sweep.
Sweep(t, b) ==
    LET p == at[t]
        over == unread[t] = {b}
    IN /\ Goto(t, IF over THEN After(p) ELSE p)
       /\ unread' = [unread EXCEPT ![t] = IF over THEN Backends ELSE @ \ {b}]
       /\ since' = IF over /\ p = "before" THEN 0 ELSE since

Sweeping(t, b) == at[t] \in {"before", "read", "after"} /\ b \in unread[t]

ReadMetrics(t, b) ==
    /\ Sweeping(t, b)
    /\ startup[b] = 0
    /\ errors' = (errors \/ (last[b] # None /\ count[b] < last[b]))
    /\ last' = [last EXCEPT ![b] = count[b]]
    /\ before' = IF at[t] = "before" THEN [before EXCEPT ![b] = count[b]] ELSE before
    /\ after' = IF at[t] = "after" THEN [after EXCEPT ![b] = count[b]] ELSE after
    /\ Sweep(t, b)
    /\ UNCHANGED <<sampled, short, wide, server, gpu, preempted>>

\* MUTANT of ReadFails: a backend that cannot be read is skipped.
ReadSkipped(t, b) ==
    /\ Sweeping(t, b)
    /\ Sweep(t, b)
    /\ UNCHANGED <<record, wide, server, gpu, preempted>>

\* No answer, a timeout, or no preemption counter in it.
ReadFails(t, b) ==
    /\ Sweeping(t, b)
    /\ errors' = TRUE
    /\ Sweep(t, b)
    /\ UNCHANGED <<last, before, after, sampled, short, wide, server, gpu, preempted>>

Sampled(t) == Goto(t, IF t = "main" THEN "work" ELSE "wait")

\* nvidia-smi, the minimum, and the time of the sample.
GpuSample(t) ==
    /\ at[t] = "gpu"
    /\ sampled' = TRUE
    /\ short' = (short \/ low)
    /\ wide' = (wide \/ since > Gap)
    /\ since' = 0
    /\ Sampled(t)
    /\ UNCHANGED <<unread, last, before, after, errors, server, gpu, preempted>>

GpuSampleFails(t) ==
    /\ at[t] = "gpu"
    /\ errors' = TRUE
    /\ Sampled(t)
    /\ UNCHANGED <<unread, last, before, after, sampled, short, clock, server, gpu, preempted>>

\* __enter__() opens the file and writes the first sample itself.
EnterFails ==
    /\ at["main"] \in {"read", "gpu"}
    /\ Goto("main", "failed")
    /\ UNCHANGED <<unread, record, clock, server, gpu, preempted>>

-----------------------------------------------------------------------------
(* _loop() and __exit__()                                                  *)

Finished == at["main"] \notin {"read", "gpu", "work"}

StartSampler ==
    /\ at["main"] = "work" /\ at["sampler"] = "none"
    /\ Goto("sampler", "wait")
    /\ UNCHANGED <<unread, record, clock, server, gpu, preempted>>

WakeSampler ==
    /\ at["sampler"] = "wait"
    /\ Goto("sampler", IF Finished THEN "over" ELSE "read")
    /\ UNCHANGED <<unread, record, clock, server, gpu, preempted>>

\* The file cannot be opened or written.
SamplerStops ==
    /\ at["sampler"] \in {"wait", "gpu"}
    /\ errors' = TRUE
    /\ Goto("sampler", "over")
    /\ UNCHANGED <<unread, last, before, after, sampled, short, clock, server, gpu, preempted>>

WorkloadOver ==
    /\ at["main"] = "work" /\ at["sampler"] # "none"
    /\ Goto("main", "join")
    /\ UNCHANGED <<unread, record, clock, server, gpu, preempted>>

Ended ==
    /\ wide' = (wide \/ since > Gap)
    /\ since' = 0
    /\ Goto("main", "after")

\* MUTANT of Join: without a timeout.
JoinForever ==
    /\ at["main"] = "join"
    /\ at["sampler"] = "over"
    /\ Ended
    /\ UNCHANGED <<unread, record, server, gpu, preempted>>

\* The join() times out on a sampler that is still alive.
Join ==
    /\ at["main"] = "join"
    /\ errors' = (errors \/ at["sampler"] # "over")
    /\ Ended
    /\ UNCHANGED <<unread, last, before, after, sampled, short, server, gpu, preempted>>

-----------------------------------------------------------------------------
(* summary()                                                               *)

Passes ==
    /\ sampled /\ ~short /\ ~wide /\ ~errors
    /\ \A b \in Backends : before[b] # None /\ after[b] = before[b]
    /\ at["sampler"] = "over"

Summary ==
    /\ at["main"] = "judge"
    /\ Goto("main", IF Passes THEN "passed" ELSE "failed")
    /\ UNCHANGED <<unread, record, clock, server, gpu, preempted>>

-----------------------------------------------------------------------------
(* The servers, the GPU and the clock. What they do before the counters    *)
(* are first read is in the initial states, but for the requests that are  *)
(* left over; what they do once the run is bound to fail is left out.      *)

Open == at["main"] \notin {"idle"} \cup Final /\ ~errors /\ ~wide

Preempt(b) ==
    /\ Open /\ trouble = "servers" /\ startup[b] = 0 /\ count[b] < MaxCount
    /\ count' = [count EXCEPT ![b] = @ + 1]
    /\ preempted' = (preempted \/ at["main"] = "work")
    /\ UNCHANGED <<at, unread, record, clock, startup, leftover, gpu>>

\* A request is scheduled, preempted (it waits again), or over.
Schedule(b) ==
    /\ leftover[b] # "none"
    /\ leftover' \in {[leftover EXCEPT ![b] = w] :
                        w \in {"waiting", "running", "none"} \ {leftover[b]}}
    /\ UNCHANGED <<at, unread, record, clock, count, startup, gpu, preempted>>

\* Bound: one at a time.
Crash(b) ==
    /\ Open /\ trouble = "servers" /\ \A c \in Backends : startup[c] = 0
    /\ startup' = [startup EXCEPT ![b] = 1]
    /\ UNCHANGED <<at, unread, record, clock, count, leftover, gpu, preempted>>

Restarted(b) ==
    /\ Open /\ startup[b] = Startup + 1
    /\ startup' = [startup EXCEPT ![b] = 0]
    /\ count' = [count EXCEPT ![b] = 0]
    /\ UNCHANGED <<at, unread, record, clock, leftover, gpu, preempted>>

Memory ==
    /\ Open /\ trouble = "memory" /\ at["main"] \in Measuring
    /\ low' = ~low /\ lowFor' = 0
    /\ UNCHANGED <<at, unread, record, clock, server, starved, trouble, preempted>>

AtMost(n, bound) == IF n < bound THEN n ELSE bound

Tick ==
    /\ Open /\ (at["main"] = "after" => since < AfterTime)
    /\ since' = IF at["main"] = "after" THEN since + 1 ELSE AtMost(since + 1, Gap + 1)
    /\ startup' = [b \in Backends |->
                     IF startup[b] = 0 THEN 0 ELSE AtMost(startup[b] + 1, Startup + 1)]
    /\ lowFor' = IF low /\ at["main"] \in Measuring THEN AtMost(lowFor + 1, Gap + 1) ELSE 0
    /\ starved' = (starved \/ lowFor' > Gap)
    /\ UNCHANGED <<at, unread, record, wide, count, leftover, low, trouble, preempted>>

-----------------------------------------------------------------------------
Reading(t) == \E b \in Backends : ReadMetrics(t, b) \/ ReadFails(t, b)
Sampling(t) == GpuSample(t) \/ GpuSampleFails(t)

Main == (\E b \in Backends : Poll(b)) \/ Reading("main") \/ Sampling("main")
        \/ StartSampler \/ WorkloadOver \/ Join \/ Summary

Sampler == WakeSampler \/ Reading("sampler") \/ Sampling("sampler")

World == Memory \/ Tick
         \/ \E b \in Backends : Preempt(b) \/ Schedule(b) \/ Crash(b) \/ Restarted(b)

Next == Main \/ NotIdleInTime \/ EnterFails \/ Sampler \/ SamplerStops \/ World

Spec == Init /\ [][Next]_vars

\* The main thread runs, wait_idle() meets its deadline and the workload its
\* own. Nothing is asked of the sampler: a write may block it for good.
FairSpec == Spec /\ WF_vars(Main) /\ WF_vars(NotIdleInTime)

-----------------------------------------------------------------------------
(* Properties                                                              *)

\* The workload is measured on servers that hold nothing of the requests
\* before it, although they are asked one after the other (telemetry.py:57-85).
MeasuredOnIdle == at["main"] \in {"before"} \cup Measuring
                      => \A b \in Backends : leftover[b] = "none"

\* A run that passes had no preemption, although a server may have restarted
\* and lost its count: a sample would have met it down, or have been missed.
\* And its headroom was never lost for longer than the gap between two samples
\* (telemetry.py:104-127, 154-159, 199-209).
PassedClean == at["main"] = "passed" => ~preempted /\ ~starved

\* The verdict comes, also when the sampler hangs (telemetry.py:181-187).
VerdictComes == <>(at["main"] \in Final)
=============================================================================
