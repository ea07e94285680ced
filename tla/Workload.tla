------------------------------ MODULE Workload ------------------------------
(***************************************************************************)
(* _run_prompts() of qwen_bench/benchmark.py as evaluate() uses it: a cold *)
(* workload (run_workload) of concurrent long requests, with a short one   *)
(* sent while they decode, and then the follow-up (run_followup_workload)  *)
(* on the same sessions. One thread per request, and the calling thread    *)
(* that waits for them and judges from their timestamps.                   *)
(*                                                                         *)
(* A stream is what _stream() lets the threads see of it: it is answered   *)
(* by some backend, has useful output at least once, and returns a result  *)
(* or fails, at any moment or never.                                       *)
(***************************************************************************)
EXTENDS Integers, FiniteSets

CONSTANTS Longs,      \* the long requests; request 0 is the short one
          Mixed,      \* is there a short one?
          Backends,   \* what X-Qwen-Backend may say
          NoBackend,  \* "no entry in _session_backends", "not answered"
          MaxTime     \* bound: the last reading of the clock

Short == 0
Users == Longs \cup {Short}

ASSUME WorkloadAssumption ==
    /\ Longs \subseteq Nat \ {0} /\ IsFiniteSet(Longs) /\ Longs # {}
    /\ Mixed \in BOOLEAN
    /\ NoBackend \notin Backends
    /\ MaxTime \in Nat \ {0}

VARIABLES
    turn,       \* which workload: "cold" or "followup"
    main,       \* the calling thread
    thread,     \* the thread of each request
    decoding,   \* requests whose event is set
    results,    \* requests with a result
    slow,       \* those whose result did not pass
    failures,   \* is anything in `failures`?
    first, last,\* timestamps of useful output, 0 before any
    now,        \* time.monotonic()
    expected,   \* expected_backend of the request
    served,     \* the backend that answered it
    sessions,   \* self._session_backends
    together,   \* long requests that had output after all of them had begun
    beside      \* ... and after the short one had begun as well

verdict == <<results, slow, failures>>
times   == <<first, last, now>>
history == <<together, beside>>
backend == <<expected, served, sessions>>
vars == <<turn, main, thread, decoding, verdict, times, backend, history>>

Living    == {"barrier", "send", "stream", "decode", "store", "notify"}
Alive     == {u \in Users : thread[u] \in Living}
WithShort == Mixed /\ turn = "cold"

TypeOK ==
    /\ turn \in {"cold", "followup"}
    /\ main \in {"barrier", "wait", "closed", "judge", "passed", "rejected", "broken"}
    /\ thread \in [Users -> Living \cup {"none", "over"}]
    /\ decoding \subseteq Longs
    /\ slow \subseteq Users /\ results \subseteq Users /\ failures \in BOOLEAN
    /\ first \in [Users -> 0 .. MaxTime] /\ last \in [Users -> 0 .. MaxTime]
    /\ now \in 1 .. MaxTime
    /\ {expected, served, sessions} \subseteq [Users -> Backends \cup {NoBackend}]
    /\ together \subseteq Longs /\ beside \subseteq Longs
    /\ ~WithShort => thread[Short] = "none"

Init ==
    /\ turn = "cold"
    /\ main = "barrier"
    /\ thread = [u \in Users |-> IF u = Short THEN "none" ELSE "barrier"]
    /\ decoding = {} /\ results = {} /\ slow = {} /\ failures = FALSE
    /\ first = [u \in Users |-> 0] /\ last = first /\ now = 1
    /\ expected = [u \in Users |-> NoBackend]
    /\ served = expected /\ sessions = expected
    /\ together = {} /\ beside = {}

-----------------------------------------------------------------------------
(* The barrier, of the long requests and the caller                        *)

Released ==
    /\ main = "barrier"
    /\ main' = "wait"
    /\ thread' = [u \in Users |-> IF u \in Longs THEN "send" ELSE thread[u]]
    /\ UNCHANGED <<turn, decoding, verdict, times, backend, history>>

\* A wait() that times out breaks it for everyone; the caller raises.
BarrierBroken ==
    /\ main = "barrier"
    /\ main' = "broken"
    /\ thread' = [u \in Users |-> IF u \in Longs THEN "over" ELSE thread[u]]
    /\ failures' = TRUE
    /\ UNCHANGED <<turn, decoding, results, slow, times, backend, history>>

-----------------------------------------------------------------------------
(* worker()                                                                *)

Run(u, to) == thread' = [thread EXCEPT ![u] = to]

\* MUTANT of Send: the session's backend is not looked up.
SendAnew(u) ==
    /\ thread[u] = "send"
    /\ expected' = [expected EXCEPT ![u] = NoBackend]
    /\ Run(u, "stream")
    /\ UNCHANGED <<turn, main, decoding, verdict, times, served, sessions, history>>

Send(u) ==
    /\ thread[u] = "send"
    /\ expected' = [expected EXCEPT ![u] = sessions[u]]
    /\ Run(u, "stream")
    /\ UNCHANGED <<turn, main, decoding, verdict, times, served, sessions, history>>

\* The answer names a backend; another one than expected is an error.
Answered(u, b) ==
    /\ thread[u] = "stream" /\ served[u] = NoBackend
    /\ expected[u] \in {NoBackend, b}
    /\ served' = [served EXCEPT ![u] = b]
    /\ UNCHANGED <<turn, main, thread, decoding, verdict, times, expected,
                   sessions, history>>

Begun(v) == first[v] # 0 /\ first[v] < now

\* Useful output of u, and what it says of the requests together.
Output(u) ==
    /\ last' = [last EXCEPT ![u] = now]
    /\ together' = IF u \in Longs /\ \A v \in Longs : Begun(v)
                   THEN together \cup {u} ELSE together
    /\ beside' = IF u \in Longs /\ Begun(Short) THEN beside \cup {u} ELSE beside

\* The first output, which sets the event of a long request.
FirstOutput(u) ==
    /\ thread[u] = "stream" /\ served[u] # NoBackend
    /\ first' = [first EXCEPT ![u] = now]
    /\ Output(u)
    /\ decoding' = decoding \cup ({u} \cap Longs)
    /\ Run(u, "decode")
    /\ UNCHANGED <<turn, main, verdict, now, backend>>

MoreOutput(u) ==
    /\ thread[u] = "decode"
    /\ last[u] < now
    /\ Output(u)
    /\ UNCHANGED <<turn, main, thread, decoding, verdict, first, now, backend>>

\* _stream() returns; a result that passed records the session's backend.
StreamReturns(u) ==
    /\ thread[u] = "decode"
    /\ \/ sessions' = [sessions EXCEPT ![u] = served[u]] /\ UNCHANGED slow
       \/ slow' = slow \cup {u} /\ UNCHANGED sessions
    /\ Run(u, "store")
    /\ UNCHANGED <<turn, main, decoding, results, failures, times, expected,
                   served, history>>

\* results[index]
Store(u) ==
    /\ thread[u] = "store"
    /\ results' = results \cup {u}
    /\ Run(u, "notify")
    /\ UNCHANGED <<turn, main, decoding, slow, failures, times, backend, history>>

Notified(u) ==
    /\ thread[u] = "notify"
    /\ Run(u, "over")
    /\ UNCHANGED <<turn, main, decoding, verdict, times, backend, history>>

\* _stream() or the progress callback raises.
WorkerFails(u) ==
    /\ thread[u] \in {"stream", "decode", "notify"}
    /\ Run(u, "over")
    /\ failures' = TRUE
    /\ UNCHANGED <<turn, main, decoding, results, slow, times, backend, history>>

-----------------------------------------------------------------------------
(* The calling thread                                                      *)

InjectShort ==
    /\ main = "wait" /\ Alive # {}
    /\ WithShort /\ thread[Short] = "none"
    /\ decoding = Longs
    /\ Run(Short, "send")
    /\ UNCHANGED <<turn, main, decoding, verdict, times, backend, history>>

AllOver ==
    /\ main \in {"wait", "closed"}
    /\ Alive = {}
    /\ main' = "judge"
    /\ UNCHANGED <<turn, thread, decoding, verdict, times, backend, history>>

\* The deadline of the workload: self.close(), whatever comes of it.
DeadlinePasses ==
    /\ main = "wait"
    /\ Alive # {}
    /\ main' = "closed"
    /\ UNCHANGED <<turn, thread, decoding, verdict, times, backend, history>>

\* MUTANT of JoinsTimeOut: join() without a timeout.
JoinsWait ==
    /\ main = "closed"
    /\ Alive = {}
    /\ main' = "judge"
    /\ UNCHANGED <<turn, thread, decoding, verdict, times, backend, history>>

\* Threads that are left after the joins fail the workload.
JoinsTimeOut ==
    /\ main = "closed"
    /\ Alive # {}
    /\ failures' = TRUE
    /\ main' = "judge"
    /\ UNCHANGED <<turn, thread, decoding, results, slow, times, backend, history>>

LongOverlap == \A u, v \in Longs : first[u] < last[v]

\* MUTANT of ShortOverlap: only that the short one began late enough.
ShortAfterLongs ==
    /\ Short \in results
    /\ \A u \in Longs : first[u] <= first[Short]

ShortOverlap ==
    /\ Short \in results
    /\ \A u \in Longs : first[u] <= first[Short] /\ first[Short] < last[u]

Passed ==
    /\ ~failures
    /\ Longs \subseteq results
    /\ results \cap slow = {}
    /\ Cardinality(Longs) = 1 \/ LongOverlap
    /\ WithShort => ShortOverlap

Judge ==
    /\ main = "judge"
    /\ main' = IF Passed THEN "passed" ELSE "rejected"
    /\ UNCHANGED <<turn, thread, decoding, verdict, times, backend, history>>

\* run_followup_workload(), after a cold workload that passed.
FollowUp ==
    /\ turn = "cold" /\ main = "passed"
    /\ \A u \in Longs : sessions[u] # NoBackend
    /\ turn' = "followup"
    /\ main' = "barrier"
    /\ thread' = [u \in Users |-> IF u = Short THEN "none" ELSE "barrier"]
    /\ decoding' = {} /\ results' = {} /\ slow' = {} /\ failures' = FALSE
    /\ first' = [u \in Users |-> 0] /\ last' = [u \in Users |-> 0] /\ now' = 1
    /\ expected' = [u \in Users |-> NoBackend]
    /\ served' = [u \in Users |-> NoBackend]
    /\ together' = {} /\ beside' = {}
    /\ UNCHANGED sessions

Tick ==
    /\ now < MaxTime
    /\ now' = now + 1
    /\ UNCHANGED <<turn, main, thread, decoding, verdict, first, last, backend, history>>

-----------------------------------------------------------------------------
Caller == \/ Released \/ BarrierBroken \/ AllOver \/ DeadlinePasses
          \/ JoinsTimeOut \/ Judge

Worker(u) == \/ Send(u) \/ (\E b \in Backends : Answered(u, b))
             \/ FirstOutput(u) \/ MoreOutput(u) \/ StreamReturns(u)
             \/ Store(u) \/ Notified(u) \/ WorkerFails(u)

Next == Caller \/ InjectShort \/ FollowUp \/ Tick \/ \E u \in Users : Worker(u)

Spec == Init /\ [][Next]_vars

\* Only the calling thread has to move: its waits have timeouts.
FairSpec == Spec /\ WF_vars(Caller)

-----------------------------------------------------------------------------
(* Properties                                                              *)

\* A workload that passed has measured what it is for: every long request had
\* output while all of them, and the short one, were under way; and nothing is
\* left that could still fail, or disturb the next workload
\* (benchmark.py:513-534).
PassedTogether ==
    main = "passed" => /\ Cardinality(Longs) = 1 \/ together = Longs
                       /\ WithShort => beside = Longs
                       /\ Alive = {}

\* A session is never recorded at two backends: a result from another one does
\* not count, and no stray of an earlier workload records one
\* (benchmark.py:281-283, 490-497).
SessionKept ==
    [][\A u \in Users : sessions[u] # NoBackend => sessions'[u] = sessions[u]]_vars

\* The caller gets a verdict, or the broken barrier, whatever the streams do.
WorkloadEnds ==
    main \in {"barrier", "wait", "closed", "judge"}
        ~> main \in {"passed", "rejected", "broken"}
=============================================================================
