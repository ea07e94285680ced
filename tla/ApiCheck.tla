------------------------------ MODULE ApiCheck ------------------------------
(***************************************************************************)
(* A timed check of scripts/api_check.py: run_check() streams requests of  *)
(* several users at once (stream_request), collects their results in order *)
(* and judges from their timestamps (summarize); main() publishes progress *)
(* around it and writes the report.                                        *)
(*                                                                         *)
(* In a mixed check the extra users wait until every long session has      *)
(* begun to generate. A stream is reduced to its lines: output, the end,   *)
(* and others; a line may also arrive byte by byte and never be complete.  *)
(***************************************************************************)
EXTENDS ProgressFile, FiniteSets

CONSTANTS Longs,      \* the numbers of the long sessions
          Extras,     \* the numbers of the others, after them
          MaxTime     \* bound: the last reading of the clock

ASSUME ApiCheckAssumption ==
    /\ IsFiniteSet(Longs) /\ IsFiniteSet(Extras) /\ Longs # {}
    /\ Longs = 1 .. Cardinality(Longs)
    /\ Extras = Cardinality(Longs) + 1 .. Cardinality(Longs \cup Extras)
    /\ MaxTime \in Nat \ {0}

VARIABLES
    users,      \* of this check: Longs, or those and the extras (mixed)
    main,       \* the main thread
    thread,     \* the thread of each request
    events,     \* the first_events that are set
    collected,  \* futures collected
    errors,     \* is anything in `errors`?
    first, last,\* the stamps of output, 0 before any
    now, past,  \* the clock, and whether the deadline has passed
    drip,       \* the requests whose answer or next line has begun and goes on, byte
                \* by byte: by number, 0 for one of the main thread's own
    raising,    \* what is on its way through __exit__(), or "none"
    report,     \* the status in the report, or "none"
    \* history
    early,      \* an extra was sent before every long session had output
    beside,     \* the long sessions that had output after each request began
    shown       \* run_check() returned after streams that were beside each other

streams == <<users, thread, events, first, last, early, beside>>
clock   == <<now, past>>
outcome == <<raising, report, shown>>
vars == <<progress, main, collected, errors, streams, clock, outcome, drip>>

Busy == {"gate", "wait", "open", "stream"}
Over == {"result", "failed"}

TypeOK ==
    /\ ProgressTypeOK
    /\ users \in {Longs, Longs \cup Extras}
    /\ main \in {"enter", "prepare", "collect", "judge", "drain", "finish", "exit", "join",
                 "last", "report", "done", "raised"}
    /\ raising \in {"none", "failed", "interrupted"}
    /\ thread \in [Longs \cup Extras -> {"none"} \cup Busy \cup Over]
    /\ events \subseteq users /\ collected \in 0 .. Cardinality(users)
    /\ {first, last} \subseteq [Longs \cup Extras -> 0 .. MaxTime]
    /\ now \in 1 .. MaxTime /\ report \in Verdicts \cup {"none"}
    /\ beside \in [Longs \cup Extras -> SUBSET Longs]
    /\ {errors, past, early, shown} \subseteq BOOLEAN
    /\ drip \subseteq Longs \cup Extras \cup {0}

Init ==
    /\ ProgressInit
    /\ users \in {Longs, Longs \cup Extras}
    /\ main = "enter"
    /\ thread = [u \in Longs \cup Extras |-> "none"]
    /\ events = {} /\ collected = 0 /\ errors = FALSE
    /\ first = [u \in Longs \cup Extras |-> 0] /\ last = first
    /\ now = 1 /\ past = FALSE /\ raising = "none" /\ report = "none"
    /\ early = FALSE /\ shown = FALSE /\ drip = {}
    /\ beside = [u \in Longs \cup Extras |-> {}]

-----------------------------------------------------------------------------
(* stream_request()                                                        *)

Run(u, to) == thread' = [thread EXCEPT ![u] = to]

Streams == UNCHANGED <<progress, main, collected, errors, users, clock, outcome>>

\* gate.wait(): released together, or broken by one that waited for too long.
Gate ==
    /\ \A u \in users : thread[u] = "gate"
    /\ \E to \in {"wait", "failed"} :
          thread' = [u \in DOMAIN thread |-> IF u \in users THEN to ELSE thread[u]]
    /\ Streams /\ UNCHANGED <<events, first, last, early, beside>>

WaitsFor(u) == IF u \in Extras THEN Longs ELSE {}

Waited(u) ==
    /\ thread[u] = "wait"
    /\ \/ WaitsFor(u) \subseteq events /\ Run(u, "open")
       \/ ~(WaitsFor(u) \subseteq events) /\ past /\ Run(u, "failed")
    /\ Streams /\ UNCHANGED <<events, first, last, early, beside>>

Opened(u) ==
    /\ thread[u] = "open"
    /\ Run(u, "stream")
    /\ early' = (early \/ (u \in Extras /\ \E l \in Longs : first[l] = 0))
    /\ Streams /\ UNCHANGED <<events, first, last, beside>>

\* A line with output: its stamp, and the event of the first one.
Output(u) ==
    /\ thread[u] = "stream" /\ ~past /\ main = "collect"
    /\ first' = IF first[u] = 0 THEN [first EXCEPT ![u] = now] ELSE first
    /\ last' = [last EXCEPT ![u] = now]
    /\ events' = events \cup {u}
    /\ beside' = [v \in DOMAIN beside |->
                    IF u \in Longs /\ first[v] # 0 THEN beside[v] \cup {u} ELSE beside[v]]
    /\ Streams /\ UNCHANGED <<thread, early>>

\* [DONE] after at least one output.
Terminal(u) ==
    /\ thread[u] = "stream" /\ ~past /\ first[u] # 0
    /\ Run(u, "result")
    /\ Streams /\ UNCHANGED <<events, first, last, early, beside>>

\* No connection, an error, or an incomplete stream: its stamps are lost.
Fails(u) ==
    /\ thread[u] \in {"open", "stream"}
    /\ Run(u, "failed")
    /\ first' = [first EXCEPT ![u] = 0] /\ last' = [last EXCEPT ![u] = 0]
    /\ beside' = [beside EXCEPT ![u] = {}]
    /\ Streams /\ UNCHANGED <<events, early>>

\* MUTANT of LateLine: the deadline is one for the first output.
LateFirstLine(u) == past /\ first[u] = 0 /\ thread[u] = "stream" /\ Fails(u)

\* The first line past the deadline, whatever it says.
LateLine(u) == past /\ thread[u] = "stream" /\ Fails(u)

-----------------------------------------------------------------------------
(* run_check()                                                             *)

Goto(p) == main' = p

Prepared ==
    /\ main = "prepare"
    /\ Goto("collect")
    /\ thread' = [u \in DOMAIN thread |-> IF u \in users THEN "gate" ELSE "none"]
    /\ UNCHANGED <<progress, collected, errors, users, events, first, last, early, beside,
                   clock, outcome>>

\* The futures in order; one that failed releases those that wait for it.
Collect ==
    /\ main = "collect"
    /\ LET u == collected + 1 IN
          /\ thread[u] \in Over
          /\ collected' = u
          /\ errors' = (errors \/ thread[u] = "failed")
          /\ events' = IF thread[u] = "failed" THEN events \cup {u} ELSE events
          /\ Goto(IF u = Cardinality(users) THEN "judge" ELSE "collect")
    /\ UNCHANGED <<progress, users, thread, first, last, early, beside, clock, outcome>>

\* The least overlap of two long sessions is a tenth of the shortest of them.
Overlap ==
    \A l, m \in Longs : LET overlap == last[l] - first[m] IN
        overlap > 0 /\ \E k \in Longs : 10 * overlap >= last[k] - first[k]

\* MUTANT of Summarize: the extras begin before the last long session ends.
SummarizeLoosely ==
    /\ \A u \in users : last[u] > first[u]
    /\ Cardinality(Longs) > 1 => Overlap
    /\ \A u \in users \ Longs : \E l \in Longs : first[u] < last[l]

Summarize ==
    /\ \A u \in users : last[u] > first[u]
    /\ Cardinality(Longs) > 1 => Overlap
    /\ \A u \in users \ Longs : \A l \in Longs : first[u] < last[l]

Quiet == UNCHANGED <<worker, streams, clock, collected, errors>>

StampsEnd ==
    /\ first' = [u \in DOMAIN first |-> 0] /\ last' = first'
    /\ beside' = [u \in DOMAIN beside |-> {}] /\ early' = FALSE

\* summarize(), and the health of the backend. With run_check() the stamps end.
Judge ==
    /\ main = "judge"
    /\ \E healthy \in BOOLEAN :
          status' = IF ~errors /\ Summarize /\ healthy THEN "passed" ELSE "failed"
    /\ shown' = (~early /\ \A u \in users : beside[u] = Longs)
    /\ StampsEnd
    /\ Goto("finish")
    /\ UNCHANGED <<worker, stop, lock, snap, file, users, thread, events, collected,
                   errors, clock, raising, report>>

\* An exception before the requests are sent, or from the last health check.
CheckRaises ==
    /\ main \in {"prepare", "judge"}
    /\ status' = "failed"
    /\ Goto("finish")
    /\ Quiet /\ UNCHANGED <<stop, lock, snap, file, outcome>>

\* KeyboardInterrupt: leaving the pool waits for its threads. Nobody will look
\* at the stamps of those that stream on.
Interrupt ==
    /\ main \in {"prepare", "collect", "judge"}
    /\ raising' = "interrupted"
    /\ StampsEnd
    /\ Goto("drain")
    /\ UNCHANGED <<progress, collected, errors, users, thread, events, clock, report, shown>>

Drained ==
    /\ main = "drain"
    /\ \A u \in users : thread[u] \notin Busy
    /\ Goto("exit")
    /\ Quiet /\ UNCHANGED <<progress, outcome>>

-----------------------------------------------------------------------------
(* main() and the context manager                                          *)

\* __enter__(), finish() and __exit__() publish.
Publish ==
    /\ main \in {"enter", "finish", "last"}
    /\ Snapshot("main")
    /\ Quiet /\ UNCHANGED <<main, outcome>>

AfterPublish(p) == CASE p = "enter" -> "prepare"
              [] p = "finish" -> "exit"
              [] p = "last" -> IF raising = "none" THEN "report" ELSE "raised"

Published ==
    /\ Written("main")
    /\ Goto(AfterPublish(main))
    /\ worker' = IF main = "enter" THEN "sleep" ELSE worker
    /\ UNCHANGED <<collected, errors, streams, clock, outcome>>

\* An OSError: from __enter__() it ends main(), __exit__() sees that of finish().
PublishRaises ==
    /\ NotWritten("main")
    /\ Goto(IF main = "finish" THEN "exit" ELSE "raised")
    /\ raising' = IF raising = "none" THEN "failed" ELSE raising
    /\ Quiet /\ UNCHANGED <<report, shown>>

Exit ==
    /\ main = "exit"
    /\ stop' = TRUE
    /\ Goto("join")
    /\ Quiet /\ UNCHANGED <<status, lock, snap, file, outcome>>

\* join(timeout=5): the worker may still be publishing.
Join ==
    /\ main = "join"
    /\ status' = IF raising = "none" THEN status ELSE raising
    /\ Goto("last")
    /\ Quiet /\ UNCHANGED <<stop, lock, snap, file, outcome>>

WriteReport ==
    /\ main = "report"
    /\ \/ report' = status /\ Goto("done")
       \/ UNCHANGED report /\ Goto("raised")
    /\ Quiet /\ UNCHANGED <<progress, raising, shown>>

-----------------------------------------------------------------------------
(* The clock                                                               *)

\* The stamps of a check that has failed no longer matter.
Tick ==
    /\ now < MaxTime /\ ~past /\ main = "collect"
    /\ \E u \in users : thread[u] = "stream"
    /\ \A u \in users : thread[u] # "failed"
    /\ now' = now + 1
    /\ UNCHANGED <<progress, main, collected, errors, streams, past, outcome>>

DeadlinePasses ==
    /\ main \in {"collect", "drain"} /\ ~past
    /\ past' = TRUE
    /\ UNCHANGED <<progress, main, collected, errors, streams, now, outcome>>

-----------------------------------------------------------------------------
(* Unfinished lines                                                        *)

\* Every byte restarts the socket's timeout, and the deadline of a stream is
\* looked at after a complete line; the main thread's requests have none. (Before
\* the deadline an unfinished line changes nothing.)
Drips(u) ==
    /\ IF u = 0 THEN main \in {"prepare", "judge"}
       ELSE past /\ thread[u] \in {"open", "stream"}
    /\ drip' = drip \cup {u}
    /\ Streams /\ UNCHANGED <<thread, events, first, last, early, beside>>

\* It is over when its reader goes on: the line is complete after all, the
\* connection fails, or an interrupt comes.
Ongoing == drip' = {u \in drip : IF u = 0 THEN main' = main ELSE thread'[u] = thread[u]}

-----------------------------------------------------------------------------
Main == Collect \/ Judge \/ Drained \/ Published \/ Exit \/ Join \/ WriteReport

\* Bound: until the results are judged every snapshot says "running", as the file.
WorkerSteps == main \notin {"prepare", "collect", "drain"} /\ Worker
               /\ UNCHANGED <<main, collected, errors, streams, clock, outcome>>
Connect(u) == Waited(u) \/ Opened(u)

Act == \/ Main \/ Publish \/ Prepared \/ CheckRaises \/ Interrupt \/ PublishRaises
       \/ Gate \/ \E u \in users : \/ Connect(u) \/ Output(u) \/ Terminal(u)
                                   \/ Fails(u) \/ LateLine(u)
       \/ WorkerSteps \/ Tick \/ DeadlinePasses

Next == (Act /\ Ongoing) \/ \E u \in users \cup {0} : Drips(u)

Spec == Init /\ [][Next]_vars

\* The threads run, the file system answers, the barrier times out, time passes,
\* and an answer or a line that is not fed byte by byte comes or its socket times
\* out. The worker leaves the lock alone for its interval. What the lines say,
\* when a stream ends, and whether an unfinished line ever does, is up to the server.
FairSpec ==
    /\ Spec
    /\ WF_vars(0 \notin drip /\ Main /\ Ongoing)
    /\ WF_vars(0 \notin drip /\ (Prepared \/ CheckRaises) /\ Ongoing)
    /\ WF_vars(WorkerSteps /\ Ongoing) /\ SF_vars(Publish /\ Ongoing)
    /\ WF_vars(Gate /\ Ongoing) /\ WF_vars(DeadlinePasses /\ Ongoing)
    /\ \A u \in Longs \cup Extras :
          /\ WF_vars(u \notin drip /\ Connect(u) /\ Ongoing)
          /\ WF_vars(u \notin drip /\ LateLine(u) /\ Ongoing)

-----------------------------------------------------------------------------
(* Properties                                                              *)

\* A check passes only if every request was still beside all long sessions
\* after it had begun to generate, and no extra user was sent before them: an
\* event that only releases the waiting does not pass (api_check.py:187-198,
\* 307-325).
PassedBeside == report = "passed" => shown

\* The last snapshot says what the report says, and stays: the worker cannot
\* replace it with one it took before (progress.py:59-71, 81-88).
LastSnapshotStays == main = "done" => file = report

\* The check ends, although streams hang, go on for ever or fail and the extras
\* wait for sessions that may have failed, unless the server feeds one request for
\* ever without completing a line or an answer: --timeout does not end that
\* (api_check.py:32-40, 118-135, 303-314).
CheckEnds == <>(main \in {"done", "raised"}) \/ <>[](drip # {})
=============================================================================
