---------------------------- MODULE StreamWatch ----------------------------
(***************************************************************************)
(* One streamed request of BenchmarkClient (qwen_bench/benchmark.py): the  *)
(* thread that connects, sends, and reads the event stream (_open,         *)
(* _stream, _release), and the threads that may abort it (_abort): the     *)
(* timer of the total timeout, the watchdog of the useful-output deadline  *)
(* and client.close().                                                     *)
(*                                                                         *)
(* http.client keeps the socket in connection.sock, gives it up once a     *)
(* response says Connection: close, and opens another when a request finds *)
(* none (auto_open). The client remembers the first one to be able to shut *)
(* it down. A closed socket whose response is being read stays open.       *)
(*                                                                         *)
(* Deadlines may pass at any moment. What the lines of the stream say is   *)
(* reduced to whether they are useful output or the terminal event. The    *)
(* module has no name in common with Workload: the proofs extend both.     *)
(***************************************************************************)
EXTENDS Integers

Sockets  == {"first", "second"}
Aborters == {"timer", "watchdog", "closer"}

VARIABLES
    pc,         \* the reading thread
    outcome,    \* what _stream() returned or raised
    begun,      \* some useful output was read
    late,       \* some measured gap exceeds its latency budget
    sock,       \* connection.sock
    saved,      \* connection._benchmark_socket
    state,      \* of the sockets
    reading,    \* the socket of the response
    abort,      \* how far each of Aborters has come with _abort()
    expired,    \* _benchmark_useful_expired
    stopped,    \* _benchmark_useful_stopped
    \* the clock
    past,       \* the total timeout has passed
    due,        \* the useful deadline armed last has passed
    missed      \* some useful deadline passed before the output it was for

network == <<sock, saved, state, reading>>
clock   == <<past, due, missed>>
stream == <<pc, outcome, begun, late, network, abort, expired, stopped, clock>>

Opening == {"connect", "save", "check", "request", "sent", "answer"}

StreamTypeOK ==
    /\ pc \in Opening \cup {"read", "blocked", "arm", "ended", "done"}
    /\ outcome \in {"none", "passed", "late", "failed"}
    /\ {sock, saved, reading} \subseteq Sockets \cup {"none"}
    /\ state \in [Sockets -> {"unused", "open", "shut", "closed"}]
    /\ abort \in [Aborters -> {"waiting", "shut", "close", "over"}]
    /\ {begun, late, expired, stopped, past, due, missed} \subseteq BOOLEAN
    /\ pc = "done" <=> stopped
    /\ outcome = "none" <=> ~stopped

\* After the timer and the watchdog were started.
StreamInit ==
    /\ pc = "connect" /\ outcome = "none"
    /\ begun = FALSE /\ late = FALSE
    /\ sock = "none" /\ saved = "none" /\ reading = "none"
    /\ state = [s \in Sockets |-> "unused"]
    /\ abort = [a \in Aborters |-> "waiting"]
    /\ expired = FALSE /\ stopped = FALSE
    /\ past = FALSE /\ due = FALSE /\ missed = FALSE

-----------------------------------------------------------------------------
(* Helpers                                                                 *)

\* connection.close(): a response keeps the socket it reads open.
Close ==
    /\ sock' = "none"
    /\ state' = [s \in Sockets |->
                   IF s = sock /\ s # reading THEN "closed" ELSE state[s]]

\* MUTANT of Release: the timer is not cancelled.
ReleaseUntimed(how) ==
    /\ pc' = "done"
    /\ outcome' = how
    /\ stopped' = TRUE
    /\ sock' = "none"
    /\ state' = [s \in Sockets |-> IF s \in {sock, reading} THEN "closed" ELSE state[s]]
    /\ UNCHANGED <<saved, reading, abort>>

\* _release(): the timer cancelled, the watchdog told, everything closed.
Release(how) ==
    /\ pc' = "done"
    /\ outcome' = how
    /\ stopped' = TRUE
    /\ abort' = IF abort["timer"] = "waiting" THEN [abort EXCEPT !["timer"] = "over"]
                ELSE abort
    /\ sock' = "none"
    /\ state' = [s \in Sockets |-> IF s \in {sock, reading} THEN "closed" ELSE state[s]]
    /\ UNCHANGED <<saved, reading>>

Raise == Release("failed") /\ UNCHANGED <<begun, late, expired, clock>>

Goto(p) ==
    /\ pc' = p
    /\ UNCHANGED <<outcome, abort, stopped, expired>>

-----------------------------------------------------------------------------
(* _open()                                                                 *)

Connect ==
    /\ pc = "connect"
    /\ \/ /\ sock' = "first"
          /\ state' = [state EXCEPT !["first"] = "open"]
          /\ Goto("save")
          /\ UNCHANGED <<begun, late, saved, reading, clock>>
       \/ Raise

SaveSocket ==
    /\ pc = "save"
    /\ saved' = sock
    /\ Goto("check")
    /\ UNCHANGED <<begun, late, sock, state, reading, clock>>

CheckExpired ==
    /\ pc = "check"
    /\ IF expired THEN Raise
       ELSE Goto("request") /\ UNCHANGED <<begun, late, network, clock>>

\* connection.request(): on the socket there is, or on a new one.
SendRequest ==
    /\ pc = "request"
    /\ \/ /\ sock # "none" /\ state[sock] = "open"
          /\ Goto("sent")
          /\ UNCHANGED <<begun, late, network, clock>>
       \/ /\ sock = "none"
          /\ sock' = "second"
          /\ state' = [state EXCEPT !["second"] = "open"]
          /\ Goto("sent")
          /\ UNCHANGED <<begun, late, saved, reading, clock>>
       \/ Raise

\* connection.getresponse(): not after a close() (ResponseNotReady).
AwaitResponse ==
    /\ pc = "sent"
    /\ IF sock = "none" THEN Raise
       ELSE /\ reading' = sock
            /\ Goto("answer")
            /\ UNCHANGED <<begun, late, sock, saved, state, clock>>

\* The headers: with Connection: close, http.client lets go of the socket.
Response ==
    /\ pc = "answer"
    /\ sock' \in {sock, "none"}
    /\ Goto("read")
    /\ UNCHANGED <<begun, late, saved, state, reading, clock>>

\* End of file, a timeout of the socket, another status, or too many headers.
NoResponse ==
    /\ pc = "answer"
    /\ Raise

-----------------------------------------------------------------------------
(* _stream(): sse_events() with _deadline() before every line              *)

Deadlined == IF saved # "none" THEN saved ELSE sock

\* _deadline(): settimeout() fails on a closed socket.
Deadline ==
    /\ pc = "read"
    /\ IF past \/ (Deadlined # "none" /\ state[Deadlined] = "closed") THEN Raise
       ELSE Goto("blocked") /\ UNCHANGED <<begun, late, network, clock>>

\* A comment, a part of an event, an event without output.
OtherLine ==
    /\ pc = "blocked"
    /\ Goto("read")
    /\ UNCHANGED <<begun, late, network, clock>>

\* MUTANT of UsefulLine: the time to the first output is not among the gaps.
UsefulAfterFirst ==
    /\ pc = "blocked"
    /\ begun' = TRUE
    /\ late' = (late \/ (begun /\ due))
    /\ Goto("arm")
    /\ UNCHANGED <<network, clock>>

\* Useful output: the gap to the one before, or the time to the first.
UsefulLine ==
    /\ pc = "blocked"
    /\ begun' = TRUE
    /\ late' = (late \/ due)
    /\ Goto("arm")
    /\ UNCHANGED <<network, clock>>

\* _arm_useful_deadline()
Arm ==
    /\ pc = "arm"
    /\ IF expired THEN Raise
       ELSE /\ due' = FALSE
            /\ Goto("read")
            /\ UNCHANGED <<begun, late, network, past, missed>>

\* [DONE]: the last gap is the one from the last output to here.
Terminal ==
    /\ pc = "blocked"
    /\ late' = (late \/ due)
    /\ Goto("ended")
    /\ UNCHANGED <<begun, network, clock>>

\* End of file, a timeout of the socket, an invalid or unsuccessful event.
NoLine ==
    /\ pc = "blocked"
    /\ Raise

\* What a shut socket gives to readline() in the end.
EndOfFile == NoLine /\ state[reading] # "open"

JudgeStream ==
    /\ pc = "ended"
    /\ Release(IF expired \/ ~begun THEN "failed" ELSE IF late THEN "late" ELSE "passed")
    /\ UNCHANGED <<begun, late, expired, clock>>

-----------------------------------------------------------------------------
(* The threads that abort                                                  *)

Working == pc # "done"
Reader == <<pc, outcome, begun, late>>

\* threading.Timer
TimerFires ==
    /\ abort["timer"] = "waiting"
    /\ past
    /\ abort' = [abort EXCEPT !["timer"] = "shut"]
    /\ UNCHANGED <<Reader, network, expired, stopped, clock>>

\* watch(): the useful deadline is never later than the total timeout.
WatchdogExpires ==
    /\ abort["watchdog"] = "waiting"
    /\ ~stopped
    /\ due \/ past
    /\ expired' = TRUE
    /\ abort' = [abort EXCEPT !["watchdog"] = "shut"]
    /\ UNCHANGED <<Reader, network, stopped, clock>>

WatchdogStops ==
    /\ abort["watchdog"] = "waiting"
    /\ stopped
    /\ abort' = [abort EXCEPT !["watchdog"] = "over"]
    /\ UNCHANGED <<Reader, network, expired, stopped, clock>>

CloseClient ==
    /\ abort["closer"] = "waiting" /\ Working
    /\ abort' = [abort EXCEPT !["closer"] = "shut"]
    /\ UNCHANGED <<Reader, network, expired, stopped, clock>>

\* MUTANT of Shut: only the socket that http.client still holds.
ShutHeld(a) ==
    /\ abort[a] = "shut"
    /\ state' = [s \in Sockets |->
                   IF s = sock /\ state[s] = "open" THEN "shut" ELSE state[s]]
    /\ abort' = [abort EXCEPT ![a] = "close"]
    /\ UNCHANGED <<Reader, sock, saved, reading, expired, stopped, clock>>

\* _abort(): shutdown of the remembered socket, or else of the current one.
Shut(a) ==
    /\ abort[a] = "shut"
    /\ state' = [s \in Sockets |->
                   IF s = Deadlined /\ state[s] = "open" THEN "shut" ELSE state[s]]
    /\ abort' = [abort EXCEPT ![a] = "close"]
    /\ UNCHANGED <<Reader, sock, saved, reading, expired, stopped, clock>>

\* _abort(): connection.close()
CloseConnection(a) ==
    /\ abort[a] = "close"
    /\ Close
    /\ abort' = [abort EXCEPT ![a] = "over"]
    /\ UNCHANGED <<Reader, saved, reading, expired, stopped, clock>>

-----------------------------------------------------------------------------
(* The clock                                                               *)

TotalPasses ==
    /\ Working /\ ~past
    /\ past' = TRUE
    /\ UNCHANGED <<Reader, network, abort, expired, stopped, due, missed>>

UsefulPasses ==
    /\ Working /\ ~due
    /\ due' = TRUE
    /\ missed' = (missed \/ pc \notin {"arm", "ended"})
    /\ UNCHANGED <<Reader, network, abort, expired, stopped, past>>

-----------------------------------------------------------------------------
Open == Connect \/ SaveSocket \/ CheckExpired \/ SendRequest \/ AwaitResponse
Lines == OtherLine \/ UsefulLine \/ Terminal \/ NoLine
Watch == TimerFires \/ WatchdogExpires \/ WatchdogStops
         \/ \E a \in Aborters : Shut(a) \/ CloseConnection(a)

StreamNext ==
    \/ Open \/ Response \/ NoResponse
    \/ Deadline \/ Lines \/ Arm \/ JudgeStream
    \/ Watch \/ CloseClient
    \/ TotalPasses \/ UsefulPasses

StreamSpec == StreamInit /\ [][StreamNext]_stream

\* Every thread that can run does, time passes, and connecting, sending and
\* reading headers are bounded by the timeout of the socket and the limits of
\* http.client. The server may send what it likes for as long as it likes.
FairStreamSpec ==
    /\ StreamSpec
    /\ WF_stream(Open) /\ WF_stream(Response \/ NoResponse)
    /\ WF_stream(Deadline \/ Arm \/ JudgeStream) /\ WF_stream(EndOfFile)
    /\ WF_stream(Watch) /\ WF_stream(TotalPasses)

-----------------------------------------------------------------------------
(* Properties                                                              *)

\* A result that counts as passed kept every latency budget, also when the
\* watchdog was too late to notice (benchmark.py:368-376, 383-385, 403, 424),
\* and was read from the connection that was opened for it, not from one that
\* http.client opened after an abort (benchmark.py:157-165).
PassedInTime ==
    outcome = "passed" => /\ ~missed
                          /\ abort["closer"] = "waiting" => reading = "first"

\* Once the total timeout has aborted the request, no read of the stream waits
\* on an open socket: a server that sends byte after byte cannot prolong it
\* (tests/test_benchmark.py:316).
StreamAborted ==
    pc = "blocked" /\ abort["timer"] = "over" /\ abort["closer"] = "waiting"
        => state[reading] # "open"

\* Whatever the server sends, and whenever the timer or the watchdog aborts,
\* the request ends. (A close() between connect() and _open()'s saving of the
\* socket has http.client open another that nobody can shut down.) The timer
\* and the watchdog end with it, without waiting for their deadlines: the clock
\* of the model stops when it is over, and what only a deadline would end is
\* left behind (benchmark.py:174-182).
StreamEnds ==
    /\ <>(pc = "done" \/ abort["closer"] # "waiting")
    /\ pc = "done" ~> abort["timer"] = "over" /\ abort["watchdog"] = "over"
=============================================================================
