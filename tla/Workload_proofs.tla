--------------------------- MODULE Workload_proofs ---------------------------
(***************************************************************************)
(* Proofs about the client of benchmark.py: Workload, for any number of    *)
(* long requests and backends, and StreamWatch, one of their streams.      *)
(***************************************************************************)
EXTENDS Workload, StreamWatch, TLAPS

LEMMA TypedInit == ASSUME Init PROVE TypeOK
<1>1. 0 \in 0 .. MaxTime /\ 1 \in 1 .. MaxTime
  BY WorkloadAssumption
<1> QED
  BY <1>1 DEF Init, TypeOK, Living, WithShort, Users, Short

LEMMA TypedStep == ASSUME TypeOK, [Next]_vars PROVE TypeOK'
<1> USE DEF TypeOK, Living, WithShort, Users, Short
<1>1. 0 \notin Longs /\ 0 \in 0 .. MaxTime /\ 1 \in 1 .. MaxTime /\ now \in 0 .. MaxTime
  BY WorkloadAssumption
<1>2. CASE Released
  BY <1>1, <1>2 DEF Released, verdict, times, backend, history
<1>3. CASE BarrierBroken
  BY <1>1, <1>3 DEF BarrierBroken, times, backend, history
<1>4. CASE AllOver \/ DeadlinePasses \/ JoinsTimeOut \/ Judge
  BY <1>4 DEF AllOver, DeadlinePasses, JoinsTimeOut, Judge, verdict, times, backend, history
<1>5. CASE InjectShort
  BY <1>1, <1>5 DEF InjectShort, Run, verdict, times, backend, history
<1>6. CASE FollowUp
  BY <1>1, <1>6 DEF FollowUp
<1>7. CASE Tick
  BY <1>7, WorkloadAssumption DEF Tick, verdict, backend, history
<1>8. ASSUME NEW u \in Users, Send(u) PROVE TypeOK'
  BY <1>1, <1>8 DEF Send, Run, verdict, times, history
<1>9. ASSUME NEW u \in Users, NEW b \in Backends, Answered(u, b) PROVE TypeOK'
  BY <1>9 DEF Answered, verdict, times, history
<1>10. ASSUME NEW u \in Users, FirstOutput(u) PROVE TypeOK'
  BY <1>1, <1>10 DEF FirstOutput, Output, Run, verdict, backend
<1>11. ASSUME NEW u \in Users, MoreOutput(u) PROVE TypeOK'
  BY <1>1, <1>11 DEF MoreOutput, Output, verdict, backend
<1>12. ASSUME NEW u \in Users, StreamReturns(u) PROVE TypeOK'
  BY <1>1, <1>12 DEF StreamReturns, Run, times, history
<1>13. ASSUME NEW u \in Users, Store(u) PROVE TypeOK'
  BY <1>1, <1>13 DEF Store, Run, times, backend, history
<1>14. ASSUME NEW u \in Users, Notified(u) PROVE TypeOK'
  BY <1>1, <1>14 DEF Notified, Run, verdict, times, backend, history
<1>15. ASSUME NEW u \in Users, WorkerFails(u) PROVE TypeOK'
  BY <1>1, <1>15 DEF WorkerFails, Run, times, backend, history
<1>16. CASE UNCHANGED vars
  BY <1>16 DEF vars, verdict, times, backend, history
<1>17. QED
  BY <1>2, <1>3, <1>4, <1>5, <1>6, <1>7, <1>8, <1>9, <1>10, <1>11, <1>12, <1>13, <1>14, <1>15,
     <1>16 DEF Next, Caller, Worker

(* Every variable keeps its type; without a short request in the workload   *)
(* its thread is never started.                                             *)
THEOREM TypeCorrect == Spec => []TypeOK
<1>1. Init => TypeOK
  BY TypedInit
<1>2. TypeOK /\ [Next]_vars => TypeOK'
  BY TypedStep
<1>3. QED
  BY <1>1, <1>2, PTL DEF Spec

-----------------------------------------------------------------------------
(* Why a session stays at its backend. While a request streams it expects   *)
(* the backend the session has, and an answer from another one ends it, so  *)
(* that what it records in the end is what was there. No stray of an earlier *)
(* workload streams when the next one begins.                               *)
Expecting ==
    /\ main = "barrier" =>
          \A u \in Users : thread[u] \in {"none", "barrier"} /\ served[u] = NoBackend
    /\ \A u \in Users :
          /\ thread[u] \in {"none", "barrier", "send"} => served[u] = NoBackend
          /\ thread[u] \in {"stream", "decode"} =>
                /\ expected[u] = sessions[u]
                /\ served[u] = NoBackend \/ expected[u] \in {NoBackend, served[u]}
          /\ thread[u] = "decode" => served[u] # NoBackend

Settled ==
    /\ main \in {"judge", "passed"} => failures \/ Alive = {}
    /\ main = "passed" => Alive = {}

Sessions == Expecting /\ Settled

LEMMA SessionsInit == ASSUME Init PROVE Sessions
BY DEF Init, Sessions, Expecting, Settled, Users, Short

LEMMA SessionsStep == ASSUME TypeOK, Sessions, [Next]_vars PROVE Sessions'
<1> USE DEF Sessions, Expecting, Users, Short
<1>1. /\ 0 \notin Longs /\ DOMAIN thread = Users /\ DOMAIN served = Users
      /\ DOMAIN expected = Users /\ DOMAIN sessions = Users
  BY WorkloadAssumption DEF TypeOK
<1>2. ASSUME NEW u \in Users, u \in Alive,
             UNCHANGED main, failures => failures'
      PROVE  Settled'
  BY <1>2 DEF Settled
<1>3. CASE Released \/ BarrierBroken
  BY <1>1, <1>3 DEF Released, BarrierBroken, backend, Settled
<1>4. CASE AllOver \/ DeadlinePasses \/ JoinsTimeOut \/ Judge
  <2>1. UNCHANGED <<thread, backend>> /\ Alive' = Alive /\ main' # "barrier"
    BY <1>4 DEF AllOver, DeadlinePasses, JoinsTimeOut, Judge, Alive
  <2>2. Settled'
    BY <1>4, <2>1 DEF AllOver, DeadlinePasses, JoinsTimeOut, Judge, Passed, Settled, verdict
  <2> QED
    BY <2>1, <2>2 DEF backend
<1>5. CASE InjectShort
  BY <1>1, <1>5 DEF InjectShort, Run, backend, Settled
<1>6. CASE FollowUp
  BY <1>1, <1>6 DEF FollowUp, Settled
<1>7. CASE Tick
  BY <1>7 DEF Tick, verdict, backend, Settled, Alive
<1>8. ASSUME NEW u \in Users, Worker(u) PROVE Sessions'
  <2>1. u \in Alive /\ UNCHANGED main /\ (failures => failures')
    BY <1>8 DEF Worker, Send, Answered, FirstOutput, MoreOutput, StreamReturns, Store, Notified,
                WorkerFails, Alive, Living, verdict
  <2>2. Settled'
    BY <1>2, <2>1
  <2>3. CASE Send(u)
    BY <1>1, <2>2, <2>3 DEF Send, Run
  <2>4. ASSUME NEW b \in Backends, Answered(u, b) PROVE Sessions'
    BY <1>1, <2>2, <2>4 DEF Answered
  <2>5. CASE FirstOutput(u)
    BY <1>1, <2>2, <2>5 DEF FirstOutput, Run, backend
  <2>6. CASE MoreOutput(u)
    BY <1>1, <2>2, <2>6 DEF MoreOutput, backend
  <2>7. CASE StreamReturns(u)
    BY <1>1, <2>2, <2>7 DEF StreamReturns, Run
  <2>8. CASE Store(u) \/ Notified(u) \/ WorkerFails(u)
    BY <1>1, <2>2, <2>8 DEF Store, Notified, WorkerFails, Run, backend
  <2> QED
    BY <1>8, <2>3, <2>4, <2>5, <2>6, <2>7, <2>8 DEF Worker
<1>9. CASE UNCHANGED vars
  BY <1>9 DEF vars, verdict, backend, Settled, Alive
<1>10. QED
  BY <1>3, <1>4, <1>5, <1>6, <1>7, <1>8, <1>9 DEF Next, Caller

LEMMA KeptStep ==
    ASSUME TypeOK, Sessions, [Next]_vars
    PROVE  \A u \in Users : sessions[u] # NoBackend => sessions'[u] = sessions[u]
<1>1. ASSUME NEW u \in Users, StreamReturns(u), NEW v \in Users, sessions[v] # NoBackend
      PROVE  sessions'[v] = sessions[v]
  <2>1. u = v => served[u] = sessions[u]
    BY <1>1 DEF StreamReturns, Sessions, Expecting
  <2>2. sessions' = sessions \/ sessions' = [sessions EXCEPT ![u] = served[u]]
    BY <1>1 DEF StreamReturns
  <2> QED
    BY <2>1, <2>2 DEF TypeOK
<1>2. CASE UNCHANGED sessions
  BY <1>2
<1>3. QED
  BY <1>1, <1>2 DEF Next, Caller, Released, BarrierBroken, AllOver, DeadlinePasses, JoinsTimeOut,
     Judge, InjectShort, FollowUp, Tick, Worker, Send, Answered, FirstOutput, MoreOutput, Store,
     Notified, WorkerFails, backend, vars

(* A session that has a backend keeps it, in any interleaving of the requests *)
(* of both workloads.                                                       *)
THEOREM SessionKeptAlways == Spec => SessionKept
<1>1. Init => TypeOK /\ Sessions
  BY TypedInit, SessionsInit
<1>2. TypeOK /\ Sessions /\ [Next]_vars => (TypeOK /\ Sessions)'
  BY TypedStep, SessionsStep
<1>3. TypeOK /\ Sessions /\ [Next]_vars
        => [\A u \in Users : sessions[u] # NoBackend => sessions'[u] = sessions[u]]_vars
  BY KeptStep
<1>4. QED
  BY <1>1, <1>2, <1>3, PTL DEF Spec, SessionKept

-----------------------------------------------------------------------------
(* Why a pass means that the requests were under way together. The stamps   *)
(* say it: output of a long request that is later than the first output of  *)
(* all the others came when all of them had begun. And a result is stored   *)
(* only after output.                                                       *)
Stamps ==
    /\ \A u \in Users : first[u] <= now /\ last[u] <= now
    /\ \A v \in Longs :
          /\ (\A u \in Longs : first[u] # 0 /\ first[u] < last[v]) => v \in together
          /\ first[Short] # 0 /\ first[Short] < last[v] => v \in beside

Measured ==
    /\ \A u \in Users : u \in results \/ thread[u] \in {"decode", "store", "notify"} => first[u] # 0
    /\ main = "barrier" => results = {} /\ \A u \in Users : thread[u] \in {"none", "barrier"}

Shown ==
    main = "passed" => /\ Cardinality(Longs) = 1 \/ together = Longs
                       /\ WithShort => beside = Longs

Together == Stamps /\ Measured /\ Shown

LEMMA TogetherInit == ASSUME Init PROVE Together
<1>1. \E l \in Longs : TRUE
  BY WorkloadAssumption
<1> QED
  BY <1>1, WorkloadAssumption DEF Init, Together, Stamps, Measured, Shown, Users, Short

LEMMA JudgedTogether ==
    ASSUME TypeOK, Together, Passed
    PROVE  /\ Cardinality(Longs) = 1 \/ together = Longs
           /\ WithShort => beside = Longs
<1>1. together \subseteq Longs /\ beside \subseteq Longs
  BY DEF TypeOK
<1>2. \A u \in Longs : first[u] # 0
  BY DEF Passed, Together, Measured, Users
<1>3. ASSUME LongOverlap PROVE Longs \subseteq together
  BY <1>2, <1>3 DEF LongOverlap, Together, Stamps
<1>4. ASSUME ShortOverlap PROVE Longs \subseteq beside
  BY <1>4 DEF ShortOverlap, Together, Stamps, Measured, Users
<1> QED
  BY <1>1, <1>3, <1>4 DEF Passed

LEMMA TogetherStep == ASSUME TypeOK, Settled, Together, [Next]_vars PROVE Together'
<1> USE DEF Together, Users, Short
<1>1. /\ 0 \notin Longs /\ DOMAIN thread = Users /\ DOMAIN first = Users /\ DOMAIN last = Users
      /\ now \in Nat \ {0} /\ \A u \in Users : first[u] \in Nat /\ last[u] \in Nat
  <2>1. \A u \in Users : first[u] \in 0 .. MaxTime /\ last[u] \in 0 .. MaxTime
    BY DEF TypeOK
  <2> QED
    BY <2>1, WorkloadAssumption DEF TypeOK
<1>2. CASE Released \/ BarrierBroken
  BY <1>1, <1>2 DEF Released, BarrierBroken, verdict, times, history, Stamps, Measured, Shown
<1>3. CASE AllOver \/ DeadlinePasses \/ JoinsTimeOut
  BY <1>3 DEF AllOver, DeadlinePasses, JoinsTimeOut, verdict, times, history, Stamps, Measured, Shown
<1>4. CASE Judge
  <2>1. UNCHANGED <<turn, thread, results, first, last, now, together, beside>>
        /\ main' \in {"passed", "rejected"} /\ (main' = "passed" => Passed)
    BY <1>4 DEF Judge, verdict, times, history
  <2>2. Stamps' /\ Measured'
    BY <2>1 DEF Stamps, Measured
  <2>3. Shown'
    BY <2>1, JudgedTogether DEF Shown, WithShort
  <2> QED
    BY <2>2, <2>3
<1>5. CASE InjectShort
  BY <1>1, <1>5 DEF InjectShort, Run, verdict, times, history, Stamps, Measured, Shown
<1>6. CASE FollowUp
  <2>1. \E l \in Longs : TRUE
    BY WorkloadAssumption
  <2>2. main' = "barrier" /\ results' = {} /\ now' = 1
        /\ \A u \in Users : first'[u] = 0 /\ last'[u] = 0 /\ thread'[u] \in {"none", "barrier"}
    BY <1>6 DEF FollowUp
  <2> QED
    BY <2>1, <2>2 DEF Stamps, Measured, Shown
<1>7. CASE Tick
  BY <1>1, <1>7 DEF Tick, verdict, history, Stamps, Measured, Shown, WithShort
<1>8. ASSUME NEW u \in Users, FirstOutput(u) \/ MoreOutput(u) PROVE Together'
  <2>1. /\ UNCHANGED <<turn, main, results, now>> /\ u \in Alive
        /\ thread[u] \in {"stream", "decode"} /\ last' = [last EXCEPT ![u] = now]
        /\ \A v \in Users \ {u} : thread'[v] = thread[v]
        /\ \/ first' = [first EXCEPT ![u] = now]
           \/ first' = first /\ thread[u] = "decode"
        /\ together' = IF u \in Longs /\ \A v \in Longs : Begun(v) THEN together \cup {u} ELSE together
        /\ beside' = IF u \in Longs /\ Begun(Short) THEN beside \cup {u} ELSE beside
    <3>1. CASE FirstOutput(u)
      BY <1>1, <3>1 DEF FirstOutput, Output, Run, verdict, Alive, Living
    <3>2. CASE MoreOutput(u)
      BY <1>1, <3>2 DEF MoreOutput, Output, verdict, Alive, Living
    <3> QED
      BY <1>8, <3>1, <3>2
  <2>2. Measured'
    BY <1>1, <2>1 DEF Measured
  <2>3. Shown'
    BY <2>1 DEF Shown, Settled, WithShort
  <2>4. ASSUME NEW v \in Users PROVE first'[v] <= now /\ last'[v] <= now
    BY <1>1, <2>1 DEF Stamps
  <2>5. ASSUME NEW v \in Longs, \A w \in Longs : first'[w] # 0 /\ first'[w] < last'[v]
        PROVE  v \in together'
    <3>1. CASE first' = first
      BY <1>1, <2>1, <2>5, <3>1 DEF Stamps, Begun
    <3>2. CASE u \notin Longs
      BY <1>1, <2>1, <2>5, <3>2 DEF Stamps
    <3>3. CASE u \in Longs /\ first' = [first EXCEPT ![u] = now]
      BY <1>1, <2>1, <2>4, <2>5, <3>3
    <3> QED
      BY <2>1, <3>1, <3>2, <3>3
  <2>6. ASSUME NEW v \in Longs, first'[0] # 0, first'[0] < last'[v]
        PROVE  v \in beside'
    <3>1. CASE first'[0] = first[0]
      BY <1>1, <2>1, <2>6, <3>1 DEF Stamps, Begun
    <3>2. CASE u = 0 /\ first' = [first EXCEPT ![u] = now]
      BY <1>1, <2>1, <2>4, <2>6, <3>2
    <3> QED
      BY <1>1, <2>1, <3>1, <3>2
  <2> QED
    BY <2>1, <2>2, <2>3, <2>4, <2>5, <2>6 DEF Stamps
<1>9. ASSUME NEW u \in Users, NEW b \in Backends, Answered(u, b) PROVE Together'
  BY <1>9 DEF Answered, times, verdict, history, Stamps, Measured, Shown, WithShort
<1>10. ASSUME NEW u \in Users,
             Send(u) \/ StreamReturns(u) \/ Store(u) \/ Notified(u) \/ WorkerFails(u)
      PROVE  Together'
  <2>1. UNCHANGED <<turn, main, first, last, now, together, beside>>
    BY <1>10 DEF Send, StreamReturns, Store, Notified, WorkerFails, times, history
  <2>2. Stamps' /\ Shown'
    BY <2>1 DEF Stamps, Shown, WithShort
  <2>3. Measured'
    BY <1>1, <1>10, <2>1 DEF Send, StreamReturns, Store, Notified, WorkerFails, Run, verdict, Measured
  <2> QED
    BY <2>2, <2>3
<1>11. CASE UNCHANGED vars
  BY <1>11 DEF vars, verdict, times, history, Stamps, Measured, Shown, WithShort
<1>12. QED
  BY <1>2, <1>3, <1>4, <1>5, <1>6, <1>7, <1>8, <1>9, <1>10, <1>11 DEF Next, Caller, Worker

(* A workload that passes had all its requests under way together, and no   *)
(* thread of it is left.                                                    *)
THEOREM PassedTogetherAlways == Spec => []PassedTogether
<1>1. Init => TypeOK /\ Sessions /\ Together
  BY TypedInit, SessionsInit, TogetherInit
<1>2. TypeOK /\ Sessions /\ Together /\ [Next]_vars => (TypeOK /\ Sessions /\ Together)'
  BY TypedStep, SessionsStep, TogetherStep DEF Sessions
<1>3. Sessions /\ Together => PassedTogether
  BY DEF Sessions, Settled, Together, Shown, PassedTogether
<1>4. QED
  BY <1>1, <1>2, <1>3, PTL DEF Spec

-----------------------------------------------------------------------------
(* A stream of the workload, and the threads that may abort it.            *)

(* client.close() has not touched the request.                              *)
Unclosed == abort["closer"] = "waiting"

(* Who aborts has a reason that the reading thread will find.               *)
Reasons ==
    /\ abort["timer"] \in {"shut", "close"} => past
    /\ abort["timer"] = "over" /\ ~stopped => past
    /\ abort["watchdog"] \in {"shut", "close"} => expired

(* Until client.close() interferes, the first socket is the one remembered  *)
(* and read, or something is bound to end the request before a line is read.*)
OneSocket ==
    /\ pc \in Opening \ {"answer"} => reading = "none"
    /\ Unclosed /\ pc \in {"save", "check"} => sock = "first" \/ past \/ expired
    /\ Unclosed /\ pc = "check" => saved = "first" \/ past \/ expired
    /\ Unclosed /\ pc \in {"request", "sent", "answer", "read"} => saved = "first" \/ past
    /\ Unclosed /\ pc \in {"request", "sent"} =>
           sock = "first" \/ past \/ state["first"] = "closed"
    /\ Unclosed /\ pc \in {"answer", "read"} =>
           reading = "first" \/ past \/ state["first"] = "closed"
    /\ Unclosed /\ pc \in {"blocked", "arm", "ended"} => saved = "first" /\ reading = "first"

(* A deadline that was missed is found by the next output, or the request   *)
(* has failed.                                                              *)
Lateness ==
    /\ missed => late \/ (due /\ pc \notin {"arm", "ended", "done"}) \/ outcome = "failed"
    /\ outcome = "passed" => ~late

(* The timer shuts down the socket that is read.                            *)
ShutDown ==
    Unclosed /\ pc = "blocked" /\ abort["timer"] \in {"close", "over"}
        => state["first"] # "open"

Watched == /\ StreamTypeOK /\ Reasons /\ OneSocket /\ Lateness
             /\ ShutDown /\ PassedInTime

LEMMA WatchedInit ==
    ASSUME StreamInit
    PROVE  Watched
BY DEF StreamInit, Watched, StreamTypeOK, Reasons, OneSocket, Lateness, ShutDown,
       PassedInTime, Unclosed, Opening, Sockets, Aborters

(* Each step of a stream keeps the types, and the invariants above.         *)
LEMMA StreamTypeStep ==
    ASSUME StreamTypeOK, [StreamNext]_stream
    PROVE  StreamTypeOK'
<1> USE DEF StreamTypeOK, Opening, Sockets, Aborters
<1>1. ASSUME Raise, pc \notin {"ended", "done"} PROVE StreamTypeOK'
  BY <1>1 DEF Raise, Release, clock
<1>2. CASE Connect
  BY <1>1, <1>2 DEF Connect, Goto, clock
<1>3. CASE SaveSocket
  BY <1>3 DEF SaveSocket, Goto, clock
<1>4. CASE CheckExpired
  <2>1. CASE expired
    BY <1>1, <1>4, <2>1 DEF CheckExpired
  <2>2. CASE ~expired
    BY <1>4, <2>2 DEF CheckExpired, Goto, clock, network
  <2> QED
    BY <2>1, <2>2
<1>5. CASE SendRequest
  BY <1>1, <1>5 DEF SendRequest, Goto, clock, network
<1>6. CASE AwaitResponse
  BY <1>1, <1>6 DEF AwaitResponse, Goto, clock
<1>7. CASE Response
  BY <1>7 DEF Response, Goto, clock
<1>8. CASE NoResponse \/ NoLine
  BY <1>1, <1>8 DEF NoResponse, NoLine
<1>9. CASE Deadline
  BY <1>1, <1>9 DEF Deadline, Deadlined, Goto, clock, network
<1>10. CASE OtherLine \/ UsefulLine \/ Terminal
  <2>1. late' \in BOOLEAN
    BY <1>10 DEF OtherLine, UsefulLine, Terminal
  <2>2. /\ pc = "blocked" /\ pc' \in {"read", "arm", "ended"} /\ begun' \in BOOLEAN
        /\ UNCHANGED <<outcome, abort, stopped, expired, network, clock>>
    BY <1>10 DEF OtherLine, UsefulLine, Terminal, Goto, clock, network
  <2> QED
    BY <2>1, <2>2 DEF clock, network
<1>11. CASE Arm
  BY <1>1, <1>11 DEF Arm, Goto, network
<1>12. CASE JudgeStream
  BY <1>12 DEF JudgeStream, Release, clock
<1>13. CASE TimerFires \/ WatchdogExpires
  <2>1. CASE TimerFires
    BY <2>1 DEF TimerFires, Reader, network, clock
  <2>2. CASE WatchdogExpires
    BY <2>2 DEF WatchdogExpires, Reader, network, clock
  <2> QED
    BY <1>13, <2>1, <2>2
<1>14. CASE WatchdogStops \/ CloseClient
  <2>1. CASE WatchdogStops
    BY <2>1 DEF WatchdogStops, Reader, network, clock, Working
  <2>2. CASE CloseClient
    BY <2>2 DEF CloseClient, Reader, network, clock, Working
  <2> QED
    BY <1>14, <2>1, <2>2
<1>15. ASSUME NEW a \in Aborters, Shut(a) PROVE StreamTypeOK'
  BY <1>15 DEF Shut, Deadlined, Reader, clock
<1>16. ASSUME NEW a \in Aborters, CloseConnection(a) PROVE StreamTypeOK'
  BY <1>16 DEF CloseConnection, Close, Reader, clock
<1>17. CASE TotalPasses \/ UsefulPasses
  <2>1. {past', due', missed'} \subseteq BOOLEAN
    BY <1>17 DEF TotalPasses, UsefulPasses
  <2>2. UNCHANGED <<Reader, network, abort, expired, stopped>>
    BY <1>17 DEF TotalPasses, UsefulPasses
  <2> QED
    BY <2>1, <2>2 DEF Reader, network
<1>18. CASE UNCHANGED stream
  BY <1>18 DEF stream, network, clock
<1>19. QED
  BY <1>2, <1>3, <1>4, <1>5, <1>6, <1>7, <1>8, <1>9, <1>10, <1>11, <1>12, <1>13,
       <1>14, <1>15, <1>16, <1>17, <1>18 DEF StreamNext, Open, Lines, Watch

(* An abort begins with its reason.                                         *)
LEMMA ReasonsStep ==
    ASSUME StreamTypeOK, Reasons, [StreamNext]_stream
    PROVE  Reasons'
<1> USE DEF StreamTypeOK, Reasons, Opening, Sockets, Aborters
<1>1. ASSUME Raise, pc \notin {"ended", "done"} PROVE Reasons'
  BY <1>1 DEF Raise, Release, clock
<1>2. CASE Open
  BY <1>1, <1>2 DEF Open, Connect, SaveSocket,
       CheckExpired, SendRequest, AwaitResponse, Goto, clock, network
<1>3. CASE Response \/ NoResponse \/ Lines
  BY <1>1, <1>3 DEF Response, NoResponse, Lines,
       OtherLine, UsefulLine, Terminal, NoLine, Goto, clock, network
<1>4. CASE Deadline \/ Arm
  BY <1>1, <1>4 DEF Deadline, Deadlined, Arm, Goto, clock, network
<1>5. CASE JudgeStream
  BY <1>5 DEF JudgeStream, Release, clock
<1>6. CASE TimerFires
  BY <1>6 DEF TimerFires, Reader, network, clock
<1>7. CASE WatchdogExpires
  BY <1>7 DEF WatchdogExpires, Reader, network, clock
<1>8. CASE WatchdogStops \/ CloseClient
  BY <1>8 DEF WatchdogStops, CloseClient, Reader, network, clock, Working
<1>9. ASSUME NEW a \in Aborters, Shut(a) PROVE Reasons'
  BY <1>9 DEF Shut, Deadlined, Reader, clock
<1>10. ASSUME NEW a \in Aborters, CloseConnection(a) PROVE Reasons'
  BY <1>10 DEF CloseConnection, Close, Reader, clock
<1>11. CASE TotalPasses \/ UsefulPasses
  BY <1>11 DEF TotalPasses, UsefulPasses, Reader, network, Working
<1>12. CASE UNCHANGED stream
  BY <1>12 DEF stream, network, clock
<1>13. QED
  BY <1>2, <1>3, <1>4, <1>5, <1>6, <1>7, <1>8, <1>9, <1>10, <1>11, <1>12
     DEF StreamNext, Watch

(* http.client opens another socket only in a request that cannot pass.     *)
LEMMA OneSocketStep ==
    ASSUME StreamTypeOK, Reasons, OneSocket, [StreamNext]_stream
    PROVE  OneSocket'
<1> USE DEF StreamTypeOK, Reasons, OneSocket, Unclosed, Opening, Sockets, Aborters
<1>1. ASSUME Raise, pc \notin {"ended", "done"} PROVE OneSocket'
  BY <1>1 DEF Raise, Release, clock
<1>2. CASE Connect
  BY <1>1, <1>2 DEF Connect, Goto, clock
<1>3. CASE SaveSocket
  BY <1>3 DEF SaveSocket, Goto, clock
<1>4. CASE CheckExpired
  <2>1. CASE expired
    BY <1>1, <1>4, <2>1 DEF CheckExpired
  <2>2. CASE ~expired
    BY <1>4, <2>2 DEF CheckExpired, Goto, clock, network
  <2> QED
    BY <2>1, <2>2
<1>5. CASE SendRequest
  BY <1>1, <1>5 DEF SendRequest, Goto, clock, network
<1>6. CASE AwaitResponse
  BY <1>1, <1>6 DEF AwaitResponse, Goto, clock
<1>7. CASE Response
  BY <1>7 DEF Response, Goto, clock
<1>8. CASE NoResponse \/ NoLine
  BY <1>1, <1>8 DEF NoResponse, NoLine
<1>9. CASE Deadline
  BY <1>1, <1>9 DEF Deadline, Deadlined, Goto, clock, network
<1>10. CASE OtherLine \/ UsefulLine \/ Terminal
  BY <1>10 DEF OtherLine, UsefulLine, Terminal, Goto, clock, network
<1>11. CASE Arm
  BY <1>1, <1>11 DEF Arm, Goto, network
<1>12. CASE JudgeStream
  BY <1>12 DEF JudgeStream, Release, clock
<1>13. CASE TimerFires \/ WatchdogExpires
  <2>1. CASE TimerFires
    BY <2>1 DEF TimerFires, Reader, network, clock
  <2>2. CASE WatchdogExpires
    BY <2>2 DEF WatchdogExpires, Reader, network, clock
  <2> QED
    BY <1>13, <2>1, <2>2
<1>14. CASE WatchdogStops \/ CloseClient
  <2>1. CASE WatchdogStops
    BY <2>1 DEF WatchdogStops, Reader, network, clock, Working
  <2>2. CASE CloseClient
    BY <2>2 DEF CloseClient, Reader, network, clock, Working
  <2> QED
    BY <1>14, <2>1, <2>2
<1>15. ASSUME NEW a \in Aborters, Shut(a) PROVE OneSocket'
  BY <1>15 DEF Shut, Deadlined, Reader, clock
<1>16. ASSUME NEW a \in Aborters, CloseConnection(a) PROVE OneSocket'
  BY <1>16 DEF CloseConnection, Close, Reader, clock
<1>17. CASE TotalPasses \/ UsefulPasses
  BY <1>17 DEF TotalPasses, UsefulPasses, Reader, network, Working
<1>18. CASE UNCHANGED stream
  BY <1>18 DEF stream, network, clock
<1>19. QED
  BY <1>2, <1>3, <1>4, <1>5, <1>6, <1>7, <1>8, <1>9, <1>10, <1>11, <1>12, <1>13,
       <1>14, <1>15, <1>16, <1>17, <1>18 DEF StreamNext, Open, Lines, Watch

(* No output hides a deadline that was missed.                              *)
LEMMA LatenessStep ==
    ASSUME StreamTypeOK, Lateness, [StreamNext]_stream
    PROVE  Lateness'
<1> USE DEF StreamTypeOK, Lateness
<1>1. ASSUME Raise, pc \notin {"ended", "done"} PROVE Lateness'
  BY <1>1 DEF Raise, Release, clock
<1>2. CASE Open
  BY <1>1, <1>2 DEF Open, Connect, SaveSocket,
       CheckExpired, SendRequest, AwaitResponse, Goto, clock, network
<1>3. CASE Response \/ NoResponse \/ Lines
  BY <1>1, <1>3 DEF Response, NoResponse, Lines,
       OtherLine, UsefulLine, Terminal, NoLine, Goto, clock, network
<1>4. CASE Deadline \/ Arm
  BY <1>1, <1>4 DEF Deadline, Deadlined, Arm, Goto, clock, network
<1>5. CASE JudgeStream
  BY <1>5 DEF JudgeStream, Release, clock
<1>6. CASE TimerFires
  BY <1>6 DEF TimerFires, Reader, network, clock
<1>7. CASE WatchdogExpires
  BY <1>7 DEF WatchdogExpires, Reader, network, clock
<1>8. CASE WatchdogStops \/ CloseClient
  <2>1. UNCHANGED <<Reader, clock>>
    BY <1>8 DEF WatchdogStops, CloseClient
  <2> QED
    BY <2>1 DEF Reader, clock
<1>9. ASSUME NEW a \in Aborters, Shut(a) PROVE Lateness'
  BY <1>9 DEF Shut, Deadlined, Reader, clock
<1>10. ASSUME NEW a \in Aborters, CloseConnection(a) PROVE Lateness'
  BY <1>10 DEF CloseConnection, Close, Reader, clock
<1>11. CASE TotalPasses \/ UsefulPasses
  BY <1>11 DEF TotalPasses, UsefulPasses, Reader, network, Working
<1>12. CASE UNCHANGED stream
  BY <1>12 DEF stream, network, clock
<1>13. QED
  BY <1>2, <1>3, <1>4, <1>5, <1>6, <1>7, <1>8, <1>9, <1>10, <1>11, <1>12
     DEF StreamNext, Watch

(* The verdict is given once, and nothing it rests on changes afterwards.   *)
LEMMA PassedStep ==
    ASSUME StreamTypeOK, OneSocket, Lateness, PassedInTime,
         [StreamNext]_stream
    PROVE  PassedInTime'
<1> USE DEF StreamTypeOK, OneSocket, Lateness, PassedInTime, Unclosed
<1>1. ASSUME Raise, pc \notin {"ended", "done"} PROVE PassedInTime'
  BY <1>1 DEF Raise, Release, clock
<1>2. CASE Open
  BY <1>1, <1>2 DEF Open, Connect, SaveSocket,
       CheckExpired, SendRequest, AwaitResponse, Goto, clock, network
<1>3. CASE Response \/ NoResponse \/ Lines
  BY <1>1, <1>3 DEF Response, NoResponse, Lines,
       OtherLine, UsefulLine, Terminal, NoLine, Goto, clock, network
<1>4. CASE Deadline \/ Arm
  BY <1>1, <1>4 DEF Deadline, Deadlined, Arm, Goto, clock, network
<1>5. CASE JudgeStream
  BY <1>5 DEF JudgeStream, Release, clock
<1>6. CASE TimerFires
  BY <1>6 DEF TimerFires, Reader, network, clock
<1>7. CASE WatchdogExpires
  BY <1>7 DEF WatchdogExpires, Reader, network, clock
<1>8. CASE WatchdogStops \/ CloseClient
  <2>1. CASE WatchdogStops
    BY <2>1 DEF WatchdogStops, Reader, network, clock
  <2>2. CASE CloseClient
    BY <2>2 DEF CloseClient, Reader, network, clock, Working
  <2> QED
    BY <1>8, <2>1, <2>2
<1>9. ASSUME NEW a \in Aborters, Shut(a) PROVE PassedInTime'
  BY <1>9 DEF Shut, Deadlined, Reader, clock
<1>10. ASSUME NEW a \in Aborters, CloseConnection(a) PROVE PassedInTime'
  BY <1>10 DEF CloseConnection, Close, Reader, clock
<1>11. CASE TotalPasses \/ UsefulPasses
  BY <1>11 DEF TotalPasses, UsefulPasses, Reader, network, Working
<1>12. CASE UNCHANGED stream
  BY <1>12 DEF stream, network, clock
<1>13. QED
  BY <1>2, <1>3, <1>4, <1>5, <1>6, <1>7, <1>8, <1>9, <1>10, <1>11, <1>12
     DEF StreamNext, Watch

(* What the timer shuts down stays so.                                      *)
LEMMA ShutDownStep ==
    ASSUME StreamTypeOK, Reasons, OneSocket, ShutDown, [StreamNext]_stream
    PROVE  ShutDown'
<1> USE DEF StreamTypeOK, Reasons, OneSocket, ShutDown, Unclosed, Aborters, Sockets
<1>1. ASSUME Raise, pc \notin {"ended", "done"} PROVE ShutDown'
  BY <1>1 DEF Raise, Release, clock
<1>2. CASE Open
  BY <1>1, <1>2 DEF Open, Connect, SaveSocket,
       CheckExpired, SendRequest, AwaitResponse, Goto, clock, network
<1>3. CASE Response \/ NoResponse \/ Lines
  BY <1>1, <1>3 DEF Response, NoResponse, Lines,
       OtherLine, UsefulLine, Terminal, NoLine, Goto, clock, network
<1>4. CASE Deadline \/ Arm
  BY <1>1, <1>4 DEF Deadline, Deadlined, Arm, Goto, clock, network
<1>5. CASE JudgeStream
  BY <1>5 DEF JudgeStream, Release, clock
<1>6. CASE TimerFires
  BY <1>6 DEF TimerFires, Reader, network, clock
<1>7. CASE WatchdogExpires
  BY <1>7 DEF WatchdogExpires, Reader, network, clock
<1>8. CASE WatchdogStops \/ CloseClient
  BY <1>8 DEF WatchdogStops, CloseClient, Reader, network, clock, Working
<1>9. ASSUME NEW a \in Aborters, Shut(a) PROVE ShutDown'
  BY <1>9 DEF Shut, Deadlined, Reader, clock
<1>10. ASSUME NEW a \in Aborters, CloseConnection(a) PROVE ShutDown'
  BY <1>10 DEF CloseConnection, Close, Reader, clock
<1>11. CASE TotalPasses \/ UsefulPasses
  BY <1>11 DEF TotalPasses, UsefulPasses, Reader, network, Working
<1>12. CASE UNCHANGED stream
  BY <1>12 DEF stream, network, clock
<1>13. QED
  BY <1>2, <1>3, <1>4, <1>5, <1>6, <1>7, <1>8, <1>9, <1>10, <1>11, <1>12
     DEF StreamNext, Watch

LEMMA WatchedStep == ASSUME Watched, [StreamNext]_stream PROVE Watched'
BY StreamTypeStep, ReasonsStep, OneSocketStep, LatenessStep, ShutDownStep, PassedStep
   DEF Watched

(* Every variable of a stream keeps its type: the verdict comes with the    *)
(* release of the connection, and only then.                               *)
THEOREM StreamTypeCorrect == StreamSpec => []StreamTypeOK
<1>1. Watched => StreamTypeOK
  BY DEF Watched
<1>2. QED
  BY <1>1, WatchedInit, WatchedStep, PTL DEF StreamSpec

(* Whoever aborts, and whenever: a stream that passed kept every deadline,  *)
(* and was read from the connection that was opened for it.                *)
THEOREM PassedIsInTime == StreamSpec => []PassedInTime
<1>1. Watched => PassedInTime
  BY DEF Watched
<1>2. QED
  BY <1>1, WatchedInit, WatchedStep, PTL DEF StreamSpec

(* The timer of the total timeout never leaves the reading thread waiting   *)
(* on an open socket: what _abort() shuts down is what is read.            *)
THEOREM TimeoutReachesTheSocket == StreamSpec => []StreamAborted
<1>1. Watched => StreamAborted
  BY DEF Watched, ShutDown, OneSocket, Unclosed, StreamAborted
<1>2. QED
  BY <1>1, WatchedInit, WatchedStep, PTL DEF StreamSpec
=============================================================================
