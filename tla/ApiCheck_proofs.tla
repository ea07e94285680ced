--------------------------- MODULE ApiCheck_proofs ---------------------------
(***************************************************************************)
(* Proofs about ApiCheck, for any number of long sessions and extra users. *)
(***************************************************************************)
EXTENDS ApiCheck, FiniteSetTheorems, TLAPS

(* The requests of a check are numbered from 1, the long sessions first.    *)
LEMMA Numbered ==
    ASSUME NEW U \in {Longs, Longs \cup Extras}
    PROVE  /\ Cardinality(U) \in Nat \ {0}
           /\ U = 1 .. Cardinality(U)
           /\ Longs \subseteq U /\ U \subseteq Longs \cup Extras
<1>1. IsFiniteSet(Longs \cup Extras)
  BY ApiCheckAssumption, FS_Union
<1>2. /\ Cardinality(Longs) \in Nat /\ Cardinality(Longs \cup Extras) \in Nat
      /\ Cardinality(Longs) <= Cardinality(Longs \cup Extras)
  BY <1>1, ApiCheckAssumption, FS_CardinalityType, FS_Subset
<1>3. Cardinality(Longs) # 0
  BY <1>2, ApiCheckAssumption
<1>4. Longs \cup Extras = 1 .. Cardinality(Longs \cup Extras)
  BY <1>2, ApiCheckAssumption
<1>5. U = Longs \/ U = Longs \cup Extras
  OBVIOUS
<1>6. CASE U = Longs
  BY <1>2, <1>3, <1>6, ApiCheckAssumption
<1>7. CASE U = Longs \cup Extras
  BY <1>2, <1>3, <1>4, <1>7
<1> QED
  BY <1>5, <1>6, <1>7

-----------------------------------------------------------------------------
(* All there is but the unfinished lines, which only hold up what waits for *)
(* them: a step is one of the check, or leaves it alone.                    *)
core == <<progress, main, collected, errors, streams, clock, outcome>>

LEMMA DripsAside ==
    ASSUME TypeOK, [Next]_vars
    PROVE  [Act]_core /\ drip' \subseteq Longs \cup Extras \cup {0}
<1>1. users \subseteq Longs \cup Extras /\ drip \subseteq Longs \cup Extras \cup {0}
  BY DEF TypeOK
<1>2. CASE Act /\ Ongoing
  BY <1>1, <1>2 DEF Ongoing
<1>3. ASSUME NEW u \in users \cup {0}, Drips(u)
      PROVE  UNCHANGED core /\ drip' \subseteq Longs \cup Extras \cup {0}
  BY <1>1, <1>3 DEF Drips, Streams, core, streams
<1>4. CASE UNCHANGED vars
  BY <1>1, <1>4 DEF vars, core
<1> QED
  BY <1>2, <1>3, <1>4 DEF Next

-----------------------------------------------------------------------------
(* What the types need: futures are collected in order and not past the     *)
(* last, the main thread publishes in three places only, and a status that  *)
(* is about to be reported is a verdict.                                    *)
Collecting ==
    /\ main \in {"enter", "prepare"} => collected = 0
    /\ main = "collect" => collected < Cardinality(users)

Publishes == Publishing("main") => main \in {"enter", "finish", "last"}

Decided ==
    /\ main = "finish" => status \in Verdicts
    /\ main \in {"exit", "join", "last", "report"} /\ raising = "none"
          => status \in Verdicts
    /\ main = "report" => raising = "none"
    /\ main = "drain" => raising # "none"

Typed == TypeOK /\ Collecting /\ Publishes /\ Decided

LEMMA TypedInit == ASSUME Init PROVE Typed
<1>1. Cardinality(users) \in Nat \ {0}
  BY Numbered DEF Init
<1>2. QED
  <2>1. /\ 0 \in 0 .. MaxTime /\ 1 \in 1 .. MaxTime
        /\ 0 \in 0 .. Cardinality(users) /\ 0 < Cardinality(users)
    BY <1>1, ApiCheckAssumption
  <2>2. ProgressTypeOK
    BY DEF Init, ProgressInit, ProgressTypeOK, Publishers, Statuses
  <2>3. TypeOK
    BY <2>1, <2>2 DEF Init, TypeOK
  <2>4. Collecting /\ Publishes /\ Decided
    BY <2>1 DEF Init, ProgressInit, Collecting, Publishes, Publishing, Decided, Publishers
  <2> QED
    BY <2>3, <2>4 DEF Typed

LEMMA TypedStep ==
    ASSUME Typed, [Act]_core, drip' \subseteq Longs \cup Extras \cup {0} PROVE Typed'
<1> USE DEF Typed, TypeOK, ProgressTypeOK, Collecting, Publishes, Publishing, Decided,
            Publishers, Statuses, Verdicts, Busy, Over
<1>1. /\ Cardinality(users) \in Nat \ {0}
      /\ users = 1 .. Cardinality(users)
      /\ Longs \subseteq users /\ users \subseteq Longs \cup Extras
  BY Numbered
<1>2. CASE Gate
  BY <1>2 DEF Gate, Streams, progress, clock, outcome
<1>3. ASSUME NEW u \in users, Connect(u) \/ Terminal(u) PROVE Typed'
  <2>1. CASE Waited(u)
    BY <2>1 DEF Waited, Run, Streams, progress, clock, outcome
  <2>2. CASE Opened(u)
    BY <2>2 DEF Opened, Run, Streams, progress, clock, outcome
  <2>3. CASE Terminal(u)
    BY <2>3 DEF Terminal, Run, Streams, progress, clock, outcome
  <2> QED
    BY <1>3, <2>1, <2>2, <2>3 DEF Connect
<1>4. ASSUME NEW u \in users, Output(u) PROVE Typed'
  <2>1. now \in 0 .. MaxTime
    BY ApiCheckAssumption
  <2>2. /\ first' \in [Longs \cup Extras -> 0 .. MaxTime]
        /\ last' \in [Longs \cup Extras -> 0 .. MaxTime]
        /\ beside' \in [Longs \cup Extras -> SUBSET Longs]
    BY <1>1, <1>4, <2>1 DEF Output
  <2> QED
    BY <1>1, <1>4, <2>2 DEF Output, Streams, progress, clock, outcome
<1>5. ASSUME NEW u \in users, Fails(u) PROVE Typed'
  <2>1. 0 \in 0 .. MaxTime
    BY ApiCheckAssumption
  <2> QED
    BY <1>1, <1>5, <2>1 DEF Fails, Run, Streams, progress, clock, outcome
<1>6. CASE Prepared
  BY <1>1, <1>6 DEF Prepared, Goto, progress, clock, outcome
<1>7. CASE Collect
  BY <1>1, <1>7 DEF Collect, Goto, progress, clock, outcome
<1>8. CASE Judge \/ Interrupt
  <2>1. StampsEnd
    BY <1>8 DEF Judge, Interrupt
  <2>2. /\ first' \in [Longs \cup Extras -> 0 .. MaxTime]
        /\ last' \in [Longs \cup Extras -> 0 .. MaxTime]
        /\ beside' \in [Longs \cup Extras -> SUBSET Longs]
        /\ early' \in BOOLEAN
    <3>1. 0 \in 0 .. MaxTime
      BY ApiCheckAssumption
    <3>2. DOMAIN first = Longs \cup Extras /\ DOMAIN beside = Longs \cup Extras
      OBVIOUS
    <3> QED
      BY <2>1, <3>1, <3>2 DEF StampsEnd
  <2>3. status' \in Statuses /\ (Judge => status' \in Verdicts) /\ shown' \in BOOLEAN
    BY <1>8 DEF Judge, Interrupt, progress
  <2>4. CASE Judge
    BY <2>2, <2>3, <2>4 DEF Judge, Goto, clock
  <2>5. CASE Interrupt
    BY <2>2, <2>3, <2>5 DEF Interrupt, Goto, clock, progress
  <2> QED
    BY <1>8, <2>4, <2>5
<1>9. CASE CheckRaises \/ Drained \/ Exit \/ Join \/ WriteReport
  <2>1. CASE CheckRaises
    BY <2>1 DEF CheckRaises, Goto, Quiet, streams, clock, outcome
  <2>2. CASE Drained
    BY <2>2 DEF Drained, Goto, Quiet, streams, progress, clock, outcome
  <2>3. CASE Exit
    BY <2>3 DEF Exit, Goto, Quiet, streams, clock, outcome
  <2>4. CASE Join
    BY <2>4 DEF Join, Goto, Quiet, streams, clock, outcome
  <2>5. CASE WriteReport
    BY <2>5 DEF WriteReport, Goto, Quiet, streams, progress, clock
  <2> QED
    BY <1>9, <2>1, <2>2, <2>3, <2>4, <2>5
<1>10. CASE Publish
  BY <1>10 DEF Publish, Snapshot, Quiet, streams, progress, clock, outcome
<1>11. CASE Published
  <2>1. main \in {"enter", "finish", "last"}
    BY <1>11 DEF Published, Written
  <2>2. /\ main = "enter" => AfterPublish(main) = "prepare"
        /\ main = "finish" => AfterPublish(main) = "exit"
        /\ main = "last" => AfterPublish(main) = IF raising = "none" THEN "report" ELSE "raised"
    BY DEF AfterPublish
  <2> QED
    BY <1>11, <2>1, <2>2 DEF Published, Written, Unlock, Goto, streams, clock, outcome
<1>12. CASE PublishRaises
  BY <1>12 DEF PublishRaises, NotWritten, Unlock, Goto, Quiet, streams, clock
<1>13. CASE WorkerSteps
  BY <1>13 DEF WorkerSteps, Worker, WorkerPublishes, WorkerPublished, WorkerStops, Snapshot, Written,
       NotWritten, Unlock, streams, clock, outcome
<1>14. CASE Tick \/ DeadlinePasses
  <2>1. CASE Tick
    <3>1. now + 1 \in 1 .. MaxTime
      BY <2>1, ApiCheckAssumption DEF Tick
    <3> QED
      BY <2>1, <3>1 DEF Tick, streams, progress, outcome
  <2>2. CASE DeadlinePasses
    BY <2>2 DEF DeadlinePasses, streams, progress, outcome
  <2> QED
    BY <1>14, <2>1, <2>2
<1>15. CASE UNCHANGED core
  BY <1>15 DEF core, progress, streams, clock, outcome
<1>16. QED
  BY <1>2, <1>3, <1>4, <1>5, <1>6, <1>7, <1>8, <1>9, <1>10, <1>11, <1>12, <1>13, <1>14, <1>15
     DEF Act, Main, LateLine

(* Every variable keeps its type; in particular no future is collected that *)
(* was not submitted, and only a verdict is reported.                       *)
THEOREM TypeCorrect == Spec => []TypeOK
<1>1. Init => Typed
  BY TypedInit
<1>2. Typed /\ [Next]_vars => Typed'
  BY TypedStep, DripsAside DEF Typed
<1>3. Typed => TypeOK
  BY DEF Typed
<1>4. QED
  BY <1>1, <1>2, <1>3, PTL DEF Spec

-----------------------------------------------------------------------------
(* Why the last snapshot stays. Only the thread that holds the lock has a   *)
(* snapshot; the worker takes no new one after stop, and the main thread    *)
(* gets the lock for its last one only after the worker has written what it *)
(* had.                                                                     *)
Exclusive ==
    /\ \A t \in Publishers : snap[t] # "none" <=> lock = t
    /\ worker = "publish" <=> lock = "worker"

LastOne ==
    /\ main \in {"join", "last", "report", "done"} => stop
    /\ main = "last" /\ lock = "main" => snap["main"] = status
    /\ main \in {"report", "done"} => lock = "none" /\ file = status
    /\ main = "done" => report = status

Snapshots == Exclusive /\ LastOne

LEMMA SnapshotsInit == ASSUME Init PROVE Snapshots
BY DEF Init, ProgressInit, Snapshots, Exclusive, LastOne, Publishers

LEMMA SnapshotsStep == ASSUME Typed, Snapshots, [Act]_core PROVE Snapshots'
<1> USE DEF Snapshots, Exclusive, LastOne, Publishers
<1>1. /\ snap \in [Publishers -> Statuses \cup {"none"}]
      /\ status # "none" /\ lock \in {"main", "worker", "none"}
      /\ lock = "main" => main \in {"enter", "finish", "last"}
  BY DEF Typed, TypeOK, ProgressTypeOK, Publishes, Publishing, Statuses, Verdicts
<1>2. ASSUME UNCHANGED <<progress, main, report>> PROVE Snapshots'
  BY <1>2 DEF progress
<1>3. ASSUME NEW u \in users,
             Connect(u) \/ Output(u) \/ Terminal(u) \/ Fails(u)
      PROVE  Snapshots'
  BY <1>2, <1>3 DEF Connect, Waited, Opened, Output, Terminal, Fails, Streams, outcome
<1>4. CASE Gate \/ Tick \/ DeadlinePasses
  BY <1>2, <1>4 DEF Gate, Tick, DeadlinePasses, Streams, outcome
<1>5. CASE Prepared \/ Collect
  BY <1>5 DEF Prepared, Collect, Goto, progress, outcome
<1>6. CASE Judge \/ CheckRaises
  BY <1>1, <1>6 DEF Judge, CheckRaises, Goto, Quiet
<1>7. CASE Interrupt \/ Drained
  BY <1>7 DEF Interrupt, Drained, Goto, Quiet, progress, outcome
<1>8. CASE Publish
  BY <1>1, <1>8 DEF Publish, Snapshot, Quiet, outcome
<1>9. CASE Published
  <2>1. main = "last" => AfterPublish(main) \in {"report", "raised"}
    BY DEF AfterPublish
  <2>2. main # "last" => AfterPublish(main) \in {"prepare", "exit"}
    BY <1>9 DEF Published, Written, Publishing, Typed, Publishes, AfterPublish
  <2>3. lock = "main" /\ lock' = "none" /\ snap' = [snap EXCEPT !["main"] = "none"]
        /\ main' = AfterPublish(main) /\ file' = snap["main"]
    BY <1>9 DEF Published, Written, Publishing, Unlock, Goto
  <2> QED
    BY <1>1, <1>9, <2>1, <2>2, <2>3 DEF Published, Written, outcome
<1>10. CASE PublishRaises
  BY <1>1, <1>10 DEF PublishRaises, NotWritten, Publishing, Unlock, Goto, Quiet
<1>11. CASE Exit \/ Join
  BY <1>1, <1>11 DEF Exit, Join, Goto, Quiet, outcome
<1>12. CASE WriteReport
  BY <1>12 DEF WriteReport, Goto, Quiet, progress
<1>13. CASE WorkerSteps
  <2>1. CASE WorkerPublishes
    BY <1>1, <1>13, <2>1 DEF WorkerSteps, WorkerPublishes, Snapshot, outcome
  <2>2. CASE WorkerPublished
    BY <1>1, <1>13, <2>2 DEF WorkerSteps, WorkerPublished, Written, NotWritten, Unlock, outcome
  <2>3. CASE WorkerStops
    BY <1>13, <2>3 DEF WorkerSteps, WorkerStops, outcome
  <2> QED
    BY <1>13, <2>1, <2>2, <2>3 DEF WorkerSteps, Worker
<1>14. CASE UNCHANGED core
  BY <1>2, <1>14 DEF core, outcome
<1>15. QED
  BY <1>3, <1>4, <1>5, <1>6, <1>7, <1>8, <1>9, <1>10, <1>11, <1>12, <1>13, <1>14
     DEF Act, Main, LateLine

(* Once the report is written the file says the same: no snapshot that the  *)
(* worker took before replaces it.                                          *)
THEOREM LastSnapshotStaysAlways == Spec => []LastSnapshotStays
<1>1. Init => Typed /\ Snapshots
  BY TypedInit, SnapshotsInit
<1>2. Typed /\ Snapshots /\ [Next]_vars => (Typed /\ Snapshots)'
  BY TypedStep, SnapshotsStep, DripsAside DEF Typed
<1>3. Typed /\ Snapshots => LastSnapshotStays
  BY DEF Snapshots, LastOne, LastSnapshotStays
<1>4. QED
  BY <1>1, <1>2, <1>3, PTL DEF Spec

-----------------------------------------------------------------------------
(* Why a pass means that the streams were beside each other. A stamp later  *)
(* than the first of another request is of output that came beside it; an   *)
(* extra can be sent before a long session has output only if that session  *)
(* has failed; and every failure is collected before the check is judged.   *)
Stamps ==
    /\ \A v \in users : first[v] <= now /\ last[v] <= now /\ (first[v] = 0 => last[v] = 0)
    /\ \A v \in users, l \in Longs : first[v] # 0 /\ first[v] < last[l] => l \in beside[v]

Released ==
    /\ main \in {"enter", "prepare"}
          => ~early /\ events = {} /\ \A u \in users : thread[u] = "none"
    /\ \A u \in users : u \in Extras /\ thread[u] \in {"open", "stream"} => Longs \subseteq events
    /\ main \in {"collect", "judge"} =>
          /\ \A l \in Longs : l \in events => first[l] # 0 \/ thread[l] = "failed"
          /\ early => \E l \in Longs : thread[l] = "failed"

Counted ==
    /\ main \in {"collect", "judge"} =>
          \A u \in 1 .. collected : thread[u] \in Over /\ (thread[u] = "failed" => errors)
    /\ main = "judge" => collected = Cardinality(users)

Passed ==
    /\ status = "passed" =>
          shown /\ main \notin {"enter", "prepare", "collect", "judge", "drain"}
    /\ main # "done" => report = "none"
    /\ report = "passed" => shown

Honest == Stamps /\ Released /\ Counted /\ Passed

LEMMA HonestInit == ASSUME Init PROVE Honest
<1>1. users \subseteq Longs \cup Extras
  BY Numbered DEF Init
<1>2. now = 1 /\ \A v \in users : first[v] = 0 /\ last[v] = 0 /\ thread[v] = "none"
  BY <1>1 DEF Init
<1>3. Stamps
  BY <1>2 DEF Stamps
<1>4. Released /\ Counted /\ Passed
  BY <1>2 DEF Init, ProgressInit, Released, Counted, Passed
<1> QED
  BY <1>3, <1>4 DEF Honest

(* What a check that is judged as passed has shown.                         *)
LEMMA JudgedBeside ==
    ASSUME Typed, Honest, main = "judge", ~errors, Summarize
    PROVE  ~early /\ \A u \in users : beside[u] = Longs
<1> USE DEF Typed, TypeOK, Honest
<1>1. /\ users = 1 .. Cardinality(users) /\ Cardinality(users) \in Nat
      /\ Longs \subseteq users /\ users \subseteq Longs \cup Extras
  BY Numbered
<1>2. \A u \in users : thread[u] # "failed"
  BY <1>1 DEF Counted
<1>3. ~early
  BY <1>1, <1>2 DEF Released
<1>4. \A u \in users : first[u] \in Int /\ last[u] \in Int /\ first[u] # 0
  <2>1. ASSUME NEW u \in users PROVE first[u] \in 0 .. MaxTime /\ last[u] \in 0 .. MaxTime
    BY <1>1
  <2> QED
    BY <2>1, ApiCheckAssumption DEF Summarize, Stamps
<1>5. ASSUME NEW u \in users, NEW l \in Longs PROVE first[u] < last[l]
  <2>1. CASE u \notin Longs
    BY <2>1 DEF Summarize
  <2>2. CASE u = l
    BY <2>2 DEF Summarize
  <2>3. CASE u \in Longs /\ u # l
    <3>1. Cardinality(Longs) \in Nat
      BY ApiCheckAssumption, FS_CardinalityType
    <3>2. Cardinality(Longs) > 1
      BY <2>3, <3>1, ApiCheckAssumption
    <3>3. last[l] - first[u] > 0
      BY <2>3, <3>2 DEF Summarize, Overlap
    <3> QED
      BY <1>1, <1>4, <3>3
  <2> QED
    BY <2>1, <2>2, <2>3
<1>6. ASSUME NEW u \in users PROVE beside[u] = Longs
  <2>1. beside[u] \subseteq Longs
    BY <1>1
  <2>2. Longs \subseteq beside[u]
    BY <1>4, <1>5 DEF Stamps
  <2> QED
    BY <2>1, <2>2
<1> QED
  BY <1>3, <1>6

(* A step that leaves the streams alone and judges nothing.                 *)
LEMMA HonestKept ==
    ASSUME Honest, UNCHANGED <<streams, clock, collected, errors, shown, report>>,
           main' \in {"collect", "judge"} => main = main',
           main' \in {"enter", "prepare"} => main \in {"enter", "prepare"},
           main' = "drain" => main = "drain",
           main' # "done", main # "done", status' = "passed" => status = "passed"
    PROVE  Honest'
<1> USE DEF Honest, streams, clock
<1>1. Stamps' /\ Released'
  BY DEF Stamps, Released
<1>2. Counted' /\ Passed'
  BY DEF Counted, Passed
<1> QED
  BY <1>1, <1>2

LEMMA HonestStep == ASSUME Typed, Honest, [Act]_core PROVE Honest'
<1> USE DEF Honest
<1>1. /\ users = 1 .. Cardinality(users) /\ Cardinality(users) \in Nat \ {0}
      /\ Longs \subseteq users /\ users \subseteq Longs \cup Extras
      /\ collected \in 0 .. Cardinality(users)
      /\ DOMAIN thread = Longs \cup Extras /\ DOMAIN beside = Longs \cup Extras
      /\ DOMAIN first = Longs \cup Extras /\ DOMAIN last = Longs \cup Extras
      /\ now \in Nat \ {0}
  <2>1. users \in {Longs, Longs \cup Extras} /\ now \in 1 .. MaxTime
    BY DEF Typed, TypeOK
  <2>2. now \in Nat \ {0}
    BY <2>1, ApiCheckAssumption
  <2> QED
    BY <2>1, <2>2, Numbered DEF Typed, TypeOK
<1>2. \A v \in users : first[v] \in Nat /\ last[v] \in Nat
  <2>1. \A v \in users : first[v] \in 0 .. MaxTime /\ last[v] \in 0 .. MaxTime
    BY <1>1 DEF Typed, TypeOK
  <2> QED
    BY <2>1, ApiCheckAssumption
<1>3. CASE Gate
  <2>1. /\ UNCHANGED <<users, main, events, first, last, early, beside, now, collected,
                       errors, status, report, shown>>
        /\ \A u \in users : thread[u] = "gate" /\ thread'[u] \in {"wait", "failed"}
    BY <1>1, <1>3 DEF Gate, Streams, clock, outcome, progress
  <2>2. \A u \in 1 .. collected : u \in users
    BY <1>1
  <2>3. Stamps' /\ Released' /\ Passed'
    BY <1>1, <2>1 DEF Stamps, Released, Passed
  <2>4. Counted'
    BY <2>1, <2>2 DEF Counted, Over
  <2> QED
    BY <2>3, <2>4
<1>4. ASSUME NEW u \in users, Waited(u) \/ Opened(u) \/ Terminal(u) PROVE Honest'
  <2>1. /\ UNCHANGED <<users, main, events, first, last, beside, now, collected, errors,
                       status, report, shown>>
        /\ thread[u] \in {"wait", "open", "stream"}
        /\ \A v \in users \ {u} : thread'[v] = thread[v]
        /\ thread'[u] \in {"open", "stream"} /\ u \in Extras => Longs \subseteq events
        /\ early' => early \/ (u \in Extras /\ \E l \in Longs : first[l] = 0)
        /\ early' # early => thread[u] = "open"
    <3>1. CASE Waited(u)
      BY <1>1, <3>1 DEF Waited, Run, WaitsFor, Streams, clock, outcome, progress
    <3>2. CASE Opened(u)
      BY <1>1, <3>2 DEF Opened, Run, Streams, clock, outcome, progress, Released
    <3>3. CASE Terminal(u)
      BY <1>1, <3>3 DEF Terminal, Run, Streams, clock, outcome, progress, Released
    <3> QED
      BY <1>4, <3>1, <3>2, <3>3
  <2>2. Stamps' /\ Passed'
    BY <2>1 DEF Stamps, Passed
  <2>3. Released'
    BY <1>1, <2>1 DEF Released
  <2>4. Counted'
    BY <1>1, <2>1 DEF Counted, Over
  <2> QED
    BY <2>2, <2>3, <2>4
<1>5. ASSUME NEW u \in users, Output(u) PROVE Honest'
  <2>1. /\ UNCHANGED <<users, main, thread, early, now, collected, errors, status, report, shown>>
        /\ thread[u] = "stream"
        /\ \A v \in users \ {u} : first'[v] = first[v] /\ last'[v] = last[v]
        /\ first'[u] = IF first[u] = 0 THEN now ELSE first[u]
        /\ last'[u] = now /\ events' = events \cup {u}
        /\ \A v \in users : beside'[v] =
              IF u \in Longs /\ first[v] # 0 THEN beside[v] \cup {u} ELSE beside[v]
    BY <1>1, <1>5 DEF Output, Streams, clock, outcome, progress
  <2>2. Stamps'
    <3>1. ASSUME NEW v \in users
          PROVE  first'[v] <= now /\ last'[v] <= now /\ (first'[v] = 0 => last'[v] = 0)
      BY <1>1, <1>2, <2>1 DEF Stamps
    <3>2. ASSUME NEW v \in users, NEW l \in Longs, first'[v] # 0, first'[v] < last'[l]
          PROVE  l \in beside'[v]
      <4>1. first[v] # 0
        BY <1>1, <1>2, <2>1, <3>2 DEF Stamps
      <4>2. CASE l = u
        BY <2>1, <4>1, <4>2
      <4>3. CASE l # u
        BY <1>1, <2>1, <3>2, <4>1, <4>3 DEF Stamps
      <4> QED
        BY <4>2, <4>3
    <3> QED
      BY <2>1, <3>1, <3>2 DEF Stamps
  <2>3. Released'
    BY <1>1, <1>2, <2>1 DEF Released
  <2>4. Counted' /\ Passed'
    BY <2>1 DEF Counted, Passed
  <2> QED
    BY <2>2, <2>3, <2>4
<1>6. ASSUME NEW u \in users, Fails(u) PROVE Honest'
  <2>1. /\ UNCHANGED <<users, main, events, early, now, collected, errors, status, report, shown>>
        /\ thread[u] \in {"open", "stream"} /\ thread'[u] = "failed"
        /\ \A v \in users \ {u} :
              /\ first'[v] = first[v] /\ last'[v] = last[v]
              /\ thread'[v] = thread[v] /\ beside'[v] = beside[v]
        /\ first'[u] = 0 /\ last'[u] = 0
    BY <1>1, <1>6 DEF Fails, Run, Streams, clock, outcome, progress
  <2>2. Stamps'
    BY <1>1, <1>2, <2>1 DEF Stamps
  <2>3. Released'
    BY <1>1, <2>1 DEF Released
  <2>4. Counted' /\ Passed'
    BY <1>1, <2>1 DEF Counted, Passed, Over
  <2> QED
    BY <2>2, <2>3, <2>4
<1>7. CASE Prepared
  <2>1. /\ UNCHANGED <<users, events, first, last, early, beside, now, collected, errors,
                       status, report, shown>>
        /\ main = "prepare" /\ main' = "collect" /\ collected = 0
        /\ \A u \in users : thread'[u] = "gate"
    BY <1>1, <1>7 DEF Prepared, Goto, progress, clock, outcome, Typed, Collecting
  <2>2. Stamps' /\ Passed'
    BY <2>1 DEF Stamps, Passed
  <2>3. Released' /\ Counted'
    BY <1>1, <2>1 DEF Released, Counted
  <2> QED
    BY <2>2, <2>3
<1>8. CASE Collect
  <2>1. /\ UNCHANGED <<users, thread, first, last, early, beside, now, status, report, shown>>
        /\ main = "collect" /\ main' \in {"collect", "judge"}
        /\ main' = "judge" => collected + 1 = Cardinality(users)
        /\ thread[collected + 1] \in Over /\ collected' = collected + 1
        /\ errors' = (errors \/ thread[collected + 1] = "failed")
        /\ events' = IF thread[collected + 1] = "failed" THEN events \cup {collected + 1}
                     ELSE events
    BY <1>8 DEF Collect, Goto, progress, clock, outcome
  <2>2. Stamps' /\ Passed'
    BY <2>1 DEF Stamps, Passed
  <2>3. Released'
    BY <1>1, <2>1 DEF Released
  <2>4. \A u \in 1 .. collected' : u \in 1 .. collected \/ u = collected + 1
    BY <1>1, <2>1
  <2>5. Counted'
    BY <2>1, <2>4 DEF Counted
  <2> QED
    BY <2>2, <2>3, <2>5
<1>9. CASE StampsEnd /\ (Judge \/ Interrupt)
  <2>1. UNCHANGED <<users, now>> /\ \A v \in users : first'[v] = 0 /\ last'[v] = 0
    BY <1>1, <1>9 DEF StampsEnd, Judge, Interrupt, clock
  <2>2. Stamps'
    BY <1>1, <2>1 DEF Stamps
  <2>3. UNCHANGED <<users, thread, events, report>> /\ main' \in {"finish", "drain"}
    BY <1>9 DEF Judge, Interrupt, Goto
  <2>4. Released' /\ Counted'
    BY <2>3 DEF Released, Counted
  <2>5. CASE Judge
    <3>1. status' = "passed" => shown'
      BY <2>5, JudgedBeside DEF Judge
    <3> QED
      BY <2>2, <2>3, <2>4, <2>5, <3>1 DEF Judge, Goto, Passed
  <2>6. CASE Interrupt
    BY <2>2, <2>4, <2>6 DEF Interrupt, Goto, progress, Passed
  <2> QED
    BY <1>9, <2>5, <2>6
<1>10. CASE CheckRaises
  BY <1>10, HonestKept DEF CheckRaises, Goto, Quiet, outcome
<1>11. CASE Drained
  BY <1>11, HonestKept DEF Drained, Goto, Quiet, progress, outcome
<1>12. CASE Publish
  BY <1>12, HonestKept DEF Publish, Snapshot, Quiet, outcome
<1>13. CASE Published
  <2>1. \/ main = "enter" /\ AfterPublish(main) = "prepare"
        \/ main \in {"finish", "last"} /\ AfterPublish(main) \in {"exit", "report", "raised"}
    BY <1>13 DEF Published, Written, Publishing, Typed, Publishes, AfterPublish
  <2> QED
    BY <1>13, <2>1, HonestKept DEF Published, Written, Goto, outcome
<1>14. CASE PublishRaises
  <2>1. main \in {"enter", "finish", "last"}
    BY <1>14 DEF PublishRaises, NotWritten, Publishing, Typed, Publishes
  <2> QED
    BY <1>14, <2>1, HonestKept DEF PublishRaises, NotWritten, Goto, Quiet
<1>15. CASE Exit
  BY <1>15, HonestKept DEF Exit, Goto, Quiet, outcome
<1>16. CASE Join
  BY <1>16, HonestKept DEF Join, Goto, Quiet, outcome, Typed, TypeOK
<1>17. CASE WriteReport
  <2>1. UNCHANGED <<users, thread, events, first, last, early, beside, now, collected, errors,
                    status, shown>>
    BY <1>17 DEF WriteReport, Quiet, streams, clock, progress
  <2>2. /\ main = "report"
        /\ \/ main' = "done" /\ report' = status
           \/ main' = "raised" /\ report' = report
    BY <1>17 DEF WriteReport, Goto
  <2>3. Stamps' /\ Released' /\ Counted'
    BY <2>1, <2>2 DEF Stamps, Released, Counted
  <2>4. Passed'
    BY <2>1, <2>2 DEF Passed
  <2> QED
    BY <2>3, <2>4
<1>18. CASE WorkerSteps
  <2>1. UNCHANGED <<status, main, streams, clock, collected, errors, shown, report>>
    BY <1>18 DEF WorkerSteps, Worker, WorkerPublishes, WorkerPublished, WorkerStops, Snapshot,
                 Written, NotWritten, outcome
  <2> QED
    BY <2>1 DEF streams, clock, Stamps, Released, Counted, Passed
<1>19. CASE Tick \/ DeadlinePasses
  <2>1. /\ UNCHANGED <<users, thread, events, first, last, early, beside, main, collected,
                       errors, status, report, shown>>
        /\ now' \in {now, now + 1}
    BY <1>19 DEF Tick, DeadlinePasses, streams, progress, outcome
  <2>2. Stamps'
    BY <1>1, <1>2, <2>1 DEF Stamps
  <2>3. Released' /\ Counted' /\ Passed'
    BY <2>1 DEF Released, Counted, Passed
  <2> QED
    BY <2>2, <2>3
<1>20. CASE UNCHANGED core
  BY <1>20 DEF core, progress, streams, clock, outcome, Stamps, Released, Counted, Passed
<1>21. QED
  BY <1>3, <1>4, <1>5, <1>6, <1>7, <1>8, <1>9, <1>10, <1>11, <1>12, <1>13, <1>14, <1>15,
     <1>16, <1>17, <1>18, <1>19, <1>20
     DEF Act, Main, Connect, LateLine, Judge, Interrupt

(* A check that reports "passed" had every request beside every long session. *)
THEOREM PassedBesideAlways == Spec => []PassedBeside
<1>1. Init => Typed /\ Honest
  BY TypedInit, HonestInit
<1>2. Typed /\ Honest /\ [Next]_vars => (Typed /\ Honest)'
  BY TypedStep, HonestStep, DripsAside DEF Typed
<1>3. Typed /\ Honest => PassedBeside
  BY DEF Honest, Passed, PassedBeside
<1>4. QED
  BY <1>1, <1>2, <1>3, PTL DEF Spec
=============================================================================
