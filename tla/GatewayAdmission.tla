-------------------------- MODULE GatewayAdmission --------------------------
(***************************************************************************)
(* What _render() of qwen_bench/gateway.py has HAProxy do with requests:   *)
(* which it admits, to which backend, and what it remembers of sessions.   *)
(* The rules and limits are the code's; how HAProxy applies them (stick    *)
(* tables, leastconn, queues) is external. One thread evaluates the rules  *)
(* of a request without a pause, so that admission is one step.            *)
(*                                                                         *)
(* Left out: authentication, body limits and the rate limit, which refuse  *)
(* a request before any of this.                                           *)
(***************************************************************************)
EXTENDS Integers, FiniteSets

CONSTANTS Servers,      \* worker1, worker2, ...
          Sessions,     \* values of X-Session-ID
          Connections,  \* as many as gateway_maxconn
          Active,       \* gateway_backend_maxconn
          Queued,       \* gateway_backend_maxqueue
          MaxSessions,  \* gateway_session_table_size
          Nobody        \* no session, no server, no entry

Reserved == "reserved"      \* an entry without a server yet

ASSUME AdmissionAssumption ==
    /\ Nobody \notin Servers \cup Sessions /\ Reserved \notin Servers \cup {Nobody}
    /\ {Active, Queued, MaxSessions} \subseteq Nat \ {0}
    /\ IsFiniteSet(Servers) /\ IsFiniteSet(Sessions) /\ IsFiniteSet(Connections)

VARIABLES
    up,         \* the servers whose health checks pass
    table,      \* the stick table: the server of each session
    conn        \* what each connection of the frontend is doing

avars == <<up, table, conn>>

\* server: whose slot or queue it takes, Nobody for the pool's queue; spare: its
\* own record of the table.
Conns == [place : {"free", "active", "queued"}, session : Sessions \cup {Nobody},
          server : Servers \cup {Nobody}, spare : BOOLEAN]

Free == [place |-> "free", session |-> Nobody, server |-> Nobody, spare |-> FALSE]

AdmissionTypeOK ==
    /\ up \subseteq Servers
    /\ table \in [Sessions -> Servers \cup {Nobody, Reserved}]
    /\ conn \in [Connections -> Conns]

\* init-state fully-down
AdmissionInit ==
    /\ up = {}
    /\ table = [s \in Sessions |-> Nobody]
    /\ conn = [c \in Connections |-> Free]

On(place, w) == {c \in Connections : conn[c].place = place /\ conn[c].server = w}
InQueue == {c \in Connections : conn[c].place = "queued"}
Known == {s \in Sessions : table[s] # Nobody}
Entries == Cardinality(Known) + Cardinality({c \in Connections : conn[c].spare})
Load(w) == Cardinality(On("active", w)) + Cardinality(On("queued", w))

\* MUTANT of TableSize: without a spare record per connection.
TableSizeExact == MaxSessions

TableSize == MaxSessions + Cardinality(Connections)

-----------------------------------------------------------------------------
(* The rules of the frontend                                               *)

Affinity(s) == IF s # Nobody /\ table[s] \in up THEN table[s] ELSE Nobody

\* MUTANT of Admitted: the queue of the session's own server is not asked.
AdmittedUnpinned(s) ==
    /\ Cardinality(InQueue) < Queued * Cardinality(Servers)
    /\ s \notin Known \cup {Nobody} => Entries < MaxSessions

\* Otherwise 503.
Admitted(s) ==
    /\ Cardinality(InQueue) < Queued * Cardinality(Servers)
    /\ Affinity(s) # Nobody => Cardinality(On("queued", Affinity(s))) < Queued
    /\ s \notin Known \cup {Nobody} => Entries < MaxSessions

\* A server takes a request while its queue (maxqueue) has room.
Room(w) == w \in up /\ Cardinality(On("queued", w)) < Queued

\* stick on, or else leastconn; with all servers full the queue of the pool.
Routes(s) ==
    IF Affinity(s) # Nobody /\ Room(Affinity(s)) THEN {Affinity(s)}
    ELSE IF \E w \in Servers : Room(w)
    THEN {w \in Servers : Room(w) /\ \A v \in Servers : Room(v) => Load(w) <= Load(v)}
    ELSE {Nobody}

Placed(s, w) ==
    [place   |-> IF w # Nobody /\ Load(w) < Active THEN "active" ELSE "queued",
     session |-> s, server |-> w,
     spare   |-> s # Nobody
                 /\ Entries + (IF s \in Known THEN 0 ELSE 1) < TableSize]

\* track-sc1 reserves the entry, also when there is no server for the request.
Admit(c, s) ==
    /\ conn[c] = Free
    /\ Admitted(s)
    /\ table' = [t \in Sessions |-> IF t = s /\ table[t] = Nobody THEN Reserved ELSE table[t]]
    /\ \E w \in Routes(s) :
          conn' = IF up = {} THEN conn ELSE [conn EXCEPT ![c] = Placed(s, w)]
    /\ UNCHANGED up

-----------------------------------------------------------------------------
(* HAProxy and the servers                                                 *)

\* A slot for the first of its server's queue or of the pool's.
Dequeue(c, w) ==
    /\ c \in On("queued", w) \cup On("queued", Nobody)
    /\ w \in up /\ Cardinality(On("active", w)) < Active
    /\ conn' = [conn EXCEPT ![c].place = "active", ![c].server = w]
    /\ UNCHANGED <<up, table>>

\* stick on: the answer stores the server, with the record kept for it.
Answer(c) ==
    /\ conn[c].place = "active" /\ conn[c].spare
    /\ table' = [table EXCEPT ![conn[c].session] = conn[c].server]
    /\ conn' = [conn EXCEPT ![c].spare = FALSE]
    /\ UNCHANGED up

\* The answer is over, the client is gone, or the queue timeout (503).
Leave(c) ==
    /\ conn[c] # Free
    /\ conn' = [conn EXCEPT ![c] = Free]
    /\ UNCHANGED <<up, table>>

\* An entry that no connection tracks expires; nothing else removes it (nopurge).
Expire(s) ==
    /\ s \in Known /\ \A c \in Connections : conn[c].session # s
    /\ table' = [table EXCEPT ![s] = Nobody]
    /\ UNCHANGED <<up, conn>>

\* Three failed checks, or one good one. What is queued stays (no redispatch).
Health(w) ==
    /\ up' = IF w \in up THEN up \ {w} ELSE up \cup {w}
    /\ UNCHANGED <<table, conn>>

Admission ==
    \/ \E c \in Connections : \/ \E s \in Sessions \cup {Nobody} : Admit(c, s)
                              \/ \E w \in Servers : Dequeue(c, w)
                              \/ Answer(c) \/ Leave(c)
    \/ \E s \in Sessions : Expire(s)
    \/ \E w \in Servers : Health(w)

-----------------------------------------------------------------------------
(* Properties                                                              *)

\* "established mappings are retained": a request of a session that is mapped
\* to a healthy server goes there, also when all its slots are taken, and waits
\* for that one (gateway.py:257-263, 283).
AffinityKept ==
    [][\A c \in Connections :
          /\ conn[c] = Free /\ Affinity(conn'[c].session) # Nobody
                => conn'[c].server = Affinity(conn'[c].session)
          /\ conn[c].server # Nobody /\ conn'[c].place # "free"
                => conn'[c].server = conn[c].server]_avars

\* Conversations and queues stay within their configured limits, and within
\* them nothing is lost: no admitted session lacks the record that is to
\* remember its server (gateway.py:255, 271-274, 279-283, 289).
WithinLimits ==
    /\ Cardinality(Known) <= MaxSessions
    /\ Cardinality(InQueue) <= Queued * Cardinality(Servers)
    /\ \A w \in Servers : /\ Cardinality(On("active", w)) <= Active
                          /\ Cardinality(On("queued", w)) <= Queued
    /\ \A c \in Connections : conn[c].session # Nobody =>
          /\ conn[c].session \in Known
          /\ conn[c].spare \/ table[conn[c].session] # Reserved
=============================================================================
