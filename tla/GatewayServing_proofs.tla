------------------------ MODULE GatewayServing_proofs ------------------------
(***************************************************************************)
(* Proofs about GatewayServing, for any number of gateways, servers,       *)
(* sessions and connections, and any limits.                               *)
(***************************************************************************)
EXTENDS GatewayServing, FiniteSetTheorems, TLAPS

(* Sets that stay as they are, or gain one element.                         *)
LEMMA NotMore ==
    ASSUME NEW T, IsFiniteSet(T), NEW S, S \subseteq T, NEW n \in Nat, Cardinality(T) <= n
    PROVE  Cardinality(S) <= n
<1>1. /\ IsFiniteSet(S) /\ Cardinality(S) <= Cardinality(T)
      /\ Cardinality(S) \in Nat /\ Cardinality(T) \in Nat
  BY FS_Subset, FS_CardinalityType
<1> QED
  BY <1>1

LEMMA OneMore ==
    ASSUME NEW T, IsFiniteSet(T), NEW x, NEW S, S \subseteq T \cup {x},
           NEW n \in Nat, Cardinality(T) < n
    PROVE  Cardinality(S) <= n
<1>1. IsFiniteSet(T \cup {x}) /\ Cardinality(T \cup {x}) <= n
  <2>1. Cardinality(T) \in Nat
    BY FS_CardinalityType
  <2>2. /\ IsFiniteSet(T \cup {x})
        /\ Cardinality(T \cup {x}) = IF x \in T THEN Cardinality(T) ELSE Cardinality(T) + 1
    BY FS_AddElement
  <2> QED
    BY <2>1, <2>2
<1> QED
  BY <1>1, NotMore

LEMMA Finite ==
    /\ IsFiniteSet(Known)
    /\ IsFiniteSet(InQueue)
    /\ \A p, w : IsFiniteSet(On(p, w)) /\ Cardinality(On(p, w)) \in Nat
    /\ Cardinality(Known) \in Nat /\ Cardinality(InQueue) \in Nat
<1>1. Known \subseteq Sessions /\ InQueue \subseteq Connections
  BY DEF Known, InQueue
<1>2. ASSUME NEW p, NEW w PROVE IsFiniteSet(On(p, w)) /\ Cardinality(On(p, w)) \in Nat
  <2>1. On(p, w) \subseteq Connections
    BY DEF On
  <2> QED
    BY <2>1, AdmissionAssumption, FS_Subset, FS_CardinalityType
<1>3. IsFiniteSet(Known) /\ IsFiniteSet(InQueue)
  BY <1>1, AdmissionAssumption, FS_Subset
<1> QED
  BY <1>2, <1>3, FS_CardinalityType

-----------------------------------------------------------------------------
(* The types of the admission.                                              *)

(* A session that has an entry keeps its record: an admitted request has one *)
(* of its own until the answer has stored the server.                       *)
Tracked ==
    \A c \in Connections :
        /\ conn[c].place = "active" => conn[c].server # Nobody
        /\ conn[c].spare => conn[c].session # Nobody

LEMMA FreeIsConn == Free \in Conns
BY DEF Free, Conns

LEMMA AffinityTyped ==
    ASSUME AdmissionTypeOK, NEW s \in Sessions \cup {Nobody}
    PROVE  Affinity(s) \in Servers \cup {Nobody}
BY DEF AdmissionTypeOK, Affinity

LEMMA RoutesTyped ==
    ASSUME AdmissionTypeOK, NEW s \in Sessions \cup {Nobody}
    PROVE  Routes(s) \subseteq Servers \cup {Nobody}
BY AffinityTyped DEF Routes

LEMMA PlacedTyped ==
    ASSUME NEW s \in Sessions \cup {Nobody}, NEW w \in Servers \cup {Nobody}
    PROVE  Placed(s, w) \in Conns
BY DEF Placed, Conns

LEMMA AdmissionTyped == ASSUME AdmissionTypeOK, Tracked, Admission PROVE AdmissionTypeOK'
<1> USE DEF AdmissionTypeOK
<1>1. ASSUME NEW c \in Connections, NEW s \in Sessions \cup {Nobody}, Admit(c, s)
      PROVE  AdmissionTypeOK'
  <2>1. table' \in [Sessions -> Servers \cup {Nobody, Reserved}] /\ up' = up
    BY <1>1 DEF Admit
  <2>2. PICK w \in Routes(s) : conn' = IF up = {} THEN conn ELSE [conn EXCEPT ![c] = Placed(s, w)]
    BY <1>1 DEF Admit
  <2>3. Placed(s, w) \in Conns
    BY <2>2, RoutesTyped, PlacedTyped
  <2> QED
    BY <2>1, <2>2, <2>3
<1>2. ASSUME NEW c \in Connections, NEW w \in Servers, Dequeue(c, w) PROVE AdmissionTypeOK'
  <2>1. [conn[c] EXCEPT !.place = "active", !.server = w] \in Conns
    BY DEF Conns
  <2>2. conn' = [conn EXCEPT ![c] = [conn[c] EXCEPT !.place = "active", !.server = w]]
    BY <1>2 DEF Dequeue
  <2> QED
    BY <1>2, <2>1, <2>2 DEF Dequeue
<1>3. ASSUME NEW c \in Connections, Answer(c) PROVE AdmissionTypeOK'
  <2>1. conn[c].session \in Sessions /\ conn[c].server \in Servers
    BY <1>3 DEF Answer, Tracked, Conns
  <2>2. [conn[c] EXCEPT !.spare = FALSE] \in Conns
    BY DEF Conns
  <2> QED
    BY <1>3, <2>1, <2>2 DEF Answer
<1>4. ASSUME NEW c \in Connections, Leave(c) PROVE AdmissionTypeOK'
  BY <1>4, FreeIsConn DEF Leave
<1>5. ASSUME NEW s \in Sessions, Expire(s) PROVE AdmissionTypeOK'
  BY <1>5 DEF Expire
<1>6. ASSUME NEW w \in Servers, Health(w) PROVE AdmissionTypeOK'
  BY <1>6 DEF Health
<1>7. QED
  BY <1>1, <1>2, <1>3, <1>4, <1>5, <1>6 DEF Admission

-----------------------------------------------------------------------------
(* Admission one request at a time: what the step does to the connection.   *)
LEMMA Others ==
    ASSUME AdmissionTypeOK, NEW c \in Connections, NEW x,
           conn' = [conn EXCEPT ![c] = x]
    PROVE  conn'[c] = x /\ \A d \in Connections \ {c} : conn'[d] = conn[d]
BY DEF AdmissionTypeOK

(* The room that a placement takes was there.                               *)
LEMMA RouteHasRoom ==
    ASSUME AdmissionTypeOK, NEW s \in Sessions \cup {Nobody}, NEW w \in Routes(s)
    PROVE  w # Nobody => Room(w)
BY DEF Routes

LEMMA Pinned ==
    ASSUME AdmissionTypeOK, NEW s \in Sessions \cup {Nobody}, Admitted(s), Affinity(s) # Nobody
    PROVE  Routes(s) = {Affinity(s)}
BY DEF Affinity, Admitted, Routes, Room

LEMMA AffinityStep ==
    ASSUME AdmissionTypeOK, Admission, NEW c \in Connections
    PROVE  /\ conn[c] = Free /\ Affinity(conn'[c].session) # Nobody
                => conn'[c].server = Affinity(conn'[c].session)
           /\ conn[c].server # Nobody /\ conn'[c].place # "free"
                => conn'[c].server = conn[c].server
<1> DEFINE Kept == /\ conn[c] = Free /\ Affinity(conn'[c].session) # Nobody
                         => conn'[c].server = Affinity(conn'[c].session)
                   /\ conn[c].server # Nobody /\ conn'[c].place # "free"
                         => conn'[c].server = conn[c].server
<1>1. ASSUME conn'[c] = conn[c] PROVE Kept
  BY <1>1 DEF Free, Affinity
<1> HIDE DEF Kept
<1>2. ASSUME NEW d \in Connections, NEW s \in Sessions \cup {Nobody}, Admit(d, s) PROVE Kept
  <2>1. PICK w \in Routes(s) : conn' = IF up = {} THEN conn ELSE [conn EXCEPT ![d] = Placed(s, w)]
    BY <1>2 DEF Admit
  <2>2. CASE up = {} \/ d # c
    BY <1>1, <2>1, <2>2, Others
  <2>3. CASE up # {} /\ d = c
    <3>1. conn'[c].session = s /\ conn'[c].server = w
      BY <2>1, <2>3, Others DEF Placed
    <3>2. conn[c].server = Nobody
      BY <1>2, <2>3 DEF Admit, Free
    <3>3. Affinity(s) # Nobody => w = Affinity(s)
      BY <1>2, <2>1, Pinned DEF Admit
    <3> QED
      BY <3>1, <3>2, <3>3 DEF Kept
  <2> QED
    BY <2>2, <2>3
<1>3. ASSUME NEW d \in Connections, NEW w \in Servers, Dequeue(d, w) PROVE Kept
  <2>1. conn' = [conn EXCEPT ![d] = [conn[d] EXCEPT !.place = "active", !.server = w]]
    BY <1>3 DEF Dequeue
  <2>2. CASE d # c
    BY <1>1, <2>1, <2>2, Others
  <2>3. CASE d = c
    <3>1. conn[c] \in Conns /\ conn[c].place = "queued" /\ conn[c].server \in {w, Nobody}
      BY <1>3, <2>3 DEF Dequeue, On, AdmissionTypeOK
    <3>2. conn'[c] = [conn[c] EXCEPT !.place = "active", !.server = w]
      BY <2>1, <2>3, Others
    <3>3. conn'[c].server = w
      BY <3>1, <3>2 DEF Conns
    <3> QED
      BY <3>1, <3>3 DEF Kept, Free
  <2> QED
    BY <2>2, <2>3
<1>4. ASSUME NEW d \in Connections, Answer(d) PROVE Kept
  <2>1. conn' = [conn EXCEPT ![d] = [conn[d] EXCEPT !.spare = FALSE]]
    BY <1>4 DEF Answer
  <2>2. CASE d # c
    BY <1>1, <2>1, <2>2, Others
  <2>3. CASE d = c
    <3>1. conn[c] \in Conns /\ conn[c].place = "active"
      BY <1>4, <2>3 DEF Answer, AdmissionTypeOK
    <3>2. conn'[c].server = conn[c].server
      BY <2>1, <2>3, <3>1, Others DEF Conns
    <3> QED
      BY <3>1, <3>2 DEF Kept, Free
  <2> QED
    BY <2>2, <2>3
<1>5. ASSUME NEW d \in Connections, Leave(d) PROVE Kept
  <2>1. conn' = [conn EXCEPT ![d] = Free] /\ conn[d] # Free
    BY <1>5 DEF Leave
  <2>2. CASE d # c
    BY <1>1, <2>1, <2>2, Others
  <2>3. CASE d = c
    BY <2>1, <2>3, Others DEF Kept, Free
  <2> QED
    BY <2>2, <2>3
<1>6. ASSUME UNCHANGED conn PROVE Kept
  BY <1>1, <1>6
<1>7. Kept
  BY <1>2, <1>3, <1>4, <1>5, <1>6 DEF Admission, Expire, Health
<1> QED
  BY <1>7 DEF Kept

-----------------------------------------------------------------------------
(* The limits. The table has a spare record for every connection, so that   *)
(* an admitted session always gets one of its own.                          *)
Spares == {c \in Connections : conn[c].spare}

LEMMA SpareLeft ==
    ASSUME AdmissionTypeOK, WithinLimits, NEW c \in Connections, conn[c] = Free,
           NEW s \in Sessions, Admitted(s)
    PROVE  Entries + (IF s \in Known THEN 0 ELSE 1) < TableSize
<1>1. Spares \subseteq Connections \ {c} /\ Spares \subseteq Connections
  BY DEF Spares, Free
<1>2. /\ Cardinality(Connections) \in Nat
      /\ IsFiniteSet(Connections \ {c})
      /\ Cardinality(Connections \ {c}) = Cardinality(Connections) - 1
  BY AdmissionAssumption, FS_RemoveElement, FS_CardinalityType
<1>3. Cardinality(Spares) \in Nat /\ Cardinality(Spares) <= Cardinality(Connections) - 1
  BY <1>1, <1>2, FS_Subset, FS_CardinalityType
<1>4. /\ Entries = Cardinality(Known) + Cardinality(Spares)
      /\ Cardinality(Known) \in Nat /\ Cardinality(Known) <= MaxSessions
      /\ MaxSessions \in Nat \ {0} /\ s # Nobody
      /\ s \notin Known => Entries < MaxSessions
  BY Finite, AdmissionAssumption DEF Entries, Spares, WithinLimits, Admitted
<1> QED
  BY <1>2, <1>3, <1>4 DEF TableSize

LEMMA KnownGrows ==
    ASSUME AdmissionTypeOK, WithinLimits, NEW s \in Sessions \cup {Nobody}, Admitted(s),
           table' = [t \in Sessions |-> IF t = s /\ table[t] = Nobody THEN Reserved ELSE table[t]]
    PROVE  Cardinality(Known') <= MaxSessions
<1>1. Known' \subseteq Known \cup {s} /\ (s \in Known \cup {Nobody} => Known' \subseteq Known)
  BY AdmissionAssumption DEF Known
<1>2. MaxSessions \in Nat
  BY AdmissionAssumption
<1>3. CASE s \in Known \cup {Nobody}
  BY <1>1, <1>2, <1>3, Finite, NotMore DEF WithinLimits
<1>4. CASE s \notin Known \cup {Nobody}
  <2>1. Spares \subseteq Connections
    BY DEF Spares
  <2>2. Cardinality(Spares) \in Nat
    BY <2>1, AdmissionAssumption, FS_Subset, FS_CardinalityType
  <2>3. Cardinality(Known) < MaxSessions
    BY <1>2, <1>4, <2>2, Finite DEF Admitted, Entries, Spares
  <2> QED
    BY <1>1, <1>2, <2>3, Finite, OneMore
<1> QED
  BY <1>3, <1>4

(* The queues and slots after one connection has changed.                   *)
QueuesKept ==
    /\ Cardinality(InQueue) <= Queued * Cardinality(Servers)
    /\ \A w \in Servers : /\ Cardinality(On("active", w)) <= Active
                          /\ Cardinality(On("queued", w)) <= Queued

LEMMA QueuesStep ==
    ASSUME AdmissionTypeOK, QueuesKept, NEW c \in Connections, NEW x \in Conns,
           conn' = [conn EXCEPT ![c] = x],
           x.place = "queued" => \/ Cardinality(InQueue) < Queued * Cardinality(Servers)
                                 \/ conn[c].place = "queued",
           \A w \in Servers : x.server = w /\ x.place = "queued"
                => Cardinality(On("queued", w)) < Queued \/ c \in On("queued", w),
           \A w \in Servers : x.server = w /\ x.place = "active"
                => Cardinality(On("active", w)) < Active \/ c \in On("active", w)
    PROVE  QueuesKept'
<1>1. conn'[c] = x /\ \A d \in Connections \ {c} : conn'[d] = conn[d]
  BY Others
<1>2. /\ Cardinality(Servers) \in Nat /\ Queued \in Nat /\ Active \in Nat
      /\ Queued * Cardinality(Servers) \in Nat
  BY AdmissionAssumption, FS_CardinalityType
<1>3. Cardinality(InQueue') <= Queued * Cardinality(Servers)
  <2>1. InQueue' \subseteq InQueue \cup {c}
    BY <1>1 DEF InQueue
  <2>2. x.place # "queued" \/ conn[c].place = "queued" => InQueue' \subseteq InQueue
    BY <1>1 DEF InQueue
  <2> QED
    BY <1>2, <2>1, <2>2, Finite, NotMore, OneMore DEF QueuesKept
<1>4. ASSUME NEW w \in Servers PROVE Cardinality(On("active", w)') <= Active
  <2>1. On("active", w)' \subseteq On("active", w) \cup {c}
    BY <1>1 DEF On
  <2>2. ~(x.server = w /\ x.place = "active") \/ c \in On("active", w)
            => On("active", w)' \subseteq On("active", w)
    BY <1>1 DEF On
  <2> QED
    BY <1>2, <2>1, <2>2, Finite, NotMore, OneMore DEF QueuesKept
<1>5. ASSUME NEW w \in Servers PROVE Cardinality(On("queued", w)') <= Queued
  <2>1. On("queued", w)' \subseteq On("queued", w) \cup {c}
    BY <1>1 DEF On
  <2>2. ~(x.server = w /\ x.place = "queued") \/ c \in On("queued", w)
            => On("queued", w)' \subseteq On("queued", w)
    BY <1>1 DEF On
  <2> QED
    BY <1>2, <2>1, <2>2, Finite, NotMore, OneMore DEF QueuesKept
<1> QED
  BY <1>3, <1>4, <1>5 DEF QueuesKept

Remembered ==
    \A c \in Connections : conn[c].session # Nobody =>
          /\ conn[c].session \in Known
          /\ conn[c].spare \/ table[conn[c].session] # Reserved

Limited == AdmissionTypeOK /\ Tracked /\ WithinLimits

LEMMA LimitedStep == ASSUME Limited, Admission PROVE Limited'
<1> USE DEF Limited
<1>1. AdmissionTypeOK'
  BY AdmissionTyped
<1>2. /\ QueuesKept /\ Remembered /\ \A c \in Connections : conn[c] \in Conns
      /\ Nobody \notin Sessions /\ Nobody \notin Servers /\ Reserved # Nobody
      /\ Reserved \notin Servers /\ MaxSessions \in Nat
  BY AdmissionAssumption DEF WithinLimits, QueuesKept, Remembered, AdmissionTypeOK
<1>3. ASSUME QueuesKept', Remembered', Tracked', Cardinality(Known') <= MaxSessions PROVE Limited'
  BY <1>1, <1>3 DEF WithinLimits, QueuesKept, Remembered
<1>4. ASSUME Known' \subseteq Known PROVE Cardinality(Known') <= MaxSessions
  BY <1>2, <1>4, Finite, NotMore DEF WithinLimits
<1>5. ASSUME NEW c \in Connections, NEW s \in Sessions \cup {Nobody}, Admit(c, s) PROVE Limited'
  <2>1. PICK w \in Routes(s) : conn' = IF up = {} THEN conn ELSE [conn EXCEPT ![c] = Placed(s, w)]
    BY <1>5 DEF Admit
  <2>2. /\ conn[c] = Free /\ Admitted(s)
        /\ table' = [t \in Sessions |-> IF t = s /\ table[t] = Nobody THEN Reserved ELSE table[t]]
    BY <1>5 DEF Admit
  <2>3. Cardinality(Known') <= MaxSessions
    BY <2>2, KnownGrows
  <2>4. Known \subseteq Known' /\ (s # Nobody => s \in Known')
        /\ \A t \in Known : table'[t] = table[t]
    BY <1>2, <2>2 DEF Known
  <2>5. CASE up = {}
    BY <1>2, <1>3, <2>1, <2>3, <2>4, <2>5 DEF QueuesKept, InQueue, On, Remembered, Tracked
  <2>6. CASE up # {}
    <3>1. w \in Servers \cup {Nobody} /\ (w # Nobody => Room(w))
      BY <2>1, RoutesTyped, RouteHasRoom
    <3>2. /\ conn' = [conn EXCEPT ![c] = Placed(s, w)] /\ Placed(s, w) \in Conns
          /\ conn'[c] = Placed(s, w) /\ \A d \in Connections \ {c} : conn'[d] = conn[d]
      BY <2>1, <2>6, <3>1, PlacedTyped, Others
    <3>3. /\ Cardinality(InQueue) < Queued * Cardinality(Servers)
          /\ w # Nobody => Cardinality(On("queued", w)) < Queued
      BY <2>2, <3>1 DEF Admitted, Room
    <3>4. Placed(s, w).place = "active"
              => w # Nobody /\ Cardinality(On("active", w)) < Active
      <4>1. /\ Cardinality(On("active", w)) \in Nat /\ Cardinality(On("queued", w)) \in Nat
            /\ Active \in Nat
        BY Finite, AdmissionAssumption
      <4>2. Placed(s, w).place = "active" => w # Nobody /\ Load(w) < Active
        BY DEF Placed
      <4> QED
        BY <4>1, <4>2 DEF Load
    <3>5. Placed(s, w).server = w /\ Placed(s, w).session = s
      BY DEF Placed
    <3>6. QueuesKept'
      <4>1. \A v \in Servers : v # Nobody
        BY <1>2
      <4> QED
        BY <1>2, <3>2, <3>3, <3>4, <3>5, <4>1, QueuesStep
    <3>7. Placed(s, w).spare <=> s # Nobody
      BY <2>2, SpareLeft DEF Placed
    <3>8. Remembered'
      BY <1>2, <2>4, <3>2, <3>5, <3>7 DEF Remembered
    <3>9. Tracked'
      BY <3>2, <3>4, <3>5, <3>7 DEF Tracked
    <3> QED
      BY <1>3, <2>3, <3>6, <3>8, <3>9
  <2> QED
    BY <2>5, <2>6
<1>6. ASSUME NEW c \in Connections, NEW w \in Servers, Dequeue(c, w) PROVE Limited'
  <2>1. /\ conn' = [conn EXCEPT ![c] = [conn[c] EXCEPT !.place = "active", !.server = w]]
        /\ UNCHANGED table /\ Cardinality(On("active", w)) < Active
    BY <1>6 DEF Dequeue
  <2> DEFINE x == [conn[c] EXCEPT !.place = "active", !.server = w]
  <2>2. /\ x \in Conns /\ x.place = "active" /\ x.server = w
        /\ x.session = conn[c].session /\ x.spare = conn[c].spare
    BY <1>2 DEF Conns
  <2> HIDE DEF x
  <2>3. conn' = [conn EXCEPT ![c] = x]
    BY <2>1 DEF x
  <2>4. conn'[c] = x /\ \A d \in Connections \ {c} : conn'[d] = conn[d]
    BY <2>3, Others
  <2>5. QueuesKept'
    BY <1>2, <2>1, <2>2, <2>3, QueuesStep
  <2>6. Known' = Known
    BY <2>1 DEF Known
  <2>7. Remembered'
    BY <1>2, <2>1, <2>2, <2>4, <2>6 DEF Remembered
  <2>8. Tracked'
    BY <1>2, <2>2, <2>4 DEF Tracked
  <2> QED
    BY <1>3, <1>4, <2>5, <2>6, <2>7, <2>8
<1>7. ASSUME NEW c \in Connections, Answer(c) PROVE Limited'
  <2>1. /\ conn' = [conn EXCEPT ![c] = [conn[c] EXCEPT !.spare = FALSE]]
        /\ conn[c].place = "active" /\ conn[c].spare
        /\ table' = [table EXCEPT ![conn[c].session] = conn[c].server]
    BY <1>7 DEF Answer
  <2> DEFINE x == [conn[c] EXCEPT !.spare = FALSE]
  <2>2. /\ x \in Conns /\ x.place = "active" /\ x.server = conn[c].server
        /\ x.session = conn[c].session /\ x.spare = FALSE
    BY <1>2, <2>1 DEF Conns
  <2> HIDE DEF x
  <2>3. conn' = [conn EXCEPT ![c] = x]
    BY <2>1 DEF x
  <2>4. conn'[c] = x /\ \A d \in Connections \ {c} : conn'[d] = conn[d]
    BY <2>3, Others
  <2>5. conn[c].session \in Sessions /\ conn[c].server \in Servers /\ conn[c].session \in Known
    BY <1>2, <2>1 DEF Tracked, Conns, Remembered
  <2>6. QueuesKept'
    <3>1. \A w \in Servers : x.server = w => c \in On("active", w)
      BY <2>1, <2>2 DEF On
    <3> QED
      BY <1>2, <2>1, <2>2, <2>3, <3>1, QueuesStep
  <2>7. /\ table'[conn[c].session] = conn[c].server
        /\ \A t \in Sessions \ {conn[c].session} : table'[t] = table[t]
    BY <2>1, <2>5 DEF AdmissionTypeOK
  <2>8. Known' = Known
    BY <1>2, <2>5, <2>7 DEF Known
  <2>9. Remembered'
    <3>1. \A d \in Connections : conn[d].session \in Sessions \cup {Nobody}
      BY <1>2 DEF Conns
    <3> QED
      BY <1>2, <2>2, <2>4, <2>5, <2>7, <2>8, <3>1 DEF Remembered
  <2>10. Tracked'
    BY <1>2, <2>2, <2>4, <2>5 DEF Tracked
  <2> QED
    BY <1>3, <1>4, <2>6, <2>8, <2>9, <2>10
<1>8. ASSUME NEW c \in Connections, Leave(c) PROVE Limited'
  <2>1. conn' = [conn EXCEPT ![c] = Free] /\ UNCHANGED table
    BY <1>8 DEF Leave
  <2>2. conn'[c] = Free /\ \A d \in Connections \ {c} : conn'[d] = conn[d]
    BY <2>1, Others
  <2>3. QueuesKept'
    BY <1>2, <2>1, FreeIsConn, QueuesStep DEF Free
  <2>4. Known' = Known
    BY <2>1 DEF Known
  <2>5. Remembered' /\ Tracked'
    BY <1>2, <2>1, <2>2, <2>4 DEF Remembered, Tracked, Free
  <2> QED
    BY <1>3, <1>4, <2>3, <2>4, <2>5
<1>9. ASSUME NEW s \in Sessions, Expire(s) PROVE Limited'
  <2>1. /\ UNCHANGED conn /\ \A c \in Connections : conn[c].session # s
        /\ table' = [table EXCEPT ![s] = Nobody]
    BY <1>9 DEF Expire
  <2>2. table'[s] = Nobody /\ \A t \in Sessions \ {s} : table'[t] = table[t]
    BY <2>1 DEF AdmissionTypeOK
  <2>3. Known' = Known \ {s}
    BY <1>9, <2>2 DEF Known
  <2>4. QueuesKept' /\ Tracked'
    BY <1>2, <2>1 DEF QueuesKept, InQueue, On, Tracked
  <2>5. Remembered'
    BY <1>2, <2>1, <2>2, <2>3 DEF Remembered, Conns
  <2> QED
    BY <1>3, <1>4, <2>3, <2>4, <2>5
<1>10. ASSUME NEW w \in Servers, Health(w) PROVE Limited'
  <2>1. UNCHANGED <<conn, table>>
    BY <1>10 DEF Health
  <2>2. Known' = Known
    BY <2>1 DEF Known
  <2>3. QueuesKept' /\ Tracked' /\ Remembered'
    BY <1>2, <2>1, <2>2 DEF QueuesKept, InQueue, On, Tracked, Remembered
  <2> QED
    BY <1>3, <1>4, <2>2, <2>3
<1>11. QED
  BY <1>5, <1>6, <1>7, <1>8, <1>9, <1>10 DEF Admission

-----------------------------------------------------------------------------
(* The gateway as a whole.                                                  *)

LEMMA LimitedInit == ASSUME AdmissionInit PROVE Limited
<1>1. /\ AdmissionTypeOK /\ Tracked
      /\ \A c \in Connections : conn[c].session = Nobody
  BY FreeIsConn DEF AdmissionInit, AdmissionTypeOK, Tracked, Free
<1>2. /\ Known = {} /\ InQueue = {}
      /\ \A w \in Servers : On("active", w) = {} /\ On("queued", w) = {}
  BY DEF AdmissionInit, Known, InQueue, On, Free
<1>3. /\ Cardinality({}) = 0 /\ MaxSessions \in Nat /\ Active \in Nat /\ Queued \in Nat
      /\ Queued * Cardinality(Servers) \in Nat
  BY AdmissionAssumption, FS_EmptySet, FS_CardinalityType
<1>4. WithinLimits
  <2>1. /\ Cardinality(Known) <= MaxSessions
        /\ Cardinality(InQueue) <= Queued * Cardinality(Servers)
    BY <1>2, <1>3
  <2>2. \A w \in Servers : /\ Cardinality(On("active", w)) <= Active
                           /\ Cardinality(On("queued", w)) <= Queued
    <3>1. \A w \in Servers : /\ Cardinality(On("active", w)) = 0
                             /\ Cardinality(On("queued", w)) = 0
      BY <1>2, <1>3, Zenon
    <3> QED
      BY <1>3, <3>1
  <2> QED
    BY <1>1, <2>1, <2>2 DEF WithinLimits
<1> QED
  BY <1>1, <1>4 DEF Limited

LEMMA ServingStep ==
    ASSUME Limited, [LifecycleStep \/ AdmissionStep]_vars
    PROVE  Limited'
<1>1. CASE UNCHANGED avars
  BY <1>1 DEF avars, Limited, AdmissionTypeOK, Tracked, WithinLimits, Known, InQueue, On
<1>2. ASSUME up' = {}, table' = [s \in Sessions |-> Nobody],
             conn' = [c \in Connections |-> Free]
      PROVE  Limited'
  <2>1. AdmissionTypeOK' /\ Tracked'
    BY <1>2, FreeIsConn DEF AdmissionTypeOK, Tracked, Free
  <2>2. /\ Known' = {} /\ InQueue' = {}
        /\ \A w \in Servers : On("active", w)' = {} /\ On("queued", w)' = {}
        /\ \A c \in Connections : conn'[c].session = Nobody
    BY <1>2 DEF Known, InQueue, On, Free
  <2>3. /\ Cardinality({}) = 0 /\ MaxSessions \in Nat /\ Active \in Nat /\ Queued \in Nat
        /\ Queued * Cardinality(Servers) \in Nat
    BY AdmissionAssumption, FS_EmptySet, FS_CardinalityType
  <2>4. WithinLimits'
    <3>1. /\ Cardinality(Known') <= MaxSessions
          /\ Cardinality(InQueue') <= Queued * Cardinality(Servers)
      BY <2>2, <2>3
    <3>2. \A w \in Servers : /\ Cardinality(On("active", w)') <= Active
                             /\ Cardinality(On("queued", w)') <= Queued
      <4>1. \A w \in Servers : /\ Cardinality(On("active", w)') = 0
                               /\ Cardinality(On("queued", w)') = 0
        BY <2>2, <2>3, Zenon
      <4> QED
        BY <2>3, <4>1
    <3> QED
      BY <2>2, <3>1, <3>2 DEF WithinLimits
  <2> QED
    BY <2>1, <2>4 DEF Limited
<1>3. CASE LifecycleStep
  BY <1>1, <1>2, <1>3 DEF LifecycleStep
<1>4. CASE AdmissionStep
  BY <1>4, LimitedStep DEF AdmissionStep
<1> QED
  BY <1>1, <1>3, <1>4 DEF vars

(* Sessions and queues never exceed their limits, and every admitted session *)
(* keeps a record that can take its server, whatever the limits are.        *)
THEOREM WithinLimitsAlways == ServingSpec => []WithinLimits
<1>1. ServingInit => Limited
  BY LimitedInit DEF ServingInit
<1>2. Limited /\ [LifecycleStep \/ AdmissionStep]_vars => Limited'
  BY ServingStep
<1>3. Limited => WithinLimits
  BY DEF Limited
<1>4. QED
  BY <1>1, <1>2, <1>3, PTL DEF ServingSpec

(* A request of a session with a healthy server goes there and stays there. *)
THEOREM AffinityKeptAlways == ServingSpec => AffinityKept
<1> DEFINE Kept(c) ==
        /\ conn[c] = Free /\ Affinity(conn'[c].session) # Nobody
                => conn'[c].server = Affinity(conn'[c].session)
        /\ conn[c].server # Nobody /\ conn'[c].place # "free"
                => conn'[c].server = conn[c].server
<1>1. ServingInit => Limited
  BY LimitedInit DEF ServingInit
<1>2. Limited /\ [LifecycleStep \/ AdmissionStep]_vars => Limited'
  BY ServingStep
<1>3. Limited /\ [LifecycleStep \/ AdmissionStep]_vars => [\A c \in Connections : Kept(c)]_avars
  <2> SUFFICES ASSUME Limited, [LifecycleStep \/ AdmissionStep]_vars, ~UNCHANGED avars,
                      NEW c \in Connections
               PROVE  Kept(c)
    OBVIOUS
  <2>1. CASE AdmissionStep
    BY <2>1, AffinityStep DEF AdmissionStep, Limited
  <2>2. CASE LifecycleStep
    <3>1. conn'[c] = Free
      BY <2>2 DEF LifecycleStep
    <3> QED
      BY <3>1 DEF Free, Affinity
  <2> QED
    BY <2>1, <2>2 DEF vars
<1>4. QED
  BY <1>1, <1>2, <1>3, PTL DEF ServingSpec, AffinityKept

-----------------------------------------------------------------------------
(* Foreign containers.                                                      *)

(* A manifest that is there names an owner that was drawn.                  *)
OwnerSaved == manifest.status # "none" => manifest.owner \in Owners

LifecycleTyping == TypeOK /\ OwnerSaved

LEMMA LifecycleTyped == ASSUME LifecycleTyping, [Next]_gvars PROVE LifecycleTyping'
<1> USE DEF LifecycleTyping, OwnerSaved, TypeOK, Names, Roles, Sweeping, Owned, Foreign, States,
             Stray, world, process
<1>1. ASSUME NEW o \in Owners, Construct(o) PROVE LifecycleTyping'
  BY <1>1, GatewayAssumption DEF Construct
<1>2. CASE Start
  BY <1>2 DEF Start, Save
<1>3. CASE Attempt \/ Unattempted \/ Exit \/ Kill
  <2>1. CASE Attempt
    BY <2>1 DEF Attempt
  <2>2. CASE Unattempted
    BY <2>2 DEF Unattempted, BackToCaller
  <2>3. CASE Exit \/ Kill
    BY <2>3 DEF Exit, Kill, BackToCaller, ProcessEnds
  <2> QED
    BY <1>3, <2>1, <2>2, <2>3
<1>4. CASE RunCheck \/ Launch
  BY <1>4 DEF RunCheck, Launch, Request, Name, Main
<1>5. CASE CheckPassed \/ Launched \/ Healthy
  <2>1. CASE CheckPassed
    BY <2>1 DEF CheckPassed
  <2>2. CASE Launched
    BY <2>2 DEF Launched, Save
  <2>3. CASE Healthy
    BY <2>3 DEF Healthy, Save
  <2> QED
    BY <1>5, <2>1, <2>2, <2>3
<1>6. CASE Fail \/ Stop \/ Recover
  <2>1. CASE Fail
    BY <2>1, GatewayAssumption DEF Fail, BeginSweep
  <2>2. CASE Stop
    BY <2>2, GatewayAssumption DEF Stop, BeginSweep
  <2>3. CASE Recover
    BY <2>3, GatewayAssumption DEF Recover, BeginSweep
  <2> QED
    BY <1>6, <2>1, <2>2, <2>3
<1>7. CASE InspectGone \/ InspectOwned
  BY <1>7 DEF InspectGone, InspectOwned, Overlook, Onward
<1>8. CASE ForceRemove
  BY <1>8 DEF ForceRemove, Onward
<1>9. CASE SweepFails
  <2>1. docker' \in [Names -> States \cup Stray]
        /\ UNCHANGED <<asked, clients, manifest, port, late, used>>
    BY <1>9 DEF SweepFails
  <2>2. CASE mode = "stop"
    BY <1>9, <2>1, <2>2 DEF SweepFails, BackToCaller
  <2>3. CASE mode # "stop"
    BY <1>9, <2>1, <2>3 DEF SweepFails, ProcessEnds, BackToCaller
  <2> QED
    BY <2>2, <2>3
<1>10. CASE SweepDone
  <2>1. owner \in Owners /\ UNCHANGED <<docker, asked, clients, late, port, used>>
        /\ manifest' = [owner |-> owner, status |-> "stopped"]
    BY <1>10 DEF SweepDone, Save
  <2>2. CASE mode = "stop"
    BY <1>10, <2>1, <2>2 DEF SweepDone, BackToCaller
  <2>3. CASE mode # "stop"
    BY <1>10, <2>1, <2>3 DEF SweepDone, ProcessEnds, BackToCaller
  <2> QED
    BY <2>2, <2>3
<1>11. CASE PortTaken \/ PortReleased
  BY <1>11 DEF PortTaken, PortReleased
<1>12. ASSUME NEW n \in Names, Daemon(n) PROVE LifecycleTyping'
  BY <1>12 DEF Daemon, DaemonMoves, DaemonCreates, DaemonRefuses, ClientStarts, ClientEnds,
     ContainerExits, DaemonRestarts, DaemonRemoves, NameTaken
<1>13. ASSUME NEW n \in Names, RemovedByOther(n) PROVE LifecycleTyping'
  BY <1>13 DEF RemovedByOther
<1>14. ASSUME NEW n \in Names, LateCreate(n) PROVE LifecycleTyping'
  BY <1>14 DEF LateCreate
<1>15. CASE UNCHANGED gvars
  BY <1>15 DEF gvars
<1>16. QED
  BY <1>1, <1>2, <1>3, <1>4, <1>5, <1>6, <1>7, <1>8, <1>9, <1>10, <1>11, <1>12, <1>13, <1>14,
     <1>15 DEF Next, Starting, Cleaning

LEMMA ForeignStep ==
    ASSUME TypeOK, Next, NEW n \in Names, docker[n] \in Foreign, docker'[n] # docker[n]
    PROVE  RemovedByOther(n)
<1> USE DEF TypeOK
<1>1. ASSUME NEW m, docker[m] \notin Foreign, NEW x, docker' = [docker EXCEPT ![m] = x]
      PROVE  FALSE
  BY <1>1
<1>2. ~UNCHANGED docker
  OBVIOUS
<1>3. ASSUME NEW m \in Names, Daemon(m) \/ LateCreate(m) PROVE FALSE
  <2>1. \/ UNCHANGED docker
        \/ docker[m] \notin Foreign /\ \E x : docker' = [docker EXCEPT ![m] = x]
    BY <1>3 DEF Daemon, DaemonMoves, DaemonCreates, DaemonRefuses, ClientStarts, ClientEnds,
       ContainerExits, DaemonRestarts, DaemonRemoves, NameTaken, LateCreate, Foreign
  <2> QED
    BY <1>1, <1>2, <2>1
<1>4. ~ForceRemove /\ ~SweepFails
  BY <1>1, <1>2 DEF ForceRemove, SweepFails, Removed, Owned, Stray, Foreign
<1>5. /\ \A o \in Owners : ~Construct(o)
      /\ ~Start /\ ~Starting /\ ~Fail /\ ~Stop /\ ~Recover
  BY <1>2 DEF Construct, Start, Starting, Attempt, RunCheck, CheckPassed, Launch, Launched, Healthy,
     Fail, Stop, Recover, Request, world
<1>6. ~InspectGone /\ ~InspectOwned /\ ~SweepDone /\ ~Unattempted /\ ~Exit /\ ~Kill
      /\ ~PortTaken /\ ~PortReleased
  BY <1>2 DEF InspectGone, InspectOwned, SweepDone, Unattempted, Exit, Kill, PortTaken,
     PortReleased, world
<1>7. PICK m \in Names : RemovedByOther(m)
  BY <1>3, <1>4, <1>5, <1>6 DEF Next, Cleaning
<1>8. m = n
  BY <1>7 DEF RemovedByOther
<1> QED
  BY <1>7, <1>8

LEMMA GatewayTyped ==
    /\ ServingInit => LifecycleTyping
    /\ LifecycleTyping /\ [LifecycleStep \/ AdmissionStep]_vars => LifecycleTyping'
<1>1. ASSUME ServingInit PROVE LifecycleTyping
  <2>1. /\ manifest \in [owner : Owners \cup {NoOwner},
                         status : {"none", "starting", "running", "stopped"}]
        /\ manifest.status = "none"
    BY <1>1 DEF ServingInit, Init
  <2>2. docker \in [Names -> States \cup Stray]
    BY <1>1 DEF ServingInit, Init, States
  <2> QED
    BY <1>1, <2>1, <2>2 DEF ServingInit, Init, LifecycleTyping, OwnerSaved, TypeOK, Roles
<1>2. ASSUME LifecycleTyping, [LifecycleStep \/ AdmissionStep]_vars PROVE LifecycleTyping'
  <2>1. [Next]_gvars
    BY <1>2 DEF LifecycleStep, AdmissionStep, vars
  <2> QED
    BY <1>2, <2>1, LifecycleTyped
<1> QED
  BY <1>1, <1>2

(* Every variable of the gateway and of its HAProxy keeps its type.         *)
THEOREM TypeCorrect == ServingSpec => [](TypeOK /\ AdmissionTypeOK)
<1>1. ServingInit => LifecycleTyping /\ Limited
  BY GatewayTyped, LimitedInit DEF ServingInit
<1>2. LifecycleTyping /\ Limited /\ [LifecycleStep \/ AdmissionStep]_vars
        => (LifecycleTyping /\ Limited)'
  BY GatewayTyped, ServingStep
<1>3. LifecycleTyping /\ Limited => TypeOK /\ AdmissionTypeOK
  BY DEF LifecycleTyping, Limited
<1>4. QED
  BY <1>1, <1>2, <1>3, PTL DEF ServingSpec

(* No step of the gateway's removes a container that carries one of its     *)
(* names under another owner, whenever it took the name.                    *)
THEOREM ForeignUntouchedAlways == ServingSpec => ForeignUntouched
<1>1. LifecycleTyping /\ [LifecycleStep \/ AdmissionStep]_vars
        => [\A n \in Names : docker[n] \in Foreign /\ docker'[n] # docker[n]
               => RemovedByOther(n)]_gvars
  BY ForeignStep DEF LifecycleTyping, LifecycleStep, AdmissionStep, vars
<1>2. QED
  BY <1>1, GatewayTyped, PTL DEF ServingSpec, ForeignUntouched

-----------------------------------------------------------------------------
(* The manifest as a write-ahead ledger. Whoever launches or sweeps has the *)
(* owner of the manifest; and what a sweep has left behind it cannot come   *)
(* back, since nobody asks for a container while the sweep is on: but for a *)
(* request from before, which the sweep has overlooked (late).              *)
OnRecord == {n \in Names : Recorded(n)}
MayRuns  == {n \in Names : MayRun(n)}

Begun == {"saved", "check", "checking", "launch", "launching", "health", "serving"}

Owning ==
    /\ pc \in Begun \cup Sweeping \/ attempted => manifest.owner = owner
    /\ pc \in Begun => manifest.status \in {"starting", "running"}
    /\ pc = "down" => ~attempted

Swept ==
    pc \in Sweeping =>
        /\ ref # "main" => ~MayRun(Main)
        /\ ref = "end" => ~MayRun(Name("check"))
        /\ pc = "remove" => ref # "end" /\ At \notin asked

LedgerInv == LifecycleTyping /\ Owning /\ Swept

(* Only the two docker run commands add a container that may run.           *)
LEMMA OnlyRunsLaunch ==
    ASSUME TypeOK, [Next]_gvars, NEW n \in Names, MayRun(n)', ~MayRun(n)
    PROVE  \/ RunCheck /\ n = Name("check")
           \/ Launch /\ n = Main
<1> USE DEF TypeOK, MayRun, world, process
<1>1. ~UNCHANGED <<docker, asked>>
  OBVIOUS
<1>2. ASSUME NEW m \in Names, Daemon(m) PROVE FALSE
  BY <1>2 DEF Daemon, DaemonMoves, DaemonCreates, DaemonRefuses, ClientStarts, ClientEnds,
     ContainerExits, DaemonRestarts, DaemonRemoves, NameTaken
<1>3. ASSUME NEW m \in Names, RemovedByOther(m) \/ LateCreate(m) PROVE FALSE
  BY <1>3 DEF RemovedByOther, LateCreate
<1>4. ~ForceRemove /\ ~SweepFails /\ ~InspectGone /\ ~InspectOwned
  BY DEF ForceRemove, SweepFails, InspectGone, InspectOwned, Overlook
<1>5. /\ \A o \in Owners : ~Construct(o)
      /\ ~Start /\ ~Attempt /\ ~CheckPassed /\ ~Launched /\ ~Healthy /\ ~Fail /\ ~Stop /\ ~Recover
  BY <1>1 DEF Construct, Start, Attempt, CheckPassed, Launched, Healthy, Fail, Stop, Recover
<1>6. ~SweepDone /\ ~Unattempted /\ ~Exit /\ ~Kill /\ ~PortTaken /\ ~PortReleased
  BY <1>1 DEF SweepDone, Unattempted, Exit, Kill, PortTaken, PortReleased
<1>7. RunCheck \/ Launch
  BY <1>1, <1>2, <1>3, <1>4, <1>5, <1>6 DEF Next, Starting, Cleaning, gvars
<1> QED
  BY <1>7 DEF RunCheck, Launch, Request

LEMMA LedgerInvStep == ASSUME LedgerInv, [Next]_gvars PROVE LedgerInv'
<1> USE DEF LedgerInv
<1>1. LifecycleTyping'
  BY LifecycleTyped
<1>2. TypeOK /\ TypeOK'
  BY <1>1 DEF LifecycleTyping
<1>3. Owning'
  <2> USE DEF Owning, Begun, Sweeping
  <2>1. CASE Start \/ Starting \/ Fail
    BY <2>1 DEF Start, Starting, Attempt, RunCheck, CheckPassed, Launch, Launched, Healthy, Fail,
       Save, BeginSweep, Sweeping
  <2>2. CASE Stop \/ Recover
    BY <2>2 DEF Stop, Recover, BeginSweep
  <2>3. CASE Cleaning
    <3>1. CASE InspectGone \/ InspectOwned \/ ForceRemove
      BY <3>1 DEF InspectGone, InspectOwned, ForceRemove
    <3>2. CASE SweepFails
      BY <3>2 DEF SweepFails, BackToCaller, ProcessEnds
    <3>3. CASE SweepDone
      BY <3>3 DEF SweepDone, BackToCaller, ProcessEnds, Save
    <3> QED
      BY <2>3, <3>1, <3>2, <3>3 DEF Cleaning
  <2>4. ASSUME NEW o \in Owners, Construct(o) PROVE Owning'
    BY <2>4 DEF Construct
  <2>5. CASE Unattempted \/ Exit \/ Kill
    BY <2>5 DEF Unattempted, Exit, Kill, BackToCaller, ProcessEnds
  <2>6. CASE UNCHANGED <<manifest, process>>
    BY <2>6 DEF process
  <2> QED
    BY <2>1, <2>2, <2>3, <2>4, <2>5, <2>6
       DEF Next, PortTaken, PortReleased, Daemon, RemovedByOther, LateCreate, gvars, process
<1>4. Swept'
  <2>1. CASE pc' \notin Sweeping
    BY <2>1 DEF Swept
  <2>2. CASE pc' \in Sweeping /\ pc \notin Sweeping
    <3>1. pc' = "inspect" /\ ref' = "main"
      <4>1. Fail \/ Stop \/ Recover
        BY <2>2 DEF Next, Construct, Start, Starting, Attempt, RunCheck, CheckPassed, Launch, Launched,
           Healthy, Cleaning, InspectGone, InspectOwned, ForceRemove, SweepFails, SweepDone,
           BackToCaller, Unattempted, Exit, Kill, ProcessEnds, PortTaken, PortReleased, Daemon,
           RemovedByOther, LateCreate, process, gvars, Sweeping
      <4> QED
        BY <4>1 DEF Fail, Stop, Recover, BeginSweep
    <3> QED
      BY <3>1 DEF Swept
  <2>3. CASE pc' \in Sweeping /\ pc \in Sweeping
    <3>1. ~RunCheck /\ ~Launch /\ owner' = owner
      BY <2>3 DEF Next, Construct, Start, Starting, Attempt, RunCheck, CheckPassed, Launch, Launched,
         Healthy, Cleaning, InspectGone, InspectOwned, ForceRemove, SweepFails, SweepDone,
         BackToCaller, Unattempted, Exit, Kill, ProcessEnds, PortTaken, PortReleased, Daemon,
         RemovedByOther, LateCreate, process, gvars, Sweeping, Fail, Stop, Recover
    <3>2. owner \in Owners /\ \A r \in Roles : Name(r) \in Names /\ Name(r)' = Name(r)
      BY <1>2, <2>3, <3>1 DEF TypeOK, Sweeping, Name, Names
    <3>3. \A r \in Roles : ~MayRun(Name(r)) => ~(MayRun(Name(r)))'
      BY <1>2, <3>1, <3>2, OnlyRunsLaunch DEF MayRun
    <3>4. \/ InspectGone \/ InspectOwned \/ ForceRemove
          \/ UNCHANGED process /\ asked' \subseteq asked
      BY <2>3, <3>1 DEF Next, Construct, Start, Starting, Attempt, CheckPassed, Launched, Healthy,
         Cleaning, SweepFails, SweepDone, BackToCaller, Unattempted, Exit, Kill, ProcessEnds,
         PortTaken, PortReleased, Daemon, DaemonMoves, DaemonCreates, DaemonRefuses, ClientStarts,
         ClientEnds, ContainerExits, DaemonRestarts, DaemonRemoves, NameTaken, RemovedByOther,
         LateCreate, Overlook, process, gvars, world, Sweeping, Fail, Stop, Recover
    <3>5. ref \in Roles \cup {"end"} /\ Main = Name("main") /\ At = Name(ref)
      BY <1>2 DEF TypeOK, Main, At
    <3>6. ASSUME NEW n, n = At, ~MayRun(n)', ref # "end", Onward, pc' = "inspect" PROVE Swept'
      <4>1. \A r \in Roles : r = ref => ~(MayRun(Name(r)))'
        BY <3>2, <3>5, <3>6 DEF Roles
      <4>2. CASE ref = "main"
        BY <3>6, <4>1, <4>2 DEF Onward, Swept, Main, Roles
      <4>3. CASE ref = "check"
        BY <2>3, <3>2, <3>3, <3>6, <4>1, <4>3 DEF Onward, Swept, Main, Roles
      <4> QED
        BY <3>5, <3>6, <4>2, <4>3 DEF Roles
    <3>7. CASE InspectGone
      <4>1. PICK n : n = At
        OBVIOUS
      <4>2. ~MayRun(n)' /\ ref # "end"
        BY <3>7, <4>1 DEF InspectGone, Overlook, MayRun, Foreign, Stray
      <4> QED
        BY <3>6, <3>7, <4>1, <4>2 DEF InspectGone
    <3>8. CASE InspectOwned
      BY <2>3, <3>2, <3>3, <3>5, <3>8 DEF InspectOwned, Overlook, Swept, Main, At, Roles
    <3>9. CASE ForceRemove
      <4>1. ref # "end" /\ At \notin asked
        BY <2>3, <3>9 DEF Swept, ForceRemove
      <4>2. At \in Names
        BY <3>2, <3>5, <4>1
      <4>3. PICK n : n = At
        OBVIOUS
      <4>4. ~MayRun(n)'
        BY <1>2, <3>9, <4>1, <4>2, <4>3 DEF ForceRemove, MayRun, TypeOK
      <4> QED
        BY <3>6, <3>9, <4>1, <4>3, <4>4 DEF ForceRemove
    <3>10. CASE UNCHANGED process /\ asked' \subseteq asked
      BY <2>3, <3>2, <3>3, <3>5, <3>10 DEF process, Swept, Main, At, Roles
    <3> QED
      BY <3>4, <3>7, <3>8, <3>9, <3>10
  <2> QED
    BY <2>1, <2>2, <2>3
<1> QED
  BY <1>1, <1>3, <1>4

(* Every step is a ledger step, or invisible to the ledger.                 *)
LEMMA LedgerStep == ASSUME LedgerInv, [Next]_gvars PROVE [Ledger!LedgerNext]_(Ledger!lvars)
<1> USE DEF OnRecord, MayRuns
<1>1. TypeOK /\ Owning /\ Swept
  BY DEF LedgerInv, LifecycleTyping
<1>2. CASE RunCheck \/ Launch
  <2>1. PICK n \in {Name("check"), Main} : asked' = asked \cup {n} /\ UNCHANGED <<docker, manifest>>
    BY <1>2 DEF RunCheck, Launch, Request
  <2>2. n \in Names /\ Recorded(n)
    BY <1>1, <1>2, <2>1 DEF RunCheck, Launch, TypeOK, Owning, Begun, Recorded, Name, Main, Names, Roles
  <2>3. OnRecord' = OnRecord
    BY <2>1 DEF Recorded
  <2>4. MayRuns' = MayRuns \cup {n}
    BY <2>1, <2>2 DEF MayRun
  <2>5. Ledger!Launch(n)
    BY <2>2, <2>3, <2>4 DEF Ledger!Launch
  <2> QED
    BY <2>2, <2>5 DEF Ledger!LedgerNext
<1>3. CASE Start
  <2>1. MayRuns' = MayRuns
    BY <1>3 DEF Start, MayRun, world
  <2>2. OnRecord = {}
    BY <1>3 DEF Start, Recorded
  <2>3. OnRecord' = OnRecord \cup OnRecord'
    BY <2>2
  <2>4. Ledger!Record(OnRecord') /\ OnRecord' \in SUBSET Names
    BY <2>1, <2>3 DEF Ledger!Record
  <2> QED
    BY <2>4 DEF Ledger!LedgerNext
<1>4. CASE SweepDone
  <2>1. MayRuns' = MayRuns /\ OnRecord' = {}
    BY <1>4 DEF SweepDone, Save, MayRun, Recorded, world
  <2>2. ASSUME NEW n \in OnRecord PROVE n \notin MayRuns
    <3>1. n \in Names /\ n[1] = owner
      BY <1>1, <1>4, <2>2 DEF Owning, Sweeping, SweepDone, Recorded
    <3>2. n = Main \/ n = Name("check")
      BY <3>1 DEF Names, Roles, Name, Main
    <3> QED
      BY <1>1, <1>4, <3>2 DEF Swept, SweepDone, Sweeping
  <2>3. Ledger!Forget(OnRecord) /\ OnRecord \in SUBSET Names
    BY <2>1, <2>2 DEF Ledger!Forget
  <2> QED
    BY <2>3 DEF Ledger!LedgerNext
<1>5. CASE ~RunCheck /\ ~Launch /\ ~Start /\ ~SweepDone
  <2> DEFINE gone == MayRuns \ MayRuns'
  <2>1. OnRecord' = OnRecord
    <3>1. CASE Launched \/ Healthy
      <4>1. manifest'.owner = manifest.owner
            /\ manifest.status \in {"starting", "running"} /\ manifest'.status \in {"starting", "running"}
        BY <1>1, <3>1 DEF Owning, Begun, Launched, Healthy, Save
      <4> QED
        BY <4>1 DEF Recorded
    <3>2. CASE UNCHANGED manifest
      BY <3>2 DEF Recorded
    <3> QED
      BY <1>5, <3>1, <3>2 DEF Next, Construct, Starting, Attempt, CheckPassed, Fail, Stop, Recover,
         Cleaning, InspectGone, InspectOwned, ForceRemove, SweepFails, Unattempted, Exit, Kill,
         PortTaken, PortReleased, Daemon, RemovedByOther, LateCreate, gvars
  <2>2. MayRuns' = MayRuns \ gone
    BY <1>1, <1>5, OnlyRunsLaunch
  <2>3. Ledger!Vanish(gone) /\ gone \in SUBSET Names
    BY <2>1, <2>2 DEF Ledger!Vanish
  <2> QED
    BY <2>3 DEF Ledger!LedgerNext
<1> QED
  BY <1>2, <1>3, <1>4, <1>5

(* gateway.json and the daemon implement the write-ahead ledger, while      *)
(* HAProxy serves and whenever the process is killed, for all containers    *)
(* but what comes of a create that a sweep overlooked: see NothingLoose.    *)
THEOREM ImplementsLedger == ServingSpec => WritesAhead
<1>1. ServingInit => LedgerInv /\ Ledger!LedgerInit
  <2>1. ASSUME ServingInit PROVE Owning /\ Swept /\ Ledger!LedgerInit
    BY <2>1 DEF ServingInit, Init, Owning, Begun, Swept, Sweeping, Ledger!LedgerInit, Recorded, MayRun
  <2> QED
    BY <2>1, GatewayTyped DEF LedgerInv
<1>2. [LifecycleStep \/ AdmissionStep]_vars => [Next]_gvars
  BY DEF LifecycleStep, AdmissionStep, vars
<1>3. LedgerInv /\ [Next]_gvars => LedgerInv' /\ [Ledger!LedgerNext]_(Ledger!lvars)
  BY LedgerInvStep, LedgerStep
<1>4. QED
  BY <1>1, <1>2, <1>3, PTL DEF ServingSpec, WritesAhead, Ledger!LedgerSpec

-----------------------------------------------------------------------------
(* What escapes the ledger. A docker run is there only while the process    *)
(* that issued it waits for it, so that none is left when a sweep begins.   *)
Attended ==
    /\ pc \notin Sweeping => mode = "stop"
    /\ ~Kills => \A n \in clients :
           (pc = "checking" /\ n = Name("check")) \/ (pc = "launching" /\ n = Main)

LooseInv == LifecycleTyping /\ Attended /\ NothingLoose

LEMMA AttendedStep == ASSUME LifecycleTyping, Attended, [Next]_gvars PROVE Attended'
<1> USE DEF Attended, LifecycleTyping, TypeOK, Sweeping, Name, Main, world, process
<1>1. CASE RunCheck \/ Launch
  <2>1. CASE RunCheck
    <3>1. owner' = owner /\ mode' = mode /\ pc = "check" /\ pc' = "checking"
      BY <2>1 DEF RunCheck
    <3>2. ASSUME ~Kills, NEW n \in clients' PROVE n = Name("check")
      BY <2>1, <3>1, <3>2 DEF RunCheck, Request
    <3> QED
      BY <3>1, <3>2
  <2>2. CASE Launch
    <3>1. owner' = owner /\ mode' = mode /\ pc = "launch" /\ pc' = "launching"
      BY <2>2 DEF Launch
    <3>2. ASSUME ~Kills, NEW n \in clients' PROVE n = Main
      BY <2>2, <3>1, <3>2 DEF Launch, Request
    <3> QED
      BY <3>1, <3>2
  <2> QED
    BY <1>1, <2>1, <2>2
<1>2. CASE CheckPassed \/ Launched
  BY <1>2 DEF CheckPassed, Launched
<1>3. CASE Fail
  BY <1>3 DEF Fail, BeginSweep
<1>4. CASE Start \/ Attempt \/ Healthy \/ Unattempted \/ Exit \/ Kill
  BY <1>4 DEF Start, Attempt, Healthy, Unattempted, Exit, Kill, BackToCaller, ProcessEnds
<1>5. CASE Stop \/ Recover
  BY <1>5 DEF Stop, Recover, BeginSweep
<1>6. CASE InspectGone \/ InspectOwned \/ ForceRemove
  BY <1>6 DEF InspectGone, InspectOwned, ForceRemove
<1>7. CASE SweepFails \/ SweepDone
  BY <1>7 DEF SweepFails, SweepDone, BackToCaller, ProcessEnds
<1>8. ASSUME NEW o \in Owners, Construct(o) PROVE Attended'
  BY <1>8 DEF Construct
<1>9. ASSUME NEW n \in Names, Daemon(n) \/ LateCreate(n) \/ RemovedByOther(n) PROVE Attended'
  BY <1>9 DEF Daemon, DaemonMoves, DaemonCreates, DaemonRefuses, ClientStarts, ClientEnds,
     ContainerExits, DaemonRestarts, DaemonRemoves, NameTaken, LateCreate, RemovedByOther
<1>10. CASE PortTaken \/ PortReleased \/ UNCHANGED gvars
  BY <1>10 DEF PortTaken, PortReleased, gvars
<1> QED
  BY <1>1, <1>2, <1>3, <1>4, <1>5, <1>6, <1>7, <1>8, <1>9, <1>10 DEF Next, Starting, Cleaning

LEMMA LooseStep == ASSUME LooseInv, [Next]_gvars PROVE NothingLoose'
<1> USE DEF LooseInv, NothingLoose
<1>1. TypeOK /\ Attended
  BY DEF LifecycleTyping
<1>2. ASSUME NEW m \in Names, LateCreate(m) PROVE NothingLoose'
  <2>1. Kills \/ ~Outlives(m)
    BY <1>1 DEF Attended, Outlives, Sweeping, Name, Main
  <2>2. Kills \/ UNCHANGED docker \/ docker' = [docker EXCEPT ![m] = "leftover"]
    BY <1>2, <2>1 DEF LateCreate
  <2> QED
    BY <1>1, <2>2 DEF TypeOK
<1>3. ASSUME NEW m \in Names, Daemon(m) PROVE NothingLoose'
  BY <1>1, <1>3 DEF TypeOK, Daemon, DaemonMoves, DaemonCreates, DaemonRefuses, ClientStarts,
     ClientEnds, ContainerExits, DaemonRestarts, DaemonRemoves, NameTaken
<1>4. ASSUME NEW m \in Names, RemovedByOther(m) PROVE NothingLoose'
  BY <1>1, <1>4 DEF TypeOK, RemovedByOther
<1>5. CASE ForceRemove \/ SweepFails
  BY <1>1, <1>5 DEF TypeOK, ForceRemove, SweepFails
<1>6. CASE UNCHANGED docker
  BY <1>6
<1> QED
  BY <1>2, <1>3, <1>4, <1>5, <1>6 DEF Next, Construct, Start, Starting, Attempt, RunCheck,
     CheckPassed, Launch, Launched, Healthy, Request, Fail, Stop, Recover, Cleaning, InspectGone,
     InspectOwned, SweepDone, Unattempted, Exit, Kill, PortTaken, PortReleased, world, gvars

(* Without SIGKILL, the container that a sweep missed because its create    *)
(* was pending is never started: however late the daemon is, no gateway     *)
(* container runs that gateway.json does not name.                          *)
THEOREM NothingLooseAlways == ServingSpec => []NothingLoose
<1>1. ServingInit => LooseInv
  <2>1. ASSUME ServingInit PROVE Attended /\ NothingLoose
    BY <2>1 DEF ServingInit, Init, Attended, Sweeping, NothingLoose
  <2> QED
    BY <2>1, GatewayTyped DEF LooseInv
<1>2. [LifecycleStep \/ AdmissionStep]_vars => [Next]_gvars
  BY DEF LifecycleStep, AdmissionStep, vars
<1>3. LooseInv /\ [Next]_gvars => LooseInv'
  BY LifecycleTyped, AttendedStep, LooseStep DEF LooseInv
<1>4. LooseInv => NothingLoose
  BY DEF LooseInv
<1>5. QED
  BY <1>1, <1>2, <1>3, <1>4, PTL DEF ServingSpec
=============================================================================
