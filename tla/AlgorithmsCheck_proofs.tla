----------------------- MODULE AlgorithmsCheck_proofs -----------------------
(***************************************************************************)
(* Proofs about the algorithms, for inputs of any size.                    *)
(***************************************************************************)
EXTENDS AlgorithmsCheck, TLAPS, FiniteSetTheorems, WellFoundedInduction

(* Induction over the naturals, for a set instead of a property.           *)
LEMMA SetInduction ==
    ASSUME NEW S, 0 \in S, \A n \in Nat : n \in S => n + 1 \in S
    PROVE  Nat \subseteq S
<1> DEFINE T == Nat \ S
<1> SUFFICES ASSUME T # {} PROVE FALSE
  OBVIOUS
<1>1. PICK x \in T : \A y \in T : <<y, x>> \notin OpToRel(<, Nat)
  <2>1. T \subseteq Nat
    OBVIOUS
  <2> HIDE DEF T
  <2> QED
    BY <2>1, WFMin, NatLessThanWellFounded
<1>2. x # 0 /\ x \in Nat
  OBVIOUS
<1>3. x - 1 \in Nat /\ x - 1 < x
  BY <1>2
<1>4. x - 1 \in S
  BY <1>1, <1>2, <1>3 DEF OpToRel
<1> QED
  BY <1>2, <1>3, <1>4

-----------------------------------------------------------------------------
(* Rounds(): the function it is defined by exists, so it is what its        *)
(* definition says.                                                        *)
Runs(round, s, n, after) ==
    after = [k \in 0 .. n |-> IF k = 0 THEN s ELSE round[after[k - 1]]]

LEMMA RunsExist ==
    ASSUME NEW round, NEW s, NEW n \in Nat
    PROVE  \E after : Runs(round, s, n, after)
<1> DEFINE S == {m \in Nat : \E after : Runs(round, s, m, after)}
<1>1. 0 \in S
  <2>1. Runs(round, s, 0, [k \in 0 .. 0 |-> s])
    BY DEF Runs
  <2> QED
    BY <2>1
<1>2. ASSUME NEW m \in Nat, m \in S PROVE m + 1 \in S
  <2>1. PICK g : Runs(round, s, m, g)
    BY <1>2
  <2> DEFINE h == [k \in 0 .. (m + 1) |-> IF k = m + 1 THEN round[g[m]] ELSE g[k]]
  <2>2. ASSUME NEW k \in 0 .. (m + 1)
        PROVE  h[k] = IF k = 0 THEN s ELSE round[h[k - 1]]
    <3>1. CASE k = 0
      BY <2>1, <3>1 DEF Runs
    <3>2. CASE k \in 1 .. m
      BY <2>1, <3>2 DEF Runs
    <3>3. CASE k = m + 1
      BY <3>3
    <3> QED
      BY <3>1, <3>2, <3>3
  <2>3. h = [k \in 0 .. (m + 1) |-> IF k = 0 THEN s ELSE round[h[k - 1]]]
    BY <2>2
  <2> HIDE DEF h
  <2>4. Runs(round, s, m + 1, h)
    BY <2>3, Zenon DEF Runs
  <2> QED
    BY <2>4
<1>3. Nat \subseteq S
  <2> HIDE DEF S
  <2> QED
    BY <1>1, <1>2, SetInduction
<1> QED
  BY <1>3

LEMMA RoundsRun ==
    ASSUME NEW round, NEW s, NEW n \in Nat
    PROVE  \E after : Runs(round, s, n, after) /\ Rounds(round, s, n) = after[n]
<1> DEFINE after == CHOOSE g : Runs(round, s, n, g)
<1>1. Runs(round, s, n, after)
  BY RunsExist
<1>2. Rounds(round, s, n) = after[n]
  BY DEF Rounds, Runs
<1> QED
  BY <1>1, <1>2

(* What each round preserves holds after all of them: Holds[k] is what is   *)
(* true after k rounds.                                                    *)
LEMMA RoundsInvariant ==
    ASSUME NEW round, NEW s, NEW n \in Nat, NEW Holds,
           s \in Holds[0],
           \A k \in 0 .. (n - 1) : \A x \in Holds[k] : round[x] \in Holds[k + 1]
    PROVE  Rounds(round, s, n) \in Holds[n]
<1>1. PICK after : Runs(round, s, n, after) /\ Rounds(round, s, n) = after[n]
  BY RoundsRun
<1> DEFINE S == {k \in Nat : k <= n => after[k] \in Holds[k]}
<1>2. 0 \in S
  BY <1>1 DEF Runs
<1>3. ASSUME NEW k \in Nat, k \in S PROVE k + 1 \in S
  <2>1. CASE k + 1 <= n
    <3>1. after[k] \in Holds[k] /\ k \in 0 .. (n - 1) /\ k + 1 \in 0 .. n
      BY <1>3, <2>1
    <3>2. after[k + 1] = round[after[k]]
      BY <1>1, <3>1 DEF Runs
    <3> QED
      BY <3>1, <3>2
  <2>2. CASE ~(k + 1 <= n)
    BY <2>2
  <2> QED
    BY <2>1, <2>2
<1>4. Nat \subseteq S
  <2> HIDE DEF S
  <2> QED
    BY <1>2, <1>3, SetInduction
<1> QED
  BY <1>1, <1>4

-----------------------------------------------------------------------------
(* The probes halve any buffer away.                                       *)
LEMMA Halving ==
    \E half \in [0 .. Probes -> Nat] :
        /\ half[0] = MaxLength + 1 /\ half[Probes] = 0
        /\ \A k \in 0 .. (Probes - 1) : half[k + 1] = half[k] \div 2
<1> DEFINE top == MaxLength + 1
           halve == [m \in 0 .. top |-> m \div 2]
<1>0. Probes \in Nat /\ top \in Nat
  BY PromptAssumption, BoundsAssumption
<1>1. PICK half : Runs(halve, top, Probes, half) /\ Halved(top, Probes) = half[Probes]
  BY <1>0, RoundsRun DEF Halved
<1> DEFINE S == {k \in Nat : k <= Probes => half[k] \in 0 .. top}
<1>2. 0 \in S
  BY <1>0, <1>1 DEF Runs
<1>3. ASSUME NEW k \in 0 .. (Probes - 1), half[k] \in 0 .. top
      PROVE  half[k + 1] = half[k] \div 2 /\ half[k + 1] \in 0 .. top
  <2>1. half[k + 1] = halve[half[k]]
    BY <1>0, <1>1 DEF Runs
  <2>2. half[k] \div 2 \in 0 .. top
    BY <1>0, <1>3
  <2> QED
    BY <1>3, <2>1, <2>2
<1>4. \A k \in Nat : k \in S => k + 1 \in S
  BY <1>0, <1>3
<1>5. Nat \subseteq S
  <2> HIDE DEF S
  <2> QED
    BY <1>2, <1>4, SetInduction
<1>6. \A k \in 0 .. Probes : half[k] \in 0 .. top
  BY <1>0, <1>5
<1>7. half \in [0 .. Probes -> Nat]
  BY <1>0, <1>1, <1>6 DEF Runs
<1>8. half[0] = top /\ half[Probes] = 0
  BY <1>0, <1>1, ProbesSuffice DEF Runs
<1> QED
  BY <1>0, <1>3, <1>6, <1>7, <1>8

(* The middle splits a range in halves.                                    *)
LEMMA MiddleHalves ==
    ASSUME NEW low \in Int, NEW high \in Int, low <= high, NEW m, m = (low + high) \div 2,
           NEW h \in Nat
    PROVE  /\ m \in Int /\ low <= m /\ m <= high
           /\ high - low <= h => /\ m - low <= h \div 2
                                 /\ m # high => high - (m + 1) <= h \div 2
           /\ high - low + 1 <= h => high - m <= h \div 2 /\ m - low <= h \div 2
<1>1. m \in Int /\ low <= m /\ m <= high
  OBVIOUS
<1>2. high - low <= h => m - low <= h \div 2
  OBVIOUS
<1>3. high - low <= h /\ m # high => high - (m + 1) <= h \div 2
  BY <1>1
<1>4. high - low + 1 <= h => high - m <= h \div 2
  OBVIOUS
<1>5. high - low + 1 <= h => m - low <= h \div 2
  OBVIOUS
<1> QED
  BY <1>1, <1>2, <1>3, <1>4, <1>5

(* One round of exact_prompt()'s bisection, told by its effect.             *)
LEMMA ExactRoundIs ==
    ASSUME NEW len \in Nat, NEW counts \in [0 .. len -> Int], NEW target \in Int,
           NEW s \in Bisection(len), NEW m, m = Middle(s), NEW r,
           r = ExactRound(counts, len, target)[s], ~s.exact, s.low <= s.high
    PROVE  /\ m \in s.low .. s.high /\ m \in 0 .. len /\ counts[m] \in Int
           /\ r \in Bisection(len)
           /\ counts[m] = target => r.length = m /\ r.exact
           /\ counts[m] < target => /\ r.length = m /\ ~r.exact
                                    /\ r.low = m + 1 /\ r.high = s.high
           /\ counts[m] > target => /\ r.length = s.length /\ ~r.exact
                                    /\ r.low = s.low /\ r.high = m - 1
<1>1. /\ s.low \in 0 .. len + 1 /\ s.high \in -1 .. len
      /\ s.length \in -1 .. len /\ s.exact \in BOOLEAN
  BY DEF Bisection
<1>2. m \in s.low .. s.high /\ m \in 0 .. len
  <2>1. s.low \in Int /\ s.high \in Int /\ 0 <= s.low /\ s.high <= len
    BY <1>1
  <2>2. m = (s.low + s.high) \div 2
    BY DEF Middle
  <2>3. m \in Int /\ s.low <= m /\ m <= s.high
    BY <2>1, <2>2, 0 \in Nat, MiddleHalves
  <2> QED
    BY <2>1, <2>3
<1>3. counts[m] \in Int
  BY <1>2
<1>4. CASE counts[m] = target
  <2>1. r = [s EXCEPT !.length = m, !.exact = TRUE]
    BY <1>1, <1>4 DEF ExactRound
  <2>2. m \in -1 .. len
    BY <1>2
  <2>3. r \in Bisection(len) /\ r.length = m /\ r.exact
    BY <1>1, <2>1, <2>2 DEF Bisection
  <2> QED
    BY <1>2, <1>3, <1>4, <2>3
<1>5. CASE counts[m] < target
  <2>1. r = [s EXCEPT !.length = m, !.low = m + 1]
    BY <1>1, <1>3, <1>5 DEF ExactRound
  <2>2. m \in -1 .. len /\ m + 1 \in 0 .. len + 1
    BY <1>2
  <2>3. /\ r \in Bisection(len) /\ r.length = m /\ ~r.exact
        /\ r.low = m + 1 /\ r.high = s.high
    BY <1>1, <2>1, <2>2 DEF Bisection
  <2> QED
    BY <1>2, <1>3, <1>5, <2>3
<1>6. CASE counts[m] > target
  <2>1. r = [s EXCEPT !.high = m - 1]
    BY <1>1, <1>3, <1>6 DEF ExactRound
  <2> QED
    BY <1>1, <1>2, <1>3, <1>6, <2>1 DEF Bisection
<1> QED
  BY <1>2, <1>3, <1>4, <1>5, <1>6

(* What holds of the bisection between two rounds.                         *)
Grows(counts, len) == \A m, n \in 0 .. len : m <= n => counts[m] <= counts[n]

Bisected(counts, len, target, s) ==
    /\ s.exact => s.length \in 0 .. len /\ counts[s.length] = target
    /\ ~s.exact => /\ s.length = Failed \/ (s.length \in 0 .. len /\ counts[s.length] < target)
                   /\ s.length = s.low - 1
                   /\ Grows(counts, len) =>
                         \A n \in 0 .. len : /\ n < s.low => counts[n] < target
                                             /\ n > s.high => counts[n] > target

LEMMA ExactRoundKeeps ==
    ASSUME NEW len \in Nat, NEW counts \in [0 .. len -> Int], NEW target \in Int,
           NEW s \in Bisection(len), Bisected(counts, len, target, s), NEW h \in Nat,
           s.exact \/ s.high - s.low + 1 <= h, NEW r,
           r = ExactRound(counts, len, target)[s]
    PROVE  /\ r \in Bisection(len) /\ Bisected(counts, len, target, r)
           /\ r.exact \/ r.high - r.low + 1 <= h \div 2
<1>1. /\ s.low \in 0 .. len + 1 /\ s.high \in -1 .. len
      /\ s.length \in -1 .. len /\ s.exact \in BOOLEAN
  BY DEF Bisection
<1>2. CASE s.exact \/ s.low > s.high
  <2>1. r = s
    BY <1>2 DEF ExactRound
  <2>2. s.exact \/ s.high - s.low + 1 <= h \div 2
    BY <1>1, <1>2
  <2> QED
    BY <2>1, <2>2
<1>3. CASE ~s.exact /\ s.low <= s.high
  <2> DEFINE m == Middle(s)
  <2>1. m = (s.low + s.high) \div 2
    BY DEF Middle
  <2> HIDE DEF m
  <2>2. s.high - m <= h \div 2 /\ m - s.low <= h \div 2
    <3>1. s.low \in Int /\ s.high \in Int /\ s.high - s.low + 1 <= h
      BY <1>1, <1>3
    <3> QED
      BY <1>3, <2>1, <3>1, MiddleHalves
  <2>3. /\ m \in s.low .. s.high /\ m \in 0 .. len /\ counts[m] \in Int
        /\ r \in Bisection(len)
        /\ counts[m] = target => r.length = m /\ r.exact
        /\ counts[m] < target => /\ r.length = m /\ ~r.exact
                                 /\ r.low = m + 1 /\ r.high = s.high
        /\ counts[m] > target => /\ r.length = s.length /\ ~r.exact
                                 /\ r.low = s.low /\ r.high = m - 1
    BY <1>3, ExactRoundIs DEF m
  <2>4. CASE counts[m] = target
    BY <2>3, <2>4 DEF Bisected
  <2>5. CASE counts[m] < target
    <3>1. ASSUME Grows(counts, len), NEW n \in 0 .. len, n < m + 1 PROVE counts[n] < target
      <4>1. counts[n] <= counts[m] /\ counts[n] \in Int
        BY <1>1, <2>3, <3>1 DEF Grows
      <4> QED
        BY <2>3, <2>5, <4>1
    <3>2. r.high - r.low + 1 <= h \div 2
      <4>1. s.high \in Int /\ m \in Int /\ h \div 2 \in Int /\ r.high = s.high /\ r.low = m + 1
        BY <1>1, <2>3, <2>5
      <4> QED
        BY <2>2, <4>1
    <3> QED
      <4>1. r.length = r.low - 1 /\ r.length \in 0 .. len /\ counts[r.length] < target
        <5>1. m \in 0 .. len /\ r.length = m /\ r.low = m + 1
          BY <2>3, <2>5
        <5> QED
          BY <2>5, <5>1
      <4>2. ASSUME Grows(counts, len), NEW n \in 0 .. len
            PROVE  (n < r.low => counts[n] < target) /\ (n > r.high => counts[n] > target)
        BY <1>3, <2>3, <2>5, <3>1, <4>2 DEF Bisected
      <4> QED
        BY <2>3, <2>5, <3>2, <4>1, <4>2 DEF Bisected
  <2>6. CASE counts[m] > target
    <3>1. ASSUME Grows(counts, len), NEW n \in 0 .. len, n > m - 1 PROVE counts[n] > target
      <4>1. counts[m] <= counts[n] /\ counts[n] \in Int
        BY <1>1, <2>3, <3>1 DEF Grows
      <4> QED
        BY <2>3, <2>6, <4>1
    <3>2. r.high - r.low + 1 <= h \div 2
      <4>1. s.low \in Int /\ m \in Int /\ h \div 2 \in Int /\ r.high = m - 1 /\ r.low = s.low
        BY <1>1, <2>3, <2>6
      <4> QED
        BY <2>2, <4>1
    <3> QED
      BY <1>1, <1>3, <2>3, <2>6, <3>1, <3>2 DEF Bisected
  <2> QED
    BY <2>3, <2>4, <2>5, <2>6
<1> QED
  BY <1>1, <1>2, <1>3

(* exact_prompt()'s bisection, for every buffer, target and tokenizer.      *)
LEMMA ExactFinds ==
    ASSUME NEW len \in 0 .. MaxLength, NEW counts \in [0 .. len -> Int], NEW target \in Int,
           NEW found, found = Exact(counts, len, target)
    PROVE  /\ found.exact => counts[found.length] = target
           /\ ~found.exact => \/ found.length = Failed
                              \/ found.length \in 0 .. len /\ counts[found.length] < target
           /\ ~found.exact /\ Grows(counts, len) =>
                  \A n \in 0 .. len : /\ counts[n] # target
                                      /\ counts[n] < target => n <= found.length
<1> DEFINE start == [low |-> 0, high |-> len, length |-> Failed, exact |-> FALSE]
           round == ExactRound(counts, len, target)
<1>0. /\ len \in Nat /\ Probes \in Nat /\ MaxLength \in Nat /\ len <= MaxLength
  BY PromptAssumption, BoundsAssumption
<1>1. PICK half \in [0 .. Probes -> Nat] :
        /\ half[0] = MaxLength + 1 /\ half[Probes] = 0
        /\ \A k \in 0 .. (Probes - 1) : half[k + 1] = half[k] \div 2
  BY Halving
<1> DEFINE Holds == [k \in 0 .. Probes |->
                       {s \in Bisection(len) :
                          /\ Bisected(counts, len, target, s)
                          /\ s.exact \/ s.high - s.low + 1 <= half[k]}]
<1>2. start \in Holds[0]
  <2>1. start \in Bisection(len) /\ start.high - start.low + 1 <= half[0]
    BY <1>0, <1>1 DEF Bisection, Failed
  <2>2. Bisected(counts, len, target, start)
    BY <1>0 DEF Bisected, Failed
  <2> QED
    BY <1>0, <2>1, <2>2
<1>3. ASSUME NEW k \in 0 .. (Probes - 1), NEW s \in Holds[k] PROVE round[s] \in Holds[k + 1]
  <2>1. /\ s \in Bisection(len) /\ Bisected(counts, len, target, s)
        /\ s.exact \/ s.high - s.low + 1 <= half[k]
        /\ k + 1 \in 0 .. Probes /\ half[k + 1] = half[k] \div 2 /\ half[k] \in Nat
    BY <1>0, <1>1, <1>3
  <2>2. /\ round[s] \in Bisection(len) /\ Bisected(counts, len, target, round[s])
        /\ round[s].exact \/ round[s].high - round[s].low + 1 <= half[k] \div 2
    BY <1>0, <2>1, ExactRoundKeeps
  <2> HIDE DEF round
  <2> QED
    BY <2>1, <2>2
<1>4. found = Rounds(round, start, Probes)
  BY DEF Exact
<1> HIDE DEF round, start, Holds
<1>5. found \in Holds[Probes]
  BY <1>0, <1>2, <1>3, <1>4, RoundsInvariant
<1>6. /\ found \in Bisection(len) /\ Bisected(counts, len, target, found)
      /\ found.exact \/ found.high - found.low + 1 <= 0
  BY <1>0, <1>1, <1>5 DEF Holds
<1>7. /\ found.low \in Int /\ found.high \in Int /\ found.exact \in BOOLEAN
      /\ found.high - found.low + 1 <= 0 => found.high < found.low
  BY <1>6 DEF Bisection
<1>8. ASSUME ~found.exact, Grows(counts, len), NEW n \in 0 .. len
      PROVE  counts[n] # target /\ (counts[n] < target => n <= found.length)
  <2>1. /\ n < found.low => counts[n] < target
        /\ n > found.high => counts[n] > target
        /\ found.length = found.low - 1 /\ found.high < found.low /\ counts[n] \in Int
    BY <1>6, <1>7, <1>8 DEF Bisected
  <2> QED
    BY <1>7, <2>1
<1> QED
  BY <1>6, <1>7, <1>8 DEF Bisected

-----------------------------------------------------------------------------
(* The doubling of make_prompt().                                          *)
Long(counts, len, target, s) ==
    /\ s.low <= s.high
    /\ s.low = 0 \/ counts[s.low] < target

LEMMA DoubleRoundKeeps ==
    ASSUME NEW len \in Nat, NEW counts \in [0 .. len -> Int], NEW target \in Int,
           NEW s \in Bounds(len), Long(counts, len, target, s), NEW k \in Nat,
           counts[s.high] >= target \/ s.high = len \/ s.high > k, NEW r,
           r = DoubleRound(counts, len, target)[s]
    PROVE  /\ r \in Bounds(len) /\ Long(counts, len, target, r)
           /\ counts[r.high] >= target \/ r.high = len \/ r.high > k + 1
<1>1. s.low \in 0 .. len + 1 /\ s.high \in 0 .. len /\ counts[s.high] \in Int
  BY DEF Bounds
<1>2. CASE counts[s.high] >= target \/ s.high = len
  <2>1. r = s
    BY <1>2 DEF DoubleRound
  <2> QED
    BY <1>2, <2>1
<1>3. CASE ~(counts[s.high] >= target) /\ s.high # len
  <2>1. r = [low |-> s.high, high |-> AtMost(2 * s.high, len)]
    BY <1>3 DEF DoubleRound
  <2>2. r.low = s.high /\ r.high = AtMost(2 * s.high, len)
    BY <2>1
  <2>3. /\ r.high \in 0 .. len /\ s.high <= r.high
        /\ r.high = len \/ r.high > k + 1
    BY <1>1, <1>3, <2>2 DEF AtMost
  <2>4. r \in Bounds(len)
    BY <1>1, <2>1, <2>2, <2>3 DEF Bounds
  <2> QED
    BY <1>1, <1>3, <2>2, <2>3, <2>4 DEF Long
<1> QED
  BY <1>2, <1>3

LEMMA DoublesUp ==
    ASSUME NEW len \in Nat, NEW counts \in [0 .. len -> Int], NEW target \in Int,
           NEW start \in 1 .. len, NEW s, s = Doubled(counts, len, target, start)
    PROVE  /\ s \in Bounds(len) /\ Long(counts, len, target, s)
           /\ counts[s.high] >= target \/ s.high = len
<1> DEFINE round == DoubleRound(counts, len, target)
           first == [low |-> 0, high |-> start]
           Holds == [k \in 0 .. len |->
               {x \in Bounds(len) :
                  /\ Long(counts, len, target, x)
                  /\ counts[x.high] >= target \/ x.high = len \/ x.high > k}]
<1>1. first \in Holds[0]
  BY DEF Bounds, Long
<1>2. ASSUME NEW k \in 0 .. (len - 1), NEW x \in Holds[k] PROVE round[x] \in Holds[k + 1]
  <2>1. /\ x \in Bounds(len) /\ Long(counts, len, target, x) /\ k \in Nat /\ k + 1 \in 0 .. len
        /\ counts[x.high] >= target \/ x.high = len \/ x.high > k
    BY <1>2
  <2>2. /\ round[x] \in Bounds(len) /\ Long(counts, len, target, round[x])
        /\ counts[round[x].high] >= target \/ round[x].high = len \/ round[x].high > k + 1
    BY <2>1, DoubleRoundKeeps
  <2> HIDE DEF round
  <2> QED
    BY <2>1, <2>2
<1>3. s = Rounds(round, first, len)
  BY DEF Doubled
<1> HIDE DEF round, first, Holds
<1>4. s \in Holds[len]
  BY <1>1, <1>2, <1>3, RoundsInvariant
<1>5. /\ s \in Bounds(len) /\ Long(counts, len, target, s)
      /\ counts[s.high] >= target \/ s.high = len \/ s.high > len
  BY <1>4 DEF Holds
<1>6. ~(s.high > len)
  BY <1>5 DEF Bounds
<1> QED
  BY <1>5, <1>6

(* The bisection of make_prompt(): its best has the target, and nothing     *)
(* shorter than its range has, where counts grow.                          *)
Fitted(counts, len, target, s) ==
    /\ s.low <= s.high /\ counts[s.high] >= target
    /\ Grows(counts, len) => \A n \in 0 .. len : n < s.low => counts[n] < target

LEMMA FitRoundKeeps ==
    ASSUME NEW len \in Nat, NEW counts \in [0 .. len -> Int], NEW target \in Int, NEW close \in Int,
           NEW s \in Bounds(len), Fitted(counts, len, target, s), NEW h \in Nat,
           counts[s.high] <= close \/ s.high - s.low <= h, NEW r,
           r = FitRound(counts, len, target, close)[s]
    PROVE  /\ r \in Bounds(len) /\ Fitted(counts, len, target, r)
           /\ counts[r.high] <= close \/ r.high - r.low <= h \div 2
<1>1. s.low \in Int /\ 0 <= s.low /\ s.low <= s.high /\ s.high \in 0 .. len
      /\ counts[s.high] \in Int /\ counts[s.high] >= target
  BY DEF Bounds, Fitted
<1>2. CASE counts[s.high] <= close
  <2>1. r = s
    BY <1>1, <1>2 DEF FitRound
  <2> QED
    BY <1>2, <2>1
<1>3. CASE ~(counts[s.high] <= close)
  <2> DEFINE m == Middle(s)
  <2>1. m = (s.low + s.high) \div 2
    BY DEF Middle
  <2> HIDE DEF m
  <2>2. /\ m \in 0 .. len /\ s.low <= m /\ m <= s.high
        /\ m - s.low <= h \div 2
        /\ m # s.high => s.high - (m + 1) <= h \div 2
    <3>1. s.low \in Int /\ s.high \in Int /\ s.low <= s.high /\ s.high - s.low <= h
      BY <1>1, <1>3
    <3>2. /\ m \in Int /\ s.low <= m /\ m <= s.high
          /\ m - s.low <= h \div 2
          /\ m # s.high => s.high - (m + 1) <= h \div 2
      BY <2>1, <3>1, MiddleHalves
    <3> QED
      BY <1>1, <3>1, <3>2
  <2>3. counts[m] \in Int
    BY <2>2
  <2>4. CASE counts[m] >= target
    <3>1. r = [s EXCEPT !.high = m]
      BY <1>1, <1>3, <2>4 DEF FitRound, m
    <3>2. r \in Bounds(len) /\ r.low = s.low /\ r.high = m
      BY <2>2, <3>1 DEF Bounds
    <3> QED
      BY <2>2, <2>4, <3>2 DEF Fitted
  <2>5. CASE counts[m] < target
    <3>1. r = [s EXCEPT !.low = m + 1]
      BY <1>1, <1>3, <2>3, <2>5 DEF FitRound, m
    <3>2. m + 1 \in 0 .. len + 1 /\ m # s.high
      BY <1>1, <2>2, <2>5
    <3>3. r \in Bounds(len) /\ r.low = m + 1 /\ r.high = s.high
      BY <3>1, <3>2 DEF Bounds
    <3>4. ASSUME Grows(counts, len), NEW n \in 0 .. len, n < m + 1 PROVE counts[n] < target
      <4>1. counts[n] <= counts[m] /\ counts[n] \in Int
        BY <2>2, <3>4 DEF Grows
      <4> QED
        BY <2>3, <2>5, <4>1
    <3>5. r.low <= r.high /\ r.high - r.low <= h \div 2
      BY <1>1, <2>2, <3>2, <3>3
    <3> QED
      BY <1>1, <3>3, <3>4, <3>5 DEF Fitted
  <2> QED
    BY <2>3, <2>4, <2>5
<1> QED
  BY <1>2, <1>3

LEMMA Narrows ==
    ASSUME NEW len \in 0 .. MaxLength, NEW counts \in [0 .. len -> Int], NEW target \in Int,
           NEW close \in Int, NEW bounds \in Bounds(len), Fitted(counts, len, target, bounds),
           NEW s, s = Narrowed(counts, len, target, close, bounds)
    PROVE  /\ s \in Bounds(len) /\ Fitted(counts, len, target, s)
           /\ counts[s.high] <= close \/ s.high = s.low
<1> DEFINE round == FitRound(counts, len, target, close)
<1>0. /\ len \in Nat /\ Probes \in Nat /\ MaxLength \in Nat /\ len <= MaxLength
  BY PromptAssumption, BoundsAssumption
<1>1. PICK half \in [0 .. Probes -> Nat] :
        /\ half[0] = MaxLength + 1 /\ half[Probes] = 0
        /\ \A k \in 0 .. (Probes - 1) : half[k + 1] = half[k] \div 2
  BY Halving
<1> DEFINE Holds == [k \in 0 .. Probes |->
                       {x \in Bounds(len) :
                          /\ Fitted(counts, len, target, x)
                          /\ counts[x.high] <= close \/ x.high - x.low <= half[k]}]
<1>2. bounds \in Holds[0]
  <2>1. bounds.high \in 0 .. len /\ bounds.low \in 0 .. len + 1
    BY DEF Bounds
  <2>2. bounds.high - bounds.low <= half[0]
    BY <1>0, <1>1, <2>1
  <2> QED
    BY <1>0, <2>2
<1>3. ASSUME NEW k \in 0 .. (Probes - 1), NEW x \in Holds[k] PROVE round[x] \in Holds[k + 1]
  <2>1. /\ x \in Bounds(len) /\ Fitted(counts, len, target, x)
        /\ counts[x.high] <= close \/ x.high - x.low <= half[k]
        /\ k + 1 \in 0 .. Probes /\ half[k + 1] = half[k] \div 2 /\ half[k] \in Nat
    BY <1>0, <1>1, <1>3
  <2>2. /\ round[x] \in Bounds(len) /\ Fitted(counts, len, target, round[x])
        /\ counts[round[x].high] <= close \/ round[x].high - round[x].low <= half[k] \div 2
    BY <1>0, <2>1, FitRoundKeeps
  <2> HIDE DEF round
  <2> QED
    BY <2>1, <2>2
<1>4. s = Rounds(round, bounds, Probes)
  BY DEF Narrowed
<1> HIDE DEF round, Holds
<1>5. s \in Holds[Probes]
  BY <1>0, <1>2, <1>3, <1>4, RoundsInvariant
<1>6. /\ s \in Bounds(len) /\ Fitted(counts, len, target, s)
      /\ counts[s.high] <= close \/ s.high - s.low <= 0
  BY <1>0, <1>1, <1>5 DEF Holds
<1>7. s.low \in Int /\ s.high \in Int /\ s.low <= s.high
  BY <1>0, <1>6 DEF Bounds, Fitted
<1> QED
  BY <1>6, <1>7

(* make_prompt(), for every buffer, target, context and tokenizer.          *)
LEMMA FitFits ==
    ASSUME NEW len \in 0 .. MaxLength, NEW counts \in [0 .. len -> Int], NEW target \in Int,
           NEW limit \in Int, NEW start \in 1 .. len, NEW length,
           length = Fit(counts, len, target, limit, start)
    PROVE  /\ length # Failed => /\ length \in 0 .. len
                                 /\ target <= counts[length] /\ counts[length] <= limit
           /\ Grows(counts, len) => \A n \in 0 .. len :
                target <= counts[n] /\ counts[n] <= limit =>
                    /\ length # Failed
                    /\ counts[n] <= target + Slack => counts[length] <= target + Slack
<1> DEFINE close == AtMost(target + Slack, limit)
           bounds == Doubled(counts, len, target, start)
           s == Narrowed(counts, len, target, close, bounds)
<1>0. /\ len \in Nat /\ Slack \in Nat /\ close \in Int
      /\ close <= target + Slack /\ close <= limit
  BY PromptAssumption, BoundsAssumption DEF AtMost
<1>1. /\ bounds \in Bounds(len) /\ Long(counts, len, target, bounds)
      /\ counts[bounds.high] >= target \/ bounds.high = len
  BY <1>0, DoublesUp
<1>2. length = IF counts[bounds.high] < target THEN Failed
               ELSE IF target <= counts[s.high] /\ counts[s.high] <= limit THEN s.high
               ELSE Failed
  BY DEF Fit
<1> HIDE DEF close, bounds
<1>3. bounds.high \in 0 .. len /\ bounds.low \in Int /\ bounds.low >= 0
      /\ bounds.low <= bounds.high
  BY <1>1 DEF Bounds, Long
<1>4. ASSUME counts[bounds.high] >= target
      PROVE  /\ s \in Bounds(len) /\ Fitted(counts, len, target, s)
             /\ counts[s.high] <= close \/ s.high = s.low
  <2>1. ASSUME Grows(counts, len), NEW n \in 0 .. len, n < bounds.low PROVE counts[n] < target
    <3>1. bounds.low \in 0 .. len /\ bounds.low # 0
      BY <1>3, <2>1
    <3>2. counts[n] <= counts[bounds.low] /\ counts[bounds.low] < target
      BY <1>1, <2>1, <3>1 DEF Grows, Long
    <3>3. counts[n] \in Int /\ counts[bounds.low] \in Int
      BY <3>1
    <3> QED
      BY <3>2, <3>3
  <2>2. Fitted(counts, len, target, bounds)
    BY <1>3, <1>4, <2>1 DEF Fitted
  <2> QED
    BY <1>0, <1>1, <2>2, Narrows
<1> HIDE DEF s
<1>5. CASE counts[bounds.high] < target
  <2>1. ~(counts[bounds.high] >= target) /\ bounds.high = len /\ counts[len] \in Int
    BY <1>0, <1>1, <1>3, <1>5
  <2>2. ASSUME Grows(counts, len), NEW n \in 0 .. len PROVE ~(target <= counts[n])
    <3>1. counts[n] <= counts[len] /\ counts[n] \in Int
      BY <1>0, <2>2 DEF Grows
    <3> QED
      BY <1>5, <2>1, <3>1
  <2> QED
    BY <1>2, <1>5, <2>2
<1>6. CASE counts[bounds.high] >= target
  <2>1. /\ s.high \in 0 .. len /\ s.low \in Int /\ s.high \in Int /\ counts[s.high] \in Int
        /\ counts[s.high] >= target
        /\ counts[s.high] <= close \/ s.high = s.low
    BY <1>0, <1>4, <1>6 DEF Bounds, Fitted
  <2>2. counts[bounds.high] \in Int
    BY <1>3
  <2>3. length = IF counts[s.high] <= limit THEN s.high ELSE Failed
    <3>1. ~(counts[bounds.high] < target) /\ target <= counts[s.high]
      BY <1>6, <2>1, <2>2
    <3> QED
      BY <1>2, <3>1
  <2>4. ASSUME Grows(counts, len), NEW n \in 0 .. len, target <= counts[n], s.high = s.low
        PROVE  counts[s.high] <= counts[n]
    <3>1. counts[n] \in Int /\ ~(counts[n] < target)
      BY <2>4
    <3>2. ~(n < s.low)
      BY <1>4, <1>6, <2>4, <3>1 DEF Fitted
    <3>3. s.high <= n
      BY <2>1, <2>4, <3>2
    <3> QED
      BY <2>1, <2>4, <3>3 DEF Grows
  <2>5. s.high # Failed
    BY <2>1 DEF Failed
  <2>6. ASSUME Grows(counts, len), NEW n \in 0 .. len, target <= counts[n], counts[n] <= limit
        PROVE  /\ length # Failed
               /\ counts[n] <= target + Slack => counts[length] <= target + Slack
    <3>1. counts[n] \in Int
      OBVIOUS
    <3>2. counts[s.high] <= close \/ counts[s.high] <= counts[n]
      BY <2>1, <2>4, <2>6
    <3>3. counts[s.high] <= limit /\ length = s.high
      BY <1>0, <2>1, <2>3, <2>6, <3>1, <3>2
    <3> QED
      BY <1>0, <2>1, <2>5, <3>1, <3>2, <3>3
  <2>7. length # Failed => length = s.high /\ counts[s.high] <= limit
    BY <2>3
  <2>8. length # Failed => /\ length \in 0 .. len
                           /\ target <= counts[length] /\ counts[length] <= limit
    BY <2>1, <2>7
  <2> QED
    BY <2>6, <2>8
<1>7. counts[bounds.high] \in Int
  BY <1>3
<1> QED
  BY <1>5, <1>6, <1>7

-----------------------------------------------------------------------------
(* What the tokenizer is asked in a behaviour.                             *)
Tokens == tokens \in Seq(1 .. MaxCount) /\ Len(tokens) <= MaxLength + 1

LEMMA TokensAlways == Spec => []Tokens
<1>1. Init => Tokens
  BY BoundsAssumption DEF Init, Tokens
<1>2. ASSUME Tokens, [Next]_vars PROVE Tokens'
  <2>1. ASSUME NEW c \in 1 .. MaxCount, Tokenize(c) PROVE Tokens'
    <3>1. tokens' = Append(tokens, c) /\ Len(tokens) <= MaxLength
      BY <2>1 DEF Tokenize
    <3> QED
      BY <1>2, <3>1, BoundsAssumption DEF Tokens
  <2>2. CASE UNCHANGED tokens
    BY <1>2, <2>2 DEF Tokens
  <2> QED
    BY <1>2, <2>1, <2>2 DEF Next, Stage, Measure, vars
<1>3. QED
  BY <1>1, <1>2, PTL DEF Spec

LEMMA BufferIs ==
    ASSUME Tokens, Buffer, NEW len, len = Len(tokens) - 1
    PROVE  /\ len \in 0 .. MaxLength /\ Lengths = 0 .. len /\ Count \in [0 .. len -> Int]
<1>1. len \in 0 .. MaxLength
  BY BoundsAssumption DEF Tokens, Buffer
<1>2. ASSUME NEW n \in 0 .. len PROVE tokens[n + 1] \in Int
  <2>1. n + 1 \in 1 .. Len(tokens)
    BY <1>1, <1>2 DEF Tokens
  <2> QED
    BY <2>1, BoundsAssumption DEF Tokens
<1> QED
  BY <1>1, <1>2 DEF Lengths, Count

(* Neighbours that grow make the whole buffer grow.                        *)
LEMMA MonotoneGrows ==
    ASSUME Tokens, Buffer, Monotone, NEW len, len = Len(tokens) - 1
    PROVE  Grows(Count, len)
<1>1. /\ len \in 0 .. MaxLength /\ Lengths = 0 .. len /\ Count \in [0 .. len -> Int]
      /\ MaxLength \in Nat
  BY BufferIs, BoundsAssumption
<1> DEFINE counts == Count
<1>2. \A n \in 1 .. len : counts[n - 1] <= counts[n]
  BY <1>1 DEF Monotone
<1> HIDE DEF counts
<1> SUFFICES ASSUME NEW m \in 0 .. len PROVE \A n \in 0 .. len : m <= n => counts[m] <= counts[n]
  BY DEF Grows, counts
<1>3. counts \in [0 .. len -> Int]
  BY <1>1 DEF counts
<1> DEFINE S == {d \in Nat : m + d <= len => counts[m] <= counts[m + d]}
<1>4. 0 \in S
  BY <1>1, <1>3
<1>5. ASSUME NEW d \in Nat, d \in S PROVE d + 1 \in S
  <2>1. CASE m + (d + 1) <= len
    <3>1. m + d \in 0 .. len /\ m + (d + 1) \in 1 .. len /\ m + (d + 1) - 1 = m + d
      BY <1>1, <2>1
    <3>2. counts[m] <= counts[m + d] /\ counts[m + d] <= counts[m + (d + 1)]
      BY <1>2, <1>5, <3>1
    <3>3. {counts[m], counts[m + d], counts[m + (d + 1)]} \subseteq Int
      BY <1>3, <3>1
    <3> QED
      BY <3>2, <3>3
  <2>2. CASE ~(m + (d + 1) <= len)
    BY <2>2
  <2> QED
    BY <2>1, <2>2
<1>6. Nat \subseteq S
  <2> HIDE DEF S
  <2> QED
    BY <1>4, <1>5, SetInduction
<1>7. ASSUME NEW n \in 0 .. len, m <= n PROVE counts[m] <= counts[n]
  <2>1. n - m \in Nat /\ m + (n - m) = n
    BY <1>1, <1>7
  <2> QED
    BY <1>1, <1>6, <1>7, <2>1
<1> QED
  BY <1>7

(* Whatever the tokenizer says, exact_prompt() takes no length for exact    *)
(* that is not; where counts grow, it misses no exact length, for buffers   *)
(* of any length that its probes can halve away.                           *)
THEOREM ExactAlways == Spec => []ExactIsFound
<1>1. Tokens => ExactIsFound
  <2> SUFFICES ASSUME Tokens, Buffer, NEW target \in Targets, NEW found,
                      found = Exact(Count, Len(tokens) - 1, target)
               PROVE  LET below == {n \in Lengths : Count[n] < target}
                      IN /\ found.exact => Count[found.length] = target
                         /\ ~found.exact => found.length \in below \cup {Failed}
                         /\ Monotone =>
                               /\ (\E n \in Lengths : Count[n] = target) => found.exact
                               /\ below # {} /\ ~found.exact =>
                                     \A n \in below : n <= found.length
    BY DEF ExactIsFound
  <2> DEFINE len == Len(tokens) - 1
             counts == Count
  <2>1. len \in 0 .. MaxLength /\ Lengths = 0 .. len /\ counts \in [0 .. len -> Int]
    BY BufferIs
  <2>2. target \in Int
    BY BoundsAssumption DEF Targets
  <2>3. Monotone => Grows(counts, len)
    BY MonotoneGrows
  <2>4. found = Exact(counts, len, target)
    OBVIOUS
  <2> HIDE DEF len, counts
  <2>5. /\ found.exact => counts[found.length] = target
        /\ ~found.exact => \/ found.length = Failed
                           \/ found.length \in 0 .. len /\ counts[found.length] < target
        /\ ~found.exact /\ Grows(counts, len) =>
               \A n \in 0 .. len : /\ counts[n] # target
                                   /\ counts[n] < target => n <= found.length
    BY <2>1, <2>2, <2>4, ExactFinds
  <2> QED
    BY <2>1, <2>3, <2>5 DEF counts
<1>2. QED
  BY <1>1, TokensAlways, PTL

(* make_prompt() returns no prompt that lacks the target or exceeds the     *)
(* context, whatever the tokenizer says; where counts grow, it finds one if *)
(* there is one, and a close one if there is a close one.                   *)
THEOREM FitAlways == Spec => []PromptFits
<1>1. Tokens => PromptFits
  <2> SUFFICES ASSUME Tokens, Buffer, NEW target \in Targets, NEW limit \in Targets,
                      NEW start \in Lengths \ {0}, NEW length,
                      length = Fit(Count, Len(tokens) - 1, target, limit, start)
               PROVE  LET fitting == {n \in Lengths \ {0} : Count[n] \in target .. limit}
                      IN /\ length # Failed => Count[length] \in target .. limit
                         /\ Monotone /\ fitting # {} =>
                               /\ length # Failed
                               /\ (\E n \in fitting : Count[n] <= target + Slack)
                                      => Count[length] <= target + Slack
    BY DEF PromptFits
  <2> DEFINE len == Len(tokens) - 1
             counts == Count
  <2>1. len \in 0 .. MaxLength /\ Lengths = 0 .. len /\ counts \in [0 .. len -> Int]
    BY BufferIs
  <2>2. target \in Int /\ limit \in Int /\ start \in 1 .. len
    BY <2>1, BoundsAssumption DEF Targets
  <2>3. Monotone => Grows(counts, len)
    BY MonotoneGrows
  <2>4. length = Fit(counts, len, target, limit, start)
    OBVIOUS
  <2> HIDE DEF len, counts
  <2>5. /\ length # Failed => /\ length \in 0 .. len
                              /\ target <= counts[length] /\ counts[length] <= limit
        /\ Grows(counts, len) => \A n \in 0 .. len :
             target <= counts[n] /\ counts[n] <= limit =>
                 /\ length # Failed
                 /\ counts[n] <= target + Slack => counts[length] <= target + Slack
    BY <2>1, <2>2, <2>4, FitFits
  <2>6. \A n \in 0 .. len : counts[n] \in target .. limit <=>
                              target <= counts[n] /\ counts[n] <= limit
    BY <2>1, <2>2
  <2>7. length # Failed => counts[length] \in target .. limit
    BY <2>5, <2>6
  <2>8. ASSUME Monotone, NEW n \in 0 .. len, counts[n] \in target .. limit
        PROVE  /\ length # Failed
               /\ counts[n] <= target + Slack => counts[length] <= target + Slack
    BY <2>3, <2>5, <2>6, <2>8
  <2> QED
    BY <2>1, <2>7, <2>8 DEF counts
<1>2. QED
  BY <1>1, TokensAlways, PTL

-----------------------------------------------------------------------------
(* Records of one stage: no two have the same id.                          *)
Records == [id : Nat, precision : {"bf16", "fp8"}, layout : {"replicas", "tp2"},
            passed : BOOLEAN, score : Nat, latency : Nat]

Stageful(V) == /\ IsFiniteSet(V) /\ V \subseteq Records
               /\ \A r, s \in V : r.id = s.id => r = s

(* A set of naturals that is not empty has a least element.               *)
LEMMA LeastNatural ==
    ASSUME NEW N, N \subseteq Nat, N # {}
    PROVE  \E m \in N : \A n \in N : m <= n
<1>1. PICK m \in N : \A n \in N : <<n, m>> \notin OpToRel(<, Nat)
  BY WFMin, NatLessThanWellFounded
<1>2. \A n \in N : ~(n < m)
  BY <1>1 DEF OpToRel
<1> QED
  BY <1>2

(* Before() is the order of the keys, read from the left.                   *)
LEMMA BeforeIs ==
    ASSUME NEW a \in Records, NEW b \in Records, NEW p, p = Key(a), NEW q, q = Key(b)
    PROVE  /\ {p[1], p[2], p[3], p[4], q[1], q[2], q[3], q[4]} \subseteq Nat
           /\ p[4] = a.id /\ q[4] = b.id
           /\ Before(a, b) <=> \/ p[1] < q[1]
                               \/ p[1] = q[1] /\ p[2] < q[2]
                               \/ p[1] = q[1] /\ p[2] = q[2] /\ p[3] < q[3]
                               \/ p[1] = q[1] /\ p[2] = q[2] /\ p[3] = q[3] /\ p[4] < q[4]
<1>1. /\ p[1] \in {0, 1} /\ p[2] = a.latency /\ p[3] = a.score /\ p[4] = a.id
      /\ q[1] \in {0, 1} /\ q[2] = b.latency /\ q[3] = b.score /\ q[4] = b.id
  BY DEF Key
<1>2. {p[1], p[2], p[3], p[4], q[1], q[2], q[3], q[4]} \subseteq Nat
  BY <1>1 DEF Records
<1>3. Before(a, b) <=> \E i \in 1 .. 4 : p[i] < q[i] /\ \A j \in 1 .. (i - 1) : p[j] = q[j]
  BY DEF Before
<1>4. ASSUME NEW i \in 1 .. 4, p[i] < q[i], \A j \in 1 .. (i - 1) : p[j] = q[j]
      PROVE  \/ p[1] < q[1]
             \/ p[1] = q[1] /\ p[2] < q[2]
             \/ p[1] = q[1] /\ p[2] = q[2] /\ p[3] < q[3]
             \/ p[1] = q[1] /\ p[2] = q[2] /\ p[3] = q[3] /\ p[4] < q[4]
  BY <1>4
<1>5. ASSUME p[1] < q[1] PROVE Before(a, b)
  BY <1>3, <1>5
<1>6. ASSUME p[1] = q[1], p[2] < q[2] PROVE Before(a, b)
  BY <1>3, <1>6
<1>7. ASSUME p[1] = q[1], p[2] = q[2], p[3] < q[3] PROVE Before(a, b)
  BY <1>3, <1>7
<1>8. ASSUME p[1] = q[1], p[2] = q[2], p[3] = q[3], p[4] < q[4] PROVE Before(a, b)
  BY <1>3, <1>8
<1>9. Before(a, b) => \/ p[1] < q[1]
                      \/ p[1] = q[1] /\ p[2] < q[2]
                      \/ p[1] = q[1] /\ p[2] = q[2] /\ p[3] < q[3]
                      \/ p[1] = q[1] /\ p[2] = q[2] /\ p[3] = q[3] /\ p[4] < q[4]
  BY <1>3, <1>4
<1> QED
  BY <1>1, <1>2, <1>5, <1>6, <1>7, <1>8, <1>9

(* It is a strict total order of the records of a stage.                    *)
LEMMA BeforeOrders ==
    ASSUME NEW V, Stageful(V)
    PROVE  /\ \A a \in V : ~Before(a, a)
           /\ \A a, b \in V : a # b => Before(a, b) \/ Before(b, a)
           /\ \A a, b, c \in V : Before(a, b) /\ Before(b, c) => Before(a, c)
<1>1. V \subseteq Records
  BY DEF Stageful
<1>2. \A a \in V : ~Before(a, a)
  BY <1>1, BeforeIs
<1>3. ASSUME NEW a \in V, NEW b \in V, a # b PROVE Before(a, b) \/ Before(b, a)
  <2>1. a.id # b.id
    BY <1>3 DEF Stageful
  <2> DEFINE p == Key(a)
             q == Key(b)
  <2>2. /\ {p[1], p[2], p[3], p[4], q[1], q[2], q[3], q[4]} \subseteq Nat
        /\ p[4] = a.id /\ q[4] = b.id
        /\ Before(a, b) <=> \/ p[1] < q[1]
                            \/ p[1] = q[1] /\ p[2] < q[2]
                            \/ p[1] = q[1] /\ p[2] = q[2] /\ p[3] < q[3]
                            \/ p[1] = q[1] /\ p[2] = q[2] /\ p[3] = q[3] /\ p[4] < q[4]
        /\ Before(b, a) <=> \/ q[1] < p[1]
                            \/ q[1] = p[1] /\ q[2] < p[2]
                            \/ q[1] = p[1] /\ q[2] = p[2] /\ q[3] < p[3]
                            \/ q[1] = p[1] /\ q[2] = p[2] /\ q[3] = p[3] /\ q[4] < p[4]
    BY <1>1, BeforeIs
  <2> HIDE DEF p, q
  <2> QED
    BY <2>1, <2>2
<1>4. ASSUME NEW a \in V, NEW b \in V, NEW c \in V, Before(a, b), Before(b, c)
      PROVE  Before(a, c)
  <2> DEFINE p == Key(a)
             q == Key(b)
             r == Key(c)
  <2>1. /\ {p[1], p[2], p[3], p[4], q[1], q[2], q[3], q[4]} \subseteq Nat
        /\ \/ p[1] < q[1]
           \/ p[1] = q[1] /\ p[2] < q[2]
           \/ p[1] = q[1] /\ p[2] = q[2] /\ p[3] < q[3]
           \/ p[1] = q[1] /\ p[2] = q[2] /\ p[3] = q[3] /\ p[4] < q[4]
    BY <1>1, <1>4, BeforeIs
  <2>2. /\ {r[1], r[2], r[3], r[4]} \subseteq Nat
        /\ \/ q[1] < r[1]
           \/ q[1] = r[1] /\ q[2] < r[2]
           \/ q[1] = r[1] /\ q[2] = r[2] /\ q[3] < r[3]
           \/ q[1] = r[1] /\ q[2] = r[2] /\ q[3] = r[3] /\ q[4] < r[4]
    BY <1>1, <1>4, BeforeIs
  <2>3. Before(a, c) <=> \/ p[1] < r[1]
                         \/ p[1] = r[1] /\ p[2] < r[2]
                         \/ p[1] = r[1] /\ p[2] = r[2] /\ p[3] < r[3]
                         \/ p[1] = r[1] /\ p[2] = r[2] /\ p[3] = r[3] /\ p[4] < r[4]
    BY <1>1, BeforeIs
  <2> HIDE DEF p, q, r
  <2> QED
    BY <2>1, <2>2, <2>3
<1> QED
  BY <1>2, <1>3, <1>4

(* So a set of them has a last one,                                         *)
LEMMA LastOne ==
    ASSUME NEW V, Stageful(V), NEW S \in SUBSET V, S # {}
    PROVE  \E m \in S : \A x \in S \ {m} : Before(x, m)
<1> DEFINE Having == {n \in Nat : \A T \in SUBSET V : Cardinality(T) = n + 1
                                   => \E m \in T : \A x \in T \ {m} : Before(x, m)}
<1>0. \A T \in SUBSET V : IsFiniteSet(T) /\ Cardinality(T) \in Nat
  BY FS_Subset, FS_CardinalityType DEF Stageful
<1>1. 0 \in Having
  <2> SUFFICES ASSUME NEW T \in SUBSET V, Cardinality(T) = 0 + 1
               PROVE  \E m \in T : \A x \in T \ {m} : Before(x, m)
    OBVIOUS
  <2>1. IsFiniteSet(T) /\ Cardinality(T) = 1
    BY <1>0
  <2>2. PICK x : T = {x}
    BY <2>1, FS_Singleton
  <2> QED
    BY <2>2
<1>2. ASSUME NEW n \in Nat, n \in Having PROVE n + 1 \in Having
  <2> SUFFICES ASSUME NEW T \in SUBSET V, Cardinality(T) = (n + 1) + 1
               PROVE  \E m \in T : \A x \in T \ {m} : Before(x, m)
    OBVIOUS
  <2>1. IsFiniteSet(T) /\ T # {}
    BY <1>0, FS_EmptySet
  <2>2. PICK y \in T : TRUE
    BY <2>1
  <2>3. Cardinality(T \ {y}) = n + 1 /\ T \ {y} \in SUBSET V
    <3>1. Cardinality(T \ {y}) = Cardinality(T) - 1
      BY <2>1, <2>2, FS_RemoveElement
    <3>2. Cardinality(T) = (n + 1) + 1
      OBVIOUS
    <3> QED
      BY <3>1, <3>2
  <2>4. PICK m \in T \ {y} : \A x \in (T \ {y}) \ {m} : Before(x, m)
    BY <1>2, <2>3
  <2>5. CASE Before(m, y)
    <3>1. \A x \in T \ {y} : Before(x, y)
      BY <2>2, <2>4, <2>5, BeforeOrders
    <3> QED
      BY <2>2, <3>1
  <2>6. CASE ~Before(m, y)
    <3>1. Before(y, m)
      BY <2>2, <2>4, <2>6, BeforeOrders
    <3> QED
      BY <2>4, <3>1
  <2> QED
    BY <2>5, <2>6
<1>3. Nat \subseteq Having
  <2> HIDE DEF Having
  <2> QED
    BY <1>1, <1>2, SetInduction
<1>4. Cardinality(S) - 1 \in Nat
  BY <1>0, FS_EmptySet
<1>5. \A k \in Nat : k + 1 = Cardinality(S) => \E m \in S : \A x \in S \ {m} : Before(x, m)
  BY <1>3
<1> HIDE DEF Having
<1> QED
  BY <1>0, <1>4, <1>5

(* and can be sorted: each of them once, in order.                          *)
InOrder(s, n, S) ==
    /\ s \in [1 .. n -> S] /\ ToSet(s) = S
    /\ \A i, j \in 1 .. n : i < j => Before(s[i], s[j])

LEMMA SortExists ==
    ASSUME NEW V, Stageful(V), NEW S \in SUBSET V
    PROVE  Cardinality(S) \in Nat /\ \E s : InOrder(s, Cardinality(S), S)
<1> DEFINE Having == {n \in Nat : \A T \in SUBSET V : Cardinality(T) = n
                                   => \E s : InOrder(s, n, T)}
<1>0. \A T \in SUBSET V : IsFiniteSet(T) /\ Cardinality(T) \in Nat
  BY FS_Subset, FS_CardinalityType DEF Stageful
<1>1. 0 \in Having
  <2> SUFFICES ASSUME NEW T \in SUBSET V, Cardinality(T) = 0 PROVE \E s : InOrder(s, 0, T)
    OBVIOUS
  <2>1. T = {}
    BY <1>0, FS_EmptySet
  <2>2. InOrder([i \in 1 .. 0 |-> 0], 0, T)
    BY <2>1 DEF InOrder, ToSet
  <2> QED
    BY <2>2
<1>2. ASSUME NEW n \in Nat, n \in Having PROVE n + 1 \in Having
  <2> SUFFICES ASSUME NEW T \in SUBSET V, Cardinality(T) = n + 1
               PROVE  \E s : InOrder(s, n + 1, T)
    OBVIOUS
  <2>1. IsFiniteSet(T) /\ T # {}
    BY <1>0, FS_EmptySet
  <2>2. PICK m \in T : \A x \in T \ {m} : Before(x, m)
    BY <2>1, LastOne
  <2>3. Cardinality(T \ {m}) = n /\ T \ {m} \in SUBSET V
    BY <2>1, <2>2, FS_RemoveElement
  <2>4. PICK s : InOrder(s, n, T \ {m})
    BY <1>2, <2>3
  <2> DEFINE t == [i \in 1 .. (n + 1) |-> IF i = n + 1 THEN m ELSE s[i]]
  <2>5. t \in [1 .. (n + 1) -> T] /\ t[n + 1] = m
        /\ \A i \in 1 .. n : t[i] = s[i] /\ s[i] \in T \ {m}
    BY <2>4 DEF InOrder
  <2> HIDE DEF t
  <2>6. ToSet(t) = T
    <3>1. ASSUME NEW x \in T PROVE \E i \in 1 .. (n + 1) : t[i] = x
      <4>1. CASE x = m
        BY <2>5, <4>1
      <4>2. CASE x # m
        <5>1. PICK i \in 1 .. n : s[i] = x
          BY <2>4, <4>2 DEF InOrder, ToSet
        <5> QED
          BY <2>5, <5>1
      <4> QED
        BY <4>1, <4>2
    <3> QED
      BY <2>5, <3>1 DEF ToSet
  <2>7. ASSUME NEW i \in 1 .. (n + 1), NEW j \in 1 .. (n + 1), i < j
        PROVE  Before(t[i], t[j])
    <3>1. i \in 1 .. n
      BY <2>7
    <3>2. CASE j = n + 1
      BY <2>2, <2>5, <3>1, <3>2
    <3>3. CASE j \in 1 .. n
      BY <2>4, <2>5, <2>7, <3>1, <3>3 DEF InOrder
    <3> QED
      BY <3>2, <3>3
  <2> QED
    BY <2>5, <2>6, <2>7 DEF InOrder
<1>3. Nat \subseteq Having
  <2> HIDE DEF Having
  <2> QED
    BY <1>1, <1>2, SetInduction
<1> QED
  BY <1>0, <1>3

LEMMA SortedSorts ==
    ASSUME NEW V, Stageful(V), NEW S \in SUBSET V
    PROVE  /\ Cardinality(S) \in Nat
           /\ InOrder(Sorted(S), Cardinality(S), S)
<1>1. Cardinality(S) \in Nat
  BY SortExists
<1>2. PICK s : InOrder(s, Cardinality(S), S)
  BY SortExists
<1>3. \E f \in [1 .. Cardinality(S) -> S] :
        /\ ToSet(f) = S
        /\ \A i, j \in DOMAIN f : i < j => Before(f[i], f[j])
  BY <1>2 DEF InOrder
<1> QED
  BY <1>1, <1>3 DEF Sorted, InOrder

-----------------------------------------------------------------------------
(* The fastest, and the band of those within the tolerance of it: nobody is *)
(* faster than one of the band by more than the tolerance.                  *)
LEMMA BandIs ==
    ASSUME NEW V, Stageful(V), NEW R \in SUBSET V, R # {}
    PROVE  /\ Fastest(R) \in Nat
           /\ Band(R) \in SUBSET R /\ Band(R) # {}
           /\ \A r \in Band(R), s \in R : ~MuchSlower(r, s)
           /\ \A r \in R \ Band(R) : MuchSlower(r, [score |-> Fastest(R)])
<1> DEFINE F == Fastest(R)
<1>1. \A r \in R : r.score \in Nat
  BY DEF Stageful, Records
<1>2. F \in {r.score : r \in R} /\ \A r \in R : F <= r.score
  <2>1. \E m \in {r.score : r \in R} : \A n \in {r.score : r \in R} : m <= n
    BY <1>1, LeastNatural
  <2> QED
    BY <2>1 DEF Fastest
<1> HIDE DEF F
<1>3. SpeedTolerance \in Nat /\ 100 - SpeedTolerance \in Nat /\ 100 - SpeedTolerance <= 100
  BY ToleranceAssumption
<1>4. Band(R) = {r \in R : r.score * (100 - SpeedTolerance) <= F * 100}
  BY DEF Band, F
<1>5. F \in Nat
  BY <1>1, <1>2
<1>6. Band(R) # {}
  <2>1. PICK r \in R : r.score = F
    BY <1>2
  <2>2. F * (100 - SpeedTolerance) <= F * 100
    BY <1>3, <1>5
  <2> QED
    BY <1>4, <2>1, <2>2
<1>7. ASSUME NEW r \in Band(R), NEW s \in R PROVE ~MuchSlower(r, s)
  <2>1. /\ r.score * (100 - SpeedTolerance) <= F * 100 /\ F <= s.score /\ s.score \in Nat
        /\ r.score \in Nat
    BY <1>1, <1>2, <1>4, <1>7
  <2> DEFINE w == r.score * (100 - SpeedTolerance)
  <2>2. w \in Int /\ w <= F * 100
    BY <1>3, <2>1
  <2> HIDE DEF w
  <2>3. ~(w > s.score * 100)
    BY <1>5, <2>1, <2>2
  <2> QED
    BY <2>3 DEF MuchSlower, w
<1>8. ASSUME NEW r \in R \ Band(R) PROVE MuchSlower(r, [score |-> F])
  <2>1. ~(r.score * (100 - SpeedTolerance) <= F * 100) /\ r.score \in Nat
    BY <1>1, <1>4, <1>8
  <2> DEFINE w == r.score * (100 - SpeedTolerance)
  <2>2. w \in Int /\ ~(w <= F * 100)
    BY <1>3, <2>1
  <2> HIDE DEF w
  <2>3. w > F * 100
    BY <1>5, <2>2
  <2> QED
    BY <2>3 DEF MuchSlower, w
<1> QED
  BY <1>4, <1>5, <1>6, <1>7, <1>8 DEF F

-----------------------------------------------------------------------------
(* A sequence without repetitions is as long as it has elements.           *)
Distinct(s) == \A i, j \in 1 .. Len(s) : s[i] = s[j] => i = j

LEMMA ElementsOf ==
    ASSUME NEW V, NEW s \in Seq(V)
    PROVE  /\ Len(s) \in Nat /\ DOMAIN s = 1 .. Len(s)
           /\ \A i \in 1 .. Len(s) : s[i] \in V
           /\ \A x : x \in ToSet(s) <=> \E i \in 1 .. Len(s) : s[i] = x
           /\ ToSet(s) \subseteq V
           /\ s \in Seq(ToSet(s))
<1>1. Len(s) \in Nat /\ DOMAIN s = 1 .. Len(s) /\ s \in [1 .. Len(s) -> V]
  OBVIOUS
<1>2. \A x : x \in ToSet(s) <=> \E i \in 1 .. Len(s) : s[i] = x
  BY <1>1 DEF ToSet
<1>3. s \in [1 .. Len(s) -> ToSet(s)]
  BY <1>1, <1>2
<1> QED
  BY <1>1, <1>2, <1>3

LEMMA DistinctLength ==
    ASSUME NEW V, NEW s \in Seq(V), Distinct(s)
    PROVE  Cardinality(ToSet(s)) = Len(s)
<1>1. /\ Len(s) \in Nat
      /\ s \in [1 .. Len(s) -> ToSet(s)]
      /\ \A x \in ToSet(s) : \E i \in 1 .. Len(s) : s[i] = x
  BY ElementsOf
<1>2. s \in Bijection(1 .. Len(s), ToSet(s))
  BY <1>1 DEF Distinct, Bijection, Injection, Surjection, IsInjective
<1> QED
  BY <1>1, <1>2, FS_CountingElements DEF ExistsBijection

(* Adding an element to a sequence, and elements to its end.               *)
LEMMA AppendIs ==
    ASSUME NEW V, NEW s \in Seq(V), NEW x \in V
    PROVE  /\ Append(s, x) \in Seq(V) /\ Len(Append(s, x)) = Len(s) + 1
           /\ \A i \in 1 .. Len(s) : Append(s, x)[i] = s[i]
           /\ Append(s, x)[Len(s) + 1] = x
           /\ ToSet(Append(s, x)) = ToSet(s) \cup {x}
           /\ Distinct(s) /\ x \notin ToSet(s) => Distinct(Append(s, x))
<1> DEFINE t == Append(s, x)
<1>1. /\ t \in Seq(V) /\ Len(t) = Len(s) + 1 /\ Len(s) \in Nat
      /\ \A i \in 1 .. Len(s) : t[i] = s[i]
      /\ t[Len(s) + 1] = x
  OBVIOUS
<1> HIDE DEF t
<1>2. ToSet(t) = ToSet(s) \cup {x}
  <2>1. \A y : y \in ToSet(t) <=> \E i \in 1 .. (Len(s) + 1) : t[i] = y
    BY <1>1, ElementsOf
  <2>2. \A y : y \in ToSet(s) <=> \E i \in 1 .. Len(s) : s[i] = y
    BY ElementsOf
  <2>3. \A i \in 1 .. (Len(s) + 1) : i = Len(s) + 1 \/ i \in 1 .. Len(s)
    BY <1>1
  <2>4. Len(s) + 1 \in 1 .. (Len(s) + 1) /\ 1 .. Len(s) \subseteq 1 .. (Len(s) + 1)
    BY <1>1
  <2> QED
    BY <1>1, <2>1, <2>2, <2>3, <2>4
<1>3. ASSUME Distinct(s), x \notin ToSet(s) PROVE Distinct(t)
  <2> SUFFICES ASSUME NEW i \in 1 .. Len(t), NEW j \in 1 .. Len(t), t[i] = t[j] PROVE i = j
    BY DEF Distinct
  <2>1. \A k \in 1 .. Len(s) : s[k] # x
    BY <1>3, ElementsOf
  <2>2. /\ i = Len(s) + 1 \/ i \in 1 .. Len(s)
        /\ j = Len(s) + 1 \/ j \in 1 .. Len(s)
    BY <1>1
  <2> QED
    BY <1>1, <1>3, <2>1, <2>2 DEF Distinct
<1> QED
  BY <1>1, <1>2, <1>3 DEF t

LEMMA ConcatIs ==
    ASSUME NEW V, NEW s \in Seq(V), NEW t \in Seq(V)
    PROVE  /\ s \o t \in Seq(V) /\ Len(s \o t) = Len(s) + Len(t)
           /\ \A i \in 1 .. Len(s) : (s \o t)[i] = s[i]
           /\ \A i \in 1 .. Len(t) : (s \o t)[Len(s) + i] = t[i]
           /\ \A i \in 1 .. (Len(s) + Len(t)) :
                  i \in 1 .. Len(s) \/ i - Len(s) \in 1 .. Len(t)
           /\ ToSet(s \o t) = ToSet(s) \cup ToSet(t)
           /\ Distinct(s) /\ Distinct(t) /\ ToSet(s) \cap ToSet(t) = {} => Distinct(s \o t)
<1> DEFINE u == s \o t
<1>1. /\ u \in Seq(V) /\ Len(u) = Len(s) + Len(t) /\ Len(s) \in Nat /\ Len(t) \in Nat
      /\ \A i \in 1 .. Len(s) : u[i] = s[i]
  OBVIOUS
<1>2. \A i \in 1 .. Len(t) : u[Len(s) + i] = t[i]
  OBVIOUS
<1> HIDE DEF u
<1>3. \A i \in 1 .. (Len(s) + Len(t)) : i \in 1 .. Len(s) \/ i - Len(s) \in 1 .. Len(t)
  BY <1>1
<1>4. \A i \in 1 .. Len(u) : i \in 1 .. Len(s) \/ \E j \in 1 .. Len(t) : i = Len(s) + j
  <2>1. \A i \in 1 .. Len(u) : i \in Int /\ i = Len(s) + (i - Len(s))
    BY <1>1
  <2> QED
    BY <1>1, <1>3, <2>1
<1>5. ToSet(u) = ToSet(s) \cup ToSet(t)
  <2>1. \A y : y \in ToSet(u) <=> \E i \in 1 .. Len(u) : u[i] = y
    BY <1>1, ElementsOf
  <2>2. \A y : y \in ToSet(s) <=> \E i \in 1 .. Len(s) : s[i] = y
    BY ElementsOf
  <2>3. \A y : y \in ToSet(t) <=> \E i \in 1 .. Len(t) : t[i] = y
    BY ElementsOf
  <2>4. /\ 1 .. Len(s) \subseteq 1 .. Len(u)
        /\ \A i \in 1 .. Len(t) : Len(s) + i \in 1 .. Len(u)
    BY <1>1
  <2>5. ASSUME NEW y \in ToSet(u) PROVE y \in ToSet(s) \cup ToSet(t)
    <3>1. PICK i \in 1 .. Len(u) : u[i] = y
      BY <2>1
    <3>2. CASE i \in 1 .. Len(s)
      BY <1>1, <2>2, <3>1, <3>2
    <3>3. CASE \E j \in 1 .. Len(t) : i = Len(s) + j
      BY <1>2, <2>3, <3>1, <3>3
    <3> QED
      BY <1>4, <3>2, <3>3
  <2>6. ToSet(s) \subseteq ToSet(u)
    BY <1>1, <2>1, <2>2, <2>4
  <2>7. ToSet(t) \subseteq ToSet(u)
    BY <1>2, <2>1, <2>3, <2>4
  <2> QED
    BY <2>5, <2>6, <2>7
<1>6. ASSUME Distinct(s), Distinct(t), ToSet(s) \cap ToSet(t) = {} PROVE Distinct(u)
  <2> SUFFICES ASSUME NEW i \in 1 .. Len(u), NEW j \in 1 .. Len(u), u[i] = u[j] PROVE i = j
    BY DEF Distinct
  <2>1. \A k \in 1 .. Len(s), l \in 1 .. Len(t) : s[k] # t[l]
    BY <1>6, ElementsOf
  <2>2. i \in 1 .. Len(s) \/ \E k \in 1 .. Len(t) : i = Len(s) + k
    BY <1>4
  <2>3. j \in 1 .. Len(s) \/ \E k \in 1 .. Len(t) : j = Len(s) + k
    BY <1>4
  <2> QED
    BY <1>1, <1>2, <1>6, <2>1, <2>2, <2>3 DEF Distinct
<1> QED
  BY <1>1, <1>2, <1>3, <1>5, <1>6 DEF u

-----------------------------------------------------------------------------
(* The ranking, with `remaining` still to be ranked.                       *)
Fair(V, ranked, remaining) ==
    /\ ranked \in Seq(V) /\ remaining \in SUBSET V
    /\ ToSet(ranked) = V \ remaining /\ Distinct(ranked)
    /\ \A i, j \in 1 .. Len(ranked) : i < j => ~MuchSlower(ranked[i], ranked[j])
    /\ \A i \in 1 .. Len(ranked) : \A r \in remaining : ~MuchSlower(ranked[i], r)
    /\ ranked # <<>> => \A r \in V : Before(r, ranked[1])
                                         => MuchSlower(r, [score |-> Fastest(V)])

(* A band, sorted, as a sequence; nobody comes before its first.           *)
LEMMA SortedIsSequence ==
    ASSUME NEW V, Stageful(V), NEW S \in SUBSET V
    PROVE  /\ Sorted(S) \in Seq(V) /\ ToSet(Sorted(S)) = S /\ Distinct(Sorted(S))
           /\ \A r \in S : ~Before(r, Sorted(S)[1])
<1> DEFINE t == Sorted(S)
           m == Cardinality(S)
<1>1. /\ m \in Nat /\ t \in [1 .. m -> S] /\ ToSet(t) = S
      /\ \A i, j \in 1 .. m : i < j => Before(t[i], t[j])
  BY SortedSorts DEF InOrder
<1> HIDE DEF t, m
<1>2. t \in Seq(S) /\ t \in Seq(V) /\ Len(t) = m
  <2>1. t \in Seq(S)
    BY <1>1
  <2>2. t \in Seq(V)
    BY <1>1
  <2> QED
    BY <1>1, <2>1, <2>2
<1>3. /\ \A i \in 1 .. m : t[i] \in S
      /\ \A r \in S : \E i \in 1 .. m : t[i] = r
  BY <1>1, <1>2, ElementsOf
<1>4. Distinct(t)
  <2> SUFFICES ASSUME NEW i \in 1 .. m, NEW j \in 1 .. m, t[i] = t[j] PROVE i = j
    BY <1>2 DEF Distinct
  <2>1. ~Before(t[i], t[j]) /\ ~Before(t[j], t[i])
    BY <1>3, BeforeOrders
  <2>2. ~(i < j) /\ ~(j < i)
    BY <1>1, <2>1
  <2> QED
    BY <2>2
<1>5. ASSUME NEW r \in S PROVE ~Before(r, t[1])
  <2>1. PICK i \in 1 .. m : t[i] = r
    BY <1>3
  <2>2. 1 \in 1 .. m /\ (i = 1 \/ 1 < i)
    BY <1>1
  <2>3. r = t[1] \/ Before(t[1], r)
    BY <1>1, <2>1, <2>2
  <2>4. t[1] \in V /\ r \in V
    BY <1>3, <2>2
  <2> QED
    BY <2>3, <2>4, BeforeOrders
<1> QED
  BY <1>1, <1>2, <1>4, <1>5 DEF t

LEMMA BandIsRanked ==
    ASSUME NEW V, Stageful(V), NEW ranked, NEW R, Fair(V, ranked, R), R # {}
    PROVE  Fair(V, ranked \o Sorted(Band(R)), R \ Band(R))
<1> DEFINE B == Band(R)
           t == Sorted(B)
           u == ranked \o t
           n == Len(ranked)
<1>1. /\ ranked \in Seq(V) /\ R \in SUBSET V /\ ToSet(ranked) = V \ R /\ Distinct(ranked)
      /\ \A i, j \in 1 .. n : i < j => ~MuchSlower(ranked[i], ranked[j])
      /\ \A i \in 1 .. n : \A r \in R : ~MuchSlower(ranked[i], r)
      /\ ranked # <<>> => \A r \in V : Before(r, ranked[1])
                                           => MuchSlower(r, [score |-> Fastest(V)])
  BY DEF Fair
<1>2. /\ B \in SUBSET R /\ B # {}
      /\ \A r \in B, s \in R : ~MuchSlower(r, s)
      /\ \A r \in R \ B : MuchSlower(r, [score |-> Fastest(R)])
  BY <1>1, BandIs
<1>3. /\ t \in Seq(V) /\ ToSet(t) = B /\ Distinct(t)
      /\ \A r \in B : ~Before(r, t[1])
  BY <1>1, <1>2, SortedIsSequence
<1> HIDE DEF B, t
<1>4. /\ u \in Seq(V) /\ Len(u) = n + Len(t)
      /\ \A i \in 1 .. n : u[i] = ranked[i]
      /\ \A i \in 1 .. Len(t) : u[n + i] = t[i]
      /\ \A i \in 1 .. (n + Len(t)) : i \in 1 .. n \/ i - n \in 1 .. Len(t)
      /\ ToSet(u) = ToSet(ranked) \cup B
      /\ Distinct(ranked) /\ Distinct(t) /\ ToSet(ranked) \cap ToSet(t) = {} => Distinct(u)
  BY <1>1, <1>3, ConcatIs
<1>5. /\ n \in Nat /\ Len(t) \in Nat
      /\ \A i \in 1 .. Len(t) : t[i] \in B
      /\ \A x \in B : \E i \in 1 .. Len(t) : t[i] = x
  BY <1>1, <1>3, ElementsOf
<1> HIDE DEF u, n
<1>6. ToSet(u) = V \ (R \ B) /\ Distinct(u)
  BY <1>1, <1>2, <1>3, <1>4
<1>7. \A i \in 1 .. Len(u) : \/ i \in 1 .. n /\ u[i] = ranked[i]
                             \/ i - n \in 1 .. Len(t) /\ u[i] = t[i - n] /\ u[i] \in B
  <2> SUFFICES ASSUME NEW i \in 1 .. Len(u), i - n \in 1 .. Len(t)
               PROVE  u[i] = t[i - n] /\ u[i] \in B
    BY <1>4
  <2>1. n + (i - n) = i
    BY <1>4, <1>5
  <2> QED
    BY <1>4, <1>5, <2>1
<1>8. ASSUME NEW i \in 1 .. Len(u), NEW j \in 1 .. Len(u), i < j
      PROVE  ~MuchSlower(u[i], u[j])
  <2>1. CASE j \in 1 .. n
    <3>1. i \in 1 .. n
      BY <1>4, <1>5, <1>8, <2>1
    <3> QED
      BY <1>1, <1>4, <1>8, <2>1, <3>1
  <2>2. CASE u[j] \in B
    BY <1>1, <1>2, <1>7, <2>2
  <2> QED
    BY <1>7, <2>1, <2>2
<1>9. ASSUME NEW i \in 1 .. Len(u), NEW r \in R \ B PROVE ~MuchSlower(u[i], r)
  BY <1>1, <1>2, <1>7
<1>10. ASSUME NEW r \in V, Before(r, u[1]) PROVE MuchSlower(r, [score |-> Fastest(V)])
  <2>1. CASE ranked # <<>>
    <3>1. 1 \in 1 .. n
      BY <1>1, <1>5, <2>1 DEF n
    <3> QED
      BY <1>1, <1>4, <1>10, <2>1, <3>1
  <2>2. CASE ranked = <<>>
    <3>1. n = 0 /\ R = V
      BY <1>1, <2>2 DEF n, ToSet
    <3>2. 1 \in 1 .. Len(t)
      BY <1>2, <1>5
    <3>3. u[1] = t[1]
      BY <1>4, <3>1, <3>2
    <3> QED
      BY <1>2, <1>3, <1>10, <3>1, <3>3
  <2> QED
    BY <2>1, <2>2
<1> QED
  BY <1>1, <1>4, <1>6, <1>8, <1>9, <1>10 DEF Fair, B, t, u

(* The whole ranking.                                                      *)
LEMMA RankedIsFair ==
    ASSUME NEW stage, Stageful({r \in stage : Viable(r)})
    PROVE  Fair({r \in stage : Viable(r)}, Ranked(stage), {})
<1> DEFINE V == {r \in stage : Viable(r)}
           N == Cardinality(V)
           Holds == [k \in 0 .. N |->
                        {x \in [ranked : Seq(V), remaining : SUBSET V] :
                            /\ Fair(V, x.ranked, x.remaining)
                            /\ Cardinality(x.remaining) <= N - k}]
           start == [ranked |-> <<>>, remaining |-> V]
<1> HIDE DEF V
<1>1. Stageful(V) /\ IsFiniteSet(V) /\ N \in Nat
      /\ \A R \in SUBSET V : IsFiniteSet(R) /\ Cardinality(R) \in Nat
  BY FS_Subset, FS_CardinalityType DEF V, Stageful
<1>2. start \in Holds[0]
  <2>1. ToSet(<<>>) = {} /\ Len(<<>>) = 0
    BY DEF ToSet
  <2>2. Fair(V, <<>>, V)
    BY <2>1 DEF Fair, Distinct
  <2> QED
    BY <1>1, <2>2
<1>3. ASSUME NEW k \in 0 .. (N - 1), NEW x \in Holds[k]
      PROVE  BandRound(V)[x] \in Holds[k + 1]
  <2>0. /\ k \in 0 .. N /\ k + 1 \in 0 .. N
        /\ x \in [ranked : Seq(V), remaining : SUBSET V]
        /\ Fair(V, x.ranked, x.remaining) /\ Cardinality(x.remaining) <= N - k
    BY <1>1, <1>3
  <2>1. CASE x.remaining = {}
    <3>1. BandRound(V)[x] = x
      BY <2>0, <2>1 DEF BandRound
    <3>2. Cardinality(x.remaining) <= N - (k + 1)
      BY <1>1, <2>1, FS_EmptySet
    <3> QED
      BY <2>0, <3>1, <3>2
  <2>2. CASE x.remaining # {}
    <3> DEFINE R == x.remaining
               y == [ranked    |-> x.ranked \o Sorted(Band(R)),
                     remaining |-> R \ Band(R)]
    <3>1. BandRound(V)[x] = y
      BY <2>0, <2>2 DEF BandRound
    <3>2. Fair(V, y.ranked, y.remaining)
      BY <1>1, <2>0, <2>2, BandIsRanked
    <3>3. y.remaining \in SUBSET R /\ y.remaining # R
      BY <1>1, <2>0, <2>2, BandIs
    <3>4. Cardinality(y.remaining) <= Cardinality(R) /\ Cardinality(y.remaining) # Cardinality(R)
          /\ Cardinality(R) \in Nat /\ Cardinality(y.remaining) \in Nat
      <4>1. IsFiniteSet(R) /\ Cardinality(R) \in Nat /\ y.remaining \in SUBSET V
        BY <1>1, <2>0, <3>3
      <4> QED
        BY <1>1, <3>3, <4>1, FS_Subset
    <3>5. Cardinality(y.remaining) <= N - (k + 1)
      BY <1>1, <2>0, <3>4
    <3>6. y \in [ranked : Seq(V), remaining : SUBSET V]
      BY <3>2 DEF Fair
    <3> HIDE DEF y
    <3> QED
      BY <2>0, <3>1, <3>2, <3>5, <3>6
  <2> QED
    BY <2>1, <2>2
<1> DEFINE end == Rounds(BandRound(V), start, N)
<1>4. end \in Holds[N]
  <2> HIDE DEF Holds, start, N
  <2> QED
    BY <1>1, <1>2, <1>3, RoundsInvariant
<1>5. /\ end.remaining \in SUBSET V /\ Fair(V, end.ranked, end.remaining)
      /\ Cardinality(end.remaining) <= N - N
  <2> HIDE DEF end
  <2> QED
    BY <1>1, <1>4
<1>6. end.remaining = {}
  <2> HIDE DEF end
  <2>1. Cardinality(end.remaining) = 0
    BY <1>1, <1>5
  <2> QED
    BY <1>1, <1>5, <2>1, FS_EmptySet
<1>7. Ranked(stage) = end.ranked
  BY DEF Ranked, V
<1> QED
  BY <1>5, <1>6, <1>7 DEF V

-----------------------------------------------------------------------------
(* The baseline is a bf16 record of the ranking, if there is one.          *)
LEMMA BaselineIs ==
    ASSUME NEW V, NEW ranked \in Seq(V)
    PROVE  /\ (\E r \in ToSet(ranked) : Bf16(r)) =>
                  \E b \in ToSet(ranked) : Bf16(b) /\ Baseline(ranked) = <<b>>
           /\ ~(\E r \in ToSet(ranked) : Bf16(r)) => Baseline(ranked) = <<>>
<1> DEFINE I == {i \in 1 .. Len(ranked) : Bf16(ranked[i])}
<1>1. /\ \A x : x \in ToSet(ranked) <=> \E i \in 1 .. Len(ranked) : ranked[i] = x
      /\ Len(ranked) \in Nat
  BY ElementsOf
<1>2. SelectInSeq(ranked, Bf16) = IF I # {} THEN Min(I) ELSE 0
  BY DEF SelectInSeq
<1>3. CASE I # {}
  <2>1. \E m \in I : \A n \in I : m <= n
    <3>1. I \subseteq Nat
      BY <1>1
    <3> HIDE DEF I
    <3> QED
      BY <1>3, <3>1, LeastNatural
  <2>2. Min(I) \in I
    BY <2>1 DEF Min
  <2> DEFINE b == ranked[Min(I)]
  <2>3. Baseline(ranked) = <<b>> /\ Bf16(b) /\ b \in ToSet(ranked)
    <3>1. Min(I) # 0 /\ Min(I) \in 1 .. Len(ranked) /\ Bf16(b)
      BY <1>1, <2>2
    <3> QED
      BY <1>1, <1>2, <1>3, <3>1 DEF Baseline
  <2> QED
    BY <2>3
<1>4. CASE I = {}
  <2>1. ~\E r \in ToSet(ranked) : Bf16(r)
    BY <1>1, <1>4
  <2> QED
    BY <1>2, <1>4, <2>1 DEF Baseline
<1> QED
  BY <1>3, <1>4

-----------------------------------------------------------------------------
(* The first of each layout: one for each, and at least as fast as the others *)
(* of its layout, within the tolerance.                                    *)
LEMMA NotSlowerThanItself ==
    ASSUME NEW r \in Records
    PROVE  ~MuchSlower(r, r)
<1>1. r.score \in Nat /\ 100 - SpeedTolerance \in 90 .. 100
  BY ToleranceAssumption DEF Records
<1>2. \A c \in 90 .. 100 : ~(r.score * c > r.score * 100)
  BY <1>1
<1> QED
  BY <1>1, <1>2 DEF MuchSlower

FirstOfLayouts(ranked, k, selected) ==
    /\ \A i, j \in 1 .. Len(selected) : selected[i].layout = selected[j].layout => i = j
    /\ \A i \in 1 .. Len(selected) : \E q \in 1 .. k : selected[i] = ranked[q]
    /\ \A p \in 1 .. k : \E i \in 1 .. Len(selected) :
           selected[i].layout = ranked[p].layout /\ ~MuchSlower(selected[i], ranked[p])

LEMMA FirstsAre ==
    ASSUME NEW V, Stageful(V), NEW ranked, Fair(V, ranked, {}),
           NEW firsts, firsts = Selected(LayoutRound(ranked), ranked, <<>>)
    PROVE  /\ firsts \in Seq(V) /\ Distinct(firsts) /\ Len(firsts) <= 2
           /\ \A r \in V : \E s \in ToSet(firsts) : s.layout = r.layout /\ ~MuchSlower(s, r)
<1> DEFINE n == Len(ranked)
           Holds == [k \in 0 .. n |-> {x \in Selection(ranked) :
                        x.at = k /\ FirstOfLayouts(ranked, k, x.selected)}]
           start == [at |-> 0, selected |-> <<>>]
<1>1. /\ ranked \in Seq(V) /\ ToSet(ranked) = V /\ n \in Nat
      /\ \A i, j \in 1 .. n : i < j => ~MuchSlower(ranked[i], ranked[j])
      /\ \A i \in 1 .. n : ranked[i] \in V
  BY ElementsOf DEF Fair
<1> HIDE DEF n
<1>2. Selection(ranked) = [at : 0 .. n, selected : Seq(V)]
  BY <1>1 DEF Selection, n
<1>3. start \in Holds[0]
  <2>1. start \in Selection(ranked)
    BY <1>1, <1>2
  <2>2. FirstOfLayouts(ranked, 0, <<>>)
    BY DEF FirstOfLayouts
  <2> QED
    BY <1>1, <2>1, <2>2
<1>4. ASSUME NEW k \in 0 .. (n - 1), NEW x \in Holds[k]
      PROVE  LayoutRound(ranked)[x] \in Holds[k + 1]
  <2> DEFINE s == x.selected
             r == ranked[k + 1]
             m == Len(s)
  <2>0. /\ x \in Selection(ranked) /\ x.at = k /\ s \in Seq(V) /\ m \in Nat
        /\ k + 1 \in 0 .. n /\ k + 1 \in 1 .. n /\ k # n /\ r \in V
        /\ FirstOfLayouts(ranked, k, s)
    BY <1>1, <1>2, <1>4
  <2>1. LayoutRound(ranked)[x]
            = Picked(x, r, \A i \in 1 .. m : s[i].layout # r.layout)
    <3>1. DOMAIN s = 1 .. m
      BY <2>0
    <3> QED
      BY <2>0, <3>1 DEF LayoutRound, n
  <2> HIDE DEF s, m
  <2>2. \A p \in 1 .. (k + 1) : p = k + 1 \/ p \in 1 .. k
    BY <1>1
  <2>3. 1 .. k \subseteq 1 .. (k + 1) /\ k + 1 \in 1 .. (k + 1)
    BY <1>1
  <2>4. CASE \A i \in 1 .. m : s[i].layout # r.layout
    <3> DEFINE t == Append(s, r)
    <3>1. LayoutRound(ranked)[x] = [at |-> k + 1, selected |-> t]
      BY <2>0, <2>1, <2>4 DEF Picked, s
    <3>2. /\ t \in Seq(V) /\ Len(t) = m + 1
          /\ \A i \in 1 .. m : t[i] = s[i]
          /\ t[m + 1] = r
      BY <2>0, AppendIs DEF m
    <3> HIDE DEF t, r
    <3>3. \A i \in 1 .. (m + 1) : i = m + 1 \/ i \in 1 .. m
      BY <2>0
    <3>4. ASSUME NEW i \in 1 .. (m + 1), NEW j \in 1 .. (m + 1), t[i].layout = t[j].layout
          PROVE  i = j
      <4>1. \A g, h \in 1 .. m : s[g].layout = s[h].layout => g = h
        BY <2>0 DEF FirstOfLayouts, m
      <4>2. CASE i \in 1 .. m /\ j \in 1 .. m
        BY <3>2, <3>4, <4>1, <4>2
      <4>3. CASE i = m + 1 /\ j \in 1 .. m
        BY <2>4, <3>2, <3>4, <4>3
      <4>4. CASE i \in 1 .. m /\ j = m + 1
        BY <2>4, <3>2, <3>4, <4>4
      <4> QED
        BY <3>3, <4>2, <4>3, <4>4
    <3>5. \A i \in 1 .. (m + 1) : \E q \in 1 .. (k + 1) : t[i] = ranked[q]
      <4>1. \A i \in 1 .. m : \E q \in 1 .. k : s[i] = ranked[q]
        BY <2>0 DEF FirstOfLayouts, m
      <4>2. t[m + 1] = ranked[k + 1]
        BY <3>2 DEF r
      <4> QED
        BY <2>3, <3>2, <3>3, <4>1, <4>2
    <3>6. ASSUME NEW p \in 1 .. (k + 1)
          PROVE  \E i \in 1 .. (m + 1) : t[i].layout = ranked[p].layout
                                         /\ ~MuchSlower(t[i], ranked[p])
      <4>1. CASE p = k + 1
        <5>1. ~MuchSlower(r, r)
          BY <2>0, NotSlowerThanItself DEF Stageful
        <5>2. m + 1 \in 1 .. (m + 1)
          BY <2>0
        <5> QED
          BY <3>2, <4>1, <5>1, <5>2 DEF r
      <4>2. CASE p \in 1 .. k
        <5>1. PICK i \in 1 .. m : s[i].layout = ranked[p].layout /\ ~MuchSlower(s[i], ranked[p])
          BY <2>0, <4>2 DEF FirstOfLayouts, m
        <5>2. i \in 1 .. (m + 1)
          BY <2>0
        <5> QED
          BY <3>2, <5>1, <5>2
      <4> QED
        BY <2>2, <4>1, <4>2
    <3>7. FirstOfLayouts(ranked, k + 1, t)
      BY <3>2, <3>4, <3>5, <3>6 DEF FirstOfLayouts
    <3>8. [at |-> k + 1, selected |-> t] \in Selection(ranked)
      BY <1>2, <2>0, <3>2
    <3> QED
      BY <2>0, <3>1, <3>7, <3>8
  <2>5. CASE \E i \in 1 .. m : s[i].layout = r.layout
    <3>1. LayoutRound(ranked)[x] = [at |-> k + 1, selected |-> s]
      BY <2>0, <2>1, <2>5 DEF Picked, s
    <3>2. PICK i \in 1 .. m : s[i].layout = r.layout
      BY <2>5
    <3>3. PICK q \in 1 .. k : s[i] = ranked[q]
      BY <2>0 DEF FirstOfLayouts, m
    <3>4. ~MuchSlower(s[i], r)
      <4>1. q \in 1 .. n /\ q < k + 1
        BY <1>1
      <4> QED
        BY <1>1, <2>0, <3>3, <4>1
    <3>5. FirstOfLayouts(ranked, k + 1, s)
      <4>1. /\ \A g, h \in 1 .. Len(s) : s[g].layout = s[h].layout => g = h
            /\ \A g \in 1 .. Len(s) : \E h \in 1 .. k : s[g] = ranked[h]
            /\ \A p \in 1 .. k : \E g \in 1 .. Len(s) :
                   s[g].layout = ranked[p].layout /\ ~MuchSlower(s[g], ranked[p])
        BY <2>0 DEF FirstOfLayouts
      <4>2. \A p \in 1 .. (k + 1) : \E g \in 1 .. Len(s) :
                s[g].layout = ranked[p].layout /\ ~MuchSlower(s[g], ranked[p])
        BY <2>2, <3>2, <3>4, <4>1 DEF m
      <4>3. \A g \in 1 .. Len(s) : \E h \in 1 .. (k + 1) : s[g] = ranked[h]
        BY <2>3, <4>1
      <4> QED
        BY <4>1, <4>2, <4>3 DEF FirstOfLayouts
    <3>6. [at |-> k + 1, selected |-> s] \in Selection(ranked)
      BY <1>2, <2>0
    <3> QED
      BY <2>0, <3>1, <3>5, <3>6
  <2> QED
    BY <2>4, <2>5
<1>5. Rounds(LayoutRound(ranked), start, n) \in Holds[n]
  <2> HIDE DEF Holds, start
  <2> QED
    BY <1>1, <1>3, <1>4, RoundsInvariant
<1>6. firsts \in Seq(V) /\ FirstOfLayouts(ranked, n, firsts)
  <2>1. Rounds(LayoutRound(ranked), start, n).selected = firsts
    BY DEF Selected, n
  <2> QED
    BY <1>1, <1>2, <1>5, <2>1
<1>7. /\ Len(firsts) \in Nat
      /\ \A i \in 1 .. Len(firsts) : firsts[i] \in V /\ firsts[i].layout \in {"replicas", "tp2"}
      /\ \A x : x \in ToSet(firsts) <=> \E i \in 1 .. Len(firsts) : firsts[i] = x
  <2>1. V \subseteq Records
    BY DEF Stageful
  <2>2. /\ Len(firsts) \in Nat
        /\ \A i \in 1 .. Len(firsts) : firsts[i] \in V
        /\ \A x : x \in ToSet(firsts) <=> \E i \in 1 .. Len(firsts) : firsts[i] = x
    BY <1>6, ElementsOf
  <2>3. \A r \in V : r.layout \in {"replicas", "tp2"}
    BY <2>1 DEF Records
  <2> QED
    BY <2>2, <2>3
<1>8. Distinct(firsts)
  BY <1>6 DEF Distinct, FirstOfLayouts
<1>9. Len(firsts) <= 2
  <2> SUFFICES ASSUME 3 <= Len(firsts) PROVE FALSE
    BY <1>7
  <2>1. {1, 2, 3} \subseteq 1 .. Len(firsts)
    BY <1>7
  <2>2. /\ firsts[1].layout # firsts[2].layout /\ firsts[1].layout # firsts[3].layout
        /\ firsts[2].layout # firsts[3].layout
    BY <1>6, <2>1 DEF FirstOfLayouts
  <2> QED
    BY <1>7, <2>1, <2>2
<1>10. ASSUME NEW r \in V
       PROVE  \E s \in ToSet(firsts) : s.layout = r.layout /\ ~MuchSlower(s, r)
  <2>1. PICK p \in 1 .. n : ranked[p] = r
    BY <1>1, ElementsOf DEF n
  <2> QED
    BY <1>6, <1>7, <2>1 DEF FirstOfLayouts
<1> QED
  BY <1>6, <1>8, <1>9, <1>10

(* Filling up: what is kept stays, and there are enough or there is nobody *)
(* left.                                                                   *)
Filled(ranked, k, least, kept, selected) ==
    /\ Distinct(selected) /\ ToSet(kept) \subseteq ToSet(selected)
    /\ Len(selected) <= Len(kept) \/ Len(selected) <= least
    /\ Len(selected) >= least \/ \A p \in 1 .. k : ranked[p] \in ToSet(selected)

LEMMA FillingFills ==
    ASSUME NEW V, NEW ranked, Fair(V, ranked, {}), NEW atLeast \in Nat,
           NEW kept \in Seq(V), Distinct(kept),
           NEW all, all = Selected(FillRound(ranked, atLeast), ranked, kept)
    PROVE  /\ all \in Seq(V) /\ Distinct(all) /\ ToSet(kept) \subseteq ToSet(all)
           /\ Len(all) <= Len(kept) \/ Len(all) <= atLeast
           /\ Len(all) >= atLeast \/ V \subseteq ToSet(all)
<1> DEFINE n == Len(ranked)
           Holds == [k \in 0 .. n |-> {x \in Selection(ranked) :
                        x.at = k /\ Filled(ranked, k, atLeast, kept, x.selected)}]
           start == [at |-> 0, selected |-> kept]
<1>1. /\ ranked \in Seq(V) /\ ToSet(ranked) = V /\ n \in Nat
      /\ \A i \in 1 .. n : ranked[i] \in V
  BY ElementsOf DEF Fair
<1> HIDE DEF n
<1>2. Selection(ranked) = [at : 0 .. n, selected : Seq(V)]
  BY <1>1 DEF Selection, n
<1>3. start \in Holds[0]
  <2>1. start \in Selection(ranked)
    BY <1>1, <1>2
  <2>2. Filled(ranked, 0, atLeast, kept, kept)
    BY DEF Filled
  <2> QED
    BY <1>1, <2>1, <2>2
<1>4. ASSUME NEW k \in 0 .. (n - 1), NEW x \in Holds[k]
      PROVE  FillRound(ranked, atLeast)[x] \in Holds[k + 1]
  <2> DEFINE s == x.selected
             r == ranked[k + 1]
  <2>0. /\ x \in Selection(ranked) /\ x.at = k /\ s \in Seq(V) /\ Len(s) \in Nat
        /\ k + 1 \in 0 .. n /\ k + 1 \in 1 .. n /\ k # n /\ r \in V
        /\ Filled(ranked, k, atLeast, kept, s)
    BY <1>1, <1>2, <1>4
  <2>1. FillRound(ranked, atLeast)[x] = Picked(x, r, Len(s) < atLeast /\ r \notin ToSet(s))
    BY <2>0 DEF FillRound, n
  <2> HIDE DEF s
  <2>2. \A p \in 1 .. (k + 1) : p = k + 1 \/ p \in 1 .. k
    BY <1>1
  <2>3. CASE Len(s) < atLeast /\ r \notin ToSet(s)
    <3> DEFINE t == Append(s, r)
    <3>1. FillRound(ranked, atLeast)[x] = [at |-> k + 1, selected |-> t]
      BY <2>0, <2>1, <2>3 DEF Picked, s
    <3>2. /\ t \in Seq(V) /\ Len(t) = Len(s) + 1
          /\ ToSet(t) = ToSet(s) \cup {r}
          /\ Distinct(s) /\ r \notin ToSet(s) => Distinct(t)
      BY <2>0, AppendIs
    <3> HIDE DEF t, r
    <3>3. Distinct(t) /\ ToSet(kept) \subseteq ToSet(t)
      BY <2>0, <2>3, <3>2 DEF Filled
    <3>4. Len(t) <= atLeast
      BY <2>0, <2>3, <3>2
    <3>5. Len(t) >= atLeast \/ \A p \in 1 .. (k + 1) : ranked[p] \in ToSet(t)
      <4>1. \A p \in 1 .. k : ranked[p] \in ToSet(s)
        BY <2>0, <2>3 DEF Filled
      <4> QED
        BY <2>2, <3>2, <4>1 DEF r
    <3>6. Filled(ranked, k + 1, atLeast, kept, t)
      BY <3>3, <3>4, <3>5 DEF Filled
    <3>7. [at |-> k + 1, selected |-> t] \in Selection(ranked)
      BY <1>2, <2>0, <3>2
    <3> QED
      BY <2>0, <3>1, <3>6, <3>7
  <2>4. CASE ~(Len(s) < atLeast /\ r \notin ToSet(s))
    <3>1. FillRound(ranked, atLeast)[x] = [at |-> k + 1, selected |-> s]
      BY <2>0, <2>1, <2>4 DEF Picked, s
    <3>2. Len(s) >= atLeast \/ r \in ToSet(s)
      BY <2>0, <2>4
    <3>3. Filled(ranked, k + 1, atLeast, kept, s)
      BY <2>0, <2>2, <3>2 DEF Filled
    <3>4. [at |-> k + 1, selected |-> s] \in Selection(ranked)
      BY <1>2, <2>0
    <3> QED
      BY <2>0, <3>1, <3>3, <3>4
  <2> QED
    BY <2>3, <2>4
<1>5. Rounds(FillRound(ranked, atLeast), start, n) \in Holds[n]
  <2> HIDE DEF Holds, start
  <2> QED
    BY <1>1, <1>3, <1>4, RoundsInvariant
<1>6. all \in Seq(V) /\ Filled(ranked, n, atLeast, kept, all)
  <2>1. Rounds(FillRound(ranked, atLeast), start, n).selected = all
    BY DEF Selected, n
  <2> QED
    BY <1>1, <1>2, <1>5, <2>1
<1>7. Len(all) >= atLeast \/ V \subseteq ToSet(all)
  <2>1. \A r \in V : \E p \in 1 .. n : ranked[p] = r
    BY <1>1, ElementsOf DEF n
  <2> QED
    BY <1>6, <2>1 DEF Filled
<1> QED
  BY <1>6, <1>7 DEF Filled

-----------------------------------------------------------------------------
(* The two kinds of shortlist.                                             *)
LEMMA CoveringCovers ==
    ASSUME NEW V, Stageful(V), NEW ranked, Fair(V, ranked, {}), NEW atLeast \in Nat
    PROVE  LET all == Covering(ranked, atLeast, TRUE)
           IN  /\ all \in Seq(V) /\ Distinct(all)
               /\ \A r \in V : \E s \in ToSet(all) : s.layout = r.layout /\ ~MuchSlower(s, r)
               /\ (\E r \in V : Bf16(r)) => \E s \in ToSet(all) : Bf16(s)
               /\ Len(all) >= atLeast \/ V \subseteq ToSet(all)
               /\ Len(all) <= 3 \/ Len(all) <= atLeast
<1> DEFINE all    == Covering(ranked, atLeast, TRUE)
           firsts == Selected(LayoutRound(ranked), ranked, <<>>)
           kept   == IF ~\E r \in ToSet(firsts) : Bf16(r)
                     THEN firsts \o Baseline(ranked) ELSE firsts
<1>1. ranked \in Seq(V) /\ ToSet(ranked) = V
  BY DEF Fair
<1>2. /\ firsts \in Seq(V) /\ Distinct(firsts) /\ Len(firsts) <= 2 /\ Len(firsts) \in Nat
      /\ \A r \in V : \E s \in ToSet(firsts) : s.layout = r.layout /\ ~MuchSlower(s, r)
  BY FirstsAre, ElementsOf
<1>3. all = Selected(FillRound(ranked, atLeast), ranked, kept)
  BY DEF Covering
<1>0. kept = IF ~\E r \in ToSet(firsts) : Bf16(r) THEN firsts \o Baseline(ranked) ELSE firsts
  OBVIOUS
<1> HIDE DEF firsts, kept, all
<1>4. /\ kept \in Seq(V) /\ Distinct(kept) /\ Len(kept) <= 3 /\ ToSet(firsts) \subseteq ToSet(kept)
      /\ (\E r \in V : Bf16(r)) => \E s \in ToSet(kept) : Bf16(s)
  <2>1. CASE \E r \in ToSet(firsts) : Bf16(r)
    <3>1. kept = firsts
      BY <1>0, <2>1
    <3> QED
      BY <1>2, <2>1, <3>1
  <2>2. CASE ~(\E r \in ToSet(firsts) : Bf16(r)) /\ ~\E r \in V : Bf16(r)
    <3>1. Baseline(ranked) = <<>>
      BY <1>1, <2>2, BaselineIs
    <3>2. kept = firsts
      BY <1>2, <1>0, <2>2, <3>1
    <3> QED
      BY <1>2, <2>2, <3>2
  <2>3. CASE ~(\E r \in ToSet(firsts) : Bf16(r)) /\ \E r \in V : Bf16(r)
    <3>1. PICK b \in V : Bf16(b) /\ Baseline(ranked) = <<b>>
      BY <1>1, <2>3, BaselineIs
    <3>2. kept = firsts \o <<b>>
      BY <1>0, <2>3, <3>1
    <3>3. /\ <<b>> \in Seq(V) /\ Len(<<b>>) = 1 /\ ToSet(<<b>>) = {b} /\ Distinct(<<b>>)
      BY DEF ToSet, Distinct
    <3>4. ToSet(firsts) \cap ToSet(<<b>>) = {}
      BY <2>3, <3>1, <3>3
    <3>5. /\ kept \in Seq(V) /\ Len(kept) = Len(firsts) + 1
          /\ ToSet(kept) = ToSet(firsts) \cup {b} /\ Distinct(kept)
      BY <1>2, <3>2, <3>3, <3>4, ConcatIs
    <3> QED
      BY <1>2, <3>1, <3>5
  <2> QED
    BY <2>1, <2>2, <2>3
<1>5. /\ all \in Seq(V) /\ Distinct(all) /\ ToSet(kept) \subseteq ToSet(all)
      /\ Len(all) <= Len(kept) \/ Len(all) <= atLeast
      /\ Len(all) >= atLeast \/ V \subseteq ToSet(all)
  BY <1>3, <1>4, FillingFills
<1>6. Len(all) \in Nat /\ Len(kept) \in Nat
  BY <1>4, <1>5, ElementsOf
<1>7. Len(all) <= 3 \/ Len(all) <= atLeast
  <2>1. Len(kept) <= 3
    BY <1>4
  <2>2. Len(all) <= Len(kept) \/ Len(all) <= atLeast
    BY <1>5
  <2> QED
    BY <1>6, <2>1, <2>2
<1> QED
  BY <1>2, <1>4, <1>5, <1>7 DEF all

LEMMA PlainKeepsBaseline ==
    ASSUME NEW V, NEW ranked \in Seq(V), ToSet(ranked) = V, NEW most \in Nat
    PROVE  LET top == Plain(ranked, most, TRUE)
           IN  /\ Len(top) = IF Len(ranked) < most THEN Len(ranked) ELSE most
               /\ most > 1 /\ (\E r \in V : Bf16(r)) => \E s \in ToSet(top) : Bf16(s)
<1> DEFINE top  == Plain(ranked, most, TRUE)
           m    == IF Len(ranked) < most THEN Len(ranked) ELSE most
           head == SubSeq(ranked, 1, m)
           base == Baseline(ranked)
<1>1. Len(ranked) \in Nat /\ m \in Nat /\ m <= Len(ranked)
  BY ElementsOf
<1>2. head \in Seq(V) /\ Len(head) = m
  BY <1>1
<1>3. top = IF most > 1 /\ base # <<>> /\ ToSet(base) \cap ToSet(head) = {}
            THEN Front(head) \o base ELSE head
  BY DEF Plain
<1> HIDE DEF head, m, top
<1> DEFINE Keeps == /\ Len(top) = m
                    /\ most > 1 /\ (\E r \in V : Bf16(r)) => \E s \in ToSet(top) : Bf16(s)
<1>4. ASSUME ~\E r \in V : Bf16(r) PROVE Keeps
  <2>1. base = <<>>
    BY <1>4, BaselineIs
  <2> QED
    BY <1>2, <1>3, <1>4, <2>1
<1>5. ASSUME \E r \in V : Bf16(r) PROVE Keeps
  <2>1. PICK b \in V : Bf16(b) /\ base = <<b>>
    BY <1>5, BaselineIs
  <2>2. base # <<>> /\ ToSet(base) = {b} /\ base \in Seq(V) /\ Len(base) = 1
    BY <2>1 DEF ToSet
  <2> HIDE DEF base
  <2>3. CASE most > 1 /\ b \notin ToSet(head)
    <3>1. top = Front(head) \o base
      BY <1>3, <2>2, <2>3
    <3>2. m >= 1
      <4>1. \E i \in 1 .. Len(ranked) : ranked[i] = b
        BY <2>1, ElementsOf
      <4> QED
        BY <1>1, <2>3, <4>1 DEF m
    <3>3. Front(head) \in Seq(V) /\ Len(Front(head)) = m - 1
      BY <1>1, <1>2, <3>2 DEF Front
    <3> DEFINE front == Front(head)
    <3> HIDE DEF front
    <3>4. /\ Len(top) = Len(front) + Len(base)
          /\ ToSet(top) = ToSet(front) \cup ToSet(base)
      <4>1. top = front \o base /\ front \in Seq(V) /\ base \in Seq(V)
        BY <2>2, <3>1, <3>3 DEF front
      <4> QED
        BY <4>1, ConcatIs
    <3>5. Len(top) = m
      <4>1. Len(top) = (m - 1) + 1
        BY <2>2, <3>3, <3>4 DEF front
      <4> QED
        BY <1>1, <4>1
    <3> QED
      BY <2>1, <2>2, <3>4, <3>5
  <2>4. CASE ~(most > 1) \/ b \in ToSet(head)
    <3>1. top = head
      BY <1>3, <2>2, <2>4
    <3> QED
      BY <1>2, <2>1, <2>4, <3>1
  <2> QED
    BY <2>3, <2>4
<1> QED
  BY <1>4, <1>5 DEF top, m

(* Whatever it is asked for, a shortlist lists viable results of the stage: *)
(* what StagedRun assumes of its constant ShortlistOf (runner.py:315-316,   *)
(* 326-327, ranking.py:63-98).                                              *)
THEOREM ShortlistListsPassed ==
    ASSUME NEW stage, Stageful(stage), NEW n \in Nat,
           NEW preserveBf16 \in BOOLEAN, NEW preserveLayouts \in BOOLEAN
    PROVE  Shortlist(stage, n, preserveBf16, preserveLayouts)
               \in Seq({r \in stage : Viable(r)})
<1> DEFINE V == {r \in stage : Viable(r)}
           ranked == Ranked(stage)
<1>1. Stageful(V) /\ Fair(V, ranked, {})
  <2>1. Stageful(V)
    BY FS_Subset DEF Stageful
  <2> QED
    BY <2>1, RankedIsFair
<1> HIDE DEF V, ranked
<1>2. ranked \in Seq(V) /\ ToSet(ranked) = V /\ Len(ranked) \in Nat
  BY <1>1, ElementsOf DEF Fair
<1>3. Covering(ranked, n, TRUE) \in Seq(V)
  BY <1>1, CoveringCovers
<1>4. Covering(ranked, n, FALSE) \in Seq(V)
  <2> DEFINE firsts == Selected(LayoutRound(ranked), ranked, <<>>)
  <2>1. firsts \in Seq(V) /\ Distinct(firsts)
    BY <1>1, FirstsAre
  <2>2. Covering(ranked, n, FALSE) = Selected(FillRound(ranked, n), ranked, firsts)
    BY DEF Covering
  <2> HIDE DEF firsts
  <2>3. Selected(FillRound(ranked, n), ranked, firsts) \in Seq(V)
    BY <1>1, <2>1, FillingFills
  <2> QED
    BY <2>2, <2>3
<1> DEFINE m    == IF Len(ranked) < n THEN Len(ranked) ELSE n
           head == SubSeq(ranked, 1, m)
<1>5. head \in Seq(V) /\ Front(head) \in Seq(V)
  <2>1. head \in Seq(V)
    BY <1>2
  <2> HIDE DEF head
  <2>2. Len(head) \in Nat
    BY <2>1
  <2> QED
    BY <2>1, <2>2 DEF Front
<1>6. Baseline(ranked) \in Seq(V)
  <2>1. CASE \E r \in ToSet(ranked) : Bf16(r)
    <3>1. PICK b \in V : Baseline(ranked) = <<b>>
      BY <1>2, <2>1, BaselineIs
    <3> QED
      BY <3>1
  <2>2. CASE ~\E r \in ToSet(ranked) : Bf16(r)
    <3>1. Baseline(ranked) = <<>>
      BY <1>2, <2>2, BaselineIs
    <3> QED
      BY <3>1
  <2> QED
    BY <2>1, <2>2
<1>7. Plain(ranked, n, TRUE) \in {head, Front(head) \o Baseline(ranked)}
  BY DEF Plain
<1>8. Plain(ranked, n, FALSE) = head
  BY DEF Plain
<1> HIDE DEF head
<1>9. Front(head) \o Baseline(ranked) \in Seq(V)
  BY <1>5, <1>6, ConcatIs
<1>10. Plain(ranked, n, preserveBf16) \in Seq(V) /\ Covering(ranked, n, preserveBf16) \in Seq(V)
  <2>1. CASE preserveBf16 = TRUE
    BY <1>3, <1>5, <1>7, <1>9, <2>1, Zenon
  <2>2. CASE preserveBf16 = FALSE
    BY <1>4, <1>5, <1>8, <2>2, Zenon
  <2> QED
    BY <2>1, <2>2, Zenon
<1>11. Shortlist(stage, n, preserveBf16, preserveLayouts)
           = IF preserveLayouts THEN Covering(ranked, n, preserveBf16)
             ELSE Plain(ranked, n, preserveBf16)
  BY Zenon DEF Shortlist, ranked
<1> QED
  BY <1>10, <1>11, Zenon DEF V

-----------------------------------------------------------------------------
(* The results of a stage: records with different ids, numbered as they come. *)
StageInv ==
    /\ IsFiniteSet(results) /\ results \subseteq Records
    /\ \A r \in results : r.id <= Cardinality(results)
    /\ \A r, s \in results : r.id = s.id => r = s
    /\ count \in 1 .. 3

LEMMA StageInvHolds == Spec => []StageInv
<1>1. Init => StageInv
  BY FS_EmptySet DEF Init, StageInv
<1>2. ASSUME StageInv, NEW p \in {"bf16", "fp8"}, NEW l \in {"replicas", "tp2"},
             NEW passed \in BOOLEAN, NEW s \in Nat, NEW t \in Nat, Measure(p, l, passed, s, t)
      PROVE  StageInv'
  <2> DEFINE n == Cardinality(results)
             r == [id |-> n + 1, precision |-> p, layout |-> l, passed |-> passed,
                   score |-> s, latency |-> t]
  <2>1. n \in Nat
    BY <1>2, FS_CardinalityType DEF StageInv
  <2>2. results' = results \cup {r} /\ count' = count
    BY <1>2 DEF Measure
  <2>3. r \in Records /\ r.id = n + 1
    BY <2>1 DEF Records
  <2>4. \A x \in results : x.id \in Nat /\ x.id <= n
    BY <1>2 DEF StageInv, Records
  <2>5. r \notin results
    BY <2>1, <2>3, <2>4
  <2> HIDE DEF r
  <2>6. IsFiniteSet(results') /\ Cardinality(results') = n + 1
    BY <1>2, <2>2, <2>5, FS_AddElement DEF StageInv
  <2>7. \A x \in results' : x.id <= n + 1
    BY <2>1, <2>2, <2>3, <2>4
  <2>8. \A x, y \in results' : x.id = y.id => x = y
    <3>1. \A x \in results : x.id # r.id
      BY <2>1, <2>3, <2>4
    <3> QED
      BY <1>2, <2>2, <3>1 DEF StageInv
  <2> QED
    BY <1>2, <2>2, <2>3, <2>6, <2>7, <2>8 DEF StageInv
<1>3. StageInv /\ [Next]_vars => StageInv'
  <2> SUFFICES ASSUME StageInv, [Next]_vars PROVE StageInv'
    OBVIOUS
  <2>1. CASE Stage
    <3>1. CASE \E p \in {"bf16", "fp8"}, l \in {"replicas", "tp2"}, s \in {0, 1} :
                   Measure(p, l, s = 0, s, 1)
      <4>1. PICK p \in {"bf16", "fp8"}, l \in {"replicas", "tp2"}, s \in {0, 1} :
                Measure(p, l, s = 0, s, 1)
        BY <3>1
      <4>2. (s = 0) \in BOOLEAN /\ s \in Nat /\ 1 \in Nat
        OBVIOUS
      <4> QED
        BY <1>2, <4>1, <4>2
    <3>2. CASE \E p \in {"bf16", "fp8"}, l \in {"replicas", "tp2"},
                  s \in Scores, t \in Latencies : Measure(p, l, TRUE, s, t)
      BY <1>2, <3>2, RecordsAssumption
    <3> QED
      BY <2>1, <3>1, <3>2 DEF Stage
  <2>2. CASE \E c \in 1 .. MaxCount : Tokenize(c)
    BY <2>2 DEF Tokenize, StageInv
  <2>3. CASE UNCHANGED vars
    BY <2>3 DEF vars, StageInv
  <2> QED
    BY <2>1, <2>2, <2>3 DEF Next
<1> QED
  BY <1>1, <1>3, PTL DEF Spec

(* What the invariant says of the ranking.                                 *)
LEMMA ViablesAre ==
    ASSUME StageInv
    PROVE  /\ Stageful(Viables) /\ Fair(Viables, Ranked(results), {})
           /\ Ranked(results) \in Seq(Viables) /\ ToSet(Ranked(results)) = Viables
           /\ Len(Ranked(results)) = Cardinality(Viables)
           /\ Cardinality(Viables) \in Nat /\ Cardinality(results) \in Nat
           /\ Cardinality(Viables) <= Cardinality(results)
<1>1. Viables \in SUBSET results
  BY DEF Viables
<1>2. Stageful(Viables)
  BY <1>1, FS_Subset DEF StageInv, Stageful
<1>3. Fair(Viables, Ranked(results), {})
  BY <1>2, RankedIsFair DEF Viables
<1>4. /\ Ranked(results) \in Seq(Viables) /\ ToSet(Ranked(results)) = Viables
      /\ Distinct(Ranked(results))
  BY <1>3 DEF Fair
<1>5. Cardinality(Viables) = Len(Ranked(results))
  BY <1>4, DistinctLength
<1>6. /\ Cardinality(Viables) \in Nat /\ Cardinality(results) \in Nat
      /\ Cardinality(Viables) <= Cardinality(results)
  BY <1>1, FS_Subset, FS_CardinalityType DEF StageInv
<1> QED
  BY <1>2, <1>3, <1>4, <1>5, <1>6

(* The final ranking is fair: everybody with a result is in it, and nobody  *)
(* before a much faster one (ranking.py:63-76).                             *)
THEOREM RankingAlways == Spec => []RankingIsFair
<1>1. ASSUME StageInv PROVE RankingIsFair
  <2> DEFINE ranked == Ranked(results)
             n == Cardinality(Viables)
             m == Cardinality(results)
  <2>1. /\ ranked \in Seq(Viables) /\ ToSet(ranked) = Viables /\ Len(ranked) = n
        /\ n \in Nat /\ m \in Nat /\ n <= m /\ Fair(Viables, ranked, {})
    BY <1>1, ViablesAre
  <2>2. Final = SubSeq(ranked, 1, IF n < m THEN n ELSE m)
    <3>1. Final = Plain(ranked, m, FALSE)
      BY DEF Final, Shortlist
    <3> HIDE DEF ranked
    <3> QED
      BY <2>1, <3>1 DEF Plain
  <2> HIDE DEF ranked, n, m
  <2>3. Final = ranked
    <3>1. Final = SubSeq(ranked, 1, Len(ranked))
      BY <2>1, <2>2
    <3> QED
      BY <2>1, <3>1
  <2>4. DOMAIN Final = 1 .. Len(ranked)
    BY <2>1, <2>3
  <2>5. \A i, j \in DOMAIN Final : i < j => ~MuchSlower(Final[i], Final[j])
    BY <2>1, <2>3, <2>4 DEF Fair
  <2>6. ASSUME NEW r \in Viables, Before(r, Final[1])
        PROVE  MuchSlower(r, [score |-> Fastest(Viables)])
    <3>1. ranked # <<>>
      BY <2>1 DEF ToSet
    <3> QED
      BY <2>1, <2>3, <2>6, <3>1 DEF Fair
  <2> QED
    BY <2>1, <2>3, <2>5, <2>6 DEF RankingIsFair, n
<1> QED
  BY <1>1, StageInvHolds, PTL

(* The shortlists keep the layouts and the bf16 reference, and have the      *)
(* length they should (ranking.py:56-60, 77-98).                            *)
THEOREM CoverageAlways == Spec => []CoverageKept
<1>1. ASSUME StageInv PROVE LayoutsKept
  <2> DEFINE V == Viables
             all == Finalists
             n == Cardinality(Viables)
  <2>1. /\ Stageful(V) /\ Fair(V, Ranked(results), {}) /\ n \in Nat /\ count \in 1 .. 3
        /\ count \in Nat
    BY <1>1, ViablesAre DEF StageInv
  <2>2. all = Covering(Ranked(results), count, TRUE)
    BY DEF Finalists, Shortlist
  <2>3. /\ all \in Seq(V) /\ Distinct(all)
        /\ \A r \in V : \E s \in ToSet(all) : s.layout = r.layout /\ ~MuchSlower(s, r)
        /\ (\E r \in V : Bf16(r)) => \E s \in ToSet(all) : Bf16(s)
        /\ Len(all) >= count \/ V \subseteq ToSet(all)
        /\ Len(all) <= 3 \/ Len(all) <= count
    BY <2>1, <2>2, CoveringCovers
  <2>4. /\ ToSet(all) \subseteq V /\ Len(all) \in Nat
        /\ Cardinality(ToSet(all)) = Len(all)
    BY <2>3, ElementsOf, DistinctLength
  <2>5. Len(all) >= IF n < count THEN n ELSE count
    <3>1. CASE V \subseteq ToSet(all)
      <4>1. V = ToSet(all)
        BY <2>4, <3>1
      <4> HIDE DEF all
      <4> QED
        BY <2>1, <2>4, <4>1
    <3>2. CASE Len(all) >= count
      <4> HIDE DEF all, n
      <4> QED
        BY <2>1, <2>4, <3>2
    <3> QED
      BY <2>3, <3>1, <3>2
  <2>6. Len(all) <= IF count < 3 THEN 3 ELSE count
    <3> HIDE DEF all
    <3> QED
      BY <2>1, <2>3, <2>4
  <2> QED
    BY <2>3, <2>4, <2>5, <2>6, Zenon DEF LayoutsKept
<1>2. ASSUME StageInv PROVE BaselineKept
  <2> DEFINE n == Cardinality(Viables)
  <2>1. /\ Ranked(results) \in Seq(Viables) /\ ToSet(Ranked(results)) = Viables
        /\ Len(Ranked(results)) = n /\ count \in Nat
    BY <1>2, ViablesAre DEF StageInv
  <2>2. Top = Plain(Ranked(results), count, TRUE)
    BY DEF Top, Shortlist
  <2> DEFINE ranked == Ranked(results)
  <2>4. /\ ranked \in Seq(Viables) /\ ToSet(ranked) = Viables /\ Top = Plain(ranked, count, TRUE)
    BY <2>1, <2>2
  <2> HIDE DEF ranked
  <2>3. /\ Len(Top) = IF Len(ranked) < count THEN Len(ranked) ELSE count
        /\ count > 1 /\ (\E r \in Viables : Bf16(r)) => \E s \in ToSet(Top) : Bf16(s)
    BY <2>1, <2>4, PlainKeepsBaseline
  <2> QED
    BY <2>1, <2>3 DEF BaselineKept, ranked
<1> QED
  BY <1>1, <1>2, StageInvHolds, PTL DEF CoverageKept
=============================================================================
