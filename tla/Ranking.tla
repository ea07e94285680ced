------------------------------ MODULE Ranking ------------------------------
(***************************************************************************)
(* qwen_bench/ranking.py: shortlist() of the measured candidates. A record *)
(* is a stage result: its candidate's id, precision and layout, whether it *)
(* passed, its score (seconds per output token of the slower user) and its *)
(* latency, one number for the times of latency_key. They are naturals: a  *)
(* score of 0 is missing, not finite or not positive; a latency of 0 is    *)
(* missing or invalid, one of n + 1 a time of n. The tolerance is in       *)
(* percent.                                                                *)
(***************************************************************************)
EXTENDS Loops, Sequences, FiniteSets, SequencesExt

CONSTANT SpeedTolerance     \* decode_speed_tolerance, in percent

ASSUME ToleranceAssumption == SpeedTolerance \in 0 .. 10

Viable(r) == r.passed /\ r.score > 0

Fastest(R) == CHOOSE s \in {r.score : r \in R} : \A r \in R : s <= r.score

\* score <= fastest / (1 - tolerance)
Band(R) == {r \in R : r.score * (100 - SpeedTolerance) <= Fastest(R) * 100}

\* latency_key: a missing latency is the worst, then the score and the id.
Key(r) == <<IF r.latency = 0 THEN 1 ELSE 0, r.latency, r.score, r.id>>

Before(a, b) ==
    \E i \in 1 .. 4 : /\ Key(a)[i] < Key(b)[i]
                      /\ \A j \in 1 .. (i - 1) : Key(a)[j] = Key(b)[j]

\* sorted(R, key=latency_key)
Sorted(R) ==
    CHOOSE s \in [1 .. Cardinality(R) -> R] :
        /\ ToSet(s) = R
        /\ \A i, j \in DOMAIN s : i < j => Before(s[i], s[j])

\* The while loop: a band at a time, each sorted by latency.
BandRound(V) ==
    [s \in [ranked : Seq(V), remaining : SUBSET V] |->
        IF s.remaining = {} THEN s
        ELSE [ranked    |-> s.ranked \o Sorted(Band(s.remaining)),
              remaining |-> s.remaining \ Band(s.remaining)]]

\* MUTANT of Ranked: one band.
RankedByLatency(results) == Sorted({r \in results : Viable(r)})

Ranked(results) ==
    LET V == {r \in results : Viable(r)}
    IN  Rounds(BandRound(V), [ranked |-> <<>>, remaining |-> V], Cardinality(V)).ranked

Bf16(r) == r.precision = "bf16"
Baseline(ranked) == LET i == SelectInSeq(ranked, Bf16)
                    IN IF i = 0 THEN <<>> ELSE <<ranked[i]>>

\* The first `count`, the last of them giving way to the bf16 baseline.
Plain(ranked, count, preserveBf16) ==
    LET top  == SubSeq(ranked, 1, IF Len(ranked) < count THEN Len(ranked) ELSE count)
        base == Baseline(ranked)
    IN IF preserveBf16 /\ count > 1 /\ base # <<>> /\ ToSet(base) \cap ToSet(top) = {}
       THEN Front(top) \o base
       ELSE top

\* Where the loops over the ranking are, and what they have selected.
Selection(ranked) == [at : 0 .. Len(ranked), selected : Seq(ToSet(ranked))]

\* The record next in the ranking is selected, if it is wanted.
Picked(s, record, wanted) ==
    [at |-> s.at + 1, selected |-> IF wanted THEN Append(s.selected, record) ELSE s.selected]

\* The first of its layout.
LayoutRound(ranked) ==
    [s \in Selection(ranked) |->
        IF s.at = Len(ranked) THEN s
        ELSE LET record == ranked[s.at + 1]
             IN  Picked(s, record, \A i \in DOMAIN s.selected :
                                       s.selected[i].layout # record.layout)]

\* The next one, until there are enough.
FillRound(ranked, count) ==
    [s \in Selection(ranked) |->
        IF s.at = Len(ranked) THEN s
        ELSE LET record == ranked[s.at + 1]
             IN  Picked(s, record, /\ Len(s.selected) < count
                                   /\ record \notin ToSet(s.selected))]

Selected(round, ranked, selected) ==
    Rounds(round, [at |-> 0, selected |-> selected], Len(ranked)).selected

\* MUTANT of Covering: `count` is a maximum.
CoveringAtMost(ranked, count, preserveBf16) ==
    LET firsts == Selected(LayoutRound(ranked), ranked, <<>>)
        all    == Selected(FillRound(ranked, count), ranked, firsts)
    IN  SubSeq(all, 1, IF Len(all) < count THEN Len(all) ELSE count)

\* The best of each layout, the baseline, then the next best up to `count`.
Covering(ranked, count, preserveBf16) ==
    LET firsts == Selected(LayoutRound(ranked), ranked, <<>>)
        kept   == IF preserveBf16 /\ ~\E r \in ToSet(firsts) : Bf16(r)
                  THEN firsts \o Baseline(ranked) ELSE firsts
    IN  Selected(FillRound(ranked, count), ranked, kept)

Shortlist(results, count, preserveBf16, preserveLayouts) ==
    IF preserveLayouts THEN Covering(Ranked(results), count, preserveBf16)
    ELSE Plain(Ranked(results), count, preserveBf16)
=============================================================================
