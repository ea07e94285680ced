-------------------------- MODULE AlgorithmsCheck --------------------------
(***************************************************************************)
(* The algorithms of this project over all small inputs: the shortlist     *)
(* (Ranking) and the searches for a prompt (PromptSearch). A behaviour     *)
(* draws the input of one of them piece by piece, records or token counts, *)
(* and the properties compare what the algorithm makes of it with what it  *)
(* is documented to do.                                                    *)
(***************************************************************************)
EXTENDS Ranking, PromptSearch

CONSTANTS Scores,       \* valid seconds per output token, scaled
          Latencies,    \* 0 is missing
          MaxRecords,   \* bound on the records of one stage
          MaxCount,     \* bound on the token count of a prompt
          MaxLength     \* bound on the length of the buffer

ASSUME BoundsAssumption == {MaxRecords, MaxCount, MaxLength} \subseteq Nat

ASSUME RecordsAssumption == Scores \cup Latencies \subseteq Nat

\* A buffer is about ten times its target, or twelve times and a corpus: far
\* less than 2^28 and 2^24, what 28 and 24 halvings come down from.
ASSUME ProbesSuffice == Halved(MaxLength + 1, Probes) = 0

VARIABLES subject,      \* the algorithm under check
          results,      \* the stage's results
          count,        \* finalists asked for
          tokens        \* the token counts of the lengths from 0

vars == <<subject, results, count, tokens>>

Init == /\ subject \in {"shortlist", "prompt"}
        /\ results = {} /\ count \in IF subject = "prompt" THEN {1} ELSE 1 .. 3
        /\ tokens = <<>>

Measure(p, l, passed, s, t) ==
    /\ subject = "shortlist"
    /\ Cardinality(results) < MaxRecords
    /\ results' = results \cup {[id |-> Cardinality(results) + 1, precision |-> p,
                                 layout |-> l, passed |-> passed, score |-> s,
                                 latency |-> t]}
    /\ UNCHANGED <<subject, count, tokens>>

\* A failed candidate, one without a valid score, or a measured one.
Stage == \E p \in {"bf16", "fp8"}, l \in {"replicas", "tp2"} :
            \/ \E s \in {0, 1} : Measure(p, l, s = 0, s, 1)
            \/ \E s \in Scores, t \in Latencies : Measure(p, l, TRUE, s, t)

\* The template alone has a token.
Tokenize(c) ==
    /\ subject = "prompt" /\ Len(tokens) <= MaxLength
    /\ tokens' = Append(tokens, c)
    /\ UNCHANGED <<subject, results, count>>

Next == Stage \/ \E c \in 1 .. MaxCount : Tokenize(c)

Spec == Init /\ [][Next]_vars

-----------------------------------------------------------------------------
(* The three ways tune() calls shortlist().                                *)
Finalists == Shortlist(results, count, TRUE, TRUE)      \* after screen, refine
Final     == Shortlist(results, Cardinality(results), FALSE, FALSE)
Top       == Shortlist(results, count, TRUE, FALSE)     \* the defaults

Viables == {r \in results : Viable(r)}

\* r is slower than s beyond the tolerance.
MuchSlower(r, s) == r.score * (100 - SpeedTolerance) > s.score * 100

\* The final ranking loses and invents nobody, and ranks nobody before a
\* candidate it is much slower than. "Latency breaks near-speed ties": nobody
\* as fast as the winner, within the tolerance of the fastest, has a lower
\* latency (ranking.py:56, 63-76).
RankingIsFair ==
    /\ ToSet(Final) = Viables /\ Len(Final) = Cardinality(Viables)
    /\ \A i, j \in DOMAIN Final : i < j => ~MuchSlower(Final[i], Final[j])
    /\ \A r \in Viables : Before(r, Final[1])
                              => MuchSlower(r, [score |-> Fastest(Viables)])

\* The finalists: every layout with a viable candidate, and bf16 if it has one,
\* keeps its best; the count is a minimum.
LayoutsKept ==
    /\ ToSet(Finalists) \subseteq Viables
    /\ \A r \in Viables : \E s \in ToSet(Finalists) :
           /\ s.layout = r.layout
           /\ ~MuchSlower(s, r)
    /\ (\E r \in Viables : Bf16(r)) => \E s \in ToSet(Finalists) : Bf16(s)
    /\ Len(Finalists) = Cardinality(ToSet(Finalists))
    /\ Len(Finalists) >= IF Cardinality(Viables) < count
                         THEN Cardinality(Viables) ELSE count
    /\ Len(Finalists) <= IF count < 3 THEN 3 ELSE count

\* Without layouts to preserve the count is exact, and a bf16 reference is
\* kept whenever there is room for two.
BaselineKept ==
    /\ Len(Top) = IF Cardinality(Viables) < count THEN Cardinality(Viables) ELSE count
    /\ count > 1 /\ (\E r \in Viables : Bf16(r)) => \E s \in ToSet(Top) : Bf16(s)

\* "preserve viable layouts before qualification", and the bf16 reference with
\* or without them (ranking.py:56-60, 77-98).
CoverageKept == LayoutsKept /\ BaselineKept

-----------------------------------------------------------------------------
(* A complete buffer                                                       *)
Buffer   == subject = "prompt" /\ tokens # <<>>
Lengths  == 0 .. Len(tokens) - 1
Count    == [n \in Lengths |-> tokens[n + 1]]
Targets  == 1 .. MaxCount
Monotone == \A n \in Lengths \ {0} : Count[n - 1] <= Count[n]

\* exact_prompt() never takes a length for exact that is not. Where counts grow
\* with the text it finds the exact length if there is one, within its probes,
\* and otherwise has the fillers start from the length that lacks least
\* (benchmark.py:213, 234-256).
ExactIsFound ==
    Buffer => \A target \in Targets :
        LET found == Exact(Count, Len(tokens) - 1, target)
            below == {n \in Lengths : Count[n] < target}
        IN /\ found.exact => Count[found.length] = target
           /\ ~found.exact => found.length \in below \cup {Failed}
           /\ Monotone => /\ (\E n \in Lengths : Count[n] = target) => found.exact
                          /\ below # {} /\ ~found.exact =>
                                \A n \in below : n <= found.length

\* make_prompt() returns a prompt of at least the target that fits the context,
\* whatever the counts. Where they grow with the text it returns one if there
\* is one, and a close one if there is a close one (api_check.py:84-104).
PromptFits ==
    Buffer => \A target, limit \in Targets : \A start \in Lengths \ {0} :
        LET length  == Fit(Count, Len(tokens) - 1, target, limit, start)
            fitting == {n \in Lengths \ {0} : Count[n] \in target .. limit}
        IN /\ length # Failed => Count[length] \in target .. limit
           /\ Monotone /\ fitting # {} =>
                 /\ length # Failed
                 /\ (\E n \in fitting : Count[n] <= target + Slack)
                        => Count[length] <= target + Slack
=============================================================================
