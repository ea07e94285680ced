---------------------------- MODULE PromptSearch ----------------------------
(***************************************************************************)
(* The two searches for a prompt of a wanted token count: exact_prompt()   *)
(* of qwen_bench/benchmark.py and make_prompt() of scripts/api_check.py.   *)
(* A prompt is the length of text it takes from its buffer; count[n] is    *)
(* what the server's tokenizer says of length n, for n in 0 .. Len. It     *)
(* need not grow with n: a longer text may merge into fewer tokens.        *)
(***************************************************************************)
EXTENDS Loops

CONSTANTS Probes,   \* the most probes of one search (28 and 24)
          Slack     \* what make_prompt() may exceed its target by (128)

ASSUME PromptAssumption == Probes \in Nat /\ Slack \in Nat

Failed == -1

\* What is left of n when it is halved k times.
Halved(n, k) == Rounds([m \in 0 .. n |-> m \div 2], n, k)

Middle(s) == (s.low + s.high) \div 2

\* What exact_prompt() bisects, with the length it has come to.
Bisection(len) ==
    [low : 0 .. len + 1, high : -1 .. len, length : -1 .. len, exact : BOOLEAN]

\* MUTANT of ExactRound: the lower half keeps its middle, and the search its pace.
ExactRoundSlow(count, len, target) ==
    [s \in Bisection(len) |->
        IF s.exact \/ s.low > s.high THEN s
        ELSE LET middle == Middle(s) IN
             IF count[middle] = target
             THEN [s EXCEPT !.length = middle, !.exact = TRUE]
             ELSE IF count[middle] < target
             THEN [s EXCEPT !.length = middle, !.low = middle]
             ELSE [s EXCEPT !.high = middle - 1]]

ExactRound(count, len, target) ==
    [s \in Bisection(len) |->
        IF s.exact \/ s.low > s.high THEN s
        ELSE LET middle == Middle(s) IN
             IF count[middle] = target
             THEN [s EXCEPT !.length = middle, !.exact = TRUE]
             ELSE IF count[middle] < target
             THEN [s EXCEPT !.length = middle, !.low = middle + 1]
             ELSE [s EXCEPT !.high = middle - 1]]

\* The bisection of exact_prompt(): an exact length, or else the last one that
\* was too small, which the fillers are then appended to.
Exact(count, len, target) ==
    Rounds(ExactRound(count, len, target),
           [low |-> 0, high |-> len, length |-> Failed, exact |-> FALSE], Probes)

Bounds(len) == [low : 0 .. len + 1, high : 0 .. len]

AtMost(n, bound) == IF n < bound THEN n ELSE bound

DoubleRound(count, len, target) ==
    [s \in Bounds(len) |->
        IF count[s.high] >= target \/ s.high = len THEN s
        ELSE [low |-> s.high, high |-> AtMost(2 * s.high, len)]]

\* while count < target: the length grows with each round, so that len rounds
\* are enough; without success it ends with the whole buffer.
Doubled(count, len, target, start) ==
    Rounds(DoubleRound(count, len, target), [low |-> 0, high |-> start], len)

FitRound(count, len, target, close) ==
    [s \in Bounds(len) |->
        IF target <= count[s.high] /\ count[s.high] <= close THEN s
        ELSE IF count[Middle(s)] >= target THEN [s EXCEPT !.high = Middle(s)]
        ELSE [s EXCEPT !.low = Middle(s) + 1]]

\* The bisection of make_prompt(): the text at high is its best.
Narrowed(count, len, target, close, bounds) ==
    Rounds(FitRound(count, len, target, close), bounds, Probes)

\* MUTANT of Fit: what fits the context is not asked of the last candidate.
FitUnchecked(count, len, target, limit, start) ==
    LET bounds == Doubled(count, len, target, start)
        best   == Narrowed(count, len, target, AtMost(target + Slack, limit), bounds).high
    IN IF count[bounds.high] < target THEN Failed ELSE best

\* make_prompt(): what it comes to must have the target and fit the context.
Fit(count, len, target, limit, start) ==
    LET bounds == Doubled(count, len, target, start)
        best   == Narrowed(count, len, target, AtMost(target + Slack, limit), bounds).high
    IN IF count[bounds.high] < target THEN Failed
       ELSE IF target <= count[best] /\ count[best] <= limit THEN best
       ELSE Failed
=============================================================================
