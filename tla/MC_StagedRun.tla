---------------------------- MODULE MC_StagedRun ----------------------------
(* Instances of StagedRun for TLC: two layouts, one of them with MTP, and   *)
(* the shortlist of Ranking with its real arguments.                        *)
EXTENDS StagedRun, FiniteSets, TLC

CONSTANT Shortlisted    \* config["finalists"]

R == INSTANCE Ranking WITH SpeedTolerance <- 5

\* Candidates are numbered; the odd ones are their predecessor with MTP.
MCMatrix == <<0, 1, 2>>
MCSpeculative == {1}
MCIdentity(c) == c \div 2

\* Each candidate has its speed; whether an evaluation passes is open.
MCOutcomes == {"failed", "passed"}
MCPassed == {"passed"}

RecordOf(c, passed) ==
    [id |-> c, precision |-> IF c = 2 THEN "fp8" ELSE "bf16",
     layout |-> "tp2", passed |-> passed, score |-> 120 - 10 * c, latency |-> 1]

\* config["finalists"] of the refined ones, then all that qualify. A table by
\* the candidates and those of them that passed: TLC evaluates it once, when
\* the constants are set, because @@ and \o are computed and not kept lazy.
Picked ==
    [s \in Stages, chosen \in SUBSET Candidates, passed \in SUBSET Candidates |->
       LET records == {RecordOf(c, c \in passed) : c \in chosen}
           best == IF s = "qualify"
                   THEN R!Shortlist(records, Cardinality(records), FALSE, FALSE)
                   ELSE R!Shortlist(records, Shortlisted, TRUE, TRUE)
       IN <<>> \o [i \in DOMAIN best |-> best[i].id]] @@ <<>>

MCShortlist(s, chosen, results) ==
    Picked[s, chosen, {c \in chosen : results[c] \in MCPassed}]
=============================================================================
