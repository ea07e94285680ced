-------------------------- MODULE StagedRun_proofs --------------------------
(***************************************************************************)
(* Proofs about runner.py: StagedRun, for any candidates, outcomes and      *)
(* shortlist, and Deployment, for any number of deployments.               *)
(***************************************************************************)
EXTENDS StagedRun, Deployment, TLAPS

Results == [Keys -> Outcomes \cup {NoResult}]

(* What a shortlist of the results holds: candidates it was given, each with *)
(* a passing result of the stage.                                          *)
LEMMA BestPassed ==
    ASSUME NEW s \in Stages, NEW chosen \in SUBSET Candidates, NEW results \in Results
    PROVE  /\ Best(s, chosen, results) \in Seq(chosen)
           /\ \A i \in DOMAIN Best(s, chosen, results) :
                HasPassed(<<s, Best(s, chosen, results)[i]>>, results)
<1> DEFINE ofStage == [c \in Candidates |-> results[<<s, c>>]]
           best == ShortlistOf(s, chosen, ofStage)
<1>1. ofStage \in [Candidates -> Outcomes \cup {NoResult}]
  BY DEF Results, Keys
<1>2. /\ best \in Seq(chosen)
      /\ \A i \in DOMAIN best : ofStage[best[i]] \in Passed
  BY <1>1, ShortlistAssumption
<1>3. \A i \in DOMAIN best : best[i] \in Candidates
  BY <1>2
<1>4. \A i \in DOMAIN best : results[<<s, best[i]>>] \in Passed
  BY <1>2, <1>3
<1> QED
  BY <1>2, <1>4 DEF Best, HasPassed

(* The candidates of a stage are candidates.                               *)
LEMMA ChosenCandidates ==
    ASSUME NEW s \in Stages, NEW results \in Results
    PROVE  Chosen(s, results) \in SUBSET Candidates
<1>1. Screened \in SUBSET Candidates /\ Refined(results) \in SUBSET Candidates
  BY DEF Screened, Refined
<1>2. "refine" \in Stages
  BY DEF Stages
<1>3. Finalists(results) \in Seq(Refined(results))
  BY <1>1, <1>2, BestPassed DEF Finalists
<1>4. Listed(Finalists(results)) \in SUBSET Candidates
  BY <1>1, <1>3 DEF Listed
<1> QED
  BY <1>1, <1>4 DEF Chosen, Stages

(* The first of a stage's shortlist, when it has one, passed the stage.     *)
LEMMA FirstSelected ==
    ASSUME stage \in Stages, state.results \in Results, Selected # <<>>
    PROVE  /\ Selected[1] \in Candidates
           /\ HasPassed(<<stage, Selected[1]>>, state.results)
<1> DEFINE chosen == Chosen(stage, state.results)
<1>1. chosen \in SUBSET Candidates
  BY ChosenCandidates
<1>2. /\ Selected \in Seq(chosen)
      /\ \A i \in DOMAIN Selected : HasPassed(<<stage, Selected[i]>>, state.results)
  BY <1>1, BestPassed DEF Selected
<1> HIDE DEF chosen
<1>3. 1 \in DOMAIN Selected
  BY <1>2
<1> QED
  BY <1>1, <1>2, <1>3

-----------------------------------------------------------------------------
(* What the types need: what is stored is an outcome of a candidate.        *)
Storing ==
    /\ pc \in {"evaluate", "cleanup", "store"} => at \in Candidates
    /\ pc = "cleanup" => pending \in Outcomes \cup {Raised}
    /\ pc = "store" => pending \in Outcomes

Typed == TypeOK /\ Storing

LEMMA TypedResults == ASSUME Typed PROVE file.results \in Results /\ state.results \in Results
BY DEF Typed, TypeOK, Record, Results

LEMMA EmptyRecord == Empty \in Record
BY DEF Empty, Record

LEMMA TypedInit == ASSUME Init PROVE Typed
BY EmptyRecord DEF Init, Typed, TypeOK, Storing, Stages

LEMMA TypedStep == ASSUME Typed, [Next]_vars PROVE Typed'
<1> USE EmptyRecord DEF Typed, TypeOK, Storing, Stages
<1>1. CASE Begin
  <2>1. [Empty EXCEPT !.status = "running"] \in Record
    BY DEF Empty, Record
  <2> QED
    BY <1>1, <2>1 DEF Begin
<1>2. ASSUME NEW retry \in BOOLEAN, Resume(retry) PROVE Typed'
  <2> DEFINE kept == [k \in Keys |-> IF HasPassed(k, file.results)
                                     THEN file.results[k] ELSE NoResult]
  <2>1. kept \in Results
    BY TypedResults DEF Results
  <2>2. [file EXCEPT !.results = kept] \in Record
    BY <2>1 DEF Record, Results
  <2> HIDE DEF kept
  <2>3. state' \in Record
    BY <1>2, <2>2 DEF Resume, kept
  <2> QED
    BY <1>2, <2>3 DEF Resume, disk
<1>3. CASE Recover \/ ChecksPass \/ Save \/ Export \/ Announce \/ Finally
  <2>1. state.winner \in Candidates \cup {NoOne}
    BY DEF Record
  <2> QED
    BY <1>3, <2>1 DEF Recover, ChecksPass, Save, Export, Announce, Finally, disk
<1>4. CASE RecoverFails
  BY <1>4 DEF RecoverFails, ProcessEnds, disk
<1>5. CASE ChecksFail
  <2>1. [state EXCEPT !.status = "failed"] \in Record
    BY DEF Record
  <2> QED
    BY <1>5, <2>1 DEF ChecksFail, ProcessEnds
<1>6. CASE Evaluate
  <2>1. PICK c \in Chosen(stage, state.results) : at' = c
    BY <1>6 DEF Evaluate, Todo
  <2>2. c \in Candidates
    BY ChosenCandidates, TypedResults
  <2>3. left' \subseteq Keys
    BY <1>6, <2>1, <2>2 DEF Evaluate, Keys
  <2> QED
    BY <1>6, <2>1, <2>2, <2>3 DEF Evaluate, disk
<1>7. ASSUME NEW o \in Outcomes \cup {Raised}, Measured(o) PROVE Typed'
  BY <1>7 DEF Measured, disk
<1>8. CASE CleanedUp
  BY <1>8 DEF CleanedUp, Throw, disk
<1>9. ASSUME NEW e \in {"interrupted", "failed"}, CleanupFails(e) \/ Raise(e) PROVE Typed'
  BY <1>9 DEF CleanupFails, Raise, Throw, disk
<1>10. CASE Store
  <2>1. [state EXCEPT !.results[<<stage, at>>] = pending] \in Record
    BY <1>10 DEF Store, Record, Keys
  <2> QED
    BY <1>10, <2>1 DEF Store, disk
<1>11. CASE StageOver
  <2>1. CASE Selected = <<>>
    BY <1>11, <2>1 DEF StageOver, Throw, disk
  <2>2. CASE Selected # <<>> /\ stage = "qualify"
    <3>1. Selected[1] \in Candidates
      BY <2>2, FirstSelected, TypedResults
    <3>2. [state EXCEPT !.status = "completed", !.winner = Selected[1]] \in Record
      BY <3>1 DEF Record
    <3> QED
      BY <1>11, <2>2, <3>2 DEF StageOver, disk
  <2>3. CASE Selected # <<>> /\ stage # "qualify"
    BY <1>11, <2>3 DEF StageOver, disk
  <2> QED
    BY <2>1, <2>2, <2>3
<1>12. CASE Except \/ CutShort
  <2>1. [state EXCEPT !.status = err] \in Record
    BY DEF Record
  <2> QED
    BY <1>12, <2>1 DEF Except, CutShort, disk
<1>13. CASE ExitRun \/ Kill
  BY <1>13 DEF ExitRun, Kill, ProcessEnds, disk
<1>14. CASE Cleanup
  BY <1>14 DEF Cleanup, disk
<1>15. CASE UNCHANGED vars
  BY <1>15 DEF vars
<1> QED
  BY <1>1, <1>2, <1>3, <1>4, <1>5, <1>6, <1>7, <1>8, <1>9, <1>10, <1>11, <1>12, <1>13,
     <1>14, <1>15 DEF Next, Step, Trouble

(* Every variable keeps its type: what is stored as a result is an outcome  *)
(* of evaluate(), never an interrupted measurement.                        *)
THEOREM TypeCorrect == Spec => []TypeOK
<1>1. Init => Typed
  BY TypedInit
<1>2. Typed /\ [Next]_vars => Typed'
  BY TypedStep
<1>3. Typed => TypeOK
  BY DEF Typed
<1>4. QED
  BY <1>1, <1>2, <1>3, PTL DEF Spec

-----------------------------------------------------------------------------
(* MeasuredAlone needs to know where containers may be left: nowhere while  *)
(* the run writes files or checks the machine, with one candidate while it  *)
(* is evaluated, and nowhere at all before there is a run.json to resume.   *)
Clean ==
    /\ file.status = "none" => left = {}
    /\ pc # "down" => file.status # "none" /\ state.status # "none"
    /\ pc = "except" => err # "none"
    /\ pc \in {"checks", "stage", "store", "save", "export", "announce"} => left = {}
    /\ pc \in {"evaluate", "cleanup"} => left \subseteq {<<stage, at>>}

LEMMA CleanStep == ASSUME Typed, Clean, [Next]_vars PROVE Clean'
<1> USE DEF Clean
<1>1. CASE Begin
  BY <1>1 DEF Begin, Empty
<1>2. ASSUME NEW retry \in BOOLEAN, Resume(retry) PROVE Clean'
  <2>1. state'.status = file.status
    BY <1>2 DEF Resume, Typed, TypeOK, Record
  <2> QED
    BY <1>2, <2>1 DEF Resume, disk
<1>3. CASE Recover \/ ChecksPass \/ Save \/ Export \/ Announce \/ Finally
  BY <1>3 DEF Recover, ChecksPass, Save, Export, Announce, Finally, disk
<1>4. CASE RecoverFails
  BY <1>4 DEF RecoverFails, ProcessEnds, disk
<1>5. CASE ChecksFail
  BY <1>5 DEF ChecksFail, ProcessEnds, Typed, TypeOK, Record
<1>6. CASE Evaluate
  BY <1>6 DEF Evaluate, disk
<1>7. ASSUME NEW o \in Outcomes \cup {Raised}, Measured(o) PROVE Clean'
  BY <1>7 DEF Measured, disk
<1>8. CASE CleanedUp
  BY <1>8 DEF CleanedUp, Throw, disk
<1>9. ASSUME NEW e \in {"interrupted", "failed"}, CleanupFails(e) \/ Raise(e) PROVE Clean'
  BY <1>9 DEF CleanupFails, Raise, Throw, disk
<1>10. CASE Store
  BY <1>10 DEF Store, disk, Typed, TypeOK, Record
<1>11. CASE StageOver
  <2>1. state'.status \in {state.status, "completed"}
    BY <1>11 DEF StageOver, Typed, TypeOK, Record
  <2> QED
    BY <1>11, <2>1 DEF StageOver, Throw, disk
<1>12. CASE Except \/ CutShort
  BY <1>12 DEF Except, CutShort, disk, Typed, TypeOK, Record
<1>13. CASE ExitRun \/ Kill
  BY <1>13 DEF ExitRun, Kill, ProcessEnds, disk
<1>14. CASE Cleanup
  BY <1>14 DEF Cleanup, disk
<1>15. CASE UNCHANGED vars
  BY <1>15 DEF vars
<1> QED
  BY <1>1, <1>2, <1>3, <1>4, <1>5, <1>6, <1>7, <1>8, <1>9, <1>10, <1>11, <1>12, <1>13,
     <1>14, <1>15 DEF Next, Step, Trouble

(* A candidate is never measured while another candidate of the run may     *)
(* have containers on the GPUs.                                            *)
THEOREM MeasuredAloneAlways == Spec => []MeasuredAlone
<1>1. Init => Typed /\ Clean
  BY TypedInit DEF Init, Clean
<1>2. (Typed /\ Clean) /\ [Next]_vars => (Typed /\ Clean)'
  BY TypedStep, CleanStep
<1>3. Typed /\ Clean => MeasuredAlone
  BY DEF Clean, MeasuredAlone
<1>4. QED
  BY <1>1, <1>2, <1>3, PTL DEF Spec


-----------------------------------------------------------------------------
(* CompletedSurvive needs to know that the copy of run.json in memory keeps *)
(* what the file lists as passed, that what is being measured has no result *)
(* yet, and that nothing has before there is a run.json.                    *)
Kept ==
    /\ file.status = "none" => \A k \in Keys : file.results[k] = NoResult
    /\ pc # "down" => \A k \in Keys : HasPassed(k, file.results)
                                        => state.results[k] = file.results[k]
    /\ pc \in {"evaluate", "cleanup", "store"} => state.results[<<stage, at>>] = NoResult

KeepsPasses == \A k \in Keys : HasPassed(k, file.results) => file'.results[k] = file.results[k]

LEMMA NoResultNotPassed == NoResult \notin Passed
BY StagedAssumption

LEMMA KeptStep ==
    ASSUME Typed, Clean, Kept, [Next]_vars
    PROVE  Kept' /\ KeepsPasses
<1> USE NoResultNotPassed DEF Kept, KeepsPasses, HasPassed
<1>1. CASE Begin
  BY <1>1 DEF Begin, Empty
<1>2. ASSUME NEW retry \in BOOLEAN, Resume(retry) PROVE Kept' /\ KeepsPasses
  <2>1. \A k \in Keys : HasPassed(k, file.results) => state'.results[k] = file.results[k]
    BY <1>2 DEF Resume, Typed, TypeOK, Record
  <2> QED
    BY <1>2, <2>1 DEF Resume, disk
<1>3. CASE Recover \/ Export \/ Announce
  BY <1>3 DEF Recover, Export, Announce, disk
<1>4. CASE ChecksPass \/ Save \/ Finally
  <2>1. file' = state /\ state' = state /\ state.status # "none" /\ pc # "down"
    BY <1>4 DEF ChecksPass, Save, Finally, Clean
  <2>2. pc' \notin {"evaluate", "cleanup", "store"}
    BY <1>4 DEF ChecksPass, Save, Finally
  <2> QED
    BY <2>1, <2>2
<1>5. CASE RecoverFails \/ ExitRun \/ Kill
  BY <1>5 DEF RecoverFails, ExitRun, Kill, ProcessEnds, disk
<1>6. CASE ChecksFail
  <2>1. file'.results = state.results /\ file'.status = "failed"
    BY <1>6 DEF ChecksFail, Typed, TypeOK, Record
  <2> QED
    BY <1>6, <2>1 DEF ChecksFail, ProcessEnds
<1>7. CASE Evaluate
  BY <1>7 DEF Evaluate, Todo, disk
<1>8. ASSUME NEW o \in Outcomes \cup {Raised}, Measured(o) PROVE Kept' /\ KeepsPasses
  BY <1>8 DEF Measured, disk
<1>9. CASE CleanedUp
  BY <1>9 DEF CleanedUp, Throw, disk
<1>10. ASSUME NEW e \in {"interrupted", "failed"}, CleanupFails(e) \/ Raise(e)
       PROVE  Kept' /\ KeepsPasses
  BY <1>10 DEF CleanupFails, Raise, Throw, disk
<1>11. CASE Store
  <2>1. \A k \in Keys : k # <<stage, at>> => state'.results[k] = state.results[k]
    BY <1>11 DEF Store, Typed, TypeOK, Record
  <2>2. \A k \in Keys : HasPassed(k, file.results) => k # <<stage, at>>
    BY <1>11 DEF Store
  <2> QED
    BY <1>11, <2>1, <2>2 DEF Store, disk
<1>12. CASE StageOver \/ Except \/ CutShort
  <2>1. state'.results = state.results
    BY <1>12 DEF StageOver, Except, CutShort, Typed, TypeOK, Record
  <2> QED
    BY <1>12, <2>1 DEF StageOver, Except, CutShort, Throw, disk
<1>13. CASE Cleanup
  BY <1>13 DEF Cleanup, disk
<1>14. CASE UNCHANGED vars
  BY <1>14 DEF vars
<1> QED
  BY <1>1, <1>2, <1>3, <1>4, <1>5, <1>6, <1>7, <1>8, <1>9, <1>10, <1>11, <1>12, <1>13,
     <1>14 DEF Next, Step, Trouble

(* A candidate is chosen for its evaluation only without a result.          *)
LEMMA NotMeasuredAgain ==
    ASSUME Typed, Kept, [Next]_vars, ~ UNCHANGED vars, pc' = "evaluate",
           NEW k \in Keys, k = <<stage', at'>>
    PROVE  ~HasPassed(k, file.results)
<1>1. CASE Evaluate
  <2>1. state.results[k] = NoResult /\ pc # "down"
    BY <1>1 DEF Evaluate, Todo
  <2> QED
    BY <2>1, NoResultNotPassed DEF Kept, HasPassed
<1>2. CASE StageOver
  BY <1>2 DEF StageOver, Throw
<1>3. CASE Begin \/ Recover \/ ChecksPass \/ Save \/ Export \/ Announce \/ Finally
  BY <1>3 DEF Begin, Recover, ChecksPass, Save, Export, Announce, Finally
<1>4. CASE CleanedUp \/ Store \/ Except \/ ExitRun \/ CutShort \/ Cleanup
  BY <1>4 DEF CleanedUp, Throw, Store, Except, ExitRun, CutShort, Cleanup, ProcessEnds
<1>5. CASE RecoverFails \/ ChecksFail \/ Kill
  BY <1>5 DEF RecoverFails, ChecksFail, Kill, ProcessEnds
<1>6. ASSUME NEW retry \in BOOLEAN, Resume(retry) PROVE FALSE
  BY <1>6 DEF Resume
<1>7. ASSUME NEW o \in Outcomes \cup {Raised}, Measured(o) PROVE FALSE
  BY <1>7 DEF Measured
<1>8. ASSUME NEW e \in {"interrupted", "failed"}, CleanupFails(e) \/ Raise(e) PROVE FALSE
  BY <1>8 DEF CleanupFails, Raise, Throw
<1> QED
  BY <1>1, <1>2, <1>3, <1>4, <1>5, <1>6, <1>7, <1>8 DEF Next, Step, Trouble

LEMMA CleanInit == ASSUME Init PROVE Clean
BY DEF Init, Clean

LEMMA KeptInit == ASSUME Init PROVE Kept
BY DEF Init, Kept, Empty

(* "Completed results survive interruption": what run.json once lists as    *)
(* passed stays listed, and is never measured again.                       *)
THEOREM CompletedSurviveAlways == Spec => CompletedSurvive
<1>1. Init => Typed /\ Clean /\ Kept
  BY TypedInit, CleanInit, KeptInit
<1>2. (Typed /\ Clean /\ Kept) /\ [Next]_vars => (Typed /\ Clean /\ Kept)'
  BY TypedStep, CleanStep, KeptStep
<1>3. (Typed /\ Clean /\ Kept) /\ [Next]_vars
        => [\A k \in Keys : HasPassed(k, file.results)
              => /\ file'.results[k] = file.results[k]
                 /\ ~(pc' = "evaluate" /\ k = <<stage', at'>>)]_vars
  BY KeptStep, NotMeasuredAgain DEF KeepsPasses
<1>4. QED
  BY <1>1, <1>2, <1>3, PTL DEF Spec, CompletedSurvive

-----------------------------------------------------------------------------
(* WinnerQualified needs to know where the file and the copy in memory      *)
(* agree, that both name only winners with a pass of their own, and that a  *)
(* run is not complete for longer than it takes to export its winner.       *)
Agree ==
    /\ pc \in {"stage", "evaluate", "cleanup", "store", "export", "announce"}
          => file.results = state.results
    /\ state.winner # NoOne => HasPassed(<<"qualify", state.winner>>, state.results)
    /\ pc = "export" => state.winner # NoOne
    /\ state.status = "completed" => exported # NoOne \/ pc \in {"export", "except"}

Qualified == Agree /\ WinnerQualified

LEMMA QualifiedInit == ASSUME Init PROVE Qualified
BY DEF Init, Qualified, Agree, WinnerQualified, Empty

LEMMA QualifiedStep ==
    ASSUME Typed, Clean, Kept, Qualified, [Next]_vars
    PROVE  Qualified'
<1> USE NoResultNotPassed DEF Qualified, Agree, WinnerQualified
<1>0. \A c \in Candidates : <<"qualify", c>> \in Keys
  BY DEF Keys, Stages
<1>1. CASE Begin
  <2>1. exported = NoOne
    BY <1>0, <1>1 DEF Begin, Kept, HasPassed, Typed, TypeOK
  <2> QED
    BY <1>1, <2>1 DEF Begin, Empty
<1>2. ASSUME NEW retry \in BOOLEAN, Resume(retry) PROVE Qualified'
  <2>1. \A k \in Keys : HasPassed(k, file.results) => HasPassed(k, state'.results)
    BY <1>2 DEF Resume, Typed, TypeOK, Record, HasPassed
  <2>2. state'.winner = file.winner /\ state'.status = file.status
    BY <1>2 DEF Resume, Typed, TypeOK, Record
  <2>3. file.winner \in Candidates \cup {NoOne}
    BY DEF Typed, TypeOK, Record
  <2> QED
    BY <1>0, <1>2, <2>1, <2>2, <2>3 DEF Resume, disk
<1>3. CASE Recover \/ Export \/ Announce
  BY <1>3 DEF Recover, Export, Announce, disk
<1>4. CASE ChecksPass \/ Save \/ Finally
  <2>1. file' = state /\ state' = state /\ exported' = exported
    BY <1>4 DEF ChecksPass, Save, Finally
  <2>2. exported # NoOne => HasPassed(<<"qualify", exported>>, file'.results)
    BY <1>0, <1>4, KeptStep DEF KeepsPasses, HasPassed, Typed, TypeOK
  <2>3. pc \notin {"export", "except"} /\ pc' \in {"stage", "exit"}
    BY <1>4 DEF ChecksPass, Save, Finally
  <2> QED
    BY <2>1, <2>2, <2>3
<1>5. CASE RecoverFails \/ ExitRun \/ Kill
  BY <1>5 DEF RecoverFails, ExitRun, Kill, ProcessEnds, disk, Empty
<1>6. CASE ChecksFail
  <2>1. /\ file'.results = state.results /\ file'.status = "failed"
        /\ file'.winner = state.winner
    BY <1>6 DEF ChecksFail, Typed, TypeOK, Record
  <2>2. exported # NoOne => HasPassed(<<"qualify", exported>>, file'.results)
    BY <1>0, <1>6, KeptStep DEF KeepsPasses, HasPassed, Typed, TypeOK
  <2> QED
    BY <1>6, <2>1, <2>2 DEF ChecksFail, ProcessEnds, Empty, HasPassed
<1>7. CASE Evaluate
  BY <1>7 DEF Evaluate, disk
<1>8. ASSUME NEW o \in Outcomes \cup {Raised}, Measured(o) PROVE Qualified'
  BY <1>8 DEF Measured, disk
<1>9. CASE CleanedUp
  BY <1>9 DEF CleanedUp, Throw, disk
<1>10. ASSUME NEW e \in {"interrupted", "failed"}, CleanupFails(e) \/ Raise(e)
       PROVE  Qualified'
  BY <1>10 DEF CleanupFails, Raise, Throw, disk
<1>11. CASE Store
  <2>1. /\ \A k \in Keys : k # <<stage, at>> => state'.results[k] = state.results[k]
        /\ state'.winner = state.winner /\ state'.status = state.status
    BY <1>11 DEF Store, Typed, TypeOK, Record
  <2>2. state.winner \in Candidates \cup {NoOne}
    BY DEF Typed, TypeOK, Record
  <2>3. state.winner # NoOne => <<"qualify", state.winner>> # <<stage, at>>
    BY <1>11 DEF Store, Kept, HasPassed
  <2>4. state'.winner # NoOne => HasPassed(<<"qualify", state'.winner>>, state'.results)
    BY <1>0, <2>1, <2>2, <2>3 DEF HasPassed
  <2> QED
    BY <1>11, <2>1, <2>4 DEF Store, disk
<1>12. CASE StageOver
  <2>1. CASE Selected = <<>>
    BY <1>12, <2>1 DEF StageOver, Throw, disk
  <2>2. CASE Selected # <<>> /\ stage = "qualify"
    <3>1. /\ Selected[1] \in Candidates
          /\ HasPassed(<<stage, Selected[1]>>, state.results)
      BY <2>2, FirstSelected, TypedResults DEF Typed, TypeOK
    <3>2. state'.results = state.results /\ state'.winner = Selected[1]
      BY <1>12, <2>2 DEF StageOver, Typed, TypeOK, Record
    <3>3. Selected[1] # NoOne
      BY <3>1, StagedAssumption
    <3> QED
      BY <1>12, <2>2, <3>1, <3>2, <3>3 DEF StageOver, disk
  <2>3. CASE Selected # <<>> /\ stage # "qualify"
    BY <1>12, <2>3 DEF StageOver, disk
  <2> QED
    BY <2>1, <2>2, <2>3
<1>13. CASE Except \/ CutShort
  <2>1. /\ state'.results = state.results /\ state'.winner = state.winner
        /\ state'.status \in {state.status, err}
        /\ pc = "except" => state'.status = err
    BY <1>13 DEF Except, CutShort, Typed, TypeOK, Record
  <2>2. err # "completed"
    BY DEF Typed, TypeOK
  <2> QED
    BY <1>13, <2>1, <2>2 DEF Except, CutShort, disk
<1>14. CASE Cleanup
  BY <1>14 DEF Cleanup, disk
<1>15. CASE UNCHANGED vars
  BY <1>15 DEF vars
<1> QED
  BY <1>1, <1>2, <1>3, <1>4, <1>5, <1>6, <1>7, <1>8, <1>9, <1>10, <1>11, <1>12, <1>13,
     <1>14, <1>15 DEF Next, Step, Trouble

(* What run.json and recommendation.json name as the winner has a passing   *)
(* qualification on file, and a completed run has exported its winner.      *)
THEOREM WinnerQualifiedAlways == Spec => []WinnerQualified
<1>1. Init => Typed /\ Clean /\ Kept /\ Qualified
  BY TypedInit, CleanInit, KeptInit, QualifiedInit
<1>2. (Typed /\ Clean /\ Kept /\ Qualified) /\ [Next]_vars
        => (Typed /\ Clean /\ Kept /\ Qualified)'
  BY TypedStep, CleanStep, KeptStep, QualifiedStep
<1>3. Qualified => WinnerQualified
  BY DEF Qualified
<1>4. QED
  BY <1>1, <1>2, <1>3, PTL DEF Spec

-----------------------------------------------------------------------------
(* Deployments.                                                            *)

(* A command works on a directory that a serve created, and so does the     *)
(* record of an active deployment.                                         *)
Created ==
    /\ doing # "down" => here \in used
    /\ active # NoRecord => active \in used

(* A serve works on a directory nobody was told of, with nothing recorded   *)
(* before its own record; `stop` works on the recorded one, and forgets it  *)
(* when nothing of it is left.                                             *)
Serving ==
    /\ doing \in {"runtime", "gateway", "smoke", "record", "announce", "stop gateway",
                  "stop runtime"} => here \notin announced
    /\ doing \in {"runtime", "gateway", "smoke", "record"} => active = NoRecord
    /\ doing = "announce" => active = here
    /\ doing \in {"recover gateway", "recover runtime", "unlink"} /\ command = "stop"
          => active = here
    /\ doing = "unlink" => command = "stop"
    /\ doing \in {"recover runtime", "unlink"} => <<here, "gateway">> \notin remains
    /\ doing = "unlink" => <<here, "runtime">> \notin remains

(* What a serve has started by then.                                       *)
Started ==
    /\ doing \in {"gateway", "smoke", "record"} => <<here, "runtime">> \in remains
    /\ doing \in {"smoke", "record"} => <<here, "gateway">> \in remains

(* Findable, told by single containers.                                    *)
Found == \A d \in announced, p \in Parts : <<d, p>> \in remains => active = d

Served == DeploymentTypeOK /\ Created /\ Serving /\ Started /\ Found

LEMMA FoundFindable ==
    Found <=> Findable
BY DEF Found, Findable

LEMMA ServedInit ==
    ASSUME DeploymentInit
    PROVE  Served
BY DEF DeploymentInit, Served, DeploymentTypeOK, Created, Serving, Started, Found

LEMMA ServedStep ==
    ASSUME Served, [DeploymentNext]_deployment
    PROVE  Served'
<1> USE DeploymentAssumption DEF Served, DeploymentTypeOK, Created, Serving, Started, Found,
            Parts
<1>1. ASSUME NEW d \in Directories, Serve(d) PROVE Served'
  BY <1>1 DEF Serve
<1>2. CASE StartRuntime
  BY <1>2 DEF StartRuntime, Launched, Goes
<1>3. CASE StartGateway
  BY <1>3 DEF StartGateway, Launched, Goes
<1>4. CASE Smoke \/ RecordActive
  BY <1>4 DEF Smoke, RecordActive, Goes
<1>5. CASE TellUser
  BY <1>5 DEF TellUser, Ends
<1>6. CASE ServeFails
  <2>1. CASE doing = "runtime" \/ doing = "gateway"
    <3>1. remains' = remains \/ remains' = remains \cup {<<here, doing>>}
      BY <1>6, <2>1 DEF ServeFails, MayLaunch
    <3>2. here \notin announced /\ here \in Directories
      BY <2>1
    <3>3. remains' \subseteq Directories \X Parts
      <4>1. doing \in Parts /\ <<here, doing>> \in Directories \X Parts
        BY <2>1, <3>2
      <4>2. remains \subseteq Directories \X Parts
        OBVIOUS
      <4> HIDE DEF Served, DeploymentTypeOK, Parts
      <4> QED
        BY <3>1, <4>1, <4>2
    <3>4. Found'
      BY <1>6, <3>1, <3>2 DEF ServeFails, Goes
    <3> QED
      BY <1>6, <2>1, <3>3, <3>4 DEF ServeFails, Goes
  <2>2. CASE doing \notin {"runtime", "gateway"}
    BY <1>6, <2>2 DEF ServeFails, Goes
  <2> QED
    BY <2>1, <2>2
<1>7. CASE StopGateway
  BY <1>7 DEF StopGateway, Removed, Goes
<1>8. CASE StopRuntime
  BY <1>8 DEF StopRuntime, Removed, Ends
<1>9. CASE Stop
  BY <1>9 DEF Stop
<1>10. ASSUME NEW d \in Directories, CleanUp(d) PROVE Served'
  BY <1>10 DEF CleanUp
<1>11. CASE RecoverGateway
  BY <1>11 DEF RecoverGateway, Removed, Goes
<1>12. CASE RecoverRuntime
  BY <1>12 DEF RecoverRuntime, Removed, Goes, Ends
<1>13. CASE Unlink
  BY <1>13 DEF Unlink, Ends
<1>14. CASE RecoveryFails
  BY <1>14 DEF RecoveryFails, Ends
<1>15. CASE KillCommand
  <2>1. CASE doing = "runtime" \/ doing = "gateway"
    <3>1. remains' = remains \/ remains' = remains \cup {<<here, doing>>}
      BY <1>15, <2>1 DEF KillCommand, MayLaunch
    <3>2. here \notin announced /\ here \in Directories
      BY <2>1
    <3>3. remains' \subseteq Directories \X Parts
      <4>1. doing \in Parts /\ <<here, doing>> \in Directories \X Parts
        BY <2>1, <3>2
      <4>2. remains \subseteq Directories \X Parts
        OBVIOUS
      <4> HIDE DEF Served, DeploymentTypeOK, Parts
      <4> QED
        BY <3>1, <4>1, <4>2
    <3>4. Found'
      BY <1>15, <3>1, <3>2 DEF KillCommand, Ends
    <3> QED
      BY <1>15, <2>1, <3>3, <3>4 DEF KillCommand, Ends
  <2>2. CASE doing \notin {"runtime", "gateway"}
    BY <1>15, <2>2 DEF KillCommand, Ends
  <2> QED
    BY <2>1, <2>2
<1>16. CASE UNCHANGED deployment
  BY <1>16 DEF deployment
<1> QED
  BY <1>1, <1>2, <1>3, <1>4, <1>5, <1>6, <1>7, <1>8, <1>9, <1>10, <1>11, <1>12, <1>13,
     <1>14, <1>15, <1>16 DEF DeploymentNext

(* Every variable keeps its type: a command never works on a missing        *)
(* record, and nobody is told of a deployment that was never begun.        *)
THEOREM DeploymentTypeCorrect == DeploymentSpec => []DeploymentTypeOK
<1>1. Served => DeploymentTypeOK
  BY DEF Served
<1>2. QED
  BY <1>1, ServedInit, ServedStep, PTL DEF DeploymentSpec

(* A deployment whose user was told it serves stays within reach of `stop`  *)
(* while any of its containers may run.                                    *)
THEOREM FindableAlways == DeploymentSpec => []Findable
<1>1. Served => Findable
  BY FoundFindable DEF Served
<1>2. QED
  BY <1>1, ServedInit, ServedStep, PTL DEF DeploymentSpec

(* Only a deployment with all its parts is ever recorded as active.         *)
THEOREM RecordedIsCompleteAlways == DeploymentSpec => RecordedIsComplete
<1>1. ASSUME Served, DeploymentNext, active' # NoRecord, active' # active
      PROVE  {active'} \X Parts \subseteq remains
  <2>1. CASE RecordActive
    BY <1>1, <2>1 DEF RecordActive, Served, Started, Parts
  <2>2. CASE ~RecordActive
    BY <1>1, <2>2 DEF DeploymentNext, Serve, CleanUp,
       StartRuntime, StartGateway, Smoke, TellUser,
       ServeFails, StopGateway, StopRuntime, Stop,
       RecoverGateway, RecoverRuntime, Unlink, RecoveryFails, KillCommand
  <2> QED
    BY <2>1, <2>2
<1>2. Served /\ [DeploymentNext]_deployment
        => [active' # NoRecord /\ active' # active
              => {active'} \X Parts \subseteq remains]_deployment
  BY <1>1
<1>3. QED
  BY <1>2, ServedInit, ServedStep, PTL
     DEF DeploymentSpec, RecordedIsComplete
=============================================================================
