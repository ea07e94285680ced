-------------------------- MODULE Autotune_proofs --------------------------
(***************************************************************************)
(* Proofs about Autotune, for any number of combinations.                  *)
(***************************************************************************)
EXTENDS Autotune, TLAPS

Trying == Starting \cup {"passed", "rejected"}

-----------------------------------------------------------------------------
(* The type of `next` needs to know that a matrix candidate is one of the   *)
(* matrix.                                                                 *)
Typed == TypeOK /\ (pc \in Trying /\ why = "matrix" => next <= Combinations)

(* The positions of the matrix, and the one past it.                        *)
LEMMA Positions ==
    /\ 1 \in 1 .. (Combinations + 1)
    /\ \A n \in 1 .. (Combinations + 1) : n <= Combinations
          => n \in 1 .. Combinations /\ n + 1 \in 1 .. (Combinations + 1)
BY AutotuneAssumption

(* A candidate of the matrix keeps the size of the original profile.        *)
LEMMA BaseProfile ==
    ASSUME TypeOK, NEW c \in 1 .. Combinations
    PROVE  Base(c) \in Profiles
BY DEF TypeOK, Base, Profiles, Record, Originals

(* What the updates of report leave alone.                                 *)
LEMMA StatusSet ==
    ASSUME report \in Reports,
           NEW s \in {"running", "selected", "restoring", "restored", "attention"},
           NEW r, r = [report EXCEPT !.status = s]
    PROVE  /\ r \in Reports
           /\ r.status = s /\ r.passed = report.passed /\ r.bounded = report.bounded
BY DEF Reports

LEMMA PassedSet ==
    ASSUME report \in Reports, NEW x \in SUBSET Profiles,
           NEW r, r = [report EXCEPT !.passed = x]
    PROVE  /\ r \in Reports
           /\ r.status = report.status /\ r.passed = x /\ r.bounded = report.bounded
BY DEF Reports

LEMMA BoundedSet ==
    ASSUME report \in Reports, NEW x \in SUBSET Profiles,
           NEW r, r = [report EXCEPT !.bounded = x]
    PROVE  /\ r \in Reports
           /\ r.status = report.status /\ r.passed = report.passed /\ r.bounded = x
BY DEF Reports

(* Stopping the service, and starting it with a profile.                    *)
LEMMA Halted ==
    ASSUME server \in Servers, Halt
    PROVE  /\ server' \in Servers
           /\ server'.state = "stopped" /\ server'.profile = server.profile
BY DEF Halt, Servers

LEMMA Upped ==
    ASSUME NEW p \in Profiles, Up(p)
    PROVE  server' \in Servers /\ server'.state = "loading" /\ server'.profile = p
BY DEF Up, Servers

LEMMA OriginalNow ==
    ASSUME record \in Record
    PROVE  [record |-> record, running |-> server.state \in {"loading", "healthy"}] \in Originals
<1>1. (server.state \in {"loading", "healthy"}) \in BOOLEAN
  OBVIOUS
<1> QED
  BY <1>1, Zenon DEF Originals

LEMMA FreshReport == Fresh \in Reports
BY DEF Fresh, Reports

LEMMA TypedInit == ASSUME Init PROVE Typed
<1>1. record \in Record /\ original \in Originals
  BY DEF Init, Record, Selectors, Originals
<1> QED
  BY <1>1, Positions, FreshReport DEF Init, Servers, Typed, TypeOK, Trying, Starting

LEMMA TypedStep == ASSUME Typed, [Next]_vars PROVE Typed'
<1> USE DEF Typed, TypeOK, Trying, Starting, Restoring, disk, search
<1>1. CASE Begin
  <2>1. original' \in Originals
    BY <1>1, OriginalNow DEF Begin
  <2> QED
    BY <1>1, <2>1, Positions, FreshReport DEF Begin, Save
<1>2. CASE StopServer \/ RestoreStop
  BY <1>2, Halted DEF StopServer, RestoreStop
<1>3. CASE WriteConfig \/ WriteRecord \/ RestoreConfig \/ RestoreRecord \/ ManualRecovery
  <2>1. original.record \in Record /\ original.record.profile \in Profiles
    BY DEF Record, Originals
  <2>2. [profile |-> at, by |-> "candidate"] \in Record
    BY DEF Record, Selectors
  <2> QED
    BY <1>3, <2>1, <2>2 DEF WriteConfig, WriteRecord, RestoreConfig, RestoreRecord, ManualRecovery
<1>4. CASE ComposeUp \/ RestoreUp
  BY <1>4, Upped DEF ComposeUp, RestoreUp
<1>5. CASE SeenHealthy \/ Check \/ RestoreWait
  BY <1>5 DEF SeenHealthy, Check, RestoreWait
<1>6. CASE Reject
  BY <1>6, Halted, Upped DEF Reject, MayTakeEffect
<1>7. CASE Candidate
  <2>1. CASE next <= Combinations
    <3>1. next \in 1 .. Combinations
      BY <2>1, Positions
    <3> QED
      BY <1>7, <2>1, <3>1, BaseProfile DEF Candidate, Launch
  <2>2. CASE ~(next <= Combinations)
    BY <1>7, <2>2 DEF Candidate
  <2> QED
    BY <2>1, <2>2
<1>8. CASE Evaluated
  <2>1. report' \in Reports /\ summary' = report'
    BY <1>8, PassedSet DEF Evaluated, Save, Reports
  <2>2. server' \in Servers
    BY <1>8, Halted DEF Evaluated
  <2>3. CASE why = "matrix"
    <3>1. next + 1 \in 1 .. (Combinations + 1)
      BY <1>8, <2>3, Positions DEF Evaluated
    <3> QED
      BY <1>8, <2>1, <2>2, <2>3, <3>1 DEF Evaluated
  <2>4. CASE why # "matrix"
    BY <1>8, <2>1, <2>2, <2>4 DEF Evaluated
  <2> QED
    BY <2>3, <2>4
<1>9. CASE Rank
  <2>1. report.passed \subseteq Profiles
    BY DEF Reports
  <2> QED
    BY <1>9, <2>1 DEF Rank, Launch, Throw
<1>10. CASE Bounded
  <2>1. report.bounded \cup {at} \in SUBSET Profiles
    BY DEF Reports
  <2>2. report' \in Reports
    BY <1>10, <2>1, BoundedSet DEF Bounded
  <2> QED
    BY <1>10, <2>2 DEF Bounded
<1>11. CASE Unbounded
  <2>1. report.passed \ {at} \in SUBSET Profiles
    BY DEF Reports
  <2>2. [report EXCEPT !.passed = report.passed \ {at}] \in Reports
    BY <2>1, PassedSet
  <2>3. report' \in Reports /\ summary' \in Reports
    BY <1>11, <2>2 DEF Unbounded, Save
  <2>4. server' \in Servers
    BY <1>11, Halted DEF Unbounded
  <2> QED
    BY <1>11, <2>3, <2>4 DEF Unbounded
<1>12. CASE TryLarger \/ Select
  <2>1. <<winner[1], "large">> \in Profiles
    BY DEF Profiles, Sizes
  <2> QED
    BY <1>12, <2>1 DEF TryLarger, Select, Launch
<1>13. CASE FinalChecks
  BY <1>13 DEF FinalChecks, Throw
<1>14. CASE Deploy
  <2>1. [profile |-> at, by |-> "measured"] \in Record
    BY DEF Record, Selectors
  <2> QED
    BY <1>14, <2>1 DEF Deploy
<1>15. CASE SaveSelected \/ RestoreBegins \/ Restored
  <2>1. report' \in Reports /\ summary' = report'
    BY <1>15, StatusSet DEF SaveSelected, RestoreBegins, Restored, Save
  <2> QED
    BY <1>15, <2>1 DEF SaveSelected, RestoreBegins, Restored, ProcessEnds
<1>16. CASE Succeed \/ SaveFails
  BY <1>16 DEF Succeed, SaveFails, ProcessEnds
<1>17. ASSUME NEW e \in {"failed", "interrupted"}, Abort(e) PROVE Typed'
  BY <1>17, Halted, Upped DEF Abort, Throw, MayTakeEffect
<1>18. CASE RestoreFails
  <2>1. report' \in Reports /\ summary' = report'
    BY <1>18, StatusSet DEF RestoreFails, Save
  <2> QED
    BY <1>18, <2>1, Halted, Upped DEF RestoreFails, RestoreCommand, ProcessEnds
<1>19. CASE RestoreInterrupted
  BY <1>19, Halted, Upped DEF RestoreInterrupted, RestoreCommand, ProcessEnds
<1>20. CASE Kill
  BY <1>20, Halted, Upped DEF Kill, MayTakeEffect, RestoreCommand, ProcessEnds
<1>21. CASE ServerMoves
  <2>1. CASE server.state = "exited"
    BY <1>21, <2>1, Upped DEF ServerMoves
  <2>2. CASE server.state # "exited"
    <3>1. server' \in Servers
      BY <1>21, <2>2 DEF ServerMoves, Servers
    <3> QED
      BY <1>21, <3>1 DEF ServerMoves
  <2> QED
    BY <2>1, <2>2
<1>22. CASE UNCHANGED vars
  BY <1>22 DEF vars
<1> QED
  BY <1>1, <1>2, <1>3, <1>4, <1>5, <1>6, <1>7, <1>8, <1>9, <1>10, <1>11, <1>12, <1>13, <1>14,
     <1>15, <1>16, <1>17, <1>18, <1>19, <1>20, <1>21, <1>22 DEF Next, Step, Trouble

(* Every variable keeps its type: the search never leaves the matrix.       *)
THEOREM TypeCorrect == Spec => []TypeOK
<1>1. Typed => TypeOK
  BY DEF Typed
<1>2. QED
  BY <1>1, TypedInit, TypedStep, PTL DEF Spec

-----------------------------------------------------------------------------
(* RunsWhatIsRecorded needs to know that the files are written while the    *)
(* service is stopped, and that it is only started once both agree.        *)
Paired ==
    /\ RunsWhatIsRecorded
    /\ pc \in {"config", "record", "restore config", "restore record"}
          => server.state = "stopped"
    /\ pc = "record" => config = at
    /\ pc \in {"up", "wait", "check", "passed", "deploy", "report", "saved"}
          => config = at /\ record.profile = at
    /\ pc \in {"wait", "check", "passed", "deploy", "report", "saved"}
          => server.state # "stopped"
    /\ pc = "restore record" => config = original.record.profile
    /\ pc \in {"restore up", "restore wait", "restored"}
          => config = original.record.profile /\ record = original.record

LEMMA PairedInit == ASSUME Init PROVE Paired
BY DEF Init, Paired, RunsWhatIsRecorded

(* The service by itself is neither stopped nor started.                    *)
LEMMA Moved ==
    ASSUME TypeOK, ServerMoves
    PROVE  /\ server.state # "stopped" /\ server'.state # "stopped"
           /\ server'.profile = server.profile \/ server'.profile = config
<1>1. CASE server.state \in {"loading", "healthy"}
  BY <1>1 DEF TypeOK, ServerMoves, Servers
<1>2. CASE server.state = "exited"
  BY <1>2, Upped DEF TypeOK, ServerMoves
<1> QED
  BY <1>1, <1>2 DEF ServerMoves

LEMMA PairedStep == ASSUME Typed, Paired, [Next]_vars PROVE Paired'
<1> USE DEF Paired, RunsWhatIsRecorded, disk, search
<1>0. /\ server \in Servers /\ config \in Profiles /\ at \in Profiles
      /\ pc \in {"stop", "config", "record", "up", "wait", "check"} <=> pc \in Starting
  BY DEF Typed, TypeOK, Starting
<1>1. CASE Begin
  BY <1>1 DEF Begin
<1>2. CASE StopServer \/ RestoreStop
  BY <1>0, <1>2, Halted DEF StopServer, RestoreStop
<1>3. CASE WriteConfig \/ WriteRecord \/ RestoreConfig \/ RestoreRecord \/ ManualRecovery
  <2>1. CASE WriteConfig \/ WriteRecord
    <3>1. WriteRecord => record'.profile = at
      BY DEF WriteRecord
    <3> QED
      BY <2>1, <3>1 DEF WriteConfig, WriteRecord
  <2>2. CASE RestoreConfig \/ RestoreRecord
    BY <2>2 DEF RestoreConfig, RestoreRecord
  <2>3. CASE ManualRecovery
    BY <2>3 DEF ManualRecovery
  <2> QED
    BY <1>3, <2>1, <2>2, <2>3
<1>4. CASE ComposeUp \/ RestoreUp
  BY <1>0, <1>4, Upped DEF ComposeUp, RestoreUp
<1>5. CASE SeenHealthy \/ Check \/ RestoreWait
  BY <1>5 DEF SeenHealthy, Check, RestoreWait
<1>6. CASE Reject
  BY <1>0, <1>6, Halted, Upped DEF Reject, MayTakeEffect
<1>7. CASE Candidate \/ Rank \/ TryLarger \/ Select
  BY <1>7 DEF Candidate, Rank, TryLarger, Select, Launch, Throw
<1>8. CASE Evaluated
  BY <1>0, <1>8, Halted DEF Evaluated
<1>9. CASE Bounded
  BY <1>9 DEF Bounded
<1>10. CASE Unbounded
  BY <1>0, <1>10, Halted DEF Unbounded
<1>11. CASE FinalChecks
  BY <1>11 DEF FinalChecks, Throw
<1>12. CASE Deploy
  BY <1>12 DEF Deploy
<1>13. CASE SaveSelected \/ RestoreBegins \/ Restored
  BY <1>13 DEF SaveSelected, RestoreBegins, Restored, ProcessEnds
<1>14. CASE Succeed \/ SaveFails
  BY <1>14 DEF Succeed, SaveFails, ProcessEnds
<1>15. ASSUME NEW e \in {"failed", "interrupted"}, Abort(e) PROVE Paired'
  BY <1>0, <1>15, Halted, Upped DEF Abort, Throw, MayTakeEffect
<1>16. CASE RestoreFails \/ RestoreInterrupted
  BY <1>0, <1>16, Halted, Upped DEF RestoreFails, RestoreInterrupted, RestoreCommand, ProcessEnds
<1>17. CASE Kill
  BY <1>0, <1>17, Halted, Upped DEF Kill, MayTakeEffect, RestoreCommand, ProcessEnds
<1>18. CASE ServerMoves
  BY <1>18, Moved DEF ServerMoves, Typed
<1>19. CASE UNCHANGED vars
  BY <1>19 DEF vars
<1> QED
  BY <1>1, <1>2, <1>3, <1>4, <1>5, <1>6, <1>7, <1>8, <1>9, <1>10, <1>11, <1>12, <1>13, <1>14,
     <1>15, <1>16, <1>17, <1>18, <1>19 DEF Next, Step, Trouble

(* What the service runs, or would be restarted with, is what both files    *)
(* say, at every instant.                                                  *)
THEOREM RunsWhatIsRecordedAlways == Spec => []RunsWhatIsRecorded
<1>1. Init => Typed /\ Paired
  BY TypedInit, PairedInit
<1>2. (Typed /\ Paired) /\ [Next]_vars => (Typed /\ Paired)'
  BY TypedStep, PairedStep
<1>3. Paired => RunsWhatIsRecorded
  BY DEF Paired
<1>4. QED
  BY <1>1, <1>2, <1>3, PTL DEF Spec

-----------------------------------------------------------------------------
(* SelectedIsMeasured needs to know how a profile gets to be the winner: a  *)
(* candidate is tried at the boundary only after it passed, the winner      *)
(* passed both, and a larger one that fails is another profile.            *)
Measured ==
    /\ pc \in Trying /\ why \in {"boundary", "larger boundary", "final"} => at \in report.passed
    /\ pc \in Trying /\ why \in {"larger", "larger boundary", "final"}
          => winner \in report.passed \cap report.bounded
    /\ pc \in {"expand", "select", "deploy", "report", "saved"}
          => winner \in report.passed \cap report.bounded
    /\ pc \in Trying /\ why \in {"larger", "larger boundary"} => winner # at
    /\ pc \in Trying /\ why = "final" => at = winner
    /\ pc \in {"deploy", "report", "saved"} => at = winner /\ why = "final"

LEMMA LargerDiffers ==
    ASSUME NEW p \in Profiles, p[2] = "base"
    PROVE  p # <<p[1], "large">>
BY DEF Profiles, Sizes

LEMMA MeasuredInit == ASSUME Init PROVE Measured
BY DEF Init, Measured, Trying, Starting

LEMMA MeasuredStep == ASSUME Typed, Measured, [Next]_vars PROVE Measured'
<1> USE DEF Measured, Trying, Starting, disk, search
<1>0. report \in Reports /\ at \in Profiles /\ why \in {"matrix", "boundary", "larger", "larger boundary", "final"}
  BY DEF Typed, TypeOK
<1>1. CASE Begin
  BY <1>1 DEF Begin
<1>2. CASE StopServer \/ WriteConfig \/ WriteRecord \/ ComposeUp \/ SeenHealthy \/ Check
  BY <1>2 DEF StopServer, WriteConfig, WriteRecord, ComposeUp, SeenHealthy, Check
<1>3. CASE Reject
  BY <1>3 DEF Reject
<1>4. CASE Candidate
  BY <1>4 DEF Candidate, Launch
<1>5. CASE Rank
  BY <1>5 DEF Rank, Launch, Throw
<1>6. CASE Evaluated
  <2> DEFINE passed == IF pc = "passed" THEN report.passed \cup {at} ELSE report.passed
  <2>1. passed \in SUBSET Profiles
    BY <1>0 DEF Reports
  <2>2. report' = [report EXCEPT !.passed = passed]
    BY <1>6 DEF Evaluated, Save
  <2> HIDE DEF passed
  <2>3. report'.passed = passed /\ report'.bounded = report.bounded
    BY <1>0, <2>1, <2>2, PassedSet
  <2> QED
    BY <1>6, <2>3 DEF Evaluated, passed
<1>7. CASE Bounded
  <2>1. report.bounded \cup {at} \in SUBSET Profiles
    BY <1>0 DEF Reports
  <2>2. report'.passed = report.passed /\ report'.bounded = report.bounded \cup {at}
    BY <1>0, <1>7, <2>1, BoundedSet DEF Bounded
  <2> QED
    BY <1>7, <2>2 DEF Bounded
<1>8. CASE Unbounded
  <2>1. report.passed \ {at} \in SUBSET Profiles
    BY <1>0 DEF Reports
  <2>2. report'.passed = report.passed \ {at} /\ report'.bounded = report.bounded
    BY <1>0, <1>8, <2>1, PassedSet DEF Unbounded, Save
  <2> QED
    BY <1>8, <2>2 DEF Unbounded
<1>9. CASE TryLarger
  <2>1. winner[2] = "base" => winner # <<winner[1], "large">>
    BY LargerDiffers DEF Typed, TypeOK
  <2> QED
    BY <1>9, <2>1 DEF TryLarger, Launch
<1>10. CASE Select
  BY <1>10 DEF Select, Launch
<1>11. CASE FinalChecks
  BY <1>11 DEF FinalChecks, Throw
<1>12. CASE Deploy
  BY <1>12 DEF Deploy
<1>13. CASE SaveSelected
  BY <1>0, <1>13, StatusSet DEF SaveSelected, Save
<1>14. CASE Succeed \/ SaveFails \/ RestoreBegins \/ Restored \/ Kill
  BY <1>14 DEF Succeed, SaveFails, RestoreBegins, Restored, Kill, ProcessEnds
<1>15. ASSUME NEW e \in {"failed", "interrupted"}, Abort(e) PROVE Measured'
  BY <1>15 DEF Abort, Throw
<1>16. CASE RestoreFails \/ RestoreInterrupted
  BY <1>16 DEF RestoreFails, RestoreInterrupted, ProcessEnds
<1>17. CASE RestoreStop \/ RestoreConfig \/ RestoreRecord \/ RestoreUp \/ RestoreWait
  BY <1>17 DEF RestoreStop, RestoreConfig, RestoreRecord, RestoreUp, RestoreWait
<1>18. CASE ManualRecovery \/ ServerMoves
  BY <1>18 DEF ManualRecovery, ServerMoves
<1>19. CASE UNCHANGED vars
  BY <1>19 DEF vars
<1> QED
  BY <1>1, <1>2, <1>3, <1>4, <1>5, <1>6, <1>7, <1>8, <1>9, <1>10, <1>11, <1>12, <1>13, <1>14,
     <1>15, <1>16, <1>17, <1>18, <1>19 DEF Next, Step, Trouble

-----------------------------------------------------------------------------
(* The reports need to know which status a process may leave behind, where: *)
(* "selected" only with the winner running and on record, and "restored"    *)
(* only by a process that has put everything back.                         *)
Reported ==
    /\ pc \in Searching \ {"saved"} => report.status = "running" /\ summary.status = "running"
    /\ pc \in Restoring \cup {"restored"} => summary.status = "restoring"
    /\ pc = "saved" => summary.status = "selected"
    /\ pc = "abort" => summary.status \in {"running", "selected"}
    /\ pc \in {"report", "saved"} => record.by = "measured"
    /\ pc \in {"restore up", "restore wait"} => original.running
    /\ pc = "restore wait" => server.state # "stopped"
    /\ pc = "restored" => (server.state # "stopped" <=> original.running)

IsSelected ==
    summary.status = "selected" =>
        /\ pc \in {"saved", "abort", "down"}
        /\ record.by = "measured"
        /\ record.profile \in summary.passed \cap summary.bounded
        /\ server.state # "stopped"
        /\ pc = "abort" => why = "final"

IsRestored ==
    summary.status = "restored" =>
        /\ pc = "down"
        /\ record = original.record /\ config = original.record.profile
        /\ (server.state # "stopped") <=> original.running

Told == Reported /\ IsSelected /\ IsRestored

LEMMA ToldInit == ASSUME Init PROVE Told
BY DEF Init, Told, Reported, IsSelected, IsRestored, Fresh, Searching, Starting, Restoring

LEMMA ToldStep ==
    ASSUME Typed, Paired, Measured, Told, [Next]_vars
    PROVE  Told'
<1> USE DEF Told, Reported, IsSelected, IsRestored, Searching, Starting, Restoring, disk, search
<1>0. /\ server \in Servers /\ config \in Profiles /\ at \in Profiles
      /\ report \in Reports /\ why \in {"matrix", "boundary", "larger", "larger boundary", "final"}
  BY DEF Typed, TypeOK
<1>1. CASE Begin
  BY <1>1 DEF Begin, Save, Fresh
<1>2. CASE StopServer \/ RestoreStop
  BY <1>0, <1>2, Halted DEF StopServer, RestoreStop
<1>3. CASE WriteConfig \/ WriteRecord
  BY <1>3 DEF WriteConfig, WriteRecord
<1>4. CASE RestoreConfig \/ RestoreRecord
  BY <1>4 DEF RestoreConfig, RestoreRecord, Paired
<1>5. CASE ManualRecovery
  BY <1>5 DEF ManualRecovery, Paired, RunsWhatIsRecorded
<1>6. CASE ComposeUp \/ RestoreUp
  BY <1>0, <1>6, Upped DEF ComposeUp, RestoreUp
<1>7. CASE SeenHealthy \/ Check \/ RestoreWait
  BY <1>7 DEF SeenHealthy, Check, RestoreWait
<1>8. CASE Reject
  BY <1>0, <1>8, Halted, Upped DEF Reject, MayTakeEffect
<1>9. CASE Candidate \/ Rank \/ TryLarger \/ Select
  BY <1>9 DEF Candidate, Rank, TryLarger, Select, Launch, Throw
<1>10. CASE Evaluated
  <2>1. report'.status = report.status /\ summary' = report'
    BY <1>0, <1>10, PassedSet DEF Evaluated, Save, Reports
  <2> QED
    BY <1>10, <2>1 DEF Evaluated
<1>11. CASE Bounded
  <2>1. report'.status = report.status
    BY <1>0, <1>11, BoundedSet DEF Bounded, Reports
  <2> QED
    BY <1>11, <2>1 DEF Bounded
<1>12. CASE Unbounded
  <2>1. report.passed \ {at} \in SUBSET Profiles
    BY <1>0 DEF Reports
  <2>2. [report EXCEPT !.passed = report.passed \ {at}].status = report.status
    BY <1>0, <2>1, PassedSet
  <2>3. report'.status = report.status /\ (summary' = report' \/ summary' = summary)
    BY <1>12, <2>2 DEF Unbounded, Save
  <2> QED
    BY <1>12, <2>3 DEF Unbounded
<1>13. CASE FinalChecks
  BY <1>13 DEF FinalChecks, Throw
<1>14. CASE Deploy
  BY <1>14 DEF Deploy
<1>15. CASE SaveSelected
  <2>1. /\ summary'.status = "selected" /\ summary' = report'
        /\ summary'.passed = report.passed /\ summary'.bounded = report.bounded
    BY <1>0, <1>15, StatusSet DEF SaveSelected, Save
  <2>2. /\ record.profile \in report.passed \cap report.bounded
        /\ server.state # "stopped" /\ record.by = "measured"
    BY <1>15 DEF SaveSelected, Paired, Measured
  <2> QED
    BY <1>15, <2>1, <2>2 DEF SaveSelected
<1>16. CASE RestoreBegins
  <2>1. summary'.status = "restoring"
    BY <1>0, <1>16, StatusSet DEF RestoreBegins, Save
  <2> QED
    BY <1>16, <2>1 DEF RestoreBegins
<1>17. CASE Restored
  <2>1. summary'.status = "restored"
    BY <1>0, <1>17, StatusSet DEF Restored, Save
  <2> QED
    BY <1>17, <2>1 DEF Restored, ProcessEnds, Paired
<1>18. CASE Succeed \/ SaveFails
  BY <1>18 DEF Succeed, SaveFails, ProcessEnds
<1>19. ASSUME NEW e \in {"failed", "interrupted"}, Abort(e) PROVE Told'
  <2>1. pc = "saved" => why = "final"
    BY DEF Measured
  <2> QED
    BY <1>0, <1>19, <2>1 DEF Abort, Throw, MayTakeEffect
<1>20. CASE RestoreFails
  <2>1. summary'.status = "attention"
    BY <1>0, <1>20, StatusSet DEF RestoreFails, Save
  <2> QED
    BY <1>20, <2>1 DEF RestoreFails, ProcessEnds
<1>21. CASE RestoreInterrupted
  BY <1>21 DEF RestoreInterrupted, RestoreCommand, ProcessEnds
<1>22. CASE Kill
  BY <1>22 DEF Kill, MayTakeEffect, RestoreCommand, ProcessEnds
<1>23. CASE ServerMoves
  BY <1>23, Moved DEF ServerMoves, Typed
<1>24. CASE UNCHANGED vars
  BY <1>24 DEF vars
<1> QED
  BY <1>1, <1>2, <1>3, <1>4, <1>5, <1>6, <1>7, <1>8, <1>9, <1>10, <1>11, <1>12, <1>13, <1>14,
     <1>15, <1>16, <1>17, <1>18, <1>19, <1>20, <1>21, <1>22, <1>23, <1>24
     DEF Next, Step, Trouble

TunerInv == Typed /\ Paired /\ Measured /\ Told

LEMMA TunerInvariant == Spec => []TunerInv
<1>1. Init => TunerInv
  BY TypedInit, PairedInit, MeasuredInit, ToldInit DEF TunerInv
<1>2. TunerInv /\ [Next]_vars => TunerInv'
  BY TypedStep, PairedStep, MeasuredStep, ToldStep DEF TunerInv
<1>3. QED
  BY <1>1, <1>2, PTL DEF Spec

(* A run that reports the original restored has put back both files and     *)
(* whether the service was running.                                        *)
THEOREM RestoredMeansRestoredAlways == Spec => []RestoredMeansRestored
<1>1. TunerInv => RestoredMeansRestored
  <2> SUFFICES ASSUME TunerInv, summary.status = "restored"
               PROVE  /\ record = original.record /\ config = original.record.profile
                      /\ (server.state # "stopped") = original.running
    BY DEF RestoredMeansRestored
  <2>1. /\ record = original.record /\ config = original.record.profile
        /\ server.state # "stopped" <=> original.running
        /\ original.running \in BOOLEAN
    BY DEF TunerInv, Told, IsRestored, Typed, TypeOK, Originals
  <2> QED
    BY <2>1
<1>2. QED
  BY <1>1, TunerInvariant, PTL

(* A run that reports a selection has left it running and on record, and it *)
(* passed the trials and the context boundary.                             *)
THEOREM SelectedIsMeasuredAlways == Spec => []SelectedIsMeasured
<1>1. TunerInv => SelectedIsMeasured
  BY DEF TunerInv, Told, IsSelected, SelectedIsMeasured
<1>2. QED
  BY <1>1, TunerInvariant, PTL
=============================================================================
