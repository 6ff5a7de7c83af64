------------------------- MODULE ModelAttachProofs -------------------------
(***************************************************************************)
(* Proofs about ModelAttach, for any number of attaches, any limit on jobs,  *)
(* any download and any number of statements that fail.                      *)
(***************************************************************************)
EXTENDS ModelAttach, FiniteSetTheorems, TLAPS

\* How far the row of a can be when its handler is at a point.
RowInv(a) ==
  /\ asking[a] = "idle" => row[a].status = "none"
  /\ asking[a] \in {"idle", "queueing", "submitting"} => jobStatus[a] = "none"
  /\ jobStatus[a] \in {"none", "queued"} => point[a] = "idle" /\ Position(row[a]) <= 1
  /\ point[a] \notin {"idle", "returned"} => jobStatus[a] = "running"
  /\ point[a] = "runtime" => Position(row[a]) <= 1
  /\ point[a] \in {"disk", "begin"} => Position(row[a]) <= 2
  /\ point[a] = "loop" => Position(row[a]) <= 3 + pct[a]
  /\ point[a] \in {"profile", "write", "attach"} => Position(row[a]) <= 103
  /\ point[a] = "ready" => Position(row[a]) <= 104

\* Another attach has touched the file since a opened it.
Reused(a) == a \in reused /\ served # "absent"
Served(a) == served = a \/ Reused(a)

ServedInv(a) ==
  /\ row[a].status \in {"attached", "ready"} => Served(a)
  /\ point[a] = "write" => served = "empty" \/ Reused(a)
  /\ point[a] \in {"attach", "ready", "publish"} => Served(a)

Reached(a) == row[a].status = "ready" \/ a \in missed

\* A handler that returned no error with its context alive came to its end.
DoneInv(a) ==
  /\ jobStatus[a] = "complete" => Reached(a)
  /\ point[a] = "publish" => Reached(a)
  /\ point[a] = "returned" /\ over[a] = "no" /\ a \notin failed => Reached(a)

\* The attach a has queued the profile, and has not made it ready.
Unpublished(a) ==
  /\ asking[a] \notin {"idle", "queueing"}
  /\ \/ a \in missed
     \/ /\ jobStatus[a] # "complete"
        /\ point[a] = "returned" => over[a] # "no" \/ a \in failed

QueuedInv == profile = "queued" => \E a \in Attaches : Unpublished(a)

EachInv == \A a \in Attaches : RowInv(a) /\ ServedInv(a) /\ DoneInv(a)

AttachInv == AttachTypeOK /\ EachInv /\ QueuedInv

-----------------------------------------------------------------------------

\* Where the rows that are written stand among all that a row can say.
LEMMA RowsWritten ==
  /\ Position(Row("queued", 0)) = 1       /\ Row("queued", 0).status = "queued"
  /\ Position(Row("checking", 1)) = 2     /\ Row("checking", 1).status = "checking"
  /\ Position(Row("attached", 100)) = 104 /\ Row("attached", 100).status = "attached"
  /\ Position(Row("ready", 100)) = 105    /\ Row("ready", 100).status = "ready"
  /\ \A n \in 0 .. 100 : /\ Position(Row("downloading", n)) = 3 + n
                         /\ Row("downloading", n).status = "downloading"
BY DEF Row, Position

LEMMA PositionRange ==
  ASSUME NEW r \in [status : RowStatuses, progress : 0 .. 100]
  PROVE  /\ Position(r) \in 0 .. 105
         /\ r.status = "none" => Position(r) = 0
BY DEF Position, RowStatuses

\* What a statement may do to the tables.
LEMMA UpdateRow ==
  ASSUME NEW a \in Attaches, NEW status, NEW n, Update(a, status, n)
  PROVE  /\ profile' = profile
         /\ missed' \in {missed, missed \cup {a}}
         /\ \/ row' = [row EXCEPT ![a] = Row(status, n)] /\ missed' = missed
            \/ row' = row /\ missed' = missed \cup {a}
BY DEF Update, Statement

LEMMA FinishMoves ==
  ASSUME AttachTypeOK, NEW a \in Attaches, FinishJob(a)
  PROVE  /\ jobStatus[a] \in {"queued", "running"}
         /\ Outcome(a) \in Life!Terminal
         /\ jobStatus' = [jobStatus EXCEPT ![a] = Outcome(a)]
<1>1. PICK s \in Life!Terminal : jobStatus' = [jobStatus EXCEPT ![a] = s]
  BY DEF FinishJob, Life!End, Life!Terminal
<1>2. jobStatus'[a] = s
  BY <1>1 DEF AttachTypeOK
<1> QED BY <1>1, <1>2 DEF FinishJob, Life!End

LEMMA AttachInitInv == AttachInit => AttachInv
BY DEF AttachInit, AttachInv, AttachTypeOK, EachInv, QueuedInv, RowInv, ServedInv, DoneInv,
       Reached, Ended, Life!Terminal, Life!Init, Row, RowStatuses, Position

-----------------------------------------------------------------------------
(* Types *)

Tabled ==
  /\ row \in [Attaches -> [status : RowStatuses, progress : 0 .. 100]]
  /\ profile \in {"profile_only", "queued", "ready"}
  /\ missed \subseteq Attaches

LEMMA UpdateTypes ==
  ASSUME Tabled, NEW a \in Attaches, NEW status \in RowStatuses, NEW n \in 0 .. 100,
         Update(a, status, n)
  PROVE  Tabled'
<1>1. Row(status, n) \in [status : RowStatuses, progress : 0 .. 100]
  BY DEF Row
<1>2. row' \in {row, [row EXCEPT ![a] = Row(status, n)]}
  BY UpdateRow
<1>3. row' \in [Attaches -> [status : RowStatuses, progress : 0 .. 100]]
  BY <1>1, <1>2 DEF Tabled
<1> QED BY <1>3, UpdateRow DEF Tabled

Steps == {"idle", "runtime", "disk", "begin", "loop", "profile", "write", "attach",
          "ready", "publish", "returned"}

FileTypeOK == served \in {"absent", "empty", "torn"} \cup Attaches /\ reused \subseteq Attaches

LEMMA AtTypes ==
  ASSUME point \in [Attaches -> Steps], NEW a \in Attaches, NEW here, NEW next \in Steps,
         At(a, here, next)
  PROVE  point' \in [Attaches -> Steps]
BY DEF At

LEMMA TypeStep ==
  ASSUME AttachTypeOK, [AttachNext]_attachVars
  PROVE  AttachTypeOK'
<1> USE AttachAssumption
    DEF AttachTypeOK, FileTypeOK, attachJobVars, tableVars, fileVars, Row, RowStatuses, Ended,
        Life!Terminal
<1>1. ASSUME NEW a \in Attaches, RequestStep(a) PROVE AttachTypeOK'
  <2>1. CASE InsertRow(a)
    BY <2>1 DEF InsertRow, Goes, Order
  <2>2. CASE QueueProfile(a)
    BY <2>2 DEF QueueProfile, Goes, Order, SetProfile, Statement
  <2>3. CASE SubmitJob(a)
    BY <2>3 DEF SubmitJob, Goes, Order, Life!Submit
  <2>4. CASE AbandonRequest(a)
    BY <2>4 DEF AbandonRequest
  <2>5. CASE LinkJob(a)
    BY <2>5 DEF LinkJob, Goes, Order, Statement, LinkLeaves
  <2> QED BY <1>1, <2>1, <2>2, <2>3, <2>4, <2>5 DEF RequestStep
<1>2. ASSUME NEW a \in Attaches, AttachStep(a) PROVE AttachTypeOK'
  <2>0. Tabled /\ {"checking", "downloading", "attached", "ready"} \subseteq RowStatuses
    BY DEF Tabled
  <2>11. ASSUME NEW here, NEW next \in Steps, At(a, here, next), Tabled',
                pct' \in [Attaches -> 0 .. 100], failed' \subseteq Attaches,
                FileTypeOK'
         PROVE AttachTypeOK'
    <3>1. point' \in [Attaches -> Steps]
      BY <2>11, AtTypes DEF Steps
    <3> QED BY <2>11, <3>1 DEF At, Steps, Tabled, FileTypeOK
  <2> HIDE DEF Row, RowStatuses, Ended, Life!Terminal
  <2>1. CASE CheckRuntime(a)
    <3>1. Tabled'
      BY <2>0, <2>1, UpdateTypes DEF CheckRuntime
    <3> QED BY <2>1, <2>11, <3>1 DEF CheckRuntime, Steps
  <2>2. CASE WaitCutShort(a)
    BY <2>2 DEF WaitCutShort, At
  <2>3. CASE DiskCheckFails(a) \/ OpenFails(a) \/ WriteFails(a)
    BY <2>3 DEF DiskCheckFails, OpenFails, WriteFails, Fails, Touch, Waited, At, AfterFailure
  <2>4. CASE CheckDisk(a)
    BY <2>4 DEF CheckDisk, Waited, At
  <2>5. CASE BeginDownload(a)
    <3>1. Tabled'
      BY <2>0, <2>5, UpdateTypes DEF BeginDownload
    <3>2. pct' \in [Attaches -> 0 .. 100] /\ UNCHANGED <<failed, fileVars>>
      BY <2>5 DEF BeginDownload
    <3>3. At(a, "begin", "loop") /\ "loop" \in Steps
      BY <2>5 DEF BeginDownload, Waited, Steps
    <3> QED BY <2>11, <3>1, <3>2, <3>3
  <2>6. ASSUME NEW n \in Further(pct[a]), Download(a),
               Waited(a, "loop", IF n = 100 THEN "profile" ELSE "loop"),
               pct' = [pct EXCEPT ![a] = n],
               Update(a, "downloading", n),
               UNCHANGED <<failed, fileVars>>
        PROVE AttachTypeOK'
    <3>1. n \in 0 .. 100
      BY DEF Further
    <3>2. Tabled'
      BY <2>0, <2>6, <3>1, UpdateTypes
    <3>3. pct' \in [Attaches -> 0 .. 100] /\ UNCHANGED <<failed, fileVars>>
      BY <2>6, <3>1
    <3>4. PICK next \in Steps : At(a, "loop", next)
      BY <2>6 DEF Waited, Steps
    <3> QED BY <2>11, <3>2, <3>3, <3>4
  <2>7. CASE OpenServingProfile(a) \/ WriteServingProfile(a)
    BY <2>7 DEF OpenServingProfile, WriteServingProfile, Touch, Waited, At
  <2>8. CASE MarkAttached(a)
    <3>1. Tabled'
      BY <2>0, <2>8, UpdateTypes DEF MarkAttached
    <3> QED BY <2>8, <2>11, <3>1 DEF MarkAttached, Waited, Steps
  <2>9. CASE MarkReady(a)
    <3>1. Tabled'
      BY <2>0, <2>9, UpdateTypes DEF MarkReady
    <3> QED BY <2>9, <2>11, <3>1 DEF MarkReady, Steps
  <2>10. CASE PublishProfile(a)
    BY <2>10 DEF PublishProfile, At, SetProfile, Statement
  <2> QED BY <1>2, <2>1, <2>2, <2>3, <2>4, <2>5, <2>6, <2>7, <2>8, <2>9, <2>10
          DEF AttachStep, Download
<1>3. ASSUME NEW a \in Attaches, ManagerStep(a) PROVE AttachTypeOK'
  <2>1. CASE StartJob(a)
    BY <2>1 DEF StartJob, Life!Start
  <2>2. CASE FinishJob(a)
    <3>1. PICK s \in Life!Terminal : jobStatus' = [jobStatus EXCEPT ![a] = s]
      BY <2>2, FinishMoves
    <3>2. jobStatus' \in [Attaches -> {"none", "queued", "running"} \cup Ended]
      BY <3>1
    <3> QED BY <2>2, <3>2 DEF FinishJob
  <2> QED BY <1>3, <2>1, <2>2 DEF ManagerStep
<1>4. ASSUME NEW a \in Attaches, EndContext(a) PROVE AttachTypeOK'
  BY <1>4 DEF EndContext
<1>5. CASE Crash
  BY <1>5 DEF Crash, Life!Lose
<1>6. CASE UNCHANGED attachVars
  BY <1>6 DEF attachVars
<1> QED BY <1>1, <1>2, <1>3, <1>4, <1>5, <1>6 DEF AttachNext

-----------------------------------------------------------------------------
(* One attach *)

\* A step of one attach leaves the others as they are.
LEMMA OthersStay ==
  ASSUME AttachTypeOK, NEW a \in Attaches, NEW b \in Attaches, a # b,
         RequestStep(a) \/ AttachStep(a) \/ ManagerStep(a) \/ EndContext(a)
  PROVE  /\ jobStatus'[b] = jobStatus[b] /\ asking'[b] = asking[b]
         /\ over'[b] = over[b] /\ point'[b] = point[b]
         /\ pct'[b] = pct[b] /\ row'[b] = row[b]
         /\ b \in failed' <=> b \in failed
         /\ b \in missed' <=> b \in missed
<1> USE DEF AttachTypeOK, attachJobVars, tableVars, fileVars
<1>1. CASE RequestStep(a)
  BY <1>1 DEF RequestStep, InsertRow, QueueProfile, SubmitJob, AbandonRequest, LinkJob, Goes,
              SetProfile, Statement, LinkLeaves, Life!Submit
<1>2. CASE AttachStep(a)
  BY <1>2 DEF AttachStep, CheckRuntime, WaitCutShort, DiskCheckFails, OpenFails, WriteFails,
              Fails, CheckDisk, BeginDownload, Download, OpenServingProfile,
              WriteServingProfile, MarkAttached, MarkReady, PublishProfile, Waited, At, Update,
              SetProfile, Statement
<1>3. CASE StartJob(a)
  BY <1>3 DEF StartJob, Life!Start
<1>4. CASE FinishJob(a)
  BY <1>4, FinishMoves DEF FinishJob
<1>5. CASE EndContext(a)
  BY <1>5 DEF EndContext
<1> QED BY <1>1, <1>2, <1>3, <1>4, <1>5 DEF ManagerStep

\* A step of the handler of a, as the invariant of a sees it.
Moved(a, here, next) ==
  /\ point[a] = here /\ point'[a] = next
  /\ jobStatus'[a] = jobStatus[a] /\ asking'[a] = asking[a] /\ over'[a] = over[a]

LEMMA AtMoves ==
  ASSUME AttachTypeOK, NEW a \in Attaches, NEW here, NEW next, At(a, here, next)
  PROVE  Moved(a, here, next)
BY DEF AttachTypeOK, At, Moved

EachOf(a) == RowInv(a) /\ ServedInv(a) /\ DoneInv(a)
Advances(a) == Position(row'[a]) >= Position(row[a])

LEMMA RequestEach ==
  ASSUME AttachTypeOK, NEW a \in Attaches, EachOf(a), RequestStep(a)
  PROVE  EachOf(a)' /\ Advances(a)
<1> USE DEF AttachTypeOK, EachOf, Advances, RowInv, ServedInv, Served, Reused, DoneInv,
            Reached, attachJobVars, tableVars, fileVars, Goes, Order
<1>0. /\ row[a] \in [status : RowStatuses, progress : 0 .. 100]
      /\ Position(row[a]) \in 0 .. 105
      /\ row[a].status = "none" => Position(row[a]) = 0
  BY PositionRange
<1>1. CASE InsertRow(a)
  <2>1. Position(Row("queued", 0)) = 1 /\ Row("queued", 0).status = "queued"
    BY RowsWritten
  <2>2. row'[a] = Row("queued", 0)
    BY <1>1 DEF InsertRow
  <2>3. /\ asking[a] = "idle" /\ asking'[a] = "queueing"
        /\ point' = point /\ pct' = pct /\ jobStatus' = jobStatus /\ over' = over
        /\ failed' = failed /\ served' = served /\ reused' = reused /\ missed' = missed
    BY <1>1 DEF InsertRow
  <2>4. point[a] = "idle" /\ jobStatus[a] = "none" /\ Position(row[a]) = 0
    BY <1>0, <2>3
  <2> HIDE DEF AttachTypeOK, Goes, Order
  <2>11. Advances(a)
    BY <2>1, <2>2, <2>3, <2>4
  <2>12. RowInv(a)'
    BY <2>1, <2>2, <2>3, <2>4
  <2>13. ServedInv(a)' /\ DoneInv(a)'
    BY <2>1, <2>2, <2>3, <2>4
  <2> QED BY <2>11, <2>12, <2>13
<1>2. CASE QueueProfile(a)
  BY <1>0, <1>2 DEF QueueProfile, SetProfile, Statement
<1>3. CASE SubmitJob(a)
  BY <1>0, <1>3 DEF SubmitJob, Life!Submit
<1>4. CASE AbandonRequest(a)
  BY <1>0, <1>4 DEF AbandonRequest
<1>5. CASE LinkJob(a)
  BY <1>0, <1>5 DEF LinkJob, Statement, LinkLeaves
<1> QED BY <1>1, <1>2, <1>3, <1>4, <1>5 DEF RequestStep

LEMMA HandlerEach ==
  ASSUME AttachTypeOK, NEW a \in Attaches, EachOf(a), AttachStep(a)
  PROVE  EachOf(a)' /\ Advances(a)
<1> USE DEF AttachTypeOK, EachOf, Advances, RowInv, ServedInv, Served, Reused, DoneInv,
            Reached, tableVars, fileVars
<1>0. /\ row[a] \in [status : RowStatuses, progress : 0 .. 100]
      /\ Position(row[a]) \in 0 .. 105
  BY PositionRange
<1>1. CASE CheckRuntime(a)
  <2>1. Position(Row("checking", 1)) = 2 /\ Row("checking", 1).status = "checking"
    BY RowsWritten
  <2>2. row'[a] \in {row[a], Row("checking", 1)}
    BY <1>1, UpdateRow DEF CheckRuntime
  <2>3. missed \subseteq missed'
    BY <1>1, UpdateRow DEF CheckRuntime
  <2>8. /\ Moved(a, "runtime", "disk")
        /\ failed' = failed /\ served' = served /\ reused' = reused
    BY <1>1, AtMoves DEF CheckRuntime
  <2> HIDE DEF AttachTypeOK
  <2>11. Advances(a)
    BY <1>0, <2>1, <2>2, <2>3, <2>8 DEF Moved
  <2>12. RowInv(a)'
    BY <1>0, <2>1, <2>2, <2>3, <2>8 DEF Moved
  <2>13. ServedInv(a)' /\ DoneInv(a)'
    BY <1>0, <2>1, <2>2, <2>3, <2>8 DEF Moved
  <2> QED BY <2>11, <2>12, <2>13
<1>2. CASE WaitCutShort(a)
  BY <1>0, <1>2 DEF WaitCutShort, At
<1>3. CASE DiskCheckFails(a) \/ OpenFails(a) \/ WriteFails(a)
  <2>1. \E here \in {"disk", "profile", "write"} : Moved(a, here, "returned")
    BY <1>3, AtMoves DEF DiskCheckFails, OpenFails, WriteFails, Fails, Waited, AfterFailure
  <2>2. /\ row' = row /\ pct' = pct /\ missed' = missed /\ a \in failed'
        /\ UNCHANGED fileVars \/ WriteFails(a)
    BY <1>3 DEF DiskCheckFails, OpenFails, WriteFails, Fails
  <2>3. row[a].status \notin {"attached", "ready"}
    BY <1>0, <2>1 DEF Moved, Position
  <2> HIDE DEF AttachTypeOK
  <2> QED BY <1>0, <2>1, <2>2, <2>3 DEF Moved
<1>4. CASE CheckDisk(a)
  BY <1>0, <1>4 DEF CheckDisk, Waited, At
<1>5. CASE BeginDownload(a)
  <2>1. /\ Position(Row("downloading", 0)) = 3
        /\ Row("downloading", 0).status = "downloading"
    BY RowsWritten
  <2>2. row'[a] \in {row[a], Row("downloading", 0)} /\ missed \subseteq missed'
    BY <1>5, UpdateRow DEF BeginDownload
  <2>3. pct'[a] = 6
    BY <1>5 DEF BeginDownload
  <2>8. /\ Moved(a, "begin", "loop")
        /\ failed' = failed /\ served' = served /\ reused' = reused
    BY <1>5, AtMoves DEF BeginDownload, Waited
  <2> HIDE DEF AttachTypeOK
  <2>11. Advances(a)
    BY <1>0, <2>1, <2>2, <2>3, <2>8 DEF Moved
  <2>12. RowInv(a)'
    BY <1>0, <2>1, <2>2, <2>3, <2>8 DEF Moved
  <2>13. ServedInv(a)' /\ DoneInv(a)'
    BY <1>0, <2>1, <2>2, <2>3, <2>8 DEF Moved
  <2> QED BY <2>11, <2>12, <2>13
<1>6. CASE Download(a)
  <2>1. PICK n \in Further(pct[a]) :
          /\ Waited(a, "loop", IF n = 100 THEN "profile" ELSE "loop")
          /\ pct' = [pct EXCEPT ![a] = n]
          /\ Update(a, "downloading", n)
          /\ UNCHANGED <<failed, fileVars>>
    BY <1>6 DEF Download
  <2>2. n \in 0 .. 100 /\ n > pct[a] /\ pct[a] \in 0 .. 100
    BY AttachAssumption DEF Further
  <2>3. /\ Position(Row("downloading", n)) = 3 + n
        /\ Row("downloading", n).status = "downloading"
    BY <2>2, RowsWritten, SMTT(30)
  <2>4. row'[a] \in {row[a], Row("downloading", n)} /\ missed \subseteq missed'
    BY <2>1, UpdateRow
  <2>5. pct'[a] = n
    BY <2>1
  <2>8. /\ Moved(a, "loop", IF n = 100 THEN "profile" ELSE "loop")
        /\ failed' = failed /\ served' = served /\ reused' = reused
    BY <2>1, AtMoves DEF Waited
  <2> HIDE DEF AttachTypeOK
  <2>11. Advances(a)
    BY <1>0, <2>1, <2>2, <2>3, <2>4, <2>5, <2>8 DEF Moved
  <2>12. RowInv(a)'
    BY <1>0, <2>1, <2>2, <2>3, <2>4, <2>5, <2>8 DEF Moved
  <2>13. ServedInv(a)' /\ DoneInv(a)'
    BY <1>0, <2>1, <2>2, <2>3, <2>4, <2>5, <2>8 DEF Moved
  <2> QED BY <2>11, <2>12, <2>13
<1>7. CASE OpenServingProfile(a) \/ WriteServingProfile(a)
  <2>1. Moved(a, "profile", "write") \/ Moved(a, "write", "attach")
    BY <1>7, AtMoves DEF OpenServingProfile, WriteServingProfile, Waited
  <2>2. row' = row /\ pct' = pct /\ missed' = missed /\ failed' = failed
    BY <1>7 DEF OpenServingProfile, WriteServingProfile
  <2>3. row[a].status \notin {"attached", "ready"}
    BY <1>0, <2>1 DEF Moved, Position
  <2>4. CASE OpenServingProfile(a)
    BY <1>0, <2>2, <2>3, <2>4, AtMoves DEF OpenServingProfile, Waited, Moved
  <2>5. CASE WriteServingProfile(a)
    <3>1. Served(a)'
      <4>1. CASE served = "empty"
        BY <2>5, <4>1 DEF WriteServingProfile
      <4>2. CASE served # "empty"
        <5>1. a \in reused' /\ served' \in {a, "torn"}
          BY <2>5, <4>2 DEF WriteServingProfile, Touch, At
        <5> QED BY <5>1
      <4> QED BY <4>1, <4>2
    <3>2. Moved(a, "write", "attach")
      BY <2>5, AtMoves DEF WriteServingProfile
    <3> HIDE DEF AttachTypeOK, Served
    <3> QED BY <1>0, <2>2, <2>3, <3>1, <3>2 DEF Moved
  <2> QED BY <1>7, <2>4, <2>5
<1>8. CASE MarkAttached(a)
  <2>1. Position(Row("attached", 100)) = 104 /\ Row("attached", 100).status = "attached"
    BY RowsWritten
  <2>2. row'[a] \in {row[a], Row("attached", 100)} /\ missed \subseteq missed'
    BY <1>8, UpdateRow DEF MarkAttached
  <2>8. /\ Moved(a, "attach", "ready")
        /\ failed' = failed /\ served' = served /\ reused' = reused
    BY <1>8, AtMoves DEF MarkAttached, Waited
  <2> HIDE DEF AttachTypeOK
  <2>11. Advances(a)
    BY <1>0, <2>1, <2>2, <2>8 DEF Moved
  <2>12. RowInv(a)'
    BY <1>0, <2>1, <2>2, <2>8 DEF Moved
  <2>13. ServedInv(a)' /\ DoneInv(a)'
    BY <1>0, <2>1, <2>2, <2>8 DEF Moved
  <2> QED BY <2>11, <2>12, <2>13
<1>9. CASE MarkReady(a)
  <2>1. Position(Row("ready", 100)) = 105 /\ Row("ready", 100).status = "ready"
    BY RowsWritten
  <2>2. /\ row'[a] = Row("ready", 100) \/ (row'[a] = row[a] /\ a \in missed')
        /\ missed \subseteq missed'
    BY <1>9, UpdateRow DEF MarkReady
  <2>8. /\ Moved(a, "ready", "publish")
        /\ failed' = failed /\ served' = served /\ reused' = reused
    BY <1>9, AtMoves DEF MarkReady
  <2> HIDE DEF AttachTypeOK
  <2>11. Advances(a)
    BY <1>0, <2>1, <2>2, <2>8 DEF Moved
  <2>12. RowInv(a)'
    BY <1>0, <2>1, <2>2, <2>8 DEF Moved
  <2>13. ServedInv(a)' /\ DoneInv(a)'
    BY <1>0, <2>1, <2>2, <2>8 DEF Moved
  <2> QED BY <2>11, <2>12, <2>13
<1>10. CASE PublishProfile(a)
  BY <1>0, <1>10 DEF PublishProfile, At, SetProfile, Statement
<1> QED BY <1>1, <1>2, <1>3, <1>4, <1>5, <1>6, <1>7, <1>8, <1>9, <1>10 DEF AttachStep

LEMMA ManagerEach ==
  ASSUME AttachTypeOK, NEW a \in Attaches, EachOf(a), ManagerStep(a) \/ EndContext(a)
  PROVE  EachOf(a)' /\ Advances(a)
<1> USE DEF AttachTypeOK, EachOf, Advances, RowInv, ServedInv, Served, Reused, DoneInv,
            Reached, attachJobVars, tableVars, fileVars
<1>0. Position(row[a]) \in 0 .. 105
  BY PositionRange
<1>1. CASE StartJob(a)
  BY <1>0, <1>1 DEF StartJob, Life!Start
<1>2. CASE FinishJob(a)
  <2>1. jobStatus'[a] = Outcome(a) /\ Outcome(a) \in Life!Terminal
    BY <1>2, FinishMoves
  <2>2. point[a] \in {"idle", "returned"}
    BY <1>2 DEF FinishJob
  <2>3. Outcome(a) = "complete" => Reached(a)
    BY <1>2 DEF FinishJob, Outcome
  <2> QED BY <1>0, <1>2, <2>1, <2>2, <2>3 DEF FinishJob, Life!Terminal
<1>3. CASE EndContext(a)
  BY <1>0, <1>3 DEF EndContext
<1> QED BY <1>1, <1>2, <1>3 DEF ManagerStep

\* A step of one attach that touches the file leaves the others a file that was reused.
LEMMA FileOfOthers ==
  ASSUME AttachTypeOK, NEW a \in Attaches, NEW b \in Attaches, a # b, ServedInv(a),
         RequestStep(a) \/ AttachStep(a) \/ ManagerStep(a) \/ EndContext(a)
  PROVE  UNCHANGED fileVars \/ Reused(b)'
<1> USE DEF fileVars, Reused
<1>1. CASE RequestStep(a)
  BY <1>1 DEF RequestStep, InsertRow, QueueProfile, SubmitJob, AbandonRequest, LinkJob
<1>2. CASE OpenServingProfile(a)
  BY <1>2 DEF OpenServingProfile
<1>3. CASE WriteServingProfile(a)
  BY <1>3, AttachAssumption DEF WriteServingProfile, Touch
<1>4. CASE WriteFails(a)
  BY <1>4 DEF WriteFails, Fails, Touch, At, ServedInv
<1>5. CASE AttachStep(a) /\ ~OpenServingProfile(a) /\ ~WriteServingProfile(a) /\ ~WriteFails(a)
  BY <1>5 DEF AttachStep, CheckRuntime, WaitCutShort, DiskCheckFails, CheckDisk, BeginDownload,
              Download, OpenFails, MarkAttached, MarkReady, PublishProfile
<1>6. CASE ManagerStep(a) \/ EndContext(a)
  BY <1>6 DEF ManagerStep, StartJob, FinishJob, EndContext
<1> QED BY <1>1, <1>2, <1>3, <1>4, <1>5, <1>6

\* A step keeps what the invariant says of every attach, and takes no row back.
LEMMA EachStep ==
  ASSUME AttachTypeOK, EachInv, [AttachNext]_attachVars
  PROVE  EachInv' /\ \A b \in Attaches : Advances(b)
<1>1. SUFFICES ASSUME NEW b \in Attaches PROVE EachOf(b)' /\ Advances(b)
  BY DEF EachInv, EachOf
<1>2. EachOf(b) /\ Position(row[b]) \in 0 .. 105
  BY PositionRange DEF EachInv, EachOf, AttachTypeOK
<1>3. ASSUME NEW a \in Attaches,
             RequestStep(a) \/ AttachStep(a) \/ ManagerStep(a) \/ EndContext(a)
      PROVE EachOf(b)' /\ Advances(b)
  <2>1. CASE a = b
    BY <1>2, <1>3, <2>1, RequestEach, HandlerEach, ManagerEach
  <2>2. CASE a # b
    <3>1. ServedInv(a)
      BY DEF EachInv
    <3>2. UNCHANGED fileVars \/ Reused(b)'
      BY <1>3, <2>2, <3>1, FileOfOthers
    <3>3. ServedInv(b)'
      BY <1>2, <1>3, <2>2, <3>2, OthersStay
         DEF EachOf, ServedInv, Served, Reused, fileVars
    <3>4. RowInv(b)' /\ DoneInv(b)' /\ Advances(b)
      BY <1>2, <1>3, <2>2, OthersStay DEF EachOf, Advances, RowInv, DoneInv, Reached
    <3> QED BY <3>3, <3>4 DEF EachOf
  <2> QED BY <2>1, <2>2
<1>4. CASE Crash
  BY <1>2, <1>4
     DEF Crash, Life!Lose, tableVars, fileVars, AttachTypeOK, EachOf, Advances, RowInv,
         ServedInv, Served, Reused, DoneInv, Reached
<1>5. CASE UNCHANGED attachVars
  BY <1>2, <1>5
     DEF attachVars, attachJobVars, tableVars, fileVars, EachOf, Advances, RowInv, ServedInv,
         Served,
         Reused, DoneInv, Reached
<1> QED BY <1>3, <1>4, <1>5 DEF AttachNext

-----------------------------------------------------------------------------
(* The profile *)

\* An attach that has queued the profile stays its explanation until it publishes it.
LEMMA UnpublishedStays ==
  ASSUME AttachTypeOK, EachInv, NEW a \in Attaches, NEW b \in Attaches, Unpublished(b),
         RequestStep(a) \/ AttachStep(a) \/ ManagerStep(a) \/ EndContext(a)
  PROVE  Unpublished(b)' \/ profile' = "ready"
<1> USE DEF Unpublished
<1>1. CASE a # b
  BY <1>1, OthersStay
<1>2. CASE a = b /\ RequestStep(a)
  BY <1>2
     DEF AttachTypeOK, EachInv, RowInv, RequestStep, InsertRow, QueueProfile, SubmitJob,
         AbandonRequest, LinkJob, Goes, Order, SetProfile, Statement, LinkLeaves, Life!Submit,
         attachJobVars, tableVars, fileVars
<1>3. CASE a = b /\ AttachStep(a)
  <2> USE DEF AttachTypeOK, At, Waited, tableVars, fileVars
  <2>1. CASE PublishProfile(a)
    <3>1. profile' = "ready" \/ a \in missed'
      BY <2>1 DEF PublishProfile, SetProfile, Statement
    <3> QED BY <1>3, <2>1, <3>1 DEF PublishProfile
  <2>2. CASE WaitCutShort(a)
    BY <1>3, <2>2 DEF WaitCutShort
  <2>3. CASE DiskCheckFails(a) \/ OpenFails(a) \/ WriteFails(a)
    BY <1>3, <2>3 DEF DiskCheckFails, OpenFails, WriteFails, Fails
  <2>4. CASE CheckRuntime(a) \/ CheckDisk(a)
    BY <1>3, <2>4, UpdateRow DEF CheckRuntime, CheckDisk
  <2>5. CASE BeginDownload(a)
    BY <1>3, <2>5, UpdateRow DEF BeginDownload
  <2>6. CASE Download(a)
    <3>1. PICK n : Waited(a, "loop", IF n = 100 THEN "profile" ELSE "loop")
                   /\ Update(a, "downloading", n) /\ UNCHANGED <<failed, fileVars>>
      BY <2>6 DEF Download
    <3> QED BY <1>3, <3>1, UpdateRow
  <2>7. CASE OpenServingProfile(a) \/ WriteServingProfile(a)
    BY <1>3, <2>7 DEF OpenServingProfile, WriteServingProfile
  <2>8. CASE MarkAttached(a) \/ MarkReady(a)
    BY <1>3, <2>8, UpdateRow DEF MarkAttached, MarkReady
  <2> QED BY <1>3, <2>1, <2>2, <2>3, <2>4, <2>5, <2>6, <2>7, <2>8 DEF AttachStep
<1>4. CASE a = b /\ StartJob(a)
  BY <1>4 DEF AttachTypeOK, StartJob, Life!Start, tableVars, fileVars
<1>5. CASE a = b /\ FinishJob(a)
  <2>1. jobStatus'[a] = Outcome(a)
    BY <1>5 DEF FinishJob
  <2>2. /\ asking' = asking /\ over' = over /\ point' = point /\ failed' = failed
        /\ missed' = missed
    BY <1>5 DEF FinishJob, attachJobVars, tableVars, fileVars
  <2>3. over[a] = "no" => point[a] = "returned"
    BY <1>5 DEF FinishJob
  <2>4. over[a] \in {"no", "expired", "cancelled"}
    BY DEF AttachTypeOK
  <2> QED BY <1>5, <2>1, <2>2, <2>3, <2>4 DEF Outcome
<1>6. CASE a = b /\ EndContext(a)
  BY <1>6 DEF AttachTypeOK, EndContext, attachJobVars, tableVars, fileVars
<1> QED BY <1>1, <1>2, <1>3, <1>4, <1>5, <1>6 DEF ManagerStep

LEMMA QueuedStep ==
  ASSUME AttachTypeOK, EachInv, QueuedInv, [AttachNext]_attachVars
  PROVE  QueuedInv'
<1>1. SUFFICES ASSUME profile' = "queued" PROVE \E b \in Attaches : Unpublished(b)'
  BY DEF QueuedInv
<1>2. CASE profile # "queued"
  <2>1. PICK a \in Attaches : QueueProfile(a)
    <3>1. CASE \E a \in Attaches : RequestStep(a)
      BY <1>1, <1>2, <3>1
         DEF RequestStep, InsertRow, SubmitJob, AbandonRequest, LinkJob, Statement, tableVars,
             fileVars
    <3>2. CASE \E a \in Attaches : AttachStep(a)
      BY <1>1, <1>2, <3>2, UpdateRow
         DEF AttachStep, CheckRuntime, WaitCutShort, DiskCheckFails, OpenFails, WriteFails,
             Fails, CheckDisk, BeginDownload, Download, OpenServingProfile,
             WriteServingProfile, MarkAttached, MarkReady, PublishProfile, SetProfile,
             Statement, tableVars, fileVars
    <3>3. CASE \E a \in Attaches : ManagerStep(a) \/ EndContext(a)
      BY <1>1, <1>2, <3>3 DEF ManagerStep, StartJob, FinishJob, EndContext, tableVars, fileVars
    <3>4. CASE Crash \/ UNCHANGED attachVars
      BY <1>1, <1>2, <3>4 DEF Crash, attachVars, tableVars, fileVars
    <3> QED BY <3>1, <3>2, <3>3, <3>4 DEF AttachNext
  <2>2. /\ asking[a] = "queueing" /\ asking'[a] = "submitting"
        /\ jobStatus' = jobStatus /\ point' = point
    BY <2>1 DEF QueueProfile, Goes, Order, AttachTypeOK, attachJobVars
  <2>3. jobStatus[a] = "none" /\ point[a] = "idle"
    BY <2>2 DEF EachInv, RowInv
  <2>4. Unpublished(a)'
    BY <2>2, <2>3 DEF Unpublished
  <2> QED BY <2>4
<1>3. CASE profile = "queued"
  <2>1. PICK b \in Attaches : Unpublished(b)
    BY <1>3 DEF QueuedInv
  <2>2. ASSUME NEW a \in Attaches,
               RequestStep(a) \/ AttachStep(a) \/ ManagerStep(a) \/ EndContext(a)
        PROVE Unpublished(b)'
    BY <1>1, <2>1, <2>2, UnpublishedStays
  <2>3. CASE Crash
    BY <2>1, <2>3 DEF Crash, Life!Lose, AttachTypeOK, Unpublished, tableVars, fileVars
  <2>4. CASE UNCHANGED attachVars
    BY <2>1, <2>4 DEF attachVars, attachJobVars, tableVars, fileVars, Unpublished
  <2> QED BY <2>2, <2>3, <2>4 DEF AttachNext
<1> QED BY <1>2, <1>3

-----------------------------------------------------------------------------

\* The inductive invariant of requests, handlers, jobs and rows.
THEOREM AttachInvariance == AttachSpec => []AttachInv
<1>1. AttachInv /\ [AttachNext]_attachVars => AttachInv'
  BY TypeStep, EachStep, QueuedStep DEF AttachInv
<1> QED BY <1>1, AttachInitInv, PTL DEF AttachSpec

\* Types are kept.
THEOREM AttachTypesKept == AttachSpec => []AttachTypeOK
<1>1. AttachInv => AttachTypeOK
  BY DEF AttachInv
<1> QED BY <1>1, AttachInvariance, PTL

\* A row that says attached or ready has its serving profile on disk, unless another attach
\* has opened or written the one file since.
THEOREM AttachedRowsAreServed == AttachSpec => []AttachedMeansServed
<1>1. AttachInv => AttachedMeansServed
  BY DEF AttachInv, EachInv, ServedInv, Served, Reused, AttachedMeansServed
<1> QED BY <1>1, AttachInvariance, PTL

\* A job that is complete has brought its row to the end, or missed a statement.
THEOREM CompleteJobsAreReady == AttachSpec => []CompleteMeansReady
<1>1. AttachInv => CompleteMeansReady
  BY DEF AttachInv, EachInv, DoneInv, Reached, CompleteMeansReady
<1> QED BY <1>1, AttachInvariance, PTL

\* A profile stays queued only for a reason, for any number of attaches.
THEOREM QueuedProfilesAreExplained == AttachSpec => []QueuedProfileExplained
<1>1. AttachInv => QueuedProfileExplained
  BY DEF AttachInv, AttachTypeOK, QueuedInv, Unpublished, QueuedProfileExplained, Quiet
<1> QED BY <1>1, AttachInvariance, PTL

\* No row goes back, for any number of attaches and whichever statements fail.
THEOREM RowsAdvance == AttachSpec => RowsOnlyAdvance
<1>1. AttachInv /\ [AttachNext]_attachVars
        => [\A a \in Attaches : Position(row'[a]) >= Position(row[a])]_row
  BY EachStep DEF AttachInv, Advances
<1> QED BY <1>1, AttachInvariance, PTL DEF AttachSpec, RowsOnlyAdvance

-----------------------------------------------------------------------------
(* The jobs of attaches are jobs *)

LEMMA LifeStep ==
  ASSUME AttachTypeOK, [AttachNext]_attachVars
  PROVE  [Life!Next]_(Life!lifecycleVars)
<1>1. ASSUME jobStatus' = jobStatus PROVE UNCHANGED Life!lifecycleVars
  BY <1>1 DEF Life!lifecycleVars
<1>2. ASSUME NEW a \in Attaches, RequestStep(a) PROVE [Life!Next]_(Life!lifecycleVars)
  <2>1. CASE SubmitJob(a)
    BY <2>1 DEF SubmitJob, Life!Next
  <2>2. CASE InsertRow(a) \/ QueueProfile(a) \/ AbandonRequest(a) \/ LinkJob(a)
    BY <1>1, <2>2 DEF InsertRow, QueueProfile, AbandonRequest, LinkJob
  <2> QED BY <1>2, <2>1, <2>2 DEF RequestStep
<1>3. ASSUME NEW a \in Attaches, AttachStep(a) PROVE jobStatus' = jobStatus
  BY <1>3 DEF AttachStep, CheckRuntime, WaitCutShort, DiskCheckFails, OpenFails, WriteFails,
              Fails, CheckDisk, BeginDownload, Download, OpenServingProfile,
              WriteServingProfile, MarkAttached, MarkReady, PublishProfile, Waited, At
<1>4. ASSUME NEW a \in Attaches, ManagerStep(a) PROVE Life!Next
  <2>1. CASE StartJob(a)
    BY <2>1 DEF StartJob, Life!Next
  <2>2. CASE FinishJob(a)
    BY <2>2 DEF FinishJob, Life!Next
  <2> QED BY <1>4, <2>1, <2>2 DEF ManagerStep
<1>5. ASSUME NEW a \in Attaches, EndContext(a) PROVE jobStatus' = jobStatus
  BY <1>5 DEF EndContext
<1>6. CASE Crash
  BY <1>6 DEF Crash, Life!Next
<1>7. CASE UNCHANGED attachVars
  BY <1>1, <1>7 DEF attachVars
<1> QED BY <1>1, <1>2, <1>3, <1>4, <1>5, <1>6, <1>7 DEF AttachNext

\* Whatever the requests, the handlers and the tables do, the jobs go through the life
\* cycle that JobManager implements.
THEOREM AttachImplementation == AttachSpec => Life!Spec
<1>1. AttachInit => Life!Init
  BY DEF AttachInit
<1>2. AttachTypeOK /\ [AttachNext]_attachVars => [Life!Next]_(Life!lifecycleVars)
  BY LifeStep
<1> QED BY <1>1, <1>2, AttachTypesKept, PTL DEF AttachSpec, Life!Spec

-----------------------------------------------------------------------------
(* The limit on jobs *)

\* Never do more attaches run than there are slots.
WithinLimit == Cardinality(Life!Running) <= MaxConcurrentJobs

LimitInv == IsFiniteSet(Life!Running) /\ WithinLimit

LEMMA LimitStep ==
  ASSUME AttachTypeOK, LimitInv,
         [Life!Next]_(Life!lifecycleVars)
  PROVE  LimitInv'
<1> DEFINE running == Life!Running
<1> USE AttachAssumption DEF WithinLimit
<1>0. IsFiniteSet(running) /\ Cardinality(running) <= MaxConcurrentJobs /\ Cardinality(running) \in Nat
  BY FS_CardinalityType DEF LimitInv
<1>1. ASSUME running' \subseteq running PROVE LimitInv'
  <2>1. IsFiniteSet(running') /\ Cardinality(running') <= Cardinality(running)
        /\ Cardinality(running') \in Nat
    BY <1>0, <1>1, FS_Subset, FS_CardinalityType
  <2> QED BY <1>0, <2>1 DEF LimitInv
<1>2. ASSUME NEW a \in Attaches, Life!Start(a) PROVE LimitInv'
  <2>1. running' = running \cup {a}
    BY <1>2 DEF Life!Start, Life!Running, AttachTypeOK
  <2>2. Life!Cardinality(running) = Cardinality(running)
    BY DEF Life!Cardinality, Cardinality
  <2>3. Cardinality(running) < MaxConcurrentJobs
    BY <1>2, <2>2 DEF Life!Start
  <2>4. /\ IsFiniteSet(running \cup {a})
        /\ \/ Cardinality(running \cup {a}) = Cardinality(running)
           \/ Cardinality(running \cup {a}) = Cardinality(running) + 1
    BY <1>0, FS_AddElement
  <2> HIDE DEF running
  <2>5. IsFiniteSet(running') /\ Cardinality(running') <= MaxConcurrentJobs
    BY <1>0, <2>1, <2>3, <2>4
  <2> QED BY <2>5 DEF LimitInv, running
<1>3. ASSUME NEW a \in Attaches, Life!Submit(a) \/ Life!End(a) \/ Life!CloseStream(a)
      PROVE running' \subseteq running
  BY <1>3 DEF Life!Submit, Life!End, Life!CloseStream, Life!Terminal, Life!Running, AttachTypeOK
<1>4. ASSUME NEW S, Life!Purge(S) PROVE running' \subseteq running
  BY <1>4 DEF Life!Purge, Life!Running
<1>5. CASE Life!Lose
  BY <1>1, <1>5 DEF Life!Lose, Life!Running
<1>6. CASE UNCHANGED Life!lifecycleVars
  BY <1>1, <1>6 DEF Life!lifecycleVars, Life!Running
<1> QED BY <1>1, <1>2, <1>3, <1>4, <1>5, <1>6 DEF Life!Next

\* However many attaches are asked for, no more of them run than there are slots.
THEOREM AttachesWithinLimit == AttachSpec => []WithinLimit
<1>1. AttachInit => LimitInv
  BY AttachAssumption, FS_EmptySet
     DEF AttachInit, Life!Init, Life!Running, LimitInv, WithinLimit
<1>2. AttachTypeOK /\ LimitInv /\ [AttachNext]_attachVars => LimitInv'
  BY LifeStep, LimitStep
<1>3. LimitInv => WithinLimit
  BY DEF LimitInv
<1> QED BY <1>1, <1>2, <1>3, AttachTypesKept, PTL DEF AttachSpec

-----------------------------------------------------------------------------
(* What is left of AttachesEnd without fairness *)

\* How many steps the handler of a has before it at most.
HandlerLeft(a) ==
  CASE point[a] = "runtime" -> 108
    [] point[a] = "disk"    -> 107
    [] point[a] = "begin"   -> 106
    [] point[a] = "loop"    -> 5 + (100 - pct[a])
    [] point[a] = "profile" -> 5
    [] point[a] = "write"   -> 4
    [] point[a] = "attach"  -> 3
    [] point[a] = "ready"   -> 2
    [] point[a] = "publish" -> 1
    [] OTHER               -> 0

\* A step of the handler of a brings its end nearer, and once it runs no other step, be it
\* a request's, a crash or the end of a context, puts it off.
EveryStepNearer ==
  [][\A a \in Attaches : /\ HandlerLeft(a) \in Nat /\ HandlerLeft(a)' \in Nat
                         /\ AttachStep(a) => HandlerLeft(a)' < HandlerLeft(a)
                         /\ point[a] # "idle" => HandlerLeft(a)' <= HandlerLeft(a)]_attachVars

\* The handler of a can do something next.  Where it waits it goes on with a live context
\* and is cut short with one that has ended; only the loop needs more than that.
HandlerGoesOn(a) ==
  \/ point[a] \in {"runtime", "disk", "begin", "profile", "write", "attach", "ready",
                   "publish"}
  \/ point[a] = "loop" /\ (over[a] # "no" \/ Further(pct[a]) # {})

\* A running job's handler can go on until it has returned; a job waits for a slot only
\* while another one runs.
AttachesGoOn ==
  \A a \in Attaches :
    /\ jobStatus[a] = "running" => point[a] = "returned" \/ HandlerGoesOn(a)
    /\ jobStatus[a] = "queued" =>
         Cardinality(Life!Running) < MaxConcurrentJobs \/ Life!Running # {}

\* A handler exists as long as its job runs, and the loop has the download's end before it.
RunInv ==
  \A a \in Attaches : /\ jobStatus[a] = "running" => point[a] # "idle"
                      /\ point[a] = "loop" => pct[a] < 100

LEMMA StepNearer ==
  ASSUME AttachTypeOK, AttachTypeOK', EachInv, [AttachNext]_attachVars, NEW a \in Attaches
  PROVE  /\ HandlerLeft(a) \in Nat /\ HandlerLeft(a)' \in Nat
         /\ AttachStep(a) => HandlerLeft(a)' < HandlerLeft(a)
         /\ point[a] # "idle" => HandlerLeft(a)' <= HandlerLeft(a)
<1>0. pct[a] \in 0 .. 100 /\ pct'[a] \in 0 .. 100
  BY DEF AttachTypeOK
<1>1. HandlerLeft(a) \in Nat /\ HandlerLeft(a)' \in Nat
  BY <1>0 DEF HandlerLeft
<1>2. ASSUME AttachStep(a) PROVE HandlerLeft(a)' < HandlerLeft(a)
  <2> USE <1>0 DEF HandlerLeft, At, Waited, AttachTypeOK
  <2>1. CASE CheckRuntime(a)
    BY <2>1 DEF CheckRuntime
  <2>2. CASE WaitCutShort(a)
    BY <2>2 DEF WaitCutShort
  <2>3. CASE DiskCheckFails(a) \/ OpenFails(a) \/ WriteFails(a)
    BY <2>3 DEF DiskCheckFails, OpenFails, WriteFails, Fails, AfterFailure
  <2>4. CASE CheckDisk(a)
    BY <2>4 DEF CheckDisk
  <2>5. CASE BeginDownload(a)
    <3>1. pct'[a] = 6 /\ point[a] = "begin" /\ point'[a] = "loop"
      BY <2>5 DEF BeginDownload
    <3> QED BY <3>1
  <2>6. CASE Download(a)
    <3>1. PICK n \in Further(pct[a]) :
            /\ point[a] = "loop" /\ point'[a] = (IF n = 100 THEN "profile" ELSE "loop")
            /\ pct'[a] = n
      BY <2>6 DEF Download
    <3>2. n \in 2 .. 100 /\ n > pct[a]
      BY <3>1, AttachAssumption DEF Further
    <3>3. HandlerLeft(a) = 5 + (100 - pct[a])
      BY <3>1
    <3>4. n = 100 => HandlerLeft(a)' = 5
      BY <3>1
    <3>5. n # 100 => HandlerLeft(a)' = 5 + (100 - n)
      BY <3>1
    <3> HIDE DEF HandlerLeft, At, Waited, AttachTypeOK
    <3> QED BY <1>0, <3>2, <3>3, <3>4, <3>5
  <2>7. CASE OpenServingProfile(a) \/ WriteServingProfile(a)
    BY <2>7 DEF OpenServingProfile, WriteServingProfile
  <2>8. CASE MarkAttached(a)
    BY <2>8 DEF MarkAttached
  <2>9. CASE MarkReady(a)
    BY <2>9 DEF MarkReady
  <2>10. CASE PublishProfile(a)
    BY <2>10 DEF PublishProfile
  <2> QED BY <1>2, <2>1, <2>2, <2>3, <2>4, <2>5, <2>6, <2>7, <2>8, <2>9, <2>10 DEF AttachStep
<1>3. ASSUME point'[a] = point[a], pct'[a] = pct[a] PROVE HandlerLeft(a)' = HandlerLeft(a)
  BY <1>3 DEF HandlerLeft
<1>4. ASSUME point[a] # "idle" PROVE HandlerLeft(a)' <= HandlerLeft(a)
  <2>1. ASSUME NEW b \in Attaches, RequestStep(b) PROVE point' = point /\ pct' = pct
    BY <2>1 DEF RequestStep, InsertRow, QueueProfile, SubmitJob, AbandonRequest, LinkJob,
                attachJobVars
  <2>2. ASSUME NEW b \in Attaches, AttachStep(b), b # a
        PROVE point'[a] = point[a] /\ pct'[a] = pct[a]
    BY <2>2 DEF AttachStep, CheckRuntime, WaitCutShort, DiskCheckFails, OpenFails, WriteFails,
                Fails, CheckDisk, BeginDownload, Download, OpenServingProfile,
                WriteServingProfile, MarkAttached, MarkReady, PublishProfile, Waited, At,
                AttachTypeOK
  <2>3. ASSUME NEW b \in Attaches, StartJob(b) PROVE point'[a] = point[a] /\ pct'[a] = pct[a]
    <3>1. point[b] = "idle" /\ b # a
      BY <1>4, <2>3 DEF StartJob, Life!Start, EachInv, RowInv
    <3> QED BY <2>3, <3>1 DEF StartJob, AttachTypeOK
  <2>4. ASSUME NEW b \in Attaches, FinishJob(b) \/ EndContext(b) PROVE point' = point /\ pct' = pct
    BY <2>4 DEF FinishJob, EndContext, attachJobVars
  <2>5. CASE Crash
    <3>1. HandlerLeft(a)' = 0
      BY <2>5 DEF Crash, HandlerLeft
    <3> QED BY <1>1, <3>1
  <2>6. CASE UNCHANGED attachVars
    BY <1>1, <1>3, <2>6 DEF attachVars, attachJobVars
  <2>7. CASE AttachStep(a)
    BY <1>1, <1>2, <2>7
  <2> QED BY <1>1, <1>3, <2>1, <2>2, <2>3, <2>4, <2>5, <2>6, <2>7 DEF AttachNext, ManagerStep
<1> QED BY <1>1, <1>2, <1>4

LEMMA RunStep ==
  ASSUME AttachTypeOK, RunInv, [AttachNext]_attachVars
  PROVE  RunInv'
<1> USE DEF RunInv, AttachTypeOK
<1>1. ASSUME NEW a \in Attaches, RequestStep(a) PROVE RunInv'
  BY <1>1 DEF RequestStep, InsertRow, QueueProfile, SubmitJob, AbandonRequest, LinkJob,
              Life!Submit, attachJobVars
<1>2. ASSUME NEW a \in Attaches, AttachStep(a) PROVE RunInv'
  <2>1. CASE Download(a)
    BY <2>1, AttachAssumption DEF Download, Further, Waited, At
  <2>2. CASE BeginDownload(a)
    BY <2>2 DEF BeginDownload, Waited, At
  <2>3. CASE DiskCheckFails(a) \/ OpenFails(a) \/ WriteFails(a)
    BY <2>3 DEF DiskCheckFails, OpenFails, WriteFails, Fails, AfterFailure, Waited, At
  <2> QED BY <1>2, <2>1, <2>2, <2>3
          DEF AttachStep, CheckRuntime, WaitCutShort, CheckDisk, OpenServingProfile,
              WriteServingProfile, MarkAttached, MarkReady, PublishProfile, Waited, At
<1>3. ASSUME NEW a \in Attaches, StartJob(a) PROVE RunInv'
  BY <1>3 DEF StartJob, Life!Start
<1>4. ASSUME NEW a \in Attaches, FinishJob(a) PROVE RunInv'
  BY <1>4, FinishMoves DEF FinishJob, attachJobVars, Life!Terminal
<1>5. ASSUME NEW a \in Attaches, EndContext(a) PROVE RunInv'
  BY <1>5 DEF EndContext, attachJobVars
<1>6. CASE Crash
  BY <1>6 DEF Crash, Life!Lose
<1>7. CASE UNCHANGED attachVars
  BY <1>7 DEF attachVars, attachJobVars
<1> QED BY <1>1, <1>2, <1>3, <1>4, <1>5, <1>6, <1>7 DEF AttachNext, ManagerStep

\* A handler comes to its end in a bounded number of its own steps, whatever the download
\* reports and whatever the others do meanwhile.
THEOREM HandlersRunOut == AttachSpec => EveryStepNearer
<1>1. AttachInv /\ AttachInv' /\ [AttachNext]_attachVars
        => [\A a \in Attaches :
              /\ HandlerLeft(a) \in Nat /\ HandlerLeft(a)' \in Nat
              /\ AttachStep(a) => HandlerLeft(a)' < HandlerLeft(a)
              /\ point[a] # "idle" => HandlerLeft(a)' <= HandlerLeft(a)]_attachVars
  BY StepNearer DEF AttachInv
<1> QED BY <1>1, AttachInvariance, PTL DEF AttachSpec, EveryStepNearer

\* And until then it can always take one: no attach holds its slot for ever, and none
\* waits for a slot that nobody holds.
THEOREM AttachesNeverStuck == AttachSpec => []AttachesGoOn
<1>1. AttachInit => RunInv
  BY DEF AttachInit, Life!Init, RunInv
<1>2. AttachTypeOK /\ RunInv /\ [AttachNext]_attachVars => RunInv'
  BY RunStep
<1>3. AttachTypeOK /\ RunInv => AttachesGoOn
  <2> SUFFICES ASSUME AttachTypeOK, RunInv, NEW a \in Attaches
               PROVE  /\ jobStatus[a] = "running" => point[a] = "returned" \/ HandlerGoesOn(a)
                      /\ jobStatus[a] = "queued" =>
                           Cardinality(Life!Running) < MaxConcurrentJobs \/ Life!Running # {}
    BY DEF AttachesGoOn
  <2>1. point[a] = "loop" => 100 \in Further(pct[a])
    BY AttachAssumption DEF AttachTypeOK, RunInv, Further
  <2>2. jobStatus[a] = "running" => point[a] = "returned" \/ HandlerGoesOn(a)
    BY <2>1 DEF AttachTypeOK, RunInv, HandlerGoesOn
  <2>3. Life!Running = {} => Cardinality(Life!Running) < MaxConcurrentJobs
    BY AttachAssumption, FS_EmptySet
  <2> QED BY <2>2, <2>3
<1> QED BY <1>1, <1>2, <1>3, AttachTypesKept, PTL DEF AttachSpec
=============================================================================
