--------------------------- MODULE ScaleFeedProofs ---------------------------
(***************************************************************************)
(* What the scale feed promises for any number of appends: the collector   *)
(* uses its journal only through the journal's own operations, so that     *)
(* every theorem about the journal holds of it; every reading the workflow *)
(* was given is on record; and the workflow knows the scale as the record  *)
(* and the connection have it.  The arguments are invariants of the        *)
(* collector's step: while a reading is being reported, the latest record  *)
(* is that reading and its reference was returned.                         *)
(***************************************************************************)
EXTENDS ScaleFeed, JournalProofs

\* Lemma: every step of the feed is a step of the journal, or leaves it alone.
LEMMA FeedStep == [FeedNext]_feedVars => [Next]_vars
<1> SUFFICES ASSUME [FeedNext]_feedVars PROVE [Next]_vars
  OBVIOUS
<1>1. CASE \E kind \in Kinds, cut \in BOOLEAN : Receive(kind, cut)
  BY <1>1 DEF Receive, Next
<1>2. CASE WriteRecord \/ RecordFails \/ Recorded
  BY <1>2 DEF WriteRecord, RecordFails, Recorded, Next
<1>3. CASE OtherCallers \/ ProcessDies \/ ProcessStarts
  BY <1>3 DEF OtherCallers, ProcessDies, ProcessStarts, Next
<1>4. CASE Connect \/ ReportFault \/ ClearScaleFault \/ ObserveReading
           \/ CollectorStopped \/ UNCHANGED feedVars
  BY <1>4 DEF Connect, ReportFault, ClearScaleFault, ObserveReading,
              CollectorStopped, feedVars
<1> QED
  BY <1>1, <1>2, <1>3, <1>4 DEF FeedNext

\* The feed implements its journal: each thing the collector, its callers or a
\* failure does to the journal is one of the journal's own steps.
THEOREM FeedImplementsJournal == FeedSpec => JournalImplemented
<1>1. FeedInit => Init
  BY DEF FeedInit
<1> QED
  BY <1>1, FeedStep, PTL DEF FeedSpec, JournalImplemented, Spec

\* A raw journal that verifies has every record the collector was told of.
THEOREM FeedLosesNothing == FeedSpec => []VerifiedMeansComplete
BY FeedImplementsJournal, NothingAcknowledgedIsLost, PTL DEF JournalImplemented

-----------------------------------------------------------------------------
(* The readings the workflow was given.                                    *)

\* What is being reported was put on record last, and acknowledged.
ReportIsLast ==
  /\ col = [step |-> col.step, kind |-> col.kind, cut |-> col.cut]
  /\ col.step \in {"CLEAR", "OBSERVE", "FAULT"} =>
       last.kind = col.kind /\ last.rec \in acked
  /\ col.step \in {"CLEAR", "OBSERVE"} => col.kind \in readings
  /\ col.step = "FAULT" => col.kind \notin readings
  /\ delivered \subseteq acked

\* Lemma: no acknowledged record is ever taken back.
LEMMA AckedStays == [Next]_vars => acked \subseteq acked'
BY DEF Next, AppendRecord, LoadTailFails, Write, WriteFails, SyncAndReturn,
       returnRef, SyncFails, Crash, PowerLoss, Start, vars

\* Lemma: one step of each kind keeps it.
LEMMA ReportStep == ReportIsLast /\ [FeedNext]_feedVars => ReportIsLast'
<1> SUFFICES ASSUME ReportIsLast, [FeedNext]_feedVars PROVE ReportIsLast'
  OBVIOUS
<1> USE DEF ReportIsLast, readings, At
<1>0. acked \subseteq acked'
  BY FeedStep, AckedStays
<1>1. CASE Connect
  BY <1>0, <1>1 DEF Connect
<1>2. CASE \E kind \in Kinds, cut \in BOOLEAN : Receive(kind, cut)
  BY <1>0, <1>2 DEF Receive, giveUp
<1>3. CASE WriteRecord
  BY <1>0, <1>3 DEF WriteRecord
<1>4. CASE RecordFails
  BY <1>0, <1>4 DEF RecordFails, giveUp
<1>5. CASE Recorded
  BY <1>0, <1>5 DEF Recorded, SyncAndReturn, returnRef
<1>6. CASE ReportFault
  BY <1>0, <1>6 DEF ReportFault, afterReport
<1>7. CASE ClearScaleFault
  BY <1>7 DEF ClearScaleFault, vars
<1>8. CASE ObserveReading
  BY <1>8 DEF ObserveReading, afterReport, vars
<1>9. CASE CollectorStopped
  BY <1>0, <1>9 DEF CollectorStopped
<1>10. CASE OtherCallers
  BY <1>0, <1>10 DEF OtherCallers
<1>11. CASE ProcessDies
  BY <1>0, <1>11 DEF ProcessDies
<1>12. CASE ProcessStarts
  BY <1>0, <1>12 DEF ProcessStarts
<1>13. CASE UNCHANGED feedVars
  BY <1>13 DEF feedVars, vars
<1> QED
  BY <1>1, <1>2, <1>3, <1>4, <1>5, <1>6, <1>7, <1>8, <1>9, <1>10, <1>11,
     <1>12, <1>13 DEF FeedNext

\* What is being reported is the latest record, throughout.
THEOREM ReportIsLastHolds == FeedSpec => []ReportIsLast
<1>1. FeedInit => ReportIsLast
  BY DEF FeedInit, ReportIsLast, At, Init
<1> QED
  BY <1>1, ReportStep, PTL DEF FeedSpec

\* Every reading the workflow was given is on record, durably.
THEOREM ReadingsAreOnRecord == FeedSpec => []ReadingIsOnRecord
<1>1. ReportIsLast /\ VerifiedMeansComplete => ReadingIsOnRecord
  BY DEF ReportIsLast, VerifiedMeansComplete, ReadingIsOnRecord
<1> QED
  BY <1>1, ReportIsLastHolds, FeedLosesNothing, PTL

-----------------------------------------------------------------------------
(* The workflow's view of the scale.                                       *)

\* Before a report the view is that of the record before, after a cleared
\* fault it is clear, and the collector dials first or after a failure.
ViewInv ==
  /\ WorkflowKnowsTheScale
  /\ col.step = "DIAL" => last.kind \in {"TRANSPORT", "NONE"}
  /\ col.step = "OBSERVE" => scaleFault = FALSE
  /\ scaleFault \in BOOLEAN
  /\ col.step \in {"FAULT", "CLEAR", "OBSERVE"} => last.kind # "NONE"
  /\ col.kind # "NONE"

\* Lemma: one step of each kind keeps it.
LEMMA ViewStep ==
  ReportIsLast /\ ViewInv /\ [FeedNext]_feedVars => ViewInv'
<1> SUFFICES ASSUME ReportIsLast, ViewInv, [FeedNext]_feedVars PROVE ViewInv'
  OBVIOUS
<1> USE DEF ReportIsLast, ViewInv, WorkflowKnowsTheScale, readings, At
<1>1. CASE Connect
  BY <1>1 DEF Connect
<1>2. CASE \E kind \in Kinds, cut \in BOOLEAN : Receive(kind, cut)
  BY <1>2 DEF Receive, giveUp, Kinds
<1>3. CASE WriteRecord
  BY <1>3 DEF WriteRecord
<1>4. CASE RecordFails
  BY <1>4 DEF RecordFails, giveUp
<1>5. CASE Recorded
  BY <1>5 DEF Recorded
<1>6. CASE ReportFault
  BY <1>6 DEF ReportFault, afterReport
<1>7. CASE ClearScaleFault
  BY <1>7 DEF ClearScaleFault
<1>8. CASE ObserveReading
  BY <1>8 DEF ObserveReading, faultOfReading, afterReport
<1>9. CASE CollectorStopped
  BY <1>9 DEF CollectorStopped
<1>10. CASE OtherCallers
  BY <1>10 DEF OtherCallers
<1>11. CASE ProcessDies
  BY <1>11 DEF ProcessDies, NothingYet
<1>12. CASE ProcessStarts
  BY <1>12 DEF ProcessStarts
<1>13. CASE UNCHANGED feedVars
  BY <1>13 DEF feedVars
<1> QED
  BY <1>1, <1>2, <1>3, <1>4, <1>5, <1>6, <1>7, <1>8, <1>9, <1>10, <1>11,
     <1>12, <1>13 DEF FeedNext

\* The workflow's view of the scale follows the record and the connection.
THEOREM WorkflowKnows == FeedSpec => []WorkflowKnowsTheScale
<1>1. FeedInit => ViewInv
  <2> SUFFICES ASSUME FeedInit PROVE ViewInv
    OBVIOUS
  <2>1. /\ col.step \in {"OTHERS", "DIAL"} /\ col.kind = "TRANSPORT"
        /\ scaleFault = FALSE /\ last.kind = "NONE"
    BY DEF FeedInit, At, NothingYet
  <2> QED
    BY <2>1 DEF ViewInv, WorkflowKnowsTheScale
<1>2. ViewInv => WorkflowKnowsTheScale
  BY DEF ViewInv
<1> QED
  BY <1>1, <1>2, ViewStep, ReportIsLastHolds, PTL DEF FeedSpec

-----------------------------------------------------------------------------
(* Types.                                                                  *)

ColTyped ==
  /\ col \in [step : Steps, kind : Kinds, cut : BOOLEAN]
  /\ scaleFault \in BOOLEAN /\ whole \in BOOLEAN
  /\ last.kind \in Kinds \cup {"NONE"} /\ WellFormed(last.rec)

\* Lemma: one step of each kind keeps it.
LEMMA ColStep ==
  Shape /\ Typed /\ ReportIsLast /\ ColTyped /\ [FeedNext]_feedVars => ColTyped'
<1> SUFFICES ASSUME Shape, Typed, ReportIsLast, ColTyped, [FeedNext]_feedVars
             PROVE  ColTyped'
  OBVIOUS
<1> USE DEF ColTyped, Steps, Kinds, At
<1>0. \A r : WellFormed(r) => WellFormed(r)'
  <2>1. calls \in Nat /\ calls' \in Nat /\ calls <= calls'
    <3>1. Typed'
      BY FeedStep, TypedStep
    <3>2. calls' \in {calls, calls + 1}
      BY FeedStep DEF Next, AppendRecord, LoadTailFails, Write, WriteFails,
         SyncAndReturn, SyncFails, Crash, PowerLoss, Start, vars
    <3> QED
      BY <3>1, <3>2, JournalAssumption DEF Typed
  <2> QED
    BY <2>1, StaysWellFormed
<1>1. CASE Connect
  BY <1>0, <1>1 DEF Connect
<1>2. CASE \E kind \in Kinds, cut \in BOOLEAN : Receive(kind, cut)
  <2>1. UNCHANGED <<scaleFault, last, whole>>
    BY <1>2 DEF Receive
  <2>2. col' \in [step : Steps, kind : Kinds, cut : BOOLEAN]
    <3> SUFFICES ASSUME NEW kind \in Kinds, NEW cut \in BOOLEAN,
                        Receive(kind, cut)
                 PROVE  col' \in [step : Steps, kind : Kinds, cut : BOOLEAN]
      BY <1>2 DEF Steps
    <3>1. \/ col' = [step |-> "RECORD", kind |-> kind, cut |-> cut]
          \/ col' = At("RETURNED")
      BY DEF Receive, giveUp
    <3>2. CASE col' = [step |-> "RECORD", kind |-> kind, cut |-> cut]
      BY <3>2
    <3>3. CASE col' = At("RETURNED")
      BY <3>3
    <3> QED
      BY <3>1, <3>2, <3>3
  <2> QED
    BY <1>0, <2>1, <2>2
<1>3. CASE WriteRecord
  BY <1>0, <1>3 DEF WriteRecord
<1>4. CASE RecordFails
  BY <1>0, <1>4 DEF RecordFails, giveUp
<1>5. CASE Recorded
  BY <1>0, <1>5 DEF Recorded, Typed
<1>6. CASE ReportFault
  BY <1>0, <1>6 DEF ReportFault, afterReport
<1>7. CASE ClearScaleFault
  BY <1>0, <1>7 DEF ClearScaleFault
<1>8. CASE ObserveReading
  BY <1>0, <1>8 DEF ObserveReading, faultOfReading, afterReport
<1>9. CASE CollectorStopped
  BY <1>0, <1>9 DEF CollectorStopped
<1>10. CASE OtherCallers
  BY <1>0, <1>10 DEF OtherCallers
<1>11. CASE ProcessDies
  <2>1. WellFormed(NoRecord)
    BY NothingIsWellFormed DEF Typed
  <2> QED
    BY <1>0, <1>11, <2>1 DEF ProcessDies, NothingYet
<1>12. CASE ProcessStarts
  BY <1>0, <1>12 DEF ProcessStarts
<1>13. CASE UNCHANGED feedVars
  BY <1>0, <1>13 DEF feedVars
<1> QED
  BY <1>1, <1>2, <1>3, <1>4, <1>5, <1>6, <1>7, <1>8, <1>9, <1>10, <1>11,
     <1>12, <1>13 DEF FeedNext

\* Every variable of the feed and of its journal has its type throughout.
THEOREM FeedTypeCorrect == FeedSpec => []FeedTypeOK
<1>1. FeedInit => ColTyped
  <2> SUFFICES ASSUME FeedInit PROVE ColTyped
    OBVIOUS
  <2>1. WellFormed(NoRecord)
    BY NothingIsWellFormed DEF FeedInit, Init
  <2>2. last.kind = "NONE" /\ last.rec = NoRecord
    BY DEF FeedInit, NothingYet
  <2>3. col \in [step : Steps, kind : Kinds, cut : BOOLEAN]
    <3>1. \E step \in Steps :
            col = [step |-> step, kind |-> "TRANSPORT", cut |-> FALSE]
      BY DEF FeedInit, Steps, At
    <3> QED
      BY <3>1 DEF Kinds
  <2>4. scaleFault \in BOOLEAN /\ whole \in BOOLEAN
    BY DEF FeedInit
  <2> QED
    BY <2>1, <2>2, <2>3, <2>4 DEF ColTyped
<1>2. FeedSpec => [](Inv /\ Typed /\ TypeOK)
  BY FeedImplementsJournal, InvHolds, TypedHolds, TypeCorrect, PTL
     DEF JournalImplemented
<1>3. Inv /\ Typed /\ TypeOK /\ ReportIsLast /\ ColTyped => FeedTypeOK
  BY DEF ColTyped, FeedTypeOK, ReportIsLast, Typed
<1> QED
  BY <1>1, <1>2, <1>3, ColStep, ReportIsLastHolds, PTL DEF FeedSpec, Inv

-----------------------------------------------------------------------------
(* Where the raw journal can be broken.                                    *)

\* The lines before the last are linked.  While the collector runs no append
\* has failed; once it has given up, nothing is appended before a restart.
EndInv ==
  whole /\ col.step # "OTHERS" =>
    /\ col.step \in {"RETURNED", "STOPPED"} => append = NotAppending
    /\ up /\ col.step \notin {"RETURNED", "STOPPED"} => clean
    /\ \A n \in 1..(Len(lines) - 1) : Linked(lines, n)

\* Lemma: a sequence verifies up to its last line when the others are linked.
LEMMA VerifyUpTo ==
  ASSUME NEW ls, IsSeq(ls), Len(ls) > 0,
         \A n \in 1..(Len(ls) - 1) : Linked(ls, n)
  PROVE  Verify(SubSeq(ls, 1, Len(ls) - 1))
<1> DEFINE front == SubSeq(ls, 1, Len(ls) - 1)
<1>1. Len(ls) \in Nat /\ Len(ls) - 1 \in 0..Len(ls)
  BY DEF IsSeq
<1>2. /\ IsSeq(front) /\ Len(front) = Len(ls) - 1
      /\ \A i \in 1..(Len(ls) - 1) : front[i] = ls[i]
  BY <1>1, Prefix
<1>3. \A n \in 1..(Len(ls) - 1) : Linked(front, n)
  <2> SUFFICES ASSUME NEW n \in 1..(Len(ls) - 1) PROVE Linked(front, n)
    OBVIOUS
  <2>1. n \in Nat /\ n >= 1 /\ Linked(ls, n) /\ \A i \in 1..n : front[i] = ls[i]
    BY <1>1, <1>2
  <2> HIDE DEF front
  <2> QED
    BY <2>1, StaysLinked
<1> HIDE DEF front
<1>4. Verify(front)
  BY <1>2, <1>3, VerifyIsLinked
<1> QED
  BY <1>4 DEF front

\* Lemma: while no append has failed every line is linked.
LEMMA AllLinked ==
  ASSUME Shape, Chained, up, clean
  PROVE  lines = file /\ \A n \in 1..Len(lines) : Linked(lines, n)
BY LinesHere DEF Chained

\* Lemma: what the reader of the file will see after a step.
LEMMA LinesNext ==
  ASSUME Shape'
  PROVE  /\ Len(file') \in Nat /\ Len(tail') \in Nat
         /\ Len(lines') = Len(file') + Len(tail')
         /\ \A i \in 1..Len(file') : lines'[i] = file'[i]
         /\ tail' = << >> => lines' = file'
<1>1. IsSeq(file') /\ IsSeq(tail')
  BY DEF Shape, IsSeq
<1> DEFINE all == file' \o tail'
<1>2. /\ Len(file') \in Nat /\ Len(tail') \in Nat
      /\ Len(all) = Len(file') + Len(tail')
      /\ \A i \in 1..Len(file') : all[i] = file'[i]
      /\ tail' = << >> => all = file'
  BY <1>1, LinesAre
<1>3. lines' = all
  BY DEF lines
<1> HIDE DEF all
<1> QED
  BY <1>2, <1>3

\* Lemma: what is left after the power went is a part of what was there, with
\* one line of its own at most.
LEMMA PowerLossLeaves ==
  ASSUME Shape, Shape', Typed, PowerLoss
  PROVE  /\ Len(lines') \in Nat /\ Len(lines) \in Nat
         /\ Len(lines') <= Len(lines)
         /\ \A i \in 1..(Len(lines') - 1) : lines'[i] = lines[i]
<1>1. /\ Len(file) \in Nat /\ Len(tail) \in Nat /\ IsSeq(file)
      /\ Len(lines) = Len(file) + Len(tail) /\ Len(tail) <= 1
      /\ \A i \in 1..Len(file) : lines[i] = file[i]
      /\ \A i \in 1..Len(tail) : lines[Len(file) + i] = tail[i]
  BY LinesHere DEF Typed
<1>2. /\ Len(file') \in Nat /\ Len(tail') \in Nat
      /\ Len(lines') = Len(file') + Len(tail')
      /\ \A i \in 1..Len(file') : lines'[i] = file'[i]
  BY LinesNext
<1>3. CASE file' = file /\ tail' = tail
  BY <1>1, <1>2, <1>3 DEF lines
<1>4. CASE file' = file /\ tail' = << >>
  BY <1>1, <1>2, <1>4
<1>5. CASE file' = file /\ tail # << >> /\ tail' = <<Garbage>>
  <2>1. Len(tail) # 0
    BY <1>5 DEF Shape, IsSeq
  <2> QED
    BY <1>1, <1>2, <1>5, <2>1
<1>6. CASE \E n \in durable..(Len(file) - 1) :
             /\ file' = SubSeq(file, 1, n)
             /\ tail' \in {<< >>, <<Garbage>>, <<file[n + 1]>>}
  <2>1. PICK n \in durable..(Len(file) - 1) :
               /\ file' = SubSeq(file, 1, n)
               /\ tail' \in {<< >>, <<Garbage>>, <<file[n + 1]>>}
    BY <1>6
  <2>0. durable \in 0..Len(file)
    BY DEF Shape
  <2>2. n \in 0..Len(file) /\ n < Len(file)
    BY <1>1, <2>0
  <2>3. Len(file') = n /\ \A i \in 1..n : file'[i] = file[i]
    BY <1>1, <2>1, <2>2, Prefix
  <2>4. Len(tail') <= 1
    <3>1. CASE tail' = << >>
      BY <3>1
    <3>2. CASE \E line : tail' = <<line>>
      BY <3>2
    <3> QED
      BY <2>1, <3>1, <3>2
  <2>5. Len(lines') <= Len(lines)
    BY <1>1, <1>2, <2>2, <2>3, <2>4
  <2>6. \A i \in 1..(Len(lines') - 1) : i \in 1..n /\ i \in 1..Len(file)
    BY <1>1, <1>2, <2>2, <2>3, <2>4
  <2>7. ASSUME NEW i \in 1..(Len(lines') - 1) PROVE lines'[i] = lines[i]
    <3>1. i \in 1..n /\ i \in 1..Len(file) /\ i \in 1..Len(file')
      BY <2>3, <2>6
    <3> QED
      BY <1>1, <1>2, <2>3, <3>1
  <2> QED
    BY <1>1, <1>2, <2>5, <2>7
<1> QED
  BY <1>3, <1>4, <1>5, <1>6 DEF PowerLoss

\* Lemma: lines that are linked stay so in what is left of them.
LEMMA FrontStays ==
  ASSUME NEW ls, NEW ms, Len(ls) \in Nat, Len(ms) \in Nat, Len(ms) <= Len(ls),
         \A i \in 1..(Len(ms) - 1) : ms[i] = ls[i],
         \A n \in 1..(Len(ls) - 1) : Linked(ls, n)
  PROVE  \A n \in 1..(Len(ms) - 1) : Linked(ms, n)
<1> SUFFICES ASSUME NEW n \in 1..(Len(ms) - 1) PROVE Linked(ms, n)
  OBVIOUS
<1>1. n \in Nat /\ n >= 1 /\ Linked(ls, n) /\ \A i \in 1..n : ms[i] = ls[i]
  OBVIOUS
<1> QED
  BY <1>1, StaysLinked

\* Lemma: one step of each kind keeps it.
LEMMA EndStep ==
  ASSUME Shape, Typed, Chained, ReportIsLast, EndInv, [FeedNext]_feedVars,
         Shape', Chained'
  PROVE  EndInv'
<1> DEFINE Over(s) == s \in {"RETURNED", "STOPPED"}
           LinkedToTheEnd == \A n \in 1..(Len(lines) - 1) : Linked(lines, n)
<1> SUFFICES ASSUME whole', col'.step # "OTHERS"
             PROVE  /\ Over(col'.step) => append' = NotAppending
                    /\ up' /\ ~Over(col'.step) => clean'
                    /\ LinkedToTheEnd'
  BY DEF EndInv
<1>0. whole /\ col.step # "OTHERS" =>
        /\ Over(col.step) => append = NotAppending
        /\ up /\ ~Over(col.step) => clean
        /\ LinkedToTheEnd
  BY DEF EndInv
<1>1. CASE Connect \/ ReportFault \/ ClearScaleFault \/ ObserveReading
           \/ CollectorStopped \/ UNCHANGED feedVars
  <2>1. UNCHANGED vars /\ whole /\ col.step # "OTHERS"
    BY <1>1 DEF Connect, ReportFault, ClearScaleFault, ObserveReading,
                CollectorStopped, feedVars
  <2>2. Over(col'.step) <=> Over(col.step)
    <3>1. CASE Connect
      BY <3>1 DEF Connect, At
    <3>2. CASE ReportFault \/ ObserveReading
      <4>1. col.step \in {"FAULT", "OBSERVE"} /\ col' = afterReport
        BY <3>2 DEF ReportFault, ObserveReading
      <4>2. afterReport.step \in {"DIAL", "CUT", "READ"}
        BY DEF afterReport, At
      <4> QED
        BY <4>1, <4>2
    <3>3. CASE ClearScaleFault
      BY <3>3 DEF ClearScaleFault, ReportIsLast
    <3>4. CASE CollectorStopped
      BY <3>4 DEF CollectorStopped, At
    <3>5. CASE UNCHANGED feedVars
      BY <3>5 DEF feedVars
    <3> QED
      BY <1>1, <3>1, <3>2, <3>3, <3>4, <3>5
  <2>3. LinkedToTheEnd' <=> LinkedToTheEnd
    BY <2>1 DEF vars, lines, Linked
  <2> QED
    BY <1>0, <2>1, <2>2, <2>3 DEF vars
<1>2. CASE \E kind \in Kinds, cut \in BOOLEAN : Receive(kind, cut)
  <2>1. /\ whole /\ ~Over(col.step) /\ col.step # "OTHERS"
        /\ UNCHANGED <<file, tail, up>> /\ up
        /\ \/ ~Over(col'.step) /\ clean' = clean
           \/ Over(col'.step) /\ append' = NotAppending
    BY <1>2 DEF Receive, comesToHand, giveUp, At, AppendRecord, LoadTailFails
  <2>2. LinkedToTheEnd' <=> LinkedToTheEnd
    BY <2>1 DEF lines, Linked
  <2> QED
    BY <1>0, <2>1, <2>2
<1>3. CASE WriteRecord
  <2>1. whole /\ col.step = "RECORD" /\ Write /\ col' = col
    BY <1>3 DEF WriteRecord
  <2>2. up /\ up' = up /\ clean' = clean
    BY <2>1 DEF Chained, Write, NotAppending
  <2>3. clean
    BY <1>0, <2>1, <2>2
  <2>4. LinkedToTheEnd'
    <3>1. tail' = << >> /\ \A n \in 1..Len(file') : Linked(file', n)
      BY <2>2, <2>3 DEF Chained, Linked
    <3>2. lines' = file' /\ Len(file') \in Nat
      BY <3>1, LinesNext
    <3> QED
      BY <3>1, <3>2
  <2> QED
    BY <2>1, <2>2, <2>3, <2>4
<1>4. CASE RecordFails
  <2>1. /\ whole /\ col.step = "RECORD" /\ (WriteFails \/ SyncFails)
        /\ Over(col'.step) /\ append' = NotAppending /\ file' = file
    BY <1>4 DEF RecordFails, giveUp, At, WriteFails, SyncFails
  <2>2. up
    BY <2>1 DEF Chained, WriteFails, SyncFails, NotAppending
  <2>3. lines = file /\ \A n \in 1..Len(file) : Linked(file, n)
    BY <1>0, <2>1, <2>2, AllLinked
  <2>4. Len(tail') <= 1
    <3>1. Typed'
      BY FeedStep, TypedStep
    <3> QED
      BY <3>1 DEF Typed
  <2>5. LinkedToTheEnd'
    <3>1. /\ Len(file) \in Nat /\ Len(tail') \in Nat
          /\ Len(lines') = Len(file) + Len(tail')
          /\ \A i \in 1..Len(file) : lines'[i] = file[i]
      BY <2>1, LinesNext
    <3> SUFFICES ASSUME NEW n \in 1..(Len(lines') - 1) PROVE Linked(lines', n)
      OBVIOUS
    <3>2. n \in Nat /\ n >= 1 /\ Linked(file, n)
          /\ \A i \in 1..n : lines'[i] = file[i]
      BY <2>3, <2>4, <3>1
    <3> QED
      BY <3>2, StaysLinked
  <2> QED
    BY <2>1, <2>5
<1>5. CASE Recorded
  <2>1. /\ whole /\ col.step = "RECORD" /\ ~Over(col'.step)
        /\ UNCHANGED <<file, tail, up, clean>>
    BY <1>5 DEF Recorded, SyncAndReturn, ReportIsLast
  <2>2. LinkedToTheEnd' <=> LinkedToTheEnd
    BY <2>1 DEF lines, Linked
  <2> QED
    BY <1>0, <2>1, <2>2
<1>6. CASE OtherCallers
  BY <1>6 DEF OtherCallers
<1>7. CASE ProcessDies
  <2>1. whole /\ col.step # "OTHERS" /\ ~Over(col'.step) /\ ~up'
    BY <1>7 DEF ProcessDies, Crash, PowerLoss, stopped, At
  <2>2. CASE Crash
    <3>1. LinkedToTheEnd' <=> LinkedToTheEnd
      BY <2>2 DEF Crash, lines, Linked
    <3> QED
      BY <1>0, <2>1, <3>1
  <2>3. CASE PowerLoss
    <3>1. LinkedToTheEnd'
      BY <1>0, <2>1, <2>3, PowerLossLeaves, FrontStays
    <3> QED
      BY <2>1, <3>1
  <2> QED
    BY <1>7, <2>2, <2>3 DEF ProcessDies
<1>8. CASE ProcessStarts
  <2>1. /\ whole /\ col' = col /\ clean' /\ ~up
        /\ UNCHANGED <<file, tail, append>>
    BY <1>8 DEF ProcessStarts, Start
  <2>2. LinkedToTheEnd' <=> LinkedToTheEnd
    BY <2>1 DEF lines, Linked
  <2> QED
    BY <1>0, <2>1, <2>2
<1> QED
  BY <1>1, <1>2, <1>3, <1>4, <1>5, <1>6, <1>7, <1>8 DEF FeedNext

\* The raw journal is only ever broken at its last line, as long as no process
\* started on an unterminated one.
THEOREM OnlyTheEndBreaks == FeedSpec => []BrokenOnlyAtTheEnd
<1>1. FeedInit => EndInv
  <2> SUFFICES ASSUME FeedInit PROVE EndInv
    OBVIOUS
  <2>1. Len(lines) = 0
    BY DEF FeedInit, Init, lines
  <2> QED
    BY <2>1 DEF FeedInit, Init, At, EndInv
<1>2. FeedSpec => [](Inv /\ Typed /\ Chained)
  BY FeedImplementsJournal, InvHolds, TypedHolds, ChainHolds, PTL
     DEF JournalImplemented
<1>3. /\ Inv /\ Typed /\ Chained /\ ReportIsLast /\ EndInv
      /\ [FeedNext]_feedVars /\ (Inv /\ Chained)'
      => EndInv'
  BY EndStep DEF Inv
<1>4. Inv /\ EndInv => BrokenOnlyAtTheEnd
  <2> SUFFICES ASSUME Inv, EndInv, whole, col.step # "OTHERS", lines # << >>
               PROVE  Verify(SubSeq(lines, 1, Len(lines) - 1))
    BY DEF BrokenOnlyAtTheEnd
  <2>1. IsSeq(lines)
    BY LinesHere DEF Inv
  <2>2. Len(lines) > 0
    BY <2>1 DEF IsSeq
  <2> QED
    BY <2>1, <2>2, VerifyUpTo DEF EndInv
<1> QED
  BY <1>1, <1>2, <1>3, <1>4, ReportIsLastHolds, PTL DEF FeedSpec
=============================================================================
