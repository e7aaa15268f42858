----------------------------- MODULE ScaleFeed -----------------------------
(***************************************************************************)
(* The scale collector (internal/adapters/scaleascii/stream.go) with its   *)
(* parser (scale.go), wired in main.go between the raw weight journal and  *)
(* the workflow: bytes are put on record, and only then is the workflow    *)
(* told, of a reading or of a fault of the scale.                          *)
(*                                                                         *)
(* The journal is Journal, extended.  It is the raw weight journal, whose  *)
(* one caller is the collector, or it is the operational one, whose many   *)
(* callers go on after a failed append: col.step is then "OTHERS".         *)
(*                                                                         *)
(* Data abstractions.  A frame is what the parser makes of it, and of the  *)
(* workflow there is one bit, the fault of the scale.  The delays before a *)
(* new connection pass unseen.  A shutdown is a Crash: the context is not  *)
(* looked at while a read or a report is under way.  The status shown to   *)
(* the operator and the unused Reader are left out.                        *)
(***************************************************************************)
EXTENDS Journal

VARIABLES
  col,         \* the collector: its step, the event at hand, and whether a
               \* read error came with it
  scaleFault,  \* the workflow has the scale under a critical fault
  last,        \* history: the latest event put on record by this process
  delivered,   \* history: the records of the readings the workflow was given
  whole        \* history: no process started on an unterminated line

feedVars == <<vars, col, scaleFault, last, delivered, whole>>

\* A frame that parses, of a healthy scale or of one that reports a fault; a
\* frame that does not; a failed dial or read.
Kinds == {"HEALTHY", "FAULTED", "UNPARSED", "TRANSPORT"}
readings == {"HEALTHY", "FAULTED"}

Steps == {"OTHERS", "DIAL", "READ", "RECORD", "CUT", "FAULT", "CLEAR",
          "OBSERVE", "RETURNED", "STOPPED"}

At(step) == [step |-> step, kind |-> "TRANSPORT", cut |-> FALSE]

NothingYet == [kind |-> "NONE", rec |-> NoRecord]

FeedTypeOK ==
  /\ TypeOK
  /\ col \in [step : Steps, kind : Kinds, cut : BOOLEAN]
  /\ scaleFault \in BOOLEAN /\ whole \in BOOLEAN
  /\ last.kind \in Kinds \cup {"NONE"} /\ WellFormed(last.rec)
  /\ \A r \in delivered : WellFormed(r)

FeedInit ==
  /\ Init
  /\ col \in {At("OTHERS"), At("DIAL")}
  /\ scaleFault = FALSE
  /\ last = NothingYet /\ delivered = {} /\ whole = TRUE

-----------------------------------------------------------------------------
(* The collector.                                                          *)

\* A connection was made.
Connect ==
  /\ up /\ col.step = "DIAL"
  /\ col' = At("READ")
  /\ UNCHANGED <<vars, scaleFault, last, delivered, whole>>

\* What can come to hand: a failed dial; a frame, perhaps cut off by a read
\* error; a read error alone; the error that cut off the last frame.
comesToHand(kind, cut) ==
  \/ col.step \in {"DIAL", "CUT"} /\ kind = "TRANSPORT" /\ ~cut
  \/ col.step = "READ" /\ (cut => kind # "TRANSPORT")

\* Mutant: a failed append costs its frame only, and the next one is read.
readOn == col' = At("READ")

\* Run returns for good, with the error of the append.
giveUp == col' = At("RETURNED")

\* The append of the event begins, or fails before it has written.
Receive(kind, cut) ==
  /\ comesToHand(kind, cut)
  /\ \/ /\ AppendRecord /\ append' # NotAppending
        /\ col' = [step |-> "RECORD", kind |-> kind, cut |-> cut]
     \/ /\ AppendRecord \/ LoadTailFails
        /\ append' = NotAppending
        /\ giveUp
  /\ UNCHANGED <<scaleFault, last, delivered, whole>>

\* Mutant: the workflow is given the reading once it is written.
WriteRecordAndReport ==
  /\ col.step = "RECORD"
  /\ Write
  /\ delivered' = delivered \cup (IF col.kind \in readings
                                 THEN {append.rec} ELSE {})
  /\ UNCHANGED <<col, scaleFault, last, whole>>

WriteRecord ==
  /\ col.step = "RECORD"
  /\ Write
  /\ UNCHANGED <<col, scaleFault, last, delivered, whole>>

RecordFails ==
  /\ col.step = "RECORD"
  /\ WriteFails \/ SyncFails
  /\ giveUp
  /\ UNCHANGED <<scaleFault, last, delivered, whole>>

Recorded ==
  /\ col.step = "RECORD"
  /\ SyncAndReturn
  /\ last' = [kind |-> col.kind, rec |-> append.rec]
  /\ col' = [col EXCEPT !.step = IF col.kind \in readings THEN "CLEAR"
                                 ELSE "FAULT"]
  /\ UNCHANGED <<scaleFault, delivered, whole>>

\* Mutant: the error that cut off a frame is passed over.
reconnectQuietly ==
  At(IF col.kind = "TRANSPORT" \/ col.cut THEN "DIAL" ELSE "READ")

\* On to the next connection, the error that came with the frame, or a read.
afterReport ==
  At(IF col.kind = "TRANSPORT" THEN "DIAL"
     ELSE IF col.cut THEN "CUT" ELSE "READ")

ReportFault ==
  /\ col.step = "FAULT"
  /\ scaleFault' = TRUE
  /\ col' = afterReport
  /\ UNCHANGED <<vars, last, delivered, whole>>

\* Any frame that parses first clears the fault, in a call of its own.
ClearScaleFault ==
  /\ col.step = "CLEAR"
  /\ scaleFault' = FALSE
  /\ col' = [col EXCEPT !.step = "OBSERVE"]
  /\ UNCHANGED <<vars, last, delivered, whole>>

\* The workflow raises the fault again when the frame reports one.
faultOfReading == scaleFault' = (col.kind = "FAULTED")

ObserveReading ==
  /\ col.step = "OBSERVE"
  /\ faultOfReading
  /\ delivered' = delivered \cup {last.rec}
  /\ col' = afterReport
  /\ UNCHANGED <<vars, last, whole>>

\* The goroutine that ran the collector raises the fault and ends.
CollectorStopped ==
  /\ col.step = "RETURNED"
  /\ scaleFault' = TRUE
  /\ col' = At("STOPPED")
  /\ UNCHANGED <<vars, last, delivered, whole>>

-----------------------------------------------------------------------------
(* The other journal's callers, and the process.                           *)

OtherCallers ==
  /\ col.step = "OTHERS"
  /\ \/ AppendRecord \/ LoadTailFails
     \/ Write \/ WriteFails
     \/ SyncAndReturn \/ SyncFails
  /\ UNCHANGED <<col, scaleFault, last, delivered, whole>>

ProcessDies ==
  /\ Crash \/ PowerLoss
  /\ col' = IF col.step = "OTHERS" THEN col ELSE At("DIAL")
  /\ scaleFault' = FALSE /\ last' = NothingYet
  /\ UNCHANGED <<delivered, whole>>

ProcessStarts ==
  /\ Start
  /\ whole' = (whole /\ tail = << >>)
  /\ UNCHANGED <<col, scaleFault, last, delivered>>

FeedNext ==
  \/ Connect
  \/ \E kind \in Kinds, cut \in BOOLEAN : Receive(kind, cut)
  \/ WriteRecord
  \/ RecordFails
  \/ Recorded
  \/ ReportFault
  \/ ClearScaleFault
  \/ ObserveReading
  \/ CollectorStopped
  \/ OtherCallers
  \/ ProcessDies
  \/ ProcessStarts

FeedSpec == FeedInit /\ [][FeedNext]_feedVars

-----------------------------------------------------------------------------
(* Properties.                                                             *)

\* What the collector does to its journal are the journal's own operations.
JournalImplemented == Spec

\* A reading the workflow was given, and so any weight a ticket can state, is
\* on record: its reference was returned after the sync, and a raw journal
\* that verifies, in this process or a later one, has the record in its place.
ReadingIsOnRecord ==
  \A r \in delivered :
    /\ r \in acked
    /\ Verify(lines) => r.seq \in DOMAIN lines /\ lines[r.seq] = Parses(r)

\* The workflow's view of the scale follows the record and the connection:
\* without a connection the scale is under a fault as soon as anything was on
\* record; with one, exactly if the latest event on record is not a healthy
\* frame; and once the collector has stopped, until the process is restarted.
WorkflowKnowsTheScale ==
  /\ col.step = "DIAL" => scaleFault = (last.kind # "NONE")
  /\ col.step = "READ" => scaleFault = (last.kind \notin {"HEALTHY", "NONE"})
  /\ col.step = "STOPPED" => scaleFault

\* Because the collector stops at the first failed append, the raw journal is
\* only ever broken at its last line, if no process started on an unterminated
\* one: whatever failed, crashed or lost power, the earlier lines verify.
BrokenOnlyAtTheEnd ==
  whole /\ col.step # "OTHERS" /\ lines # << >> =>
    Verify(SubSeq(lines, 1, Len(lines) - 1))
=============================================================================
