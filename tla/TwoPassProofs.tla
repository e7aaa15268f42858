--------------------------- MODULE TwoPassProofs ---------------------------
(***************************************************************************)
(* Proofs about the whole station, for every value of its constants.       *)
(*                                                                         *)
(* Every step of the station is a step of Engine and one of WeighCycles,   *)
(* or leaves it alone: what EngineProofs shows of the engine and           *)
(* WeighCyclesProofs of the cycles holds in it.  What the bridge and the   *)
(* recorder add is proved on top of that, from the steps of the books:     *)
(* Keeps says what no step takes back of a cycle once recorded.            *)
(***************************************************************************)
EXTENDS TwoPass, EngineProofs

-----------------------------------------------------------------------------
(* The pass in hand.                                                       *)

\* While the coordinator is at work on a second pass, the engine waits with the
\* transaction it accepted the weight for, and the frame would commit still.
Pending ==
  /\ call \in {"NONE", "COMMIT", "BIND", "APPEND"}
  /\ call # "COMMIT" => recording = Book!NotRecording
  /\ call = "COMMIT" =>
       /\ recording.step \in {"OBSERVED", "FOUND"}
       /\ recording.step = "FOUND" => recording.cycle \in Cycles
       /\ direction = "B_TO_A"
       /\ frame \in ScaleInputs /\ commits(frame)
       /\ recording.pass.plate = tx.lpr.plate
       /\ recording.pass.tag = tx.rfid.tag

\* A frame goes to the engine, with the answer of the bridge for the pass in
\* it, if there is one.
Answers(r, durable, c) ==
  /\ commits(r)
  /\ answered(r, durable, c)
  /\ durable => c \in Cycles /\ direction \in Directions

\* The three kinds of steps of a frame: the engine waits for the coordinator,
\* the frame commits nothing, or it does and is answered.
FrameStep ==
  \/ UNCHANGED <<vars, outcome, passes>> /\ call' = "COMMIT"
  \/ \E r \in ScaleInputs :
       /\ ~commits(r) /\ ObserveScale(r, FALSE) /\ compared
       /\ UNCHANGED <<books, outcome, passes>>
  \/ \E r \in ScaleInputs, durable \in BOOLEAN, c \in Cycles \cup {None} :
       Answers(r, durable, c)

\* Lemma: an accepted frame is stable and has no error.
LEMMA CommittedFrame ==
  ASSUME NEW r \in ScaleInputs, commits(r)
  PROVE  r = [weight |-> r.weight, stable |-> TRUE, ok |-> TRUE]
<1>1. r \in Readings
  BY ConstantsAssumption
<1>2. r.stable = TRUE /\ r.ok = TRUE
  BY <1>1 DEF commits, countable, Readings
<1> QED
  BY <1>1, <1>2 DEF Readings

\* Lemma: the second pass is in hand once the engine has accepted its weight.
LEMMA SecondPassPends ==
  ASSUME NEW r \in ScaleInputs, commits(r), SecondPass(r),
         UNCHANGED <<direction, bound, lost>>
  PROVE  Pending'
<1>1. /\ recording' = [step |-> "OBSERVED", cycle |-> None,
                       pass |-> [plate |-> tx.lpr.plate, tag |-> tx.rfid.tag,
                                 weight |-> r.weight, at |-> clock]]
      /\ call' = "COMMIT" /\ UNCHANGED vars
      /\ direction = "B_TO_A"
  BY DEF SecondPass, Book!ObserveSecondPass
<1>2. frame' = r
  BY <1>1, CommittedFrame DEF frame
<1>3. commits(r)'
  BY <1>1 DEF commits, beginWeighing, authorizeIfIdentified, confirm, countable,
              vars
<1> QED
  BY <1>1, <1>2, <1>3 DEF Pending, vars

\* Lemma: as long as transaction and pass stay the same, the frame stands.
LEMMA StillPends ==
  ASSUME Pending, call = "COMMIT", call' = "COMMIT",
         UNCHANGED <<vars, direction>>, recording'.pass = recording.pass,
         recording'.step \in {"OBSERVED", "FOUND"},
         recording'.step = "FOUND" => recording'.cycle \in Cycles
  PROVE  Pending'
<1>1. frame' = frame
  BY DEF frame
<1>2. commits(frame)'
  BY <1>1 DEF Pending, commits, beginWeighing, authorizeIfIdentified, confirm,
              countable, vars
<1> QED
  BY <1>1, <1>2 DEF Pending, vars

\* Lemma: the steps of a frame.
LEMMA FrameCases ==
  ASSUME Pending,
         \/ \E r \in ScaleInputs : Scale(r)
         \/ FindCalled
         \/ Settle
  PROVE  Pending' /\ FrameStep /\ UNCHANGED <<clock, direction, bound, lost>>
<1>0. UNCHANGED <<clock, direction, bound, lost>>
  BY DEF Scale, FindCalled, Settle, Book!FindCalledCycle, Book!RecordSecondPass
<1>1. ASSUME NEW r \in ScaleInputs, Scale(r)
      PROVE  Pending' /\ FrameStep
  <2>1. call = "NONE" /\ recording = Book!NotRecording
    BY <1>1 DEF Scale, Pending
  <2>2. CASE ~commits(r)
    BY <1>1, <2>1, <2>2 DEF Scale, FirstPass, SecondPass, NoPass, compared, books,
                            Pending, FrameStep, Book!NotRecording
  <2>3. CASE commits(r) /\ FirstPass(r)
    <3>1. PICK c \in Cycles :
            /\ Book!RecordFirstPass(c, tx.lpr.plate, tx.rfid.tag, r.weight)
            /\ answered(r, TRUE, c)
      BY <2>3 DEF FirstPass
    <3>2. recording' = recording /\ call' \in {"NONE", "APPEND"}
      BY <3>1 DEF Book!RecordFirstPass, answered, compared
    <3>3. Answers(r, TRUE, c)
      BY <2>3, <3>1 DEF Answers, FirstPass, Directions
    <3> QED
      BY <2>1, <3>2, <3>3 DEF Pending, FrameStep, Book!NotRecording
  <2>4. CASE commits(r) /\ SecondPass(r)
    BY <1>0, <2>4, SecondPassPends DEF FrameStep, SecondPass
  <2>5. CASE commits(r) /\ NoPass(r)
    <3>1. recording' = recording /\ call' \in {"NONE", "APPEND"}
      BY <2>5 DEF NoPass, books, answered, compared
    <3>2. Answers(r, FALSE, None)
      BY <2>5 DEF Answers, NoPass
    <3> QED
      BY <2>1, <3>1, <3>2 DEF Pending, FrameStep, Book!NotRecording
  <2> QED
    BY <1>1, <2>2, <2>3, <2>4, <2>5 DEF Scale
<1>2. CASE FindCalled
  <2>1. /\ call = "COMMIT" /\ frame \in ScaleInputs /\ commits(frame)
        /\ recording.step \in {"OBSERVED", "FOUND"}
    BY <1>2 DEF FindCalled, Pending
  <2>2. \/ recording' = Book!NotRecording
        \/ \E c \in Cycles :
             recording' = [step |-> "FOUND", pass |-> recording.pass, cycle |-> c]
    BY <1>2 DEF FindCalled, Book!FindCalledCycle
  <2>3. CASE recording'.step = "FOUND"
    <3>1. UNCHANGED <<vars, outcome, passes, call>>
      BY <1>2, <2>3 DEF FindCalled
    <3>2. /\ recording'.pass = recording.pass /\ recording'.cycle \in Cycles
      BY <2>2, <2>3 DEF Book!NotRecording
    <3> QED
      BY <1>0, <2>1, <2>3, <3>1, <3>2, StillPends DEF FrameStep
  <2>4. CASE recording'.step # "FOUND"
    <3>1. recording' = Book!NotRecording
      BY <2>2, <2>4
    <3>2. answered(frame, FALSE, None)
      BY <1>2, <2>4 DEF FindCalled
    <3>3. Answers(frame, FALSE, None) /\ call' \in {"NONE", "APPEND"}
      BY <2>1, <3>2 DEF Answers, answered, compared
    <3> QED
      BY <1>0, <2>1, <3>1, <3>3 DEF Pending, FrameStep
  <2> QED
    BY <2>3, <2>4
<1>3. CASE Settle
  <2> DEFINE c == recording.cycle
             done == status'[c] = "COMPLETE"
  <2>1. /\ call = "COMMIT" /\ frame \in ScaleInputs /\ commits(frame)
        /\ direction = "B_TO_A"
    BY <1>3 DEF Settle, Pending
  <2>2. /\ Book!RecordSecondPass /\ recording' = Book!NotRecording
        /\ answered(frame, done, c)
    BY <1>3 DEF Settle, Book!RecordSecondPass
  <2>3. call' \in {"NONE", "APPEND"}
    BY <2>2 DEF answered, compared
  <2>4. c \in Cycles
    BY <1>3, <2>1 DEF Pending, Settle, Book!RecordSecondPass
  <2>5. done \in BOOLEAN /\ Answers(frame, done, c)
    BY <2>1, <2>2, <2>4 DEF Answers, Directions
  <2> QED
    BY <1>0, <2>1, <2>2, <2>3, <2>4, <2>5 DEF Pending, FrameStep
<1> QED
  BY <1>0, <1>1, <1>2, <1>3

\* Lemma: only frames and the coordinator touch the pass in hand.
LEMMA PendingStep ==
  ASSUME Pending, [PassNext]_passVars
  PROVE  Pending'
<1> USE DEF session
<1>1. CASE \/ \E r \in ScaleInputs : Scale(r)
           \/ FindCalled
           \/ Settle
  BY <1>1, FrameCases
<1>2. CASE /\ recording' = recording /\ call # "COMMIT"
           /\ call' \in {"NONE", "BIND", "APPEND"}
  BY <1>2 DEF Pending
<1>3. CASE \E p \in PositionInputs : Position(p)
  BY <1>2, <1>3 DEF Position, EndPass, CrossSensors, observed, books
<1>4. CASE \/ \E tag \in Tags : RFID(tag)
           \/ \E plate \in Plates : LPR(plate)
  BY <1>2, <1>4 DEF RFID, LPR, observed, books
<1>5. CASE \/ \E d \in CriticalFaults : Fault(d)
           \/ \E d \in Clearable : Clear(d)
  BY <1>2, <1>5 DEF Fault, Clear, compared, books
<1>6. CASE Bind \/ AppendRecords \/ AppendFails
  BY <1>2, <1>6 DEF Bind, AppendRecords, AppendFails, books
<1>7. CASE UNCHANGED <<vars, session, call, recording>>
  <2>1. CASE call # "COMMIT"
    BY <1>7, <2>1 DEF Pending
  <2>2. CASE call = "COMMIT"
    BY <1>7, <2>2, StillPends DEF Pending
  <2> QED
    BY <2>1, <2>2
<1>8. CASE \/ \E c \in Cycles : CallCycle(c)
           \/ Expire \/ Tick \/ UNCHANGED passVars
  BY <1>7, <1>8
     DEF CallCycle, Book!Call, Expire, Book!ExpireOrphans, Book!ExpireOne,
         Book!AbortExpiry, Tick, Book!Tick, passVars, books
<1>9. CASE Reboot
  BY <1>9 DEF Reboot, Book!Crash, Pending
<1> QED
  BY <1>1, <1>3, <1>4, <1>5, <1>6, <1>8, <1>9 DEF PassNext

\* The engine waits for the coordinator throughout.
LEMMA PendingHolds == PassSpec => []Pending
<1>1. PassInit => Pending
  BY DEF PassInit, Book!Init, Pending
<1>2. Pending /\ [PassNext]_passVars => Pending'
  BY PendingStep
<1> QED
  BY <1>1, <1>2, PTL DEF PassSpec

-----------------------------------------------------------------------------
(* The station implements the engine.                                      *)

\* A step of the station is a step of the engine, or leaves it alone.
LEMMA StepOfEngine == Pending /\ [PassNext]_passVars => [Next]_vars
<1> SUFFICES ASSUME Pending, [PassNext]_passVars PROVE [Next]_vars
  OBVIOUS
<1>1. CASE \E p \in PositionInputs : Position(p)
  <2>1. PICK p \in PositionInputs : EndPass(p) \/ CrossSensors(p)
    BY <1>1 DEF Position
  <2>2. CASE EndPass(p)
    BY <2>2 DEF EndPass, endPass, Next
  <2>3. CASE CrossSensors(p)
    <3>1. \E q \in PositionInputs : ObservePosition(q)
      BY <2>3, SessionAssumption DEF CrossSensors
    <3> QED
      BY <3>1 DEF Next
  <2> QED
    BY <2>1, <2>2, <2>3
<1>2. CASE \E tag \in Tags : RFID(tag)
  BY <1>2 DEF RFID, Next
<1>3. CASE \E plate \in Plates : LPR(plate)
  BY <1>3 DEF LPR, Next
<1>4. CASE \/ \E r \in ScaleInputs : Scale(r)
           \/ FindCalled
           \/ Settle
  <2>1. FrameStep
    BY <1>4, FrameCases
  <2>2. \/ UNCHANGED vars
        \/ \E r \in ScaleInputs, durable \in BOOLEAN : ObserveScale(r, durable)
    BY <2>1 DEF FrameStep, Answers, answered
  <2> QED
    BY <2>2 DEF Next
<1>5. CASE \E d \in CriticalFaults : Fault(d)
  BY <1>5 DEF Fault, Next
<1>6. CASE \E d \in Clearable : Clear(d)
  BY <1>6 DEF Clear, Next
<1>7. CASE AppendFails
  BY <1>7, SessionAssumption DEF AppendFails, lossRaised, Next
<1>8. CASE \/ Bind \/ AppendRecords
           \/ \E c \in Cycles : CallCycle(c)
           \/ Expire
           \/ Tick
  BY <1>8 DEF Bind, AppendRecords, CallCycle, Expire, Tick
<1>9. CASE Reboot
  BY <1>9 DEF Reboot, Next
<1>10. CASE UNCHANGED passVars
  BY <1>10 DEF passVars
<1> QED
  BY <1>1, <1>2, <1>3, <1>4, <1>5, <1>6, <1>7, <1>8, <1>9, <1>10 DEF PassNext

\* Session, bridge, recorder and books do nothing to the engine that is not an
\* operation of the engine: the station implements it.
THEOREM StationImplementsEngine == PassSpec => EngineImplemented
<1>1. PassInit => Init
  BY DEF PassInit
<1> QED
  BY <1>1, StepOfEngine, PendingHolds, PTL DEF PassSpec, EngineImplemented, Spec

\* The engine's invariant holds in the station.
THEOREM EngineInvHolds == PassSpec => []Inv
BY StationImplementsEngine, InvHolds, PTL DEF EngineImplemented

-----------------------------------------------------------------------------
(* A lost audit record is final.                                           *)

LossIsCritical == lost => faults["AUDIT_STORE"] = "CRITICAL"

\* Lemma: no step but a restart clears the fault of the audit store.
LEMMA AuditFaultStays ==
  ASSUME TypeOK, Pending, [PassNext]_passVars, faults["AUDIT_STORE"] = "CRITICAL"
  PROVE  faults'["AUDIT_STORE"] = "CRITICAL" \/ Reboot
<1>0. faults \in [Devices -> {"NONE", "AUX", "CRITICAL"}]
      /\ "AUDIT_STORE" \in Devices /\ CriticalFaults \subseteq Devices
  BY ConstantsAssumption DEF TypeOK, Devices
<1>1. CASE \E p \in PositionInputs : Position(p)
  BY <1>1 DEF Position, EndPass, endPass, CrossSensors, ObservePosition,
              ResetCompleted
<1>2. CASE \/ \E tag \in Tags : RFID(tag)
           \/ \E plate \in Plates : LPR(plate)
  BY <1>2 DEF RFID, LPR, ObserveRFID, ObserveLPR
<1>3. CASE \/ \E r \in ScaleInputs : Scale(r)
           \/ FindCalled
           \/ Settle
  <2>1. FrameStep
    BY <1>3, FrameCases
  <2>2. \/ faults' = faults
        \/ \E kind : faults' = [faults EXCEPT !["SCALE"] = kind]
    BY <2>1 DEF FrameStep, Answers, answered, ObserveScale, unhealthyFrame,
                healthyFrame, vars
  <2> QED
    BY <1>0, <2>2
<1>4. CASE \E d \in CriticalFaults : Fault(d)
  BY <1>0, <1>4 DEF Fault, ObserveFault
<1>5. CASE \E d \in Clearable : Clear(d)
  BY <1>0, <1>5 DEF Clear, ClearFault
<1>6. CASE AppendFails
  BY <1>0, <1>6 DEF AppendFails, lossRaised, ObserveFault
<1>7. CASE \/ Bind \/ AppendRecords \/ Expire \/ Tick \/ Reboot
           \/ \E c \in Cycles : CallCycle(c)
           \/ UNCHANGED passVars
  BY <1>7 DEF Bind, AppendRecords, Tick, CallCycle, Expire, passVars, vars
<1> QED
  BY <1>1, <1>2, <1>3, <1>4, <1>5, <1>6, <1>7 DEF PassNext

\* Lemma: and none loses a record without raising it.
LEMMA LossStep ==
  ASSUME TypeOK, Pending, LossIsCritical, [PassNext]_passVars
  PROVE  LossIsCritical'
<1>1. CASE lost' /\ lost
  BY <1>1, AuditFaultStays DEF LossIsCritical, Reboot
<1>2. CASE lost' /\ ~lost
  <2>1. \/ \E d \in CriticalFaults : d = "AUDIT_STORE" /\ Fault(d)
        \/ AppendFails
    BY <1>2 DEF PassNext, Position, RFID, LPR, Scale, FindCalled, Settle, Fault,
                Clear, Bind, AppendRecords, CallCycle, Expire, Tick, Reboot, passVars
  <2>2. ObserveFault("AUDIT_STORE", "CRITICAL")
    BY <2>1 DEF Fault, AppendFails, lossRaised
  <2>3. "AUDIT_STORE" \in DOMAIN faults
    BY DEF TypeOK, Devices
  <2> QED
    BY <2>2, <2>3 DEF ObserveFault, LossIsCritical
<1> QED
  BY <1>1, <1>2 DEF LossIsCritical

\* Once an audit record is lost nothing is permitted until a restart.
THEOREM LossIsFinal == PassSpec => []AuditLossIsFinal
<1>1. PassInit => LossIsCritical
  BY DEF PassInit, LossIsCritical
<1>2. /\ LossIsCritical /\ Pending /\ Inv /\ [PassNext]_passVars
      => LossIsCritical'
  BY LossStep DEF Inv
<1>3. PassSpec => []LossIsCritical
  BY <1>1, <1>2, EngineInvHolds, PendingHolds, PTL DEF PassSpec
<1>4. LossIsCritical /\ Inv => AuditLossIsFinal
  BY DEF LossIsCritical, Inv, CriticalFaultLocksOut, Critical, Devices, Quiet,
         AuditLossIsFinal, Snapshot
<1> QED
  BY <1>3, <1>4, EngineInvHolds, PTL

-----------------------------------------------------------------------------
(* The identity of the truck.                                              *)

InProgress(t) == t.state \notin {"IDLE", "COMPLETE", "FAULT_LOCKOUT"}

\* Beyond the states in which the identity is awaited.
Begun(t) == InProgress(t) /\ t.state \notin {"APPROACH", "IDENTIFYING"}

\* What the helpers that do not evaluate the identity leave alone.
Reads(t, u) ==
  /\ u.rfid = t.rfid /\ u.lpr = t.lpr
  /\ u.overrides = t.overrides /\ u.identity = t.identity
  /\ InProgress(u) => InProgress(t)
  /\ Begun(u) => Begun(t) \/ t.identity = "ACCEPTED"
  /\ u.state = "COMPLETE" /\ u.entry => t.state = "COMPLETE" /\ t.entry

\* No channel is bad and nothing is overridden: the station has no such calls.
Clean(t) ==
  ~t.rfid.bad /\ ~t.lpr.bad /\ \A d \in Devices : t.overrides[d] = {}

BothRead(t) == t.rfid.tag # None /\ t.lpr.plate # None

Matches(t) ==
  /\ BothRead(t) /\ Resolves(t.rfid.tag)
  /\ NormalizePlate[Vehicles[t.rfid.tag]] = NormalizePlate[t.lpr.plate]

\* An identity that was decided, or acted on, had both channels to decide by.
Decided(t) ==
  InProgress(t) /\ (t.identity # "PENDING" \/ Begun(t)) => BothRead(t)

\* The identity is what the channels' latest readings make of it, as far as a
\* matching pair is accepted.
Known(t) ==
  /\ Clean(t) /\ Decided(t)
  /\ InProgress(t) /\ Matches(t) => t.identity = "ACCEPTED"
  /\ t.state = "COMPLETE" => ~t.entry

\* Lemma: Reads is a preorder that keeps what is known.
LEMMA ReadsFacts ==
  ASSUME NEW t, NEW u, NEW v
  PROVE  /\ Reads(t, t)
         /\ Reads(t, u) /\ Reads(u, v) => Reads(t, v)
         /\ Reads(t, u) /\ Known(t) => Known(u)
<1>1. Reads(t, t)
  BY DEF Reads
<1>2. Reads(t, u) /\ Reads(u, v) => Reads(t, v)
  BY DEF Reads
<1>3. ASSUME Reads(t, u), Known(t) PROVE Known(u)
  <2>1. Clean(u)
    BY <1>3 DEF Reads, Known, Clean
  <2>2. Decided(u)
    BY <1>3 DEF Reads, Known, Decided, BothRead
  <2>3. InProgress(u) /\ Matches(u) => u.identity = "ACCEPTED"
    BY <1>3 DEF Reads, Known, Matches, BothRead
  <2>4. u.state = "COMPLETE" => ~u.entry
    BY <1>3 DEF Reads, Known
  <2> QED
    BY <2>1, <2>2, <2>3, <2>4 DEF Known
<1> QED
  BY <1>1, <1>2, <1>3

\* Lemma: the helpers that only change state, mode, position or requests.
LEMMA HelperReads ==
  ASSUME NEW t \in Transactions, NEW f, NEW s
  PROVE  /\ Reads(t, lockout(t)) /\ Reads(t, updateMode(t, f))
         /\ Reads(t, evaluatePosition(t, f))
         /\ Reads(t, tryReadyToWeigh(t, s))
         /\ InProgress(t) => Reads(t, tryAuthorizeEntry(t, s))
<1>1. Reads(t, lockout(t))
  BY DEF Reads, lockout, InProgress, Begun, Transactions
<1>2. Reads(t, updateMode(t, f))
  BY DEF Reads, updateMode, InProgress, Begun, Transactions
<1>3. Reads(t, evaluatePosition(t, f))
  BY DEF Reads, evaluatePosition, InProgress, Begun, Transactions
<1>4. Reads(t, tryReadyToWeigh(t, s))
  <2> DEFINE u == [t EXCEPT !.state = "READY_TO_WEIGH"]
  <2>1. \/ tryReadyToWeigh(t, s) \in {t, lockout(t)}
        \/ tryReadyToWeigh(t, s) = u /\ Begun(t)
    BY DEF tryReadyToWeigh, stateBeforeWeigh, Begun, InProgress
  <2>2. Begun(t) => Reads(t, u)
    BY DEF Reads, Begun, InProgress, Transactions
  <2> HIDE DEF u
  <2> QED
    BY <1>1, <2>1, <2>2, ReadsFacts
<1>5. ASSUME InProgress(t) PROVE Reads(t, tryAuthorizeEntry(t, s))
  <2> DEFINE u == [t EXCEPT !.state = "ENTRY_AUTHORIZED", !.entry = TRUE]
  <2>1. \/ tryAuthorizeEntry(t, s) \in {t, lockout(t)}
        \/ tryAuthorizeEntry(t, s) = u /\ t.identity = "ACCEPTED"
    BY DEF tryAuthorizeEntry
  <2>2. t.identity = "ACCEPTED" => Reads(t, u)
    BY <1>5 DEF Reads, Begun, InProgress, Transactions
  <2> QED
    BY <1>1, <2>1, <2>2, ReadsFacts
<1> QED
  BY <1>1, <1>2, <1>3, <1>4, <1>5

\* Lemma: a waiting truck may be authorised.
LEMMA AuthorizeIfIdentifiedReads ==
  ASSUME NEW t \in Transactions, NEW s
  PROVE  Reads(t, authorizeIfIdentified(t, s))
BY HelperReads, ReadsFacts DEF authorizeIfIdentified, InProgress

\* Lemma: the truck on the deck.
LEMMA DriveOnReads ==
  ASSUME NEW t \in Transactions, NEW f, NEW s
  PROVE  Reads(t, driveOn(t, f, s))
<1> DEFINE on == IF t.state \in {"ENTRY_AUTHORIZED", "ENTERING"}
                 THEN [t EXCEPT !.state = "POSITIONING"] ELSE t
           placed == evaluatePosition(on, f)
<1>1. on \in Transactions /\ Reads(t, on)
  BY DEF Reads, Begun, InProgress, Transactions, States
<1>2. placed \in Transactions /\ Reads(t, placed)
  BY <1>1, EvaluatePositionEvolves, HelperReads, ReadsFacts DEF Evolves
<1>3. driveOn(t, f, s) \in {t, placed, tryReadyToWeigh(placed, s)}
  BY DEF driveOn
<1> HIDE DEF placed, on
<1> QED
  BY <1>2, <1>3, HelperReads, ReadsFacts

\* Lemma: the truck off the deck.
LEMMA DriveOffReads ==
  ASSUME NEW t \in Transactions
  PROVE  Reads(t, driveOff(t))
<1> DEFINE gone == [t EXCEPT !.exitSeen = TRUE, !.state = "EXITING"]
           complete == [t EXCEPT !.state = "COMPLETE", !.entry = FALSE, !.exit = FALSE]
<1>1. \/ driveOff(t) = t
      \/ driveOff(t) = gone /\ t.state = "EXIT_AUTHORIZED"
      \/ driveOff(t) = complete
  BY DEF driveOff, Transactions
<1>2. t.state = "EXIT_AUTHORIZED" => Reads(t, gone)
  BY DEF Reads, Begun, InProgress, Transactions
<1>3. Reads(t, complete)
  BY DEF Reads, Begun, InProgress, Transactions
<1> HIDE DEF gone, complete
<1> QED
  BY <1>1, <1>2, <1>3, ReadsFacts

\* Lemma: the position handler.
LEMMA AfterPositionReads ==
  ASSUME NEW t \in Transactions, NEW p \in Sensors, NEW f, NEW s
  PROVE  Reads(t, afterPosition(t, p, f, s))
<1> DEFINE seen == [t EXCEPT !.sensors = p]
           a == authorizeIfIdentified(seen, s)
           b == driveOn(a, f, s)
<1>1. seen \in Transactions /\ Reads(t, seen)
  BY DEF Reads, Begun, InProgress, Transactions
<1>2. a \in Transactions /\ Reads(t, a)
  BY <1>1, AuthorizeIfIdentifiedEvolves, AuthorizeIfIdentifiedReads, ReadsFacts
     DEF Evolves
<1>3. b \in Transactions /\ Reads(t, b)
  BY <1>2, DriveOnEvolves, DriveOnReads, ReadsFacts DEF Evolves
<1>4. Reads(t, driveOff(b))
  BY <1>3, DriveOffReads, ReadsFacts
<1> QED
  BY <1>1, <1>4 DEF afterPosition

\* Lemma: a frame on a waiting or a placed truck.
LEMMA BeginWeighingReads ==
  ASSUME NEW t \in Transactions, NEW r
  PROVE  Reads(t, beginWeighing(t, r))
<1> DEFINE a == authorizeIfIdentified(t, r)
           ready == tryReadyToWeigh(a, r)
           weighing == [ready EXCEPT !.state = "WEIGHING"]
<1>1. a \in Transactions /\ Reads(t, a)
  BY AuthorizeIfIdentifiedEvolves, AuthorizeIfIdentifiedReads DEF Evolves
<1>2. ready \in Transactions /\ Reads(t, ready)
  BY <1>1, TryReadyToWeighEvolves, HelperReads, ReadsFacts DEF Evolves
<1>3. ready.state = "READY_TO_WEIGH" => Reads(ready, weighing)
  BY <1>2 DEF Reads, Begun, InProgress, Transactions
<1>4. \/ beginWeighing(t, r) = ready
      \/ beginWeighing(t, r) = weighing /\ ready.state = "READY_TO_WEIGH"
  BY DEF beginWeighing
<1> HIDE DEF ready, weighing, a
<1> QED
  BY <1>2, <1>3, <1>4, ReadsFacts

\* Lemma: the evaluation of the identity makes it known again, whatever has
\* just been read, and accepts only what matches or was accepted.
LEMMA EvaluateKnown ==
  ASSUME NEW t \in Transactions, NEW f, NEW s, Clean(t), Decided(t),
         InProgress(t) => f["RFID"] = "NONE" /\ f["LPR"] = "NONE",
         t.state = "COMPLETE" => ~t.entry
  PROVE  LET u == evaluateIdentity(t, f, s) IN
         /\ Known(u) /\ u.rfid = t.rfid /\ u.lpr = t.lpr
         /\ InProgress(u) => InProgress(t)
         /\ u.identity = "ACCEPTED" => t.identity = "ACCEPTED" \/ Matches(t)
<1> DEFINE mismatched == [t EXCEPT !.identity = "MISMATCH",
                                   !.state = "IDENTITY_MISMATCH",
                                   !.entry = FALSE]
           matched == [t EXCEPT !.identity = "ACCEPTED",
                                !.state = IF @ = "IDENTITY_MISMATCH"
                                          THEN "IDENTIFYING" ELSE @]
           u == evaluateIdentity(t, f, s)
<1>1. CASE ~InProgress(t)
  BY <1>1 DEF evaluateIdentity, InProgress, Known
<1>2. CASE InProgress(t) /\ ~BothRead(t)
  <2>1. u = t
    BY <1>2 DEF evaluateIdentity, InProgress, crossCheck, Clean, BothRead
  <2> QED
    BY <1>2, <2>1 DEF Known, Matches
<1>3. CASE InProgress(t) /\ BothRead(t)
  <2>1. u = matchIdentity(t, s)
    BY <1>3 DEF evaluateIdentity, InProgress, crossCheck, Clean, BothRead
  <2>2. \/ u = manualIdentity(t) /\ ~Resolves(t.rfid.tag)
        \/ /\ u = mismatched
           /\ NormalizePlate[Vehicles[t.rfid.tag]] # NormalizePlate[t.lpr.plate]
        \/ u = tryAuthorizeEntry(matched, s) /\ Matches(t)
    BY <1>3, <2>1 DEF matchIdentity, Matches
  <2>3. CASE u = manualIdentity(t) /\ ~Resolves(t.rfid.tag)
    <3>1. /\ u.rfid = t.rfid /\ u.lpr = t.lpr /\ u.overrides = t.overrides
          /\ u.state = t.state /\ u.entry = t.entry /\ u.identity # "ACCEPTED"
      BY <2>3 DEF manualIdentity, Transactions
    <3> QED
      BY <1>3, <2>3, <3>1 DEF Known, Clean, Decided, Matches, BothRead, InProgress
  <2>4. CASE /\ u = mismatched
             /\ NormalizePlate[Vehicles[t.rfid.tag]] # NormalizePlate[t.lpr.plate]
    <3>1. /\ u.rfid = t.rfid /\ u.lpr = t.lpr /\ u.overrides = t.overrides
          /\ u.identity # "ACCEPTED" /\ u.state # "COMPLETE"
      BY <2>4 DEF Transactions
    <3> QED
      BY <1>3, <2>4, <3>1 DEF Known, Clean, Decided, Matches, BothRead
  <2>5. CASE u = tryAuthorizeEntry(matched, s) /\ Matches(t)
    <3>1. /\ matched \in Transactions /\ matched.rfid = t.rfid /\ matched.lpr = t.lpr
          /\ matched.overrides = t.overrides /\ matched.identity = "ACCEPTED"
          /\ InProgress(matched)
      BY <1>3 DEF Transactions, States, Identities, InProgress
    <3> HIDE DEF matched
    <3>2. Known(matched)
      BY <1>3, <3>1 DEF Known, Clean, Decided, BothRead, InProgress
    <3>3. Reads(matched, u)
      BY <2>5, <3>1, HelperReads
    <3>4. Known(u)
      BY <3>2, <3>3, ReadsFacts
    <3> QED
      BY <1>3, <2>5, <3>1, <3>3, <3>4 DEF Reads
  <2> QED
    BY <2>2, <2>3, <2>4, <2>5
<1> QED
  BY <1>1, <1>2, <1>3

\* No channel is overridden or bad: the station reports critical faults only.
NoAux == \A d \in Devices : faults[d] # "AUX"

Knows == NoAux /\ Known(tx)

KnownAfter == (\A d \in Devices : faults'[d] # "AUX") /\ Known(tx')

\* A step that reads no identity, and accepts none.
Stays ==
  /\ tx'.rfid = tx.rfid /\ tx'.lpr = tx.lpr
  /\ InProgress(tx') /\ tx'.identity = "ACCEPTED" =>
       InProgress(tx) /\ tx.identity = "ACCEPTED"

\* Lemma: without a transaction nothing is to be known.
LEMMA NoTxKnown == Known(NoTx)
BY DEF NoTx, NewTx, Known, Clean, Decided, InProgress, Devices

\* Lemma: nor is there of one that starts.
LEMMA NewIsKnown ==
  ASSUME NEW id \in Nat, NEW f
  PROVE  Known(startTransaction(id, f))
<1> DEFINE new == NewTx(id)
           moded == updateMode(new, f)
           u == [moded EXCEPT !.state = "IDENTIFYING"]
<1>1. /\ new \in Transactions /\ new.state = "APPROACH" /\ new.identity = "PENDING"
      /\ Clean(new) /\ ~BothRead(new)
  BY DEF NewTx, Transactions, States, Modes, Identities, Positions, Sensors,
         AllClear, Clean, BothRead
<1>2. Known(new)
  BY <1>1 DEF Known, Decided, Begun, Matches
<1>3. /\ moded \in Transactions /\ Reads(new, moded) /\ moded.state = "APPROACH"
  BY <1>1, UpdateModeEvolves, HelperReads DEF Evolves
<1> HIDE DEF moded
<1>4. Reads(moded, u)
  BY <1>3 DEF Reads, InProgress, Begun, Transactions
<1>5. Known(u) /\ Known(lockout(new))
  BY <1>1, <1>2, <1>3, <1>4, HelperReads, ReadsFacts
<1> HIDE DEF u, new
<1>6. startTransaction(id, f) \in {lockout(new), u}
  BY DEF startTransaction, new, moded, u
<1> QED
  BY <1>5, <1>6

\* Lemma: what the engine's invariant says of a pass in progress.
LEMMA HealthyInProgress ==
  ASSUME TypeOK, CriticalFaultLocksOut, NoAux, InProgress(tx)
  PROVE  \A d \in Devices : faults[d] = "NONE"
<1>1. \A d \in Devices : faults[d] \in {"NONE", "AUX", "CRITICAL"}
  BY DEF TypeOK
<1>2. \A d \in Devices : ~Critical(faults, d)
  BY DEF CriticalFaultLocksOut, InProgress
<1> QED
  BY <1>1, <1>2 DEF NoAux, Critical

\* Lemma: a step that evaluates no identity keeps what is known.
LEMMA ReadingStays ==
  ASSUME Known(tx), Reads(tx, tx')
  PROVE  Known(tx') /\ Stays
<1>1. Known(tx')
  BY ReadsFacts
<1> QED
  BY <1>1 DEF Reads, Stays

\* Lemma: positions start, carry on or drop the transaction.
LEMMA PositionKnows ==
  ASSUME TypeOK, Knows, NEW p \in PositionInputs, Position(p)
  PROVE  KnownAfter
<1>1. CASE EndPass(p)
  <2>1. tx' = NoTx /\ faults' = faults
    BY <1>1 DEF EndPass, endPass, ResetCompleted
  <2> QED
    BY <2>1, NoTxKnown DEF Knows, KnownAfter, NoAux
<1>2. CASE CrossSensors(p)
  <2> DEFINE q == IF direction' = "B_TO_A" THEN swapPhysicalPosition(p) ELSE p
             new == startTransaction(started + 1, faults)
  <2>1. q \in PositionInputs /\ ObservePosition(q)
    BY <1>2, SessionAssumption DEF CrossSensors
  <2>2. /\ q \in Sensors /\ started + 1 \in Nat /\ tx \in Transactions
        /\ faults' = faults
    BY <2>1, ConstantsAssumption DEF TypeOK, ObservePosition
  <2> HIDE DEF q
  <2>3. CASE tx.state = "IDLE" /\ q.entry
    <3>1. new \in Transactions /\ new.state # "IDLE"
      BY <2>2, NewTransaction
    <3>2. tx' = afterPosition(new, q, faults, lastScale)
      BY <2>1, <2>3, <3>1 DEF ObservePosition
    <3>3. Known(new)
      BY <2>2, NewIsKnown
    <3> QED
      BY <2>2, <3>1, <3>2, <3>3, AfterPositionReads, ReadsFacts
         DEF Knows, KnownAfter, NoAux
  <2>4. CASE ~(tx.state = "IDLE" /\ q.entry)
    <3>1. tx' = tx \/ tx' = afterPosition(tx, q, faults, lastScale)
      BY <2>1, <2>4 DEF ObservePosition
    <3> QED
      BY <2>2, <3>1, AfterPositionReads, ReadsFacts DEF Knows, KnownAfter, NoAux
  <2> QED
    BY <2>3, <2>4
<1> QED
  BY <1>1, <1>2 DEF Position

\* Lemma: a tag or a plate is read.
LEMMA IdentityKnows ==
  ASSUME TypeOK, CriticalFaultLocksOut, Knows,
         \/ \E tag \in Tags : RFID(tag)
         \/ \E plate \in Plates : LPR(plate)
  PROVE  KnownAfter
<1>0. tx \in Transactions /\ None \notin Tags /\ None \notin Plates
  BY ConstantsAssumption DEF TypeOK
<1>1. PICK t \in Transactions :
        /\ tx' = evaluateIdentity(t, faults, lastScale)
        /\ Clean(t) /\ Decided(t) /\ (t.state = "COMPLETE" => ~t.entry)
        /\ t.state = tx.state
  <2>1. ASSUME NEW tag \in Tags
        PROVE  LET t == [tx EXCEPT !.rfid = [tag |-> tag, bad |-> FALSE]] IN
               /\ t \in Transactions /\ t.state = tx.state
               /\ Clean(t) /\ Decided(t) /\ (t.state = "COMPLETE" => ~t.entry)
    BY <1>0 DEF Transactions, Knows, Known, Clean, Decided, InProgress, Begun,
                BothRead
  <2>2. ASSUME NEW plate \in Plates
        PROVE  LET t == [tx EXCEPT !.lpr = [plate |-> plate, bad |-> FALSE]] IN
               /\ t \in Transactions /\ t.state = tx.state
               /\ Clean(t) /\ Decided(t) /\ (t.state = "COMPLETE" => ~t.entry)
    BY <1>0 DEF Transactions, Knows, Known, Clean, Decided, InProgress, Begun,
                BothRead
  <2> QED
    BY <2>1, <2>2 DEF RFID, LPR, ObserveRFID, ObserveLPR
<1>2. InProgress(t) => faults["RFID"] = "NONE" /\ faults["LPR"] = "NONE"
  BY <1>1, HealthyInProgress DEF Knows, InProgress, Devices
<1>3. Known(tx')
  BY <1>1, <1>2, EvaluateKnown
<1>4. faults' = faults
  BY DEF RFID, LPR, ObserveRFID, ObserveLPR
<1> QED
  BY <1>3, <1>4 DEF Knows, KnownAfter, NoAux

\* Lemma: a frame reads no identity.
LEMMA ScaleKnows ==
  ASSUME TypeOK, Knows, NEW r \in ScaleInputs, NEW durable \in BOOLEAN,
         ObserveScale(r, durable)
  PROVE  KnownAfter /\ Stays
<1> DEFINE t == beginWeighing(tx, r)
           c == [t EXCEPT !.confirmations = confirm(t, r)]
           reset == [t EXCEPT !.confirmations = 0]
           out == [c EXCEPT !.state = "EXIT_AUTHORIZED", !.entry = FALSE,
                            !.exit = TRUE]
<1>0. tx \in Transactions
  BY DEF TypeOK
<1>1. \A d \in Devices : faults'[d] # "AUX"
  <2>1. \/ faults' = [faults EXCEPT !["SCALE"] = "CRITICAL"]
        \/ faults' = [faults EXCEPT !["SCALE"] = "NONE"]
    BY DEF ObserveScale, unhealthyFrame, healthyFrame
  <2> QED
    BY <2>1 DEF Knows, NoAux, TypeOK
<1>2. t \in Transactions /\ Reads(tx, t)
  BY <1>0, BeginWeighingEvolves, BeginWeighingReads DEF Evolves
<1>3. \/ tx' = tx \/ tx' = lockout(tx) \/ tx' = t \/ tx' = reset \/ tx' = c
      \/ tx' = lockout(c)
      \/ tx' = out /\ t.state = "WEIGHING"
  BY DEF ObserveScale, unhealthyFrame, healthyFrame, weighFrame, commitTicket
<1> HIDE DEF t
<1>4. c \in Transactions /\ Reads(t, c) /\ Reads(t, reset)
  BY <1>2 DEF confirm, Transactions, Reads, InProgress, Begun
<1>5. t.state = "WEIGHING" => Reads(t, out)
  BY <1>2, <1>4 DEF Transactions, Reads, InProgress, Begun
<1> HIDE DEF c, reset, out
<1>6. Reads(tx, lockout(tx)) /\ Reads(tx, tx) /\ Reads(c, lockout(c))
  BY <1>0, <1>4, HelperReads, ReadsFacts
<1>7. /\ Reads(tx, c) /\ Reads(tx, reset) /\ Reads(tx, lockout(c))
      /\ t.state = "WEIGHING" => Reads(tx, out)
  BY <1>2, <1>4, <1>5, <1>6, ReadsFacts
<1>8. Reads(tx, tx')
  BY <1>2, <1>3, <1>6, <1>7
<1> QED
  BY <1>1, <1>8, ReadingStays DEF Knows, KnownAfter

\* Lemma: nor does the engine while the coordinator is at work.
LEMMA FrameKnows ==
  ASSUME TypeOK, Knows, FrameStep
  PROVE  KnownAfter /\ Stays
<1>1. CASE UNCHANGED vars
  BY <1>1 DEF vars, Knows, KnownAfter, NoAux, Stays
<1>2. CASE \E r \in ScaleInputs, durable \in BOOLEAN : ObserveScale(r, durable)
  BY <1>2, ScaleKnows
<1> QED
  BY <1>1, <1>2 DEF FrameStep, Answers, answered

\* Lemma: a critical fault locks out whatever is there.
LEMMA CriticalKnows ==
  ASSUME TypeOK, Knows, NEW d \in Devices, ObserveFault(d, "CRITICAL")
  PROVE  KnownAfter /\ Stays
<1>0. tx \in Transactions
  BY DEF TypeOK
<1>1. /\ faults' = [faults EXCEPT ![d] = "CRITICAL"]
      /\ tx' = tx \/ tx' = lockout(tx)
  BY DEF ObserveFault, Critical, TypeOK
<1>2. \A e \in Devices : faults'[e] # "AUX"
  BY <1>1 DEF Knows, NoAux, TypeOK
<1>3. Reads(tx, tx')
  <2>1. Reads(tx, tx) /\ Reads(tx, lockout(tx))
    BY <1>0, HelperReads, ReadsFacts
  <2> QED
    BY <1>1, <2>1
<1> QED
  BY <1>2, <1>3, ReadingStays DEF Knows, KnownAfter

\* Lemma: a cleared fault finds nothing new about the identity.
LEMMA ClearKnows ==
  ASSUME TypeOK, CriticalFaultLocksOut, Knows, NEW d \in Devices, ClearFault(d)
  PROVE  KnownAfter /\ Stays
<1> DEFINE f == [faults EXCEPT ![d] = "NONE"]
           moded == updateMode(tx, f)
           placed == IF deckSensor(d) THEN evaluatePosition(moded, f) ELSE moded
<1>0. tx \in Transactions /\ faults \in [Devices -> {"NONE", "AUX", "CRITICAL"}]
  BY DEF TypeOK
<1>1. faults' = f /\ \A e \in Devices : faults'[e] # "AUX"
  BY <1>0 DEF ClearFault, Knows, NoAux
<1>2. moded \in Transactions /\ Reads(tx, moded)
  BY <1>0, UpdateModeEvolves, HelperReads DEF Evolves
<1>3. placed \in Transactions /\ Reads(tx, placed)
  <2> HIDE DEF moded
  <2> QED
    BY <1>2, EvaluatePositionEvolves, HelperReads, ReadsFacts DEF Evolves
<1>4. tx' = IF tx.state = "IDLE" THEN tx ELSE evaluateIdentity(placed, f, lastScale)
  BY DEF ClearFault
<1> HIDE DEF placed
<1>5. CASE tx.state = "IDLE"
  BY <1>1, <1>4, <1>5 DEF Knows, KnownAfter, Stays, InProgress
<1>6. CASE tx.state # "IDLE"
  <2>1. Known(placed) /\ (InProgress(placed) => InProgress(tx))
    BY <1>3, ReadsFacts DEF Knows, Reads
  <2>2. InProgress(placed) => f["RFID"] = "NONE" /\ f["LPR"] = "NONE"
    BY <1>0, <2>1, HealthyInProgress DEF Knows, Devices
  <2> HIDE DEF f
  <2>3. /\ Known(tx') /\ tx'.rfid = placed.rfid /\ tx'.lpr = placed.lpr
        /\ InProgress(tx') => InProgress(placed)
        /\ tx'.identity = "ACCEPTED" =>
             placed.identity = "ACCEPTED" \/ Matches(placed)
    BY <1>3, <1>4, <1>6, <2>1, <2>2, EvaluateKnown DEF Known
  <2>4. Stays
    BY <1>3, <2>1, <2>3 DEF Known, Reads, Stays
  <2> QED
    BY <1>1, <2>3, <2>4 DEF KnownAfter
<1> QED
  BY <1>5, <1>6
\* What is known of the identity holds throughout.
LEMMA KnowsHolds == PassSpec => []Knows
<1>1. PassInit => Knows
  BY NoTxKnown DEF PassInit, Init, Knows, NoAux
<1>2. Inv /\ Pending /\ Knows /\ [PassNext]_passVars => Knows'
  <2> SUFFICES ASSUME Inv, Pending, Knows, [PassNext]_passVars PROVE KnownAfter
    BY DEF KnownAfter, Knows, NoAux, Known, Clean, Decided, Matches, BothRead,
           InProgress, Begun, Resolves
  <2>0. TypeOK /\ CriticalFaultLocksOut
    BY DEF Inv
  <2>1. CASE \E p \in PositionInputs : Position(p)
    BY <2>0, <2>1, PositionKnows
  <2>2. CASE \/ \E tag \in Tags : RFID(tag)
             \/ \E plate \in Plates : LPR(plate)
    BY <2>0, <2>2, IdentityKnows
  <2>3. CASE FrameStep
    BY <2>0, <2>3, FrameKnows
  <2>4. CASE AppendFails \/ \E d \in CriticalFaults : Fault(d)
    BY <2>0, <2>4, CriticalKnows, SessionAssumption, ConstantsAssumption
       DEF Fault, AppendFails, lossRaised
  <2>5. CASE \E d \in Clearable : Clear(d)
    BY <2>0, <2>5, ClearKnows, ConstantsAssumption DEF Clear, Clearable, Devices
  <2>6. CASE Reboot
    BY <2>6, NoTxKnown DEF Reboot, Restart, KnownAfter
  <2>7. CASE UNCHANGED <<tx, faults>>
    BY <2>7 DEF Knows, KnownAfter, NoAux
  <2>8. CASE \/ Bind \/ AppendRecords \/ Expire \/ Tick
             \/ \E c \in Cycles : CallCycle(c)
             \/ UNCHANGED passVars
    BY <2>7, <2>8 DEF Bind, AppendRecords, Tick, CallCycle, Expire, passVars, vars
  <2> QED
    BY <2>1, <2>2, <2>3, <2>4, <2>5, <2>6, <2>8, FrameCases DEF PassNext
<1> QED
  BY <1>1, <1>2, EngineInvHolds, PendingHolds, PTL DEF PassSpec

-----------------------------------------------------------------------------
(* The station implements the weigh cycles.                                *)

BookProofs == INSTANCE WeighCyclesProofs

\* Lemma: what is assumed of the station's constants is what WeighCycles
\* assumes of its own.
LEMMA CyclesAssumed ==
  /\ BookProofs!CyclesAssumption /\ BookProofs!NoneIsNoPass
  /\ BookProofs!NoneIsNoTicket
BY ConstantsAssumption, SessionAssumption
   DEF BookProofs!CyclesAssumption, BookProofs!NoneIsNoPass,
       BookProofs!NoneIsNoTicket, BookProofs!PairPolicy, BookProofs!Passes,
       BookProofs!Tickets, Book!PairPolicy, Book!Passes, Book!Tickets

\* Lemma: a frame that commits is of a truck whose tag and plate were read.
LEMMA CommitReads ==
  ASSUME TypeOK, Knows, NEW r \in ScaleInputs, commits(r)
  PROVE  /\ tx.lpr.plate \in Plates /\ tx.rfid.tag \in Tags
         /\ r.weight \in Weights
<1> DEFINE t == beginWeighing(tx, r)
<1>1. tx \in Transactions /\ Reads(tx, t)
  BY BeginWeighingReads DEF TypeOK
<1>2. t.state = "WEIGHING"
  BY DEF commits
<1> HIDE DEF t
<1>3. Known(t)
  BY <1>1, ReadsFacts DEF Knows
<1>4. BothRead(tx)
  BY <1>1, <1>2, <1>3 DEF Known, Decided, InProgress, Begun, Reads, BothRead
<1> QED
  BY <1>1, <1>4, ConstantsAssumption DEF BothRead, Transactions, Readings

\* Lemma: a step of the station is a step of the cycles, or leaves them alone.
LEMMA StepOfBooks ==
  ASSUME TypeOK, Pending, Knows, [PassNext]_passVars
  PROVE  [Book!Next]_(Book!vars)
<1> USE DEF books, book, Book!vars, Book!store
<1>1. CASE UNCHANGED <<clock, books>>
  BY <1>1
<1>2. CASE \E r \in ScaleInputs : Scale(r)
  <2>1. PICK r \in ScaleInputs : Scale(r)
    BY <1>2
  <2>2. CASE commits(r) /\ FirstPass(r)
    BY <2>2, CommitReads DEF FirstPass, Book!Next
  <2>3. CASE commits(r) /\ SecondPass(r)
    BY <2>3, CommitReads DEF SecondPass, Book!Next
  <2> QED
    BY <1>1, <2>1, <2>2, <2>3 DEF Scale, NoPass
<1>3. CASE FindCalled
  BY <1>3 DEF FindCalled, Book!Next
<1>4. CASE Settle
  BY <1>4 DEF Settle, Book!Next
<1>5. CASE \E c \in Cycles : CallCycle(c)
  BY <1>5 DEF CallCycle, Book!Next
<1>6. CASE Expire
  BY <1>6 DEF Expire, Book!Next
<1>7. CASE Tick
  BY <1>7 DEF Tick, Book!Next
<1>8. CASE Reboot
  BY <1>8 DEF Reboot, Book!Next
<1>9. CASE \/ \E p \in PositionInputs : Position(p)
           \/ \E tag \in Tags : RFID(tag)
           \/ \E plate \in Plates : LPR(plate)
           \/ \E d \in CriticalFaults : Fault(d)
           \/ \E d \in Clearable : Clear(d)
           \/ Bind \/ AppendRecords \/ AppendFails
           \/ UNCHANGED passVars
  BY <1>1, <1>9 DEF Position, RFID, LPR, Fault, Clear, Bind, AppendRecords,
                    AppendFails, passVars
<1> QED
  BY <1>2, <1>3, <1>4, <1>5, <1>6, <1>7, <1>8, <1>9 DEF PassNext

\* Engine, session and bridge do nothing to the cycles that is not an operation
\* of the coordinator, the operator or the ticker, for a truck that was read:
\* the station implements WeighCycles.
THEOREM StationImplementsBooks == PassSpec => BooksImplemented
<1>1. PassInit => Book!Init
  BY DEF PassInit
<1>2. Inv /\ Pending /\ Knows /\ [PassNext]_passVars => [Book!Next]_(Book!vars)
  BY StepOfBooks DEF Inv
<1> QED
  BY <1>1, <1>2, EngineInvHolds, PendingHolds, KnowsHolds, PTL
     DEF PassSpec, BooksImplemented, Book!Spec

\* Lemma: the cycles of the proofs are the station's.
LEMMA SameBooks ==
  /\ Book!Init => BookProofs!Init
  /\ [Book!Next]_(Book!vars) => [BookProofs!Next]_(BookProofs!vars)
  BY DEF Book!vars, BookProofs!vars, Book!store, BookProofs!store, Book!Init,
       BookProofs!Init, Book!NotRecording, BookProofs!NotRecording,
       Book!NotExpiring, BookProofs!NotExpiring, Book!Next,
       BookProofs!Next, Book!RecordFirstPass,
       BookProofs!RecordFirstPass, Book!ValidateFirstPass,
       BookProofs!ValidateFirstPass, Book!OpenCycle,
       BookProofs!OpenCycle, Book!Call, BookProofs!Call,
       Book!CallCycle, BookProofs!CallCycle, Book!ObserveSecondPass,
       BookProofs!ObserveSecondPass, Book!FindCalledCycle,
       BookProofs!FindCalledCycle, Book!calledMatches,
       BookProofs!calledMatches, Book!RecordSecondPass,
       BookProofs!RecordSecondPass, Book!settlePair,
       BookProofs!settlePair, Book!ValidatePair,
       BookProofs!ValidatePair, Book!sameTruck, BookProofs!sameTruck,
       Book!timeValid, BookProofs!timeValid, Book!weightValid,
       BookProofs!weightValid, Book!withinConfigured,
       BookProofs!withinConfigured, Book!elapsed, BookProofs!elapsed,
       Book!net, BookProofs!net, Book!windowOver,
       BookProofs!windowOver, Book!CompleteCycle,
       BookProofs!CompleteCycle, Book!MarkCycleStatus,
       BookProofs!MarkCycleStatus, Book!NoPolicy, BookProofs!NoPolicy,
       Book!ExpireOrphans, BookProofs!ExpireOrphans, Book!ListQueue,
       BookProofs!ListQueue, Book!ExpireOne, BookProofs!ExpireOne,
       Book!overdue, BookProofs!overdue, Book!doneWith,
       BookProofs!doneWith, Book!AbortExpiry, BookProofs!AbortExpiry,
       Book!Tick, BookProofs!Tick, Book!Crash, BookProofs!Crash

\* The cycles' invariant holds in the station.
LEMMA BooksInvHolds == PassSpec => []BookProofs!Inv
<1>1. /\ BookProofs!CyclesAssumption /\ BookProofs!NoneIsNoPass
      /\ BookProofs!NoneIsNoTicket
      => (BookProofs!Spec => []BookProofs!Inv)
  BY BookProofs!InvHolds
<1>2. BookProofs!Spec => []BookProofs!Inv
  BY <1>1, CyclesAssumed
<1> QED
  BY <1>2, SameBooks, StationImplementsBooks, PTL
     DEF BooksImplemented, Book!Spec, BookProofs!Spec

\* What the store has committed holds in the station: tickets only of valid
\* pairs, orphans only when the window was over.
THEOREM StationKeepsCycles ==
  PassSpec => [](Book!CompletedPairIsValid /\ Book!OrphanIsOverdue)
<1>1. BookProofs!Inv => Book!CompletedPairIsValid /\ Book!OrphanIsOverdue
  BY DEF BookProofs!Inv, BookProofs!OrphanInv, Book!OrphanIsOverdue,
         Book!CompletedPairIsValid, BookProofs!CompletedPairIsValid
<1> QED
  BY <1>1, BooksInvHolds, PTL

-----------------------------------------------------------------------------
(* The books.                                                              *)

\* Every cycle that was opened has its first pass; the pass in hand was matched
\* with one that was called, and the scan works on opened ones.
BookFits ==
  /\ Book!TypeOK
  /\ \A c \in Cycles : status[c] # "NONE" => firstPass[c] \in Book!Passes
  /\ recording.step = "FOUND" =>
       /\ recording.cycle \in Cycles
       /\ status[recording.cycle] \in {"CALLED", "ORPHANED_FIRST_PASS"}
  /\ \A c \in expiry.left : status[c] # "NONE"

\* The cycle found for the pass in hand is this truck's.
Matched ==
  recording.step = "FOUND" =>
    LET first == firstPass[recording.cycle]
        second == recording.pass
    IN /\ VehicleKey[first.plate] = VehicleKey[second.plate]
       /\ None \in {second.tag, first.tag} \/ first.tag = second.tag

\* A step takes no first pass and no final ticket back.
Keeps ==
  \A c \in Cycles :
    /\ status[c] # "NONE" => status'[c] # "NONE" /\ firstPass'[c] = firstPass[c]
    /\ status[c] \notin {"NONE", "QUEUED"} => status'[c] \notin {"NONE", "QUEUED"}
    /\ status[c] = "COMPLETE" => status'[c] = "COMPLETE" /\ ticket'[c] = ticket[c]

\* What the sections so far have established.
Ground == Inv /\ Pending /\ Knows /\ BookFits /\ Matched

\* Lemma: the books fit.
LEMMA BooksFit == BookProofs!Inv => BookFits
BY DEF BookProofs!Inv, BookProofs!TypeOK, BookProofs!RowInv,
       BookProofs!RecordingInv, BookProofs!ExpiryInv, BookFits, Book!TypeOK,
       BookProofs!Passes, BookProofs!Tickets, BookProofs!Statuses,
       Book!Passes, Book!Tickets, Book!Statuses

\* Lemma: marking an opened cycle takes nothing back.
LEMMA MarkKeeps ==
  ASSUME BookFits, NEW c \in Cycles, NEW new, new \notin {"NONE", "QUEUED"},
         Book!MarkCycleStatus(c, new)
  PROVE  Keeps
BY DEF BookFits, Book!TypeOK, Keeps, Book!MarkCycleStatus

\* Lemma: no step of the cycles takes anything back.
LEMMA BooksKeep ==
  ASSUME BookFits, [Book!Next]_(Book!vars)
  PROVE  Keeps
<1> USE DEF BookFits, Book!TypeOK, Keeps
<1>1. CASE UNCHANGED Book!store
  BY <1>1 DEF Book!store
<1>2. CASE \E c \in Cycles, p \in Plates, t \in Tags \cup {None}, w \in Weights :
             Book!RecordFirstPass(c, p, t, w)
  BY <1>2 DEF Book!RecordFirstPass, Book!OpenCycle
<1>3. CASE \E c \in Cycles : Book!Call(c)
  BY <1>3 DEF Book!Call, Book!CallCycle
<1>4. CASE Book!RecordSecondPass
  <2>1. CASE Book!CompleteCycle(recording.cycle, recording.pass)
    BY <2>1 DEF Book!CompleteCycle
  <2>2. CASE \E new \in {"PAIR_TIME_INVALID", "CALLED"} :
               Book!MarkCycleStatus(recording.cycle, new)
    BY <1>4, <2>2, MarkKeeps DEF Book!RecordSecondPass
  <2> QED
    BY <1>1, <1>4, <2>1, <2>2 DEF Book!RecordSecondPass, Book!settlePair
<1>5. CASE \E c \in Cycles : Book!ExpireOne(c)
  BY <1>1, <1>5, MarkKeeps DEF Book!ExpireOne
<1> QED
  BY <1>1, <1>2, <1>3, <1>4, <1>5
     DEF Book!Next, Book!vars, Book!ObserveSecondPass, Book!FindCalledCycle,
         Book!ExpireOrphans, Book!AbortExpiry, Book!Tick, Book!Crash

\* Lemma: the lookup finds a cycle of the truck, and its first pass stays.
LEMMA BooksMatch ==
  ASSUME BookFits, Matched, [Book!Next]_(Book!vars)
  PROVE  Matched'
<1>1. CASE recording' = recording
  BY <1>1, BooksKeep DEF BookFits, Matched, Keeps
<1>2. CASE Book!FindCalledCycle
  BY <1>2 DEF Book!FindCalledCycle, Book!calledMatches, Book!store,
              Book!NotRecording, Matched
<1>3. CASE recording'.step # "FOUND"
  BY <1>3 DEF Matched
<1>4. CASE \/ \E p \in Plates, t \in Tags \cup {None}, w \in Weights :
                Book!ObserveSecondPass(p, t, w)
           \/ Book!RecordSecondPass \/ Book!Crash
  BY <1>3, <1>4 DEF Book!ObserveSecondPass, Book!RecordSecondPass, Book!Crash,
                    Book!NotRecording
<1> QED
  BY <1>1, <1>2, <1>4
     DEF Book!Next, Book!vars, Book!RecordFirstPass, Book!Call,
         Book!ExpireOrphans, Book!ExpireOne, Book!AbortExpiry, Book!Tick

\* And what they have established holds throughout.
LEMMA GroundHolds == PassSpec => []Ground
<1>1. Book!Init => Matched
  BY DEF Book!Init, Book!NotRecording, Matched
<1>2. BookFits /\ Matched /\ [Book!Next]_(Book!vars) => Matched'
  BY BooksMatch
<1>3. PassSpec => []BookFits
  BY BooksInvHolds, BooksFit, PTL
<1>4. PassSpec => []Matched
  BY <1>1, <1>2, <1>3, StationImplementsBooks, PTL
     DEF BooksImplemented, Book!Spec
<1> QED
  BY <1>3, <1>4, EngineInvHolds, PendingHolds, KnowsHolds, PTL DEF Ground

-----------------------------------------------------------------------------
(* What a step does to the books and to the history of the crossings.      *)

\* No cycle is opened, completed or changed; no crossing is added.
Still ==
  /\ passes' = passes /\ tickets' = tickets
  /\ \A c \in Cycles :
       /\ status'[c] = "NONE" <=> status[c] = "NONE"
       /\ status'[c] = "COMPLETE" <=> status[c] = "COMPLETE"
       /\ firstPass'[c] = firstPass[c] /\ ticket'[c] = ticket[c]

\* The crossing k of the active transaction is added for cycle c.
Crosses(c, k) ==
  /\ k.tx = tx.id /\ tx'.id = tx.id /\ tx.state # "IDLE"
  /\ k.tag # None
  /\ tickets' = Append(tickets, k)
  /\ passes' = Append(passes, [direction |-> direction, cycle |-> c])
  /\ outcome' = c

\* And opens it.
Opens(c, k) ==
  /\ Crosses(c, k)
  /\ direction = "A_TO_B" /\ status[c] = "NONE"
  /\ status' = [status EXCEPT ![c] = "QUEUED"]
  /\ firstPass' = [firstPass EXCEPT ![c] =
       [plate |-> k.plate, tag |-> k.tag, weight |-> k.weight, at |-> clock]]
  /\ ticket' = ticket

\* Or completes it.
Completes(c, k) ==
  /\ Crosses(c, k)
  /\ direction = "B_TO_A" /\ status[c] = "CALLED"
  /\ VehicleKey[firstPass[c].plate] = VehicleKey[k.plate]
  /\ None \in {k.tag, firstPass[c].tag} \/ firstPass[c].tag = k.tag
  /\ status' = [status EXCEPT ![c] = "COMPLETE"] /\ firstPass' = firstPass
  /\ ticket'[c].gross = firstPass[c].weight /\ ticket'[c].tare = k.weight
  /\ \A e \in Cycles \ {c} : ticket'[e] = ticket[e]

Books == Still \/ \E c \in Cycles, k \in Tickets : Opens(c, k) \/ Completes(c, k)

\* A frame carries the transaction on, stops it, or adds a crossing.
FrameBooks ==
  \/ Still /\ Carries /\ outcome' = outcome
  \/ Still /\ ~tx'.exit /\ outcome' = None
  \/ \E c \in Cycles, k \in Tickets : Opens(c, k) \/ Completes(c, k)

\* Lemma: an empty step carries everything on.
LEMMA IdleCarries == ASSUME TypeOK, UNCHANGED vars PROVE Carries
BY EvolvesReflexive DEF vars, TypeOK, Carries, NoNewCritical

\* Lemma: nothing happens in the store.
LEMMA StillBooks ==
  ASSUME UNCHANGED <<Book!store, passes, tickets>>
  PROVE  Still
BY DEF Still, Book!store

\* Lemma: an open cycle gets another open or final status.
LEMMA MarkIsStill ==
  ASSUME BookFits, NEW c \in Cycles, NEW new, new \notin {"NONE", "COMPLETE"},
         status[c] # "NONE", Book!MarkCycleStatus(c, new),
         UNCHANGED <<passes, tickets>>
  PROVE  Still
BY DEF BookFits, Book!TypeOK, Still, Book!MarkCycleStatus

\* Lemma: what a committing frame does of the engine: with the bridge's durable
\* answer it adds a ticket that states what the channels read of the truck, the
\* transaction staying the same; without, it locks out.
LEMMA CommitStep ==
  ASSUME TypeOK, Knows, NEW r \in ScaleInputs, NEW durable \in BOOLEAN,
         commits(r), ObserveScale(r, durable)
  PROVE  IF durable
         THEN \E k \in Tickets :
                /\ tickets' = Append(tickets, k) /\ k.tx = tx.id /\ tx'.id = tx.id
                /\ k.plate = tx.lpr.plate /\ k.tag = tx.rfid.tag
                /\ k.weight = r.weight /\ k.tag # None
         ELSE tickets' = tickets /\ ~tx'.exit
<1> DEFINE t == beginWeighing(tx, r)
           c == [t EXCEPT !.confirmations = confirm(t, r)]
           out == [c EXCEPT !.state = "EXIT_AUTHORIZED", !.entry = FALSE, !.exit = TRUE]
<1>0. /\ r.ok /\ tx.state \notin {"IDLE", "COMPLETE", "FAULT_LOCKOUT"}
      /\ t.state = "WEIGHING" /\ countable(r)
      /\ confirm(t, r) >= StableConfirmations
  BY DEF commits
<1>1. /\ t \in Transactions /\ tx \in Transactions /\ t.id = tx.id
      /\ Reads(tx, t)
  BY BeginWeighingEvolves, BeginWeighingReads DEF Evolves, TypeOK
<1>2. weighFrame(t, r, durable)
  BY <1>0 DEF ObserveScale, unhealthyFrame, healthyFrame
<1>3. t.rfid = tx.rfid /\ t.lpr = tx.lpr /\ tx.rfid.tag # None
  BY <1>1, CommitReads, ConstantsAssumption DEF Reads
<1> HIDE DEF t
<1>4. /\ c \in Transactions /\ c.confirmations = confirm(t, r)
      /\ c.id = tx.id /\ c.rfid = tx.rfid /\ c.lpr = tx.lpr
  BY <1>1, <1>3 DEF confirm, Transactions
<1>5. ~(c.confirmations < StableConfirmations)
  BY <1>0, <1>1, <1>4, ConstantsAssumption DEF Transactions
<1>6. commitTicket(c, r, durable)
  BY <1>0, <1>2, <1>5 DEF weighFrame
<1> HIDE DEF c
<1>7. CASE durable
  <2>1. tickets' = Append(tickets, ticketOf(c, r)) /\ tx' = out
    BY <1>6, <1>7 DEF commitTicket
  <2>2. tx'.id = tx.id
    BY <1>4, <2>1 DEF Transactions
  <2>3. ticketOf(c, r) \in Tickets
    BY <1>4, ConstantsAssumption DEF ticketOf, Tickets, Transactions, Readings
  <2> QED
    BY <1>3, <1>4, <1>7, <2>1, <2>2, <2>3 DEF ticketOf
<1>8. CASE ~durable
  BY <1>4, <1>6, <1>8 DEF commitTicket, lockout, Transactions
<1> QED
  BY <1>7, <1>8

\* Lemma: and of the histories.
LEMMA AnswerStep ==
  ASSUME TypeOK, Knows, NEW r \in ScaleInputs, NEW durable \in BOOLEAN, NEW c,
         Answers(r, durable, c)
  PROVE  IF durable
         THEN \E k \in Tickets :
                /\ Crosses(c, k) /\ k.weight = r.weight
                /\ k.plate = tx.lpr.plate /\ k.tag = tx.rfid.tag
         ELSE UNCHANGED <<passes, tickets>> /\ outcome' = None /\ ~tx'.exit
<1>1. /\ commits(r) /\ ObserveScale(r, durable)
      /\ outcome' = IF durable THEN c ELSE None
      /\ passes' = IF durable
                   THEN Append(passes, [direction |-> direction, cycle |-> c])
                   ELSE passes
  BY DEF Answers, answered
<1>2. tx.state # "IDLE"
  BY <1>1 DEF commits
<1>3. CASE durable
  <2>1. PICK k \in Tickets :
          /\ tickets' = Append(tickets, k) /\ k.tx = tx.id /\ tx'.id = tx.id
          /\ k.plate = tx.lpr.plate /\ k.tag = tx.rfid.tag
          /\ k.weight = r.weight /\ k.tag # None
    BY <1>1, <1>3, CommitStep
  <2> QED
    BY <1>1, <1>2, <1>3, <2>1 DEF Crosses
<1>4. CASE ~durable
  BY <1>1, <1>4, CommitStep
<1> QED
  BY <1>3, <1>4

\* Lemma: the coordinator opens a cycle, completes one, or has an error to
\* return.
LEMMA FrameStepBooks ==
  ASSUME Ground,
         \/ \E r \in ScaleInputs : Scale(r)
         \/ FindCalled
         \/ Settle
  PROVE  FrameBooks
<1>0. TypeOK /\ Knows /\ Pending /\ BookFits /\ Matched
  BY DEF Ground, Inv
<1>1. ASSUME UNCHANGED <<vars, outcome, passes, Book!store>> PROVE FrameBooks
  BY <1>0, <1>1, IdleCarries, StillBooks DEF FrameBooks, vars
<1>2. ASSUME NEW r \in ScaleInputs, Answers(r, FALSE, None),
             UNCHANGED Book!store
      PROVE  FrameBooks
  BY <1>0, <1>2, AnswerStep, StillBooks DEF FrameBooks
<1>3. ASSUME NEW r \in ScaleInputs, Scale(r) PROVE FrameBooks
  <2>1. CASE ~commits(r)
    <3>1. /\ ObserveScale(r, FALSE)
          /\ UNCHANGED <<Book!store, outcome, passes>>
      BY <1>3, <2>1 DEF Scale, FirstPass, SecondPass, NoPass, books, book,
                        Book!store
    <3>2. tickets' = tickets
      BY <3>1, <2>1 DEF ObserveScale, unhealthyFrame, healthyFrame, weighFrame,
                        commitTicket
    <3>3. \A k : Append(tickets, k) # tickets
      BY <1>0 DEF TypeOK
    <3>4. Carries
      BY <1>0, <3>1, <3>2, <3>3, ObserveScaleStep DEF Commits
    <3> QED
      BY <3>1, <3>2, <3>4, StillBooks DEF FrameBooks
  <2>2. CASE commits(r) /\ FirstPass(r)
    <3>1. PICK c \in Cycles :
            /\ Book!RecordFirstPass(c, tx.lpr.plate, tx.rfid.tag, r.weight)
            /\ answered(r, TRUE, c)
      BY <2>2 DEF FirstPass
    <3>2. Answers(r, TRUE, c)
      BY <2>2, <3>1 DEF Answers, FirstPass, Directions
    <3>3. PICK k \in Tickets :
            /\ Crosses(c, k) /\ k.weight = r.weight
            /\ k.plate = tx.lpr.plate /\ k.tag = tx.rfid.tag
      BY <1>0, <3>2, AnswerStep
    <3>4. Opens(c, k)
      BY <2>2, <3>1, <3>3
         DEF FirstPass, Opens, Book!RecordFirstPass, Book!OpenCycle
    <3> QED
      BY <3>4 DEF FrameBooks
  <2>3. CASE commits(r) /\ SecondPass(r)
    BY <1>1, <2>3 DEF SecondPass, Book!ObserveSecondPass
  <2>4. CASE commits(r) /\ NoPass(r)
    BY <1>2, <2>4 DEF NoPass, Answers, books, book, Book!store
  <2> QED
    BY <1>3, <2>1, <2>2, <2>3, <2>4 DEF Scale
<1>4. CASE FindCalled
  <2>1. frame \in ScaleInputs /\ commits(frame) /\ UNCHANGED Book!store
    BY <1>0, <1>4 DEF Pending, FindCalled, Book!FindCalledCycle
  <2>2. CASE answered(frame, FALSE, None)
    BY <1>2, <2>1, <2>2 DEF Answers
  <2> QED
    BY <1>1, <1>4, <2>1, <2>2 DEF FindCalled
<1>5. CASE Settle
  <2> DEFINE done == status'[recording.cycle] = "COMPLETE"
  <2>1. /\ frame \in ScaleInputs /\ commits(frame) /\ direction = "B_TO_A"
        /\ recording.pass.plate = tx.lpr.plate
        /\ recording.pass.tag = tx.rfid.tag
        /\ recording.step = "FOUND" /\ done \in BOOLEAN
        /\ Book!settlePair(recording.cycle, recording.pass)
        /\ answered(frame, done, recording.cycle)
    BY <1>0, <1>5 DEF Pending, Settle, Book!RecordSecondPass
  <2>2. PICK c \in Cycles :
          c = recording.cycle /\ status[c] \in {"CALLED", "ORPHANED_FIRST_PASS"}
    BY <1>0, <2>1 DEF BookFits
  <2>3. status \in [Cycles -> Book!Statuses] /\ ticket \in [Cycles -> Book!Tickets \cup {None}]
    BY <1>0 DEF BookFits, Book!TypeOK
  <2>4. Answers(frame, done, c)
    BY <2>1, <2>2 DEF Answers, Directions
  <2>5. CASE ~done
    <3>1. UNCHANGED <<passes, tickets>> /\ outcome' = None /\ ~tx'.exit
      BY <1>0, <2>1, <2>4, <2>5, AnswerStep
    <3>2. ~Book!CompleteCycle(c, recording.pass)
      BY <2>2, <2>3, <2>5 DEF Book!CompleteCycle
    <3>3. \/ UNCHANGED Book!store
          \/ \E new \in {"PAIR_TIME_INVALID", "CALLED"} : Book!MarkCycleStatus(c, new)
      BY <2>1, <2>2, <3>2 DEF Book!settlePair
    <3>4. Still
      BY <1>0, <2>2, <3>1, <3>3, StillBooks, MarkIsStill
    <3> QED
      BY <3>1, <3>4 DEF FrameBooks
  <2>6. CASE done
    <3>1. PICK k \in Tickets :
            /\ Crosses(c, k) /\ k.weight = frame.weight
            /\ k.plate = tx.lpr.plate /\ k.tag = tx.rfid.tag
      BY <1>0, <2>1, <2>4, <2>6, AnswerStep
    <3>2. Book!CompleteCycle(c, recording.pass)
      BY <2>1, <2>2, <2>3, <2>6
         DEF Book!settlePair, Book!MarkCycleStatus, Book!store
    <3>3. /\ status[c] = "CALLED"
          /\ status' = [status EXCEPT ![c] = "COMPLETE"] /\ firstPass' = firstPass
          /\ ticket'[c].gross = firstPass[c].weight
          /\ ticket'[c].tare = recording.pass.weight
          /\ \A e \in Cycles \ {c} : ticket'[e] = ticket[e]
      BY <2>3, <3>2 DEF Book!CompleteCycle
    <3>4. /\ VehicleKey[firstPass[c].plate] = VehicleKey[k.plate]
          /\ None \in {k.tag, firstPass[c].tag} \/ firstPass[c].tag = k.tag
      BY <1>0, <2>1, <2>2, <3>1 DEF Matched
    <3>5. Completes(c, k)
      BY <2>1, <3>1, <3>3, <3>4 DEF Completes, frame
    <3> QED
      BY <3>5 DEF FrameBooks
  <2> QED
    BY <2>5, <2>6
<1> QED
  BY <1>3, <1>4, <1>5

\* Lemma: every step leaves the books alone, opens a cycle or completes one, and
\* takes nothing back.
LEMMA StepBooks ==
  ASSUME Ground, [PassNext]_passVars
  PROVE  Books /\ Keeps
<1>0. TypeOK /\ Knows /\ Pending /\ BookFits
  BY DEF Ground, Inv
<1>1. Keeps
  BY <1>0, StepOfBooks, BooksKeep
<1> SUFFICES Books
  BY <1>1
<1>2. CASE UNCHANGED <<Book!store, passes, tickets>>
  BY <1>2, StillBooks DEF Books
<1>3. CASE \/ \E r \in ScaleInputs : Scale(r)
           \/ FindCalled
           \/ Settle
  BY <1>3, FrameStepBooks DEF FrameBooks, Books
<1>4. CASE \E c \in Cycles : CallCycle(c)
  BY <1>0, <1>4
     DEF CallCycle, Book!Call, Book!CallCycle, Still, Books, BookFits,
         Book!TypeOK, vars
<1>5. CASE Expire
  <2>1. ASSUME NEW c \in Cycles, Book!ExpireOne(c), UNCHANGED <<passes, tickets>>
        PROVE  Still
    <3>1. status[c] # "NONE"
      BY <1>0, <2>1 DEF Book!ExpireOne, BookFits
    <3> QED
      BY <1>0, <2>1, <3>1, MarkIsStill, StillBooks DEF Book!ExpireOne
  <2> QED
    BY <1>2, <1>5, <2>1
       DEF Expire, Book!ExpireOrphans, Book!AbortExpiry, vars, Books
<1>6. CASE \E p \in PositionInputs : Position(p)
  BY <1>2, <1>6 DEF Position, EndPass, endPass, ResetCompleted, CrossSensors,
                    ObservePosition, books, book, Book!store
<1>7. CASE \/ \E tag \in Tags : RFID(tag)
           \/ \E plate \in Plates : LPR(plate)
           \/ \E d \in CriticalFaults : Fault(d)
           \/ \E d \in Clearable : Clear(d)
           \/ Bind \/ AppendRecords \/ AppendFails \/ Tick \/ Reboot
           \/ UNCHANGED passVars
  BY <1>2, <1>7 DEF RFID, LPR, ObserveRFID, ObserveLPR, Fault, ObserveFault, Clear,
                    ClearFault, Bind, AppendRecords, AppendFails, lossRaised, Reboot,
                    Restart, Tick, Book!Tick, Book!Crash, passVars, vars, books,
                    book, Book!store
<1> QED
  BY <1>3, <1>4, <1>5, <1>6, <1>7 DEF PassNext

-----------------------------------------------------------------------------
(* A release follows a recorded pass.                                      *)

SessionTypeOK ==
  /\ direction \in Directions \cup {"NONE"}
  /\ bound \in Cycles \cup {None} /\ outcome \in Cycles \cup {None}
  /\ passes \in Seq([direction : Directions, cycle : Cycles])
  /\ Len(passes) = Len(tickets)
  /\ lost \in BOOLEAN

\* The durable row of cycle c holds weight w of a crossing in direction d.
Holds(c, d, w) ==
  \/ d = "B_TO_A" /\ status[c] = "COMPLETE" /\ ticket[c].tare = w
  \/ d = "A_TO_B" /\ status[c] # "NONE" /\ firstPass[c].weight = w

\* The released transaction is the one of the latest ticket, and on record.
ReleaseOnRecord ==
  tx.exit =>
    /\ outcome \in Cycles
    /\ tickets # << >> /\ tickets[Len(tickets)].tx = tx.id
    /\ Holds(outcome, direction, tickets[Len(tickets)].weight)

StationInv == SessionTypeOK /\ ReleaseOnRecord

\* Lemma: the lookup finds a called cycle of the truck.
LEMMA FoundIsTheTrucks ==
  ASSUME calledFor(tx) # None
  PROVE  LET c == calledFor(tx) IN
         /\ c \in Cycles /\ status[c] = "CALLED"
         /\ VehicleKey[firstPass[c].plate] = VehicleKey[tx.lpr.plate]
         /\ None \in {tx.rfid.tag, firstPass[c].tag} \/ firstPass[c].tag = tx.rfid.tag
<1> DEFINE matches == Book!calledMatches(tx.lpr.plate, tx.rfid.tag)
<1>1. \E c \in Cycles : matches = {c} /\ calledFor(tx) = c
  BY DEF calledFor, theOnlyOne
<1> QED
  BY <1>1 DEF Book!calledMatches

\* Lemma: a release that stands, and was on record, is on record.
LEMMA StandingRelease ==
  ASSUME ReleaseOnRecord, Keeps, tx'.exit => tx.exit /\ tx'.id = tx.id,
         tickets' = tickets, tx'.exit => outcome' = outcome,
         tx'.exit => direction' = direction
  PROVE  ReleaseOnRecord'
<1> SUFFICES ASSUME tx'.exit PROVE ReleaseOnRecord'
  BY DEF ReleaseOnRecord
<1> DEFINE w == tickets[Len(tickets)].weight
<1>1. outcome \in Cycles /\ Holds(outcome, direction, w)
  BY DEF ReleaseOnRecord
<1>2. Holds(outcome, direction, w)'
  BY <1>1 DEF Holds, Keeps
<1> QED
  BY <1>1, <1>2 DEF ReleaseOnRecord

\* Lemma: positions start, carry on or drop the transaction.
LEMMA PositionKeeps ==
  ASSUME TypeOK, StationInv, Keeps, NEW p \in PositionInputs, Position(p)
  PROVE  StationInv'
<1>0. UNCHANGED <<passes, lost>>
  BY DEF Position
<1>1. CASE EndPass(p)
  <2>1. tx' = NoTx /\ tickets' = tickets /\ resetSession
    BY <1>1 DEF EndPass, endPass, ResetCompleted
  <2>2. ReleaseOnRecord'
    BY <2>1, NoTxFacts DEF ReleaseOnRecord, Released
  <2>3. SessionTypeOK'
    BY <1>0, <2>1 DEF StationInv, SessionTypeOK, resetSession
  <2> QED
    BY <2>2, <2>3 DEF StationInv
<1>2. CASE CrossSensors(p)
  <2> DEFINE q == IF direction' = "B_TO_A" THEN swapPhysicalPosition(p) ELSE p
  <2>1. q \in PositionInputs /\ ObservePosition(q)
    BY <1>2, SessionAssumption DEF CrossSensors
  <2>2. Carries \/ Starts
    BY <2>1, ObservePositionStep
  <2>3. /\ tickets' = tickets
        /\ tx'.exit => tx.exit /\ tx'.id = tx.id
    BY <2>2 DEF Carries, Starts, Evolves, Released
  <2>4. /\ direction' \in {direction, "NONE", "A_TO_B", "B_TO_A"}
        /\ direction # "NONE" => direction' = direction
        /\ UNCHANGED <<bound, outcome>>
    BY <1>2 DEF CrossSensors, detectDirection
  <2>5. tx.exit => direction # "NONE"
    BY DEF StationInv, ReleaseOnRecord, Holds
  <2>6. ReleaseOnRecord'
    BY <2>3, <2>4, <2>5, StandingRelease DEF StationInv
  <2>7. SessionTypeOK'
    BY <1>0, <2>3, <2>4 DEF StationInv, SessionTypeOK, Directions
  <2> QED
    BY <2>6, <2>7 DEF StationInv
<1> QED
  BY <1>1, <1>2 DEF Position

\* Lemma: what carries the transaction on and leaves session and history alone.
LEMMA CarryingKeeps ==
  ASSUME StationInv, Keeps, Carries, UNCHANGED <<direction, outcome, passes>>,
         bound' \in Cycles \cup {None}, lost' \in BOOLEAN
  PROVE  StationInv'
<1>1. ReleaseOnRecord'
  BY StandingRelease DEF StationInv, Carries, Evolves
<1>2. SessionTypeOK'
  BY DEF StationInv, SessionTypeOK, Carries
<1> QED
  BY <1>1, <1>2 DEF StationInv

\* Lemma: a frame's crossing is on record before the truck is released.
LEMMA FrameKeeps ==
  ASSUME TypeOK, StationInv, Keeps, BookFits, FrameBooks,
         UNCHANGED <<direction, bound, lost>>
  PROVE  StationInv'
<1>1. CASE Still /\ Carries /\ outcome' = outcome
  BY <1>1, CarryingKeeps DEF Still, StationInv, SessionTypeOK
<1>2. CASE Still /\ ~tx'.exit /\ outcome' = None
  BY <1>2 DEF Still, StationInv, SessionTypeOK, ReleaseOnRecord
<1>3. ASSUME NEW c \in Cycles, NEW k \in Tickets, Opens(c, k) \/ Completes(c, k)
      PROVE  StationInv'
  <2>1. Crosses(c, k) /\ direction \in Directions
    BY <1>3 DEF Opens, Completes, Directions
  <2>2. /\ Len(tickets') = Len(tickets) + 1
        /\ tickets'[Len(tickets')] = k /\ tickets' # << >>
    BY <2>1 DEF Crosses, TypeOK
  <2>3. Holds(c, direction, k.weight)'
    BY <1>3 DEF Opens, Completes, Holds, BookFits, Book!TypeOK
  <2>4. ReleaseOnRecord'
    BY <2>1, <2>2, <2>3 DEF ReleaseOnRecord, Crosses, Holds
  <2>5. /\ passes' \in Seq([direction : Directions, cycle : Cycles])
        /\ Len(passes') = Len(passes) + 1
    <3> DEFINE P == [direction : Directions, cycle : Cycles]
    <3>1. [direction |-> direction, cycle |-> c] \in P /\ passes \in Seq(P)
      BY <2>1 DEF StationInv, SessionTypeOK
    <3> HIDE DEF P
    <3> QED
      BY <2>1, <3>1 DEF Crosses, P
  <2>6. SessionTypeOK'
    BY <2>1, <2>2, <2>5 DEF Crosses, StationInv, SessionTypeOK
  <2> QED
    BY <2>4, <2>6 DEF StationInv
<1> QED
  BY <1>1, <1>2, <1>3 DEF FrameBooks

\* Lemma: every step keeps the invariant.
LEMMA StationStep ==
  ASSUME Ground, StationInv, [PassNext]_passVars
  PROVE  StationInv'
<1> USE DEF session
<1>0. TypeOK /\ BookFits /\ Pending /\ Keeps
  BY StepBooks DEF Ground, Inv
<1>1. CASE \E p \in PositionInputs : Position(p)
  BY <1>0, <1>1, PositionKeeps
<1>2. CASE \/ \E tag \in Tags : RFID(tag)
           \/ \E plate \in Plates : LPR(plate)
  <2>1. Carries
    BY <1>0, <1>2, ObserveIdentityStep DEF RFID, LPR
  <2> QED
    BY <1>0, <1>2, <2>1, CarryingKeeps DEF RFID, LPR, StationInv, SessionTypeOK
<1>3. CASE \/ \E r \in ScaleInputs : Scale(r)
           \/ FindCalled
           \/ Settle
  BY <1>0, <1>3, FrameCases, FrameStepBooks, FrameKeeps
<1>4. CASE \/ \E d \in CriticalFaults : Fault(d)
           \/ \E d \in Clearable : Clear(d)
  <2>1. Carries
    BY <1>0, <1>4, ObserveFaultStep, ClearFaultStep, ConstantsAssumption
       DEF Fault, Clear, Clearable, Devices
  <2> QED
    BY <1>0, <1>4, <2>1, CarryingKeeps DEF Fault, Clear, StationInv, SessionTypeOK
<1>5. CASE Bind
  <2>1. Carries
    BY <1>0, <1>5, IdleCarries DEF Bind
  <2>2. calledFor(tx) \in Cycles \cup {None}
    BY FoundIsTheTrucks
  <2> QED
    BY <1>0, <1>5, <2>1, <2>2, CarryingKeeps
       DEF Bind, bindCalled, StationInv, SessionTypeOK
<1>6. CASE AppendFails
  <2>1. Carries
    BY <1>0, <1>6, SessionAssumption, ConstantsAssumption, ObserveFaultStep
       DEF AppendFails, lossRaised
  <2> QED
    BY <1>0, <1>6, <2>1, CarryingKeeps DEF AppendFails, StationInv, SessionTypeOK
<1>7. CASE \/ AppendRecords \/ Expire \/ Tick
           \/ \E c \in Cycles : CallCycle(c)
           \/ UNCHANGED passVars
  <2>1. UNCHANGED <<vars, session, passes, lost>>
    BY <1>7 DEF AppendRecords, CallCycle, Expire, Tick, passVars
  <2>2. Carries
    BY <1>0, <2>1, IdleCarries
  <2> QED
    BY <1>0, <2>1, <2>2, CarryingKeeps DEF StationInv, SessionTypeOK
<1>8. CASE Reboot
  <2>1. tx' = NoTx /\ tickets' = tickets
    BY <1>8 DEF Reboot, Restart
  <2>2. ReleaseOnRecord'
    BY <2>1, NoTxFacts DEF ReleaseOnRecord, Released
  <2>3. SessionTypeOK'
    BY <1>8, <2>1 DEF Reboot, resetSession, StationInv, SessionTypeOK
  <2> QED
    BY <2>2, <2>3 DEF StationInv
<1> QED
  BY <1>1, <1>2, <1>3, <1>4, <1>5, <1>6, <1>7, <1>8 DEF PassNext

\* The invariant holds throughout.
LEMMA StationInvHolds == PassSpec => []StationInv
<1>1. PassInit => StationInv
  <2> SUFFICES ASSUME PassInit PROVE StationInv
    OBVIOUS
  <2>1. /\ passes \in Seq([direction : Directions, cycle : Cycles])
        /\ Len(passes) = Len(tickets)
    BY DEF PassInit, Init
  <2>2. SessionTypeOK
    BY <2>1 DEF PassInit, SessionTypeOK
  <2>3. ReleaseOnRecord
    BY NoTxFacts DEF PassInit, Init, ReleaseOnRecord, Released
  <2> QED
    BY <2>2, <2>3 DEF StationInv
<1>2. StationInv /\ Ground /\ [PassNext]_passVars => StationInv'
  BY StationStep
<1> QED
  BY <1>1, <1>2, GroundHolds, PTL DEF PassSpec

\* Every variable of the station has its type throughout.
THEOREM StationTypeCorrect == PassSpec => []PassTypeOK
<1>1. StationInv /\ Ground => PassTypeOK
  <2> SUFFICES ASSUME StationInv, Ground PROVE PassTypeOK
    OBVIOUS
  <2>1. call \in {"NONE", "COMMIT", "BIND", "APPEND"}
        /\ (call = "COMMIT" <=> recording # Book!NotRecording)
    BY DEF Ground, Pending, Book!NotRecording
  <2> QED
    BY <2>1 DEF StationInv, SessionTypeOK, Ground, Inv, BookFits, PassTypeOK
<1> QED
  BY <1>1, StationInvHolds, GroundHolds, PTL

\* No truck is released whose crossing is not in the books.
THEOREM ReleaseIsOnRecord == PassSpec => []ReleaseFollowsPass
<1>1. StationInv => ReleaseFollowsPass
  BY SessionAssumption
     DEF StationInv, ReleaseOnRecord, Holds, ReleaseFollowsPass, onReturn
<1> QED
  BY <1>1, StationInvHolds, PTL

-----------------------------------------------------------------------------
(* A return is bound to the cycle it was called for.                       *)

\* A first pass was made by a truck whose tag was read.
Tagged == \A c \in Cycles : status[c] # "NONE" => firstPass[c].tag # None

\* A return that moves, once its lookup is done, and is bound at all, is bound
\* to the cycle of its own readings, which was called.
ReturnBound ==
  /\ onReturn /\ call # "BIND" /\ bound # None
  /\ InProgress(tx) /\ tx.identity = "ACCEPTED"
  => /\ status[bound] \notin {"NONE", "QUEUED"}
     /\ VehicleKey[firstPass[bound].plate] = VehicleKey[tx.lpr.plate]
     /\ firstPass[bound].tag = tx.rfid.tag

\* Lemma: only a crossing with a tag opens a cycle.
LEMMA TaggedStep ==
  ASSUME BookFits, Books, Tagged
  PROVE  Tagged'
<1>1. CASE Still
  BY <1>1 DEF Still, Tagged
<1>2. ASSUME NEW c \in Cycles, NEW k \in Tickets, Opens(c, k) \/ Completes(c, k)
      PROVE  Tagged'
  <2>1. DOMAIN status = Cycles /\ DOMAIN firstPass = Cycles
    BY DEF BookFits, Book!TypeOK
  <2> QED
    BY <1>2, <2>1 DEF Opens, Completes, Crosses, Tagged
<1> QED
  BY <1>1, <1>2 DEF Books

\* Lemma: what evaluates no identity leaves the binding as right as it was.
LEMMA BindingStays ==
  ASSUME SessionTypeOK, ReturnBound, Stays, Keeps, call # "BIND",
         UNCHANGED <<direction, bound>>
  PROVE  ReturnBound'
<1> SUFFICES ASSUME onReturn', bound' # None, InProgress(tx'),
                    tx'.identity = "ACCEPTED"
             PROVE  /\ status'[bound'] \notin {"NONE", "QUEUED"}
                    /\ VehicleKey[firstPass'[bound'].plate] = VehicleKey[tx'.lpr.plate]
                    /\ firstPass'[bound'].tag = tx'.rfid.tag
  BY DEF ReturnBound, InProgress
<1>1. /\ status[bound] \notin {"NONE", "QUEUED"}
      /\ VehicleKey[firstPass[bound].plate] = VehicleKey[tx.lpr.plate]
      /\ firstPass[bound].tag = tx.rfid.tag
  BY DEF ReturnBound, Stays, onReturn
<1> QED
  BY <1>1 DEF Keeps, Stays, SessionTypeOK

\* Lemma: a new lookup comes before an accepted return may move.
LEMMA ReturnBoundStep ==
  ASSUME Ground, StationInv, Tagged, ReturnBound, [PassNext]_passVars
  PROVE  ReturnBound'
<1>0. /\ TypeOK /\ CriticalFaultLocksOut /\ SessionTypeOK /\ Keeps
      /\ Knows /\ Pending
  BY StepBooks DEF Ground, Inv, StationInv
<1>1. CASE \/ \E p \in PositionInputs : Position(p)
           \/ \E tag \in Tags : RFID(tag)
           \/ \E plate \in Plates : LPR(plate)
  <2>1. CASE observed
    BY <2>1 DEF observed, ReturnBound, onReturn, InProgress
  <2>2. CASE resetSession
    BY <2>2 DEF resetSession, ReturnBound
  <2> QED
    BY <1>1, <2>1, <2>2 DEF Position, EndPass, endPass, CrossSensors, RFID, LPR
<1>2. CASE \/ \E r \in ScaleInputs : Scale(r)
           \/ FindCalled
           \/ Settle
           \/ \E d \in CriticalFaults : Fault(d)
           \/ \E d \in Clearable : Clear(d)
           \/ AppendFails
  <2>1. Stays
    BY <1>0, <1>2, FrameCases, FrameKnows, CriticalKnows, ClearKnows,
       SessionAssumption, ConstantsAssumption
       DEF Fault, Clear, AppendFails, lossRaised, Clearable, Devices
  <2>2. call # "BIND" /\ UNCHANGED <<direction, bound>>
    BY <1>2 DEF Scale, FindCalled, Settle, Fault, Clear, AppendFails, session
  <2> QED
    BY <1>0, <2>1, <2>2, BindingStays
<1>3. CASE Bind
  <2>1. /\ bound' \in {calledFor(tx), None}
        /\ UNCHANGED <<tx, status, firstPass, direction>>
    BY <1>3 DEF Bind, bindCalled, vars, books, book
  <2> SUFFICES ASSUME bound' # None, InProgress(tx), tx.identity = "ACCEPTED"
               PROVE  /\ status[bound'] \notin {"NONE", "QUEUED"}
                      /\ VehicleKey[firstPass[bound'].plate] = VehicleKey[tx.lpr.plate]
                      /\ firstPass[bound'].tag = tx.rfid.tag
    BY <2>1 DEF ReturnBound, InProgress
  <2>2. /\ bound' \in Cycles /\ status[bound'] = "CALLED"
        /\ VehicleKey[firstPass[bound'].plate] = VehicleKey[tx.lpr.plate]
        /\ \/ None \in {tx.rfid.tag, firstPass[bound'].tag}
           \/ firstPass[bound'].tag = tx.rfid.tag
    BY <2>1, FoundIsTheTrucks
  <2>3. tx.rfid.tag # None
    BY <1>0 DEF Knows, Known, Decided, BothRead
  <2> QED
    BY <2>2, <2>3 DEF Tagged
<1>4. CASE Reboot
  BY <1>4 DEF Reboot, resetSession, ReturnBound
<1>5. CASE /\ UNCHANGED <<tx, direction, bound>>
           /\ call # "BIND" \/ call' = call
  <2>1. CASE call = "BIND"
    BY <1>5, <2>1 DEF ReturnBound
  <2>2. CASE call # "BIND"
    BY <1>0, <1>5, <2>2, BindingStays DEF Stays
  <2> QED
    BY <2>1, <2>2
<1>6. CASE \/ AppendRecords \/ Expire \/ Tick \/ UNCHANGED passVars
           \/ \E c \in Cycles : CallCycle(c)
  BY <1>5, <1>6 DEF AppendRecords, Tick, CallCycle, Expire, passVars, vars, session
<1> QED
  BY <1>1, <1>2, <1>3, <1>4, <1>6 DEF PassNext

\* Bindings and tags are right throughout.
LEMMA ReturnBoundHolds == PassSpec => [](Tagged /\ ReturnBound)
<1>1. PassInit => Tagged /\ ReturnBound
  BY DEF PassInit, Book!Init, Tagged, ReturnBound
<1>2. /\ Ground /\ StationInv /\ Tagged /\ ReturnBound
      /\ [PassNext]_passVars
      => Tagged' /\ ReturnBound'
  BY ReturnBoundStep, StepBooks, TaggedStep DEF Ground
<1> QED
  BY <1>1, <1>2, GroundHolds, StationInvHolds, PTL DEF PassSpec

\* An accepted return moves only for the cycle of this vehicle that an operator
\* called.
THEOREM ReturnsAreCalled == PassSpec => []ReturnIsCalled
<1>1. PassSpec => []Way
  BY StationImplementsEngine, WayHolds, PTL DEF EngineImplemented
<1>2. Inv /\ Way /\ Knows /\ ReturnBound => ReturnIsCalled
  <2> SUFFICES ASSUME Inv, Way, Knows, ReturnBound,
                      onReturn, tx.identity = "ACCEPTED", call # "BIND",
                      Snapshot.A \/ Snapshot.B
               PROVE  /\ bound # None
                      /\ status[bound] \notin {"NONE", "QUEUED"}
                      /\ VehicleKey[firstPass[bound].plate] = VehicleKey[tx.lpr.plate]
                      /\ firstPass[bound].tag = tx.rfid.tag
    BY DEF ReturnIsCalled
  <2>1. tx.state # "IDLE" /\ ~masked /\ (tx.entry \/ tx.exit)
    BY DEF Snapshot
  <2>2. InProgress(tx)
    BY <2>1 DEF Inv, Quiet, Way, AtRest, Knows, Known, InProgress
  <2>3. bound # None
    BY <2>1, <2>2 DEF masked, InProgress
  <2> QED
    BY <2>2, <2>3 DEF ReturnBound
<1> QED
  BY <1>1, <1>2, EngineInvHolds, KnowsHolds, ReturnBoundHolds, PTL

-----------------------------------------------------------------------------
(* A final ticket takes two crossings.  A crossing is here an entry of the *)
(* history: a pass the bridge recorded, for one cycle.  One transaction    *)
(* may have several.                                                       *)

\* The tickets of the active transaction are of its direction, the others are
\* of earlier ones.
Ids ==
  /\ tx.state # "IDLE" => tx.id = started
  /\ \A i \in DOMAIN tickets :
       /\ tickets[i].tx <= started
       /\ tx.state # "IDLE" /\ tickets[i].tx = started
            => passes[i].direction = direction

Crossings(c) == {k \in DOMAIN passes : passes[k].cycle = c}

\* The crossing i is the one that opened cycle c.
First(i, c) ==
  /\ passes[i].direction = "A_TO_B"
  /\ tickets[i].plate = firstPass[c].plate /\ tickets[i].tag = firstPass[c].tag
  /\ tickets[i].weight = firstPass[c].weight

\* The crossing j is the one that completed it.
Second(j, c) ==
  /\ passes[j].direction = "B_TO_A"
  /\ VehicleKey[tickets[j].plate] = VehicleKey[firstPass[c].plate]
  /\ tickets[j].tag = firstPass[c].tag
  /\ ticket[c].gross = firstPass[c].weight /\ ticket[c].tare = tickets[j].weight

\* No crossing served a cycle that was never opened, one opened it, and one
\* more, of a later transaction, completed it.
Served(c) ==
  \/ status[c] = "NONE" /\ Crossings(c) = {}
  \/ /\ status[c] \notin {"NONE", "COMPLETE"}
     /\ \E i \in DOMAIN passes : Crossings(c) = {i} /\ First(i, c)
  \/ /\ status[c] = "COMPLETE"
     /\ \E i, j \in DOMAIN passes :
          /\ Crossings(c) = {i, j} /\ First(i, c) /\ Second(j, c)
          /\ tickets[i].tx < tickets[j].tx

History == \A c \in Cycles : Served(c)

\* Lemma: the histories are of one length.
LEMMA HistoryTypes ==
  ASSUME TypeOK, SessionTypeOK
  PROVE  /\ DOMAIN passes = DOMAIN tickets
         /\ \A i \in DOMAIN tickets : /\ tickets[i].tx \in Nat
                                      /\ passes[i].direction \in Directions
<1>1. /\ tickets \in Seq(Tickets)
      /\ passes \in Seq([direction : Directions, cycle : Cycles])
      /\ Len(passes) = Len(tickets)
  BY DEF TypeOK, SessionTypeOK
<1>2. DOMAIN passes = 1..Len(tickets) /\ DOMAIN tickets = 1..Len(tickets)
  BY <1>1
<1>3. \A i \in 1..Len(tickets) : tickets[i] \in Tickets
  BY <1>1
<1>4. \A i \in 1..Len(passes) : passes[i] \in [direction : Directions, cycle : Cycles]
  <2> DEFINE P == [direction : Directions, cycle : Cycles]
  <2>1. passes \in Seq(P)
    BY <1>1
  <2> HIDE DEF P
  <2>2. \A i \in 1..Len(passes) : passes[i] \in P
    BY <2>1
  <2> QED
    BY <2>2 DEF P
<1> QED
  BY <1>1, <1>2, <1>3, <1>4 DEF Tickets

\* The crossing of ticket k for cycle c is the n-th and the last.
Added(n, c, k) ==
  /\ DOMAIN passes' = DOMAIN passes \cup {n}
  /\ DOMAIN tickets' = DOMAIN tickets \cup {n}
  /\ passes'[n] = [direction |-> direction, cycle |-> c] /\ tickets'[n] = k
  /\ \A i \in DOMAIN passes : passes'[i] = passes[i] /\ tickets'[i] = tickets[i]
  /\ Crossings(c)' = Crossings(c) \cup {n}
  /\ \A e \in Cycles \ {c} : Crossings(e)' = Crossings(e)

\* Lemma: a crossing is added at the end of the history.
LEMMA CrossingAdded ==
  ASSUME TypeOK, SessionTypeOK, NEW c \in Cycles, NEW k \in Tickets, Crosses(c, k),
         direction \in Directions
  PROVE  \E n : Added(n, c, k)
<1> DEFINE n == Len(passes) + 1
           new == [direction |-> direction, cycle |-> c]
<1>1. /\ tickets \in Seq(Tickets) /\ passes \in Seq([direction : Directions, cycle : Cycles])
      /\ Len(passes) = Len(tickets) /\ new \in [direction : Directions, cycle : Cycles]
      /\ tickets' = Append(tickets, k) /\ passes' = Append(passes, new)
  BY DEF TypeOK, SessionTypeOK, Crosses
<1>2. /\ DOMAIN passes = 1..Len(passes) /\ DOMAIN tickets = 1..Len(passes)
      /\ Len(passes) \in Nat
  BY <1>1
<1>3. DOMAIN passes' = 1..n /\ passes'[n] = new
  BY <1>1, <1>2
<1>4. DOMAIN tickets' = 1..n /\ tickets'[n] = k
  BY <1>1, <1>2
<1>5. \A i \in 1..Len(passes) : passes'[i] = passes[i] /\ tickets'[i] = tickets[i]
  BY <1>1, <1>2
<1>6. 1..n = 1..Len(passes) \cup {n} /\ n \notin 1..Len(passes) /\ n \in 1..n
  BY <1>2
<1> HIDE DEF n
<1>7. ASSUME NEW e \in Cycles
      PROVE  Crossings(e)' = IF e = c THEN Crossings(e) \cup {n} ELSE Crossings(e)
  <2>1. new.cycle = c
    OBVIOUS
  <2> HIDE DEF new
  <2> QED
    BY <1>2, <1>3, <1>5, <1>6, <2>1 DEF Crossings
<1> HIDE DEF new
<1>8. Added(n, c, k)
  BY <1>2, <1>3, <1>4, <1>5, <1>6, <1>7 DEF Added, new
<1> QED
  BY <1>8

\* Lemma: ids grow, and the direction is the transaction's.
LEMMA IdsStep ==
  ASSUME Ground, StationInv, Ids, [PassNext]_passVars
  PROVE  Ids'
<1>0. /\ TypeOK /\ Pending /\ SessionTypeOK /\ started \in Nat /\ tx \in Transactions
      /\ tickets \in Seq(Tickets) /\ DOMAIN passes = DOMAIN tickets
      /\ \A i \in DOMAIN tickets : /\ tickets[i].tx \in Nat
                                   /\ passes[i].direction \in Directions
  BY HistoryTypes DEF Ground, Inv, TypeOK, StationInv
<1>1. CASE /\ UNCHANGED <<started, tickets, passes>>
           /\ \/ tx'.state = "IDLE"
              \/ /\ tx'.id = tx.id /\ tx.state # "IDLE"
                 /\ direction' = direction \/ direction = "NONE"
  BY <1>0, <1>1 DEF Ids, Directions
<1>2. CASE Carries /\ UNCHANGED <<started, passes, direction>>
  BY <1>1, <1>2 DEF Carries, Evolves
<1>3. CASE \E p \in PositionInputs : Position(p)
  <2>1. PICK p \in PositionInputs : Position(p)
    BY <1>3
  <2>2. CASE EndPass(p)
    BY <1>1, <2>1, <2>2 DEF EndPass, endPass, ResetCompleted, Position, NoTx, NewTx
  <2>3. CASE CrossSensors(p)
    <3> DEFINE q == IF direction' = "B_TO_A" THEN swapPhysicalPosition(p) ELSE p
               new == startTransaction(started + 1, faults)
    <3>1. /\ q \in PositionInputs /\ ObservePosition(q)
          /\ direction' = direction \/ direction = "NONE"
          /\ passes' = passes
      BY <2>1, <2>3, SessionAssumption DEF CrossSensors, Position
    <3>2. q \in Sensors
      BY <3>1, ConstantsAssumption
    <3> HIDE DEF q
    <3>3. CASE tx.state = "IDLE" /\ q.entry
      <4>0. started + 1 \in Nat
        BY <1>0
      <4>1. new \in Transactions /\ new.id = started + 1 /\ new.state # "IDLE"
        BY <4>0, NewTransaction
      <4>2. tx' = afterPosition(new, q, faults, lastScale) /\ started' = started + 1
            /\ tickets' = tickets
        BY <3>1, <3>3, <4>1 DEF ObservePosition
      <4> HIDE DEF new
      <4>3. tx'.id = started + 1
        BY <3>2, <4>1, <4>2, AfterPositionEvolves DEF Evolves
      <4>4. \A i \in DOMAIN tickets : tickets[i].tx < started + 1
        BY <1>0 DEF Ids
      <4> QED
        BY <1>0, <4>2, <4>3, <4>4 DEF Ids
    <3>4. CASE ~(tx.state = "IDLE" /\ q.entry)
      <4>1. UNCHANGED <<started, tickets>>
            /\ tx' = IF tx.state = "IDLE" THEN tx
                     ELSE afterPosition(tx, q, faults, lastScale)
        BY <3>1, <3>4 DEF ObservePosition
      <4>2. tx.state # "IDLE" => tx'.id = tx.id
        BY <1>0, <3>2, <4>1, AfterPositionEvolves DEF Evolves
      <4> QED
        BY <1>1, <3>1, <4>1, <4>2
    <3> QED
      BY <3>3, <3>4
  <2> QED
    BY <2>1, <2>2, <2>3 DEF Position
<1>4. CASE \/ \E tag \in Tags : RFID(tag)
           \/ \E plate \in Plates : LPR(plate)
  <2>1. Carries
    BY <1>0, <1>4, ObserveIdentityStep DEF RFID, LPR
  <2> QED
    BY <1>2, <1>4, <2>1 DEF RFID, LPR, ObserveRFID, ObserveLPR, session
<1>5. CASE \/ \E r \in ScaleInputs : Scale(r)
           \/ FindCalled
           \/ Settle
  <2>1. FrameStep /\ UNCHANGED direction
    BY <1>0, <1>5, FrameCases
  <2>2. UNCHANGED started
    BY <2>1 DEF FrameStep, Answers, answered, ObserveScale, vars
  <2>3. Carries \/ Commits
    BY <1>0, <2>1, IdleCarries, ObserveScaleStep DEF FrameStep, Answers, answered
  <2>4. CASE Still
    <3>1. \A k : Append(tickets, k) # tickets
      BY <1>0
    <3> QED
      BY <1>2, <2>1, <2>2, <2>3, <2>4, <3>1 DEF Still, Commits
  <2>5. CASE \E c \in Cycles, k \in Tickets : Opens(c, k) \/ Completes(c, k)
    <3>1. PICK c \in Cycles, k \in Tickets : Crosses(c, k) /\ direction \in Directions
      BY <2>5 DEF Opens, Completes, Directions
    <3>2. PICK n : Added(n, c, k)
      BY <1>0, <3>1, CrossingAdded
    <3>3. /\ passes'[n].direction = direction /\ tickets'[n] = k
          /\ DOMAIN tickets' = DOMAIN tickets \cup {n}
          /\ \A i \in DOMAIN tickets :
               passes'[i] = passes[i] /\ tickets'[i] = tickets[i]
      BY <1>0, <3>2 DEF Added
    <3>4. k.tx = tx.id /\ tx'.id = tx.id /\ tx.state # "IDLE"
      BY <3>1 DEF Crosses
    <3> QED
      BY <1>0, <2>1, <2>2, <3>3, <3>4 DEF Ids
  <2> QED
    BY <2>4, <2>5, StepBooks DEF Books
<1>6. CASE \/ \E d \in CriticalFaults : Fault(d)
           \/ \E d \in Clearable : Clear(d)
           \/ AppendFails
  <2>1. Carries
    BY <1>0, <1>6, ObserveFaultStep, ClearFaultStep, SessionAssumption,
       ConstantsAssumption
       DEF Fault, Clear, AppendFails, lossRaised, Clearable, Devices
  <2> QED
    BY <1>2, <1>6, <2>1
       DEF Fault, Clear, AppendFails, lossRaised, ObserveFault, ClearFault, session
<1>7. CASE \/ Bind \/ AppendRecords \/ Expire \/ Tick \/ UNCHANGED passVars
           \/ \E c \in Cycles : CallCycle(c)
  <2>1. UNCHANGED vars /\ UNCHANGED <<passes, direction>>
    BY <1>7 DEF Bind, AppendRecords, Tick, CallCycle, Expire, passVars, session
  <2> QED
    BY <1>0, <1>2, <2>1, IdleCarries DEF vars
<1>8. CASE Reboot
  BY <1>1, <1>8 DEF Reboot, Restart, NoTx, NewTx
<1> QED
  BY <1>3, <1>4, <1>5, <1>6, <1>7, <1>8 DEF PassNext

\* Lemma: every crossing opens one cycle or completes one.
LEMMA HistoryStep ==
  ASSUME TypeOK, BookFits, StationInv, Tagged, Ids, History, Books
  PROVE  History'
<1>0. /\ SessionTypeOK /\ BookFits /\ DOMAIN passes = DOMAIN tickets
      /\ \A i \in DOMAIN tickets : tickets[i].tx \in Nat
      /\ status \in [Cycles -> Book!Statuses] /\ DOMAIN firstPass = Cycles
      /\ started \in Nat
  BY HistoryTypes DEF TypeOK, StationInv, BookFits, Book!TypeOK
<1>1. CASE Still
  <2> SUFFICES ASSUME NEW c \in Cycles PROVE Served(c)'
    BY DEF History
  <2>1. Served(c)
    BY DEF History
  <2> QED
    BY <1>1, <2>1 DEF Still, Served, Crossings, First, Second
<1>2. ASSUME NEW c \in Cycles, NEW k \in Tickets, Opens(c, k) \/ Completes(c, k)
      PROVE  History'
  <2>0. Crosses(c, k) /\ direction \in Directions
    BY <1>2 DEF Opens, Completes, Directions
  <2>1. PICK n : Added(n, c, k)
    BY <1>0, <2>0, CrossingAdded
  <2>2. ASSUME NEW e \in Cycles, e # c PROVE Served(e)'
    <3>1. /\ status'[e] = status[e] /\ firstPass'[e] = firstPass[e]
          /\ ticket'[e] = ticket[e] /\ Crossings(e)' = Crossings(e)
      BY <1>0, <1>2, <2>1, <2>2 DEF Added, Opens, Completes
    <3>2. Served(e)
      BY DEF History
    <3>3. /\ \A i \in DOMAIN passes : First(i, e) => First(i, e)'
          /\ \A j \in DOMAIN passes : Second(j, e) => Second(j, e)'
      BY <2>1, <3>1 DEF Added, First, Second
    <3> QED
      BY <2>1, <3>1, <3>2, <3>3 DEF Added, Served
  <2>3. Served(c)'
    <3>1. CASE Opens(c, k)
      <4>1. /\ status'[c] = "QUEUED"
            /\ firstPass'[c] = [plate |-> k.plate, tag |-> k.tag,
                                weight |-> k.weight, at |-> clock]
            /\ direction = "A_TO_B" /\ status[c] = "NONE"
        BY <1>0, <3>1 DEF Opens
      <4>2. Crossings(c)' = {n}
        BY <2>1, <4>1 DEF Added, History, Served
      <4>3. First(n, c)'
        BY <2>1, <4>1 DEF Added, First
      <4> QED
        BY <2>1, <4>1, <4>2, <4>3 DEF Added, Served
    <3>2. CASE Completes(c, k)
      <4>1. /\ status'[c] = "COMPLETE" /\ firstPass' = firstPass
            /\ direction = "B_TO_A" /\ status[c] = "CALLED"
            /\ VehicleKey[firstPass[c].plate] = VehicleKey[k.plate]
            /\ ticket'[c].gross = firstPass[c].weight /\ ticket'[c].tare = k.weight
        BY <1>0, <3>2 DEF Completes
      <4>2. PICK i \in DOMAIN passes : Crossings(c) = {i} /\ First(i, c)
        BY <4>1 DEF History, Served
      <4>3. Crossings(c)' = {i, n}
        BY <2>1, <4>2 DEF Added
      <4>4. First(i, c)'
        BY <2>1, <4>1, <4>2 DEF Added, First
      <4>5. firstPass[c].tag = k.tag
        BY <2>0, <3>2, <4>1 DEF Completes, Crosses, Tagged
      <4>6. Second(n, c)'
        BY <2>1, <4>1, <4>5 DEF Added, Second
      <4>7. tickets[i].tx < k.tx
        <5>1. /\ tickets[i].tx <= started /\ k.tx = started
              /\ tickets[i].tx = started => passes[i].direction = direction
          BY <1>0, <2>0, <4>2 DEF Ids, Crosses
        <5>2. tickets[i].tx # started
          BY <4>1, <4>2, <5>1 DEF First
        <5> QED
          BY <1>0, <4>2, <5>1, <5>2
      <4>8. tickets'[i].tx < tickets'[n].tx
        BY <2>1, <4>2, <4>7 DEF Added
      <4> QED
        BY <2>1, <4>1, <4>2, <4>3, <4>4, <4>6, <4>8 DEF Added, Served
    <3> QED
      BY <1>2, <3>1, <3>2
  <2> QED
    BY <2>2, <2>3 DEF History
<1> QED
  BY <1>1, <1>2 DEF Books

\* The cycle of a final ticket carries exactly two recorded passes of one
\* vehicle, one each way, by two transactions, with the ticket's weights.
THEOREM TicketsTakeTwoCrossings == PassSpec => []TicketNeedsTwoCrossings
<1>1. PassInit => Ids /\ History
  BY DEF PassInit, Init, Book!Init, NoTx, NewTx, Ids, History, Served, Crossings
<1>2. /\ Ground /\ StationInv /\ Tagged /\ Ids /\ History
      /\ [PassNext]_passVars
      => Ids' /\ History'
  BY IdsStep, StepBooks, HistoryStep DEF Ground, Inv
<1>3. PassSpec => []History
  BY <1>1, <1>2, GroundHolds, StationInvHolds, ReturnBoundHolds, PTL DEF PassSpec
<1>4. History => TicketNeedsTwoCrossings
  <2> SUFFICES ASSUME History, NEW c \in Cycles, status[c] = "COMPLETE"
               PROVE  \E i, j \in DOMAIN passes :
                        /\ {k \in DOMAIN passes : passes[k].cycle = c} = {i, j}
                        /\ passes[i].direction = "A_TO_B"
                        /\ passes[j].direction = "B_TO_A"
                        /\ tickets[i].tx < tickets[j].tx
                        /\ VehicleKey[tickets[i].plate] = VehicleKey[tickets[j].plate]
                        /\ tickets[i].tag = tickets[j].tag
                        /\ ticket[c].gross = tickets[i].weight
                        /\ ticket[c].tare = tickets[j].weight
    BY DEF TicketNeedsTwoCrossings
  <2>1. PICK i \in DOMAIN passes, j \in DOMAIN passes :
          /\ Crossings(c) = {i, j} /\ First(i, c) /\ Second(j, c)
          /\ tickets[i].tx < tickets[j].tx
    BY DEF History, Served
  <2> QED
    BY <2>1 DEF Crossings, First, Second
<1> QED
  BY <1>3, <1>4, PTL
=============================================================================
