--------------------------- MODULE ContractProofs ---------------------------
(***************************************************************************)
(* The station provides the workflow that the I/O controller relies on,    *)
(* for every value of its constants.  What RuntimeIOProofs shows of the    *)
(* outputs of any such workflow is shown of the station's.                 *)
(***************************************************************************)
EXTENDS TwoPassProofs

\* What the requests of the station are, side by side.
Asked == {side \in {"ENTRY", "EXIT"} :
            IF side = "ENTRY" THEN Snapshot.A ELSE Snapshot.B}

\* Lemma: they are requests the controller can serve: the buzzer comes with
\* the side the truck is released on.
LEMMA RequestsFit == TypeOK => requested \in Contract!Wants
<1> SUFFICES ASSUME TypeOK PROVE requested \in Contract!Wants
  OBVIOUS
<1> DEFINE buzzer == IF Snapshot.buzzer THEN {<<"BUZZER", "EXIT">>} ELSE {}
<1>1. requested = ({"OPEN", "GREEN"} \X Asked) \cup buzzer
  BY DEF requested, Asked
<1>2. Asked \subseteq {"ENTRY", "EXIT"}
  BY DEF Asked
<1>3. Snapshot.buzzer => Asked # {}
  BY DEF Snapshot, Asked
<1> HIDE DEF Asked
<1>4. requested \subseteq Contract!Permissive
  BY <1>1, <1>2 DEF Contract!Permissive, Contract!Sides, Contract!Buzzer
<1>5. \A s \in Contract!Sides :
        /\ Contract!Open(s) \in requested <=> s \in Asked
        /\ Contract!Green(s) \in requested <=> s \in Asked
  BY <1>1, <1>2 DEF Contract!Open, Contract!Green, Contract!Sides
<1>6. Contract!Buzzer \in requested => Snapshot.buzzer
  BY <1>1, <1>2 DEF Contract!Buzzer
<1>7. Asked \subseteq Contract!Sides
  BY <1>2 DEF Contract!Sides
<1> QED
  BY <1>3, <1>4, <1>5, <1>6, <1>7 DEF Contract!Wants

\* Lemma: there is no request without a permission of the engine.
LEMMA NothingAsked ==
  ASSUME tx.state = "IDLE" \/ (~tx.entry /\ ~tx.exit)
  PROVE  requested = {}
<1>1. ~Snapshot.A /\ ~Snapshot.B /\ ~Snapshot.buzzer
  BY DEF Snapshot
<1>2. {side \in {"ENTRY", "EXIT"} :
         IF side = "ENTRY" THEN Snapshot.A ELSE Snapshot.B} = {}
  BY <1>1
<1>3. {"OPEN", "GREEN"} \X {} = {}
  OBVIOUS
<1> QED
  BY <1>1, <1>2, <1>3 DEF requested

-----------------------------------------------------------------------------
(* A transaction starts without a request.                                 *)

Unasked(t) == t.state = "IDLE" \/ (~t.entry /\ ~t.exit)

\* Lemma: whatever starts it, its identity is open.
LEMMA StartsUnidentified ==
  ASSUME NEW id \in Nat, NEW f
  PROVE  startTransaction(id, f).identity = "PENDING"
<1>1. NewTx(id) \in Transactions /\ NewTx(id).identity = "PENDING"
  BY ConstantsAssumption
     DEF NewTx, Transactions, States, Modes, Identities, Positions, Sensors, AllClear
<1>2. /\ lockout(NewTx(id)).identity = "PENDING"
      /\ updateMode(NewTx(id), f).identity = "PENDING"
      /\ updateMode(NewTx(id), f) \in Transactions
  BY <1>1, HelperReads, UpdateModeEvolves DEF Reads, Evolves
<1> QED
  BY <1>2 DEF startTransaction, Transactions

\* Lemma: the position that starts it raises none.
LEMMA PositionStartsUnasked ==
  ASSUME TypeOK, NEW q \in PositionInputs, ObservePosition(q), tx.state = "IDLE"
  PROVE  Unasked(tx')
<1> DEFINE new == startTransaction(started + 1, faults)
<1>0. q \in Sensors /\ started + 1 \in Nat
  BY ConstantsAssumption DEF TypeOK
<1>1. CASE q.entry
  <2>1. /\ new \in Transactions /\ new.state # "IDLE" /\ ~Released(new)
        /\ new.identity = "PENDING"
        /\ Evidenced(new, faults) /\ AtRest(new) /\ ~new.entry
    BY <1>0, NewTransaction, StartsUnidentified, StartsAtRest
  <2>2. tx' = afterPosition(new, q, faults, lastScale)
    BY <1>1, <2>1 DEF ObservePosition
  <2> HIDE DEF new
  <2>3. tx'.identity = "PENDING" /\ (tx'.exit => new.exit)
    BY <1>0, <2>1, <2>2, AfterPositionReads, AfterPositionEvolves DEF Reads, Evolves
  <2>4. Raises(new, tx', lastScale)
    BY <1>0, <2>1, <2>2, AfterPositionWay
  <2> QED
    BY <2>1, <2>3, <2>4 DEF Raises, Authorized, Released, Unasked
<1>2. CASE ~q.entry
  BY <1>2 DEF ObservePosition, Unasked
<1> QED
  BY <1>1, <1>2

\* Lemma: and nothing else starts one.
LEMMA StartsUnasked ==
  ASSUME TypeOK, [Next]_vars, tx.state = "IDLE"
  PROVE  Unasked(tx')
<1>1. CASE \E p \in PositionInputs : ObservePosition(p)
  BY <1>1, PositionStartsUnasked
<1>2. CASE \/ \E tag \in Tags : ObserveRFID(tag)
           \/ \E plate \in Plates : ObserveLPR(plate)
           \/ \E d \in Devices, role \in Roles, e \in SUBSET Evidence :
                AuthorizeOverride(d, role, e)
           \/ ResetCompleted
  BY <1>2 DEF ObserveRFID, ObserveLPR, AuthorizeOverride, ResetCompleted
<1>3. CASE \E r \in ScaleInputs, durable \in BOOLEAN : ObserveScale(r, durable)
  BY <1>3 DEF ObserveScale, unhealthyFrame, healthyFrame, Unasked
<1>4. CASE \/ \E d \in AuxFaults : ObserveFault(d, "AUX")
           \/ \E d \in CriticalFaults : ObserveFault(d, "CRITICAL")
           \/ \E d \in Clearable : ClearFault(d)
  BY <1>4 DEF ObserveFault, ClearFault, Unasked
<1>5. CASE Restart
  BY <1>5 DEF Restart, NoTx, NewTx, Unasked
<1>6. CASE UNCHANGED vars
  BY <1>6 DEF vars, Unasked
<1> QED
  BY <1>1, <1>2, <1>3, <1>4, <1>5, <1>6 DEF Next

-----------------------------------------------------------------------------
(* The contract.                                                           *)

\* Lemma: what the restarted process requests and reports.
LEMMA RestartStops ==
  ASSUME Restart
  PROVE  Contract!Stop
<1>1. tx'.state = "IDLE" /\ \A d \in Devices : faults'[d] = "NONE"
  BY DEF Restart, NoTx, NewTx
<1>2. phase' = "NONE"
  BY <1>1 DEF phase
<1>3. requested' = {}
  <2>1. ~Snapshot.A' /\ ~Snapshot.B' /\ ~Snapshot.buzzer'
    BY <1>1 DEF Snapshot
  <2> QED
    BY <2>1 DEF requested
<1>4. reported' = {}
  BY <1>1 DEF reported, Devices
<1> QED
  BY <1>2, <1>3, <1>4 DEF Contract!Stop

\* Lemma: the phases.
LEMMA PhaseIs ==
  /\ phase \in Contract!Phases
  /\ phase = "NONE" <=> tx.state = "IDLE"
  /\ phase = "LOCKED" <=> tx.state = "FAULT_LOCKOUT"
  /\ phase = "ACTIVE" <=> tx.state \notin {"IDLE", "FAULT_LOCKOUT"}
BY DEF phase, Contract!Phases

\* Lemma: nothing is reported critical during a pass.
LEMMA ReportedIs ==
  ASSUME Inv
  PROVE  /\ reported \subseteq Contract!Reported
         /\ phase = "ACTIVE" => reported = {}
         /\ "AUDIT_STORE" \in reported <=> faults["AUDIT_STORE"] = "CRITICAL"
<1>1. phase = "ACTIVE" => \A d \in Devices : ~Critical(faults, d)
  BY PhaseIs DEF Inv, CriticalFaultLocksOut
<1> QED
  BY <1>1 DEF reported, Contract!Reported, Critical, Devices

\* What the controller sees of any state of the station.
Sight ==
  /\ phase \in Contract!Phases
  /\ phase = "NONE" <=> tx.state = "IDLE"
  /\ phase = "LOCKED" <=> tx.state = "FAULT_LOCKOUT"
  /\ requested \in Contract!Wants
  /\ Unasked(tx) \/ tx.state = "FAULT_LOCKOUT" => requested = {}
  /\ reported \subseteq Contract!Reported
  /\ phase = "ACTIVE" => reported = {}
  /\ "AUDIT_STORE" \in reported <=> faults["AUDIT_STORE"] = "CRITICAL"

\* Lemma: it does see that.
LEMMA InSight == Inv => Sight
<1> SUFFICES ASSUME Inv PROVE Sight
  OBVIOUS
<1>1. Unasked(tx) \/ tx.state = "FAULT_LOCKOUT" => requested = {}
  BY NothingAsked DEF Unasked, Inv, Quiet
<1> QED
  BY <1>1, PhaseIs, ReportedIs, RequestsFit DEF Sight, Inv

\* Lemma: every step of the station but the end of the process moves the
\* workflow as the controller expects it to move.
LEMMA StepMoves ==
  ASSUME Inv, Sight, Sight', Pending, [PassNext]_passVars, ~Restart
  PROVE  Contract!Move
<1>0. [Next]_vars /\ TypeOK
  BY StepOfEngine DEF Inv
<1>1. "AUDIT_STORE" \in reported => "AUDIT_STORE" \in reported'
  BY <1>0, AuditFaultStays DEF Reboot, Sight
<1>2. phase = "LOCKED" => phase' = "LOCKED"
  BY <1>0, LockoutStays DEF Sight
<1>3. phase = "NONE" => requested' = {}
  BY <1>0, StartsUnasked DEF Sight
<1>4. phase' \in {"LOCKED", "NONE"} => requested' = {}
  BY DEF Sight, Unasked
<1> QED
  BY <1>1, <1>2, <1>3, <1>4 DEF Contract!Move, Contract!Phases, Sight

\* Whatever the session swaps, masks or unmasks, the bridge answers and the
\* recorder loses, the station is a workflow as the I/O controller relies on.
THEOREM StationProvidesWorkflow == PassSpec => WorkflowProvided
<1>1. PassInit => Contract!Start
  <2> SUFFICES ASSUME PassInit PROVE Contract!Start
    OBVIOUS
  <2>1. tx.state = "IDLE" /\ \A d \in Devices : faults[d] = "NONE"
    BY DEF PassInit, Init, NoTx, NewTx
  <2>2. reported = {}
    BY <2>1 DEF reported, Devices
  <2> QED
    BY <2>1, <2>2, PhaseIs, NothingAsked DEF Contract!Start
<1>2. Inv /\ Sight /\ Sight' /\ Pending /\ [PassNext]_passVars
        => [Contract!Move \/ Contract!Stop]_(Contract!workflow)
  BY StepMoves, RestartStops
<1> QED
  BY <1>1, <1>2, InSight, EngineInvHolds, PendingHolds, PTL
     DEF PassSpec, WorkflowProvided, Contract!WorkflowSpec
=============================================================================
