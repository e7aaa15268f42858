------------------------------- MODULE Engine -------------------------------
(***************************************************************************)
(* The physical-pass engine of the edge controller                         *)
(* (internal/engine/engine.go): one truck crossing the weighbridge, from   *)
(* the approach sensor to the clear exit.  Every handler runs under the    *)
(* engine mutex, so each is one action.  The helpers ("...Locked" in the   *)
(* source) become operators from a transaction record to a transaction     *)
(* record, composed in the order in which the handler calls them.          *)
(*                                                                         *)
(* Data abstractions.  A nil transaction is the record NoTx, whose state   *)
(* is IDLE (what Engine.Snapshot reports for it).  EntryGreen and          *)
(* EntryBarrierOpen are always assigned together, and so are ExitGreen,    *)
(* ExitBarrierOpen and Buzzer: they are the fields entry and exit.  Block  *)
(* reasons, timestamps and the fault slice copied into the transaction for *)
(* display are left out.                                                   *)
(***************************************************************************)
EXTENDS Integers, Sequences, FiniteSets

CONSTANTS
  Tags,                 \* RFID tags that can be read
  Plates,               \* plates that can be read, as the camera spells them
  NormalizePlate,       \* the key the engine compares plates by
  Vehicles,             \* the vehicle registry: a function from tags to plates
  PositionInputs,       \* sensor snapshots the I/O scan delivers
  Weights,              \* weights (kg) a scale frame can carry
  ScaleInputs,          \* audited frames the collector delivers
  EmptyScaleMaxKG, MinStableWeightKG, StableConfirmations, StableToleranceKG,
  AuxFaults,            \* devices whose overridable faults are reported
  CriticalFaults,       \* devices whose critical faults are reported
  Evidence,             \* evidence strings an operator can attach
  MaxTransactions,      \* bound: transactions started
  MaxTickets,           \* bound: tickets committed
  None                  \* no reading, no tag, no plate, no stable base

Devices == {"SCALE", "RFID", "LPR", "ENTRY_SENSOR", "FRONT_SENSOR",
            "REAR_SENSOR", "EXIT_SENSOR", "ENTRY_BARRIER", "EXIT_BARRIER",
            "PHYSICAL_SAFETY", "REMOTE_IO", "AUDIT_STORE"}

Roles == {"OPERATOR", "SUPERVISOR", "NOBODY"}

Readings == [weight : Weights, stable : BOOLEAN, ok : BOOLEAN]

Sensors == [entry : BOOLEAN, front : BOOLEAN, rear : BOOLEAN,
            exit : BOOLEAN, safety : BOOLEAN]

ASSUME ConstantsAssumption ==
  /\ EmptyScaleMaxKG \in Nat \ {0} /\ MinStableWeightKG \in Nat \ {0}
  /\ StableConfirmations \in Nat \ {0} /\ StableToleranceKG \in Nat
  /\ Weights \subseteq Int /\ ScaleInputs \subseteq Readings
  /\ PositionInputs \subseteq Sensors
  /\ Vehicles \in [DOMAIN Vehicles -> Plates]
  /\ AuxFaults \subseteq Devices /\ CriticalFaults \subseteq Devices
  /\ MaxTransactions \in Nat /\ MaxTickets \in Nat
  /\ None \notin Readings /\ None \notin Weights
  /\ None \notin Tags /\ None \notin Plates

VARIABLES
  tx,          \* the active transaction, or NoTx
  lastScale,   \* the latest audited reading, or None
  faults,      \* per device: "NONE", "AUX" or "CRITICAL"
  stableBase,  \* weight of the frame confirmations are compared with, or None
  started,     \* how many transactions have been started: the last id
  tickets      \* the tickets the store made durable, in commit order

vars == <<tx, lastScale, faults, stableBase, started, tickets>>

States == {"IDLE", "APPROACH", "IDENTIFYING", "IDENTITY_MISMATCH",
           "ENTRY_AUTHORIZED", "ENTERING", "POSITIONING", "READY_TO_WEIGH",
           "WEIGHING", "EXIT_AUTHORIZED", "EXITING", "COMPLETE",
           "FAULT_LOCKOUT"}

Modes == {"NORMAL", "DEGRADED", "MANUAL", "FAULT_LOCKOUT"}
Identities == {"PENDING", "ACCEPTED", "MISMATCH", "MANUAL_REQUIRED"}
Positions == {"PENDING", "ACCEPTED", "MANUAL_REQUIRED"}

Transactions ==
  [id : Nat, state : States, mode : Modes, identity : Identities,
   position : Positions, sensors : Sensors,
   rfid : [tag : Tags \cup {None}, bad : BOOLEAN],
   lpr : [plate : Plates \cup {None}, bad : BOOLEAN],
   confirmations : Nat, overrides : [Devices -> SUBSET Evidence],
   exitSeen : BOOLEAN, entry : BOOLEAN, exit : BOOLEAN]

Tickets ==
  [tx : Nat, weight : Weights, tag : Tags \cup {None}, plate : Plates \cup {None}]

TypeOK ==
  /\ tx \in Transactions
  /\ lastScale \in Readings \cup {None}
  /\ faults \in [Devices -> {"NONE", "AUX", "CRITICAL"}]
  /\ stableBase \in Weights \cup {None}
  /\ started \in Nat
  /\ tickets \in Seq(Tickets)

AllClear == [entry |-> FALSE, front |-> FALSE, rear |-> FALSE,
             exit |-> FALSE, safety |-> FALSE]

NewTx(id) ==
  [id |-> id, state |-> "APPROACH", mode |-> "NORMAL",
   identity |-> "PENDING", position |-> "PENDING", sensors |-> AllClear,
   rfid |-> [tag |-> None, bad |-> FALSE],
   lpr |-> [plate |-> None, bad |-> FALSE],
   confirmations |-> 0, overrides |-> [d \in Devices |-> {}],
   exitSeen |-> FALSE, entry |-> FALSE, exit |-> FALSE]

NoTx == [NewTx(0) EXCEPT !.state = "IDLE"]

Init ==
  /\ tx = NoTx
  /\ lastScale = None
  /\ faults = [d \in Devices |-> "NONE"]
  /\ stableBase = None
  /\ started = 0
  /\ tickets = << >>

-----------------------------------------------------------------------------
(* Helpers: t is the transaction, s the latest reading, f the faults.      *)

abs64(v) == IF v < 0 THEN -v ELSE v

\* Mutant: the requests survive the lockout.
lockoutKeepingOutputs(t) ==
  [t EXCEPT !.mode = "FAULT_LOCKOUT", !.state = "FAULT_LOCKOUT"]

lockout(t) ==
  [t EXCEPT !.mode = "FAULT_LOCKOUT", !.state = "FAULT_LOCKOUT",
            !.entry = FALSE, !.exit = FALSE]

Critical(f, d) == f[d] = "CRITICAL" \/ (d = "SCALE" /\ f[d] # "NONE")

auxFaultCount(f) == Cardinality({d \in Devices \ {"SCALE"} : f[d] = "AUX"})

updateMode(t, f) ==
  LET aux == auxFaultCount(f) IN
  IF t.state = "FAULT_LOCKOUT" THEN t
  ELSE [t EXCEPT !.mode = IF aux > 1 \/ t.mode = "MANUAL" THEN "MANUAL"
                          ELSE IF aux = 1 THEN "DEGRADED" ELSE "NORMAL"]

hasOverride(t, d, evidence) == evidence \in t.overrides[d]

\* Mutant: the deck sensors are not consulted.
authorizeEntryByWeightOnly(t, s) ==
  IF \/ t.identity # "ACCEPTED" \/ t.state = "FAULT_LOCKOUT"
     \/ ~t.sensors.safety \/ s = None
     \/ ~s.ok \/ ~s.stable \/ abs64(s.weight) > EmptyScaleMaxKG
  THEN t
  ELSE [t EXCEPT !.state = "ENTRY_AUTHORIZED", !.entry = TRUE]

tryAuthorizeEntry(t, s) ==
  IF \/ t.identity # "ACCEPTED" \/ t.state = "FAULT_LOCKOUT"
     \/ ~t.sensors.safety \/ t.sensors.front \/ t.sensors.rear
     \/ s = None
  THEN t
  ELSE IF ~s.ok THEN lockout(t)
  ELSE IF ~s.stable \/ abs64(s.weight) > EmptyScaleMaxKG THEN t
  ELSE [t EXCEPT !.state = "ENTRY_AUTHORIZED", !.entry = TRUE]

manualIdentity(t) ==
  [t EXCEPT !.identity = "MANUAL_REQUIRED", !.mode = "MANUAL"]

\* Neither a nil registry, a failed lookup nor an unknown tag resolves.
Resolves(tag) == tag \in DOMAIN Vehicles

\* Mutant: a mismatch leaves the entry request as it was.
matchIdentityKeepingEntry(t, s) ==
  IF Resolves(t.rfid.tag) /\ NormalizePlate[Vehicles[t.rfid.tag]]
                               # NormalizePlate[t.lpr.plate]
  THEN [t EXCEPT !.identity = "MISMATCH", !.state = "IDENTITY_MISMATCH"]
  ELSE tryAuthorizeEntry([t EXCEPT !.identity = "ACCEPTED"], s)

matchIdentity(t, s) ==
  IF ~Resolves(t.rfid.tag) THEN manualIdentity(t)
  ELSE IF NormalizePlate[Vehicles[t.rfid.tag]] # NormalizePlate[t.lpr.plate]
  THEN [t EXCEPT !.identity = "MISMATCH", !.state = "IDENTITY_MISMATCH",
                 !.entry = FALSE]
  ELSE tryAuthorizeEntry(
         [t EXCEPT !.identity = "ACCEPTED",
                   !.state = IF @ = "IDENTITY_MISMATCH" THEN "IDENTIFYING"
                             ELSE @], s)

crossCheck(t, f, s) ==
  LET rfidBad == f["RFID"] # "NONE" \/ t.rfid.bad
      lprBad  == f["LPR"] # "NONE" \/ t.lpr.bad
      tagRead   == ~rfidBad /\ t.rfid.tag # None
      plateRead == ~lprBad /\ t.lpr.plate # None
      confirmed(d) == hasOverride(t, d, "IDENTITY_CONFIRMED")
      accepted == [t EXCEPT !.identity = "ACCEPTED", !.mode = "DEGRADED"]
      fromRegistry == [plate |-> Vehicles[t.rfid.tag], bad |-> TRUE]
  IN IF tagRead /\ plateRead THEN matchIdentity(t, s)
     ELSE IF rfidBad /\ plateRead /\ confirmed("RFID")
     THEN tryAuthorizeEntry(accepted, s)
     ELSE IF lprBad /\ tagRead /\ confirmed("LPR")
     THEN IF Resolves(t.rfid.tag)
          THEN tryAuthorizeEntry([accepted EXCEPT !.lpr = fromRegistry], s)
          ELSE manualIdentity(t)
     ELSE IF rfidBad /\ lprBad THEN manualIdentity(t)
     ELSE t

\* Mutant: identity is evaluated for a locked-out transaction too.
evaluateIdentityAlways(t, f, s) ==
  IF t.state \in {"IDLE", "COMPLETE"} THEN t ELSE crossCheck(t, f, s)

evaluateIdentity(t, f, s) ==
  IF t.state \in {"IDLE", "FAULT_LOCKOUT", "COMPLETE"} THEN t
  ELSE crossCheck(t, f, s)

evaluatePosition(t, f) ==
  LET frontFault == f["FRONT_SENSOR"] # "NONE"
      rearFault  == f["REAR_SENSOR"] # "NONE"
      confirmed(d) == hasOverride(t, d, "POSITION_CONFIRMED")
      degraded == \/ frontFault /\ ~rearFault /\ t.sensors.rear
                       /\ confirmed("FRONT_SENSOR")
                  \/ rearFault /\ ~frontFault /\ t.sensors.front
                       /\ confirmed("REAR_SENSOR")
  IN IF ~frontFault /\ ~rearFault /\ t.sensors.front /\ t.sensors.rear
     THEN [t EXCEPT !.position = "ACCEPTED", !.entry = FALSE]
     ELSE IF frontFault /\ rearFault
     THEN [t EXCEPT !.position = "MANUAL_REQUIRED", !.mode = "MANUAL"]
     ELSE IF degraded
     THEN [t EXCEPT !.position = "ACCEPTED", !.mode = "DEGRADED",
                    !.entry = FALSE]
     ELSE [t EXCEPT !.position = "PENDING"]

stateBeforeWeigh ==
  {"ENTRY_AUTHORIZED", "ENTERING", "POSITIONING", "READY_TO_WEIGH"}

tryReadyToWeigh(t, s) ==
  IF \/ t.state \in {"IDLE", "FAULT_LOCKOUT", "COMPLETE"}
     \/ t.identity # "ACCEPTED" \/ t.position # "ACCEPTED" \/ s = None
  THEN t
  ELSE IF ~s.ok THEN lockout(t)
  ELSE IF t.state \in stateBeforeWeigh
       THEN [t EXCEPT !.state = "READY_TO_WEIGH"] ELSE t

\* Mutant: faults reported before the truck arrived are forgotten.
startTransactionUnchecked(id, f) ==
  [updateMode(NewTx(id), f) EXCEPT !.state = "IDENTIFYING"]

\* A new transaction starts locked out when a critical fault is active.
startTransaction(id, f) ==
  IF \E d \in Devices : Critical(f, d) THEN lockout(NewTx(id))
  ELSE [updateMode(NewTx(id), f) EXCEPT !.state = "IDENTIFYING"]

-----------------------------------------------------------------------------
(* ObservePosition.                                                        *)

authorizeIfIdentified(t, s) ==
  IF t.identity = "ACCEPTED" /\ t.state \in {"APPROACH", "IDENTIFYING"}
  THEN tryAuthorizeEntry(t, s) ELSE t

\* ENTERING is left again in the same call: it is never seen outside.
driveOn(t, f, s) ==
  LET on == IF t.state \in {"ENTRY_AUTHORIZED", "ENTERING"}
            THEN [t EXCEPT !.state = "POSITIONING"] ELSE t
      placed == evaluatePosition(on, f)
  IN IF ~t.sensors.front /\ ~t.sensors.rear THEN t
     ELSE IF placed.position = "ACCEPTED" THEN tryReadyToWeigh(placed, s)
     ELSE placed

\* Mutant: the exit sensor alone proves the exit clear.
provenClearBySensor(t) == TRUE

provenClear(t) ==
  t.sensors.safety \/ hasOverride(t, "EXIT_SENSOR", "EXIT_CLEAR_CONFIRMED")

driveOff(t) ==
  LET exiting == IF t.state = "EXIT_AUTHORIZED" /\ t.sensors.exit
                 THEN [t EXCEPT !.exitSeen = TRUE, !.state = "EXITING"]
                 ELSE t
  IN IF /\ exiting.state = "EXITING" /\ exiting.exitSeen
        /\ ~t.sensors.exit /\ provenClear(t)
     THEN [exiting EXCEPT !.state = "COMPLETE", !.entry = FALSE,
                          !.exit = FALSE]
     ELSE exiting

afterPosition(t, p, f, s) ==
  LET seen == [t EXCEPT !.sensors = p] IN
  IF t.state \in {"COMPLETE", "FAULT_LOCKOUT"} THEN seen
  ELSE driveOff(driveOn(authorizeIfIdentified(seen, s), f, s))

ObservePosition(p) ==
  LET starting == tx.state = "IDLE" /\ p.entry
      t == IF starting THEN startTransaction(started + 1, faults) ELSE tx
  IN /\ starting => started < MaxTransactions
     /\ started' = IF starting THEN started + 1 ELSE started
     /\ tx' = IF t.state = "IDLE" THEN t
              ELSE afterPosition(t, p, faults, lastScale)
     /\ UNCHANGED <<lastScale, faults, stableBase, tickets>>

(* Identity observations.  The ingress adapter stamps every one HEALTHY    *)
(* and with the current time, which is never before the transaction's      *)
(* start: observationBelongsLocked keeps it.                               *)
ObserveRFID(tag) ==
  /\ tx.state # "IDLE"
  /\ tx' = evaluateIdentity([tx EXCEPT !.rfid = [tag |-> tag, bad |-> FALSE]],
                            faults, lastScale)
  /\ UNCHANGED <<lastScale, faults, stableBase, started, tickets>>

ObserveLPR(plate) ==
  /\ tx.state # "IDLE"
  /\ tx' = evaluateIdentity([tx EXCEPT !.lpr = [plate |-> plate, bad |-> FALSE]],
                            faults, lastScale)
  /\ UNCHANGED <<lastScale, faults, stableBase, started, tickets>>

-----------------------------------------------------------------------------
(* ObserveScale.                                                           *)

countable(r) == r.stable /\ r.weight >= MinStableWeightKG

\* Mutant: the confirmations are counted down.
confirmDown(t, r) == t.confirmations - 1

confirm(t, r) ==
  IF stableBase = None \/ abs64(stableBase - r.weight) > StableToleranceKG
  THEN 1 ELSE t.confirmations + 1

beginWeighing(t, r) ==
  LET ready == tryReadyToWeigh(authorizeIfIdentified(t, r), r) IN
  IF ready.state = "READY_TO_WEIGH"
  THEN [ready EXCEPT !.state = "WEIGHING"] ELSE ready

ticketOf(t, r) ==
  [tx |-> t.id, weight |-> r.weight, tag |-> t.rfid.tag, plate |-> t.lpr.plate]

\* Mutant: the truck is released whatever the store answers.
releaseRegardless(t, r, durable) ==
  /\ Len(tickets) < MaxTickets
  /\ tickets' = IF durable THEN Append(tickets, ticketOf(t, r)) ELSE tickets
  /\ tx' = [t EXCEPT !.state = "EXIT_AUTHORIZED", !.entry = FALSE,
                     !.exit = TRUE]

\* LOCAL_COMMITTED is left again in the same call; release follows only the
\* store's answer.
commitTicket(t, r, durable) ==
  IF durable
  THEN /\ Len(tickets) < MaxTickets
       /\ tickets' = Append(tickets, ticketOf(t, r))
       /\ tx' = [t EXCEPT !.state = "EXIT_AUTHORIZED", !.entry = FALSE,
                          !.exit = TRUE]
  ELSE tx' = lockout(t) /\ UNCHANGED tickets

unhealthyFrame(r) ==
  /\ ~r.ok
  /\ faults' = [faults EXCEPT !["SCALE"] = "CRITICAL"]
  /\ tx' = IF tx.state = "IDLE" THEN tx ELSE lockout(tx)
  /\ UNCHANGED <<stableBase, tickets>>

weighFrame(t, r, durable) ==
  \/ /\ t.state # "WEIGHING"
     /\ tx' = t /\ UNCHANGED <<stableBase, tickets>>
  \/ /\ t.state = "WEIGHING" /\ ~countable(r)
     /\ tx' = [t EXCEPT !.confirmations = 0]
     /\ stableBase' = None /\ UNCHANGED tickets
  \/ /\ t.state = "WEIGHING" /\ countable(r)
     /\ stableBase' = r.weight
     /\ LET c == [t EXCEPT !.confirmations = confirm(t, r)] IN
        \/ /\ c.confirmations < StableConfirmations
           /\ tx' = c /\ UNCHANGED tickets
        \/ /\ c.confirmations >= StableConfirmations
           /\ commitTicket(c, r, durable)

healthyFrame(r, durable) ==
  /\ r.ok
  /\ faults' = [faults EXCEPT !["SCALE"] = "NONE"]
  /\ IF tx.state \in {"IDLE", "COMPLETE", "FAULT_LOCKOUT"}
     THEN UNCHANGED <<tx, stableBase, tickets>>
     ELSE weighFrame(beginWeighing(tx, r), r, durable)

ObserveScale(r, durable) ==
  /\ lastScale' = r
  /\ unhealthyFrame(r) \/ healthyFrame(r, durable)
  /\ UNCHANGED started

-----------------------------------------------------------------------------
(* Faults, overrides, reset and restart.                                   *)

\* Mutant: only the front sensor's faults re-evaluate the position.
frontSensorOnly(d) == d = "FRONT_SENSOR"

deckSensor(d) == d \in {"FRONT_SENSOR", "REAR_SENSOR"}

ObserveFault(d, kind) ==
  LET f == [faults EXCEPT ![d] = kind]
      moded == updateMode(tx, f)
      placed == IF deckSensor(d) THEN evaluatePosition(moded, f) ELSE moded
  IN /\ faults' = f
     /\ tx' = IF tx.state = "IDLE" THEN tx
              ELSE IF Critical(f, d) THEN lockout(tx)
              ELSE evaluateIdentity(placed, f, lastScale)
     /\ UNCHANGED <<lastScale, stableBase, started, tickets>>

ClearFault(d) ==
  LET f == [faults EXCEPT ![d] = "NONE"]
      moded == updateMode(tx, f)
      placed == IF deckSensor(d) THEN evaluatePosition(moded, f) ELSE moded
  IN /\ faults' = f
     /\ tx' = IF tx.state = "IDLE" THEN tx
              ELSE evaluateIdentity(placed, f, lastScale)
     /\ UNCHANGED <<lastScale, stableBase, started, tickets>>

RequiredRole(d) ==
  IF auxFaultCount(faults) > 1
     \/ d \in {"ENTRY_BARRIER", "EXIT_BARRIER", "PHYSICAL_SAFETY"}
  THEN {"SUPERVISOR"} ELSE {"OPERATOR", "SUPERVISOR"}

\* Reason and authorizer are taken as given; overrides are dropped with the
\* transaction, so none of an active transaction has expired.
AuthorizeOverride(d, role, evidence) ==
  LET o == [tx EXCEPT !.overrides[d] = evidence]
      moded == updateMode(o, faults)
      placed == IF deckSensor(d)
                THEN tryReadyToWeigh(evaluatePosition(moded, faults), lastScale)
                ELSE moded
  IN /\ tx.state # "IDLE"
     /\ d # "SCALE" /\ evidence # {}
     /\ faults[d] = "AUX"
     /\ role \in RequiredRole(d)
     /\ tx.overrides[d] = {}
     /\ tx' = evaluateIdentity(placed, faults, lastScale)
     /\ UNCHANGED <<lastScale, faults, stableBase, started, tickets>>

ResetCompleted ==
  /\ tx.state = "COMPLETE"
  /\ tx' = NoTx
  /\ stableBase' = None
  /\ UNCHANGED <<lastScale, faults, started, tickets>>

\* The process stops and starts again: engine.New, on the same ticket store.
Restart ==
  /\ tx' = NoTx
  /\ lastScale' = None
  /\ faults' = [d \in Devices |-> "NONE"]
  /\ stableBase' = None
  /\ UNCHANGED <<started, tickets>>

\* The I/O controller clears its link's fault at every poll, active or not.
Clearable == AuxFaults \cup CriticalFaults \cup {"REMOTE_IO"}

Next ==
  \/ \E p \in PositionInputs : ObservePosition(p)
  \/ \E tag \in Tags : ObserveRFID(tag)
  \/ \E plate \in Plates : ObserveLPR(plate)
  \/ \E r \in ScaleInputs, durable \in BOOLEAN : ObserveScale(r, durable)
  \/ \E d \in AuxFaults : ObserveFault(d, "AUX")
  \/ \E d \in CriticalFaults : ObserveFault(d, "CRITICAL")
  \/ \E d \in Clearable : ClearFault(d)
  \/ \E d \in Devices, role \in Roles, e \in SUBSET Evidence :
       AuthorizeOverride(d, role, e)
  \/ ResetCompleted
  \/ Restart

Spec == Init /\ [][Next]_vars

-----------------------------------------------------------------------------
(* Properties.                                                             *)

Durable(id) == \E i \in DOMAIN tickets : tickets[i].tx = id

\* The exit side is permissive, and the pass counts as released or complete,
\* only once the store has made a ticket of this very transaction durable.
ReleaseIsDurable ==
  tx.exit \/ tx.state \in {"EXIT_AUTHORIZED", "EXITING", "COMPLETE"}
    => Durable(tx.id)

\* A locked-out transaction requests no permissive output, whichever handler
\* locked it out and whatever is observed, cleared or overridden afterwards.
LockoutIsSafe ==
  tx.state = "FAULT_LOCKOUT" => ~tx.entry /\ ~tx.exit

\* While a critical fault is active there is no transaction in progress that
\* is not locked out, even one that started after the fault was reported.
CriticalFaultLocksOut ==
  (tx.state # "IDLE" /\ \E d \in Devices : Critical(faults, d))
    => tx.state = "FAULT_LOCKOUT"

\* A truck whose tag and plate disagree is held: the entry request is off for
\* as long as the mismatch stands.
MismatchHoldsEntry == tx.state = "IDENTITY_MISMATCH" => ~tx.entry

\* Outside lockout, an accepted position is backed either by two working deck
\* sensors or, for a faulted one, by an override of this transaction that
\* carries POSITION_CONFIRMED evidence; never with both sensors faulted.
PositionIsEvidenced ==
  tx.state # "FAULT_LOCKOUT" /\ tx.position = "ACCEPTED" =>
    /\ \A d \in {"FRONT_SENSOR", "REAR_SENSOR"} :
         faults[d] # "NONE" => hasOverride(tx, d, "POSITION_CONFIRMED")
    /\ faults["FRONT_SENSOR"] = "NONE" \/ faults["REAR_SENSOR"] = "NONE"

\* Nothing but a process restart takes a transaction out of FAULT_LOCKOUT:
\* no healthy frame, cleared fault, identity read, override or reset does.
LockoutIsFinal ==
  [][tx.state = "FAULT_LOCKOUT" =>
       \/ tx'.state = "FAULT_LOCKOUT" /\ tx'.id = tx.id
       \/ Restart]_vars

\* The entry request is raised only for an accepted identity, with safety
\* clear, both deck sensors clear and the latest frame stable and near zero.
EntryOntoEmptyDeck ==
  [][~tx.entry /\ tx'.entry =>
       /\ tx'.identity = "ACCEPTED"
       /\ tx'.sensors.safety /\ ~tx'.sensors.front /\ ~tx'.sensors.rear
       /\ lastScale' # None /\ lastScale'.ok /\ lastScale'.stable
       /\ abs64(lastScale'.weight) <= EmptyScaleMaxKG]_vars

\* The exit side's request, once raised, is withdrawn only by a lockout, by a
\* restart, or when the truck was seen at the exit sensor, the sensor is clear
\* again and safety (or an operator's evidence) proves the exit clear.
ExitHeldUntilClear ==
  [][tx.exit /\ ~tx'.exit =>
       \/ tx'.state = "FAULT_LOCKOUT"
       \/ tx.exitSeen /\ ~tx'.sensors.exit
            /\ (tx'.sensors.safety
                 \/ hasOverride(tx', "EXIT_SENSOR", "EXIT_CLEAR_CONFIRMED"))
       \/ Restart]_vars

\* A transaction is one short physical pass: it commits one ticket.
OneTicketPerTransaction ==
  \A i, j \in DOMAIN tickets : tickets[i].tx = tickets[j].tx => i = j
=============================================================================
