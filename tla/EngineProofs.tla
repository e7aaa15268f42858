---------------------------- MODULE EngineProofs ----------------------------
(***************************************************************************)
(* Proofs about Engine, for every value of its constants.                  *)
(*                                                                         *)
(* The handlers compose helpers that map a transaction to a transaction.   *)
(* Evolves(t, u) says what every helper respects on the way from t to u;   *)
(* it is a preorder, so each handler respects it too, and the safety       *)
(* invariants follow from it.                                              *)
(*                                                                         *)
(* For a truck on its way over the weighbridge - what an accepted position *)
(* rests on, when the entry request is raised, when the exit request is    *)
(* withdrawn - Settles(t, u) and Steady(t, u) say what the helpers leave   *)
(* alone.  A handler changes only what its one exception does:             *)
(* evaluatePosition the position, tryAuthorizeEntry the entry request,     *)
(* driveOff and the commit the exit request.                               *)
(***************************************************************************)
EXTENDS Engine, TLAPS

\* On the way out: the exit side is requested, or the release was given.
Released(t) ==
  t.exit \/ t.state \in {"EXIT_AUTHORIZED", "EXITING", "COMPLETE"}

\* Locked out or held on a mismatch, a transaction requests nothing it must not.
Quiet(t) ==
  /\ t.state = "FAULT_LOCKOUT" => ~t.entry /\ ~t.exit
  /\ t.state = "IDENTITY_MISMATCH" => ~t.entry

Evolves(t, u) ==
  /\ u \in Transactions
  /\ u.id = t.id
  /\ t.state = "FAULT_LOCKOUT" => u.state = "FAULT_LOCKOUT"
  /\ Released(u) => Released(t)
  /\ u.exit => t.exit
  /\ Quiet(t) => Quiet(u)

-----------------------------------------------------------------------------
(* The helpers.                                                            *)

\* Doing nothing is an evolution.
LEMMA EvolvesReflexive ==
  ASSUME NEW t \in Transactions
  PROVE  Evolves(t, t)
BY DEF Evolves

\* Evolutions compose.
LEMMA EvolvesTransitive ==
  ASSUME NEW t, NEW u, NEW v, Evolves(t, u), Evolves(u, v)
  PROVE  Evolves(t, v)
BY DEF Evolves

\* lockoutLocked turns everything off.
LEMMA LockoutEvolves ==
  ASSUME NEW t \in Transactions
  PROVE  Evolves(t, lockout(t)) /\ lockout(t).state = "FAULT_LOCKOUT"
BY DEF Evolves, lockout, Transactions, Released, Quiet, States, Modes

\* updateModeLocked changes the mode only.
LEMMA UpdateModeEvolves ==
  ASSUME NEW t \in Transactions, NEW f
  PROVE  Evolves(t, updateMode(t, f)) /\ updateMode(t, f).state = t.state
BY DEF Evolves, updateMode, Transactions, Released, Quiet, Modes

\* tryAuthorizeEntryLocked never moves a locked-out transaction.
LEMMA TryAuthorizeEntryEvolves ==
  ASSUME NEW t \in Transactions, NEW s
  PROVE  Evolves(t, tryAuthorizeEntry(t, s))
<1> DEFINE u == [t EXCEPT !.state = "ENTRY_AUTHORIZED", !.entry = TRUE]
<1>1. \/ tryAuthorizeEntry(t, s) = t
      \/ tryAuthorizeEntry(t, s) = lockout(t)
      \/ tryAuthorizeEntry(t, s) = u /\ t.state # "FAULT_LOCKOUT"
  BY DEF tryAuthorizeEntry
<1>2. t.state # "FAULT_LOCKOUT" => Evolves(t, u)
  BY DEF Evolves, Transactions, Released, Quiet, States
<1> QED
  BY <1>1, <1>2, EvolvesReflexive, LockoutEvolves

\* evaluatePositionLocked touches position, mode and the entry request.
LEMMA EvaluatePositionEvolves ==
  ASSUME NEW t \in Transactions, NEW f
  PROVE  Evolves(t, evaluatePosition(t, f))
           /\ evaluatePosition(t, f).state = t.state
BY DEF Evolves, evaluatePosition, Transactions, Released, Quiet, Positions, Modes

\* tryReadyToWeighLocked never moves a locked-out transaction.
LEMMA TryReadyToWeighEvolves ==
  ASSUME NEW t \in Transactions, NEW s
  PROVE  Evolves(t, tryReadyToWeigh(t, s))
BY LockoutEvolves
   DEF Evolves, tryReadyToWeigh, Transactions, Released, Quiet, States,
       stateBeforeWeigh
\* A manual identity changes identity and mode.
LEMMA ManualIdentityEvolves ==
  ASSUME NEW t \in Transactions
  PROVE  Evolves(t, manualIdentity(t))
BY DEF Evolves, manualIdentity, Transactions, Released, Quiet, Identities, Modes

\* Comparing tag and plate holds, authorises or defers; it is asked only of a
\* transaction that is not locked out.
LEMMA MatchIdentityEvolves ==
  ASSUME NEW t \in Transactions, NEW s, t.state # "FAULT_LOCKOUT"
  PROVE  Evolves(t, matchIdentity(t, s))
<1> DEFINE mismatched == [t EXCEPT !.identity = "MISMATCH",
                                   !.state = "IDENTITY_MISMATCH",
                                   !.entry = FALSE]
           matched == [t EXCEPT !.identity = "ACCEPTED",
                                !.state = IF @ = "IDENTITY_MISMATCH"
                                          THEN "IDENTIFYING" ELSE @]
<1>1. \/ matchIdentity(t, s) = manualIdentity(t)
      \/ matchIdentity(t, s) = mismatched
      \/ matchIdentity(t, s) = tryAuthorizeEntry(matched, s)
  BY DEF matchIdentity
<1>2. Evolves(t, mismatched)
  BY DEF Evolves, Transactions, Released, Quiet, States, Identities
<1>3. Evolves(t, matched)
  BY DEF Evolves, Transactions, Released, Quiet, States, Identities
<1>4. Evolves(t, tryAuthorizeEntry(matched, s))
  <2>1. matched \in Transactions
    BY <1>3 DEF Evolves
  <2>2. Evolves(matched, tryAuthorizeEntry(matched, s))
    BY <2>1, TryAuthorizeEntryEvolves
  <2> QED
    BY <1>3, <2>2, EvolvesTransitive
<1> HIDE DEF mismatched, matched
<1> QED
  BY <1>1, <1>2, <1>4, ManualIdentityEvolves

\* The cross-check of the two identity channels.
LEMMA CrossCheckEvolves ==
  ASSUME NEW t \in Transactions, NEW f, NEW s, t.state # "FAULT_LOCKOUT"
  PROVE  Evolves(t, crossCheck(t, f, s))
<1> DEFINE accepted == [t EXCEPT !.identity = "ACCEPTED", !.mode = "DEGRADED"]
           fromRegistry == [plate |-> Vehicles[t.rfid.tag], bad |-> TRUE]
           resolved == [accepted EXCEPT !.lpr = fromRegistry]
<1>1. \/ crossCheck(t, f, s) = matchIdentity(t, s)
      \/ crossCheck(t, f, s) = tryAuthorizeEntry(accepted, s)
      \/ /\ crossCheck(t, f, s) = tryAuthorizeEntry(resolved, s)
         /\ Resolves(t.rfid.tag)
      \/ crossCheck(t, f, s) = manualIdentity(t)
      \/ crossCheck(t, f, s) = t
  BY Zenon DEF crossCheck
<1>2. Evolves(t, accepted)
  BY DEF Evolves, Transactions, Released, Quiet, Identities, Modes
<1>3. Resolves(t.rfid.tag) => Evolves(t, resolved)
  BY ConstantsAssumption
     DEF Evolves, Transactions, Released, Quiet, Identities, Modes, Resolves
<1>4. ASSUME NEW u, Evolves(t, u)
      PROVE  Evolves(t, tryAuthorizeEntry(u, s))
  <2>1. Evolves(u, tryAuthorizeEntry(u, s))
    BY <1>4, TryAuthorizeEntryEvolves DEF Evolves
  <2> QED
    BY <1>4, <2>1, EvolvesTransitive
<1> HIDE DEF accepted, resolved
<1> QED
  BY <1>1, <1>2, <1>3, <1>4, MatchIdentityEvolves, ManualIdentityEvolves,
     EvolvesReflexive

\* Identity is evaluated only while the pass is in progress.
LEMMA EvaluateIdentityEvolves ==
  ASSUME NEW t \in Transactions, NEW f, NEW s
  PROVE  Evolves(t, evaluateIdentity(t, f, s))
BY CrossCheckEvolves, EvolvesReflexive DEF evaluateIdentity

\* A new transaction, locked out or not, is quiet and not released.
LEMMA NewTransaction ==
  ASSUME NEW id \in Nat, NEW f
  PROVE  /\ startTransaction(id, f) \in Transactions
         /\ startTransaction(id, f).id = id
         /\ ~Released(startTransaction(id, f))
         /\ Quiet(startTransaction(id, f))
         /\ startTransaction(id, f).state # "IDLE"
         /\ (\E d \in Devices : Critical(f, d))
               => startTransaction(id, f).state = "FAULT_LOCKOUT"
<1> DEFINE new == NewTx(id)
           u == [updateMode(new, f) EXCEPT !.state = "IDENTIFYING"]
<1>1. new \in Transactions /\ new.id = id /\ ~Released(new) /\ Quiet(new)
  BY DEF NewTx, Transactions, States, Modes, Identities, Positions, Sensors,
         AllClear, Released, Quiet
<1>2. Evolves(new, lockout(new)) /\ lockout(new).state = "FAULT_LOCKOUT"
  BY <1>1, LockoutEvolves
<1>3. Evolves(new, updateMode(new, f)) /\ updateMode(new, f).state = "APPROACH"
  BY <1>1, UpdateModeEvolves DEF NewTx
<1>4. /\ u \in Transactions /\ u.id = id /\ ~Released(u) /\ Quiet(u)
      /\ u.state = "IDENTIFYING"
  BY <1>1, <1>3 DEF Evolves, Transactions, States, Released, Quiet
<1> QED
  BY <1>1, <1>2, <1>4 DEF startTransaction, Evolves
-----------------------------------------------------------------------------
(* ObservePosition and ObserveScale, up to the commit.                     *)

\* A frame or a snapshot may authorise a waiting truck.
LEMMA AuthorizeIfIdentifiedEvolves ==
  ASSUME NEW t \in Transactions, NEW s
  PROVE  Evolves(t, authorizeIfIdentified(t, s))
BY TryAuthorizeEntryEvolves, EvolvesReflexive DEF authorizeIfIdentified

\* The truck on the deck is placed, and weighing prepared.
LEMMA DriveOnEvolves ==
  ASSUME NEW t \in Transactions, NEW f, NEW s
  PROVE  Evolves(t, driveOn(t, f, s))
<1> DEFINE on == IF t.state \in {"ENTRY_AUTHORIZED", "ENTERING"}
                 THEN [t EXCEPT !.state = "POSITIONING"] ELSE t
           placed == evaluatePosition(on, f)
<1>1. Evolves(t, on)
  BY DEF Evolves, Transactions, Released, Quiet, States
<1>2. Evolves(t, placed) /\ placed \in Transactions
  <2>1. Evolves(on, placed)
    BY <1>1, EvaluatePositionEvolves DEF Evolves
  <2> QED
    BY <1>1, <2>1, EvolvesTransitive DEF Evolves
<1>3. Evolves(t, tryReadyToWeigh(placed, s))
  BY <1>2, TryReadyToWeighEvolves, EvolvesTransitive
<1>4. driveOn(t, f, s) \in {t, placed, tryReadyToWeigh(placed, s)}
  BY DEF driveOn
<1> HIDE DEF on, placed
<1> QED
  BY <1>2, <1>3, <1>4, EvolvesReflexive

\* The truck leaving the deck: a pass completes only after a release.
LEMMA DriveOffEvolves ==
  ASSUME NEW t \in Transactions
  PROVE  Evolves(t, driveOff(t))
<1> DEFINE gone == [t EXCEPT !.exitSeen = TRUE, !.state = "EXITING"]
           exiting == IF t.state = "EXIT_AUTHORIZED" /\ t.sensors.exit
                      THEN gone ELSE t
           complete == [exiting EXCEPT !.state = "COMPLETE", !.entry = FALSE,
                                       !.exit = FALSE]
<1>1. Evolves(t, exiting)
  <2>1. t.state = "EXIT_AUTHORIZED" => Evolves(t, gone)
    BY DEF Evolves, Transactions, Released, Quiet, States
  <2> HIDE DEF gone
  <2> QED
    BY <2>1, EvolvesReflexive
<1>2. exiting.state = "EXITING" => Evolves(exiting, complete)
  BY <1>1 DEF Evolves, Transactions, Released, Quiet, States
<1>3. \/ driveOff(t) = exiting
      \/ driveOff(t) = complete /\ exiting.state = "EXITING"
  BY Zenon DEF driveOff
<1> HIDE DEF exiting, complete
<1> QED
  BY <1>1, <1>2, <1>3, EvolvesTransitive

\* The whole position handler, for an active transaction.
LEMMA AfterPositionEvolves ==
  ASSUME NEW t \in Transactions, NEW p \in Sensors, NEW f, NEW s
  PROVE  Evolves(t, afterPosition(t, p, f, s))
<1> DEFINE seen == [t EXCEPT !.sensors = p]
           a == authorizeIfIdentified(seen, s)
           b == driveOn(a, f, s)
<1>1. Evolves(t, seen) /\ seen \in Transactions
  BY DEF Evolves, Transactions, Released, Quiet
<1>2. Evolves(t, a) /\ a \in Transactions
  BY <1>1, AuthorizeIfIdentifiedEvolves, EvolvesTransitive DEF Evolves
<1>3. Evolves(t, b) /\ b \in Transactions
  <2>1. Evolves(a, b)
    BY <1>2, DriveOnEvolves
  <2> QED
    BY <1>2, <2>1, EvolvesTransitive DEF Evolves
<1>4. Evolves(t, driveOff(b))
  BY <1>3, DriveOffEvolves, EvolvesTransitive
<1> QED
  BY <1>1, <1>4 DEF afterPosition

\* A healthy frame may authorise the entry or begin weighing.
LEMMA BeginWeighingEvolves ==
  ASSUME NEW t \in Transactions, NEW r
  PROVE  Evolves(t, beginWeighing(t, r))
<1> DEFINE a == authorizeIfIdentified(t, r)
           ready == tryReadyToWeigh(a, r)
           weighing == [ready EXCEPT !.state = "WEIGHING"]
<1>1. Evolves(t, a) /\ a \in Transactions
  BY AuthorizeIfIdentifiedEvolves DEF Evolves
<1>2. Evolves(t, ready) /\ ready \in Transactions
  <2>1. Evolves(a, ready)
    BY <1>1, TryReadyToWeighEvolves
  <2> QED
    BY <1>1, <2>1, EvolvesTransitive DEF Evolves
<1>3. ready.state = "READY_TO_WEIGH" => Evolves(ready, weighing)
  BY <1>2 DEF Evolves, Transactions, Released, Quiet, States
<1>4. \/ beginWeighing(t, r) = ready
      \/ beginWeighing(t, r) = weighing /\ ready.state = "READY_TO_WEIGH"
  BY DEF beginWeighing
<1> HIDE DEF ready, weighing
<1> QED
  BY <1>2, <1>3, <1>4, EvolvesTransitive

-----------------------------------------------------------------------------
(* The steps.                                                              *)

\* Any critical fault that is active after the step was active before it, or
\* the step ends without a transaction in progress.
NoNewCritical ==
  \/ \A d \in Devices : Critical(faults', d) => Critical(faults, d)
  \/ tx'.state \in {"IDLE", "FAULT_LOCKOUT"}

\* A step that carries the transaction on, or changes nothing of it.
Carries ==
  /\ Evolves(tx, tx') /\ tickets' = tickets
  /\ tx.state = "IDLE" => tx'.state = "IDLE"
  /\ NoNewCritical

\* A step that starts a transaction.
Starts ==
  /\ tx.state = "IDLE" /\ tickets' = tickets /\ faults' = faults
  /\ ~Released(tx') /\ Quiet(tx')
  /\ (\E d \in Devices : Critical(faults, d)) => tx'.state = "FAULT_LOCKOUT"

\* A step that commits a ticket of the transaction and releases the truck.
Commits ==
  /\ tx.state \notin {"IDLE", "FAULT_LOCKOUT"}
  /\ \E k \in Tickets : k.tx = tx'.id /\ tickets' = Append(tickets, k)
  /\ Quiet(tx')
  /\ \A d \in Devices : Critical(faults', d) => Critical(faults, d)

\* A step that drops the transaction: a reset after COMPLETE, or a restart.
Drops == tx' = NoTx /\ tickets' = tickets /\ (ResetCompleted \/ Restart)

\* NoTx is a quiet transaction that is not released.
LEMMA NoTxFacts == NoTx \in Transactions /\ ~Released(NoTx) /\ Quiet(NoTx)
BY DEF NoTx, NewTx, Transactions, States, Modes, Identities, Positions,
       Sensors, AllClear, Released, Quiet

\* ObservePosition starts a transaction or carries it on.
LEMMA ObservePositionStep ==
  ASSUME TypeOK, NEW p \in PositionInputs, ObservePosition(p)
  PROVE  TypeOK' /\ (Carries \/ Starts)
<1> DEFINE new == startTransaction(started + 1, faults)
<1>0. p \in Sensors /\ started + 1 \in Nat /\ tx \in Transactions
  BY ConstantsAssumption DEF TypeOK
<1>1. CASE tx.state = "IDLE" /\ p.entry
  <2>1. tx' = afterPosition(new, p, faults, lastScale)
    BY <1>0, <1>1, NewTransaction DEF ObservePosition
  <2>2. new \in Transactions /\ ~Released(new) /\ Quiet(new)
    BY <1>0, NewTransaction
  <2>3. Evolves(new, tx')
    BY <1>0, <2>1, <2>2, AfterPositionEvolves
  <2>4. (\E d \in Devices : Critical(faults, d)) => new.state = "FAULT_LOCKOUT"
    BY <1>0, NewTransaction
  <2>5. Starts
    BY <1>1, <2>2, <2>3, <2>4 DEF Starts, Evolves, ObservePosition
  <2>6. TypeOK'
    BY <1>0, <1>1, <2>3 DEF TypeOK, Evolves, ObservePosition
  <2> QED
    BY <2>5, <2>6
<1>2. CASE ~(tx.state = "IDLE" /\ p.entry)
  <2>1. tx' = IF tx.state = "IDLE" THEN tx
              ELSE afterPosition(tx, p, faults, lastScale)
    BY <1>2 DEF ObservePosition
  <2>2. Evolves(tx, tx')
    BY <1>0, <2>1, AfterPositionEvolves, EvolvesReflexive
  <2>3. Carries
    BY <2>1, <2>2 DEF Carries, NoNewCritical, ObservePosition
  <2>4. TypeOK'
    BY <1>2, <2>2 DEF TypeOK, Evolves, ObservePosition
  <2> QED
    BY <2>3, <2>4
<1> QED
  BY <1>1, <1>2

\* An identity read carries the transaction on.
LEMMA ObserveIdentityStep ==
  ASSUME TypeOK,
         (\E tag \in Tags : ObserveRFID(tag))
           \/ (\E plate \in Plates : ObserveLPR(plate))
  PROVE  TypeOK' /\ Carries
<1>0. tx \in Transactions
  BY DEF TypeOK
<1>1. PICK t \in Transactions :
        /\ tx' = evaluateIdentity(t, faults, lastScale)
        /\ Evolves(tx, t)
  <2>1. ASSUME NEW tag \in Tags, ObserveRFID(tag)
        PROVE  Evolves(tx, [tx EXCEPT !.rfid = [tag |-> tag, bad |-> FALSE]])
    BY <1>0 DEF Evolves, Transactions, Released, Quiet
  <2>2. ASSUME NEW plate \in Plates, ObserveLPR(plate)
        PROVE  Evolves(tx, [tx EXCEPT !.lpr = [plate |-> plate, bad |-> FALSE]])
    BY <1>0 DEF Evolves, Transactions, Released, Quiet
  <2> QED
    BY <2>1, <2>2 DEF ObserveRFID, ObserveLPR, Evolves
<1>2. Evolves(tx, tx')
  BY <1>1, EvaluateIdentityEvolves, EvolvesTransitive
<1>3. /\ tx.state # "IDLE"
      /\ UNCHANGED <<lastScale, faults, stableBase, started, tickets>>
  BY DEF ObserveRFID, ObserveLPR
<1>4. Carries
  BY <1>2, <1>3 DEF Carries, NoNewCritical
<1>5. TypeOK'
  BY <1>2, <1>3 DEF TypeOK, Evolves
<1> QED
  BY <1>4, <1>5
\* A frame: weighing may begin, and the durable commit releases the truck.
LEMMA ObserveScaleStep ==
  ASSUME TypeOK, NEW r \in ScaleInputs, NEW durable \in BOOLEAN,
         ObserveScale(r, durable)
  PROVE  TypeOK' /\ (Carries \/ Commits)
<1> DEFINE t == beginWeighing(tx, r)
           c == [t EXCEPT !.confirmations = confirm(t, r)]
           reset == [t EXCEPT !.confirmations = 0]
           out == [c EXCEPT !.state = "EXIT_AUTHORIZED", !.entry = FALSE,
                            !.exit = TRUE]
<1>0. tx \in Transactions /\ r \in Readings /\ r.weight \in Weights
  BY ConstantsAssumption DEF TypeOK, Readings
<1>1. lastScale' \in Readings \cup {None} /\ started' \in Nat
  BY <1>0, ConstantsAssumption DEF TypeOK, ObserveScale
<1>2. CASE unhealthyFrame(r)
  <2>1. Evolves(tx, tx') /\ tx'.state \in {"IDLE", "FAULT_LOCKOUT"}
    BY <1>0, <1>2, LockoutEvolves, EvolvesReflexive DEF unhealthyFrame
  <2>2. tx.state = "IDLE" => tx'.state = "IDLE"
    BY <1>2 DEF unhealthyFrame
  <2>3. faults' \in [Devices -> {"NONE", "AUX", "CRITICAL"}]
    BY <1>2 DEF unhealthyFrame, TypeOK, Devices
  <2>4. Carries
    BY <1>2, <2>1, <2>2 DEF Carries, NoNewCritical, unhealthyFrame
  <2>5. TypeOK'
    BY <1>1, <1>2, <2>1, <2>3 DEF TypeOK, Evolves, unhealthyFrame
  <2> QED
    BY <2>4, <2>5
<1>3. CASE healthyFrame(r, durable)
  <2>0. faults' = [faults EXCEPT !["SCALE"] = "NONE"]
    BY <1>3 DEF healthyFrame
  <2>1. /\ faults' \in [Devices -> {"NONE", "AUX", "CRITICAL"}]
        /\ \A d \in Devices : Critical(faults', d) => Critical(faults, d)
    BY <2>0 DEF TypeOK, Devices, Critical
  <2>2. CASE tx.state \in {"IDLE", "COMPLETE", "FAULT_LOCKOUT"}
    <3>1. UNCHANGED <<tx, stableBase, tickets>>
      BY <1>3, <2>2 DEF healthyFrame
    <3> QED
      BY <1>0, <1>1, <2>1, <3>1, EvolvesReflexive
         DEF TypeOK, Carries, NoNewCritical
  <2>3. CASE tx.state \notin {"IDLE", "COMPLETE", "FAULT_LOCKOUT"}
    <3>1. weighFrame(t, r, durable)
      BY <1>3, <2>3 DEF healthyFrame
    <3>2. Evolves(tx, t) /\ t \in Transactions
      BY <1>0, BeginWeighingEvolves DEF Evolves
    <3> HIDE DEF t
    <3>3. confirm(t, r) \in Nat
      BY <3>2 DEF confirm, Transactions
    <3>4. Evolves(tx, c) /\ c \in Transactions
      <4>1. Evolves(t, c)
        BY <3>2, <3>3 DEF Evolves, Transactions, Released, Quiet
      <4> QED
        BY <3>2, <4>1, EvolvesTransitive DEF Evolves
    <3>5. Evolves(tx, reset)
      <4>1. Evolves(t, reset)
        BY <3>2 DEF Evolves, Transactions, Released, Quiet
      <4> QED
        BY <3>2, <4>1, EvolvesTransitive
    <3>6. Evolves(tx, lockout(c)) /\ lockout(c).state = "FAULT_LOCKOUT"
      BY <3>4, LockoutEvolves, EvolvesTransitive
    <3>7. out \in Transactions /\ out.id = c.id /\ Quiet(out)
      BY <3>4 DEF Transactions, States, Quiet
    <3>8. ticketOf(c, r) \in Tickets /\ ticketOf(c, r).tx = c.id
      BY <1>0, <1>1, <3>4 DEF ticketOf, Tickets, Transactions, ObserveScale
    <3>9. \/ tx' = t /\ UNCHANGED <<stableBase, tickets>>
          \/ tx' = reset /\ stableBase' = None /\ UNCHANGED tickets
          \/ /\ stableBase' = r.weight /\ UNCHANGED tickets
             /\ tx' = c \/ tx' = lockout(c)
          \/ /\ stableBase' = r.weight /\ tx' = out
             /\ tickets' = Append(tickets, ticketOf(c, r))
      BY <3>1 DEF weighFrame, commitTicket
    <3> HIDE DEF c, reset, out
    <3>10. CASE UNCHANGED tickets
      <4>1. Evolves(tx, tx') /\ stableBase' \in Weights \cup {None}
        <5>1. CASE tickets' = Append(tickets, ticketOf(c, r))
          BY <3>8, <3>10, <5>1 DEF TypeOK
        <5> QED
          BY <1>0, <3>2, <3>4, <3>5, <3>6, <3>9, <3>10, <5>1 DEF TypeOK
      <4>2. Carries
        BY <2>1, <2>3, <3>10, <4>1 DEF Carries, NoNewCritical
      <4>3. TypeOK'
        BY <1>1, <2>1, <3>10, <4>1 DEF TypeOK, Evolves
      <4> QED
        BY <4>2, <4>3
    <3>11. CASE /\ stableBase' = r.weight /\ tx' = out
                /\ tickets' = Append(tickets, ticketOf(c, r))
      <4>1. Commits
        BY <2>1, <2>3, <3>7, <3>8, <3>11 DEF Commits
      <4>2. TypeOK'
        BY <1>0, <1>1, <2>1, <3>7, <3>8, <3>11 DEF TypeOK
      <4> QED
        BY <4>1, <4>2
    <3> QED
      BY <3>9, <3>10, <3>11
  <2> QED
    BY <2>2, <2>3
<1> QED
  BY <1>2, <1>3 DEF ObserveScale

\* Reporting a fault locks out, or re-evaluates mode, position and identity.
LEMMA ObserveFaultStep ==
  ASSUME TypeOK, NEW d \in Devices, NEW kind \in {"AUX", "CRITICAL"},
         ObserveFault(d, kind)
  PROVE  TypeOK' /\ Carries
<1> DEFINE f == [faults EXCEPT ![d] = kind]
           moded == updateMode(tx, f)
           placed == IF deckSensor(d) THEN evaluatePosition(moded, f) ELSE moded
<1>0. tx \in Transactions /\ faults \in [Devices -> {"NONE", "AUX", "CRITICAL"}]
  BY DEF TypeOK
<1>1. faults' = f /\ f \in [Devices -> {"NONE", "AUX", "CRITICAL"}]
  BY <1>0 DEF ObserveFault
<1>2. Evolves(tx, placed)
  BY <1>0, UpdateModeEvolves, EvaluatePositionEvolves, EvolvesTransitive
     DEF Evolves
<1>3. tx' = IF tx.state = "IDLE" THEN tx
            ELSE IF Critical(f, d) THEN lockout(tx)
            ELSE evaluateIdentity(placed, f, lastScale)
  BY DEF ObserveFault
<1>4. NoNewCritical
  <2>1. CASE Critical(f, d)
    BY <1>0, <1>3, <2>1, LockoutEvolves DEF NoNewCritical
  <2>2. CASE ~Critical(f, d)
    BY <1>0, <1>1, <2>2 DEF NoNewCritical, Critical
  <2> QED
    BY <2>1, <2>2
<1> HIDE DEF f, placed
<1>5. Evolves(tx, tx')
  BY <1>0, <1>2, <1>3, LockoutEvolves, EvolvesReflexive, EvolvesTransitive,
     EvaluateIdentityEvolves DEF Evolves
<1>6. Carries
  BY <1>3, <1>4, <1>5 DEF Carries, ObserveFault
<1>7. TypeOK'
  BY <1>1, <1>5 DEF TypeOK, Evolves, ObserveFault
<1> QED
  BY <1>6, <1>7

\* Clearing a fault re-evaluates, and makes no fault critical.
LEMMA ClearFaultStep ==
  ASSUME TypeOK, NEW d \in Devices, ClearFault(d)
  PROVE  TypeOK' /\ Carries
<1> DEFINE f == [faults EXCEPT ![d] = "NONE"]
           moded == updateMode(tx, f)
           placed == IF deckSensor(d) THEN evaluatePosition(moded, f) ELSE moded
<1>0. tx \in Transactions /\ faults \in [Devices -> {"NONE", "AUX", "CRITICAL"}]
  BY DEF TypeOK
<1>1. faults' = f /\ f \in [Devices -> {"NONE", "AUX", "CRITICAL"}]
  BY <1>0 DEF ClearFault
<1>2. Evolves(tx, placed)
  BY <1>0, UpdateModeEvolves, EvaluatePositionEvolves, EvolvesTransitive
     DEF Evolves
<1>3. tx' = IF tx.state = "IDLE" THEN tx
            ELSE evaluateIdentity(placed, f, lastScale)
  BY DEF ClearFault
<1>4. NoNewCritical
  BY <1>0, <1>1 DEF NoNewCritical, Critical
<1> HIDE DEF f, placed
<1>5. Evolves(tx, tx')
  BY <1>0, <1>2, <1>3, EvolvesReflexive, EvolvesTransitive,
     EvaluateIdentityEvolves DEF Evolves
<1>6. Carries
  BY <1>3, <1>4, <1>5 DEF Carries, ClearFault
<1>7. TypeOK'
  BY <1>1, <1>5 DEF TypeOK, Evolves, ClearFault
<1> QED
  BY <1>6, <1>7

\* An override adds evidence and re-evaluates.
LEMMA AuthorizeOverrideStep ==
  ASSUME TypeOK, NEW d \in Devices, NEW role \in Roles,
         NEW e \in SUBSET Evidence, AuthorizeOverride(d, role, e)
  PROVE  TypeOK' /\ Carries
<1> DEFINE o == [tx EXCEPT !.overrides[d] = e]
           moded == updateMode(o, faults)
           position == evaluatePosition(moded, faults)
           placed == IF deckSensor(d) THEN tryReadyToWeigh(position, lastScale)
                     ELSE moded
<1>0. tx \in Transactions
  BY DEF TypeOK
<1>1. Evolves(tx, o)
  BY <1>0 DEF Evolves, Transactions, Released, Quiet
<1>2. Evolves(tx, moded)
  BY <1>1, UpdateModeEvolves, EvolvesTransitive DEF Evolves
<1>3. Evolves(tx, position)
  BY <1>2, EvaluatePositionEvolves, EvolvesTransitive DEF Evolves
<1>4. Evolves(tx, tryReadyToWeigh(position, lastScale))
  BY <1>3, TryReadyToWeighEvolves, EvolvesTransitive DEF Evolves
<1>5. Evolves(tx, placed)
  BY <1>2, <1>4
<1>6. /\ tx' = evaluateIdentity(placed, faults, lastScale)
      /\ tx.state # "IDLE"
      /\ UNCHANGED <<lastScale, faults, stableBase, started, tickets>>
  BY DEF AuthorizeOverride
<1> HIDE DEF placed
<1>7. Evolves(tx, tx')
  BY <1>5, <1>6, EvaluateIdentityEvolves, EvolvesTransitive DEF Evolves
<1>8. Carries
  BY <1>6, <1>7 DEF Carries, NoNewCritical
<1>9. TypeOK'
  BY <1>6, <1>7 DEF TypeOK, Evolves
<1> QED
  BY <1>8, <1>9

\* A reset or a restart drops the transaction.
LEMMA DropStep ==
  ASSUME TypeOK, ResetCompleted \/ Restart
  PROVE  TypeOK' /\ Drops
BY NoTxFacts DEF TypeOK, Drops, ResetCompleted, Restart
\* Every step, and every stutter, is one of the four kinds.
LEMMA StepKinds ==
  ASSUME TypeOK, [Next]_vars
  PROVE  TypeOK' /\ (Carries \/ Starts \/ Commits \/ Drops)
<1>1. CASE \E p \in PositionInputs : ObservePosition(p)
  BY <1>1, ObservePositionStep
<1>2. CASE \/ \E tag \in Tags : ObserveRFID(tag)
           \/ \E plate \in Plates : ObserveLPR(plate)
  BY <1>2, ObserveIdentityStep
<1>3. CASE \E r \in ScaleInputs, durable \in BOOLEAN : ObserveScale(r, durable)
  BY <1>3, ObserveScaleStep
<1>4. CASE \/ \E d \in AuxFaults : ObserveFault(d, "AUX")
           \/ \E d \in CriticalFaults : ObserveFault(d, "CRITICAL")
  BY <1>4, ObserveFaultStep, ConstantsAssumption
<1>5. CASE \E d \in Clearable : ClearFault(d)
  BY <1>5, ClearFaultStep, ConstantsAssumption DEF Clearable, Devices
<1>6. CASE \E d \in Devices, role \in Roles, e \in SUBSET Evidence :
             AuthorizeOverride(d, role, e)
  BY <1>6, AuthorizeOverrideStep
<1>7. CASE ResetCompleted \/ Restart
  BY <1>7, DropStep
<1>8. CASE UNCHANGED vars
  BY <1>8, EvolvesReflexive DEF vars, TypeOK, Carries, NoNewCritical
<1> QED
  BY <1>1, <1>2, <1>3, <1>4, <1>5, <1>6, <1>7, <1>8 DEF Next

-----------------------------------------------------------------------------
(* The invariants.                                                         *)

Inv == TypeOK /\ Quiet(tx) /\ CriticalFaultLocksOut /\ ReleaseIsDurable

\* The initial state satisfies the invariant.
LEMMA InitInv == Init => Inv
BY NoTxFacts
   DEF Init, Inv, TypeOK, CriticalFaultLocksOut, ReleaseIsDurable, Released,
       NoTx, Devices

\* A ticket once durable stays durable.
LEMMA DurableStays ==
  ASSUME TypeOK, NEW id,
         tickets' = tickets \/ \E k \in Tickets : tickets' = Append(tickets, k)
  PROVE  Durable(id) => Durable(id)'
<1>1. ASSUME NEW i \in DOMAIN tickets, NEW k, tickets' = Append(tickets, k)
      PROVE  i \in DOMAIN tickets' /\ tickets'[i] = tickets[i]
  BY <1>1 DEF TypeOK
<1> QED
  BY <1>1 DEF Durable

\* Every kind of step preserves the invariant.
LEMMA NextInv == Inv /\ [Next]_vars => Inv'
<1> SUFFICES ASSUME Inv, [Next]_vars
             PROVE  Inv'
  OBVIOUS
<1>1. TypeOK /\ TypeOK' /\ (Carries \/ Starts \/ Commits \/ Drops)
  BY StepKinds DEF Inv
<1>2. Quiet(tx)'
  <2>1. Quiet(tx')
    BY <1>1, NoTxFacts DEF Inv, Carries, Starts, Commits, Drops, Evolves
  <2> QED
    BY <2>1 DEF Quiet
<1>3. CriticalFaultLocksOut'
  <2>1. CASE Carries
    BY <1>1, <2>1
       DEF Inv, CriticalFaultLocksOut, Carries, NoNewCritical, Evolves, Critical
  <2>2. CASE Starts
    BY <2>2 DEF CriticalFaultLocksOut, Starts, Critical
  <2>3. CASE Commits
    BY <2>3 DEF Inv, CriticalFaultLocksOut, Commits, Critical
  <2>4. CASE Drops
    BY <2>4 DEF Drops, NoTx, CriticalFaultLocksOut
  <2> QED
    BY <1>1, <2>1, <2>2, <2>3, <2>4
<1>4. ReleaseIsDurable'
  <2> SUFFICES ASSUME Released(tx')
               PROVE  Durable(tx.id)'
    BY DEF ReleaseIsDurable, Released
  <2>1. CASE Carries
    <3>1. Durable(tx.id) /\ tx'.id = tx.id
      BY <2>1 DEF Inv, Carries, Evolves, ReleaseIsDurable, Released
    <3> QED
      BY <2>1, <3>1 DEF Carries, Durable
  <2>2. CASE Commits
    <3>1. PICK k \in Tickets : k.tx = tx'.id /\ tickets' = Append(tickets, k)
      BY <2>2 DEF Commits
    <3>2. /\ Len(tickets) + 1 \in DOMAIN tickets'
          /\ tickets'[Len(tickets) + 1] = k
      BY <1>1, <3>1 DEF TypeOK
    <3> QED
      BY <3>1, <3>2 DEF Durable
  <2>3. CASE Starts \/ Drops
    BY <2>3, NoTxFacts DEF Starts, Drops
  <2> QED
    BY <1>1, <2>1, <2>2, <2>3
<1> QED
  BY <1>1, <1>2, <1>3, <1>4 DEF Inv

\* The invariant holds throughout.
THEOREM InvHolds == Spec => []Inv
<1> QED
  BY InitInv, NextInv, PTL DEF Spec

\* Every transaction, fault, reading and ticket has its type throughout.
THEOREM TypeCorrect == Spec => []TypeOK
<1>1. Inv => TypeOK
  BY DEF Inv
<1> QED
  BY <1>1, InvHolds, PTL

\* A locked-out transaction requests no permissive output, ever.
THEOREM LockoutSafety == Spec => []LockoutIsSafe
<1>1. Inv => LockoutIsSafe
  BY DEF Inv, Quiet, LockoutIsSafe
<1> QED
  BY <1>1, InvHolds, PTL

\* While tag and plate disagree the entry request is off.
THEOREM MismatchHolds == Spec => []MismatchHoldsEntry
<1>1. Inv => MismatchHoldsEntry
  BY DEF Inv, Quiet, MismatchHoldsEntry
<1> QED
  BY <1>1, InvHolds, PTL

\* No transaction is in progress, unless locked out, while a critical fault is
\* active.
THEOREM CriticalFaultSafety == Spec => []CriticalFaultLocksOut
<1>1. Inv => CriticalFaultLocksOut
  BY DEF Inv
<1> QED
  BY <1>1, InvHolds, PTL

\* No truck is released before its ticket is durable.
THEOREM ReleaseSafety == Spec => []ReleaseIsDurable
<1>1. Inv => ReleaseIsDurable
  BY DEF Inv
<1> QED
  BY <1>1, InvHolds, PTL

\* Lemma: a lockout is left by a restart only.
LEMMA LockoutStays ==
  ASSUME Inv, [Next]_vars, tx.state = "FAULT_LOCKOUT"
  PROVE  \/ tx'.state = "FAULT_LOCKOUT" /\ tx'.id = tx.id
         \/ Restart
<1>1. Carries \/ Starts \/ Commits \/ Drops
  BY StepKinds DEF Inv
<1> QED
  BY <1>1 DEF Carries, Starts, Commits, Drops, Evolves, ResetCompleted

\* A lockout ends only with the process.
THEOREM LockoutFinality == Spec => LockoutIsFinal
<1>1. Inv /\ [Next]_vars
        => [tx.state = "FAULT_LOCKOUT" =>
              \/ tx'.state = "FAULT_LOCKOUT" /\ tx'.id = tx.id
              \/ Restart]_vars
  BY LockoutStays
<1> QED
  BY <1>1, InvHolds, PTL DEF Spec, LockoutIsFinal

-----------------------------------------------------------------------------
(* The truck on its way.                                                   *)

\* What all helpers but driveOff and the commit leave alone.
Settles(t, u) ==
  /\ u.sensors = t.sensors /\ u.overrides = t.overrides /\ u.exitSeen = t.exitSeen
  /\ u.exit = t.exit \/ u.state = "FAULT_LOCKOUT"
  /\ t.state = "FAULT_LOCKOUT" => u.state = "FAULT_LOCKOUT"
  /\ u.state \in {"IDLE", "COMPLETE"} => u.state = t.state

\* And what all of them but evaluatePosition do.
Steady(t, u) == Settles(t, u) /\ u.position = t.position

\* Whoever raises no entry request and keeps the identity.
Calm(t, u) == (u.entry => t.entry) /\ u.identity = t.identity

\* The entry request may be raised, on the frame s.
Authorized(t, s) ==
  /\ t.identity = "ACCEPTED"
  /\ t.sensors.safety /\ ~t.sensors.front /\ ~t.sensors.rear
  /\ s # None /\ s.ok /\ s.stable /\ ~(abs64(s.weight) > EmptyScaleMaxKG)

Raises(t, u, s) == ~t.entry /\ u.entry => Authorized(u, s)

\* An accepted position has its evidence under the faults f.
Evidenced(t, f) ==
  t.state # "FAULT_LOCKOUT" /\ t.position = "ACCEPTED" =>
    /\ \A d \in {"FRONT_SENSOR", "REAR_SENSOR"} :
         f[d] # "NONE" => hasOverride(t, d, "POSITION_CONFIRMED")
    /\ f["FRONT_SENSOR"] = "NONE" \/ f["REAR_SENSOR"] = "NONE"

\* Before a pass and after it nothing is requested of the exit side.
AtRest(t) ==
  /\ t.state \in {"IDLE", "COMPLETE"} => ~t.exit
  /\ t.state = "IDLE" => t.position = "PENDING"

-----------------------------------------------------------------------------
(* The relations.                                                          *)

\* Lemma: they are preorders.
LEMMA SettlesTransitive ==
  ASSUME NEW t, NEW u, NEW v
  PROVE  /\ Settles(t, u) /\ Settles(u, v) => Settles(t, v)
         /\ Steady(t, u) /\ Steady(u, v) => Steady(t, v)
         /\ Calm(t, u) /\ Calm(u, v) => Calm(t, v)
         /\ Steady(t, t) /\ Calm(t, t)
         /\ Steady(t, u) => Settles(t, u)
BY DEF Settles, Steady, Calm

\* Lemma: what raises the request only with authority may be preceded by what
\* raises none, and followed by what also keeps the identity.
LEMMA RaisesCompose ==
  ASSUME NEW t, NEW u, NEW v, NEW s
  PROVE  /\ (u.entry => t.entry) /\ Raises(u, v, s) => Raises(t, v, s)
         /\ Calm(t, u) /\ Raises(u, v, s) => Raises(t, v, s)
         /\ Raises(t, u, s) /\ Calm(u, v) /\ Settles(u, v) => Raises(t, v, s)
BY DEF Raises, Calm, Settles, Authorized

\* Lemma: a steady helper keeps the evidence and the rest.
LEMMA SteadyKeeps ==
  ASSUME NEW t, NEW u, NEW f, Steady(t, u)
  PROVE  /\ Evidenced(t, f) => Evidenced(u, f)
         /\ AtRest(t) => AtRest(u)
BY DEF Steady, Settles, Evidenced, AtRest, hasOverride

-----------------------------------------------------------------------------
(* The helpers.                                                            *)

\* Lemma: lockoutLocked.
LEMMA LockoutSteady ==
  ASSUME NEW t \in Transactions
  PROVE  Steady(t, lockout(t)) /\ Calm(t, lockout(t)) /\ ~lockout(t).entry
BY DEF Steady, Settles, Calm, lockout, Transactions

\* Lemma: updateModeLocked.
LEMMA UpdateModeSteady ==
  ASSUME NEW t \in Transactions, NEW f
  PROVE  Steady(t, updateMode(t, f)) /\ Calm(t, updateMode(t, f))
BY DEF Steady, Settles, Calm, updateMode, Transactions

\* Lemma: tryAuthorizeEntryLocked is what raises the entry request.
LEMMA TryAuthorizeEntrySteady ==
  ASSUME NEW t \in Transactions, NEW s
  PROVE  Steady(t, tryAuthorizeEntry(t, s)) /\ Raises(t, tryAuthorizeEntry(t, s), s)
<1> DEFINE u == [t EXCEPT !.state = "ENTRY_AUTHORIZED", !.entry = TRUE]
<1>1. \/ tryAuthorizeEntry(t, s) = t
      \/ tryAuthorizeEntry(t, s) = lockout(t)
      \/ tryAuthorizeEntry(t, s) = u /\ t.state # "FAULT_LOCKOUT" /\ Authorized(t, s)
  BY DEF tryAuthorizeEntry, Authorized
<1>2. t.state # "FAULT_LOCKOUT" => Steady(t, u)
  BY DEF Steady, Settles, Transactions
<1>3. Authorized(t, s) => Authorized(u, s)
  BY DEF Authorized, Transactions
<1> HIDE DEF u
<1> QED
  BY <1>1, <1>2, <1>3, LockoutSteady, SettlesTransitive DEF Raises

\* Lemma: manualIdentity, which is not calm but raises nothing.
LEMMA ManualIdentitySteady ==
  ASSUME NEW t \in Transactions
  PROVE  Steady(t, manualIdentity(t)) /\ manualIdentity(t).entry = t.entry
BY DEF Steady, Settles, manualIdentity, Transactions

\* Lemma: evaluatePositionLocked gives the position its evidence.
LEMMA EvaluatePositionSettles ==
  ASSUME NEW t \in Transactions, NEW f
  PROVE  /\ Settles(t, evaluatePosition(t, f)) /\ Calm(t, evaluatePosition(t, f))
         /\ evaluatePosition(t, f).exit = t.exit
         /\ evaluatePosition(t, f).state = t.state
         /\ Evidenced(evaluatePosition(t, f), f)
BY DEF Settles, Calm, Evidenced, evaluatePosition, hasOverride, Transactions

\* Lemma: tryReadyToWeighLocked.
LEMMA TryReadyToWeighSteady ==
  ASSUME NEW t \in Transactions, NEW s
  PROVE  Steady(t, tryReadyToWeigh(t, s)) /\ Calm(t, tryReadyToWeigh(t, s))
<1> DEFINE u == [t EXCEPT !.state = "READY_TO_WEIGH"]
<1>1. \/ tryReadyToWeigh(t, s) = t
      \/ tryReadyToWeigh(t, s) = lockout(t)
      \/ tryReadyToWeigh(t, s) = u /\ t.state # "FAULT_LOCKOUT"
  BY DEF tryReadyToWeigh
<1>2. t.state # "FAULT_LOCKOUT" => Steady(t, u) /\ Calm(t, u)
  BY DEF Steady, Settles, Calm, Transactions
<1> HIDE DEF u
<1> QED
  BY <1>1, <1>2, LockoutSteady, SettlesTransitive

\* Lemma: authorizeIfIdentified.
LEMMA AuthorizeIfIdentifiedSteady ==
  ASSUME NEW t \in Transactions, NEW s
  PROVE  Steady(t, authorizeIfIdentified(t, s)) /\ Raises(t, authorizeIfIdentified(t, s), s)
BY TryAuthorizeEntrySteady, SettlesTransitive DEF authorizeIfIdentified, Raises

\* Lemma: authorising after what raises nothing.
LEMMA AuthorizeAfter ==
  ASSUME NEW t, NEW u \in Transactions, NEW s,
         Steady(t, u), u.entry => t.entry
  PROVE  Steady(t, tryAuthorizeEntry(u, s)) /\ Raises(t, tryAuthorizeEntry(u, s), s)
BY TryAuthorizeEntrySteady, SettlesTransitive, RaisesCompose

\* Lemma: comparing tag and plate.
LEMMA MatchIdentitySteady ==
  ASSUME NEW t \in Transactions, NEW s,
         t.state \notin {"IDLE", "COMPLETE", "FAULT_LOCKOUT"}
  PROVE  Steady(t, matchIdentity(t, s)) /\ Raises(t, matchIdentity(t, s), s)
<1> DEFINE mismatched == [t EXCEPT !.identity = "MISMATCH",
                                   !.state = "IDENTITY_MISMATCH",
                                   !.entry = FALSE]
           matched == [t EXCEPT !.identity = "ACCEPTED",
                                !.state = IF @ = "IDENTITY_MISMATCH"
                                          THEN "IDENTIFYING" ELSE @]
<1>1. \/ matchIdentity(t, s) = manualIdentity(t)
      \/ matchIdentity(t, s) = mismatched
      \/ matchIdentity(t, s) = tryAuthorizeEntry(matched, s)
  BY DEF matchIdentity
<1>2. Steady(t, mismatched) /\ ~mismatched.entry
  BY DEF Steady, Settles, Transactions
<1>3. Steady(t, matched) /\ matched.entry = t.entry /\ matched \in Transactions
  BY DEF Steady, Settles, Transactions, States, Identities
<1> HIDE DEF mismatched, matched
<1> QED
  BY <1>1, <1>2, <1>3, ManualIdentitySteady, AuthorizeAfter DEF Raises

\* Lemma: the cross-check of the two identity channels.
LEMMA CrossCheckSteady ==
  ASSUME NEW t \in Transactions, NEW f, NEW s,
         t.state \notin {"IDLE", "COMPLETE", "FAULT_LOCKOUT"}
  PROVE  Steady(t, crossCheck(t, f, s)) /\ Raises(t, crossCheck(t, f, s), s)
<1> DEFINE accepted == [t EXCEPT !.identity = "ACCEPTED", !.mode = "DEGRADED"]
           fromRegistry == [plate |-> Vehicles[t.rfid.tag], bad |-> TRUE]
           resolved == [accepted EXCEPT !.lpr = fromRegistry]
<1>1. \/ crossCheck(t, f, s) = matchIdentity(t, s)
      \/ crossCheck(t, f, s) = tryAuthorizeEntry(accepted, s)
      \/ /\ crossCheck(t, f, s) = tryAuthorizeEntry(resolved, s)
         /\ Resolves(t.rfid.tag)
      \/ crossCheck(t, f, s) = manualIdentity(t)
      \/ crossCheck(t, f, s) = t
  BY Zenon DEF crossCheck
<1>2. Steady(t, accepted) /\ accepted.entry = t.entry /\ accepted \in Transactions
  BY DEF Steady, Settles, Transactions, Identities, Modes
<1>3. Steady(t, resolved) /\ resolved.entry = t.entry
  BY DEF Steady, Settles, Transactions
<1>4. Resolves(t.rfid.tag) => resolved \in Transactions
  BY ConstantsAssumption DEF Transactions, Identities, Modes, Resolves
<1> HIDE DEF accepted, resolved
<1> QED
  BY <1>1, <1>2, <1>3, <1>4, MatchIdentitySteady, ManualIdentitySteady,
     AuthorizeAfter, SettlesTransitive DEF Raises

\* Lemma: identity is evaluated for a pass in progress only.
LEMMA EvaluateIdentitySteady ==
  ASSUME NEW t \in Transactions, NEW f, NEW s
  PROVE  Steady(t, evaluateIdentity(t, f, s)) /\ Raises(t, evaluateIdentity(t, f, s), s)
BY CrossCheckSteady, SettlesTransitive DEF evaluateIdentity, Raises

\* Lemma: the truck on the deck.
LEMMA DriveOnSettles ==
  ASSUME NEW t \in Transactions, NEW f, NEW s
  PROVE  /\ Settles(t, driveOn(t, f, s)) /\ Calm(t, driveOn(t, f, s))
         /\ Evidenced(t, f) => Evidenced(driveOn(t, f, s), f)
<1> DEFINE on == IF t.state \in {"ENTRY_AUTHORIZED", "ENTERING"}
                 THEN [t EXCEPT !.state = "POSITIONING"] ELSE t
           placed == evaluatePosition(on, f)
<1>1. on \in Transactions /\ Steady(t, on) /\ Calm(t, on)
  BY DEF Steady, Settles, Calm, Transactions, States
<1>2. placed \in Transactions /\ Settles(t, placed) /\ Calm(t, placed)
      /\ Evidenced(placed, f)
  BY <1>1, EvaluatePositionSettles, EvaluatePositionEvolves, SettlesTransitive
     DEF Evolves
<1>3. driveOn(t, f, s) \in {t, placed, tryReadyToWeigh(placed, s)}
  BY DEF driveOn
<1> HIDE DEF placed, on
<1> QED
  BY <1>2, <1>3, TryReadyToWeighSteady, SettlesTransitive, SteadyKeeps

\* Lemma: the truck off the deck.  The exit request goes when it has been seen
\* at the exit, the exit is clear again, and that is proven.
LEMMA DriveOffClears ==
  ASSUME NEW t \in Transactions
  PROVE  LET u == driveOff(t) IN
         /\ u.sensors = t.sensors /\ u.overrides = t.overrides
         /\ u.position = t.position /\ u.identity = t.identity
         /\ (u.entry => t.entry)
         /\ t.state = "FAULT_LOCKOUT" => u.state = "FAULT_LOCKOUT"
         /\ u.state = "IDLE" => t.state = "IDLE"
         /\ \/ u.exit = t.exit
            \/ ~u.exit /\ t.exitSeen /\ ~t.sensors.exit /\ provenClear(t)
         /\ u.state = "COMPLETE" => t.state = "COMPLETE" \/ ~u.exit
<1> DEFINE gone == [t EXCEPT !.exitSeen = TRUE, !.state = "EXITING"]
           complete(e) == [e EXCEPT !.state = "COMPLETE", !.entry = FALSE,
                                    !.exit = FALSE]
<1>1. \/ driveOff(t) = t
      \/ driveOff(t) = gone /\ t.state = "EXIT_AUTHORIZED"
      \/ /\ driveOff(t) = complete(t) /\ t.state = "EXITING"
         /\ t.exitSeen /\ ~t.sensors.exit /\ provenClear(t)
  BY DEF driveOff, Transactions
<1>2. CASE driveOff(t) = t
  BY <1>2
<1>3. CASE driveOff(t) = gone /\ t.state = "EXIT_AUTHORIZED"
  BY <1>3 DEF Transactions
<1>4. CASE /\ driveOff(t) = complete(t) /\ t.state = "EXITING"
           /\ t.exitSeen /\ ~t.sensors.exit /\ provenClear(t)
  BY <1>4 DEF Transactions
<1> QED
  BY <1>1, <1>2, <1>3, <1>4

\* Lemma: a frame on a waiting or a placed truck.
LEMMA BeginWeighingSteady ==
  ASSUME NEW t \in Transactions, NEW r
  PROVE  Steady(t, beginWeighing(t, r)) /\ Raises(t, beginWeighing(t, r), r)
<1> DEFINE a == authorizeIfIdentified(t, r)
           ready == tryReadyToWeigh(a, r)
           weighing == [ready EXCEPT !.state = "WEIGHING"]
<1>1. a \in Transactions /\ Steady(t, a) /\ Raises(t, a, r)
  BY AuthorizeIfIdentifiedEvolves, AuthorizeIfIdentifiedSteady DEF Evolves
<1>2. ready \in Transactions /\ Steady(t, ready) /\ Raises(t, ready, r)
  BY <1>1, TryReadyToWeighEvolves, TryReadyToWeighSteady, SettlesTransitive,
     RaisesCompose DEF Evolves
<1>3. ready.state = "READY_TO_WEIGH" => Steady(ready, weighing) /\ Calm(ready, weighing)
  BY <1>2 DEF Steady, Settles, Calm, Transactions
<1>4. \/ beginWeighing(t, r) = ready
      \/ beginWeighing(t, r) = weighing /\ ready.state = "READY_TO_WEIGH"
  BY DEF beginWeighing
<1> HIDE DEF ready, weighing, a
<1> QED
  BY <1>2, <1>3, <1>4, SettlesTransitive, RaisesCompose

-----------------------------------------------------------------------------
(* The steps.                                                              *)

\* The exit request is withdrawn for a reason.
ExitProven ==
  tx.exit /\ ~tx'.exit =>
    \/ tx'.state = "FAULT_LOCKOUT"
    \/ tx.exitSeen /\ ~tx'.sensors.exit /\ provenClear(tx')
    \/ Restart

Way == Evidenced(tx, faults) /\ AtRest(tx)

\* What every step does.
Good ==
  /\ Evidenced(tx', faults') /\ AtRest(tx')
  /\ Raises(tx, tx', lastScale')
  /\ ExitProven

\* Lemma: a step that is steady, or leaves the transaction alone, is good.
LEMMA SteadyIsGood ==
  ASSUME Way, Steady(tx, tx'), Raises(tx, tx', lastScale'),
         \A d \in {"FRONT_SENSOR", "REAR_SENSOR"} : faults'[d] = faults[d]
  PROVE  Good
<1>1. Evidenced(tx', faults)
  BY SteadyKeeps DEF Way
<1>2. Evidenced(tx', faults')
  BY <1>1 DEF Evidenced
<1> QED
  BY <1>2, SteadyKeeps DEF Way, Good, ExitProven, Steady, Settles

\* Lemma: the position handler of an active transaction.
LEMMA AfterPositionWay ==
  ASSUME NEW t \in Transactions, NEW p \in Sensors, NEW f, NEW s,
         Evidenced(t, f), AtRest(t), t.state # "IDLE"
  PROVE  LET u == afterPosition(t, p, f, s) IN
         /\ Evidenced(u, f) /\ AtRest(u) /\ Raises(t, u, s)
         /\ t.exit /\ ~u.exit =>
              \/ u.state = "FAULT_LOCKOUT"
              \/ t.exitSeen /\ ~u.sensors.exit /\ provenClear(u)
<1> DEFINE seen == [t EXCEPT !.sensors = p]
           a == authorizeIfIdentified(seen, s)
           b == driveOn(a, f, s)
           u == driveOff(b)
<1>1. /\ seen \in Transactions /\ seen.entry = t.entry /\ seen.state = t.state
      /\ seen.exit = t.exit /\ seen.exitSeen = t.exitSeen
      /\ seen.position = t.position /\ seen.overrides = t.overrides
  BY DEF Transactions
<1>2. Evidenced(seen, f) /\ AtRest(seen)
  BY <1>1 DEF Evidenced, AtRest, hasOverride
<1>3. CASE t.state \in {"COMPLETE", "FAULT_LOCKOUT"}
  BY <1>1, <1>2, <1>3 DEF afterPosition, Raises
<1>4. CASE t.state \notin {"COMPLETE", "FAULT_LOCKOUT"}
  <2>1. afterPosition(t, p, f, s) = u
    BY <1>4 DEF afterPosition
  <2>2. a \in Transactions /\ Steady(seen, a) /\ Raises(seen, a, s) /\ Evidenced(a, f)
    BY <1>1, <1>2, AuthorizeIfIdentifiedEvolves, AuthorizeIfIdentifiedSteady,
       SteadyKeeps DEF Evolves
  <2>3. /\ b \in Transactions /\ Settles(seen, b) /\ Evidenced(b, f)
        /\ Raises(seen, b, s)
    <3>1. /\ b \in Transactions /\ Settles(a, b) /\ Calm(a, b)
          /\ Evidenced(a, f) => Evidenced(b, f)
      BY <2>2, DriveOnEvolves, DriveOnSettles DEF Evolves
    <3> QED
      BY <2>2, <3>1, SettlesTransitive, RaisesCompose
  <2>4. b.state \notin {"IDLE", "COMPLETE"}
    BY <1>1, <1>4, <2>3 DEF Settles
  <2> HIDE DEF a, b, seen
  <2>5. Evidenced(u, f)
    BY <2>3, DriveOffClears DEF Evidenced, hasOverride
  <2>6. AtRest(u)
    BY <2>3, <2>4, DriveOffClears DEF AtRest
  <2>7. Raises(t, u, s)
    <3>1. Raises(seen, u, s)
      BY <2>3, DriveOffClears DEF Raises, Authorized
    <3> QED
      BY <1>1, <3>1 DEF Raises
  <2>8. \/ u.exit = b.exit
        \/ b.exitSeen /\ ~u.sensors.exit /\ provenClear(u)
    BY <2>3, DriveOffClears DEF provenClear, hasOverride
  <2>9. t.exit /\ ~u.exit =>
          \/ u.state = "FAULT_LOCKOUT"
          \/ t.exitSeen /\ ~u.sensors.exit /\ provenClear(u)
    BY <1>1, <2>3, <2>8, DriveOffClears DEF Settles
  <2> HIDE DEF u
  <2> QED
    BY <2>1, <2>5, <2>6, <2>7, <2>9
<1> QED
  BY <1>3, <1>4

\* Lemma: a transaction starts at rest, without a position or a request.
LEMMA StartsAtRest ==
  ASSUME NEW id \in Nat, NEW f
  PROVE  LET n == startTransaction(id, f) IN
         Evidenced(n, f) /\ AtRest(n) /\ ~n.entry /\ ~n.exit
<1> DEFINE new == NewTx(id)
           moded == updateMode(new, f)
           u == [moded EXCEPT !.state = "IDENTIFYING"]
<1>1. /\ new \in Transactions /\ new.position = "PENDING" /\ ~new.entry /\ ~new.exit
      /\ new.state = "APPROACH"
  BY DEF NewTx, Transactions, States, Modes, Identities, Positions, Sensors, AllClear
<1>2. /\ moded \in Transactions /\ moded.position = "PENDING"
      /\ ~moded.entry /\ moded.state = "APPROACH" /\ ~moded.exit
  BY <1>1, UpdateModeSteady, UpdateModeEvolves DEF Evolves, Steady, Settles, Calm
<1> HIDE DEF new, moded
<1>3. u.position = "PENDING" /\ ~u.entry /\ ~u.exit /\ u.state = "IDENTIFYING"
  BY <1>2 DEF Transactions
<1>4. /\ lockout(new).state = "FAULT_LOCKOUT" /\ ~lockout(new).entry
      /\ ~lockout(new).exit
  BY <1>1 DEF lockout, Transactions
<1> HIDE DEF u
<1>5. startTransaction(id, f) \in {lockout(new), u}
  BY DEF startTransaction, new, moded, u
<1> QED
  BY <1>3, <1>4, <1>5 DEF Evidenced, AtRest

\* Lemma: ObservePosition.
LEMMA ObservePositionWay ==
  ASSUME TypeOK, Way, NEW p \in PositionInputs, ObservePosition(p)
  PROVE  Good
<1> DEFINE new == startTransaction(started + 1, faults)
<1>0. /\ p \in Sensors /\ started + 1 \in Nat /\ tx \in Transactions
      /\ faults' = faults /\ lastScale' = lastScale
  BY ConstantsAssumption DEF TypeOK, ObservePosition
<1>1. CASE tx.state = "IDLE" /\ p.entry
  <2>1. new \in Transactions /\ new.state # "IDLE"
    BY <1>0, NewTransaction
  <2>2. tx' = afterPosition(new, p, faults, lastScale)
    BY <1>1, <2>1 DEF ObservePosition
  <2>3. Evidenced(new, faults) /\ AtRest(new) /\ ~new.entry
    BY <1>0, StartsAtRest
  <2>4. Evidenced(tx', faults) /\ AtRest(tx') /\ Raises(new, tx', lastScale)
    BY <1>0, <2>1, <2>2, <2>3, AfterPositionWay
  <2>5. ~tx.exit
    BY <1>1 DEF Way, AtRest
  <2> QED
    BY <1>0, <2>3, <2>4, <2>5 DEF Good, ExitProven, Raises
<1>2. CASE ~(tx.state = "IDLE" /\ p.entry) /\ tx.state = "IDLE"
  <2>1. tx' = tx
    BY <1>2 DEF ObservePosition
  <2> QED
    BY <1>0, <2>1, SteadyIsGood, SettlesTransitive DEF Raises
<1>3. CASE tx.state # "IDLE"
  <2>1. tx' = afterPosition(tx, p, faults, lastScale)
    BY <1>3 DEF ObservePosition
  <2> QED
    BY <1>0, <1>3, <2>1, AfterPositionWay DEF Good, ExitProven, Way
<1> QED
  BY <1>1, <1>2, <1>3

\* Lemma: an identity read.
LEMMA ObserveIdentityWay ==
  ASSUME TypeOK, Way,
         (\E tag \in Tags : ObserveRFID(tag))
           \/ (\E plate \in Plates : ObserveLPR(plate))
  PROVE  Good
<1>0. tx \in Transactions
  BY ConstantsAssumption DEF TypeOK
<1>1. PICK t \in Transactions :
        /\ tx' = evaluateIdentity(t, faults, lastScale)
        /\ Steady(tx, t) /\ t.entry = tx.entry
  <2>1. ASSUME NEW tag \in Tags
        PROVE  LET t == [tx EXCEPT !.rfid = [tag |-> tag, bad |-> FALSE]]
               IN  t \in Transactions /\ Steady(tx, t) /\ t.entry = tx.entry
    BY <1>0 DEF Transactions, Steady, Settles
  <2>2. ASSUME NEW plate \in Plates
        PROVE  LET t == [tx EXCEPT !.lpr = [plate |-> plate, bad |-> FALSE]]
               IN  t \in Transactions /\ Steady(tx, t) /\ t.entry = tx.entry
    BY <1>0 DEF Transactions, Steady, Settles
  <2> QED
    BY <2>1, <2>2 DEF ObserveRFID, ObserveLPR
<1>2. Steady(tx, tx') /\ Raises(tx, tx', lastScale)
  BY <1>0, <1>1, EvaluateIdentitySteady, SettlesTransitive, RaisesCompose
<1>3. lastScale' = lastScale /\ faults' = faults
  BY DEF ObserveRFID, ObserveLPR
<1> QED
  BY <1>2, <1>3, SteadyIsGood

\* Lemma: a frame.
LEMMA ObserveScaleWay ==
  ASSUME TypeOK, Way, NEW r \in ScaleInputs, NEW durable \in BOOLEAN,
         ObserveScale(r, durable)
  PROVE  Good
<1> DEFINE t == beginWeighing(tx, r)
           c == [t EXCEPT !.confirmations = confirm(t, r)]
           reset == [t EXCEPT !.confirmations = 0]
           out == [c EXCEPT !.state = "EXIT_AUTHORIZED", !.entry = FALSE,
                            !.exit = TRUE]
<1>0. tx \in Transactions /\ lastScale' = r
  BY ConstantsAssumption DEF TypeOK, ObserveScale
<1>1. \A d \in {"FRONT_SENSOR", "REAR_SENSOR"} : faults'[d] = faults[d]
  BY DEF ObserveScale, unhealthyFrame, healthyFrame, TypeOK, Devices
<1>2. CASE tx' = tx \/ tx' = lockout(tx)
  <2>1. Steady(tx, tx') /\ (tx'.entry => tx.entry)
    <3>1. Steady(tx, tx) /\ Steady(tx, lockout(tx)) /\ ~lockout(tx).entry
      BY <1>0, LockoutSteady, SettlesTransitive
    <3> QED
      BY <1>2, <3>1
  <2>2. Raises(tx, tx', lastScale')
    BY <2>1 DEF Raises
  <2> QED
    BY <1>1, <2>1, <2>2, SteadyIsGood
<1>3. CASE weighFrame(t, r, durable) /\ tx.state \notin {"IDLE", "COMPLETE", "FAULT_LOCKOUT"}
  <2>1. /\ t \in Transactions /\ Steady(tx, t) /\ Raises(tx, t, r)
    BY <1>0, BeginWeighingEvolves, BeginWeighingSteady DEF Evolves
  <2> HIDE DEF t
  <2>2. \/ tx' = t \/ tx' = reset \/ tx' = c
        \/ tx' = lockout(c)
        \/ tx' = out /\ t.state = "WEIGHING"
    BY <1>3 DEF weighFrame, commitTicket
  <2>3. Steady(t, reset) /\ Calm(t, reset) /\ Steady(t, c) /\ Calm(t, c)
    BY <2>1 DEF Steady, Settles, Calm, Transactions
  <2>4. c \in Transactions
    BY <2>1 DEF confirm, Transactions
  <2>5. CASE tx' \in {t, reset, c, lockout(c)}
    <3> HIDE DEF c, reset, out
    <3>1. Steady(t, tx') /\ Calm(t, tx')
      BY <2>3, <2>4, <2>5, LockoutSteady, SettlesTransitive
    <3>2. Steady(tx, tx') /\ Raises(tx, tx', r)
      BY <2>1, <3>1, SettlesTransitive, RaisesCompose DEF Steady
    <3> QED
      BY <1>0, <1>1, <3>2, SteadyIsGood
  <2>6. CASE tx' = out /\ t.state = "WEIGHING"
    <3>1. /\ out.position = t.position /\ out.overrides = t.overrides
          /\ out.state = "EXIT_AUTHORIZED" /\ ~out.entry /\ out.exit
      BY <2>4 DEF Transactions
    <3> HIDE DEF out
    <3>2. Evidenced(tx', faults')
      <4>1. Evidenced(t, faults)
        BY <2>1, SteadyKeeps DEF Way
      <4> QED
        BY <1>1, <2>6, <3>1, <4>1 DEF Evidenced, hasOverride
    <3> QED
      BY <2>6, <3>1, <3>2 DEF Good, ExitProven, AtRest, Raises
  <2> QED
    BY <2>2, <2>5, <2>6
<1> QED
  BY <1>2, <1>3 DEF ObserveScale, unhealthyFrame, healthyFrame

\* Lemma: a fault reported or cleared on d, with mode, position and identity
\* evaluated again.
LEMMA RefaultWay ==
  ASSUME TypeOK, Way, NEW d \in Devices, NEW kind, tx.state # "IDLE",
         NEW f, f = [faults EXCEPT ![d] = kind], faults' = f, lastScale' = lastScale,
         tx' = evaluateIdentity(
                 IF deckSensor(d) THEN evaluatePosition(updateMode(tx, f), f)
                 ELSE updateMode(tx, f), f, lastScale)
  PROVE  Good
<1> DEFINE moded == updateMode(tx, f)
           position == evaluatePosition(moded, f)
<1>0. tx \in Transactions
  BY ConstantsAssumption DEF TypeOK
<1>1. moded \in Transactions /\ Steady(tx, moded) /\ Calm(tx, moded)
  BY <1>0, UpdateModeSteady, UpdateModeEvolves DEF Evolves
<1>2. /\ position \in Transactions /\ Settles(tx, position) /\ Calm(tx, position)
      /\ Evidenced(position, f)
  BY <1>1, EvaluatePositionSettles, EvaluatePositionEvolves, SettlesTransitive
     DEF Evolves
<1> HIDE DEF moded, position
<1>3. CASE deckSensor(d)
  <2>1. tx' = evaluateIdentity(position, f, lastScale)
    BY <1>3 DEF moded, position
  <2>2. Steady(position, tx') /\ Raises(tx, tx', lastScale)
    <3>1. Steady(position, tx') /\ Raises(position, tx', lastScale)
      BY <1>2, <2>1, EvaluateIdentitySteady
    <3> QED
      BY <1>2, <3>1, RaisesCompose
  <2>3. Settles(tx, tx') /\ Evidenced(tx', f)
    BY <1>2, <2>2, SettlesTransitive, SteadyKeeps
  <2>4. AtRest(tx') /\ ExitProven
    BY <2>3 DEF Way, AtRest, ExitProven, Settles
  <2> QED
    BY <2>2, <2>3, <2>4 DEF Good
<1>4. CASE ~deckSensor(d)
  <2>1. tx' = evaluateIdentity(moded, f, lastScale)
    BY <1>4 DEF moded
  <2>2. Steady(tx, tx') /\ Raises(tx, tx', lastScale)
    <3>1. Steady(moded, tx') /\ Raises(moded, tx', lastScale)
      BY <1>1, <2>1, EvaluateIdentitySteady
    <3> QED
      BY <1>1, <3>1, SettlesTransitive, RaisesCompose
  <2>3. \A e \in {"FRONT_SENSOR", "REAR_SENSOR"} : faults'[e] = faults[e]
    BY <1>4 DEF deckSensor, TypeOK, Devices
  <2> QED
    BY <2>2, <2>3, SteadyIsGood
<1> QED
  BY <1>3, <1>4

\* Lemma: a fault reported or cleared, in whatever state.
LEMMA FaultWay ==
  ASSUME TypeOK, Way, NEW d \in Devices,
         \/ ClearFault(d)
         \/ \E kind \in {"AUX", "CRITICAL"} : ObserveFault(d, kind)
  PROVE  Good
<1>1. PICK kind :
        /\ faults' = [faults EXCEPT ![d] = kind] /\ lastScale' = lastScale
        /\ LET f == [faults EXCEPT ![d] = kind] IN
           \/ tx.state = "IDLE" /\ tx' = tx
           \/ tx.state # "IDLE" /\ tx' = lockout(tx)
           \/ /\ tx.state # "IDLE"
              /\ tx' = evaluateIdentity(
                         IF deckSensor(d) THEN evaluatePosition(updateMode(tx, f), f)
                         ELSE updateMode(tx, f), f, lastScale)
  BY Zenon DEF ClearFault, ObserveFault
<1>2. CASE tx.state = "IDLE" /\ tx' = tx
  BY <1>1, <1>2 DEF Way, Good, Evidenced, AtRest, Raises, ExitProven
<1>3. CASE tx' = lockout(tx)
  BY <1>1, <1>3, LockoutEvolves, LockoutSteady
     DEF TypeOK, Good, Evidenced, AtRest, Raises, ExitProven
<1>4. CASE tx.state # "IDLE" /\ tx' # lockout(tx)
  <2> DEFINE f == [faults EXCEPT ![d] = kind]
  <2>1. /\ faults' = f /\ lastScale' = lastScale
        /\ tx' = evaluateIdentity(
                   IF deckSensor(d) THEN evaluatePosition(updateMode(tx, f), f)
                   ELSE updateMode(tx, f), f, lastScale)
    BY <1>1, <1>4
  <2> QED
    BY <1>4, <2>1, RefaultWay
<1> QED
  BY <1>1, <1>2, <1>3, <1>4

\* Lemma: an override, which only adds evidence.
LEMMA AuthorizeOverrideWay ==
  ASSUME TypeOK, Way, NEW d \in Devices, NEW role \in Roles,
         NEW e \in SUBSET Evidence, AuthorizeOverride(d, role, e)
  PROVE  Good
<1> DEFINE o == [tx EXCEPT !.overrides[d] = e]
           moded == updateMode(o, faults)
           position == evaluatePosition(moded, faults)
           ready == tryReadyToWeigh(position, lastScale)
           placed == IF deckSensor(d) THEN ready ELSE moded
<1>0. tx \in Transactions
  BY ConstantsAssumption DEF TypeOK
<1>1. /\ o \in Transactions /\ o.state = tx.state /\ o.entry = tx.entry
      /\ o.exit = tx.exit /\ o.position = tx.position
      /\ \A x \in Devices : tx.overrides[x] \subseteq o.overrides[x]
  BY <1>0 DEF Transactions, AuthorizeOverride
<1>2. Evidenced(o, faults) /\ AtRest(o)
  <2>1. \A x \in {"FRONT_SENSOR", "REAR_SENSOR"} :
          hasOverride(tx, x, "POSITION_CONFIRMED") =>
          hasOverride(o, x, "POSITION_CONFIRMED")
    BY <1>1 DEF hasOverride, Devices
  <2> QED
    BY <1>1, <2>1 DEF Way, Evidenced, AtRest
<1> HIDE DEF o
<1>3. /\ moded \in Transactions /\ Steady(o, moded) /\ Calm(o, moded)
      /\ Evidenced(moded, faults)
  BY <1>1, <1>2, UpdateModeSteady, UpdateModeEvolves, SteadyKeeps DEF Evolves
<1> HIDE DEF moded
<1>4. /\ position \in Transactions /\ Settles(o, position) /\ Calm(o, position)
      /\ Evidenced(position, faults)
  BY <1>3, EvaluatePositionSettles, EvaluatePositionEvolves, SettlesTransitive
     DEF Evolves
<1> HIDE DEF position
<1>5. /\ ready \in Transactions /\ Settles(o, ready) /\ Calm(o, ready)
      /\ Evidenced(ready, faults)
  BY <1>4, TryReadyToWeighSteady, TryReadyToWeighEvolves, SettlesTransitive,
     SteadyKeeps DEF Evolves
<1> HIDE DEF ready
<1>6. /\ placed \in Transactions /\ Settles(o, placed) /\ Calm(o, placed)
      /\ Evidenced(placed, faults)
  BY <1>3, <1>5, SettlesTransitive
<1>7. /\ tx' = evaluateIdentity(placed, faults, lastScale)
      /\ lastScale' = lastScale /\ faults' = faults /\ tx.state # "IDLE"
  BY Zenon DEF AuthorizeOverride, o, moded, position, ready
<1> HIDE DEF placed
<1>8. /\ Settles(o, tx') /\ Evidenced(tx', faults)
      /\ Raises(o, tx', lastScale)
  <2>1. Steady(placed, tx') /\ Raises(placed, tx', lastScale)
    BY <1>6, <1>7, EvaluateIdentitySteady
  <2> QED
    BY <1>6, <2>1, SettlesTransitive, SteadyKeeps, RaisesCompose
<1>9. AtRest(tx') /\ ExitProven
  BY <1>1, <1>2, <1>7, <1>8 DEF AtRest, ExitProven, Settles
<1> QED
  BY <1>1, <1>7, <1>8, <1>9 DEF Good, Raises

\* Lemma: a reset, which finds the exit request withdrawn, or a restart.
LEMMA DropWay ==
  ASSUME TypeOK, Way, ResetCompleted \/ Restart
  PROVE  Good
<1>1. tx' = NoTx /\ (ResetCompleted => ~tx.exit)
  BY DEF Way, AtRest, ResetCompleted, Restart
<1>2. NoTx.position = "PENDING" /\ ~NoTx.exit /\ ~NoTx.entry
  BY DEF NoTx, NewTx
<1> QED
  BY <1>1, <1>2 DEF Good, Evidenced, AtRest, Raises, ExitProven

\* Lemma: every step is good.
LEMMA NextGood ==
  ASSUME TypeOK, Way, Next
  PROVE  Good
<1>1. CASE \E p \in PositionInputs : ObservePosition(p)
  BY <1>1, ObservePositionWay
<1>2. CASE \/ \E tag \in Tags : ObserveRFID(tag)
           \/ \E plate \in Plates : ObserveLPR(plate)
  BY <1>2, ObserveIdentityWay
<1>3. CASE \E r \in ScaleInputs, durable \in BOOLEAN : ObserveScale(r, durable)
  BY <1>3, ObserveScaleWay
<1>4. CASE \/ \E d \in AuxFaults : ObserveFault(d, "AUX")
           \/ \E d \in CriticalFaults : ObserveFault(d, "CRITICAL")
           \/ \E d \in Clearable : ClearFault(d)
  BY <1>4, FaultWay, ConstantsAssumption DEF Clearable, Devices
<1>5. CASE \E d \in Devices, role \in Roles, e \in SUBSET Evidence :
             AuthorizeOverride(d, role, e)
  BY <1>5, AuthorizeOverrideWay
<1>6. CASE ResetCompleted \/ Restart
  BY <1>6, DropWay
<1> QED
  BY <1>1, <1>2, <1>3, <1>4, <1>5, <1>6 DEF Next

-----------------------------------------------------------------------------
(* The properties.                                                         *)

\* The inductive invariant: an accepted position has its evidence, and nothing
\* is requested of the exit side before a pass and after it.
THEOREM WayHolds == Spec => []Way
<1>1. Init => Way
  BY DEF Init, Way, Evidenced, AtRest, NoTx, NewTx
<1>2. TypeOK /\ Way /\ [Next]_vars => Way'
  <2>1. TypeOK /\ Way /\ Next => Way'
    BY NextGood DEF Good, Way, Evidenced, AtRest, hasOverride
  <2>2. Way /\ UNCHANGED vars => Way'
    BY DEF vars, Way, Evidenced, AtRest, hasOverride
  <2> QED
    BY <2>1, <2>2
<1> QED
  BY <1>1, <1>2, TypeCorrect, PTL DEF Spec

\* Outside lockout, an accepted position rests on two working deck sensors, or
\* on one and the operator's evidence for the other.
THEOREM PositionEvidence == Spec => []PositionIsEvidenced
<1>1. Way => PositionIsEvidenced
  BY DEF Way, Evidenced, PositionIsEvidenced
<1> QED
  BY <1>1, WayHolds, PTL

\* The entry request is raised only onto an empty, safe deck for an accepted
\* identity, whichever handler raises it.
THEOREM EntryIsOntoEmptyDeck == Spec => EntryOntoEmptyDeck
<1> DEFINE A == ~tx.entry /\ tx'.entry =>
                  /\ tx'.identity = "ACCEPTED"
                  /\ tx'.sensors.safety /\ ~tx'.sensors.front /\ ~tx'.sensors.rear
                  /\ lastScale' # None /\ lastScale'.ok /\ lastScale'.stable
                  /\ abs64(lastScale'.weight) <= EmptyScaleMaxKG
<1>1. TypeOK /\ Way /\ [Next]_vars => [A]_vars
  <2> SUFFICES ASSUME TypeOK, Way, Next, ~tx.entry, tx'.entry PROVE A
    OBVIOUS
  <2>1. Authorized(tx', lastScale') /\ TypeOK'
    BY NextGood, StepKinds DEF Good, Raises
  <2>2. lastScale'.weight \in Int /\ EmptyScaleMaxKG \in Nat
    BY <2>1, ConstantsAssumption DEF TypeOK, Readings, Authorized
  <2> QED
    BY <2>1, <2>2 DEF Authorized, abs64
<1> QED
  BY <1>1, WayHolds, TypeCorrect, PTL DEF Spec, EntryOntoEmptyDeck

\* The exit request is withdrawn by a lockout, a restart, or the proof that the
\* truck has left, and by nothing else.
THEOREM ExitIsHeld == Spec => ExitHeldUntilClear
<1> DEFINE A == tx.exit /\ ~tx'.exit =>
                  \/ tx'.state = "FAULT_LOCKOUT"
                  \/ tx.exitSeen /\ ~tx'.sensors.exit
                       /\ (tx'.sensors.safety
                            \/ hasOverride(tx', "EXIT_SENSOR", "EXIT_CLEAR_CONFIRMED"))
                  \/ Restart
<1>1. TypeOK /\ Way /\ [Next]_vars => [A]_vars
  BY NextGood DEF Good, ExitProven, provenClear
<1> QED
  BY <1>1, WayHolds, TypeCorrect, PTL DEF Spec, ExitHeldUntilClear
=============================================================================
