------------------------------ MODULE TwoPass ------------------------------
(***************************************************************************)
(* The station as main.go puts it together: the two-pass session           *)
(* (internal/twopass/workflow.go) and its commit bridge (bridge.go) around *)
(* the engine, the weigh cycles behind the bridge, and the audit recorder  *)
(* (internal/workflowaudit/recorder.go) in front of it all.                *)
(*                                                                         *)
(* The engine is Engine, extended: every workflow call is one of its       *)
(* handlers with what the session does before and after.  The cycles are   *)
(* an instance of WeighCycles.  The recorder's mutex serialises the calls. *)
(* A call is up to three steps: the handler; for an observation, the       *)
(* lookup of the called cycle; the append of the audit records.  A handler *)
(* that commits a second pass is three, one per call of the cycles' store. *)
(* The operator's call of a cycle, the expiry ticker and the readers of    *)
(* Snapshot do not take that mutex and come between any two of them.       *)
(*                                                                         *)
(* Data abstractions.  The bridge's direction is always assigned with the  *)
(* session's: one variable.  Of the outcomes only the active transaction's *)
(* is ever read: the cycle its pass was recorded in.  Camera evidence is   *)
(* left out, and so are the operations only the simulation routes offer:   *)
(* overrides, auxiliary faults and the operator's reset.                   *)
(***************************************************************************)
EXTENDS Engine

CONSTANTS
  Cycles,         \* cycle ids; bound: first passes recorded
  VehicleKey,     \* the key the store finds a called cycle by, None of None
  CycleIdentity,  \* the key the pair rules compare, None of None
  Policy,         \* the configured pair limits
  MaxClock        \* bound: the wall clock

VARIABLES
  clock, status, firstPass, ticket, orphaned,  \* the cycles: see WeighCycles
  recording, expiry,                           \* and what is done to them
  direction,  \* the session's direction, "NONE" while there is none
  bound,      \* the called cycle a return is bound to, or None
  outcome,    \* the cycle the bridge recorded the active pass in, or None
  call,       \* what the call in progress still has to do
  passes,     \* history: per ticket of the engine, its direction and cycle
  lost        \* history: an audit record was lost since the process started

book == <<status, firstPass, ticket, orphaned>>
books == <<book, recording, expiry>>
session == <<direction, bound, outcome>>
passVars == <<vars, clock, books, session, call, passes, lost>>

Book == INSTANCE WeighCycles

Directions == {"A_TO_B", "B_TO_A"}

\* Sensors with the sides exchanged.
swapPhysicalPosition(p) ==
  [entry |-> p.exit, front |-> p.rear, rear |-> p.front, exit |-> p.entry,
   safety |-> p.safety]

ASSUME SessionAssumption ==
  /\ \A p \in PositionInputs : swapPhysicalPosition(p) \in PositionInputs
  /\ "AUDIT_STORE" \in CriticalFaults
  /\ VehicleKey[None] = None /\ CycleIdentity[None] = None
  /\ Policy \in Book!PairPolicy /\ MaxClock \in Nat
  /\ None \notin Cycles \cup Book!Passes \cup Book!Tickets

PassTypeOK ==
  /\ TypeOK
  /\ Book!TypeOK
  /\ direction \in Directions \cup {"NONE"}
  /\ bound \in Cycles \cup {None} /\ outcome \in Cycles \cup {None}
  /\ call \in {"NONE", "COMMIT", "BIND", "APPEND"}
  /\ call = "COMMIT" <=> recording # Book!NotRecording
  /\ passes \in Seq([direction : Directions, cycle : Cycles])
  /\ Len(passes) = Len(tickets)
  /\ lost \in BOOLEAN

PassInit ==
  /\ Init
  /\ Book!Init
  /\ direction = "NONE" /\ bound = None /\ outcome = None
  /\ call = "NONE"
  /\ passes = << >> /\ lost = FALSE

-----------------------------------------------------------------------------
(* The session.                                                            *)

onReturn == direction = "B_TO_A"

detectDirection(p) ==
  IF p.entry /\ ~p.exit THEN "A_TO_B"
  ELSE IF p.exit /\ ~p.entry THEN "B_TO_A" ELSE "NONE"

allPresenceClear(p) == ~p.entry /\ ~p.front /\ ~p.rear /\ ~p.exit

resetSession == direction' = "NONE" /\ bound' = None /\ outcome' = None

theOnlyOne(matches) ==
  IF \E c \in Cycles : matches = {c} THEN CHOOSE c \in matches : TRUE ELSE None

\* Mutant: the lookup does not ask for the status.
openFor(t) ==
  theOnlyOne({c \in Book!ListQueue :
                VehicleKey[firstPass[c].plate] = VehicleKey[t.lpr.plate]})

\* The cycle the store finds for the transaction, if there is exactly one.
calledFor(t) ==
  IF VehicleKey[t.lpr.plate] = None THEN None
  ELSE theOnlyOne(Book!calledMatches(t.lpr.plate, t.rfid.tag))

\* The lookup may fail, which unbinds as finding nothing does.
bindCalled == bound' \in {calledFor(tx), None}

(* The session's part of Snapshot: the engine's transaction seen from the  *)
(* sides of the road.                                                      *)

masked ==
  /\ onReturn /\ tx.identity = "ACCEPTED" /\ bound = None
  /\ tx.state \notin {"FAULT_LOCKOUT", "COMPLETE"}

\* The requests for side A's and for side B's barrier and light, and for the
\* buzzer; there are none without a transaction.
Snapshot ==
  LET given == tx.state # "IDLE" /\ ~masked IN
  [A |-> given /\ IF onReturn THEN tx.exit ELSE tx.entry,
   B |-> given /\ IF onReturn THEN tx.entry ELSE tx.exit,
   buzzer |-> given /\ tx.exit]

-----------------------------------------------------------------------------
(* The calls, behind the recorder's mutex.                                 *)

\* An observation of an active transaction is always put on record, by its
\* time if by nothing else; on an accepted return the lookup comes first.
observed ==
  call' = IF tx.state = "IDLE" /\ tx'.state = "IDLE" THEN "NONE"
          ELSE IF direction' = "B_TO_A" /\ tx'.identity = "ACCEPTED"
          THEN "BIND" ELSE "APPEND"

\* Anything else is, if the recorder sees a difference.
compared ==
  LET seen(t) == [t EXCEPT !.confirmations = 0] IN
  call' = IF \/ seen(tx') # seen(tx)
             \/ tx.state # "IDLE" /\ faults' # faults
          THEN "APPEND" ELSE "NONE"

\* Mutant: the engine is not told.
endSessionOnly == resetSession /\ UNCHANGED vars

endPass == ResetCompleted /\ resetSession

passIsOver(p) == tx.state = "COMPLETE" /\ allPresenceClear(p)

\* Mutant: a pass is over when the road is clear, completed or not.
EndAnyPass(p) ==
  /\ allPresenceClear(p)
  /\ tx' = NoTx /\ stableBase' = None
  /\ UNCHANGED <<lastScale, faults, started, tickets>>
  /\ resetSession
  /\ call' = "APPEND"

\* All sensors clear end a completed pass; there is nothing left to observe.
EndPass(p) ==
  /\ passIsOver(p)
  /\ endPass
  /\ call' = "APPEND"

\* The direction is latched while there is no transaction in progress.
CrossSensors(p) ==
  /\ ~passIsOver(p)
  /\ direction' = IF direction = "NONE" /\ tx.state \in {"IDLE", "COMPLETE"}
                  THEN detectDirection(p) ELSE direction
  /\ ObservePosition(IF direction' = "B_TO_A" THEN swapPhysicalPosition(p)
                     ELSE p)
  /\ UNCHANGED <<bound, outcome>>
  /\ observed

Position(p) ==
  /\ call = "NONE"
  /\ EndPass(p) \/ CrossSensors(p)
  /\ UNCHANGED <<clock, books, passes, lost>>

RFID(tag) ==
  /\ call = "NONE"
  /\ ObserveRFID(tag)
  /\ UNCHANGED <<clock, books, session, passes, lost>>
  /\ observed

LPR(plate) ==
  /\ call = "NONE"
  /\ ObserveLPR(plate)
  /\ UNCHANGED <<clock, books, session, passes, lost>>
  /\ observed

\* The frame completes the confirmations: the engine commits a ticket.
commits(r) ==
  LET t == beginWeighing(tx, r) IN
  /\ r.ok /\ tx.state \notin {"IDLE", "COMPLETE", "FAULT_LOCKOUT"}
  /\ t.state = "WEIGHING" /\ countable(r)
  /\ confirm(t, r) >= StableConfirmations

(* The engine asks the bridge to commit the pass of frame r, and goes on with *)
(* the answer: durable says that the bridge returned no error.                *)

\* Mutant: the bridge keeps the error to itself.
answeredAnyway(r, durable, c) ==
  /\ ObserveScale(r, TRUE)
  /\ outcome' = IF durable THEN c ELSE None
  /\ passes' = IF durable
               THEN Append(passes, [direction |-> direction, cycle |-> c])
               ELSE passes
  /\ compared

answered(r, durable, c) ==
  /\ ObserveScale(r, durable)
  /\ outcome' = IF durable THEN c ELSE None
  /\ passes' = IF durable
               THEN Append(passes, [direction |-> direction, cycle |-> c])
               ELSE passes
  /\ compared

\* The first pass opens a cycle.
FirstPass(r) ==
  /\ direction = "A_TO_B"
  /\ \E c \in Cycles :
       /\ Book!RecordFirstPass(c, tx.lpr.plate, tx.rfid.tag, r.weight)
       /\ answered(r, TRUE, c)

\* No direction, an invalid pass, or an error of the store.
NoPass(r) ==
  /\ direction # "B_TO_A"
  /\ answered(r, FALSE, None)
  /\ UNCHANGED books

\* Mutant: a truck that was called is on its return, whichever way it drives.
SecondPassByCall(r) ==
  /\ calledFor(tx) # None
  /\ Book!ObserveSecondPass(tx.lpr.plate, tx.rfid.tag, r.weight)
  /\ call' = "COMMIT"
  /\ UNCHANGED <<vars, outcome, passes>>

\* The second pass is a matter for the coordinator, which calls the store
\* twice while the engine waits.
SecondPass(r) ==
  /\ direction = "B_TO_A"
  /\ Book!ObserveSecondPass(tx.lpr.plate, tx.rfid.tag, r.weight)
  /\ call' = "COMMIT"
  /\ UNCHANGED <<vars, outcome, passes>>

Scale(r) ==
  /\ call = "NONE"
  /\ \/ /\ ~commits(r)
        /\ ObserveScale(r, FALSE)
        /\ UNCHANGED <<books, outcome, passes>>
        /\ compared
     \/ commits(r) /\ (FirstPass(r) \/ SecondPass(r) \/ NoPass(r))
  /\ UNCHANGED <<clock, direction, bound, lost>>

\* The frame the pass in progress was accepted from.
frame == [weight |-> recording.pass.weight, stable |-> TRUE, ok |-> TRUE]

FindCalled ==
  /\ call = "COMMIT" /\ Book!FindCalledCycle
  /\ \/ /\ recording'.step = "FOUND"
        /\ UNCHANGED <<vars, outcome, passes, call>>
     \/ /\ recording'.step = "IDLE"
        /\ answered(frame, FALSE, None)
  /\ UNCHANGED <<direction, bound, lost>>

\* Mutant: a refused pair counts as recorded.
SettleAnyway ==
  /\ call = "COMMIT" /\ Book!RecordSecondPass
  /\ answered(frame, TRUE, recording.cycle)
  /\ UNCHANGED <<direction, bound, lost>>

Settle ==
  /\ call = "COMMIT" /\ Book!RecordSecondPass
  /\ LET c == recording.cycle IN answered(frame, status'[c] = "COMPLETE", c)
  /\ UNCHANGED <<direction, bound, lost>>

\* A fault of the audit store comes from the gate before the outputs, which
\* could not write the record of an output.
Fault(d) ==
  /\ call = "NONE"
  /\ ObserveFault(d, "CRITICAL")
  /\ lost' = (lost \/ d = "AUDIT_STORE")
  /\ UNCHANGED <<clock, books, session, passes>>
  /\ compared

\* Nothing clears a fault of the audit store.
Clear(d) ==
  /\ call = "NONE" /\ d # "AUDIT_STORE"
  /\ ClearFault(d)
  /\ UNCHANGED <<clock, books, session, passes, lost>>
  /\ compared

Bind ==
  /\ call = "BIND"
  /\ bindCalled
  /\ call' = "APPEND"
  /\ UNCHANGED <<vars, clock, books, direction, outcome, passes, lost>>

AppendRecords ==
  /\ call = "APPEND"
  /\ call' = "NONE"
  /\ UNCHANGED <<vars, clock, books, session, passes, lost>>

\* Mutant: a lost record is only reported.
lossReported == UNCHANGED vars

\* What has been done is not undone; the transaction is locked out.
lossRaised == ObserveFault("AUDIT_STORE", "CRITICAL")

AppendFails ==
  /\ call = "APPEND"
  /\ lossRaised
  /\ call' = "NONE" /\ lost' = TRUE
  /\ UNCHANGED <<clock, books, session, passes>>

-----------------------------------------------------------------------------
(* What goes past the recorder, and the process.                           *)

\* Mutant: whatever is open can be called.
CallAny(c) ==
  /\ status[c] # "NONE" /\ Book!MarkCycleStatus(c, "CALLED")
  /\ UNCHANGED <<vars, clock, recording, expiry, session, call, passes, lost>>

CallCycle(c) ==
  /\ Book!Call(c)
  /\ UNCHANGED <<vars, session, call, passes, lost>>

Expire ==
  /\ \/ Book!ExpireOrphans
     \/ \E c \in Cycles : Book!ExpireOne(c)
     \/ Book!AbortExpiry
  /\ UNCHANGED <<vars, session, call, passes, lost>>

Tick ==
  /\ Book!Tick
  /\ UNCHANGED <<vars, session, call, passes, lost>>

Reboot ==
  /\ Restart
  /\ Book!Crash
  /\ resetSession
  /\ call' = "NONE" /\ lost' = FALSE
  /\ UNCHANGED passes

PassNext ==
  \/ \E p \in PositionInputs : Position(p)
  \/ \E tag \in Tags : RFID(tag)
  \/ \E plate \in Plates : LPR(plate)
  \/ \E r \in ScaleInputs : Scale(r)
  \/ \E d \in CriticalFaults : Fault(d)
  \/ \E d \in Clearable : Clear(d)
  \/ FindCalled
  \/ Settle
  \/ Bind
  \/ AppendRecords
  \/ AppendFails
  \/ \E c \in Cycles : CallCycle(c)
  \/ Expire
  \/ Tick
  \/ Reboot

PassSpec == PassInit /\ [][PassNext]_passVars

(* What the I/O controller sees of the station.  It calls side A entry.     *)

phase ==
  CASE tx.state = "IDLE" -> "NONE"
    [] tx.state = "FAULT_LOCKOUT" -> "LOCKED"
    [] OTHER -> "ACTIVE"

requested ==
  {"OPEN", "GREEN"} \X {side \in {"ENTRY", "EXIT"} :
                        IF side = "ENTRY" THEN Snapshot.A ELSE Snapshot.B}
    \cup (IF Snapshot.buzzer THEN {<<"BUZZER", "EXIT">>} ELSE {})

reported ==
  {d \in {"REMOTE_IO", "AUDIT_STORE", "ENTRY_BARRIER", "EXIT_BARRIER"} :
     faults[d] = "CRITICAL"}

Contract == INSTANCE Workflow
  WITH tx <- phase, want <- requested, faults <- reported

\* A poll with nothing on any presence sensor.
Deserted(p) == TRUE \notin {p.entry, p.front, p.rear, p.exit}

\* A call goes on to its end, and the road is clear at one poll and another.
PassFairness ==
  /\ WF_passVars(FindCalled \/ Settle \/ Bind \/ AppendRecords \/ AppendFails)
  /\ SF_passVars(/\ tx.state = "COMPLETE"
                 /\ \E p \in PositionInputs : Deserted(p) /\ Position(p))

FairPassSpec == PassSpec /\ PassFairness

-----------------------------------------------------------------------------
(* Properties.                                                             *)

\* What the session and the recorder do to the engine are the engine's own
\* operations: every step of the station is a step of Engine or leaves it.
EngineImplemented == Spec

\* What the station does to the cycles is what WeighCycles lets the session,
\* the operator and the ticker do: every step of the station is a step of
\* WeighCycles or leaves the books, the recording and the scan alone.
BooksImplemented == Book!Spec

\* The I/O controller is given the workflow it relies on: nothing is requested
\* but by an active transaction, none starts with a request, starts or goes on
\* under a critical fault, and none leaves a lockout; whatever the session
\* swaps, masks or unmasks.
WorkflowProvided == Contract!WorkflowSpec

\* A truck is released only when its crossing is in the books: the bridge has
\* an outcome for the active transaction, and the durable row of that cycle
\* holds the weight of the engine's latest ticket, as first pass or as tare.
ReleaseFollowsPass ==
  tx.exit =>
    LET last == tickets[Len(tickets)] IN
    /\ outcome # None /\ last.tx = tx.id
    /\ IF onReturn
       THEN status[outcome] = "COMPLETE" /\ ticket[outcome].tare = last.weight
       ELSE direction = "A_TO_B" /\ firstPass[outcome].weight = last.weight

\* An accepted return that may move, once its lookup is done, is bound to a
\* cycle of this very vehicle that an operator called, whatever was read or
\* called before.
ReturnIsCalled ==
  onReturn /\ tx.identity = "ACCEPTED" /\ call # "BIND"
    /\ (Snapshot.A \/ Snapshot.B)
  => /\ bound # None
     /\ status[bound] \notin {"NONE", "QUEUED"}
     /\ VehicleKey[firstPass[bound].plate] = VehicleKey[tx.lpr.plate]
     /\ firstPass[bound].tag = tx.rfid.tag

\* The cycle of a final ticket carries exactly two recorded passes: one each
\* way, of one vehicle, the return by a later transaction of the engine than
\* the first pass, with the two weights the ticket states.  How many cycles a
\* transaction may record passes for is not said here.
TicketNeedsTwoCrossings ==
  \A c \in Cycles : status[c] = "COMPLETE" =>
    \E i, j \in DOMAIN passes :
      /\ {k \in DOMAIN passes : passes[k].cycle = c} = {i, j}
      /\ passes[i].direction = "A_TO_B" /\ passes[j].direction = "B_TO_A"
      /\ tickets[i].tx < tickets[j].tx
      /\ VehicleKey[tickets[i].plate] = VehicleKey[tickets[j].plate]
      /\ tickets[i].tag = tickets[j].tag
      /\ ticket[c].gross = tickets[i].weight
      /\ ticket[c].tare = tickets[j].weight

\* After a record was lost the station gives no permission, to the active
\* transaction or to a later one, before the process is restarted: whatever
\* is observed, cleared or committed in between.
AuditLossIsFinal == lost => ~Snapshot.A /\ ~Snapshot.B

\* A completed pass makes room for the next vehicle once the road is clear.
CompletedPassMakesRoom == []<>(tx.state # "COMPLETE")

\* The release of a return is not taken back while the engine holds it: the
\* request to side A stands until the truck has left.
ReleaseIsNotTakenBack ==
  [][onReturn /\ Snapshot.A /\ tx.exit /\ tx'.exit => Snapshot'.A]_passVars

\* A return without a called cycle is given no permission on either side.
UncalledReturnIsHeld ==
  onReturn /\ bound = None /\ outcome = None => ~Snapshot.A /\ ~Snapshot.B
=============================================================================
