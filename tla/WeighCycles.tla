---------------------------- MODULE WeighCycles ----------------------------
(***************************************************************************)
(* The business layer of the edge controller: the weigh cycles of          *)
(* internal/cycle/coordinator.go over the SQLite store of                  *)
(* internal/adapters/sqlitestore/cycle_store.go, with the pair rules of    *)
(* internal/domain/cycle.go.                                               *)
(*                                                                         *)
(* Processes.  Passes are recorded under the engine mutex, one at a time.  *)
(* The operator's call (HTTP) and the orphan-expiry ticker do not take     *)
(* that mutex and interleave with a pass being recorded.  The store has    *)
(* one connection and every method is one SQL transaction, so a method of  *)
(* the store is one action; a coordinator method that calls the store      *)
(* twice is two.                                                           *)
(*                                                                         *)
(* Data abstractions.  A cycle is its durable row: status, first pass and, *)
(* when complete, final ticket; the ticket stands for the second pass, the *)
(* ticket row and the sync_queue item inserted by the same transaction.    *)
(* Random ids are fresh.  Raw references are always present: the collector *)
(* journals a frame before it reports it.  Camera evidence, modes and      *)
(* overrides are carried along unchanged and are left out.                 *)
(***************************************************************************)
EXTENDS Integers, FiniteSets

CONSTANTS
  Cycles,          \* cycle ids
  Plates,          \* plates, as the camera spells them
  Tags,            \* RFID tags
  VehicleKey,      \* normalizeVehicleKey: Unicode key of a plate, None if ""
  CycleIdentity,   \* normalizeCycleIdentity: ASCII key of a plate, None if ""
  Weights,         \* accepted weights (kg)
  Policy,          \* the configured pair limits; 0 means not configured
  MaxClock,        \* bound: the wall clock
  None             \* no tag, no key, no pass, no cycle, no ticket

PairPolicy ==
  [minElapsed : Nat, maxElapsed : Nat, minGross : Nat, maxGross : Nat,
   minTare : Nat, maxTare : Nat, minNet : Nat, maxNet : Nat]

ASSUME CyclesAssumption ==
  /\ Weights \subseteq Int /\ MaxClock \in Nat
  /\ Policy \in PairPolicy
  /\ None \notin Tags /\ None \notin Cycles

Passes == [plate : Plates, tag : Tags \cup {None}, weight : Weights, at : Nat]

ASSUME NoneIsNoPass == None \notin Passes

Statuses == {"NONE", "QUEUED", "CALLED", "COMPLETE", "ORPHANED_FIRST_PASS",
             "PAIR_TIME_INVALID"}

Tickets ==
  [second : Passes, gross : Weights, tare : Weights, net : Nat \ {0},
   elapsed : Nat]

ASSUME NoneIsNoTicket == None \notin Tickets

VARIABLES
  clock,      \* the wall clock
  status,     \* per cycle: its durable status, "NONE" before it is opened
  firstPass,  \* per cycle: its durable first pass, or None
  ticket,     \* per cycle: its durable final ticket, or None
  recording,  \* the second pass being recorded: step, pass and cycle found
  expiry,     \* the expiry scan in progress: its time and the cycles left
  orphaned    \* history: the cycles ever marked ORPHANED_FIRST_PASS

store == <<status, firstPass, ticket, orphaned>>
vars == <<clock, store, recording, expiry>>

NotRecording == [step |-> "IDLE", pass |-> None, cycle |-> None]
NotExpiring == [at |-> 0, left |-> {}]

TypeOK ==
  /\ clock \in Nat
  /\ status \in [Cycles -> Statuses]
  /\ firstPass \in [Cycles -> Passes \cup {None}]
  /\ ticket \in [Cycles -> Tickets \cup {None}]
  /\ recording \in [step : {"IDLE", "OBSERVED", "FOUND"},
                    pass : Passes \cup {None}, cycle : Cycles \cup {None}]
  /\ expiry \in [at : Nat, left : SUBSET Cycles]
  /\ orphaned \subseteq Cycles

Init ==
  /\ clock = 0
  /\ status = [c \in Cycles |-> "NONE"]
  /\ firstPass = [c \in Cycles |-> None]
  /\ ticket = [c \in Cycles |-> None]
  /\ recording = NotRecording
  /\ expiry = NotExpiring
  /\ orphaned = {}

-----------------------------------------------------------------------------
(* Pair rules.                                                             *)

\* Mutant: only the lower limit is enforced.
withinLowerLimit(v, min, max) == min = 0 \/ v >= min

withinConfigured(v, min, max) ==
  (min = 0 \/ v >= min) /\ (max = 0 \/ v <= max)

elapsed(first, second) == second.at - first.at
net(first, second) == first.weight - second.weight

sameTruck(first, second) ==
  /\ CycleIdentity[first.plate] # None
  /\ CycleIdentity[first.plate] = CycleIdentity[second.plate]
  /\ None \in {first.tag, second.tag} \/ first.tag = second.tag

timeValid(first, second, policy) ==
  /\ elapsed(first, second) > 0
  /\ withinConfigured(elapsed(first, second),
                      policy.minElapsed, policy.maxElapsed)

\* Mutant: a pair without a positive net is accepted.
weightValidAnyNet(first, second, policy) ==
  /\ withinConfigured(first.weight, policy.minGross, policy.maxGross)
  /\ withinConfigured(second.weight, policy.minTare, policy.maxTare)

weightValid(first, second, policy) ==
  /\ withinConfigured(first.weight, policy.minGross, policy.maxGross)
  /\ withinConfigured(second.weight, policy.minTare, policy.maxTare)
  /\ net(first, second) > 0
  /\ withinConfigured(net(first, second), policy.minNet, policy.maxNet)

\* The status the pair earns; COMPLETE means it is valid.
ValidatePair(first, second, policy) ==
  IF ~sameTruck(first, second) THEN "WRONG_TRUCK"
  ELSE IF ~timeValid(first, second, policy) THEN "PAIR_TIME_INVALID"
  ELSE IF ~weightValid(first, second, policy) THEN "PAIR_WEIGHT_INVALID"
  ELSE "COMPLETE"

NoPolicy ==
  [minElapsed |-> 0, maxElapsed |-> 0, minGross |-> 0, maxGross |-> 0,
   minTare |-> 0, maxTare |-> 0, minNet |-> 0, maxNet |-> 0]

ValidateFirstPass(pass) == CycleIdentity[pass.plate] # None /\ pass.weight > 0

windowOver(first, second) ==
  Policy.maxElapsed > 0 /\ elapsed(first, second) > Policy.maxElapsed

-----------------------------------------------------------------------------
(* The store: one SQL transaction each.                                    *)

OpenCycle(c, pass) ==
  /\ status[c] = "NONE"
  /\ status' = [status EXCEPT ![c] = "QUEUED"]
  /\ firstPass' = [firstPass EXCEPT ![c] = pass]
  /\ UNCHANGED <<ticket, orphaned>>

\* Calling a CALLED cycle again succeeds and changes nothing.
CallCycle(c) ==
  /\ status[c] = "QUEUED"
  /\ status' = [status EXCEPT ![c] = "CALLED"]
  /\ UNCHANGED <<firstPass, ticket, orphaned>>

\* The CALLED cycles of the truck; the store refuses to choose among several.
calledMatches(plate, tag) ==
  {c \in Cycles :
     /\ status[c] = "CALLED"
     /\ VehicleKey[firstPass[c].plate] = VehicleKey[plate]
     /\ None \in {tag, firstPass[c].tag} \/ firstPass[c].tag = tag}

\* Mutant: the queue lists the called cycles only.
ListCalled == {c \in Cycles : status[c] = "CALLED"}

ListQueue == {c \in Cycles : status[c] \in {"QUEUED", "CALLED"}}

\* Mutant: the durable status is not checked inside the transaction.
completeUnchecked(c, second) ==
  /\ ValidatePair(firstPass[c], second, NoPolicy) = "COMPLETE"
  /\ status' = [status EXCEPT ![c] = "COMPLETE"]
  /\ ticket' = [ticket EXCEPT ![c] =
       [second |-> second, gross |-> firstPass[c].weight,
        tare |-> second.weight, net |-> net(firstPass[c], second),
        elapsed |-> elapsed(firstPass[c], second)]]
  /\ UNCHANGED <<firstPass, orphaned>>

CompleteCycle(c, second) ==
  /\ ValidatePair(firstPass[c], second, NoPolicy) = "COMPLETE"
  /\ status[c] = "CALLED"
  /\ status' = [status EXCEPT ![c] = "COMPLETE"]
  /\ ticket' = [ticket EXCEPT ![c] =
       [second |-> second, gross |-> firstPass[c].weight,
        tare |-> second.weight, net |-> net(firstPass[c], second),
        elapsed |-> elapsed(firstPass[c], second)]]
  /\ UNCHANGED <<firstPass, orphaned>>

\* Only a COMPLETE cycle refuses a new status.
MarkCycleStatus(c, new) ==
  /\ status[c] # "COMPLETE"
  /\ status' = [status EXCEPT ![c] = new]
  /\ orphaned' = IF new = "ORPHANED_FIRST_PASS" THEN orphaned \cup {c}
                 ELSE orphaned
  /\ UNCHANGED <<firstPass, ticket>>

-----------------------------------------------------------------------------
(* The coordinator.                                                        *)

RecordFirstPass(c, plate, tag, weight) ==
  LET pass == [plate |-> plate, tag |-> tag, weight |-> weight, at |-> clock]
  IN /\ recording = NotRecording
     /\ ValidateFirstPass(pass)
     /\ OpenCycle(c, pass)
     /\ UNCHANGED <<clock, recording, expiry>>

Call(c) == CallCycle(c) /\ UNCHANGED <<clock, recording, expiry>>

\* The engine accepts the weight of a truck driving from B to A ...
ObserveSecondPass(plate, tag, weight) ==
  /\ recording = NotRecording
  /\ recording' =
       [step |-> "OBSERVED", cycle |-> None,
        pass |-> [plate |-> plate, tag |-> tag, weight |-> weight,
                  at |-> clock]]
  /\ UNCHANGED <<clock, store, expiry>>

\* ... the coordinator looks the open cycle up, and gives up unless it finds
\* exactly one and the store does not fail ...
FindCalledCycle ==
  LET pass == recording.pass
      matches == calledMatches(pass.plate, pass.tag)
  IN /\ recording.step = "OBSERVED"
     /\ \/ /\ VehicleKey[pass.plate] # None
           /\ \E c \in Cycles :
                /\ matches = {c}
                /\ recording' = [step |-> "FOUND", pass |-> pass, cycle |-> c]
        \/ recording' = NotRecording
     /\ UNCHANGED <<clock, store, expiry>>

\* ... and completes it, or writes down that the pair was refused.  The store
\* may fail: the error is returned for a completion, ignored for a mark.
settlePair(c, second) ==
  LET verdict == ValidatePair(firstPass[c], second, Policy)
      over == windowOver(firstPass[c], second)
  IN \/ verdict = "COMPLETE" /\ CompleteCycle(c, second)
     \/ /\ verdict = "PAIR_TIME_INVALID" /\ over
        /\ MarkCycleStatus(c, "PAIR_TIME_INVALID")
     \/ /\ \/ verdict = "PAIR_WEIGHT_INVALID"
           \/ verdict = "PAIR_TIME_INVALID" /\ ~over
        /\ MarkCycleStatus(c, "CALLED")
     \/ UNCHANGED store

RecordSecondPass ==
  /\ recording.step = "FOUND"
  /\ settlePair(recording.cycle, recording.pass)
  /\ recording' = NotRecording
  /\ UNCHANGED <<clock, expiry>>

\* The ticker's scan: the queue is listed in one transaction, then each
\* overdue cycle of that list is marked in one of its own.
ExpireOrphans ==
  /\ Policy.maxElapsed > 0 /\ expiry = NotExpiring
  /\ ListQueue # {}
  /\ expiry' = [at |-> clock, left |-> ListQueue]
  /\ UNCHANGED <<clock, store, recording>>

\* Mutant: a cycle still within its window is expired.
overdueEarly(c) == expiry.at - firstPass[c].at >= Policy.maxElapsed

overdue(c) == expiry.at - firstPass[c].at > Policy.maxElapsed

doneWith(c) ==
  LET left == expiry.left \ {c} IN
  expiry' = IF left = {} THEN NotExpiring ELSE [expiry EXCEPT !.left = left]

ExpireOne(c) ==
  /\ c \in expiry.left
  /\ \/ overdue(c) /\ MarkCycleStatus(c, "ORPHANED_FIRST_PASS")
     \/ ~overdue(c) /\ UNCHANGED store
  /\ doneWith(c)
  /\ UNCHANGED <<clock, recording>>

\* A mark fails, because the cycle has been completed since it was listed or
\* because of the store: the rest of the scan is dropped.
AbortExpiry ==
  /\ \E c \in expiry.left : overdue(c)
  /\ expiry' = NotExpiring
  /\ UNCHANGED <<clock, store, recording>>

Tick ==
  /\ clock < MaxClock /\ clock' = clock + 1
  /\ UNCHANGED <<store, recording, expiry>>

\* The process stops and starts again: what was in flight is gone.
Crash ==
  /\ recording' = NotRecording /\ expiry' = NotExpiring
  /\ UNCHANGED <<clock, store>>

Next ==
  \/ \E c \in Cycles, p \in Plates, t \in Tags \cup {None}, w \in Weights :
       RecordFirstPass(c, p, t, w)
  \/ \E c \in Cycles : Call(c)
  \/ \E p \in Plates, t \in Tags \cup {None}, w \in Weights :
       ObserveSecondPass(p, t, w)
  \/ FindCalledCycle
  \/ RecordSecondPass
  \/ ExpireOrphans
  \/ \E c \in Cycles : ExpireOne(c)
  \/ AbortExpiry
  \/ Tick
  \/ Crash

Spec == Init /\ [][Next]_vars

\* One step of the scan in progress.
Scan == AbortExpiry \/ \E c \in Cycles : ExpireOne(c)

\* The ticker fires again and again and a scan in progress goes on; it reaches
\* every cycle it listed unless it is aborted or the process stops, and that
\* does not happen to every scan.
FairSpec ==
  /\ Spec
  /\ WF_vars(ExpireOrphans) /\ WF_vars(Scan)
  /\ \A c \in Cycles : SF_vars(ExpireOne(c))

-----------------------------------------------------------------------------
(* Properties.                                                             *)

\* A final ticket exists exactly for the COMPLETE cycles, and each states a
\* pair of one truck that is valid under the configured limits: the second
\* pass after the first and inside the window, a positive net that is the
\* difference of the two durable weights.
CompletedPairIsValid ==
  \A c \in Cycles :
    /\ status[c] = "COMPLETE" <=> ticket[c] # None
    /\ ticket[c] # None =>
         LET first == firstPass[c]
             second == ticket[c].second
             within(v, min, max) == (min > 0 => v >= min) /\ (max > 0 => v <= max)
         IN /\ CycleIdentity[first.plate] = CycleIdentity[second.plate]
            /\ first.tag = None \/ second.tag \in {first.tag, None}
            /\ second.at > first.at
            /\ within(second.at - first.at, Policy.minElapsed, Policy.maxElapsed)
            /\ within(first.weight, Policy.minGross, Policy.maxGross)
            /\ within(second.weight, Policy.minTare, Policy.maxTare)
            /\ within(ticket[c].net, Policy.minNet, Policy.maxNet)
            /\ ticket[c].net = first.weight - second.weight

\* A cycle is marked as an orphan only once its window is really over, by the
\* clock and the durable first pass, although the scan works from a list and a
\* time that are stale by the time it writes.
OrphanIsOverdue ==
  \A c \in orphaned :
    Policy.maxElapsed > 0 /\ clock - firstPass[c].at > Policy.maxElapsed

\* The ledger's view of a cycle: an orphan counts as closed for good, also
\* after a refused pass has put it back to CALLED.
book ==
  [c \in Cycles |->
     IF status[c] = "NONE" THEN "none"
     ELSE IF status[c] = "COMPLETE" THEN "settled"
     ELSE IF c \in orphaned \/ status[c] = "PAIR_TIME_INVALID" THEN "closed"
     ELSE "open"]

Ledger == INSTANCE CycleLedger WITH NoReceipt <- None, receipt <- ticket

\* The ledger's promise: a cycle closed as an orphan, or refused for its
\* elapsed time, never settles, and a settled one is never reopened or
\* rewritten, whatever passes, calls, scans and crashes come between.
LedgerSpec == Ledger!LedgerSpec

\* An open cycle whose window is over leaves the active queue.
OverdueLeavesQueue ==
  \A c \in Cycles :
    (status[c] \in {"QUEUED", "CALLED"}
       /\ clock - firstPass[c].at > Policy.maxElapsed)
      ~> status[c] \notin {"QUEUED", "CALLED"}

\* A cycle that has been expired is out of the active queue for good.
OrphanStaysOutOfQueue ==
  \A c \in orphaned : status[c] \notin {"QUEUED", "CALLED"}
=============================================================================
