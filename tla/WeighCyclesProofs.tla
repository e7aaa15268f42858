------------------------- MODULE WeighCyclesProofs -------------------------
(***************************************************************************)
(* Proofs about WeighCycles, for every set of cycles, trucks, keys and     *)
(* weights and every pair policy.                                          *)
(*                                                                         *)
(* The heart is OrphanInv: an orphan that a refused pass has put back to   *)
(* CALLED can be found again, but only by a pass observed after the window *)
(* was over, and no such pass makes a valid pair.                          *)
(***************************************************************************)
EXTENDS WeighCycles, TLAPS

\* Every opened cycle has its first pass; exactly the complete ones a ticket.
RowInv ==
  \A c \in Cycles :
    /\ status[c] # "NONE" => firstPass[c] \in Passes
    /\ ticket[c] # None <=> status[c] = "COMPLETE"

\* The pass being recorded, and the status of the cycle it was matched with.
RecordingInv ==
  /\ recording.step # "IDLE" => recording.pass \in Passes
  /\ recording.step = "FOUND" =>
       /\ recording.cycle \in Cycles
       /\ status[recording.cycle] \in {"CALLED", "ORPHANED_FIRST_PASS"}

\* The scan works on opened cycles, from a time that has passed.
ExpiryInv ==
  /\ expiry.at <= clock
  /\ \A c \in expiry.left : status[c] # "NONE"
  /\ expiry.left # {} => Policy.maxElapsed > 0

\* What is known of a cycle that was ever expired.
OrphanInv ==
  /\ \A c \in Cycles : status[c] = "ORPHANED_FIRST_PASS" => c \in orphaned
  /\ \A c \in orphaned :
       /\ Policy.maxElapsed > 0
       /\ clock - firstPass[c].at > Policy.maxElapsed
       /\ status[c] \in {"ORPHANED_FIRST_PASS", "CALLED", "PAIR_TIME_INVALID"}
       /\ \/ status[c] # "CALLED"
          \/ recording.step = "IDLE"
          \/ recording.step = "FOUND" /\ recording.cycle # c
          \/ recording.pass.at - firstPass[c].at > Policy.maxElapsed

Inv ==
  /\ TypeOK /\ RowInv /\ RecordingInv /\ ExpiryInv /\ OrphanInv
  /\ CompletedPairIsValid

-----------------------------------------------------------------------------
(* Pair rules.                                                             *)

\* A pair the coordinator accepts is inside the window, and its net is
\* positive.
LEMMA ValidPair ==
  ASSUME NEW first \in Passes, NEW second \in Passes,
         ValidatePair(first, second, Policy) = "COMPLETE"
  PROVE  /\ elapsed(first, second) \in Nat \ {0}
         /\ net(first, second) \in Nat \ {0}
         /\ Policy.maxElapsed > 0 => elapsed(first, second) <= Policy.maxElapsed
         /\ sameTruck(first, second)
         /\ timeValid(first, second, Policy)
         /\ weightValid(first, second, Policy)
<1>1. /\ sameTruck(first, second)
      /\ timeValid(first, second, Policy)
      /\ weightValid(first, second, Policy)
  BY DEF ValidatePair
<1>2. elapsed(first, second) \in Int /\ net(first, second) \in Int
  <2>1. first.at \in Nat /\ second.at \in Nat
    BY DEF Passes
  <2>2. first.weight \in Weights /\ second.weight \in Weights
    BY DEF Passes
  <2>3. first.weight \in Int /\ second.weight \in Int
    BY <2>2, CyclesAssumption
  <2> QED
    BY <2>1, <2>3 DEF elapsed, net
<1>3. Policy.maxElapsed \in Nat
  BY CyclesAssumption DEF PairPolicy
<1> QED
  BY <1>1, <1>2, <1>3 DEF timeValid, weightValid, withinConfigured
-----------------------------------------------------------------------------
(* Steps that leave the store alone.                                       *)

\* The store unchanged, its part of the invariant and the ledger are too.
LEMMA StoreUnchanged ==
  ASSUME Inv, UNCHANGED store
  PROVE  RowInv' /\ CompletedPairIsValid' /\ UNCHANGED <<book, ticket>>
BY DEF Inv, RowInv, CompletedPairIsValid, store, book

\* Time passes: an overdue orphan stays overdue.
LEMMA TickStep ==
  ASSUME Inv, Tick
  PROVE  Inv' /\ UNCHANGED <<book, ticket>>
<1>1. clock \in Nat /\ clock' = clock + 1 /\ UNCHANGED <<store, recording, expiry>>
  BY DEF Inv, TypeOK, Tick
<1>2. TypeOK' /\ RecordingInv'
  BY <1>1 DEF Inv, TypeOK, RecordingInv, store
<1>3. ExpiryInv'
  BY <1>1 DEF Inv, TypeOK, ExpiryInv, store
<1>4. OrphanInv'
  <2>1. \A c \in orphaned : firstPass[c].at \in Nat
    BY DEF Inv, TypeOK, RowInv, OrphanInv, Passes
  <2>2. Policy.maxElapsed \in Nat
    BY CyclesAssumption DEF PairPolicy
  <2> QED
    BY <1>1, <2>1, <2>2 DEF Inv, OrphanInv, store
<1> QED
  BY <1>1, <1>2, <1>3, <1>4, StoreUnchanged DEF Inv

\* A stop of the process forgets what was in flight.
LEMMA CrashStep ==
  ASSUME Inv, Crash \/ AbortExpiry
  PROVE  Inv' /\ UNCHANGED <<book, ticket>>
<1>1. /\ UNCHANGED <<clock, store>> /\ expiry' = NotExpiring
      /\ recording' = recording \/ recording' = NotRecording
  BY DEF Crash, AbortExpiry
<1>2. TypeOK'
  BY <1>1 DEF Inv, TypeOK, store, NotExpiring, NotRecording
<1>3. RecordingInv' /\ ExpiryInv'
  BY <1>1 DEF Inv, TypeOK, RecordingInv, ExpiryInv, store, NotExpiring, NotRecording
<1>4. OrphanInv'
  BY <1>1 DEF Inv, OrphanInv, store, NotRecording
<1> QED
  BY <1>1, <1>2, <1>3, <1>4, StoreUnchanged DEF Inv

\* A pass observed now is too late for every orphan.
LEMMA ObserveSecondPassStep ==
  ASSUME Inv, NEW p \in Plates, NEW t \in Tags \cup {None}, NEW w \in Weights,
         ObserveSecondPass(p, t, w)
  PROVE  Inv' /\ UNCHANGED <<book, ticket>>
<1> DEFINE pass == [plate |-> p, tag |-> t, weight |-> w, at |-> clock]
<1>1. /\ UNCHANGED <<clock, store, expiry>>
      /\ recording' = [step |-> "OBSERVED", cycle |-> None, pass |-> pass]
  BY DEF ObserveSecondPass
<1>2. pass \in Passes /\ pass.at = clock
  BY DEF Inv, TypeOK, Passes
<1> HIDE DEF pass
<1>3. TypeOK' /\ RecordingInv' /\ ExpiryInv'
  BY <1>1, <1>2 DEF Inv, TypeOK, RecordingInv, ExpiryInv, store
<1>4. OrphanInv'
  BY <1>1, <1>2 DEF Inv, OrphanInv, store
<1> QED
  BY <1>1, <1>3, <1>4, StoreUnchanged DEF Inv

\* A cycle is found CALLED, for the pass that was observed.
LEMMA FindCalledCycleStep ==
  ASSUME Inv, FindCalledCycle
  PROVE  Inv' /\ UNCHANGED <<book, ticket>>
<1>1. UNCHANGED <<clock, store, expiry>> /\ recording.step = "OBSERVED"
  BY DEF FindCalledCycle
<1>2. CASE recording' = NotRecording
  <2>1. TypeOK' /\ RecordingInv' /\ ExpiryInv'
    BY <1>1, <1>2 DEF Inv, TypeOK, RecordingInv, ExpiryInv, store, NotRecording
  <2>2. OrphanInv'
    BY <1>1, <1>2 DEF Inv, OrphanInv, store, NotRecording
  <2> QED
    BY <1>1, <2>1, <2>2, StoreUnchanged DEF Inv
<1>3. CASE \E c \in Cycles :
             /\ calledMatches(recording.pass.plate, recording.pass.tag) = {c}
             /\ recording' = [step |-> "FOUND", pass |-> recording.pass, cycle |-> c]
  <2>1. PICK c \in Cycles :
          /\ status[c] = "CALLED"
          /\ recording' = [step |-> "FOUND", pass |-> recording.pass, cycle |-> c]
    BY <1>3 DEF calledMatches
  <2>2. /\ recording'.step = "FOUND" /\ recording'.cycle = c
        /\ recording'.pass = recording.pass
    BY <2>1 DEF Inv, TypeOK
  <2>3. TypeOK' /\ RecordingInv' /\ ExpiryInv'
    BY <1>1, <2>1, <2>2 DEF Inv, TypeOK, RecordingInv, ExpiryInv, store
  <2>4. OrphanInv'
    BY <1>1, <2>2 DEF Inv, OrphanInv, store
  <2> QED
    BY <1>1, <2>3, <2>4, StoreUnchanged DEF Inv
<1> QED
  BY <1>2, <1>3 DEF FindCalledCycle

\* A scan begins with the cycles that are open now.
LEMMA ExpireOrphansStep ==
  ASSUME Inv, ExpireOrphans
  PROVE  Inv' /\ UNCHANGED <<book, ticket>>
<1>1. /\ UNCHANGED <<clock, store, recording>> /\ Policy.maxElapsed > 0
      /\ expiry' = [at |-> clock, left |-> ListQueue]
  BY DEF ExpireOrphans
<1>2. TypeOK' /\ RecordingInv' /\ ExpiryInv'
  BY <1>1 DEF Inv, TypeOK, RecordingInv, ExpiryInv, store, ListQueue
<1>3. OrphanInv'
  BY <1>1 DEF Inv, OrphanInv, store
<1> QED
  BY <1>1, <1>2, <1>3, StoreUnchanged DEF Inv
-----------------------------------------------------------------------------
(* Steps that change the row of one cycle.                                 *)

\* A first pass opens a cycle.
LEMMA RecordFirstPassStep ==
  ASSUME Inv, NEW c \in Cycles, NEW p \in Plates, NEW t \in Tags \cup {None},
         NEW w \in Weights, RecordFirstPass(c, p, t, w)
  PROVE  Inv' /\ Ledger!Open(c)
<1> DEFINE pass == [plate |-> p, tag |-> t, weight |-> w, at |-> clock]
<1>1. /\ UNCHANGED <<clock, recording, expiry, ticket, orphaned>>
      /\ status[c] = "NONE" /\ recording = NotRecording
      /\ status' = [status EXCEPT ![c] = "QUEUED"]
      /\ firstPass' = [firstPass EXCEPT ![c] = pass]
  BY DEF RecordFirstPass, OpenCycle
<1>2. pass \in Passes
  BY DEF Inv, TypeOK, Passes
<1> HIDE DEF pass
<1>3. c \notin orphaned /\ ticket[c] = None
  BY <1>1 DEF Inv, OrphanInv, RowInv
<1>4. TypeOK'
  BY <1>1, <1>2 DEF Inv, TypeOK, Statuses
<1>5. RowInv' /\ RecordingInv' /\ ExpiryInv'
  BY <1>1, <1>2, <1>3
     DEF Inv, TypeOK, RowInv, RecordingInv, ExpiryInv, NotRecording
<1>6. OrphanInv'
  BY <1>1, <1>3 DEF Inv, TypeOK, OrphanInv
<1>7. CompletedPairIsValid'
  BY <1>1, <1>3 DEF Inv, TypeOK, CompletedPairIsValid
<1>8. Ledger!Open(c)
  <2>1. book[c] = "none" /\ book' = [book EXCEPT ![c] = "open"]
    BY <1>1, <1>3 DEF Inv, TypeOK, book
  <2> QED
    BY <1>1, <2>1 DEF Ledger!Open
<1> QED
  BY <1>4, <1>5, <1>6, <1>7, <1>8 DEF Inv

\* A queued cycle is called: it is open before and after.
LEMMA CallStep ==
  ASSUME Inv, NEW c \in Cycles, Call(c)
  PROVE  Inv' /\ UNCHANGED <<book, ticket>>
<1>1. /\ UNCHANGED <<clock, recording, expiry, firstPass, ticket, orphaned>>
      /\ status[c] = "QUEUED" /\ status' = [status EXCEPT ![c] = "CALLED"]
  BY DEF Call, CallCycle
<1>2. c \notin orphaned
  BY <1>1 DEF Inv, OrphanInv
<1>3. TypeOK' /\ RowInv' /\ RecordingInv' /\ ExpiryInv'
  BY <1>1 DEF Inv, TypeOK, Statuses, RowInv, RecordingInv, ExpiryInv
<1>4. OrphanInv'
  BY <1>1, <1>2 DEF Inv, TypeOK, OrphanInv
<1>5. CompletedPairIsValid'
  BY <1>1 DEF Inv, TypeOK, CompletedPairIsValid
<1>6. book' = book
  BY <1>1, <1>2 DEF Inv, TypeOK, book
<1> QED
  BY <1>1, <1>3, <1>4, <1>5, <1>6 DEF Inv

\* The end of a second pass: nothing is being recorded any more, so it is
\* enough that the rows stay well formed and the orphans known.
LEMMA MarkStep ==
  ASSUME Inv, NEW c \in Cycles, NEW new \in Statuses \ {"NONE", "COMPLETE"},
         MarkCycleStatus(c, new), status[c] # "NONE",
         UNCHANGED clock
  PROVE  /\ RowInv' /\ CompletedPairIsValid'
         /\ status' \in [Cycles -> Statuses] /\ orphaned' \subseteq Cycles
         /\ \A d \in Cycles : status[d] # "NONE" => status'[d] # "NONE"
<1>1. /\ status[c] # "COMPLETE"
      /\ status' = [status EXCEPT ![c] = new]
      /\ UNCHANGED <<firstPass, ticket>>
      /\ orphaned' \in {orphaned, orphaned \cup {c}}
  BY DEF MarkCycleStatus
<1>2. RowInv' /\ CompletedPairIsValid'
  BY <1>1 DEF Inv, TypeOK, RowInv, CompletedPairIsValid
<1> QED
  BY <1>1, <1>2 DEF Inv, TypeOK
\* A valid pair completes a cycle that was never expired.
LEMMA CompleteStep ==
  ASSUME Inv, recording.step = "FOUND", recording' = NotRecording,
         UNCHANGED <<clock, expiry>>,
         ValidatePair(firstPass[recording.cycle], recording.pass, Policy)
           = "COMPLETE",
         CompleteCycle(recording.cycle, recording.pass)
  PROVE  Inv' /\ \E c \in Cycles : Ledger!Settle(c)
<1> DEFINE c == recording.cycle
           first == firstPass[c]
           second == recording.pass
           final == [second |-> second, gross |-> first.weight,
                     tare |-> second.weight, net |-> net(first, second),
                     elapsed |-> elapsed(first, second)]
<1>1. /\ c \in Cycles /\ first \in Passes /\ second \in Passes
      /\ status[c] = "CALLED"
      /\ status' = [status EXCEPT ![c] = "COMPLETE"]
      /\ ticket' = [ticket EXCEPT ![c] = final]
      /\ UNCHANGED <<firstPass, orphaned>>
  BY DEF CompleteCycle, Inv, RecordingInv, RowInv
<1>2. /\ elapsed(first, second) \in Nat \ {0}
      /\ net(first, second) \in Nat \ {0}
      /\ Policy.maxElapsed > 0 => elapsed(first, second) <= Policy.maxElapsed
      /\ sameTruck(first, second)
      /\ timeValid(first, second, Policy)
      /\ weightValid(first, second, Policy)
  BY <1>1, ValidPair
<1>3. first.at \in Nat /\ second.at \in Nat
  BY <1>1 DEF Passes
<1>4. Policy \in PairPolicy /\ Policy.maxElapsed \in Nat
  BY CyclesAssumption DEF PairPolicy
<1>5. c \notin orphaned
  <2> SUFFICES ASSUME c \in orphaned
               PROVE  FALSE
    OBVIOUS
  <2>1. /\ second.at - first.at > Policy.maxElapsed
        /\ Policy.maxElapsed > 0
    BY <1>1 DEF Inv, OrphanInv
  <2> QED
    BY <1>2, <1>3, <1>4, <2>1 DEF elapsed
<1>6. final \in Tickets /\ final # None
  BY <1>1, <1>2, NoneIsNoTicket DEF Tickets, Passes
<1>7. ticket[c] = None
  BY <1>1 DEF Inv, RowInv
<1>8. ticket'[c] = final
  BY <1>1 DEF Inv, TypeOK
<1>9. /\ first.weight \in Int /\ second.weight \in Int
      /\ final.net = first.weight - second.weight
      /\ final.gross = first.weight /\ final.tare = second.weight
      /\ final.second = second
  BY <1>1, CyclesAssumption DEF Passes, net
<1>10. CompletedPairIsValid'
  <2>1. ASSUME NEW d \in Cycles, d # c
        PROVE  /\ status'[d] = status[d] /\ ticket'[d] = ticket[d]
               /\ firstPass'[d] = firstPass[d]
    BY <1>1, <2>1 DEF Inv, TypeOK
  <2>2. status'[c] = "COMPLETE" /\ firstPass'[c] = first
    BY <1>1 DEF Inv, TypeOK
  <2>3. /\ CycleIdentity[first.plate] = CycleIdentity[second.plate]
        /\ first.tag = None \/ second.tag \in {first.tag, None}
    BY <1>2 DEF sameTruck
  <2>4. second.at > first.at
    BY <1>2, <1>3 DEF elapsed
  <2>5. /\ withinConfigured(second.at - first.at, Policy.minElapsed, Policy.maxElapsed)
        /\ withinConfigured(first.weight, Policy.minGross, Policy.maxGross)
        /\ withinConfigured(second.weight, Policy.minTare, Policy.maxTare)
        /\ withinConfigured(final.net, Policy.minNet, Policy.maxNet)
    BY <1>2, <1>9 DEF timeValid, weightValid, elapsed, net
  <2>6. \A v \in Int, min \in Nat, max \in Nat :
          withinConfigured(v, min, max)
            => (min > 0 => v >= min) /\ (max > 0 => v <= max)
    BY DEF withinConfigured
  <2>7. /\ Policy.minElapsed \in Nat /\ Policy.minGross \in Nat
        /\ Policy.minTare \in Nat /\ Policy.minNet \in Nat
        /\ Policy.maxElapsed \in Nat /\ Policy.maxGross \in Nat
        /\ Policy.maxTare \in Nat /\ Policy.maxNet \in Nat
    BY <1>4 DEF PairPolicy
  <2>8. final.net \in Int /\ second.at - first.at \in Int
    BY <1>3, <1>9
  <2> HIDE DEF final, first, second, c
  <2>9. /\ ticket'[c] # None /\ ticket'[c].second = second
        /\ ticket'[c].net = final.net
    BY <1>6, <1>8, <1>9
  <2>10. /\ status'[c] = "COMPLETE" <=> ticket'[c] # None
         /\ ticket'[c] # None =>
           LET one == firstPass'[c]
               two == ticket'[c].second
               within(v, min, max) ==
                 (min > 0 => v >= min) /\ (max > 0 => v <= max)
           IN /\ CycleIdentity[one.plate] = CycleIdentity[two.plate]
              /\ one.tag = None \/ two.tag \in {one.tag, None}
              /\ two.at > one.at
              /\ within(two.at - one.at, Policy.minElapsed, Policy.maxElapsed)
              /\ within(one.weight, Policy.minGross, Policy.maxGross)
              /\ within(two.weight, Policy.minTare, Policy.maxTare)
              /\ within(ticket'[c].net, Policy.minNet, Policy.maxNet)
              /\ ticket'[c].net = one.weight - two.weight
    BY <1>9, <2>2, <2>3, <2>4, <2>5, <2>6, <2>7, <2>8, <2>9
  <2> QED
    BY <2>1, <2>10 DEF Inv, CompletedPairIsValid
<1> HIDE DEF final, first, second
<1>11. TypeOK' /\ RowInv' /\ RecordingInv' /\ ExpiryInv'
  BY <1>1, <1>6, <1>8
     DEF Inv, TypeOK, Statuses, RowInv, RecordingInv, ExpiryInv, NotRecording
<1>12. OrphanInv'
  BY <1>1, <1>5 DEF Inv, TypeOK, OrphanInv, NotRecording
<1>13. Ledger!Settle(c)
  <2>1. book[c] = "open" /\ book' = [book EXCEPT ![c] = "settled"]
    BY <1>1, <1>5 DEF Inv, TypeOK, book
  <2>2. ticket' = [ticket EXCEPT ![c] = ticket'[c]]
    BY <1>1, <1>8
  <2>3. /\ ticket'[c].net = ticket'[c].gross - ticket'[c].tare
        /\ ticket'[c].net > 0
    BY <1>6, <1>8, <1>9 DEF Tickets
  <2> QED
    BY <1>6, <1>7, <1>8, <2>1, <2>2, <2>3 DEF Ledger!Settle
<1> QED
  BY <1>1, <1>10, <1>11, <1>12, <1>13 DEF Inv
\* The ledger's step, or no step of the ledger.
LedgerStep == Ledger!LedgerNext \/ UNCHANGED <<book, ticket>>

\* A refused pass closes its cycle, or puts it back to CALLED.
LEMMA RefuseStep ==
  ASSUME Inv, recording.step = "FOUND", recording' = NotRecording,
         UNCHANGED <<clock, expiry>>,
         NEW new \in {"PAIR_TIME_INVALID", "CALLED"},
         MarkCycleStatus(recording.cycle, new)
  PROVE  Inv' /\ LedgerStep
<1> DEFINE c == recording.cycle
<1>1. /\ c \in Cycles /\ status[c] \in {"CALLED", "ORPHANED_FIRST_PASS"}
      /\ status' = [status EXCEPT ![c] = new]
      /\ UNCHANGED <<firstPass, ticket, orphaned>>
  BY DEF Inv, RecordingInv, MarkCycleStatus
<1>2. /\ RowInv' /\ CompletedPairIsValid'
      /\ status' \in [Cycles -> Statuses]
      /\ \A d \in Cycles : status[d] # "NONE" => status'[d] # "NONE"
  BY <1>1, MarkStep DEF Statuses
<1>3. TypeOK' /\ RecordingInv' /\ ExpiryInv'
  BY <1>1, <1>2 DEF Inv, TypeOK, RecordingInv, ExpiryInv, NotRecording
<1>4. OrphanInv'
  BY <1>1 DEF Inv, TypeOK, OrphanInv, NotRecording
<1>5. LedgerStep
  <2>1. CASE c \notin orphaned /\ new = "PAIR_TIME_INVALID"
    <3>1. book[c] = "open" /\ book' = [book EXCEPT ![c] = "closed"]
      BY <1>1, <2>1 DEF Inv, TypeOK, OrphanInv, book
    <3> QED
      BY <1>1, <3>1 DEF LedgerStep, Ledger!LedgerNext, Ledger!Close
  <2>2. CASE c \in orphaned \/ new = "CALLED"
    <3>1. book' = book
      BY <1>1, <2>2 DEF Inv, TypeOK, OrphanInv, book
    <3> QED
      BY <1>1, <3>1 DEF LedgerStep
  <2> QED
    BY <2>1, <2>2
<1> QED
  BY <1>2, <1>3, <1>4, <1>5 DEF Inv

\* The end of a second pass completes, refuses or changes nothing.
LEMMA RecordSecondPassStep ==
  ASSUME Inv, RecordSecondPass
  PROVE  Inv' /\ LedgerStep
<1>1. /\ recording.step = "FOUND" /\ recording' = NotRecording
      /\ UNCHANGED <<clock, expiry>>
      /\ settlePair(recording.cycle, recording.pass)
  BY DEF RecordSecondPass
<1>2. CASE /\ ValidatePair(firstPass[recording.cycle], recording.pass, Policy)
                = "COMPLETE"
           /\ CompleteCycle(recording.cycle, recording.pass)
  BY <1>1, <1>2, CompleteStep DEF LedgerStep, Ledger!LedgerNext
<1>3. CASE \E new \in {"PAIR_TIME_INVALID", "CALLED"} :
             MarkCycleStatus(recording.cycle, new)
  BY <1>1, <1>3, RefuseStep
<1>4. CASE UNCHANGED store
  <2>1. TypeOK' /\ RecordingInv' /\ ExpiryInv'
    BY <1>1, <1>4 DEF Inv, TypeOK, RecordingInv, ExpiryInv, store, NotRecording
  <2>2. OrphanInv'
    BY <1>1, <1>4 DEF Inv, OrphanInv, store, NotRecording
  <2> QED
    BY <1>1, <1>4, <2>1, <2>2, StoreUnchanged DEF Inv, LedgerStep
<1> QED
  BY <1>1, <1>2, <1>3, <1>4 DEF settlePair

\* The scan marks a cycle whose window is over, or passes it by.
LEMMA ExpireOneStep ==
  ASSUME Inv, NEW c \in Cycles, ExpireOne(c)
  PROVE  Inv' /\ LedgerStep
<1>1. /\ UNCHANGED <<clock, recording>> /\ c \in expiry.left
      /\ expiry' \in {NotExpiring, [expiry EXCEPT !.left = expiry.left \ {c}]}
      /\ status[c] # "NONE" /\ Policy.maxElapsed > 0
      /\ firstPass[c] \in Passes
  BY DEF ExpireOne, doneWith, Inv, ExpiryInv, RowInv
<1>2. /\ expiry' \in [at : Nat, left : SUBSET Cycles]
      /\ expiry'.at <= clock /\ expiry'.left \subseteq expiry.left
  BY <1>1 DEF Inv, TypeOK, ExpiryInv, NotExpiring
<1>3. CASE UNCHANGED store
  <2>1. TypeOK' /\ RecordingInv' /\ ExpiryInv'
    BY <1>1, <1>2, <1>3 DEF Inv, TypeOK, RecordingInv, ExpiryInv, store
  <2>2. OrphanInv'
    BY <1>1, <1>3 DEF Inv, OrphanInv, store
  <2> QED
    BY <1>1, <1>3, <2>1, <2>2, StoreUnchanged DEF Inv, LedgerStep
<1>4. CASE overdue(c) /\ MarkCycleStatus(c, "ORPHANED_FIRST_PASS")
  <2>1. /\ status[c] # "COMPLETE"
        /\ status' = [status EXCEPT ![c] = "ORPHANED_FIRST_PASS"]
        /\ orphaned' = orphaned \cup {c}
        /\ UNCHANGED <<firstPass, ticket>>
    BY <1>4 DEF MarkCycleStatus
  <2>2. clock - firstPass[c].at > Policy.maxElapsed
    <3>1. /\ clock \in Nat /\ expiry.at \in Nat /\ expiry.at <= clock
          /\ firstPass[c].at \in Nat /\ Policy.maxElapsed \in Nat
      BY <1>1, CyclesAssumption DEF Inv, TypeOK, ExpiryInv, Passes, PairPolicy
    <3>2. expiry.at - firstPass[c].at > Policy.maxElapsed
      BY <1>4 DEF overdue
    <3> QED
      BY <3>1, <3>2
  <2>3. /\ RowInv' /\ CompletedPairIsValid'
        /\ status' \in [Cycles -> Statuses] /\ orphaned' \subseteq Cycles
        /\ \A d \in Cycles : status[d] # "NONE" => status'[d] # "NONE"
    BY <1>1, <1>4, MarkStep DEF Statuses
  <2>4. TypeOK' /\ ExpiryInv'
    BY <1>1, <1>2, <2>1, <2>3 DEF Inv, TypeOK, ExpiryInv
  <2>5. RecordingInv'
    BY <1>1, <2>1 DEF Inv, TypeOK, RecordingInv
  <2>6. OrphanInv'
    BY <1>1, <2>1, <2>2 DEF Inv, TypeOK, OrphanInv
  <2>7. LedgerStep
    <3>1. CASE c \in orphaned \/ status[c] = "PAIR_TIME_INVALID"
      <4>1. book' = book
        BY <1>1, <2>1, <3>1 DEF Inv, TypeOK, book
      <4> QED
        BY <2>1, <4>1 DEF LedgerStep
    <3>2. CASE c \notin orphaned /\ status[c] # "PAIR_TIME_INVALID"
      <4>1. book[c] = "open" /\ book' = [book EXCEPT ![c] = "closed"]
        BY <1>1, <2>1, <3>2 DEF Inv, TypeOK, book
      <4> QED
        BY <2>1, <4>1 DEF LedgerStep, Ledger!LedgerNext, Ledger!Close
    <3> QED
      BY <3>1, <3>2
  <2> QED
    BY <2>3, <2>4, <2>5, <2>6, <2>7 DEF Inv
<1> QED
  BY <1>3, <1>4 DEF ExpireOne

-----------------------------------------------------------------------------
(* The theorems.                                                           *)

\* Nothing is open, recorded or scanned at the start.
LEMMA InitInv == Init => Inv /\ Ledger!LedgerInit
<1> SUFFICES ASSUME Init
             PROVE  Inv /\ Ledger!LedgerInit
  OBVIOUS
<1>1. TypeOK
  BY DEF Init, TypeOK, Statuses, NotRecording, NotExpiring
<1>2. RowInv /\ RecordingInv /\ ExpiryInv /\ OrphanInv
  BY DEF Init, RowInv, RecordingInv, ExpiryInv, OrphanInv, NotRecording,
         NotExpiring
<1>3. CompletedPairIsValid
  BY DEF Init, CompletedPairIsValid
<1>4. Ledger!LedgerInit
  BY DEF Init, Ledger!LedgerInit, book
<1> QED
  BY <1>1, <1>2, <1>3, <1>4 DEF Inv

\* Every step preserves the invariant and is a step of the ledger or none.
LEMMA NextInv == Inv /\ [Next]_vars => Inv' /\ LedgerStep
<1> SUFFICES ASSUME Inv, [Next]_vars
             PROVE  Inv' /\ LedgerStep
  OBVIOUS
<1>1. CASE \E c \in Cycles, p \in Plates, t \in Tags \cup {None}, w \in Weights :
             RecordFirstPass(c, p, t, w)
  BY <1>1, RecordFirstPassStep DEF LedgerStep, Ledger!LedgerNext
<1>2. CASE \E c \in Cycles : Call(c)
  BY <1>2, CallStep DEF LedgerStep
<1>3. CASE \E p \in Plates, t \in Tags \cup {None}, w \in Weights :
             ObserveSecondPass(p, t, w)
  BY <1>3, ObserveSecondPassStep DEF LedgerStep
<1>4. CASE FindCalledCycle
  BY <1>4, FindCalledCycleStep DEF LedgerStep
<1>5. CASE RecordSecondPass
  BY <1>5, RecordSecondPassStep
<1>6. CASE ExpireOrphans
  BY <1>6, ExpireOrphansStep DEF LedgerStep
<1>7. CASE \E c \in Cycles : ExpireOne(c)
  BY <1>7, ExpireOneStep
<1>8. CASE AbortExpiry \/ Crash
  BY <1>8, CrashStep DEF LedgerStep
<1>9. CASE Tick
  BY <1>9, TickStep DEF LedgerStep
<1>10. CASE UNCHANGED vars
  <2>1. UNCHANGED <<clock, status, firstPass, ticket, recording, expiry, orphaned>>
    BY <1>10 DEF vars, store
  <2>2. /\ TypeOK' /\ RowInv' /\ RecordingInv' /\ ExpiryInv' /\ OrphanInv'
        /\ CompletedPairIsValid'
    BY <2>1 DEF Inv, TypeOK, RowInv, RecordingInv, ExpiryInv, OrphanInv,
                CompletedPairIsValid
  <2> QED
    BY <2>1, <2>2 DEF Inv, LedgerStep, book
<1> QED
  BY <1>1, <1>2, <1>3, <1>4, <1>5, <1>6, <1>7, <1>8, <1>9, <1>10 DEF Next

\* The invariant holds throughout.
THEOREM InvHolds == Spec => []Inv
<1>1. Inv /\ [Next]_vars => Inv'
  BY NextInv
<1> QED
  BY <1>1, InitInv, PTL DEF Spec

\* Every durable row, pass in flight and scan has its type throughout.
THEOREM TypeCorrect == Spec => []TypeOK
<1>1. Inv => TypeOK
  BY DEF Inv
<1> QED
  BY <1>1, InvHolds, PTL

\* Exactly the complete cycles have a ticket, and every ticket states a valid
\* pair of one truck.
THEOREM TicketSafety == Spec => []CompletedPairIsValid
<1>1. Inv => CompletedPairIsValid
  BY DEF Inv
<1> QED
  BY <1>1, InvHolds, PTL

\* No cycle is orphaned before its window is over.
THEOREM OrphanSafety == Spec => []OrphanIsOverdue
<1>1. Inv => OrphanIsOverdue
  BY DEF Inv, OrphanInv, OrphanIsOverdue
<1> QED
  BY <1>1, InvHolds, PTL

\* The station implements the ledger: what is closed never settles, what is
\* settled is final.
THEOREM LedgerImplemented == Spec => LedgerSpec
<1>1. Inv /\ [Next]_vars => [Ledger!LedgerNext]_<<book, ticket>>
  BY NextInv DEF LedgerStep
<1>2. Init => Ledger!LedgerInit
  BY InitInv
<1> QED
  BY <1>1, <1>2, InvHolds, PTL
     DEF Spec, LedgerSpec, Ledger!LedgerSpec, Ledger!ledgerVars
=============================================================================
