------------------------- MODULE CentralSyncProofs -------------------------
(***************************************************************************)
(* Proofs about CentralSync: at-least-once delivery, for any number of     *)
(* tickets and any batch size, whatever Central answers and whatever is    *)
(* lost.                                                                   *)
(***************************************************************************)
EXTENDS CentralSync, TLAPS

\* While an acknowledgement is due, Central has the item: this is what the
\* 2xx answer tells the worker, and what AckedIsReceived rests on.
AckInv == worker.step = "ACK" => current \in received

\* Everything the worker still has to send or acknowledge is pending: an
\* acknowledged ticket is not sent again.
OnlyPendingInFlight == \A i \in worker.left : queue[i] = "PENDING"

Inv == TypeOK /\ AckInv /\ AckedIsReceived /\ OnlyPendingInFlight

-----------------------------------------------------------------------------
(* Lemmas.                                                                 *)

\* The backoff is a number of time units: it has seven possible values.
LEMMA BackoffType ==
  ASSUME NEW n \in Nat
  PROVE  backoff(n + 1) \in Nat
<1>1. /\ 2 ^ 0 = 1 /\ 2 ^ 1 = 2 /\ 2 ^ 2 = 4 /\ 2 ^ 3 = 8
      /\ 2 ^ 4 = 16 /\ 2 ^ 5 = 32 /\ 2 ^ 6 = 64
  BY SMT
<1>2. DEFINE e == IF n + 1 - 1 < 6 THEN n + 1 - 1 ELSE 6
<1>3. e \in 0..6
  OBVIOUS
<1> HIDE DEF e
<1>4. e = 0 \/ e = 1 \/ e = 2 \/ e = 3 \/ e = 4 \/ e = 5 \/ e = 6
  BY <1>3
<1>5. 2 ^ e \in Nat
  <2>1. 2 ^ e \in {2 ^ 0, 2 ^ 1, 2 ^ 2, 2 ^ 3, 2 ^ 4, 2 ^ 5, 2 ^ 6}
    BY <1>4, Zenon
  <2>2. {2 ^ 0, 2 ^ 1, 2 ^ 2, 2 ^ 3, 2 ^ 4, 2 ^ 5, 2 ^ 6} \subseteq Nat
    BY <1>1, SMT
  <2> QED
    BY <2>1, <2>2, Zenon
<1>6. backoff(n + 1) = IF 2 ^ e > 60 THEN 60 ELSE 2 ^ e
  BY DEF backoff, e
<1> QED
  BY <1>5, <1>6

\* After an item the worker is idle or goes on with the others.
LEMMA AfterCurrent ==
  ASSUME TypeOK, worker' = afterCurrent
  PROVE  /\ worker' \in [step : {"IDLE", "POST", "ACK"}, left : SUBSET Items]
         /\ worker'.step = "IDLE" <=> worker'.left = {}
         /\ worker'.step # "ACK"
         /\ worker'.left = worker.left \ {current}
<1> DEFINE rest == worker.left \ {current}
<1>1. rest \subseteq Items
  BY DEF TypeOK
<1>2. worker' = IF rest = {} THEN Idle ELSE [step |-> "POST", left |-> rest]
  BY DEF afterCurrent
<1> QED
  BY <1>1, <1>2 DEF Idle

\* A failed attempt is counted and put off, or neither.
LEMMA MarkType ==
  ASSUME TypeOK, MarkSyncAttempt
  PROVE  attempts' \in [Items -> Nat] /\ nextAttempt' \in [Items -> Nat]
<1>1. CASE UNCHANGED <<attempts, nextAttempt>>
  BY <1>1 DEF TypeOK
<1>2. CASE /\ attempts' = [attempts EXCEPT
                 ![current] = IF @ < MaxAttempts THEN @ + 1 ELSE @]
           /\ nextAttempt' = [nextAttempt EXCEPT
                 ![current] = clock + backoff(attempts[current] + 1)]
  <2>1. attempts' \in [Items -> Nat]
    <3>1. current \in Items =>
            (IF attempts[current] < MaxAttempts THEN attempts[current] + 1
             ELSE attempts[current]) \in Nat
      BY DEF TypeOK
    <3> QED
      BY <1>2, <3>1 DEF TypeOK
  <2>2. current \in Items => clock + backoff(attempts[current] + 1) \in Nat
    BY BackoffType DEF TypeOK
  <2> QED
    BY <1>2, <2>1, <2>2 DEF TypeOK
<1> QED
  BY <1>1, <1>2 DEF MarkSyncAttempt

-----------------------------------------------------------------------------
(* The invariant.                                                          *)

LEMMA InitInv == Init => Inv
  BY SyncAssumption
     DEF Init, Inv, TypeOK, AckInv, AckedIsReceived, OnlyPendingInFlight, Idle

\* A completed ticket is new to the queue, so not in flight.
LEMMA EnqueueInv ==
  ASSUME Inv, NEW i \in Items, Enqueue(i)
  PROVE  Inv'
<1>1. TypeOK'
  BY DEF Inv, TypeOK, Enqueue
<1>2. AckInv'
  BY DEF Inv, AckInv, Enqueue, current
<1>3. AckedIsReceived'
  BY DEF Inv, TypeOK, AckedIsReceived, Enqueue
<1>4. OnlyPendingInFlight'
  BY DEF Inv, TypeOK, OnlyPendingInFlight, Enqueue
<1> QED
  BY <1>1, <1>2, <1>3, <1>4 DEF Inv

LEMMA syncOnceInv ==
  ASSUME Inv, syncOnce
  PROVE  Inv'
<1>1. PendingSync \subseteq Pending /\ Pending \subseteq Items
  BY DEF PendingSync, Pending
<1>2. TypeOK'
  BY <1>1 DEF Inv, TypeOK, syncOnce
<1>3. AckInv'
  BY DEF AckInv, syncOnce
<1>4. AckedIsReceived'
  BY DEF Inv, AckedIsReceived, syncOnce
<1>5. OnlyPendingInFlight'
  BY <1>1 DEF OnlyPendingInFlight, syncOnce, Pending
<1> QED
  BY <1>2, <1>3, <1>4, <1>5 DEF Inv

\* A POST changes no row of the queue, and Central forgets nothing.
LEMMA PostInv ==
  ASSUME Inv, NEW i \in Items, Post(i)
  PROVE  Inv'
<1>1. received \subseteq received' /\ received' \subseteq Items
  BY DEF Inv, TypeOK, Post, postAccepted, postFailed
<1>2. /\ worker' \in [step : {"IDLE", "POST", "ACK"}, left : SUBSET Items]
      /\ worker'.step = "IDLE" <=> worker'.left = {}
      /\ worker'.left \subseteq worker.left
      /\ AckInv'
  <2>1. CASE postAccepted
    BY <2>1 DEF Inv, TypeOK, AckInv, Post, postAccepted, current
  <2>2. CASE postFailed
    BY <2>2, AfterCurrent DEF Inv, AckInv, postFailed
  <2> QED
    BY <2>1, <2>2 DEF Post
<1>3. attempts' \in [Items -> Nat] /\ nextAttempt' \in [Items -> Nat]
  BY MarkType DEF Inv, TypeOK, Post, postAccepted, postFailed
<1>4. TypeOK'
  BY <1>1, <1>2, <1>3 DEF Inv, TypeOK, Post
<1>5. AckedIsReceived'
  BY <1>1 DEF Inv, AckedIsReceived, Post
<1>6. OnlyPendingInFlight'
  BY <1>2 DEF Inv, OnlyPendingInFlight, Post
<1> QED
  BY <1>2, <1>4, <1>5, <1>6 DEF Inv

\* The item acknowledged is one Central has, and it leaves the list.
LEMMA AckSyncInv ==
  ASSUME Inv, AckSync
  PROVE  Inv'
<1>1. /\ worker' \in [step : {"IDLE", "POST", "ACK"}, left : SUBSET Items]
      /\ worker'.step = "IDLE" <=> worker'.left = {}
      /\ worker'.step # "ACK"
      /\ worker'.left = worker.left \ {current}
  BY AfterCurrent DEF Inv, AckSync
<1>2. TypeOK'
  BY <1>1 DEF Inv, TypeOK, AckSync, acknowledge
<1>3. AckInv'
  BY <1>1 DEF AckInv
<1>4. AckedIsReceived'
  BY DEF Inv, TypeOK, AckInv, AckedIsReceived, AckSync, acknowledge
<1>5. OnlyPendingInFlight'
  BY <1>1 DEF Inv, TypeOK, OnlyPendingInFlight, AckSync, acknowledge
<1> QED
  BY <1>2, <1>3, <1>4, <1>5 DEF Inv

\* Dropping the list breaks nothing: the queue is durable.
LEMMA DropInv ==
  ASSUME Inv, worker' = Idle,
         UNCHANGED <<clock, queue, attempts, nextAttempt, received>>
  PROVE  Inv'
  BY DEF Inv, TypeOK, AckInv, AckedIsReceived, OnlyPendingInFlight, Idle

LEMMA TickInv ==
  ASSUME Inv, Tick
  PROVE  Inv'
  BY DEF Inv, TypeOK, AckInv, AckedIsReceived, OnlyPendingInFlight, Tick,
         current

LEMMA NextInv == Inv /\ [Next]_vars => Inv'
<1> SUFFICES ASSUME Inv, [Next]_vars
             PROVE  Inv'
  OBVIOUS
<1>1. CASE \E i \in Items : Enqueue(i)
  BY <1>1, EnqueueInv
<1>2. CASE syncOnce
  BY <1>2, syncOnceInv
<1>3. CASE \E i \in Items : Post(i)
  BY <1>3, PostInv
<1>4. CASE AckSync
  BY <1>4, AckSyncInv
<1>5. CASE AckFails \/ Crash
  BY <1>5, DropInv DEF AckFails, Crash
<1>6. CASE Tick
  BY <1>6, TickInv
<1>7. CASE UNCHANGED vars
  BY <1>7 DEF Inv, TypeOK, AckInv, AckedIsReceived, OnlyPendingInFlight,
              current, vars
<1> QED
  BY <1>1, <1>2, <1>3, <1>4, <1>5, <1>6, <1>7 DEF Next

-----------------------------------------------------------------------------
(* The theorems.                                                           *)

\* The invariant holds throughout.
THEOREM InvHolds == Spec => []Inv
  BY InitInv, NextInv, PTL DEF Spec

\* Every row of the queue and the worker's list have their type throughout.
THEOREM TypeCorrect == Spec => []TypeOK
<1>1. Inv => TypeOK
  BY DEF Inv
<1> QED
  BY <1>1, InvHolds, PTL

\* No ticket is lost: what the station ticks off, Central has accepted.
THEOREM NoTicketLost == Spec => []AckedIsReceived
<1>1. Inv => AckedIsReceived
  BY DEF Inv
<1> QED
  BY <1>1, InvHolds, PTL

\* The worker never holds an acknowledged ticket in its list.
THEOREM NoResend == Spec => []OnlyPendingInFlight
<1>1. Inv => OnlyPendingInFlight
  BY DEF Inv
<1> QED
  BY <1>1, InvHolds, PTL
=============================================================================
