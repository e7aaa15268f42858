---------------------------- MODULE CentralSync ----------------------------
(***************************************************************************)
(* Delivery of completed tickets to Central: the worker of                 *)
(* internal/centralsync/worker.go over the sync_queue table of             *)
(* internal/adapters/sqlitestore/store.go, with Central as environment.    *)
(*                                                                         *)
(* One worker runs one syncOnce at a time: it lists pending items, POSTs   *)
(* them in id order, and acknowledges each one Central answered with 2xx.  *)
(* A POST can reach Central although the worker sees an error (a lost      *)
(* answer), and the process can stop between any two steps.                *)
(*                                                                         *)
(* Data abstractions.  An item is its row id.  An acknowledged row and the *)
(* ticket's synced_at are written by one SQL transaction.  The unit of     *)
(* time is the first backoff, 5 seconds.  Audit records, whose failures    *)
(* are ignored here, the worker's status report and the heartbeat are left *)
(* out.                                                                    *)
(***************************************************************************)
EXTENDS Integers, FiniteSets, FiniteSetsExt

CONSTANTS
  MaxItems,     \* bound: tickets completed
  Batch,        \* most items one syncOnce lists
  Refused,      \* items Central answers with an error, however often asked
  MaxAttempts,  \* bound: attempts are counted up to here
  MaxClock      \* bound: the wall clock

ASSUME SyncAssumption ==
  /\ MaxItems \in Nat /\ Batch \in Nat \ {0} /\ MaxAttempts \in Nat \ {0}
  /\ MaxClock \in Nat /\ Refused \subseteq 1..MaxItems

Items == 1..MaxItems

VARIABLES
  clock,
  queue,        \* per item: "NONE", "PENDING" or "ACKED"
  attempts,     \* per item: attempt_count
  nextAttempt,  \* per item: next_attempt_at
  worker,       \* the syncOnce in progress: its step and the items left
  received      \* the items Central has accepted (environment)

vars == <<clock, queue, attempts, nextAttempt, worker, received>>

Idle == [step |-> "IDLE", left |-> {}]

TypeOK ==
  /\ clock \in Nat
  /\ queue \in [Items -> {"NONE", "PENDING", "ACKED"}]
  /\ attempts \in [Items -> Nat]
  /\ nextAttempt \in [Items -> Nat]
  /\ worker \in [step : {"IDLE", "POST", "ACK"}, left : SUBSET Items]
  /\ received \subseteq Items
  /\ worker.step = "IDLE" <=> worker.left = {}

Init ==
  /\ clock = 0
  /\ queue = [i \in Items |-> "NONE"]
  /\ attempts = [i \in Items |-> 0]
  /\ nextAttempt = [i \in Items |-> 0]
  /\ worker = Idle
  /\ received = {}

Pending == {i \in Items : queue[i] = "PENDING"}

\* The pending items with the lowest ids; next_attempt_at is not consulted.
PendingSync == {i \in Pending : Cardinality({j \in Pending : j < i}) < Batch}

\* Doubles from one unit, six times at most, up to five minutes.
backoff(attempt) ==
  LET d == 2 ^ (IF attempt - 1 < 6 THEN attempt - 1 ELSE 6)
  IN IF d > 60 THEN 60 ELSE d

current == Min(worker.left)

\* Mutant: the worker does not return when its list is done.
afterCurrentPosting == [step |-> "POST", left |-> worker.left \ {current}]

afterCurrent ==
  LET left == worker.left \ {current} IN
  IF left = {} THEN Idle ELSE [step |-> "POST", left |-> left]

\* CompleteCycle's insert: ids ascend.
Enqueue(i) ==
  /\ queue[i] = "NONE" /\ \A j \in Items : j < i => queue[j] # "NONE"
  /\ queue' = [queue EXCEPT ![i] = "PENDING"]
  /\ nextAttempt' = [nextAttempt EXCEPT ![i] = clock]
  /\ UNCHANGED <<clock, attempts, worker, received>>

syncOnce ==
  /\ worker = Idle
  /\ PendingSync # {}
  /\ worker' = [step |-> "POST", left |-> PendingSync]
  /\ UNCHANGED <<clock, queue, attempts, nextAttempt, received>>

\* Central accepts the ticket and the worker sees a 2xx answer.
postAccepted ==
  /\ current \notin Refused
  /\ received' = received \cup {current}
  /\ worker' = [worker EXCEPT !.step = "ACK"]
  /\ UNCHANGED <<attempts, nextAttempt>>

\* The write may fail: the error is ignored.
MarkSyncAttempt ==
  \/ /\ attempts' = [attempts EXCEPT
          ![current] = IF @ < MaxAttempts THEN @ + 1 ELSE @]
     /\ nextAttempt' = [nextAttempt EXCEPT
          ![current] = clock + backoff(attempts[current] + 1)]
  \/ UNCHANGED <<attempts, nextAttempt>>

\* Mutant: any answer counts as an acknowledgement.
answeredIsAccepted ==
  /\ worker' = [worker EXCEPT !.step = "ACK"]
  /\ UNCHANGED <<received, attempts, nextAttempt>>

\* Mutant: an item that cannot be sent holds up the ones behind it.
failAndStop ==
  /\ \/ UNCHANGED received
     \/ current \notin Refused /\ received' = received \cup {current}
  /\ MarkSyncAttempt
  /\ worker' = Idle

\* The worker sees an error; Central may have accepted the ticket all the
\* same.  The item stays pending and the worker goes on to the next.
postFailed ==
  /\ \/ UNCHANGED received
     \/ current \notin Refused /\ received' = received \cup {current}
  /\ MarkSyncAttempt
  /\ worker' = afterCurrent

Post(i) ==
  /\ worker.step = "POST" /\ i = current
  /\ postAccepted \/ postFailed
  /\ UNCHANGED <<clock, queue>>

acknowledge == queue' = [queue EXCEPT ![current] = "ACKED"]

AckSync ==
  /\ worker.step = "ACK"
  /\ acknowledge /\ worker' = afterCurrent
  /\ UNCHANGED <<clock, attempts, nextAttempt, received>>

\* The acknowledgement is not stored: syncOnce returns.
AckFails ==
  /\ worker.step = "ACK" /\ worker' = Idle
  /\ UNCHANGED <<clock, queue, attempts, nextAttempt, received>>

Crash ==
  /\ worker' = Idle
  /\ UNCHANGED <<clock, queue, attempts, nextAttempt, received>>

Tick ==
  /\ clock < MaxClock /\ clock' = clock + 1
  /\ UNCHANGED <<queue, attempts, nextAttempt, worker, received>>

Next ==
  \/ \E i \in Items : Enqueue(i)
  \/ syncOnce
  \/ \E i \in Items : Post(i)
  \/ AckSync
  \/ AckFails
  \/ Crash
  \/ Tick

Spec == Init /\ [][Next]_vars

Deliver(i) == Post(i) /\ worker'.step = "ACK"

\* The interval ticker fires again and again.  A POST of a ticket Central can
\* accept does not fail every time it is tried, nor does its acknowledgement,
\* nor does the process stop every time in between.
FairSpec ==
  /\ Spec
  /\ WF_vars(syncOnce)
  /\ \A i \in Items : SF_vars(Post(i)) /\ SF_vars(Deliver(i))
  /\ SF_vars(AckSync)

-----------------------------------------------------------------------------
(* Properties.                                                             *)

\* No ticket is lost: what the station has ticked off as synced, Central has
\* accepted, whatever was retried, lost or interrupted on the way.
AckedIsReceived == \A i \in Items : queue[i] = "ACKED" => i \in received

\* A ticket Central can accept is acknowledged in the end, even when it is
\* queued behind tickets Central refuses for ever, as long as those are fewer
\* than a batch.
EveryTicketIsDelivered ==
  \A i \in Items \ Refused : queue[i] = "PENDING" ~> queue[i] = "ACKED"
=============================================================================
