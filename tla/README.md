# Verification of the plantops edge controller

The repository is the controller of an unmanned truck weighbridge.  A truck is
weighed twice: loaded, driving from side A to side B, and empty, driving back
from B to A.  Each crossing is one short *pass* of the physical-pass engine;
two passes make one *weigh cycle*, and a completed cycle is one ticket, which
is durable locally before it is delivered to Central.

## Inventory

| Component | Source (under `src/internal`) | State | Operations |
|---|---|---|---|
| physical-pass engine | `engine/engine.go`, `domain/{types,workflow,policy}.go`, `adapters/registry`, `adapters/ingress` | active transaction (workflow state, identity, position, confirmations, overrides, requested outputs), last audited reading, active faults, stable base | observe position, RFID, LPR, scale, fault; clear fault; authorize override; reset; `New` |
| weigh cycles | `cycle/coordinator.go`, `adapters/sqlitestore/cycle_store.go`, `domain/cycle.go` | durable rows: cycle status, passes, ticket, sync item | first pass, call, second pass, expire orphans |
| Central sync | `centralsync/worker.go`, `adapters/sqlitestore/store.go` | `sync_queue` rows, the batch in progress | list, post, acknowledge, mark attempt |
| two-pass session, commit bridge | `twopass/workflow.go`, `twopass/bridge.go` | direction, bound cycle, outcomes | observe with the sides swapped on a return, latch the direction, bind to a called cycle, commit a pass, mask the snapshot, end a pass |
| runtime I/O controller, audited outputs | `runtimeio/controller.go`, `runtimeio/audited_outputs.go` | outputs believed applied, `safeApplied`, timers | poll, safe state, reconcile; the safe state of a shutdown |
| audit recorder | `workflowaudit/recorder.go` | the previous snapshot | run a step, append the difference |
| journals | `adapters/rawjournal`, `adapters/auditjournal` | file, last sequence number and hash | append with fsync, verify |
| scale collector | `adapters/scaleascii` | TCP stream, position in it | dial, read a frame, journal it, report a reading or a fault, give up |
| Modbus I/O | `adapters/modbustcp` | TCP connection | read inputs, write coils |
| HTTP API, wiring, service | `httpapi`, `cmd/edge/main.go`, `winservice` | none of their own | route, start, stop |
| not part of the running program | `Program.cs`, `adapters/jsonl` | | |

`main.go` starts one goroutine each for the scale collector, the I/O
controller, the orphan-expiry ticker, the Central worker and the HTTP server.
Everything that changes the engine goes through the recorder and so through
one mutex; the operator's *call* and the expiry ticker go straight to the
store.  The store has one SQLite connection, and each of its methods is one
SQL transaction.  A crossing runs: position, tag, plate and scale readings
arrive in any order; when they agree the engine requests the entry side open;
when the truck stands on both deck sensors and enough stable frames agree, the
engine commits, which calls the bridge, which records a first or second pass
with the coordinator; only then the exit side is requested open.

What is hard here: observations of different devices combine in any order and
stay in force until replaced; faults, overrides and recoveries can come
between any two of them; expiry, call and recording race on the same rows;
answers of Central and of the I/O device are lost, disks fail and lose power,
and the process can stop between any two steps.
`PROJECT.json` lists these hazards at their lines.

What makes each part correct:

- engine: nothing is permissive without its evidence, nothing is released
  before it is durable, a lockout is safe and final;
- cycles: a ticket states a valid pair, expired and refused cycles never
  settle, settled ones never change, overdue ones leave the queue;
- sync: nothing is ticked off that Central does not have, everything Central
  can take is delivered;
- I/O: what the controller believes it applied is what the device does, green
  and buzzer follow the barriers' feedback, permission is audited before it is
  given, and a lockout takes it back;
- journals: a chain that verifies is complete, a restart does not break it;
- session: a release stands on a recorded crossing, a return on a called
  cycle, a ticket on two recorded passes of one vehicle, and an audit record
  lost is the end of all permission;
- collector: what the workflow is told is on record first, and what it believes
  of the scale is what the record says.

## Modules

### Engine

`Engine.tla` is the engine.  One variable per field of `Engine`: `tx`
(`e.tx`; nil is `NoTx`, whose state is `IDLE`), `lastScale`, `faults`,
`stableBase`; `tickets` is what the ticket store has made durable and
`started` numbers the transactions.

Each handler is one action because it runs under the mutex.  The functions of
the source that end in `Locked` are operators from a transaction record to a
transaction record, and a handler composes them in the order of its calls, so
`afterPosition` reads like the body of `ObservePosition`.  States that a
handler enters and leaves within one call (`ENTERING`, `LOCAL_COMMITTED`) are
never seen outside it.  `ObserveScale` takes the store's answer as an input:
`durable = FALSE` is any failed commit.  `Restart` is `engine.New` on the same
store.

Left out: block reasons, timestamps, the display copy of the faults, and
camera evidence.  Fields that are always assigned together are one field
(`entry`, `exit`).  `observationBelongsLocked` never rejects, because the
ingress adapter stamps observations with the time at which they arrive.
Weights are integers; the extreme of `abs64` is not reached by any weight a
parser accepts.  Auxiliary faults and overrides only come from the simulation
routes of the HTTP API; a production station only reports critical ones.

### WeighCycles and CycleLedger

`WeighCycles.tla` is the coordinator over the store.  A method of the store is
one action, because it is one SQL transaction; a coordinator method that calls
the store twice is several.  Recording a second pass is `ObserveSecondPass`,
`FindCalledCycle`, `RecordSecondPass`, with the state between them in
`recording`; the expiry scan is `ExpireOrphans`, then one `ExpireOne` for each
cycle of the list it read, with time and list in `expiry`.  `AbortExpiry` is
the early return at a failed mark.  `orphaned` is a history variable.

The plate keys of the store (`normalizeVehicleKey`, Unicode) and of the pair
rules (`normalizeCycleIdentity`, ASCII) are two functions, because they
differ.  `None` stands for the empty key.

`CycleLedger.tla` is what the cycles promise: a cycle is opened, then settled
with one receipt or closed without one, and never leaves either.
`WeighCycles` implements it under the mapping `book`, which counts a cycle
that was ever orphaned as closed.

### CentralSync

`CentralSync.tla` is the worker.  `worker` holds the step and the items left
of the current `syncOnce`; `received` is Central and belongs to the
environment.  `Post` has the outcomes the worker can tell apart and one it
cannot: an error although Central accepted.  Errors of the store are ignored
for an attempt and end the batch for an acknowledgement, as in the code.  Time
is counted in units of 5 seconds, the first backoff.

### TwoPass

`TwoPass.tla` is the station as `main.go` puts it together: the session and its
bridge around the engine, the recorder in front, the cycles behind.  It extends
`Engine` and takes `WeighCycles` as an instance, `Book`, whose steps are what
the bridge, the operator and the ticker do; it implements both
(`EngineImplemented`, `BooksImplemented`) and provides the workflow that the
I/O controller relies on (`WorkflowProvided`, see below).  `direction` and `bound` are the
session's fields, `outcome` is the cycle the bridge recorded the active pass
in.

The recorder's mutex makes a workflow call one after the other, but the call is
not one step: the engine's handler, then the lookup of the called cycle
(`tryBindCalled`, its own SQL transaction), then the append of the audit
records.  `call` says what the call in progress still has to do (`COMMIT`,
`BIND`, `APPEND`).  A frame that commits a first pass is one step, because the
coordinator calls the store once; one that commits a second pass is
`SecondPass`, `FindCalled`, `Settle`: the engine waits inside
`commitTicketLocked`, with its mutex, while the coordinator looks its cycle up
and completes or refuses it, and goes on with the answer (`answered`).  The
operator's call of a cycle, the expiry ticker and the readers of `Snapshot` do
not take the mutex and come between any two of them.
`AppendFails` locks the engine out with a fault of `AUDIT_STORE`; `Reboot` is a
new process on the same store.

`Snapshot` is the session's: the engine's requests seen as side A and side B,
masked on a return that is not bound.  `passes` remembers for each ticket of
the engine which way and for which cycle the truck drove, `lost` that a record
has been lost since the process started.

Left out: what only the simulation routes offer (overrides, auxiliary faults,
the operator's reset; the engine's own runs have them), and camera evidence.

### Workflow

`Workflow.tla` is the contract between the station and the I/O controller: the
workflow as the controller sees it, which is whether a transaction is active or
locked out (`tx`), its `Outputs` (`want`) and which of the devices the controller
or the recorder reports are under a critical fault (`faults`).  `Move` says what
no call of the workflow may do: request anything but for an active transaction,
start one with a request or under a critical fault, go on under one, leave a
lockout, forget a lost audit record.  `Stop` is the end of the process.

The two sides meet there.  `RuntimeIO` extends it and lets the workflow make
any move of the contract between any two of its own steps; what the controller
itself does to the workflow (faults reported and cleared) has to keep it too, and
is proved to (`ContractIsKept`).  `TwoPass` implements it under the mapping `phase`,
`requested`, `reported`: the engine's transaction, the masked and swapped
outputs of the session's `Snapshot`, and the critical faults
(`WorkflowProvided`).

### RuntimeIO

`RuntimeIO.tla` is the poll loop with the audit gate and the coil order of the
Modbus adapter.  `poll` is the step in progress: where it is, the inputs it
read, the requests it decided on, the commands still to give (`plan`) and the
coil writes the current command consists of (`todo`).  `coils` is the device;
it keeps its values over `Crash`.  `applied`, `safeApplied`, `pulse`
(`buzzerUntil`) and `waiting` (`entryOpenSince`, `exitOpenSince`) are the
controller's fields.

Every write is a step.  `WriteSingleCoil` succeeds; `WriteFails` is any error,
with the write done or not.  `GiveCommand`, `IntentFails`, `Result` and
`ResultFails` are `AuditedOutputs.command`; `SafeStateApplied` ends a
`SafeState`.  Between any two steps `Observation` moves the workflow
anywhere the contract allows.  A failed record of the recorder is a fault of `AUDIT_STORE`; when it
is the position's, the poll returns (`ObserveUnrecorded`).

A shutdown (`ShutdownRequested`) cancels the context of the poll loop, so that
no further write of it finds a connection, and writes the safe state from the
main goroutine.  The one write that had its connection already is `late`: it
reaches the device at any moment of the shutdown or after it (`LateWrite`), or
never.  `stray` remembers the coils last set that way.  An HTTP server that
fails ends `run` without a safe state; that is `Crash`, which is also the start
after a shutdown.

Left out: the monitor, times beyond "over" and "not over", and a write that
times out in a running process and reaches the device after the ones given
later (it takes effect at once or never).

### Journal and ScaleFeed

`Journal.tla` is both journals, whose `Append`, `loadTail` and `Verify` are the
same.  `file` and `tail` are the complete lines and what follows the last
newline; `durable` is how far the file is known to be synced; `j` has the
fields, `append` the call in progress.  An append is `AppendRecord`, `Write`,
`SyncAndReturn`, each of which can fail.  A line glued to an unterminated one
does not parse.  `PowerLoss` leaves any prefix of what was not synced.
`acked` and `clean` are history variables: the references returned, and whether
anything has failed since a start on complete lines.

`ScaleFeed.tla` extends it by the journals' callers.  The raw weight journal has
one, the collector: `Connect`, `Receive` (the append of a frame or of an error
begins), `WriteRecord`, `Recorded` or `RecordFails`, then the reports, each a
call of the workflow of its own: `ReportFault`, or `ClearScaleFault` and
`ObserveReading`.  A read error can come with the last frame; the frame is
handled first, then the error (`CUT`).  The first failed append ends the
collector (`RETURNED`, `CollectorStopped`).  The operational journal has many
callers, who go on after a failure; `col.step` is then `OTHERS`.  Of the
workflow there is `scaleFault`, whether the scale is under a fault.  A frame is
one of four outcomes of the parser; its text is left out.  Between
`ClearScaleFault` and `ObserveReading` a poll can see a faulted scale without
its fault; the engine, once locked out, stays so.

## Runs

| Run | What it checks | Bounds |
|---|---|---|
| `engine_pass` | `TypeOK`, `LockoutIsSafe`, `MismatchHoldsEntry`, `ReleaseIsDurable`, `CriticalFaultLocksOut`, `EntryOntoEmptyDeck`, `LockoutIsFinal` | two transactions, one ticket; a registered and an unknown tag, two plates, four sensor snapshots; an empty, a settled and a faulted frame, one confirmation; RFID, LPR and `REMOTE_IO` faults, identity overrides |
| `engine_way` | `PositionIsEvidenced`, `ExitHeldUntilClear` | one transaction, two confirmations, eight sensor snapshots; rear and exit sensor faulted, overridden, cleared, safety lost |
| `cycles_races` | `TypeOK`, `CompletedPairIsValid`, `OrphanIsOverdue`, `LedgerSpec`, `OverdueLeavesQueue` | two cycles, three plates, of which some share one key or both, two weights, a clock that passes the window, fair |
| `sync_delivery` | `TypeOK`, `AckedIsReceived`, `EveryTicketIsDelivered` | three tickets, batches of two, the second ticket refused for ever, fair |
| `io_polls` | `TypeOK`, `AppliedIsPhysical`, `GreenOnlyOverOpenRequest`, `RedAndGreenExclude`, `ShutdownLeavesOneWrite`, `PermissionIsAudited`, `PermissionFollowsFeedback`, `LockoutWithdrawsPermission` | three feedbacks, three requests, fair |
| `feed_record` | `FeedTypeOK`, `VerifiedMeansComplete`, `RestartContinuesTheChain`, `ReadingIsOnRecord`, `WorkflowKnowsTheScale`, `BrokenOnlyAtTheEnd` | five appends, either journal |
| `twopass_station` | `PassTypeOK`, `ReleaseFollowsPass`, `ReturnIsCalled`, `TicketNeedsTwoCrossings`, `AuditLossIsFinal`, `CompletedPassMakesRoom`, `EngineImplemented`, `BooksImplemented`, `WorkflowProvided` | two transactions and tickets, one cycle, one truck with one tag, five sensor snapshots, a clock that passes the window, fair |

Two transactions are enough to see what one leaves behind for the next; two
tickets, because only repetition matters.  `engine_pass` spends its states on
what is read of the vehicle and needs one confirmation; `engine_way` has one
vehicle and two confirmations, because one frame must not be enough.  Weights
stand for empty, loaded, and loaded out of tolerance.  Two cycles are needed
for an ambiguous lookup and for a scan with something left to lose; the clock
runs past the window.  `cycles_races` has no tags: that the two passes of a
ticket have the same tag is proved for all tags in `TicketSafety`.  Three tickets in batches of two give a ticket that is
not in the first batch.  `io_polls` has an open and a closed barrier under one
request, an exit barrier that is asked for alone and with the other one, and a
contradiction; polls, failures, crashes and shutdowns are not bounded.  Five
appends allow a record before, in and after two failures, and a restart between
them.  `twopass_station` has one crossing each way, so that every pass can be
out, back or refused, with calls and expiry between the two calls of the store
that settle a second pass; ambiguous lookups are `cycles_races`', and that
tags must agree, and that a binding follows the reading of another vehicle, is
proved for all tags and plates (`ReturnsAreCalled`, `TicketsTakeTwoCrossings`).
`ReturnIsCalled` admits a cycle that is expired or completed after it was bound:
the code looks it up again at the next observation only.  One cycle is too few
for a transaction that commits twice to open a second one; what
`TicketNeedsTwoCrossings` says of two cycles is proved.  Its critical fault is
`AUDIT_STORE`, and `REMOTE_IO` is cleared as every poll does it; faults and
clearings of other devices are the engine's runs'.

No run uses symmetry.

### What the code does otherwise than it says

These runs end in a violation, and `PROJECT.json` has the details:

- `engine_one_ticket`: between release and exit sensor the truck stands where
  deck and scale are clear.  An identity evaluation at that moment (every I/O
  poll makes one) authorises entry again, and another frame commits a second
  ticket for the same pass.  In the station neither the bridge
  (`twopass/bridge.go:45`) nor the coordinator refuses that commit: if the
  first pass commits twice it opens two cycles, and if the return does too, the
  second cycle being called after the first one is complete, one drive out and
  back leaves two final tickets.
  `TicketNeedsTwoCrossings` does not exclude it, since each of the two cycles
  has its two recorded passes.
- `cycles_orphan`: a refused pass writes `CALLED` over a cycle that has been
  expired in the meantime.  `LedgerSpec` holds all the same, because such a
  cycle is overdue for every later pass.
- `io_failed_disk`: a poll whose position cannot be put on record returns
  before it reconciles.  The lockout of an audit disk that has failed for good
  leaves green lights and open requests on.
- `twopass_exit`: once a return's ticket is final its cycle is no longer
  `CALLED`, so the lookup after the next observation, of which every I/O poll
  makes one, finds nothing and unbinds the transaction.  The snapshot masks it
  as `QUEUE_MISMATCH`, and the exit request to side A is taken back before the
  truck has left.
- `twopass_uncalled`: the mask of an uncalled return asks for an accepted
  identity.  An unregistered tag read after that makes it `MANUAL_REQUIRED`,
  which leaves the engine's entry request on and lifts the mask: side B opens.

More are visible in the models and have no run.  A ticket is committed on the
state `WEIGHING` alone: position and identity are checked when weighing becomes
possible and not when it ends (`engine.go:225`, against
`docs/PSEUDOCODE.md:270`), and confirmations of stable frames survive an
interruption of the weighing by a mismatch (`engine.go:238`).  An identity
accepted for one plate outlives the failure of a channel and lets in another
plate without confirmation (`engine.go:416`).  A completed
transaction is dropped only when all presence sensors are clear at once, so a
truck already waiting at an approach sensor is not served
(`twopass/workflow.go:40`).  `next_attempt_at` is written and
never read (`store.go:305`).  The collector reads without a deadline
(`stream.go:89`), so a silent scale raises no fault and its last reading keeps
its force (`docs/PSEUDOCODE.md:111` has a state `STALE`).  A shutdown does not
wait for the poll loop, so one permissive write can reach the device after the
safe state and outlive the process (`main.go:159`, against the shutdown
contract of `docs/WINDOWS-SERVICE.md:37`): `ShutdownLeavesOneWrite` says that it
is never more than that.

### Fairness

`cycles_races`: the ticker of `main.go` fires for as long as the process
lives, hence weak fairness of a scan's start, and a scan that has begun goes on
(weak fairness of `Scan`).  It reaches each cycle of its list unless a mark
fails or the process stops, and strong fairness of each `ExpireOne` says that
this does not happen to every scan.

`twopass_station`: a call of the workflow goes on to its end (weak fairness of
the calls of the store, lookup and append), and while a transaction is complete there is a poll with
nothing on any presence sensor again and again (strong fairness of such a
poll).  Nothing weaker would do: a truck already waiting at an approach sensor
keeps the completed transaction in force, and nothing is assumed to drive it
away.

`sync_delivery`: the worker's interval ticker gives weak fairness of
`syncOnce`; strong fairness of an item's successful `Post` and of `AckSync`
says that the network, the store and the process do not fail every single
time.  Nothing is assumed of tickets that Central refuses.

`io_polls`: the loop of `Run` never stops, hence weak fairness of `Step`;
strong fairness of `InputsRead` and of each write of the safe state says that
the link recovers, and strong fairness of `ObservePosition` that the audit disk
does (`RecoveringSpec`).  `io_failed_disk` drops only the last one (`FairSpec`).
Nothing is assumed of a shutdown: `LockoutWithdrawsPermission` promises nothing
of a process that is stopped.

## Proofs

The proof modules hold for every value of the constants, under the named
assumptions of the modules (`ConstantsAssumption`, `CyclesAssumption`,
`NoneIsNoPass`, `NoneIsNoTicket`, `SyncAssumption`, `JournalAssumption`,
`SessionAssumption`, `RuntimeAssumption`), which state the types of the
constants, that the sensor snapshots are closed under swapping the sides, that
`AUDIT_STORE` is critical, that limits which the configuration defaults to a
positive value are positive, and that `None` is none of the values it is told
from.  TLC evaluates them in the runs.

`EngineProofs`.  `LockoutIsSafe`, `MismatchHoldsEntry` and `ReleaseIsDurable`
are not inductive on their own: a handler composes up to four operators, and
each must keep them for the intermediate record.  The invariant is

    Inv == TypeOK /\ Quiet(tx) /\ CriticalFaultLocksOut /\ ReleaseIsDurable

where `Quiet(t)` says that a locked-out record requests nothing and a
mismatched one no entry.  Each operator has lemmas: it returns a transaction,
it keeps `Quiet`, and it `Evolves` its argument: the identifier stays, a
lockout stays, and the exit side and the released states are not reached where
they were not before.  `Evolves` is a preorder, so a handler's composition
evolves the transaction too, and every step is one of four kinds: it carries
the transaction on, starts one, commits one or drops one.  The only kind that
opens the exit appends the ticket in the same step.

The three properties of the crossing each have one helper that brings the
change about: `evaluatePosition` the position, `tryAuthorizeEntry` the entry
request, `driveOff` and the commit the exit request.  `Settles`, `Steady` and `Calm` say what every other helper leaves
alone, so that what the one helper has checked still holds at the end of the
handler, whatever it calls afterwards.  The invariant is

    Way == Evidenced(tx, faults) /\ AtRest(tx)

`AtRest` (nothing requested of the exit side, and no position, when no pass is in
progress) is what a fault reported to an idle engine, the start of a pass and a
reset need.

`WeighCyclesProofs`.  The invariant adds to `TypeOK` what the interleaving
needs: a cycle has a first pass exactly when it is opened (`RowInv`), the pass
being recorded was observed in the past and its cycle, once found, is open or
closed but not new (`RecordingInv`), likewise for the scan (`ExpiryInv`).
`OrphanInv` says of a cycle that was ever orphaned that its window is over by
the clock, that it is not complete, and that, if it has been put back to
`CALLED`, no pass in flight is matched with it unless that pass lies beyond the
window itself.  The step that could break the ledger is the completion of such
a cycle: `ValidatePair` refuses it for the pass it can be matched with, and for
any other status than `CALLED` the store's own check does.

`CentralSyncProofs`.  `AckedIsReceived` needs that Central has the current
item while its acknowledgement is due (`AckInv`), and that rows change only by
an acknowledgement, so dropping the batch at a crash loses nothing.  With them
it is proved that the worker never holds an acknowledged ticket in its list
(`NoResend`).

`JournalProofs`.  A failed write or sync can leave a chain that does not verify,
so the invariant cannot be that the acknowledged records are there in order.
`Kept` says what does survive: the synced lines hold each acknowledged record,
or a line that does not parse because the record was glued to an unterminated
one.  Synced lines are never taken away, and a chain that verifies has no line
of the second kind and numbers every record by its place, which gives
`VerifiedMeansComplete` for any number of appends, failures and crashes.
`Typed` gives the records their type, and `Chained` adds that while `clean`
holds the file verifies and the fields name its last record, from which
`RestartContinuesTheChain` follows.

`ScaleFeedProofs`.  Every step of the feed is a step of the journal or leaves
it (`FeedImplementsJournal`), so the journal's theorems hold of it.  On top of
them: `ReportIsLast` (between its record and its report an event is the latest
on record and acknowledged), which gives `ReadingIsOnRecord`; `ViewInv`, the
fault the workflow has at each step of the collector, which gives
`WorkflowKnowsTheScale`; and `EndInv` (all lines but the last are linked, no
append has failed while the collector runs, and none follows once it has given
up), which gives `BrokenOnlyAtTheEnd`.

`TwoPassProofs` puts the two components together, so that what is proved of
each alone holds in the station, and proves what neither has alone.

- *The engine.*  Every step of the station is a step of `Engine` or leaves it
  (`StationImplementsEngine`), and `EngineProofs` holds in the station.  A
  second pass is the hard case: the engine takes its step when `Settle` answers,
  for a frame that was accepted two steps earlier.  `Pending` says that the
  frame would still commit: nothing reaches the engine meanwhile but a restart,
  which ends the pass.
- *The cycles.*  Every step is a step of `WeighCycles` or leaves them
  (`StationImplementsBooks`).  What has to be shown is that the bridge only
  asks for what `WeighCycles` allows: a pass to be recorded states a plate and
  a tag that were read.  `Known(tx)` says that a decided identity of a pass in
  progress had both channels read, and that a matching pair is accepted, hence
  both are known at every commit (`CommitReads`).  Then `WeighCyclesProofs`,
  instantiated on the station's variables, gives `CompletedPairIsValid` and
  `OrphanIsOverdue` in the station (`StationKeepsCycles`).
- *The ground.*  The rest stands on `Ground`: the engine's invariant,
  `Pending`, `Known(tx)`, what is needed of `WeighCycles`' invariant
  (`BookFits`), and that the cycle found for a second pass is one of the
  vehicle on the deck (`Matched`).  Of a
  step of the books it is enough to know what it keeps (`Keeps`: no step takes
  a recorded weight or a final ticket back) and that it opens a cycle,
  completes one or does neither.
- `ReleaseFollowsPass` and `AuditLossIsFinal`: `StationInv` says that a released
  transaction has an outcome whose durable row holds the weight of the last
  ticket; `LossIsCritical`, that the fault of a lost record stands until a
  restart, with the engine's `CriticalFaultLocksOut`.
- `ReturnIsCalled`: `ReturnBound` follows a binding from its lookup on: a tag or
  plate read afterwards forces a new lookup, anything else keeps the readings
  (`Stays`; `Reads` says of every helper but `evaluateIdentity` that it leaves
  readings and identity alone) and the called cycle (`Keeps`).
- `TicketNeedsTwoCrossings`, from `History`: a cycle never opened has no
  recorded pass, an open one exactly the one that opened it, a complete one
  exactly one more.  `Ids` (ids grow, and the tickets of the active transaction have
  its direction) shows that the second one is a later transaction.

`RuntimeIOProofs`.  None of the properties is inductive: what a coil does depends
on which commands of a poll have been given and which writes of a command have
reached the device.  The invariant is the workflow's own, which follows from the
contract (`WorkflowOK`: only an active transaction requests anything, and none is
active under a critical fault), with

    Inv == Types /\ Lights /\ Controlled /\ Sweeping /\ LateOK

`Controlled` says that once the outputs are known the device shows what was
applied (`Shown(applied)`), between two writes of a command too (`Writing`),
and that the commands still to give are a `Plan`: each is allowed by the requests
and the inputs of this poll, a green light comes after its barrier's open
request, and a barrier's open request is withdrawn after its green light.
`Sweeping` says of a safe state, at start-up, after a failure or in a shutdown,
that the writes done so far stay done but for one late write; `LateOK` that the
late write was granted when it was given and does not withdraw a barrier under a
green light.  A failed write leaves the controller without a known
state, so that only `Sweeping` has to hold until the next one.

`ContractIsKept` shows of every step, failures included, that it is a move of the
contract: a fault reported locks out, one cleared does not bring a transaction
back.

`ContractProofs` shows that the station is such a workflow
(`StationProvidesWorkflow`).  With `RuntimeIOProofs`, which assumes nothing of
the workflow but the contract, the theorems about the outputs are theorems about
the outputs of this station: what the session swaps, masks and unmasks, the
bridge answers and the recorder loses moves the workflow only as the controller
expects.  The proof needs the engine's invariant (`Sight`: what the controller
sees of a state, from `Quiet` and `CriticalFaultLocksOut`), that a lockout is
left by a restart only (`LockoutStays`), that the fault of a lost record stays
(`AuditFaultStays`), and that a transaction starts without a request
(`StartsUnasked`): of all handlers only a position starts one, with an identity
that is still open, and the entry request is raised for an accepted one only
(`Raises`).  The two modules are not composed into one specification: that
would check again what the contract keeps apart.

Every safety invariant and action property of the passing runs is stated by a
theorem.  Model-checked only, because liveness is out of the prover's reach:
`OverdueLeavesQueue`, `EveryTicketIsDelivered`, `LockoutWithdrawsPermission` and
`CompletedPassMakesRoom`.

## Not modelled, and the plan

- Worth proving next: that a completed cycle's ticket is the one in the
  `sync_queue` of `CentralSync` (the two modules share that table, which
  `WeighCycles` fills in the transaction that completes a cycle), and an abstract
  life of a pass that `Engine` implements.
- Of `RuntimeIO`: a write that times out in a running process and reaches the
  device after later ones.  It multiplies the states beyond what the liveness
  check can take.
- Parsing of scale frames, Modbus encoding, the I/O mapping, HTTP routing,
  flags and the Windows service manager are left out: they are input and output
  without state of their own.  The heartbeat, status reports and monitors are
  displays that nothing else reads.  The ASP.NET prototype (`Program.cs`) and
  `adapters/jsonl` are not part of the running program.
