------------------------------ MODULE RuntimeIO ------------------------------
(***************************************************************************)
(* The physical outputs: the poll loop of internal/runtimeio/controller.go *)
(* driving the coils of a remote I/O device through the audit gate of      *)
(* audited_outputs.go and the coil order of adapters/modbustcp/io.go, and  *)
(* the safe state that main.go applies when the process is shut down.      *)
(*                                                                         *)
(* Every Modbus write is a step of its own: it can fail, or take effect    *)
(* although the controller sees an error, and between any two steps other  *)
(* goroutines move the workflow or the process dies.  The coils keep their *)
(* values when the process does.                                           *)
(*                                                                         *)
(* Data abstractions.  Coils and requests are sets: what is in is on.      *)
(* DesiredOutputs and the applied record name the permissive coils.  The   *)
(* workflow is any that keeps to the contract Workflow, which the station  *)
(* in TwoPass does.  Times are whether the buzzer pulse or the feedback    *)
(* timeout is over.  Of writes that reach the device after ones given      *)
(* later there is only the one in progress when a shutdown is requested.   *)
(* The monitor is left out.                                                *)
(***************************************************************************)
EXTENDS Workflow, Sequences, FiniteSets, Integers

Red(s) == <<"RED", s>>
Coils == Permissive \cup {"RED"} \X Sides

CONSTANTS
  Feedback,  \* what the two barriers' OPEN and CLOSED inputs can say
  Requests   \* what the workflow can request

Feedbacks == [Sides -> {"OPEN", "CLOSED", "MOVING", "CONTRADICTORY"}]

ASSUME RuntimeAssumption == Feedback \subseteq Feedbacks /\ Requests \subseteq Wants

Barrier(s) == IF s = "ENTRY" THEN "ENTRY_BARRIER" ELSE "EXIT_BARRIER"

VARIABLES
  coils,        \* the coils that are on, in the I/O device
  safeApplied,  \* the outputs were brought to a known state
  applied,      \* the permissive outputs the controller believes it applied
  pulse,        \* buzzerUntil: "NONE", "ON" or "OVER"
  waiting,      \* sides with entryOpenSince or exitOpenSince set
  poll,         \* the step in progress, where it is and what it holds
  late,         \* the poll loop's write still on its way in a shutdown
  stray         \* history: the coils last set by a late write

vars ==
  <<coils, tx, want, faults, safeApplied, applied, pulse, waiting, poll, late, stray>>
device == <<coils, late, stray>>
controller == <<safeApplied, applied, pulse, waiting>>

\* A permissive output set on or off; also a write of any single coil.
Command(c, on) == [coil |-> c, on |-> on]
Commands == [coil : Coils, on : BOOLEAN]

Unread == [s \in Sides |-> "CLOSED"]

\* The process is shutting down, or has: with the safe state applied or not.
Stopping == {"SHUTDOWN", "STOPPED", "HALTED"}

\* Between two polls.  audited is a history field: the permissive commands
\* whose intent was made durable in this poll.
Idle == [pc |-> "READ", in |-> Unread, desired |-> {}, plan |-> << >>,
         todo |-> << >>, audited |-> {}]

Polls ==
  [pc : {"READ", "SAFE", "APPLIED", "OBSERVE", "RECONCILE", "COMMAND",
         "WRITE", "RESULT"} \cup Stopping,
   in : Feedbacks,          \* the inputs read
   desired : SUBSET Permissive,  \* the snapshot of want
   plan : Seq(Commands),    \* the commands reconcile has still to give
   todo : Seq(Commands),    \* the coil writes the current one consists of
   audited : SUBSET Permissive]

TypeOK ==
  /\ coils \subseteq Coils
  /\ tx \in Phases
  /\ want \subseteq Permissive /\ (tx # "ACTIVE" => want = {})
  /\ faults \subseteq Reported /\ (tx = "ACTIVE" => faults = {})
  /\ safeApplied \in BOOLEAN
  /\ applied \subseteq Permissive
  /\ pulse \in {"NONE", "ON", "OVER"}
  /\ waiting \subseteq Sides
  /\ poll \in Polls
  /\ poll.todo = << >> <=> poll.pc \notin {"SAFE", "WRITE", "SHUTDOWN"}
  /\ late \in Seq(Commands) /\ Len(late) <= 1
  /\ late # << >> => poll.pc \in Stopping
  /\ stray \subseteq Coils

Init ==
  /\ coils = {}
  /\ Start
  /\ safeApplied = FALSE /\ applied = {} /\ pulse = "NONE" /\ waiting = {}
  /\ poll = Idle
  /\ late = << >> /\ stray = {}

-----------------------------------------------------------------------------
(* The order of coil writes and of commands.                               *)

\* Mutant: the light asked for is lit before the other one is removed.
setSignalSwapped(s, green) ==
  IF green THEN <<Command(Green(s), TRUE), Command(Red(s), FALSE)>>
  ELSE <<Command(Red(s), TRUE), Command(Green(s), FALSE)>>

setSignal(s, green) ==
  IF green THEN <<Command(Red(s), FALSE), Command(Green(s), TRUE)>>
  ELSE <<Command(Green(s), FALSE), Command(Red(s), TRUE)>>

\* The coil writes of one command of the controller.
writes(c) ==
  IF \E s \in Sides : c.coil = Green(s)
  THEN setSignal(c.coil[2], c.on) ELSE <<c>>

SafeState ==
  <<Command(Buzzer, FALSE)>>
    \o setSignal("ENTRY", FALSE) \o setSignal("EXIT", FALSE)
    \o <<Command(Open("ENTRY"), FALSE), Command(Open("EXIT"), FALSE)>>

\* The command that brings output c to on, if it is not there yet.
change(c, is, on) == IF is = on THEN << >> ELSE <<Command(c, on)>>

\* Mutant: the barrier is closed under a green light.
barrierFirst(s, d) == change(Open(s), Open(s) \in applied, Open(s) \in d)

\* Green is removed before its open request is.
withdrawGreen(s, d) ==
  IF Open(s) \in applied \ d THEN change(Green(s), Green(s) \in applied, FALSE)
  ELSE << >>

barrier(s, d) ==
  withdrawGreen(s, d) \o change(Open(s), Open(s) \in applied, Open(s) \in d)

\* Mutant: a granted green light does not wait for the barrier.
greenOnRequest(s, d, in) == Green(s) \in d

green(s, d, in) == Green(s) \in d /\ (Open(s) \in d => in[s] = "OPEN")

light(s, d, in) ==
  change(Green(s), Green(s) \in applied /\ withdrawGreen(s, d) = << >>,
         green(s, d, in))

buzzerReady(d, in) ==
  /\ Buzzer \in d
  /\ \E s \in Sides : Open(s) \in d
  /\ \A s \in Sides : Open(s) \in d => in[s] = "OPEN"

\* The pulse starts when the buzzer becomes ready and runs out in between.
nextPulse(d, in) ==
  IF ~buzzerReady(d, in) THEN {"NONE"}
  ELSE CASE pulse = "NONE" -> {"ON"}
         [] pulse = "ON"   -> {"ON", "OVER"}
         [] pulse = "OVER" -> {"OVER"}

\* What one poll has to change, in the order of the code.
reconcile(d, in, buzzerOn) ==
  barrier("ENTRY", d) \o barrier("EXIT", d)
    \o light("ENTRY", d, in) \o light("EXIT", d, in)
    \o change(Buzzer, Buzzer \in applied, buzzerOn)

-----------------------------------------------------------------------------
(* What the controller and the other goroutines do to the workflow.        *)

\* Of the faults kept are left, and the critical ones added come to them: they
\* lock out the transaction.
refault(kept, added) ==
  /\ faults' = kept \cup added
  /\ IF added = {} THEN UNCHANGED <<tx, want>>
     ELSE want' = {} /\ tx' = IF tx = "NONE" THEN "NONE" ELSE "LOCKED"

raise(devices) == refault(faults, devices)

\* What the recorder's own append adds when it fails; it has nothing to append
\* without a transaction.
recordLoss(t) == IF t = "NONE" THEN {{}} ELSE {{}, {"AUDIT_STORE"}}

\* An observation takes the workflow anywhere it may go, with the faults f.
Observed(f) ==
  /\ tx' \in Phases /\ want' \in Requests \cup {{}} /\ faults' = f
  /\ Move

\* A tag, a plate, a scale frame, an override or a fault of another device,
\* from any other goroutine and at any moment.
Observation ==
  /\ tx # "NONE"
  /\ \E lost \in recordLoss(tx) : Observed(faults \cup lost)
  /\ UNCHANGED <<device, poll, controller>>

-----------------------------------------------------------------------------
(* One poll.                                                               *)

\* Mutant: the outputs are trusted after an error.
ioFaultTrusting(devices) ==
  /\ \E lost \in recordLoss(tx) : raise({"REMOTE_IO"} \cup devices \cup lost)
  /\ poll' = Idle
  /\ UNCHANGED controller

ioFault(devices) ==
  /\ \E lost \in recordLoss(tx) : raise({"REMOTE_IO"} \cup devices \cup lost)
  /\ safeApplied' = FALSE
  /\ poll' = Idle
  /\ UNCHANGED <<applied, pulse, waiting>>

ReadInputs(in) ==
  /\ poll.pc = "READ"
  /\ poll' = [Idle EXCEPT !.in = in,
                !.pc = IF safeApplied THEN "OBSERVE" ELSE "SAFE",
                !.todo = IF safeApplied THEN << >> ELSE SafeState]
  /\ UNCHANGED <<device, workflow, controller>>

ReadFails ==
  /\ poll.pc = "READ"
  /\ ioFault({})
  /\ UNCHANGED device

set(w) == IF w.on THEN coils \cup {w.coil} ELSE coils \ {w.coil}

\* The next write reaches the device.
Reach ==
  LET next == Head(poll.todo) IN
  /\ coils' = set(next)
  /\ stray' = stray \ {next.coil}
  /\ UNCHANGED late

\* Mutant: the end of the list is noticed one write too late.
afterWriteLate == poll.pc

afterWrite ==
  IF Len(poll.todo) > 1 THEN poll.pc
  ELSE CASE poll.pc = "SAFE" -> "APPLIED"
         [] poll.pc = "WRITE" -> "RESULT"
         [] poll.pc = "SHUTDOWN" -> "STOPPED"

WriteSingleCoil ==
  /\ poll.pc \in {"SAFE", "WRITE", "SHUTDOWN"}
  /\ Reach
  /\ poll' = [poll EXCEPT !.todo = Tail(@), !.pc = afterWrite]
  /\ UNCHANGED <<workflow, controller>>

\* The write or its answer is lost.  A command's failure is put on record; a
\* safe state's is not.
WriteFails ==
  /\ poll.pc \in {"SAFE", "WRITE"}
  /\ Reach \/ UNCHANGED device
  /\ \/ ioFault({})
     \/ poll.pc = "WRITE" /\ ioFault({"AUDIT_STORE"})

\* The record of a safe state is best-effort.  After a contradiction the poll
\* ends here.
SafeStateApplied ==
  /\ poll.pc = "APPLIED"
  /\ raise({}) \/ raise({"AUDIT_STORE"})
  /\ applied' = {} /\ pulse' = "NONE" /\ waiting' = {}
  /\ safeApplied' = TRUE
  /\ poll' = IF safeApplied THEN Idle ELSE [poll EXCEPT !.pc = "OBSERVE"]
  /\ UNCHANGED device

contradictory == {s \in Sides : poll.in[s] = "CONTRADICTORY"}

\* ClearFault(REMOTE_IO), whose record can be lost as well.
afterClear ==
  LET f == faults \ {"REMOTE_IO"} IN
  IF "REMOTE_IO" \in faults THEN {f \cup lost : lost \in recordLoss(tx)} ELSE {f}

\* The position is observed and put on record.  Contradictory feedback drops
\* every request at once; otherwise the outputs are reconciled.
ObservePosition ==
  /\ poll.pc = "OBSERVE"
  /\ \E f \in afterClear :
       \/ /\ contradictory = {}
          /\ Observed(f)
          /\ poll' = [poll EXCEPT !.pc = "RECONCILE"]
       \/ /\ contradictory # {}
          /\ \E lost \in {{}, {"AUDIT_STORE"}} :
               /\ Observed(f \cup {Barrier(s) : s \in contradictory} \cup lost)
               /\ lost \in recordLoss(tx')
          /\ poll' = [poll EXCEPT !.pc = "SAFE", !.todo = SafeState]
  /\ UNCHANGED <<device, controller>>

\* The record of an active transaction's position is lost: the step returns.
ObserveUnrecorded ==
  /\ poll.pc = "OBSERVE"
  /\ \E f \in afterClear : Observed(f \cup {"AUDIT_STORE"})
  /\ {tx, tx'} # {"NONE"}
  /\ poll' = Idle
  /\ UNCHANGED <<device, controller>>

\* Mutant: a lockout freezes the outputs.
desiredFrozen == IF tx = "LOCKED" THEN applied ELSE want

desiredOutputs == want

\* Snapshot and the decisions of reconcile.  The pulse is set here, before
\* the commands ahead of the buzzer's: when one fails, SafeState resets it.
Reconcile ==
  /\ poll.pc = "RECONCILE"
  /\ \E p \in nextPulse(desiredOutputs, poll.in) :
       /\ pulse' = p
       /\ poll' = [poll EXCEPT !.pc = "COMMAND", !.desired = desiredOutputs,
                     !.plan = reconcile(desiredOutputs, poll.in, p = "ON")]
  /\ UNCHANGED <<device, workflow, safeApplied, applied, waiting>>

command == Head(poll.plan)

\* Mutant: a permissive command is executed whatever the audit store says.
executeUnaudited ==
  poll' = [poll EXCEPT !.pc = "WRITE", !.todo = writes(command)]

\* A permissive command is executed only after its intent is durable.
execute ==
  poll' = [poll EXCEPT !.pc = "WRITE", !.todo = writes(command),
             !.audited = IF command.on THEN @ \cup {command.coil} ELSE @]

GiveCommand ==
  /\ poll.pc = "COMMAND" /\ poll.plan # << >>
  /\ execute
  /\ UNCHANGED <<device, workflow, controller>>

IntentFails ==
  /\ poll.pc = "COMMAND" /\ poll.plan # << >>
  /\ command.on
  /\ ioFault({"AUDIT_STORE"})
  /\ UNCHANGED device

\* The open request starts the wait for the barrier's feedback.
nextWaiting ==
  LET side == {s \in Sides : command.coil = Open(s)} IN
  IF command.on THEN waiting \cup side ELSE waiting \ side

\* The command was executed and its result is put on record.  A permissive
\* command whose result is not recorded counts as failed.
Result ==
  /\ poll.pc = "RESULT"
  /\ raise({}) \/ (~command.on /\ raise({"AUDIT_STORE"}))
  /\ applied' = IF command.on THEN applied \cup {command.coil}
                ELSE applied \ {command.coil}
  /\ waiting' = nextWaiting
  /\ poll' = [poll EXCEPT !.pc = "COMMAND", !.plan = Tail(@)]
  /\ UNCHANGED <<device, safeApplied, pulse>>

ResultFails ==
  /\ poll.pc = "RESULT" /\ command.on
  /\ ioFault({"AUDIT_STORE"})
  /\ UNCHANGED device

\* All commands given: a barrier that reports OPEN clears its fault, one that
\* has been waited for too long is faulted.
CheckFeedback ==
  LET asked  == {s \in Sides : Open(s) \in poll.desired}
      opened == {s \in asked : poll.in[s] = "OPEN"}
      kept   == faults \ {Barrier(s) : s \in opened}
  IN /\ poll.pc = "COMMAND" /\ poll.plan = << >>
     /\ \E overtime \in SUBSET ((waiting \cap asked) \ opened) :
          \E lost \in IF overtime = {} /\ kept = faults THEN {{}} ELSE recordLoss(tx) :
            refault(kept, {Barrier(s) : s \in overtime} \cup lost)
     /\ waiting' = waiting \ opened
     /\ poll' = Idle
     /\ UNCHANGED <<device, safeApplied, applied, pulse>>

-----------------------------------------------------------------------------
(* The process.                                                            *)

\* Nothing the process holds in memory reaches an output any more.
forgotten ==
  /\ Stop
  /\ safeApplied' = FALSE /\ applied' = {} /\ pulse' = "NONE" /\ waiting' = {}

\* Mutant: the writes of a command are not given the application's context.
onItsWayAll == {<< >>} \cup {poll.todo}

\* The poll loop's write, if its connection was made before the context was
\* cancelled: the ones that follow it fail.
onItsWay ==
  {<< >>} \cup (IF poll.todo = << >> THEN {} ELSE {<<Head(poll.todo)>>})

\* The context is cancelled, which ends the poll loop with the write it is
\* waiting for, and the main goroutine applies the safe state beside it.
ShutdownRequested ==
  /\ poll.pc \notin Stopping
  /\ forgotten
  /\ late' \in onItsWay
  /\ poll' = [(IF late' = << >> THEN Idle ELSE poll) EXCEPT
                !.pc = "SHUTDOWN", !.plan = << >>, !.todo = SafeState]
  /\ UNCHANGED <<coils, stray>>

LateWrite ==
  /\ late # << >>
  /\ coils' = set(Head(late))
  /\ stray' = stray \cup {Head(late).coil}
  /\ late' = Tail(late)
  /\ poll' = [Idle EXCEPT !.pc = poll.pc, !.todo = poll.todo]
  /\ UNCHANGED <<workflow, controller>>

\* The error is logged, and the shutdown goes on.
ShutdownFails ==
  /\ poll.pc = "SHUTDOWN"
  /\ Reach \/ UNCHANGED device
  /\ poll' = [poll EXCEPT !.pc = "HALTED", !.todo = << >>]
  /\ UNCHANGED <<workflow, controller>>

\* The process is gone, shut down or not, and starts again; the I/O device is
\* the same.
Crash ==
  /\ forgotten
  /\ poll' = Idle
  /\ late' = << >>
  /\ UNCHANGED <<coils, stray>>

Step ==
  \/ \E in \in Feedback : ReadInputs(in)
  \/ ReadFails
  \/ WriteSingleCoil
  \/ WriteFails
  \/ SafeStateApplied
  \/ ObservePosition
  \/ ObserveUnrecorded
  \/ Reconcile
  \/ GiveCommand
  \/ IntentFails
  \/ Result
  \/ ResultFails
  \/ CheckFeedback

Next ==
  \/ Step
  \/ Observation
  \/ ShutdownRequested
  \/ LateWrite
  \/ ShutdownFails
  \/ Crash

Spec == Init /\ [][Next]_vars

InputsRead == \E in \in Feedback : ReadInputs(in)
SafeWrite(n) == poll.pc = "SAFE" /\ Len(poll.todo) = n /\ WriteSingleCoil

\* The ticker polls again and again, and the link does not fail every time.
FairSpec ==
  /\ Spec
  /\ WF_vars(Step)
  /\ SF_vars(InputsRead)
  /\ \A n \in 1..Len(SafeState) : SF_vars(SafeWrite(n))

\* Nor does the audit disk.
RecoveringSpec == FairSpec /\ SF_vars(ObservePosition)

-----------------------------------------------------------------------------
(* Properties.                                                             *)

\* Whenever the controller decides what to change, what it believes it has
\* applied is what the I/O device does, red lights included: after lost
\* answers, failed audits, contradictions and restarts.
AppliedIsPhysical ==
  safeApplied /\ poll.pc \in {"READ", "OBSERVE", "RECONCILE", "COMMAND"} =>
    /\ coils \cap Permissive = applied
    /\ \A s \in Sides : Red(s) \in coils <=> Green(s) \notin applied

\* Green is lit only while the barrier is requested open, between any two
\* writes and wherever a sequence of writes was cut off, unless it was lit by a
\* write that came late.
GreenOnlyOverOpenRequest ==
  \A s \in Sides : Green(s) \in coils \ stray => Open(s) \in coils

\* A side never shows red and green, unless one of them came late: a partial
\* failure leaves it dark.
RedAndGreenExclude ==
  \A s \in Sides : ~({Red(s), Green(s)} \subseteq coils \ stray)

\* What a shutdown leaves on, once its safe state was applied, is at most the
\* one coil the poll loop was writing when the shutdown was requested.
ShutdownLeavesOneWrite ==
  poll.pc = "STOPPED" =>
    coils \cap Permissive \subseteq stray /\ Cardinality(stray) <= 1

SwitchedOn == coils' \ coils

\* A permissive coil goes on only in a poll whose intent record is durable.
PermissionIsAudited ==
  [][SwitchedOn \cap Permissive \subseteq poll.audited]_vars

\* Green is lit, and the buzzer sounded, only when the inputs read in the same
\* poll report every barrier concerned open.
PermissionFollowsFeedback ==
  [][/\ \A s \in Sides : Green(s) \in SwitchedOn => poll.in[s] = "OPEN"
     /\ Buzzer \in SwitchedOn =>
          \A s \in Sides : Open(s) \in poll.desired => poll.in[s] = "OPEN"]_vars

\* A lockout ends with every permissive coil off, unless the process is
\* stopped first.
LockoutWithdrawsPermission ==
  tx = "LOCKED" ~> coils \cap Permissive = {} \/ poll.pc \in Stopping
=============================================================================
