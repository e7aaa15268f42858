-------------------------- MODULE RuntimeIOProofs --------------------------
(***************************************************************************)
(* Proofs about RuntimeIO, for every set of feedbacks and requests.        *)
(*                                                                         *)
(* The workflow is sound by itself: no step asks for outputs the engine    *)
(* cannot ask for.  The rest is about the device.  Its coils are known at  *)
(* each step of a poll, from the outputs applied and the commands the plan *)
(* still holds (Controlled); in a safe state they are known as far as it   *)
(* has been written (Sweeping); and a write that comes late in a shutdown  *)
(* is one that was harmless and granted when it was given (LateOK).        *)
(***************************************************************************)
EXTENDS RuntimeIO, SequenceTheorems, FiniteSetTheorems, TLAPS

-----------------------------------------------------------------------------
(* The workflow.                                                           *)

WorkflowOK ==
  /\ tx \in Phases
  /\ want \in Wants /\ (tx # "ACTIVE" => want = {})
  /\ faults \subseteq Reported /\ (tx = "ACTIVE" => faults = {})

\* Lemma: nothing requested is a request the engine can make.
LEMMA NothingIsWanted == {} \in Wants
BY DEF Wants

\* Lemma: the contract keeps the workflow sound.
LEMMA ContractKeeps ==
  WorkflowOK /\ (Move \/ Stop \/ UNCHANGED workflow) => WorkflowOK'
BY NothingIsWanted DEF WorkflowOK, Move, Stop, workflow, Phases

\* Lemma: faults that go and critical ones that come keep to the contract,
\* unless that of a lost record goes.
LEMMA RefaultMoves ==
  ASSUME WorkflowOK, NEW kept \in SUBSET faults, NEW added \in SUBSET Reported,
         refault(kept, added), "AUDIT_STORE" \in faults => "AUDIT_STORE" \in kept
  PROVE  Move
BY NothingIsWanted DEF WorkflowOK, refault, Move, Phases

\* Lemma: so do critical ones that come.
LEMMA RaiseMoves ==
  ASSUME WorkflowOK, NEW devices \in SUBSET Reported, raise(devices)
  PROVE  Move
BY RefaultMoves DEF raise

\* Lemma: an I/O fault moves it, whatever else fails with it.
LEMMA IoFaultMoves ==
  ASSUME WorkflowOK, NEW devices \in SUBSET Reported, ioFault(devices)
  PROVE  Move
<1>1. PICK lost \in recordLoss(tx) : raise({"REMOTE_IO"} \cup devices \cup lost)
  BY DEF ioFault
<1>2. {"REMOTE_IO"} \cup devices \cup lost \in SUBSET Reported
  BY DEF recordLoss, Reported
<1> QED
  BY <1>1, <1>2, RaiseMoves

\* A step of the controller, of another goroutine or of the process is one the
\* contract allows the workflow, or leaves it alone.
LEMMA StepOfWorkflow ==
  WorkflowOK /\ [Next]_vars => Move \/ Stop \/ UNCHANGED workflow
<1> SUFFICES ASSUME WorkflowOK, [Next]_vars
             PROVE  Move \/ Stop \/ UNCHANGED workflow
  OBVIOUS
<1>1. CASE UNCHANGED workflow
  BY <1>1
<1>2. CASE \E devices \in {{}, {"AUDIT_STORE"}} : ioFault(devices)
  BY <1>2, IoFaultMoves DEF Reported
<1>3. CASE SafeStateApplied \/ Result
  <2>1. raise({}) \/ raise({"AUDIT_STORE"})
    BY <1>3 DEF SafeStateApplied, Result
  <2> QED
    BY <2>1, RaiseMoves DEF Reported
<1>4. CASE ObservePosition \/ ObserveUnrecorded \/ Observation
  BY <1>4 DEF ObservePosition, ObserveUnrecorded, Observation, Observed
<1>5. CASE CheckFeedback
  <2> DEFINE opened == {s \in {t \in Sides : Open(t) \in poll.desired} : poll.in[s] = "OPEN"}
             kept == faults \ {Barrier(s) : s \in opened}
  <2>1. PICK overtime \in SUBSET Sides, lost \in {{}, {"AUDIT_STORE"}} :
          refault(kept, {Barrier(s) : s \in overtime} \cup lost)
    BY <1>5 DEF CheckFeedback, recordLoss
  <2>2. {Barrier(s) : s \in overtime} \cup lost \in SUBSET Reported
    BY DEF Barrier, Reported
  <2>3. kept \in SUBSET faults /\ ("AUDIT_STORE" \in faults => "AUDIT_STORE" \in kept)
    BY DEF Barrier
  <2> QED
    BY <2>1, <2>2, <2>3, RefaultMoves
<1>6. CASE forgotten
  BY <1>6 DEF forgotten
<1> QED
  BY <1>1, <1>2, <1>3, <1>4, <1>5, <1>6
     DEF Next, Step, ReadInputs, ReadFails, WriteSingleCoil, WriteFails, Reconcile,
         GiveCommand, IntentFails, ResultFails, ShutdownRequested, LateWrite,
         ShutdownFails, Crash, vars, workflow

\* Lemma: every step keeps the workflow sound.
LEMMA WorkflowStep == WorkflowOK /\ [Next]_vars => WorkflowOK'
BY StepOfWorkflow, ContractKeeps

-----------------------------------------------------------------------------
(* The plans of a poll.                                                    *)

\* The command is in the plan.
Has(p, c) == \E i \in DOMAIN p : p[i] = c

\* A command the requests d and the inputs in allow.
Fits(c, d, in) ==
  /\ c \in Commands /\ c.coil \in Permissive
  /\ \A s \in Sides :
       /\ c = Command(Green(s), TRUE) => Open(s) \in d /\ in[s] = "OPEN"
       /\ c = Command(Open(s), FALSE) => Open(s) \notin d
       /\ c = Command(Buzzer, TRUE) /\ Open(s) \in d => in[s] = "OPEN"

AllFit(p, d, in) == \A i \in DOMAIN p : Fits(p[i], d, in)

\* With the outputs in A applied, a green light in the plan comes after its
\* open request, and a withdrawn open request after its green light.
Ordered(p, A) ==
  \A i \in DOMAIN p, s \in Sides :
    /\ p[i] = Command(Green(s), TRUE) =>
         Open(s) \in A \/ \E j \in 1..(i - 1) : p[j] = Command(Open(s), TRUE)
    /\ p[i] = Command(Open(s), FALSE) =>
         Green(s) \notin A \/ \E j \in 1..(i - 1) : p[j] = Command(Green(s), FALSE)

Plan(p, d, in, A) == p \in Seq(Commands) /\ AllFit(p, d, in) /\ Ordered(p, A)

\* The permissive outputs applied once c has been given.
After(c, A) == IF c.on THEN A \cup {c.coil} ELSE A \ {c.coil}

GreenOverOpen(A) == \A s \in Sides : Green(s) \in A => Open(s) \in A

\* Lemma: the names of coils and commands tell them apart.
LEMMA Names ==
  /\ \A s, t \in Sides : /\ Open(s) # Green(t) /\ Open(s) # Red(t) /\ Green(s) # Red(t)
                         /\ Open(s) # Buzzer /\ Green(s) # Buzzer /\ Red(s) # Buzzer
                         /\ (Open(s) = Open(t) => s = t)
                         /\ (Green(s) = Green(t) => s = t)
                         /\ (Red(s) = Red(t) => s = t)
  /\ \A s \in Sides : Open(s) \in Permissive /\ Green(s) \in Permissive /\ Red(s) \in Coils
  /\ \A s \in Sides : Red(s) \notin Permissive
  /\ Buzzer \in Permissive /\ Permissive \subseteq Coils
BY DEF Open, Green, Red, Buzzer, Permissive, Coils, Sides

\* Lemma: a command holds what it was made of.
LEMMA CommandFields ==
  \A c \in Coils, on \in BOOLEAN :
    Command(c, on) \in Commands /\ Command(c, on).coil = c /\ Command(c, on).on = on
BY DEF Command, Commands

\* Lemma: equal commands are of the same coil and direction.
LEMMA CommandsDiffer ==
  /\ \A c, e \in Coils, a, b \in BOOLEAN : Command(c, a) = Command(e, b) => c = e /\ a = b
  /\ \A s \in Sides : Open(s) \in Coils /\ Green(s) \in Coils /\ Red(s) \in Coils
  /\ Buzzer \in Coils
BY Names DEF Command

\* Lemma: a command is made of its fields.
LEMMA CommandIs == \A c \in Commands : c = Command(c.coil, c.on)
BY DEF Command, Commands

\* Lemma: a plan may go on with a command that fits and whose turn it is.
LEMMA Extend ==
  ASSUME NEW p, NEW d, NEW in, NEW A, Plan(p, d, in, A),
         NEW c, Fits(c, d, in),
         \A s \in Sides :
           /\ c = Command(Green(s), TRUE) => Open(s) \in A \/ Has(p, Command(Open(s), TRUE))
           /\ c = Command(Open(s), FALSE) => Green(s) \notin A \/ Has(p, Command(Green(s), FALSE))
  PROVE  /\ Plan(p \o <<c>>, d, in, A)
         /\ Has(p \o <<c>>, c)
         /\ \A e : Has(p, e) => Has(p \o <<c>>, e)
<1> DEFINE q == p \o <<c>>
<1>1. /\ p \in Seq(Commands) /\ c \in Commands /\ q \in Seq(Commands)
      /\ Len(p) \in Nat /\ DOMAIN p = 1..Len(p)
  BY DEF Plan, Fits
<1>2. /\ DOMAIN q = 1..(Len(p) + 1) /\ q[Len(p) + 1] = c
      /\ \A i \in DOMAIN p : q[i] = p[i]
  BY <1>1
<1>3. \A i \in DOMAIN q : i \in DOMAIN p \/ i = Len(p) + 1
  BY <1>1, <1>2
<1>4. AllFit(q, d, in)
  BY <1>2, <1>3 DEF Plan, AllFit
<1>5. Ordered(q, A)
  <2> SUFFICES ASSUME NEW i \in DOMAIN q, NEW s \in Sides
               PROVE  /\ q[i] = Command(Green(s), TRUE) =>
                           Open(s) \in A \/ \E j \in 1..(i - 1) : q[j] = Command(Open(s), TRUE)
                      /\ q[i] = Command(Open(s), FALSE) =>
                           Green(s) \notin A \/ \E j \in 1..(i - 1) : q[j] = Command(Green(s), FALSE)
    BY DEF Ordered
  <2>1. CASE i \in DOMAIN p
    <3>1. \A j \in 1..(i - 1) : j \in DOMAIN p
      BY <1>1, <2>1
    <3> QED
      BY <1>2, <2>1, <3>1 DEF Plan, Ordered
  <2>2. CASE i = Len(p) + 1
    <3>1. i - 1 = Len(p)
      BY <1>1, <2>2
    <3> QED
      BY <1>1, <1>2, <2>2, <3>1 DEF Has
  <2> QED
    BY <1>3, <2>1, <2>2
<1> HIDE DEF q
<1>6. Plan(q, d, in, A)
  BY <1>1, <1>4, <1>5 DEF Plan
<1>7. Has(q, c) /\ \A e : Has(p, e) => Has(q, e)
  BY <1>1, <1>2 DEF Has
<1> QED
  BY <1>6, <1>7 DEF q

\* The output c may be brought to on by the next command of the plan.
Allowed(p, c, on, d, in, A) ==
  /\ c \in Permissive
  /\ \A s \in Sides :
       /\ c = Green(s) /\ on => /\ Open(s) \in d /\ in[s] = "OPEN"
                                /\ Open(s) \in A \/ Has(p, Command(Open(s), TRUE))
       /\ c = Open(s) /\ ~on => /\ Open(s) \notin d
                                /\ Green(s) \notin A \/ Has(p, Command(Green(s), FALSE))
       /\ c = Buzzer /\ on /\ Open(s) \in d => in[s] = "OPEN"

\* Lemma: the same for a change that is made only where it is needed.
LEMMA ExtendByChange ==
  ASSUME NEW p, NEW d, NEW in, NEW A, Plan(p, d, in, A),
         NEW c, NEW is \in BOOLEAN, NEW on \in BOOLEAN,
         is # on => Allowed(p, c, on, d, in, A)
  PROVE  /\ Plan(p \o change(c, is, on), d, in, A)
         /\ is # on => Has(p \o change(c, is, on), Command(c, on))
         /\ \A e : Has(p, e) => Has(p \o change(c, is, on), e)
<1>1. CASE is = on
  <2>1. p \o change(c, is, on) = p
    BY <1>1 DEF change, Plan
  <2> QED
    BY <1>1, <2>1
<1>2. CASE is # on
  <2>1. c \in Coils
    BY <1>2, Names DEF Allowed
  <2>2. \A s \in Sides : /\ Command(c, on) = Command(Green(s), TRUE) => c = Green(s) /\ on
                         /\ Command(c, on) = Command(Open(s), FALSE) => c = Open(s) /\ ~on
                         /\ Command(c, on) = Command(Buzzer, TRUE) => c = Buzzer /\ on
    BY <2>1, CommandsDiffer
  <2>3. Fits(Command(c, on), d, in)
    BY <1>2, <2>1, <2>2, CommandFields DEF Allowed, Fits
  <2> QED
    BY <1>2, <2>2, <2>3, Extend DEF change, Allowed
<1> QED
  BY <1>1, <1>2

\* Lemma: what is left of a plan is one, with its first command applied.
LEMMA PlanGoesOn ==
  ASSUME NEW p, NEW d, NEW in, NEW A, Plan(p, d, in, A), p # << >>
  PROVE  /\ Head(p) \in Commands /\ Fits(Head(p), d, in)
         /\ Plan(Tail(p), d, in, After(Head(p), A))
         /\ GreenOverOpen(A) => GreenOverOpen(After(Head(p), A))
         /\ \A s \in Sides : Head(p) = Command(Open(s), FALSE) => Green(s) \notin A
<1> DEFINE h == Head(p)
           q == Tail(p)
<1>1. /\ p \in Seq(Commands) /\ Len(p) \in Nat /\ Len(p) > 0
      /\ h = p[1] /\ 1 \in DOMAIN p
      /\ q \in Seq(Commands) /\ Len(q) = Len(p) - 1
      /\ \A i \in DOMAIN q : i \in Nat /\ i + 1 \in DOMAIN p /\ q[i] = p[i + 1]
  BY DEF Plan
<1> HIDE DEF h, q
<1>2. h \in Commands /\ Fits(h, d, in) /\ h = Command(h.coil, h.on)
  BY <1>1, CommandIs DEF Plan, AllFit
<1>3. \A s \in Sides : /\ h = Command(Green(s), TRUE) => Open(s) \in A
                       /\ h = Command(Open(s), FALSE) => Green(s) \notin A
  <2>1. 1..(1 - 1) = {}
    OBVIOUS
  <2> QED
    BY <1>1, <2>1 DEF Plan, Ordered
<1>4. GreenOverOpen(A) => GreenOverOpen(After(h, A))
  <2> SUFFICES ASSUME GreenOverOpen(A), NEW s \in Sides, Green(s) \in After(h, A)
               PROVE  Open(s) \in After(h, A)
    BY DEF GreenOverOpen
  <2>1. Open(s) \in A
    BY <1>2, <1>3, Names DEF GreenOverOpen, After
  <2>2. CASE h = Command(Open(s), FALSE)
    BY <1>3, <2>2, CommandFields, Names DEF After, GreenOverOpen
  <2>3. CASE h # Command(Open(s), FALSE)
    BY <1>2, <2>1, <2>3 DEF After, Commands
  <2> QED
    BY <2>2, <2>3
<1>5. AllFit(q, d, in)
  BY <1>1 DEF Plan, AllFit
<1>6. Ordered(q, After(h, A))
  <2> SUFFICES ASSUME NEW i \in DOMAIN q, NEW s \in Sides
               PROVE  /\ q[i] = Command(Green(s), TRUE) =>
                           Open(s) \in After(h, A)
                             \/ \E j \in 1..(i - 1) : q[j] = Command(Open(s), TRUE)
                      /\ q[i] = Command(Open(s), FALSE) =>
                           Green(s) \notin After(h, A)
                             \/ \E j \in 1..(i - 1) : q[j] = Command(Green(s), FALSE)
    BY DEF Ordered
  <2>0. \A j \in 1..i : j = 1 \/ (j - 1 \in 1..(i - 1) /\ j - 1 \in DOMAIN q /\ q[j - 1] = p[j])
    <3> TAKE j \in 1..i
    <3>1. j # 1 => j - 1 \in 1..(i - 1) /\ j - 1 \in DOMAIN q /\ (j - 1) + 1 = j
      BY <1>1
    <3> QED
      BY <1>1, <3>1
  <2>1. /\ Fits(q[i], d, in) /\ q[i] = p[i + 1] /\ i + 1 \in DOMAIN p /\ (i + 1) - 1 = i
    BY <1>1, <1>5 DEF AllFit
  <2>2. ASSUME q[i] = Command(Green(s), TRUE)
        PROVE  Open(s) \in After(h, A) \/ \E j \in 1..(i - 1) : q[j] = Command(Open(s), TRUE)
    <3>1. Open(s) \in A \/ \E j \in 1..i : p[j] = Command(Open(s), TRUE)
      BY <2>1, <2>2 DEF Plan, Ordered
    <3>2. h # Command(Open(s), FALSE)
      BY <1>2, <2>1, <2>2 DEF Fits
    <3>3. CASE Open(s) \in A
      BY <1>2, <3>2, <3>3 DEF After, Commands
    <3>4. CASE \E j \in 1..i : p[j] = Command(Open(s), TRUE)
      <4>1. PICK j \in 1..i : p[j] = Command(Open(s), TRUE)
        BY <3>4
      <4>2. CASE j = 1
        BY <1>1, <4>1, <4>2, CommandFields, Names DEF After
      <4>3. CASE j # 1
        BY <2>0, <4>1, <4>3
      <4> QED
        BY <4>2, <4>3
    <3> QED
      BY <3>1, <3>3, <3>4
  <2>3. ASSUME q[i] = Command(Open(s), FALSE)
        PROVE  Green(s) \notin After(h, A) \/ \E j \in 1..(i - 1) : q[j] = Command(Green(s), FALSE)
    <3>1. Green(s) \notin A \/ \E j \in 1..i : p[j] = Command(Green(s), FALSE)
      BY <2>1, <2>3 DEF Plan, Ordered
    <3>2. h # Command(Green(s), TRUE)
      BY <1>2, <2>1, <2>3 DEF Fits
    <3>3. CASE Green(s) \notin A
      BY <1>2, <3>2, <3>3 DEF After, Commands
    <3>4. CASE \E j \in 1..i : p[j] = Command(Green(s), FALSE)
      <4>1. PICK j \in 1..i : p[j] = Command(Green(s), FALSE)
        BY <3>4
      <4>2. CASE j = 1
        BY <1>1, <4>1, <4>2, CommandFields, Names DEF After
      <4>3. CASE j # 1
        BY <2>0, <4>1, <4>3
      <4> QED
        BY <4>2, <4>3
    <3> QED
      BY <3>1, <3>3, <3>4
  <2> QED
    BY <2>2, <2>3
<1> QED
  BY <1>1, <1>2, <1>3, <1>4, <1>5, <1>6 DEF Plan, h, q

\* Lemma: a change is a plan of at most one command.
LEMMA ChangeIsASequence ==
  ASSUME NEW c \in Coils, NEW is \in BOOLEAN, NEW on \in BOOLEAN
  PROVE  change(c, is, on) \in Seq(Commands)
BY CommandFields DEF change

\* Lemma: the light's part of a withdrawn request is a change too.
LEMMA WithdrawIsAChange ==
  ASSUME NEW s \in Sides, NEW d
  PROVE  /\ withdrawGreen(s, d) =
              change(Green(s), Green(s) \in applied /\ Open(s) \in applied \ d, FALSE)
         /\ withdrawGreen(s, d) = << >> <=>
              ~(Green(s) \in applied /\ Open(s) \in applied \ d)
<1>1. CASE Open(s) \in applied \ d /\ Green(s) \in applied
  BY <1>1 DEF withdrawGreen, change
<1>2. CASE ~(Open(s) \in applied \ d /\ Green(s) \in applied)
  BY <1>2 DEF withdrawGreen, change
<1> QED
  BY <1>1, <1>2

\* Lemma: a plan may go on with the barrier of a side, and then holds its open
\* request unless that is applied.
LEMMA BarrierGoesOn ==
  ASSUME NEW s \in Sides, NEW p, NEW d, NEW in, Plan(p, d, in, applied)
  PROVE  /\ Plan(p \o barrier(s, d), d, in, applied)
         /\ \A e : Has(p, e) => Has(p \o barrier(s, d), e)
         /\ Open(s) \in d => Open(s) \in applied
                               \/ Has(p \o barrier(s, d), Command(Open(s), TRUE))
<1> DEFINE isGreen == Green(s) \in applied /\ Open(s) \in applied \ d
           isOpen  == Open(s) \in applied
           onOpen  == Open(s) \in d
           w == change(Green(s), isGreen, FALSE)
           o == change(Open(s), isOpen, onOpen)
           q == p \o w
<1>1. w = withdrawGreen(s, d)
  BY WithdrawIsAChange
<1>2. isGreen \in BOOLEAN /\ isOpen \in BOOLEAN /\ onOpen \in BOOLEAN
  OBVIOUS
<1>3. isGreen # FALSE => Allowed(p, Green(s), FALSE, d, in, applied)
  BY Names DEF Allowed
<1>4. /\ Plan(q, d, in, applied)
      /\ isGreen => Has(q, Command(Green(s), FALSE))
      /\ \A e : Has(p, e) => Has(q, e)
  <2>1. isGreen => isGreen # FALSE
    OBVIOUS
  <2> HIDE DEF isGreen
  <2> QED
    BY <1>2, <1>3, <2>1, ExtendByChange
<1>5. isOpen # onOpen => Allowed(q, Open(s), onOpen, d, in, applied)
  <2> HIDE DEF q
  <2>1. isOpen # onOpen /\ ~onOpen => Open(s) \in applied \ d
    OBVIOUS
  <2>3. Green(s) \in applied /\ Open(s) \in applied \ d =>
           Has(q, Command(Green(s), FALSE))
    BY <1>4
  <2>2. \A t \in Sides : /\ Open(s) # Green(t) /\ Open(s) # Buzzer
                         /\ (Open(s) = Open(t) => s = t)
    BY Names
  <2> QED
    BY <2>1, <2>2, <2>3, Names DEF Allowed
<1>6. /\ Plan(q \o o, d, in, applied)
      /\ isOpen # onOpen => Has(q \o o, Command(Open(s), onOpen))
      /\ \A e : Has(q, e) => Has(q \o o, e)
  <2> HIDE DEF isOpen, onOpen, q
  <2> QED
    BY <1>2, <1>4, <1>5, ExtendByChange
<1>7. p \o barrier(s, d) = q \o o
  <2>1. barrier(s, d) = w \o o
    BY <1>1 DEF barrier
  <2>2. p \in Seq(Commands)
    BY DEF Plan
  <2> HIDE DEF isGreen, isOpen, onOpen
  <2>3. w \in Seq(Commands) /\ o \in Seq(Commands)
    BY <1>2, ChangeIsASequence, CommandsDiffer
  <2> HIDE DEF w, o
  <2> QED
    BY <2>1, <2>2, <2>3, ConcatAssociative
<1>8. Open(s) \in d /\ Open(s) \notin applied => Has(q \o o, Command(Open(s), TRUE))
  <2> SUFFICES ASSUME onOpen, ~isOpen PROVE Has(q \o o, Command(Open(s), TRUE))
    OBVIOUS
  <2>1. onOpen = TRUE /\ isOpen # onOpen
    OBVIOUS
  <2> HIDE DEF isOpen, onOpen, o, q
  <2> QED
    BY <1>6, <2>1
<1> HIDE DEF q, o
<1> QED
  BY <1>4, <1>6, <1>7, <1>8

\* Lemma: a plan that holds a side's open request may go on with its light.
LEMMA LightGoesOn ==
  ASSUME NEW s \in Sides, NEW p, NEW d, NEW in, Plan(p, d, in, applied),
         Green(s) \in d => Open(s) \in d,
         Open(s) \in d => Open(s) \in applied \/ Has(p, Command(Open(s), TRUE))
  PROVE  /\ Plan(p \o light(s, d, in), d, in, applied)
         /\ \A e : Has(p, e) => Has(p \o light(s, d, in), e)
<1> DEFINE is == Green(s) \in applied /\ withdrawGreen(s, d) = << >>
           on == green(s, d, in)
<1>1. is \in BOOLEAN /\ on \in BOOLEAN /\ light(s, d, in) = change(Green(s), is, on)
  BY DEF light, green
<1>2. Allowed(p, Green(s), on, d, in, applied)
  BY Names DEF Allowed, green
<1> HIDE DEF is, on
<1> QED
  BY <1>1, <1>2, ExtendByChange

\* Lemma: what reconcile decides is a plan.
LEMMA ReconcileIsAPlan ==
  ASSUME NEW d \in Wants, NEW in, NEW on \in BOOLEAN, on => buzzerReady(d, in)
  PROVE  Plan(reconcile(d, in, on), d, in, applied)
<1> DEFINE p0 == << >>
           p1 == p0 \o barrier("ENTRY", d)
           p2 == p1 \o barrier("EXIT", d)
           p3 == p2 \o light("ENTRY", d, in)
           p4 == p3 \o light("EXIT", d, in)
           is == Buzzer \in applied
           p5 == p4 \o change(Buzzer, is, on)
<1>0. /\ "ENTRY" \in Sides /\ "EXIT" \in Sides
      /\ \A s \in Sides : Green(s) \in d => Open(s) \in d
  BY DEF Sides, Wants
<1>1. Plan(p0, d, in, applied)
  BY DEF Plan, AllFit, Ordered
<1>7. reconcile(d, in, on) = p5
  <2>1. p1 = barrier("ENTRY", d)
    <3> DEFINE isGreen == Green("ENTRY") \in applied /\ Open("ENTRY") \in applied \ d
               isOpen  == Open("ENTRY") \in applied
               onOpen  == Open("ENTRY") \in d
               w == change(Green("ENTRY"), isGreen, FALSE)
               o == change(Open("ENTRY"), isOpen, onOpen)
    <3>1. barrier("ENTRY", d) = w \o o
      BY <1>0, WithdrawIsAChange DEF barrier
    <3>2. isGreen \in BOOLEAN /\ isOpen \in BOOLEAN /\ onOpen \in BOOLEAN
      OBVIOUS
    <3> HIDE DEF isGreen, isOpen, onOpen
    <3>3. w \in Seq(Commands) /\ o \in Seq(Commands)
      BY <1>0, <3>2, ChangeIsASequence, CommandsDiffer
    <3> HIDE DEF w, o
    <3> QED
      BY <3>1, <3>3
  <2> QED
    BY <2>1 DEF reconcile
<1> HIDE DEF p0
<1>2. /\ Plan(p1, d, in, applied)
      /\ Open("ENTRY") \in d => Open("ENTRY") \in applied \/ Has(p1, Command(Open("ENTRY"), TRUE))
  BY <1>0, <1>1, BarrierGoesOn
<1> HIDE DEF p1
<1>3. /\ Plan(p2, d, in, applied)
      /\ \A s \in Sides :
           Open(s) \in d => Open(s) \in applied \/ Has(p2, Command(Open(s), TRUE))
  BY <1>0, <1>2, BarrierGoesOn DEF Sides
<1> HIDE DEF p2
<1>4. /\ Plan(p3, d, in, applied)
      /\ \A s \in Sides :
           Open(s) \in d => Open(s) \in applied \/ Has(p3, Command(Open(s), TRUE))
  BY <1>0, <1>3, LightGoesOn
<1> HIDE DEF p3
<1>5. Plan(p4, d, in, applied)
  BY <1>0, <1>4, LightGoesOn
<1> HIDE DEF p4
<1>6. Plan(p5, d, in, applied)
  <2>1. on => \A s \in Sides : Open(s) \in d => in[s] = "OPEN"
    BY DEF buzzerReady
  <2>2. is \in BOOLEAN
    OBVIOUS
  <2>3. Allowed(p4, Buzzer, on, d, in, applied)
    BY <2>1, Names DEF Allowed
  <2> HIDE DEF is
  <2> QED
    BY <1>5, <2>2, <2>3, ExtendByChange
<1> QED
  BY <1>6, <1>7

-----------------------------------------------------------------------------
(* The coils.                                                              *)

\* The coils C once w is written.
Set(C, w) == IF w.on THEN C \cup {w.coil} ELSE C \ {w.coil}

\* What the device shows with the outputs in A applied.
Shown(A) == A \cup {Red(s) : s \in {t \in Sides : Green(t) \notin A}}

\* Lemma: what a command is made of, written in full.
LEMMA WritesAre ==
  ASSUME NEW c \in Commands, c.coil \in Permissive
  PROVE  \/ /\ \A s \in Sides : c.coil # Green(s)
            /\ writes(c) = <<c>>
         \/ \E s \in Sides :
              /\ c = Command(Green(s), TRUE)
              /\ writes(c) = <<Command(Red(s), FALSE), Command(Green(s), TRUE)>>
         \/ \E s \in Sides :
              /\ c = Command(Green(s), FALSE)
              /\ writes(c) = <<Command(Green(s), FALSE), Command(Red(s), TRUE)>>
<1>1. CASE \A s \in Sides : c.coil # Green(s)
  BY <1>1 DEF writes
<1>2. CASE \E s \in Sides : c.coil = Green(s)
  <2>1. PICK s \in Sides : c.coil = Green(s)
    BY <1>2
  <2>2. c.coil[2] = s
    BY <2>1 DEF Green
  <2>3. writes(c) = setSignal(s, c.on)
    BY <1>2, <2>2 DEF writes
  <2>4. c = Command(Green(s), c.on) /\ c.on \in BOOLEAN
    BY <2>1, CommandIs DEF Commands
  <2>5. CASE c.on = TRUE
    BY <2>3, <2>4, <2>5 DEF setSignal
  <2>6. CASE c.on = FALSE
    BY <2>3, <2>4, <2>6 DEF setSignal
  <2> QED
    BY <2>4, <2>5, <2>6
<1> QED
  BY <1>1, <1>2

\* Lemma: a command given, the device shows it.
LEMMA WriteShows ==
  ASSUME NEW A \in SUBSET Permissive, NEW c \in Commands, c.coil \in Permissive,
         \A s \in Sides : c.coil # Green(s)
  PROVE  Set(Shown(A), c) = Shown(After(c, A))
<1>1. CASE c.on = TRUE
  BY <1>1, Names DEF Set, Shown, After
<1>2. CASE c.on = FALSE
  BY <1>2, Names DEF Set, Shown, After
<1> QED
  BY <1>1, <1>2 DEF Commands

\* Lemma: the two writes of a light's command, in their order, do the same.
LEMMA GreenShows ==
  ASSUME NEW A \in SUBSET Permissive, NEW s \in Sides
  PROVE  /\ Set(Set(Shown(A), Command(Red(s), FALSE)), Command(Green(s), TRUE))
              = Shown(After(Command(Green(s), TRUE), A))
         /\ Set(Set(Shown(A), Command(Green(s), FALSE)), Command(Red(s), TRUE))
              = Shown(After(Command(Green(s), FALSE), A))
<1> DEFINE off(c) == Command(c, FALSE)
           on(c) == Command(c, TRUE)
<1>1. \A c \in Coils : /\ off(c).coil = c /\ off(c).on = FALSE
                       /\ on(c).coil = c /\ on(c).on = TRUE
  BY CommandFields
<1>2. Green(s) \in Coils /\ Red(s) \in Coils
  BY CommandsDiffer
<1> HIDE DEF off, on
<1>3. Set(Set(Shown(A), off(Red(s))), on(Green(s))) = Shown(After(on(Green(s)), A))
  BY <1>1, <1>2, Names DEF Set, Shown, After
<1>4. Set(Set(Shown(A), off(Green(s))), on(Red(s))) = Shown(After(off(Green(s)), A))
  BY <1>1, <1>2, Names DEF Set, Shown, After
<1> QED
  BY <1>3, <1>4 DEF off, on

-----------------------------------------------------------------------------
(* The safe state.                                                         *)

\* Its writes from the one after the first n, and the coils of those n.
Rest(n) == SubSeq(SafeState, n + 1, 7)
Swept(n) == {SafeState[i].coil : i \in 1..n}

\* Lemma: its writes in order.
LEMMA SafeStateOrder ==
  /\ SafeState \in Seq(Commands) /\ Len(SafeState) = 7
  /\ SafeState[1] = Command(Buzzer, FALSE)
  /\ SafeState[2] = Command(Green("ENTRY"), FALSE)
  /\ SafeState[3] = Command(Red("ENTRY"), TRUE)
  /\ SafeState[4] = Command(Green("EXIT"), FALSE)
  /\ SafeState[5] = Command(Red("EXIT"), TRUE)
  /\ SafeState[6] = Command(Open("ENTRY"), FALSE)
  /\ SafeState[7] = Command(Open("EXIT"), FALSE)
<1>1. ASSUME NEW a \in Commands, NEW b \in Commands
      PROVE  /\ <<a>> \in Seq(Commands) /\ Len(<<a>>) = 1 /\ <<a>>[1] = a
             /\ <<a, b>> \in Seq(Commands) /\ Len(<<a, b>>) = 2
             /\ <<a, b>>[1] = a /\ <<a, b>>[2] = b
  OBVIOUS
<1>2. /\ Command(Buzzer, FALSE) \in Commands
      /\ \A s \in Sides : /\ Command(Green(s), FALSE) \in Commands
                          /\ Command(Red(s), TRUE) \in Commands
                          /\ Command(Open(s), FALSE) \in Commands
  BY CommandFields, CommandsDiffer
<1> DEFINE a == Command(Buzzer, FALSE)
           b(s) == Command(Green(s), FALSE)
           c(s) == Command(Red(s), TRUE)
           d(s) == Command(Open(s), FALSE)
           p == <<a>>
           q == <<b("ENTRY"), c("ENTRY")>>
           r == <<b("EXIT"), c("EXIT")>>
           t == <<d("ENTRY"), d("EXIT")>>
<1>3. "ENTRY" \in Sides /\ "EXIT" \in Sides
  BY DEF Sides
<1>4. SafeState = p \o q \o r \o t
  BY DEF SafeState, setSignal
<1>5. /\ a \in Commands
      /\ \A s \in Sides : b(s) \in Commands /\ c(s) \in Commands /\ d(s) \in Commands
  BY <1>2
<1> HIDE DEF a, b, c, d
<1>6. /\ p \in Seq(Commands) /\ Len(p) = 1 /\ p[1] = a
      /\ q \in Seq(Commands) /\ Len(q) = 2 /\ q[1] = b("ENTRY") /\ q[2] = c("ENTRY")
      /\ r \in Seq(Commands) /\ Len(r) = 2 /\ r[1] = b("EXIT") /\ r[2] = c("EXIT")
      /\ t \in Seq(Commands) /\ Len(t) = 2 /\ t[1] = d("ENTRY") /\ t[2] = d("EXIT")
  BY <1>1, <1>3, <1>5
<1>6a. /\ p \in Seq(Commands) /\ q \in Seq(Commands)
       /\ r \in Seq(Commands) /\ t \in Seq(Commands)
       /\ Len(p) = 1 /\ Len(q) = 2 /\ Len(r) = 2 /\ Len(t) = 2
  BY <1>6
<1> HIDE DEF p, q, r, t
<1>7. /\ SafeState \in Seq(Commands) /\ Len(SafeState) = 7
      /\ SafeState[1] = p[1] /\ SafeState[2] = q[1] /\ SafeState[3] = q[2]
      /\ SafeState[4] = r[1] /\ SafeState[5] = r[2]
      /\ SafeState[6] = t[1] /\ SafeState[7] = t[2]
  <2>1. PICK u : u = p \o q
    OBVIOUS
  <2>2. PICK v : v = u \o r
    OBVIOUS
  <2>3. SafeState = v \o t
    BY <1>4, <2>1, <2>2
  <2>4. /\ u \in Seq(Commands) /\ Len(u) = Len(p) + Len(q)
        /\ \A i \in 1..(Len(p) + Len(q)) : u[i] = IF i <= Len(p) THEN p[i] ELSE q[i - Len(p)]
    BY ONLY <1>6a, <2>1, ConcatProperties
  <2>5. /\ v \in Seq(Commands) /\ Len(v) = Len(u) + Len(r)
        /\ \A i \in 1..(Len(u) + Len(r)) : v[i] = IF i <= Len(u) THEN u[i] ELSE r[i - Len(u)]
    <3>1. u \in Seq(Commands)
      BY <2>4
    <3> QED
      BY ONLY <3>1, <1>6a, <2>2, ConcatProperties
  <2>6. /\ SafeState \in Seq(Commands) /\ Len(SafeState) = Len(v) + Len(t)
        /\ \A i \in 1..(Len(v) + Len(t)) : SafeState[i] = IF i <= Len(v) THEN v[i] ELSE t[i - Len(v)]
    <3>1. v \in Seq(Commands)
      BY <2>5
    <3> QED
      BY ONLY <3>1, <1>6a, <2>3, ConcatProperties
  <2>7. Len(u) = 3
    BY ONLY <1>6a, <2>4
  <2>8. Len(v) = 5
    BY ONLY <1>6a, <2>7, <2>5
  <2>9. Len(SafeState) = 7
    BY ONLY <1>6a, <2>8, <2>6
  <2>10. u[1] = p[1] /\ u[2] = q[1] /\ u[3] = q[2]
    BY ONLY <1>6a, <2>4
  <2>11. v[1] = u[1] /\ v[2] = u[2] /\ v[3] = u[3] /\ v[4] = r[1] /\ v[5] = r[2]
    BY ONLY <1>6a, <2>7, <2>5
  <2>12. /\ SafeState[1] = v[1] /\ SafeState[2] = v[2] /\ SafeState[3] = v[3]
         /\ SafeState[4] = v[4] /\ SafeState[5] = v[5]
         /\ SafeState[6] = t[1] /\ SafeState[7] = t[2]
    BY ONLY <1>6a, <2>8, <2>6
  <2> QED
    BY <2>6, <2>9, <2>10, <2>11, <2>12
<1> QED
  BY <1>6, <1>7 DEF a, b, c, d

\* Lemma: what its commands are.
LEMMA SafeCommands ==
  ASSUME NEW w, NEW s \in Sides
  PROVE  /\ w \in {Command(Buzzer, FALSE), Command(Green(s), FALSE)} =>
              /\ w \in Commands /\ ~w.on /\ w.coil \in Permissive
              /\ \A t \in Sides : w # Command(Open(t), FALSE) /\ w # Command(Red(t), TRUE)
         /\ w = Command(Red(s), TRUE) =>
              /\ w \in Commands /\ w.on /\ w.coil \notin Permissive
              /\ \A t \in Sides : /\ w # Command(Open(t), FALSE)
                                  /\ w = Command(Red(t), TRUE) => t = s
         /\ w = Command(Open(s), FALSE) =>
              /\ w \in Commands /\ ~w.on /\ w.coil \in Permissive
              /\ \A t \in Sides : /\ w = Command(Open(t), FALSE) => t = s
                                  /\ w # Command(Red(t), TRUE)
<1>1. CASE w \in {Command(Buzzer, FALSE), Command(Green(s), FALSE)}
  <2>1. w \in Commands /\ w.on = FALSE /\ w.coil \in {Buzzer, Green(s)}
    BY <1>1, CommandFields, CommandsDiffer
  <2>2. \A t \in Sides : /\ Command(Open(t), FALSE).coil = Open(t)
                         /\ Command(Red(t), TRUE).coil = Red(t)
    BY CommandFields, CommandsDiffer
  <2>3. \A t \in Sides : w # Command(Open(t), FALSE) /\ w # Command(Red(t), TRUE)
    BY <2>1, <2>2, Names
  <2> QED
    BY <1>1, <2>1, <2>3, Names
<1>2. CASE w = Command(Red(s), TRUE)
  <2>1. w \in Commands /\ w.on = TRUE /\ w.coil = Red(s)
    BY <1>2, CommandFields, CommandsDiffer
  <2>2. \A t \in Sides : /\ Command(Open(t), FALSE).coil = Open(t)
                         /\ Command(Red(t), TRUE).coil = Red(t)
    BY CommandFields, CommandsDiffer
  <2>3. ASSUME NEW t \in Sides PROVE w # Command(Open(t), FALSE)
    <3>1. Command(Open(t), FALSE).coil = Open(t) /\ Open(t) # Red(s)
      BY <2>2, Names
    <3> QED
      BY <2>1, <3>1
  <2>4. ASSUME NEW t \in Sides, w = Command(Red(t), TRUE) PROVE t = s
    BY <2>1, <2>2, <2>4, Names
  <2>5. \A t \in Sides : w # Command(Buzzer, FALSE) /\ w # Command(Green(t), FALSE)
    <3>1. /\ Command(Buzzer, FALSE).coil = Buzzer
          /\ \A t \in Sides : Command(Green(t), FALSE).coil = Green(t)
      BY CommandFields, CommandsDiffer
    <3> QED
      BY <2>1, <3>1, Names
  <2>6. Red(s) \notin Permissive
    BY Names
  <2> QED
    BY <1>2, <2>1, <2>3, <2>4, <2>5, <2>6
<1>3. CASE w = Command(Open(s), FALSE)
  <2>1. w \in Commands /\ w.on = FALSE /\ w.coil = Open(s)
    BY <1>3, CommandFields, CommandsDiffer
  <2>2. \A t \in Sides : /\ Command(Open(t), FALSE).coil = Open(t)
                         /\ Command(Red(t), TRUE).coil = Red(t)
    BY CommandFields, CommandsDiffer
  <2>3. ASSUME NEW t \in Sides PROVE w # Command(Red(t), TRUE)
    <3>1. Command(Red(t), TRUE).coil = Red(t) /\ Red(t) # Open(s)
      BY <2>2, Names
    <3> QED
      BY <2>1, <3>1
  <2>4. ASSUME NEW t \in Sides, w = Command(Open(t), FALSE) PROVE t = s
    BY <2>1, <2>2, <2>4, Names
  <2>5. \A t \in Sides : w # Command(Buzzer, FALSE) /\ w # Command(Green(t), FALSE)
    <3>1. /\ Command(Buzzer, FALSE).coil = Buzzer
          /\ \A t \in Sides : Command(Green(t), FALSE).coil = Green(t)
      BY CommandFields, CommandsDiffer
    <3> QED
      BY <2>1, <3>1, Names
  <2>6. Open(s) \in Permissive
    BY Names
  <2> QED
    BY <1>3, <2>1, <2>3, <2>4, <2>5, <2>6
<1> QED
  BY <1>1, <1>2, <1>3

\* Lemma: the safe state, write by write.
LEMMA RestGoesOn ==
  /\ Rest(0) = SafeState /\ Rest(7) = << >>
  /\ \A n \in 0..6 : /\ Rest(n) \in Seq(Commands) /\ Len(Rest(n)) = 7 - n
                     /\ Head(Rest(n)) = SafeState[n + 1]
                     /\ Tail(Rest(n)) = Rest(n + 1)
<1>1. Rest(0) = SafeState /\ Rest(7) = << >>
  BY SafeStateOrder, SubSeqFull, SubSeqEmpty DEF Rest
<1>2. ASSUME NEW n \in 0..6
      PROVE  /\ Rest(n) \in Seq(Commands) /\ Len(Rest(n)) = 7 - n
             /\ Head(Rest(n)) = SafeState[n + 1]
             /\ Tail(Rest(n)) = Rest(n + 1)
  <2>1. n + 1 \in 1..7 /\ 7 \in (n + 1)..7
    OBVIOUS
  <2>2. Head(Rest(n)) = SafeState[n + 1] /\ Tail(Rest(n)) = Rest(n + 1)
    BY <2>1, SafeStateOrder, HeadTailOfSubSeq DEF Rest
  <2>3. Rest(n) \in Seq(Commands) /\ Len(Rest(n)) = 7 - n
    <3>1. SafeState \in Seq(Commands) /\ Len(SafeState) = 7
      BY SafeStateOrder
    <3>2. \A i \in (n + 1)..7 : SafeState[i] \in Commands
      <4>1. \A i \in (n + 1)..7 : i \in 1..7
        OBVIOUS
      <4> QED
        BY <3>1, <4>1, ElementOfSeq
    <3>3. n + 1 \in Int /\ 7 \in Int /\ n + 1 <= 7 /\ 7 - (n + 1) + 1 = 7 - n
      OBVIOUS
    <3> QED
      BY <3>2, <3>3, SubSeqProperties DEF Rest
  <2> QED
    BY <2>2, <2>3
<1> QED
  BY <1>1, <1>2

\* Lemma: the coils written grow by one with each write, up to all of them.
LEMMA SweptGrows ==
  /\ Swept(0) = {} /\ Swept(7) = Coils
  /\ \A n \in 0..6 : Swept(n + 1) = Swept(n) \cup {SafeState[n + 1].coil}
<1>1. Swept(0) = {}
  BY DEF Swept
<1>2. \A n \in 0..6 : Swept(n + 1) = Swept(n) \cup {SafeState[n + 1].coil}
  BY DEF Swept
<1>3. \A i \in 1..7 : SafeState[i].coil \in Coils
  <2>1. \A i \in 1..7 : SafeState[i] \in Commands
    <3>1. SafeState \in Seq(Commands) /\ Len(SafeState) = 7
      BY SafeStateOrder
    <3> QED
      BY <3>1, ElementOfSeq
  <2> QED
    BY <2>1 DEF Commands
<1>4. \A c \in Coils : \E i \in 1..7 : SafeState[i].coil = c
  <2>1. \A c \in Coils : c = Buzzer \/ \E s \in Sides : c \in {Green(s), Red(s), Open(s)}
    BY DEF Coils, Permissive, Green, Red, Open, Sides
  <2>2. \A c \in Coils : c \in {Buzzer, Green("ENTRY"), Red("ENTRY"), Green("EXIT"),
                                Red("EXIT"), Open("ENTRY"), Open("EXIT")}
    BY <2>1 DEF Sides
  <2>3. /\ SafeState[1].coil = Buzzer
        /\ SafeState[2].coil = Green("ENTRY") /\ SafeState[3].coil = Red("ENTRY")
        /\ SafeState[4].coil = Green("EXIT") /\ SafeState[5].coil = Red("EXIT")
        /\ SafeState[6].coil = Open("ENTRY") /\ SafeState[7].coil = Open("EXIT")
    BY SafeStateOrder DEF Command
  <2> QED
    BY <2>2, <2>3
<1> QED
  BY <1>1, <1>2, <1>3, <1>4 DEF Swept

\* Lemma: it turns off all but the red lights, and a green light before its red
\* one goes on and before its open request is withdrawn.
LEMMA SafeStateIsSafe ==
  ASSUME NEW n \in 0..6
  PROVE  /\ SafeState[n + 1] \in Commands
         /\ SafeState[n + 1].on <=> SafeState[n + 1].coil \notin Permissive
         /\ \A s \in Sides :
              /\ SafeState[n + 1] = Command(Open(s), FALSE) => Green(s) \in Swept(n)
              /\ SafeState[n + 1] = Command(Red(s), TRUE) => Green(s) \in Swept(n)
<1>1. "ENTRY" \in Sides /\ "EXIT" \in Sides
  BY DEF Sides
<1>2. SafeState[2].coil = Green("ENTRY") /\ SafeState[4].coil = Green("EXIT")
  BY SafeStateOrder DEF Command
<1>3. /\ n >= 2 => Green("ENTRY") \in Swept(n)
      /\ n >= 4 => Green("EXIT") \in Swept(n)
  BY <1>2 DEF Swept
<1>4. \/ \E s \in Sides :
           SafeState[n + 1] \in {Command(Buzzer, FALSE), Command(Green(s), FALSE)}
      \/ \E s \in Sides : SafeState[n + 1] = Command(Red(s), TRUE) /\ Green(s) \in Swept(n)
      \/ \E s \in Sides : SafeState[n + 1] = Command(Open(s), FALSE) /\ Green(s) \in Swept(n)
  <2>1. n \in {0, 1, 3} => n + 1 \in {1, 2, 4}
    OBVIOUS
  <2>2. ASSUME n = 2 PROVE n + 1 = 3 /\ Green("ENTRY") \in Swept(n)
    BY <1>3, <2>2
  <2>3. ASSUME n = 4 PROVE n + 1 = 5 /\ Green("EXIT") \in Swept(n)
    BY <1>3, <2>3
  <2>4. ASSUME n = 5 PROVE n + 1 = 6 /\ Green("ENTRY") \in Swept(n)
    BY <1>3, <2>4
  <2>5. ASSUME n = 6 PROVE n + 1 = 7 /\ Green("EXIT") \in Swept(n)
    BY <1>3, <2>5
  <2>6. CASE n \in {0, 1, 3}
    BY <1>1, <2>1, <2>6, SafeStateOrder
  <2>7. CASE n = 2
    BY <1>1, <2>2, <2>7, SafeStateOrder
  <2>8. CASE n = 4
    BY <1>1, <2>3, <2>8, SafeStateOrder
  <2>9. CASE n = 5
    BY <1>1, <2>4, <2>9, SafeStateOrder
  <2>10. CASE n = 6
    BY <1>1, <2>5, <2>10, SafeStateOrder
  <2>11. n \in {0, 1, 3} \/ n = 2 \/ n = 4 \/ n = 5 \/ n = 6
    OBVIOUS
  <2> QED
    BY <2>6, <2>7, <2>8, <2>9, <2>10, <2>11
<1>5. CASE \E s \in Sides :
             SafeState[n + 1] \in {Command(Buzzer, FALSE), Command(Green(s), FALSE)}
  <2>1. PICK s \in Sides :
             SafeState[n + 1] \in {Command(Buzzer, FALSE), Command(Green(s), FALSE)}
    BY <1>5
  <2> QED
    BY <2>1, SafeCommands
<1>6. CASE \E s \in Sides :
             SafeState[n + 1] = Command(Red(s), TRUE) /\ Green(s) \in Swept(n)
  <2>1. PICK s \in Sides :
             SafeState[n + 1] = Command(Red(s), TRUE) /\ Green(s) \in Swept(n)
    BY <1>6
  <2> QED
    BY <2>1, SafeCommands
<1>7. CASE \E s \in Sides :
             SafeState[n + 1] = Command(Open(s), FALSE) /\ Green(s) \in Swept(n)
  <2>1. PICK s \in Sides :
             SafeState[n + 1] = Command(Open(s), FALSE) /\ Green(s) \in Swept(n)
    BY <1>7
  <2> QED
    BY <2>1, SafeCommands
<1> QED
  BY <1>4, <1>5, <1>6, <1>7

-----------------------------------------------------------------------------
(* The invariant.                                                          *)

Types ==
  /\ coils \subseteq Coils /\ stray \subseteq Coils
  /\ safeApplied \in BOOLEAN /\ applied \subseteq Permissive
  /\ pulse \in {"NONE", "ON", "OVER"} /\ waiting \subseteq Sides
  /\ poll \in Polls
  /\ poll.todo = << >> <=> poll.pc \notin {"SAFE", "WRITE", "SHUTDOWN"}
  /\ late \in Seq(Commands) /\ Len(late) <= 1
  /\ late # << >> => poll.pc \in Stopping

Lights == GreenOnlyOverOpenRequest /\ RedAndGreenExclude

\* Where a command's writes are: before the first, or before the second of two.
Writing ==
  \/ poll.todo = writes(command) /\ coils = Shown(applied)
  \/ \E s \in Sides :
       /\ command = Command(Green(s), TRUE)
       /\ poll.todo = <<Command(Green(s), TRUE)>>
       /\ coils = Set(Shown(applied), Command(Red(s), FALSE))
  \/ \E s \in Sides :
       /\ command = Command(Green(s), FALSE)
       /\ poll.todo = <<Command(Red(s), TRUE)>>
       /\ coils = Set(Shown(applied), Command(Green(s), FALSE))

\* Once the outputs are in a known state, the device shows what was applied,
\* and what is still to be given is a plan.
Controlled ==
  /\ safeApplied => stray = {} /\ poll.pc \notin Stopping /\ GreenOverOpen(applied)
  /\ poll.pc \in {"OBSERVE", "RECONCILE", "COMMAND", "WRITE", "RESULT"} => safeApplied
  /\ safeApplied /\ poll.pc \in {"READ", "OBSERVE", "RECONCILE", "COMMAND"} =>
       coils = Shown(applied)
  /\ poll.pc \in {"COMMAND", "WRITE", "RESULT"} =>
       Plan(poll.plan, poll.desired, poll.in, applied)
  /\ poll.pc \in {"WRITE", "RESULT"} =>
       poll.plan # << >> /\ (command.on => command.coil \in poll.audited)
  /\ poll.pc = "WRITE" => Writing
  /\ poll.pc = "RESULT" => coils = Shown(After(command, applied))

\* The first n writes of a safe state are done.  What they set stays, but for
\* the one coil that a late write of the poll loop can set.
SweptTo(n) ==
  /\ poll.todo = Rest(n)
  /\ \A c \in Swept(n) : c \in stray \/ (c \in coils <=> c \notin Permissive)
  /\ poll.pc \in {"SAFE", "APPLIED"} \/ late # << >> => Swept(n) \cap stray = {}
  /\ \E x : Swept(n) \cap stray \subseteq {x}

Sweeping ==
  poll.pc \in {"SAFE", "APPLIED", "SHUTDOWN", "STOPPED"} => \E n \in 0..7 : SweptTo(n)

\* A permissive write that is allowed: recorded, and over open barriers.
Granted(w) ==
  w.on /\ w.coil \in Permissive =>
    /\ w.coil \in poll.audited
    /\ \A s \in Sides : w.coil = Green(s) => poll.in[s] = "OPEN"
    /\ w.coil = Buzzer => \A s \in Sides : Open(s) \in poll.desired => poll.in[s] = "OPEN"

LateOK ==
  late # << >> =>
    /\ Granted(Head(late))
    /\ \A s \in Sides : Head(late) = Command(Open(s), FALSE) => Green(s) \notin coils \ stray

\* A write that leaves red, green and open as they should be to each other.
Harmless(w) ==
  \A s \in Sides :
    /\ w = Command(Open(s), FALSE) => Green(s) \notin coils \ stray
    /\ w = Command(Green(s), TRUE) => Open(s) \in coils /\ Red(s) \notin coils \ stray
    /\ w = Command(Red(s), TRUE) => Green(s) \notin coils \ stray

\* Lemma: what a harmless write leaves when it reaches the device.
LEMMA ReachKeeps ==
  ASSUME coils \subseteq Coils, stray \subseteq Coils, Lights,
         Head(poll.todo) \in Commands, Harmless(Head(poll.todo)), Reach
  PROVE  /\ Lights' /\ coils' \subseteq Coils /\ stray' \subseteq Coils
         /\ \A s \in Sides : Green(s) \notin coils \ stray
                               /\ Head(poll.todo) # Command(Green(s), TRUE) =>
                             Green(s) \notin coils' \ stray'
<1> DEFINE w == Head(poll.todo)
<1>1. /\ w \in Commands /\ w.coil \in Coils /\ w.on \in BOOLEAN
      /\ w = Command(w.coil, w.on) /\ stray' = stray \ {w.coil}
  BY CommandIs DEF Commands, Reach
<1> HIDE DEF w
<1>2. CASE w.on = TRUE
  <2>1. coils' = coils \cup {w.coil}
    BY <1>2 DEF Reach, set, w
  <2>2. ASSUME NEW s \in Sides
        PROVE  /\ w.coil = Green(s) => Open(s) \in coils /\ Red(s) \notin coils \ stray
               /\ w.coil = Red(s) => Green(s) \notin coils \ stray
    BY <1>1, <1>2 DEF Harmless, w
  <2>3. GreenOnlyOverOpenRequest'
    BY <1>1, <2>1, <2>2, Names DEF Lights, GreenOnlyOverOpenRequest
  <2>4. RedAndGreenExclude'
    BY <1>1, <2>1, <2>2, Names DEF Lights, RedAndGreenExclude
  <2>5. ASSUME NEW s \in Sides, Green(s) \notin coils \ stray, w # Command(Green(s), TRUE)
        PROVE  Green(s) \notin coils' \ stray'
    <3>1. w.coil # Green(s)
      BY <1>1, <1>2, <2>5
    <3> QED
      BY <1>1, <2>1, <2>5, <3>1
  <2> QED
    BY <1>1, <2>1, <2>3, <2>4, <2>5 DEF Lights, w
<1>3. CASE w.on = FALSE
  <2>1. coils' = coils \ {w.coil}
    BY <1>3 DEF Reach, set, w
  <2>2. ASSUME NEW s \in Sides
        PROVE  w.coil = Open(s) => Green(s) \notin coils \ stray
    BY <1>1, <1>3 DEF Harmless, w
  <2>3. GreenOnlyOverOpenRequest'
    BY <1>1, <2>1, <2>2, Names DEF Lights, GreenOnlyOverOpenRequest
  <2>4. RedAndGreenExclude'
    BY <1>1, <2>1, Names DEF Lights, RedAndGreenExclude
  <2> QED
    BY <1>1, <2>1, <2>3, <2>4 DEF Lights, w
<1> QED
  BY <1>1, <1>2, <1>3

-----------------------------------------------------------------------------
(* The writes of a command.                                                *)

\* Lemma: what the command about to be written can be.
LEMMA CommandGiven ==
  ASSUME Types, Controlled, poll.pc \in {"COMMAND", "WRITE", "RESULT"}, poll.plan # << >>
  PROVE  /\ command \in Commands /\ command.coil \in Permissive
         /\ Fits(command, poll.desired, poll.in)
         /\ Plan(Tail(poll.plan), poll.desired, poll.in, After(command, applied))
         /\ safeApplied /\ stray = {} /\ GreenOverOpen(applied)
         /\ GreenOverOpen(After(command, applied))
         /\ \A s \in Sides : command = Command(Open(s), FALSE) => Green(s) \notin applied
<1>1. Plan(poll.plan, poll.desired, poll.in, applied) /\ safeApplied
  BY DEF Controlled
<1>2. stray = {} /\ GreenOverOpen(applied)
  BY <1>1 DEF Controlled
<1>3. /\ command \in Commands /\ Fits(command, poll.desired, poll.in)
      /\ Plan(Tail(poll.plan), poll.desired, poll.in, After(command, applied))
      /\ GreenOverOpen(applied) => GreenOverOpen(After(command, applied))
      /\ \A s \in Sides : command = Command(Open(s), FALSE) => Green(s) \notin applied
  <2> DEFINE p == poll.plan
             d == poll.desired
             in == poll.in
  <2>1. Plan(p, d, in, applied) /\ p # << >>
    BY <1>1
  <2> HIDE DEF p, d, in
  <2>2. /\ Head(p) \in Commands /\ Fits(Head(p), d, in)
        /\ Plan(Tail(p), d, in, After(Head(p), applied))
        /\ GreenOverOpen(applied) => GreenOverOpen(After(Head(p), applied))
        /\ \A s \in Sides : Head(p) = Command(Open(s), FALSE) => Green(s) \notin applied
    BY <2>1, PlanGoesOn
  <2> QED
    BY <2>2 DEF command, p, d, in
<1> QED
  BY <1>1, <1>2, <1>3 DEF Fits

\* Lemma: a permissive command of the plan is granted once it is recorded.
LEMMA GivenIsGranted ==
  ASSUME NEW c \in Commands, Fits(c, poll.desired, poll.in),
         c.on => c.coil \in poll.audited
  PROVE  Granted(c)
BY CommandIs DEF Fits, Granted, Commands

\* Lemma: where a command that is being written is.
LEMMA WriteCases ==
  ASSUME Types, Controlled, poll.pc = "WRITE"
  PROVE  \/ /\ \A s \in Sides : command.coil # Green(s)
            /\ poll.todo = <<command>> /\ coils = Shown(applied)
         \/ \E s \in Sides :
              /\ command = Command(Green(s), TRUE) /\ coils = Shown(applied)
              /\ poll.todo = <<Command(Red(s), FALSE), Command(Green(s), TRUE)>>
         \/ \E s \in Sides :
              /\ command = Command(Green(s), TRUE)
              /\ coils = Set(Shown(applied), Command(Red(s), FALSE))
              /\ poll.todo = <<Command(Green(s), TRUE)>>
         \/ \E s \in Sides :
              /\ command = Command(Green(s), FALSE) /\ coils = Shown(applied)
              /\ poll.todo = <<Command(Green(s), FALSE), Command(Red(s), TRUE)>>
         \/ \E s \in Sides :
              /\ command = Command(Green(s), FALSE)
              /\ coils = Set(Shown(applied), Command(Green(s), FALSE))
              /\ poll.todo = <<Command(Red(s), TRUE)>>
<1>1. command \in Commands /\ command.coil \in Permissive
  BY CommandGiven DEF Controlled
<1>2. Writing
  BY DEF Controlled
<1> QED
  BY <1>1, <1>2, WritesAre DEF Writing

\* Lemma: a single write, and the first and the second of two.
LEMMA OneWrite ==
  ASSUME NEW a PROVE Head(<<a>>) = a /\ Tail(<<a>>) = << >> /\ Len(<<a>>) = 1
OBVIOUS

\* Lemma: the parts of a command of two writes.
LEMMA TwoWrites ==
  ASSUME NEW a, NEW b
  PROVE  Head(<<a, b>>) = a /\ Tail(<<a, b>>) = <<b>> /\ Len(<<a, b>>) = 2
OBVIOUS

\* Lemma: the next write of a command is harmless and, if it is permissive,
\* granted; after the last one the device shows the command.
LEMMA NextWrite ==
  ASSUME Types, Controlled, poll.pc = "WRITE"
  PROVE  LET w == Head(poll.todo)
         IN /\ w \in Commands /\ Harmless(w) /\ Granted(w)
            /\ \/ /\ Len(poll.todo) = 1 /\ Tail(poll.todo) = << >>
                  /\ Set(coils, w) = Shown(After(command, applied))
               \/ /\ Len(poll.todo) = 2
                  /\ \/ \E s \in Sides :
                          /\ command = Command(Green(s), TRUE)
                          /\ Tail(poll.todo) = <<Command(Green(s), TRUE)>>
                          /\ Set(coils, w) = Set(Shown(applied), Command(Red(s), FALSE))
                     \/ \E s \in Sides :
                          /\ command = Command(Green(s), FALSE)
                          /\ Tail(poll.todo) = <<Command(Red(s), TRUE)>>
                          /\ Set(coils, w) = Set(Shown(applied), Command(Green(s), FALSE))
<1> DEFINE w == Head(poll.todo)
           Goal == /\ w \in Commands /\ Harmless(w) /\ Granted(w)
                   /\ \/ /\ Len(poll.todo) = 1 /\ Tail(poll.todo) = << >>
                         /\ Set(coils, w) = Shown(After(command, applied))
                      \/ /\ Len(poll.todo) = 2
                         /\ \/ \E s \in Sides :
                                 /\ command = Command(Green(s), TRUE)
                                 /\ Tail(poll.todo) = <<Command(Green(s), TRUE)>>
                                 /\ Set(coils, w) = Set(Shown(applied), Command(Red(s), FALSE))
                            \/ \E s \in Sides :
                                 /\ command = Command(Green(s), FALSE)
                                 /\ Tail(poll.todo) = <<Command(Red(s), TRUE)>>
                                 /\ Set(coils, w) = Set(Shown(applied), Command(Green(s), FALSE))
<1>1. /\ command \in Commands /\ command.coil \in Permissive
      /\ Fits(command, poll.desired, poll.in) /\ stray = {}
      /\ GreenOverOpen(applied) /\ GreenOverOpen(After(command, applied))
      /\ \A s \in Sides : command = Command(Open(s), FALSE) => Green(s) \notin applied
  BY CommandGiven DEF Controlled
<1>2. Granted(command)
  BY <1>1, GivenIsGranted DEF Controlled
<1>3. applied \subseteq Permissive
  BY DEF Types
<1>4. \A s \in Sides :
        /\ Command(Green(s), TRUE) \in Commands /\ Command(Red(s), FALSE) \in Commands
        /\ Command(Green(s), FALSE) \in Commands /\ Command(Red(s), TRUE) \in Commands
        /\ Granted(Command(Green(s), FALSE)) /\ Granted(Command(Red(s), FALSE))
        /\ Granted(Command(Red(s), TRUE))
  BY CommandFields, CommandsDiffer, Names DEF Granted
<1>5. CASE /\ \A s \in Sides : command.coil # Green(s)
           /\ poll.todo = <<command>> /\ coils = Shown(applied)
  <2>1. w = command /\ Len(poll.todo) = 1 /\ Tail(poll.todo) = << >>
    BY <1>5, OneWrite
  <2>2. Set(coils, command) = Shown(After(command, applied))
    BY <1>1, <1>3, <1>5, WriteShows
  <2>3. Harmless(command)
    <3>1. \A s \in Sides : /\ command # Command(Green(s), TRUE)
                           /\ command # Command(Red(s), TRUE)
      <4>1. \A s \in Sides : /\ Command(Green(s), TRUE).coil = Green(s)
                             /\ Command(Red(s), TRUE).coil = Red(s)
        BY CommandFields, CommandsDiffer
      <4> QED
        BY <1>1, <1>5, <4>1, Names
    <3>2. \A s \in Sides : Green(s) \in coils => Green(s) \in applied
      BY <1>5, Names DEF Shown
    <3> QED
      BY <1>1, <3>1, <3>2 DEF Harmless
  <2> QED
    BY <1>1, <1>2, <2>1, <2>2, <2>3
<1>6. ASSUME NEW s \in Sides, command = Command(Green(s), TRUE), coils = Shown(applied),
             poll.todo = <<Command(Red(s), FALSE), Command(Green(s), TRUE)>>
      PROVE  Goal
  <2>1. /\ w = Command(Red(s), FALSE) /\ Len(poll.todo) = 2
        /\ Tail(poll.todo) = <<Command(Green(s), TRUE)>>
    BY <1>6, TwoWrites
  <2>2. Harmless(Command(Red(s), FALSE))
    BY CommandsDiffer, Names DEF Harmless
  <2> QED
    BY <1>4, <1>6, <2>1, <2>2
<1>7. ASSUME NEW s \in Sides, command = Command(Green(s), TRUE),
             coils = Set(Shown(applied), Command(Red(s), FALSE)),
             poll.todo = <<Command(Green(s), TRUE)>>
      PROVE  Goal
  <2>1. /\ w = Command(Green(s), TRUE) /\ Len(poll.todo) = 1
        /\ Tail(poll.todo) = << >>
    BY <1>7, OneWrite
  <2>2. Set(coils, w) = Shown(After(command, applied))
    BY <1>3, <1>7, <2>1, GreenShows
  <2>3. Harmless(Command(Green(s), TRUE))
    <3>1. coils = Shown(applied) \ {Red(s)}
      BY <1>7, CommandFields, CommandsDiffer DEF Set
    <3>2. Open(s) \in applied
      <4>1. After(command, applied) = applied \cup {Green(s)}
        BY <1>7, CommandFields, CommandsDiffer DEF After
      <4> QED
        BY <1>1, <4>1, Names DEF GreenOverOpen
    <3>3. Open(s) \in coils /\ Red(s) \notin coils
      BY <3>1, <3>2, Names DEF Shown
    <3>4. ASSUME NEW t \in Sides
          PROVE  /\ Command(Green(s), TRUE) # Command(Open(t), FALSE)
                 /\ Command(Green(s), TRUE) # Command(Red(t), TRUE)
                 /\ Command(Green(s), TRUE) = Command(Green(t), TRUE) => s = t
      <4>1. /\ Command(Green(s), TRUE).coil = Green(s) /\ Command(Green(t), TRUE).coil = Green(t)
            /\ Command(Open(t), FALSE).coil = Open(t) /\ Command(Red(t), TRUE).coil = Red(t)
        BY CommandFields, CommandsDiffer
      <4> QED
        BY <4>1, Names
    <3> QED
      BY <3>3, <3>4 DEF Harmless
  <2> QED
    BY <1>2, <1>4, <1>7, <2>1, <2>2, <2>3
<1>8. ASSUME NEW s \in Sides, command = Command(Green(s), FALSE), coils = Shown(applied),
             poll.todo = <<Command(Green(s), FALSE), Command(Red(s), TRUE)>>
      PROVE  Goal
  <2>1. /\ w = Command(Green(s), FALSE) /\ Len(poll.todo) = 2
        /\ Tail(poll.todo) = <<Command(Red(s), TRUE)>>
    BY <1>8, TwoWrites
  <2>2. Harmless(Command(Green(s), FALSE))
    BY CommandsDiffer, Names DEF Harmless
  <2> QED
    BY <1>4, <1>8, <2>1, <2>2
<1>9. ASSUME NEW s \in Sides, command = Command(Green(s), FALSE),
             coils = Set(Shown(applied), Command(Green(s), FALSE)),
             poll.todo = <<Command(Red(s), TRUE)>>
      PROVE  Goal
  <2>1. /\ w = Command(Red(s), TRUE) /\ Len(poll.todo) = 1
        /\ Tail(poll.todo) = << >>
    BY <1>9, OneWrite
  <2>2. Set(coils, w) = Shown(After(command, applied))
    BY <1>3, <1>9, <2>1, GreenShows
  <2>3. Harmless(Command(Red(s), TRUE))
    <3>1. Green(s) \notin coils
      BY <1>9, CommandFields, CommandsDiffer DEF Set
    <3>2. ASSUME NEW t \in Sides
          PROVE  /\ Command(Red(s), TRUE) # Command(Open(t), FALSE)
                 /\ Command(Red(s), TRUE) # Command(Green(t), TRUE)
                 /\ Command(Red(s), TRUE) = Command(Red(t), TRUE) => s = t
      <4>1. /\ Command(Red(s), TRUE).coil = Red(s) /\ Command(Red(t), TRUE).coil = Red(t)
            /\ Command(Open(t), FALSE).coil = Open(t) /\ Command(Green(t), TRUE).coil = Green(t)
        BY CommandFields, CommandsDiffer
      <4> QED
        BY <4>1, Names
    <3> QED
      BY <3>1, <3>2 DEF Harmless
  <2> QED
    BY <1>4, <1>9, <2>1, <2>2, <2>3
<1> QED
  BY <1>5, <1>6, <1>7, <1>8, <1>9, WriteCases

-----------------------------------------------------------------------------
(* The writes of a safe state.                                             *)

\* Lemma: the next one is harmless, and permits nothing.
LEMMA NextSafeWrite ==
  ASSUME Types, Sweeping, poll.pc \in {"SAFE", "SHUTDOWN"}
  PROVE  \E n \in 0..6 :
           /\ SweptTo(n)
           /\ Head(poll.todo) = SafeState[n + 1] /\ Tail(poll.todo) = Rest(n + 1)
           /\ Len(poll.todo) = 7 - n
           /\ Head(poll.todo) \in Commands
           /\ Harmless(Head(poll.todo)) /\ Granted(Head(poll.todo))
<1>1. PICK n \in 0..7 : SweptTo(n)
  BY DEF Sweeping
<1>2. n \in 0..6
  <2>1. poll.todo # << >>
    BY DEF Types
  <2>2. n # 7
    BY <1>1, <2>1, RestGoesOn DEF SweptTo
  <2> QED
    BY <2>2
<1>3. /\ poll.todo = Rest(n)
      /\ \A c \in Swept(n) : c \in stray \/ (c \in coils <=> c \notin Permissive)
  BY <1>1 DEF SweptTo
<1>4. /\ Head(poll.todo) = SafeState[n + 1] /\ Tail(poll.todo) = Rest(n + 1)
      /\ Len(poll.todo) = 7 - n
  BY <1>2, <1>3, RestGoesOn
<1> DEFINE w == Head(poll.todo)
<1>5. /\ w \in Commands /\ (w.on <=> w.coil \notin Permissive)
      /\ \A s \in Sides : /\ w = Command(Open(s), FALSE) => Green(s) \in Swept(n)
                          /\ w = Command(Red(s), TRUE) => Green(s) \in Swept(n)
  BY <1>2, <1>4, SafeStateIsSafe
<1> HIDE DEF w
<1>6. \A s \in Sides : Green(s) \in Swept(n) => Green(s) \notin coils \ stray
  BY <1>3, Names
<1>7. \A s \in Sides : w # Command(Green(s), TRUE)
  <2>1. \A s \in Sides : /\ Command(Green(s), TRUE).coil = Green(s)
                         /\ Command(Green(s), TRUE).on = TRUE
    BY CommandFields, CommandsDiffer
  <2> QED
    BY <1>5, <2>1, Names
<1>8. Harmless(w)
  BY <1>5, <1>6, <1>7 DEF Harmless
<1>9. Granted(w)
  BY <1>5 DEF Granted
<1> QED
  BY <1>1, <1>2, <1>4, <1>5, <1>8, <1>9 DEF w

\* Lemma: with it the safe state is one coil further.
LEMMA SweepGoesOn ==
  ASSUME NEW n \in 0..6, SweptTo(n), Reach,
         Head(poll.todo) = SafeState[n + 1], poll'.todo = Rest(n + 1),
         poll'.pc \in {"SAFE", "APPLIED"} => poll.pc \in {"SAFE", "APPLIED"}
  PROVE  SweptTo(n + 1)'
<1> DEFINE w == SafeState[n + 1]
<1>1. /\ w \in Commands /\ (w.on <=> w.coil \notin Permissive)
      /\ Swept(n + 1) = Swept(n) \cup {w.coil}
  BY SafeStateIsSafe, SweptGrows
<1>2. /\ coils' = Set(coils, w) /\ stray' = stray \ {w.coil} /\ late' = late
  BY DEF Reach, set, Set
<1> HIDE DEF w
<1>3. /\ \A c \in Swept(n) : c \in stray \/ (c \in coils <=> c \notin Permissive)
      /\ poll.pc \in {"SAFE", "APPLIED"} \/ late # << >> => Swept(n) \cap stray = {}
      /\ \E x : Swept(n) \cap stray \subseteq {x}
  BY DEF SweptTo
<1>4. ASSUME NEW c \in Swept(n + 1)
      PROVE  c \in stray' \/ (c \in coils' <=> c \notin Permissive)
  <2>1. CASE c = w.coil
    BY <1>1, <1>2, <2>1 DEF Set
  <2>2. CASE c # w.coil
    BY <1>1, <1>2, <1>3, <1>4, <2>2 DEF Set
  <2> QED
    BY <2>1, <2>2
<1>5. Swept(n + 1) \cap stray' \subseteq Swept(n) \cap stray
  BY <1>1, <1>2
<1>6. poll'.pc \in {"SAFE", "APPLIED"} \/ late' # << >> => Swept(n + 1) \cap stray' = {}
  BY <1>2, <1>3, <1>5
<1>7. \E x : Swept(n + 1) \cap stray' \subseteq {x}
  BY <1>3, <1>5
<1> QED
  BY <1>4, <1>6, <1>7 DEF SweptTo

\* Lemma: it starts with nothing done, and is done with every coil.
LEMMA SweepStarts ==
  poll'.todo = SafeState => SweptTo(0)'
BY RestGoesOn, SweptGrows DEF SweptTo

\* Lemma: when nothing is left to write, every coil was written.
LEMMA SweepEnds ==
  ASSUME NEW n \in 0..7, SweptTo(n), poll.todo = << >>
  PROVE  n = 7 /\ Swept(n) = Coils
<1>1. Len(poll.todo) = 0
  OBVIOUS
<1>2. ASSUME n \in 0..6 PROVE FALSE
  <2>1. poll.todo = Rest(n)
    BY DEF SweptTo
  <2>2. Len(Rest(n)) = 7 - n
    BY <1>2, RestGoesOn
  <2>3. 7 - n # 0
    BY <1>2
  <2> QED
    BY <1>1, <2>1, <2>2, <2>3
<1> QED
  BY <1>1, <1>2, SweptGrows

-----------------------------------------------------------------------------
(* The steps.                                                              *)

\* The inductive invariant, over a sound workflow.
Inv == Types /\ Lights /\ Controlled /\ Sweeping /\ LateOK

\* Lemma: between two polls of a running process there is only the device to
\* be said something of.
LEMMA IdleIsFine ==
  ASSUME coils' \subseteq Coils, stray' \subseteq Coils, Lights',
         safeApplied' = FALSE, applied' \subseteq Permissive,
         pulse' \in {"NONE", "ON", "OVER"}, waiting' \subseteq Sides,
         poll' = Idle, late' = << >>
  PROVE  Inv'
<1>1. Idle \in Polls /\ Idle.pc = "READ" /\ Idle.todo = << >>
  BY DEF Idle, Polls, Unread, Feedbacks
<1>2. Types'
  <2>1. << >> \in Seq(Commands) /\ Len(<< >>) <= 1
    OBVIOUS
  <2>2. poll' \in Polls /\ (poll'.todo = << >> <=> poll'.pc \notin {"SAFE", "WRITE", "SHUTDOWN"})
    BY <1>1
  <2>3. late' \in Seq(Commands) /\ Len(late') <= 1 /\ (late' # << >> => poll'.pc \in Stopping)
    BY <2>1
  <2> QED
    BY <2>2, <2>3 DEF Types
<1>3. Controlled' /\ Sweeping' /\ LateOK'
  BY <1>1 DEF Controlled, Sweeping, LateOK
<1> QED
  BY <1>2, <1>3 DEF Inv

\* Lemma: an unchanged device shows what it showed.
LEMMA DeviceStays ==
  ASSUME Lights, coils' = coils, stray' = stray
  PROVE  Lights'
BY DEF Lights, GreenOnlyOverOpenRequest, RedAndGreenExclude

\* Lemma: the next write, of whatever it is part.
LEMMA NextIsHarmless ==
  ASSUME Inv, poll.todo # << >>
  PROVE  /\ Head(poll.todo) \in Commands /\ Harmless(Head(poll.todo))
         /\ Granted(Head(poll.todo))
<1>1. poll.pc \in {"SAFE", "WRITE", "SHUTDOWN"}
  BY DEF Inv, Types
<1>2. CASE poll.pc = "WRITE"
  BY <1>2, NextWrite DEF Inv
<1>3. CASE poll.pc \in {"SAFE", "SHUTDOWN"}
  BY <1>3, NextSafeWrite DEF Inv
<1> QED
  BY <1>1, <1>2, <1>3

\* Lemma: a write that reaches the device or not.
LEMMA WriteOrNot ==
  ASSUME Inv, poll.todo # << >>, Reach \/ UNCHANGED device
  PROVE  /\ Lights' /\ coils' \subseteq Coils /\ stray' \subseteq Coils /\ late' = late
         /\ \A s \in Sides : Green(s) \notin coils \ stray
                               /\ Head(poll.todo) # Command(Green(s), TRUE) =>
                             Green(s) \notin coils' \ stray'
<1>1. CASE Reach
  BY <1>1, NextIsHarmless, ReachKeeps DEF Inv, Types, Reach
<1>2. CASE UNCHANGED device
  BY <1>2, DeviceStays DEF Inv, Types, device
<1> QED
  BY <1>1, <1>2

\* Lemma: an I/O fault distrusts the outputs, whatever became of the write.
LEMMA FaultStep ==
  ASSUME Inv, poll.pc \notin Stopping, NEW devices, ioFault(devices),
         \/ UNCHANGED device
         \/ poll.todo # << >> /\ Reach
  PROVE  Inv'
<1>1. /\ safeApplied' = FALSE /\ poll' = Idle
      /\ applied' = applied /\ pulse' = pulse /\ waiting' = waiting
  BY DEF ioFault
<1>2. late = << >>
  BY DEF Inv, Types
<1>3. Lights' /\ coils' \subseteq Coils /\ stray' \subseteq Coils /\ late' = << >>
  BY <1>2, WriteOrNot, DeviceStays DEF Inv, Types, device
<1>4. /\ applied \subseteq Permissive /\ pulse \in {"NONE", "ON", "OVER"}
      /\ waiting \subseteq Sides
  BY DEF Inv, Types
<1> QED
  BY <1>1, <1>3, <1>4, IdleIsFine

\* Lemma: reading the inputs starts the safe state or goes on.
LEMMA ReadStep ==
  ASSUME Inv, NEW in \in Feedback, ReadInputs(in)
  PROVE  Inv'
<1>1. /\ poll.pc = "READ" /\ UNCHANGED <<coils, late, stray>>
      /\ UNCHANGED <<safeApplied, applied, pulse, waiting>>
      /\ late = << >> /\ safeApplied \in BOOLEAN
  BY DEF ReadInputs, device, controller, Inv, Types, Stopping
<1>2. Lights'
  BY <1>1, DeviceStays DEF Inv
<1>3. in \in Feedbacks
  BY RuntimeAssumption
<1>4. CASE safeApplied = TRUE
  <2>1. poll' = [Idle EXCEPT !.in = in, !.pc = "OBSERVE", !.todo = << >>]
    BY <1>4 DEF ReadInputs
  <2>2. poll' \in Polls /\ poll'.pc = "OBSERVE" /\ poll'.todo = << >>
    <3>1. poll' = [pc |-> "OBSERVE", in |-> in, desired |-> {}, plan |-> << >>,
                   todo |-> << >>, audited |-> {}]
      BY <2>1 DEF Idle
    <3> QED
      BY <1>3, <3>1 DEF Polls
  <2>3. Types'
    BY <1>1, <2>2 DEF Inv, Types
  <2>4. Controlled'
    BY <1>1, <1>4, <2>2 DEF Inv, Controlled, Stopping
  <2>5. Sweeping' /\ LateOK'
    BY <1>1, <2>2 DEF Sweeping, LateOK
  <2> QED
    BY <1>2, <2>3, <2>4, <2>5 DEF Inv
<1>5. CASE safeApplied = FALSE
  <2>1. poll' = [Idle EXCEPT !.in = in, !.pc = "SAFE", !.todo = SafeState]
    BY <1>5 DEF ReadInputs
  <2>2. /\ poll' \in Polls /\ poll'.pc = "SAFE" /\ poll'.todo = SafeState
        /\ SafeState # << >>
    <3>1. poll' = [pc |-> "SAFE", in |-> in, desired |-> {}, plan |-> << >>,
                   todo |-> SafeState, audited |-> {}]
      BY <2>1 DEF Idle
    <3>2. SafeState \in Seq(Commands) /\ SafeState # << >>
      BY SafeStateOrder
    <3> QED
      BY <1>3, <3>1, <3>2 DEF Polls
  <2>3. Types'
    BY <1>1, <2>2 DEF Inv, Types
  <2>4. Controlled'
    BY <1>1, <1>5, <2>2 DEF Controlled
  <2>5. Sweeping' /\ LateOK'
    BY <1>1, <2>2, SweepStarts DEF Sweeping, LateOK
  <2> QED
    BY <1>2, <2>3, <2>4, <2>5 DEF Inv
<1> QED
  BY <1>1, <1>4, <1>5

\* Lemma: a write that reaches the device brings a command, or a safe state, on
\* by one, and the last one ends it.
LEMMA WriteStep ==
  ASSUME Inv, WriteSingleCoil
  PROVE  Inv'
<1>1. /\ poll.pc \in {"SAFE", "WRITE", "SHUTDOWN"} /\ Reach
      /\ poll' = [poll EXCEPT !.todo = Tail(@), !.pc = afterWrite]
      /\ UNCHANGED <<safeApplied, applied, pulse, waiting>>
      /\ late' = late /\ poll.todo # << >>
  BY DEF WriteSingleCoil, controller, Reach, Inv, Types
<1>2. /\ poll \in Polls /\ poll.todo \in Seq(Commands) /\ poll.pc \notin {"STOPPED", "HALTED"}
      /\ Len(poll.todo) \in Nat \ {0}
      /\ Tail(poll.todo) \in Seq(Commands) /\ Len(Tail(poll.todo)) = Len(poll.todo) - 1
  BY <1>1 DEF Inv, Types, Polls
<1>3. /\ Lights' /\ coils' \subseteq Coils /\ stray' \subseteq Coils
      /\ \A s \in Sides : Green(s) \notin coils \ stray
                            /\ Head(poll.todo) # Command(Green(s), TRUE) =>
                          Green(s) \notin coils' \ stray'
  BY <1>1, WriteOrNot
<1>4. /\ Len(poll.todo) > 1 => afterWrite = poll.pc /\ Tail(poll.todo) # << >>
      /\ Len(poll.todo) <= 1 =>
           /\ poll.pc = "SAFE" => afterWrite = "APPLIED"
           /\ poll.pc = "WRITE" => afterWrite = "RESULT"
           /\ poll.pc = "SHUTDOWN" => afterWrite = "STOPPED"
           /\ Tail(poll.todo) = << >>
  BY <1>2 DEF afterWrite
<1>5. /\ afterWrite \in {"SAFE", "WRITE", "SHUTDOWN", "APPLIED", "RESULT", "STOPPED"}
      /\ Tail(poll.todo) = << >> <=> afterWrite \notin {"SAFE", "WRITE", "SHUTDOWN"}
      /\ poll.pc \in Stopping => afterWrite \in Stopping
  BY <1>1, <1>2, <1>4 DEF Stopping
<1>6. /\ poll' \in Polls /\ poll'.pc = afterWrite /\ poll'.todo = Tail(poll.todo)
      /\ poll'.in = poll.in /\ poll'.desired = poll.desired
      /\ poll'.plan = poll.plan /\ poll'.audited = poll.audited
  BY <1>1, <1>2, <1>5 DEF Polls, Stopping
<1>7. Types'
  BY <1>1, <1>3, <1>5, <1>6 DEF Inv, Types
<1>8. CASE poll.pc = "WRITE"
  <2>1. safeApplied = TRUE /\ stray = {} /\ late = << >> /\ GreenOverOpen(applied)
    BY <1>8 DEF Inv, Types, Controlled, Stopping
  <2>2. stray' = {}
    BY <1>1, <2>1 DEF Reach
  <2>3. afterWrite \in {"WRITE", "RESULT"}
    BY <1>2, <1>4, <1>8
  <2>4. command' = command
    BY <1>6 DEF command
  <2>5. coils' = Set(coils, Head(poll.todo))
    BY <1>1 DEF Reach, set, Set
  <2>6. /\ Plan(poll.plan, poll.desired, poll.in, applied) /\ poll.plan # << >>
        /\ command.on => command.coil \in poll.audited
    BY <1>8 DEF Inv, Controlled
  <2>7. /\ afterWrite = "WRITE" => Writing'
        /\ afterWrite = "RESULT" => coils' = Shown(After(command, applied))
    <3>1. CASE Len(poll.todo) = 1
      <4>1. afterWrite = "RESULT" /\ Set(coils, Head(poll.todo)) = Shown(After(command, applied))
        BY <1>4, <1>8, <3>1, NextWrite DEF Inv
      <4> QED
        BY <2>5, <4>1
    <3>2. CASE Len(poll.todo) # 1
      <4>1. afterWrite = "WRITE"
        <5>1. Len(poll.todo) > 1
          <6> DEFINE l == Len(poll.todo)
          <6>1. l \in Nat /\ l # 0 /\ l # 1
            BY <1>2, <3>2
          <6> HIDE DEF l
          <6>2. l > 1
            BY <6>1
          <6> QED
            BY <6>2 DEF l
        <5> QED
          BY <1>4, <1>8, <5>1
      <4>2. \/ \E s \in Sides :
                  /\ command = Command(Green(s), TRUE)
                  /\ Tail(poll.todo) = <<Command(Green(s), TRUE)>>
                  /\ Set(coils, Head(poll.todo)) = Set(Shown(applied), Command(Red(s), FALSE))
            \/ \E s \in Sides :
                  /\ command = Command(Green(s), FALSE)
                  /\ Tail(poll.todo) = <<Command(Red(s), TRUE)>>
                  /\ Set(coils, Head(poll.todo)) = Set(Shown(applied), Command(Green(s), FALSE))
        BY <1>8, <3>2, NextWrite DEF Inv
      <4>3. Writing'
        BY <1>1, <1>6, <2>4, <2>5, <4>2 DEF Writing
      <4> QED
        BY <4>1, <4>3
    <3> QED
      BY <3>1, <3>2
  <2>8. Controlled'
    BY <1>1, <1>6, <2>1, <2>2, <2>3, <2>4, <2>6, <2>7 DEF Controlled, Stopping
  <2>9. Sweeping' /\ LateOK'
    BY <1>1, <1>6, <2>1, <2>3 DEF Sweeping, LateOK
  <2> QED
    BY <1>3, <1>7, <2>8, <2>9 DEF Inv
<1>9. CASE poll.pc \in {"SAFE", "SHUTDOWN"}
  <2>1. afterWrite \in {"SAFE", "APPLIED", "SHUTDOWN", "STOPPED"}
    BY <1>2, <1>4, <1>9
  <2>2. PICK n \in 0..6 :
          /\ SweptTo(n)
          /\ Head(poll.todo) = SafeState[n + 1] /\ Tail(poll.todo) = Rest(n + 1)
    BY <1>9, NextSafeWrite DEF Inv
  <2>3. SweptTo(n + 1)'
    <3>1. poll'.pc \in {"SAFE", "APPLIED"} => poll.pc \in {"SAFE", "APPLIED"}
      BY <1>2, <1>4, <1>6, <1>9
    <3> QED
      BY <1>1, <1>6, <2>2, <3>1, SweepGoesOn
  <2>4. Sweeping'
    BY <2>3 DEF Sweeping
  <2>5. Controlled'
    <3>1. stray' \subseteq stray
      BY <1>1 DEF Reach
    <3>2. safeApplied => poll'.pc \notin Stopping
      BY <1>2, <1>4, <1>6, <1>9 DEF Inv, Controlled, Stopping
    <3> QED
      BY <1>1, <1>6, <2>1, <3>1, <3>2 DEF Inv, Controlled
  <2>6. LateOK'
    <3> SUFFICES ASSUME late # << >> PROVE LateOK'
      BY <1>1 DEF LateOK
    <3>1. Granted(Head(late))'
      BY <1>1, <1>6 DEF Inv, LateOK, Granted
    <3>2. \A s \in Sides : Head(poll.todo) # Command(Green(s), TRUE)
      <4>1. \A s \in Sides : /\ Command(Green(s), TRUE).coil = Green(s)
                             /\ Command(Green(s), TRUE).on = TRUE
        BY CommandFields, CommandsDiffer
      <4>2. Head(poll.todo).on <=> Head(poll.todo).coil \notin Permissive
        BY <2>2, SafeStateIsSafe
      <4> QED
        BY <4>1, <4>2, Names
    <3> QED
      BY <1>1, <1>3, <3>1, <3>2 DEF Inv, LateOK
  <2> QED
    BY <1>3, <1>7, <2>4, <2>5, <2>6 DEF Inv
<1> QED
  BY <1>1, <1>8, <1>9

\* Lemma: an applied safe state is what the device shows.
LEMMA SafeStateStep ==
  ASSUME Inv, SafeStateApplied
  PROVE  Inv'
<1>1. /\ poll.pc = "APPLIED" /\ UNCHANGED <<coils, late, stray>>
      /\ applied' = {} /\ pulse' = "NONE" /\ waiting' = {} /\ safeApplied' = TRUE
      /\ poll \in Polls /\ poll.todo = << >> /\ late = << >>
      /\ coils \subseteq Coils /\ stray \subseteq Coils
  BY DEF SafeStateApplied, device, Inv, Types, Stopping
<1>2. coils = Shown({}) /\ stray = {}
  <2>1. PICK n \in 0..7 : SweptTo(n)
    BY <1>1 DEF Inv, Sweeping
  <2>2. Swept(n) = Coils
    BY <1>1, <2>1, SweepEnds
  <2>3. stray = {}
    BY <1>1, <2>1, <2>2 DEF SweptTo
  <2>4. coils = Coils \ Permissive
    BY <1>1, <2>1, <2>2, <2>3 DEF SweptTo
  <2>5. Coils \ Permissive = Shown({})
    BY Names DEF Shown, Coils, Permissive, Red
  <2> QED
    BY <2>3, <2>4, <2>5
<1>3. Lights'
  BY <1>1, DeviceStays DEF Inv
<1>4. poll' \in Polls /\ poll'.pc \in {"READ", "OBSERVE"} /\ poll'.todo = << >>
  <2>1. CASE safeApplied
    BY <1>1, <2>1 DEF SafeStateApplied, Idle, Polls, Unread, Feedbacks
  <2>2. CASE ~safeApplied
    BY <1>1, <2>2 DEF SafeStateApplied, Polls
  <2> QED
    BY <2>1, <2>2
<1>5. Types'
  BY <1>1, <1>4 DEF Types
<1>6. Controlled'
  BY <1>1, <1>2, <1>4 DEF Controlled, GreenOverOpen, Stopping
<1>7. Sweeping' /\ LateOK'
  BY <1>1, <1>4 DEF Sweeping, LateOK
<1> QED
  BY <1>3, <1>5, <1>6, <1>7 DEF Inv

\* Lemma: in a poll that goes on, before its commands, only the workflow moves.
LEMMA QuietStep ==
  ASSUME Inv, UNCHANGED <<coils, late, stray>>, UNCHANGED <<safeApplied, applied>>,
         poll.pc \in {"OBSERVE", "COMMAND"}, poll' \in Polls,
         poll'.pc \in {"READ", "RECONCILE"}, poll'.todo = << >>,
         pulse' \in {"NONE", "ON", "OVER"}, waiting' \subseteq Sides
  PROVE  Inv'
<1>1. late = << >> /\ safeApplied = TRUE
  BY DEF Inv, Types, Controlled, Stopping
<1>2. Lights'
  BY DeviceStays DEF Inv
<1>3. Types'
  BY <1>1 DEF Inv, Types
<1>4. Controlled'
  BY <1>1 DEF Inv, Controlled, Stopping
<1>5. Sweeping' /\ LateOK'
  BY <1>1 DEF Sweeping, LateOK
<1> QED
  BY <1>2, <1>3, <1>4, <1>5 DEF Inv

\* Lemma: between two polls nothing is left to write.
LEMMA IdleIsAPoll == Idle \in Polls /\ Idle.pc = "READ" /\ Idle.todo = << >>
BY DEF Idle, Polls, Unread, Feedbacks

\* Lemma: an observed position leads to the decisions, or to the safe state.
LEMMA ObserveStep ==
  ASSUME Inv, ObservePosition
  PROVE  Inv'
<1>1. /\ poll.pc = "OBSERVE" /\ UNCHANGED <<coils, late, stray>>
      /\ UNCHANGED <<safeApplied, applied, pulse, waiting>>
      /\ poll \in Polls /\ poll.todo = << >> /\ late = << >> /\ safeApplied = TRUE
      /\ pulse \in {"NONE", "ON", "OVER"} /\ waiting \subseteq Sides
  BY DEF ObservePosition, device, controller, Inv, Types, Controlled, Stopping
<1>2. CASE poll' = [poll EXCEPT !.pc = "RECONCILE"]
  <2>1. poll' \in Polls /\ poll'.pc = "RECONCILE" /\ poll'.todo = << >>
    BY <1>1, <1>2 DEF Polls
  <2> QED
    BY <1>1, <2>1, QuietStep
<1>3. CASE poll' = [poll EXCEPT !.pc = "SAFE", !.todo = SafeState]
  <2>1. SafeState \in Seq(Commands) /\ SafeState # << >>
    BY SafeStateOrder
  <2>2. poll' \in Polls /\ poll'.pc = "SAFE" /\ poll'.todo = SafeState
    BY <1>1, <1>3, <2>1 DEF Polls
  <2>3. Lights'
    BY <1>1, DeviceStays DEF Inv
  <2>4. Types'
    BY <1>1, <2>1, <2>2 DEF Inv, Types
  <2>5. Controlled'
    BY <1>1, <2>2 DEF Inv, Controlled, Stopping
  <2>6. Sweeping' /\ LateOK'
    BY <1>1, <2>2, SweepStarts DEF Sweeping, LateOK
  <2> QED
    BY <2>3, <2>4, <2>5, <2>6 DEF Inv
<1> QED
  BY <1>2, <1>3 DEF ObservePosition

\* Lemma: the decisions of a poll are a plan.
LEMMA ReconcileStep ==
  ASSUME Inv, WorkflowOK, Reconcile
  PROVE  Inv'
<1>1. /\ poll.pc = "RECONCILE" /\ UNCHANGED <<coils, late, stray>>
      /\ UNCHANGED <<safeApplied, applied, waiting>>
      /\ poll \in Polls /\ poll.todo = << >> /\ late = << >> /\ safeApplied = TRUE
      /\ pulse \in {"NONE", "ON", "OVER"}
  BY DEF Reconcile, device, Inv, Types, Controlled, Stopping
<1>2. PICK p \in nextPulse(want, poll.in) :
        /\ pulse' = p
        /\ poll' = [poll EXCEPT !.pc = "COMMAND", !.desired = want,
                      !.plan = reconcile(want, poll.in, p = "ON")]
  BY DEF Reconcile, desiredOutputs
<1>3. p \in {"NONE", "ON", "OVER"} /\ (p = "ON" => buzzerReady(want, poll.in))
  BY <1>1, <1>2 DEF nextPulse
<1>4. Plan(reconcile(want, poll.in, p = "ON"), want, poll.in, applied)
  <2> DEFINE on == p = "ON"
             d == want
             in == poll.in
  <2>1. on \in BOOLEAN /\ d \in Wants /\ (on => buzzerReady(d, in))
    BY <1>3 DEF WorkflowOK
  <2> HIDE DEF on, d, in
  <2>2. Plan(reconcile(d, in, on), d, in, applied)
    BY <2>1, ReconcileIsAPlan
  <2> QED
    BY <2>2 DEF on, d, in
<1> DEFINE plan == reconcile(want, poll.in, p = "ON")
<1>5. plan \in Seq(Commands) /\ want \subseteq Permissive
  BY <1>4 DEF Plan, WorkflowOK, Wants
<1>6. poll' = [poll EXCEPT !.pc = "COMMAND", !.desired = want, !.plan = plan]
  BY <1>2
<1>7. Plan(plan, want, poll.in, applied)
  BY <1>4
<1> HIDE DEF plan
<1>8. /\ poll' \in Polls /\ poll'.pc = "COMMAND" /\ poll'.todo = << >>
      /\ poll'.plan = plan /\ poll'.desired = want /\ poll'.in = poll.in
  BY <1>1, <1>5, <1>6 DEF Polls
<1>9. Lights'
  BY <1>1, DeviceStays DEF Inv
<1>10. Types'
  BY <1>1, <1>2, <1>3, <1>8 DEF Inv, Types
<1>11. Controlled'
  BY <1>1, <1>7, <1>8 DEF Inv, Controlled, Stopping
<1>12. Sweeping' /\ LateOK'
  BY <1>1, <1>8 DEF Sweeping, LateOK
<1> QED
  BY <1>9, <1>10, <1>11, <1>12 DEF Inv

\* Lemma: a command is given with its intent on record.
LEMMA GiveStep ==
  ASSUME Inv, GiveCommand
  PROVE  Inv'
<1>1. /\ poll.pc = "COMMAND" /\ poll.plan # << >> /\ UNCHANGED <<coils, late, stray>>
      /\ UNCHANGED <<safeApplied, applied, pulse, waiting>>
      /\ poll \in Polls /\ late = << >> /\ safeApplied = TRUE /\ coils = Shown(applied)
      /\ Plan(poll.plan, poll.desired, poll.in, applied)
  BY DEF GiveCommand, device, controller, Inv, Types, Controlled, Stopping
<1>2. command \in Commands /\ command.coil \in Permissive
  BY <1>1, CommandGiven DEF Inv
<1>3. writes(command) \in Seq(Commands) /\ writes(command) # << >>
  <2>1. \A s \in Sides : /\ Command(Green(s), TRUE) \in Commands
                         /\ Command(Red(s), FALSE) \in Commands
                         /\ Command(Green(s), FALSE) \in Commands
                         /\ Command(Red(s), TRUE) \in Commands
    BY CommandFields, CommandsDiffer
  <2>2. ASSUME NEW a \in Commands, NEW b \in Commands
        PROVE  /\ <<a>> \in Seq(Commands) /\ <<a>> # << >>
               /\ <<a, b>> \in Seq(Commands) /\ <<a, b>> # << >>
    OBVIOUS
  <2> QED
    BY <1>2, <2>1, <2>2, WritesAre
<1> DEFINE audited == IF command.on THEN poll.audited \cup {command.coil} ELSE poll.audited
<1>4. poll' = [poll EXCEPT !.pc = "WRITE", !.todo = writes(command), !.audited = audited]
  BY DEF GiveCommand, execute
<1>5. /\ audited \subseteq Permissive
      /\ command.on => command.coil \in audited
  BY <1>1, <1>2 DEF Polls
<1> HIDE DEF audited
<1>6. /\ poll' \in Polls /\ poll'.pc = "WRITE" /\ poll'.todo = writes(command)
      /\ poll'.plan = poll.plan /\ poll'.desired = poll.desired /\ poll'.in = poll.in
      /\ poll'.audited = audited
  BY <1>1, <1>3, <1>4, <1>5 DEF Polls
<1>7. command' = command
  BY <1>6 DEF command
<1>8. Lights'
  BY <1>1, DeviceStays DEF Inv
<1>9. Types'
  BY <1>1, <1>3, <1>6 DEF Inv, Types
<1>10. Writing'
  <2>1. writes(command)' = writes(command)
    BY <1>7 DEF writes, setSignal
  <2> QED
    BY <1>1, <1>6, <2>1 DEF Writing
<1>11. Controlled'
  BY <1>1, <1>5, <1>6, <1>7, <1>10 DEF Inv, Controlled, Stopping
<1>12. Sweeping' /\ LateOK'
  BY <1>1, <1>6 DEF Sweeping, LateOK
<1> QED
  BY <1>8, <1>9, <1>11, <1>12 DEF Inv

\* Lemma: a result on record is applied, and the device shows it.
LEMMA ResultStep ==
  ASSUME Inv, Result
  PROVE  Inv'
<1>1. /\ poll.pc = "RESULT" /\ poll.plan # << >> /\ UNCHANGED <<coils, late, stray>>
      /\ UNCHANGED <<safeApplied, pulse>>
      /\ poll \in Polls /\ poll.todo = << >> /\ late = << >> /\ safeApplied = TRUE
      /\ coils = Shown(After(command, applied)) /\ stray = {}
      /\ applied \subseteq Permissive /\ waiting \subseteq Sides
  BY DEF Result, device, Inv, Types, Controlled, Stopping
<1>2. /\ command \in Commands /\ command.coil \in Permissive
      /\ Plan(Tail(poll.plan), poll.desired, poll.in, After(command, applied))
      /\ GreenOverOpen(After(command, applied))
  BY <1>1, CommandGiven DEF Inv
<1>3. applied' = After(command, applied) /\ applied' \subseteq Permissive
  BY <1>1, <1>2 DEF Result, After
<1>4. waiting' \subseteq Sides
  BY <1>1 DEF Result, nextWaiting
<1>5. Tail(poll.plan) \in Seq(Commands)
  BY <1>2 DEF Plan
<1>6. /\ poll' \in Polls /\ poll'.pc = "COMMAND" /\ poll'.todo = << >>
      /\ poll'.plan = Tail(poll.plan) /\ poll'.desired = poll.desired /\ poll'.in = poll.in
  BY <1>1, <1>5 DEF Result, Polls
<1>7. Lights'
  BY <1>1, DeviceStays DEF Inv
<1>8. Types'
  BY <1>1, <1>3, <1>4, <1>6 DEF Inv, Types
<1>9. Controlled'
  BY <1>1, <1>2, <1>3, <1>6 DEF Controlled, Stopping
<1>10. Sweeping' /\ LateOK'
  BY <1>1, <1>6 DEF Sweeping, LateOK
<1> QED
  BY <1>7, <1>8, <1>9, <1>10 DEF Inv

\* Lemma: the end of a poll changes no output.
LEMMA FeedbackStep ==
  ASSUME Inv, CheckFeedback \/ ObserveUnrecorded
  PROVE  Inv'
<1>1. /\ poll.pc \in {"OBSERVE", "COMMAND"} /\ poll' = Idle
      /\ UNCHANGED <<coils, late, stray>> /\ UNCHANGED <<safeApplied, applied, pulse>>
      /\ waiting' \subseteq waiting
  BY DEF CheckFeedback, ObserveUnrecorded, device, controller
<1>2. pulse \in {"NONE", "ON", "OVER"} /\ waiting \subseteq Sides
  BY DEF Inv, Types
<1> QED
  BY <1>1, <1>2, IdleIsAPoll, QuietStep

\* Lemma: a step that leaves all but the workflow alone.
LEMMA WorkflowMoves ==
  ASSUME Inv, UNCHANGED <<device, poll, controller>>
  PROVE  Inv'
<1>1. /\ UNCHANGED <<coils, late, stray, poll>>
      /\ UNCHANGED <<safeApplied, applied, pulse, waiting>>
  BY DEF device, controller
<1>2. command' = command /\ (\A n : SweptTo(n)' = SweptTo(n)) /\ Writing' = Writing
  BY <1>1 DEF command, SweptTo, Writing
<1>3. Lights'
  BY <1>1, DeviceStays DEF Inv
<1>4. Types'
  BY <1>1 DEF Inv, Types
<1>5. Controlled'
  BY <1>1, <1>2 DEF Inv, Controlled
<1>6. Sweeping'
  BY <1>1, <1>2 DEF Inv, Sweeping
<1>7. LateOK'
  BY <1>1 DEF Inv, LateOK, Granted
<1> QED
  BY <1>3, <1>4, <1>5, <1>6, <1>7 DEF Inv

\* Lemma: a shutdown starts the safe state, with the write of the poll loop that
\* may still be on its way harmless and granted.
LEMMA ShutdownStep ==
  ASSUME Inv, ShutdownRequested
  PROVE  Inv'
<1>1. /\ poll.pc \notin Stopping /\ UNCHANGED <<coils, stray>>
      /\ safeApplied' = FALSE /\ applied' = {} /\ pulse' = "NONE" /\ waiting' = {}
      /\ poll \in Polls /\ coils \subseteq Coils /\ stray \subseteq Coils
  BY DEF ShutdownRequested, forgotten, Inv, Types
<1>2. /\ Idle \in Polls /\ SafeState \in Seq(Commands) /\ SafeState # << >>
      /\ << >> \in Seq(Commands)
  <2>1. SafeState \in Seq(Commands) /\ SafeState # << >>
    BY SafeStateOrder
  <2>2. << >> \in Seq(Commands)
    OBVIOUS
  <2> QED
    BY <2>1, <2>2, IdleIsAPoll
<1>3. /\ poll' \in Polls /\ poll'.pc = "SHUTDOWN" /\ poll'.todo = SafeState
      /\ late' # << >> => /\ poll'.in = poll.in /\ poll'.desired = poll.desired
                          /\ poll'.audited = poll.audited
  <2>1. CASE late' = << >>
    <3>1. poll' = [Idle EXCEPT !.pc = "SHUTDOWN", !.plan = << >>, !.todo = SafeState]
      BY <2>1 DEF ShutdownRequested
    <3> QED
      BY <1>2, <2>1, <3>1 DEF Polls, Stopping
  <2>2. CASE late' # << >>
    <3>1. poll' = [poll EXCEPT !.pc = "SHUTDOWN", !.plan = << >>, !.todo = SafeState]
      BY <2>2 DEF ShutdownRequested
    <3> QED
      BY <1>1, <1>2, <3>1 DEF Polls, Stopping
  <2> QED
    BY <2>1, <2>2
<1>4. late' = << >> \/ (poll.todo # << >> /\ late' = <<Head(poll.todo)>>)
  BY DEF ShutdownRequested, onItsWay
<1>5. Lights'
  BY <1>1, DeviceStays DEF Inv
<1>6. Types'
  <2>1. late' \in Seq(Commands) /\ Len(late') <= 1
    <3>1. CASE late' = << >>
      BY <3>1
    <3>2. CASE poll.todo # << >> /\ late' = <<Head(poll.todo)>>
      <4>1. Head(poll.todo) \in Commands
        BY <3>2, NextIsHarmless
      <4> HIDE DEF Commands
      <4> QED
        BY <3>2, <4>1
    <3> QED
      BY <1>4, <3>1, <3>2
  <2>2. poll'.pc \in Stopping
    BY <1>3 DEF Stopping
  <2> QED
    BY <1>1, <1>2, <1>3, <2>1, <2>2 DEF Types
<1>7. Controlled'
  BY <1>1, <1>3 DEF Controlled
<1>8. Sweeping'
  BY <1>3, SweepStarts DEF Sweeping
<1>9. LateOK'
  <2> SUFFICES ASSUME late' # << >> PROVE LateOK'
    BY DEF LateOK
  <2>1. Head(late') = Head(poll.todo) /\ poll.todo # << >>
    BY <1>4
  <2>2. Harmless(Head(poll.todo)) /\ Granted(Head(poll.todo))
    BY <2>1, NextIsHarmless
  <2> QED
    BY <1>1, <1>3, <2>1, <2>2 DEF LateOK, Granted, Harmless
<1> QED
  BY <1>5, <1>6, <1>7, <1>8, <1>9 DEF Inv

\* Lemma: that write sets one coil, whatever the safe state had done with it.
LEMMA LateStep ==
  ASSUME Inv, LateWrite
  PROVE  Inv'
<1> DEFINE w == Head(late)
<1>1. /\ late # << >> /\ late \in Seq(Commands) /\ Len(late) <= 1
      /\ w \in Commands /\ Tail(late) = << >>
  BY DEF LateWrite, Inv, Types
<1>2. /\ poll.pc \in Stopping /\ poll \in Polls /\ coils \subseteq Coils /\ stray \subseteq Coils
      /\ UNCHANGED <<safeApplied, applied, pulse, waiting>> /\ safeApplied = FALSE
  BY <1>1 DEF LateWrite, controller, Inv, Types, Controlled
<1>3. /\ coils' = Set(coils, w) /\ stray' = stray \cup {w.coil} /\ late' = << >>
      /\ poll' = [Idle EXCEPT !.pc = poll.pc, !.todo = poll.todo]
  BY <1>1 DEF LateWrite, set, Set
<1>4. poll' \in Polls /\ poll'.pc = poll.pc /\ poll'.todo = poll.todo
  BY <1>2, <1>3, IdleIsAPoll DEF Polls
<1>5. \A s \in Sides : w = Command(Open(s), FALSE) => Green(s) \notin coils \ stray
  BY <1>1 DEF Inv, LateOK
<1>6. w.coil \in Coils /\ w.on \in BOOLEAN /\ w = Command(w.coil, w.on)
  BY <1>1, CommandIs DEF Commands
<1> HIDE DEF w
<1>7. Lights'
  <2>1. CASE w.on = TRUE
    <3>1. coils' = coils \cup {w.coil}
      BY <1>3, <2>1 DEF Set
    <3> QED
      BY <1>3, <3>1 DEF Inv, Lights, GreenOnlyOverOpenRequest, RedAndGreenExclude
  <2>2. CASE w.on = FALSE
    <3>1. coils' = coils \ {w.coil}
      BY <1>3, <2>2 DEF Set
    <3>2. \A s \in Sides : w.coil = Open(s) => Green(s) \notin coils \ stray
      BY <1>5, <1>6, <2>2
    <3> QED
      BY <1>3, <3>1, <3>2 DEF Inv, Lights, GreenOnlyOverOpenRequest, RedAndGreenExclude
  <2> QED
    BY <1>6, <2>1, <2>2
<1>8. Types'
  BY <1>2, <1>3, <1>4, <1>6 DEF Inv, Types, Set
<1>9. Controlled'
  BY <1>2, <1>4 DEF Controlled, Stopping
<1>10. Sweeping'
  <2> SUFFICES ASSUME poll.pc \in {"SAFE", "APPLIED", "SHUTDOWN", "STOPPED"}
               PROVE  \E n \in 0..7 : SweptTo(n)'
    BY <1>4 DEF Sweeping
  <2>1. PICK n \in 0..7 : SweptTo(n)
    BY DEF Inv, Sweeping
  <2>2. /\ poll.todo = Rest(n)
        /\ \A c \in Swept(n) : c \in stray \/ (c \in coils <=> c \notin Permissive)
        /\ Swept(n) \cap stray = {}
    BY <1>1, <2>1 DEF SweptTo
  <2>3. \A c \in Swept(n) : c \in stray' \/ (c \in coils' <=> c \notin Permissive)
    BY <1>3, <2>2 DEF Set
  <2>4. Swept(n) \cap stray' \subseteq {w.coil}
    BY <1>3, <2>2
  <2>5. ~(poll'.pc \in {"SAFE", "APPLIED"} \/ late' # << >>)
    BY <1>2, <1>3, <1>4 DEF Stopping
  <2>6. SweptTo(n)'
    BY <1>4, <2>2, <2>3, <2>4, <2>5 DEF SweptTo
  <2> QED
    BY <2>6
<1>11. LateOK'
  BY <1>3 DEF LateOK
<1> QED
  BY <1>7, <1>8, <1>9, <1>10, <1>11 DEF Inv

\* Lemma: a safe state that fails in a shutdown leaves what it has done.
LEMMA ShutdownFailsStep ==
  ASSUME Inv, ShutdownFails
  PROVE  Inv'
<1>1. /\ poll.pc = "SHUTDOWN" /\ poll.todo # << >> /\ poll \in Polls
      /\ UNCHANGED <<safeApplied, applied, pulse, waiting>> /\ safeApplied = FALSE
      /\ Reach \/ UNCHANGED device
  BY DEF ShutdownFails, controller, Inv, Types, Controlled, Stopping
<1>2. /\ poll' \in Polls /\ poll'.pc = "HALTED" /\ poll'.todo = << >>
      /\ poll'.in = poll.in /\ poll'.desired = poll.desired /\ poll'.audited = poll.audited
  <2>1. << >> \in Seq(Commands)
    OBVIOUS
  <2>2. poll' = [poll EXCEPT !.pc = "HALTED", !.todo = << >>]
    BY DEF ShutdownFails
  <2> QED
    BY <1>1, <2>1, <2>2 DEF Polls, Stopping
<1>3. /\ Lights' /\ coils' \subseteq Coils /\ stray' \subseteq Coils /\ late' = late
      /\ \A s \in Sides : Green(s) \notin coils \ stray
                            /\ Head(poll.todo) # Command(Green(s), TRUE) =>
                          Green(s) \notin coils' \ stray'
  BY <1>1, WriteOrNot
<1>4. Types'
  BY <1>1, <1>2, <1>3 DEF Inv, Types, Stopping
<1>5. Controlled' /\ Sweeping'
  BY <1>1, <1>2 DEF Controlled, Sweeping
<1>6. LateOK'
  <2> SUFFICES ASSUME late # << >> PROVE LateOK'
    BY <1>3 DEF LateOK
  <2>1. Granted(Head(late))'
    BY <1>2, <1>3 DEF Inv, LateOK, Granted
  <2>2. \A s \in Sides : Head(poll.todo) # Command(Green(s), TRUE)
    <3>1. \A s \in Sides : /\ Command(Green(s), TRUE).coil = Green(s)
                           /\ Command(Green(s), TRUE).on = TRUE
      BY CommandFields, CommandsDiffer
    <3>2. Head(poll.todo).on <=> Head(poll.todo).coil \notin Permissive
      BY <1>1, NextSafeWrite, SafeStateIsSafe DEF Inv
    <3> QED
      BY <3>1, <3>2, Names
  <2> QED
    BY <1>3, <2>1, <2>2 DEF Inv, LateOK
<1> QED
  BY <1>3, <1>4, <1>5, <1>6 DEF Inv

\* Lemma: a process that dies leaves the device as it is.
LEMMA CrashStep ==
  ASSUME Inv, Crash
  PROVE  Inv'
<1>1. /\ UNCHANGED <<coils, stray>> /\ late' = << >> /\ poll' = Idle
      /\ safeApplied' = FALSE /\ applied' = {} /\ pulse' = "NONE" /\ waiting' = {}
      /\ coils \subseteq Coils /\ stray \subseteq Coils
  BY DEF Crash, forgotten, Inv, Types
<1>2. Lights'
  BY <1>1, DeviceStays DEF Inv
<1> QED
  BY <1>1, <1>2, IdleIsFine

\* Lemma: the invariant holds at first.
LEMMA InvStarts == Init => WorkflowOK /\ Inv
<1> SUFFICES ASSUME Init PROVE WorkflowOK /\ Inv
  OBVIOUS
<1>1. WorkflowOK
  BY NothingIsWanted DEF Init, Start, WorkflowOK, Phases
<1>2. poll \in Polls /\ poll.pc = "READ" /\ poll.todo = << >>
  BY IdleIsAPoll DEF Init
<1>3. << >> \in Seq(Commands) /\ Len(<< >>) <= 1
  OBVIOUS
<1>4. Types
  BY <1>2, <1>3 DEF Init, Types
<1>5. Lights
  BY DEF Init, Lights, GreenOnlyOverOpenRequest, RedAndGreenExclude
<1>6. Controlled /\ Sweeping /\ LateOK
  BY <1>2 DEF Init, Controlled, Sweeping, LateOK
<1> QED
  BY <1>1, <1>4, <1>5, <1>6 DEF Inv

\* Lemma: every step keeps it.
LEMMA InvStep == WorkflowOK /\ Inv /\ [Next]_vars => Inv'
<1> SUFFICES ASSUME WorkflowOK, Inv, [Next]_vars PROVE Inv'
  OBVIOUS
<1>1. CASE UNCHANGED vars
  BY <1>1, WorkflowMoves DEF vars, device, controller
<1>2. CASE \E in \in Feedback : ReadInputs(in)
  BY <1>2, ReadStep
<1>3. CASE ReadFails \/ IntentFails \/ ResultFails
  <2>1. /\ poll.pc \notin Stopping /\ UNCHANGED device
        /\ \E devices : ioFault(devices)
    BY <1>3 DEF ReadFails, IntentFails, ResultFails, Stopping
  <2> QED
    BY <2>1, FaultStep
<1>4. CASE WriteFails
  <2>1. /\ poll.pc \notin Stopping /\ poll.todo # << >>
        /\ Reach \/ UNCHANGED device
        /\ \E devices : ioFault(devices)
    BY <1>4 DEF WriteFails, Stopping, Inv, Types
  <2> QED
    BY <2>1, FaultStep
<1>5. CASE WriteSingleCoil
  BY <1>5, WriteStep
<1>6. CASE SafeStateApplied
  BY <1>6, SafeStateStep
<1>7. CASE ObservePosition
  BY <1>7, ObserveStep
<1>8. CASE ObserveUnrecorded \/ CheckFeedback
  BY <1>8, FeedbackStep
<1>9. CASE Reconcile
  BY <1>9, ReconcileStep
<1>10. CASE GiveCommand
  BY <1>10, GiveStep
<1>11. CASE Result
  BY <1>11, ResultStep
<1>12. CASE Observation
  BY <1>12, WorkflowMoves DEF Observation
<1>13. CASE ShutdownRequested
  BY <1>13, ShutdownStep
<1>14. CASE LateWrite
  BY <1>14, LateStep
<1>15. CASE ShutdownFails
  BY <1>15, ShutdownFailsStep
<1>16. CASE Crash
  BY <1>16, CrashStep
<1> QED
  BY <1>1, <1>2, <1>3, <1>4, <1>5, <1>6, <1>7, <1>8, <1>9, <1>10, <1>11, <1>12,
     <1>13, <1>14, <1>15, <1>16 DEF Next, Step

\* The inductive invariant, for every set of feedbacks and requests.
THEOREM Invariant == Spec => [](WorkflowOK /\ Inv)
<1>1. Init => WorkflowOK /\ Inv
  BY InvStarts
<1>2. (WorkflowOK /\ Inv) /\ [Next]_vars => (WorkflowOK /\ Inv)'
  BY WorkflowStep, InvStep
<1> QED
  BY <1>1, <1>2, PTL DEF Spec

\* Type correctness, and that only an active transaction requests anything and
\* only a transaction without critical faults is active.
THEOREM TypeCorrect == Spec => []TypeOK
<1>1. WorkflowOK /\ Inv => TypeOK
  BY DEF WorkflowOK, Inv, Types, TypeOK, Wants
<1> QED
  BY <1>1, Invariant, PTL

\* The workflow moves as its contract allows, whatever the controller, the
\* other goroutines and the process do to it.
THEOREM ContractIsKept == Spec => WorkflowSpec
<1>1. Init => Start
  BY DEF Init
<1>2. WorkflowOK /\ [Next]_vars => [Move \/ Stop]_workflow
  BY StepOfWorkflow
<1> QED
  BY <1>1, <1>2, Invariant, PTL DEF Spec, WorkflowSpec

\* What the controller believes it applied is what the device does, whenever it
\* decides what to change.
THEOREM BeliefIsPhysical == Spec => []AppliedIsPhysical
<1>1. Inv => AppliedIsPhysical
  <2> SUFFICES ASSUME Inv, safeApplied,
                      poll.pc \in {"READ", "OBSERVE", "RECONCILE", "COMMAND"}
               PROVE  /\ coils \cap Permissive = applied
                      /\ \A s \in Sides : Red(s) \in coils <=> Green(s) \notin applied
    BY DEF AppliedIsPhysical
  <2>1. coils = Shown(applied) /\ applied \subseteq Permissive
    BY DEF Inv, Controlled, Types
  <2>2. \A s \in Sides : Red(s) \notin Permissive
    BY Names
  <2>3. coils \cap Permissive = applied
    BY <2>1, <2>2 DEF Shown
  <2>4. \A s, t \in Sides : Red(s) = Red(t) => s = t
    BY Names
  <2>5. \A s \in Sides : Red(s) \in coils <=> Green(s) \notin applied
    BY <2>1, <2>2, <2>4 DEF Shown
  <2> QED
    BY <2>3, <2>5
<1> QED
  BY <1>1, Invariant, PTL

\* Green is lit only while the barrier is requested open.
THEOREM GreenIsOverOpen == Spec => []GreenOnlyOverOpenRequest
<1>1. Inv => GreenOnlyOverOpenRequest
  BY DEF Inv, Lights
<1> QED
  BY <1>1, Invariant, PTL

\* No side shows red and green.
THEOREM LightsExclude == Spec => []RedAndGreenExclude
<1>1. Inv => RedAndGreenExclude
  BY DEF Inv, Lights
<1> QED
  BY <1>1, Invariant, PTL

\* A shutdown whose safe state was applied leaves on at most the one coil that
\* the poll loop was writing.
THEOREM ShutdownIsSafe == Spec => []ShutdownLeavesOneWrite
<1>1. Inv => ShutdownLeavesOneWrite
  <2> SUFFICES ASSUME Inv, poll.pc = "STOPPED"
               PROVE  coils \cap Permissive \subseteq stray /\ Cardinality(stray) <= 1
    BY DEF ShutdownLeavesOneWrite
  <2>1. poll.todo = << >> /\ stray \subseteq Coils /\ coils \subseteq Coils
    BY DEF Inv, Types
  <2>2. PICK n \in 0..7 : SweptTo(n)
    BY DEF Inv, Sweeping
  <2>3. Swept(n) = Coils
    BY <2>1, <2>2, SweepEnds
  <2>4. /\ \A c \in Coils : c \in stray \/ (c \in coils <=> c \notin Permissive)
        /\ \E x : Coils \cap stray \subseteq {x}
    BY <2>2, <2>3 DEF SweptTo
  <2>5. coils \cap Permissive \subseteq stray
    BY <2>4, Names
  <2>6. PICK x : stray \subseteq {x}
    BY <2>1, <2>4
  <2>7. Cardinality(stray) <= 1
    <3>1. stray = {} \/ stray = {x}
      BY <2>6
    <3>2. Cardinality({}) = 0
      BY FS_EmptySet
    <3>3. Cardinality({x}) = 1
      BY FS_Singleton
    <3>4. Cardinality(stray) = 0 \/ Cardinality(stray) = 1
      BY <3>1, <3>2, <3>3
    <3> QED
      BY <3>4
  <2> QED
    BY <2>5, <2>7
<1> QED
  BY <1>1, Invariant, PTL

\* Lemma: a coil goes on by the next write of the poll or by a late one, and is
\* granted if it is permissive.
LEMMA SwitchedOnIsGranted ==
  ASSUME Inv, [Next]_vars, NEW c \in SwitchedOn
  PROVE  \E w \in Commands : w.coil = c /\ w.on = TRUE /\ Granted(w)
<1>1. ASSUME NEW w \in Commands, Granted(w), coils' = set(w)
      PROVE  \E v \in Commands : v.coil = c /\ v.on = TRUE /\ Granted(v)
  <2>1. w.on = TRUE /\ w.coil = c
    BY <1>1 DEF SwitchedOn, set, Commands
  <2> QED
    BY <1>1, <2>1
<1>2. CASE Reach /\ poll.todo # << >>
  BY <1>1, <1>2, NextIsHarmless DEF Reach
<1>3. CASE LateWrite
  <2>1. late # << >> /\ late \in Seq(Commands) /\ Granted(Head(late)) /\ coils' = set(Head(late))
    BY <1>3 DEF LateWrite, Inv, Types, LateOK
  <2>2. Head(late) \in Commands
    BY <2>1
  <2> QED
    BY <1>1, <2>1, <2>2
<1>4. CASE coils' = coils
  BY <1>4 DEF SwitchedOn
<1>5. WriteSingleCoil \/ WriteFails \/ ShutdownFails =>
        coils' = coils \/ (Reach /\ poll.todo # << >>)
  BY DEF WriteSingleCoil, WriteFails, ShutdownFails, device, Inv, Types
<1> QED
  BY <1>2, <1>3, <1>4, <1>5
     DEF Next, Step, ReadInputs, ReadFails, SafeStateApplied, ObservePosition,
         ObserveUnrecorded, Reconcile, GiveCommand, IntentFails, Result, ResultFails,
         CheckFeedback, Observation, ShutdownRequested, Crash, vars, device

\* A permissive coil goes on only in a poll that has its intent on record.
THEOREM PermissionAudited == Spec => PermissionIsAudited
<1>1. Inv /\ [Next]_vars => [SwitchedOn \cap Permissive \subseteq poll.audited]_vars
  <2> SUFFICES ASSUME Inv, [Next]_vars, NEW c \in SwitchedOn \cap Permissive
               PROVE  c \in poll.audited
    OBVIOUS
  <2> QED
    BY SwitchedOnIsGranted DEF Granted
<1> QED
  BY <1>1, Invariant, PTL DEF Spec, PermissionIsAudited

\* Green is lit, and the buzzer sounded, only over barriers that the same
\* poll's inputs report open.
THEOREM PermissionOverOpenBarriers == Spec => PermissionFollowsFeedback
<1> DEFINE A == /\ \A s \in Sides : Green(s) \in SwitchedOn => poll.in[s] = "OPEN"
                /\ Buzzer \in SwitchedOn =>
                     \A s \in Sides : Open(s) \in poll.desired => poll.in[s] = "OPEN"
<1>1. Inv /\ [Next]_vars => [A]_vars
  <2> SUFFICES ASSUME Inv, [Next]_vars PROVE A
    OBVIOUS
  <2>1. ASSUME NEW s \in Sides, Green(s) \in SwitchedOn PROVE poll.in[s] = "OPEN"
    BY <2>1, SwitchedOnIsGranted, Names DEF Granted
  <2>2. ASSUME Buzzer \in SwitchedOn, NEW s \in Sides, Open(s) \in poll.desired
        PROVE  poll.in[s] = "OPEN"
    BY <2>2, SwitchedOnIsGranted, Names DEF Granted
  <2> QED
    BY <2>1, <2>2
<1> QED
  BY <1>1, Invariant, PTL DEF Spec, PermissionFollowsFeedback

=============================================================================
