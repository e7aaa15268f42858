---------------------------- MODULE JournalProofs ----------------------------
(***************************************************************************)
(* What the journals promise for any number of appends, failures, crashes  *)
(* and losses of power.  A chain that verifies has lost no acknowledged    *)
(* record; the argument is Kept: among the synced lines there is, for each *)
(* acknowledged record, either the record itself or a line that does not   *)
(* parse, because the record was glued to an unterminated line.  A process *)
(* that started on complete lines leaves a chain that verifies; the        *)
(* argument is Chained: the fields, the append in progress and the last    *)
(* line agree on where the chain goes on.                                  *)
(***************************************************************************)
EXTENDS Journal, TLAPS

IsSeq(s) == \E S : s \in Seq(S)

\* The file, its synced prefix and the append in progress fit together.
Shape ==
  /\ IsSeq(file) /\ IsSeq(tail)
  /\ durable \in 0..Len(file)
  /\ append = [step |-> append.step, rec |-> append.rec]
  /\ append.step = "SYNC" =>
       Len(file) > 0 /\ file[Len(file)] \in {Parses(append.rec), Garbage}

Kept ==
  \A r \in acked : \E i \in 1..durable : file[i] \in {Parses(r), Garbage}

Inv == Shape /\ Kept

\* Lemma: an append leaves the earlier lines alone and puts its own last.
LEMMA Appended ==
  ASSUME NEW s, IsSeq(s), NEW x
  PROVE  /\ IsSeq(Append(s, x)) /\ Len(Append(s, x)) = Len(s) + 1
         /\ Len(s) \in Nat
         /\ \A i \in 1..Len(s) : Append(s, x)[i] = s[i]
         /\ Append(s, x)[Len(s) + 1] = x
<1>1. PICK S : s \in Seq(S)
  BY DEF IsSeq
<1>2. s \in Seq(S \cup {x}) /\ x \in S \cup {x}
  BY <1>1
<1>3. Append(s, x) \in Seq(S \cup {x})
  BY <1>2
<1> QED
  BY <1>2, <1>3 DEF IsSeq

\* Lemma: a prefix keeps its lines.
LEMMA Prefix ==
  ASSUME NEW s, IsSeq(s), NEW n \in 0..Len(s)
  PROVE  /\ IsSeq(SubSeq(s, 1, n)) /\ Len(SubSeq(s, 1, n)) = n
         /\ \A i \in 1..n : SubSeq(s, 1, n)[i] = s[i]
<1>1. PICK S : s \in Seq(S)
  BY DEF IsSeq
<1>2. SubSeq(s, 1, n) \in Seq(S)
  BY <1>1
<1> QED
  BY <1>1, <1>2 DEF IsSeq

\* Lemma: no line, or one.
LEMMA AtMostOne == ASSUME NEW x PROVE IsSeq(<< >>) /\ IsSeq(<<x>>)
<1>1. << >> \in Seq({x}) /\ <<x>> \in Seq({x})
  OBVIOUS
<1> QED
  BY <1>1 DEF IsSeq

\* Lemma: one step of each kind keeps the invariant.
LEMMA InvStep == Inv /\ [Next]_vars => Inv'
<1> SUFFICES ASSUME Inv, [Next]_vars PROVE Inv'
  OBVIOUS
<1> USE DEF Inv
<1>1. CASE AppendRecord
  <2>1. \/ append' = append
        \/ /\ append' = [step |-> append'.step, rec |-> append'.rec]
           /\ append'.step = "WRITE"
    BY <1>1 DEF AppendRecord, Begin
  <2> QED
    BY <1>1, <2>1 DEF AppendRecord, Shape, Kept
<1>2. CASE LoadTailFails
  BY <1>2 DEF LoadTailFails, Shape, Kept
<1>3. CASE Write
  <2> DEFINE line == IF tail = << >> THEN Parses(append.rec) ELSE Garbage
  <2>1. /\ IsSeq(file') /\ Len(file') = Len(file) + 1 /\ Len(file) \in Nat
        /\ \A i \in 1..Len(file) : file'[i] = file[i]
        /\ file'[Len(file')] = line
    BY <1>3, Appended DEF Write, Shape
  <2>2. IsSeq(tail')
    BY <1>3, AtMostOne DEF Write
  <2>3. append' = [step |-> "SYNC", rec |-> append.rec]
    BY <1>3 DEF Write, Shape
  <2>4. Shape'
    BY <1>3, <2>1, <2>2, <2>3 DEF Write, Shape
  <2>5. Kept'
    BY <1>3, <2>1 DEF Write, Shape, Kept
  <2> QED
    BY <2>4, <2>5
<1>4. CASE WriteFails
  <2>1. IsSeq(tail')
    BY <1>4, AtMostOne DEF WriteFails, Shape
  <2> QED
    BY <1>4, <2>1 DEF WriteFails, NotAppending, Shape, Kept
<1>5. CASE SyncAndReturn
  <2>1. Len(file) \in Nat
    BY DEF Shape
  <2>2. Shape'
    BY <1>5, <2>1 DEF SyncAndReturn, returnRef, NotAppending, Shape
  <2>3. Kept'
    <3> SUFFICES ASSUME NEW r \in acked'
                 PROVE  \E i \in 1..Len(file) : file[i] \in {Parses(r), Garbage}
      BY <1>5 DEF SyncAndReturn, returnRef, Kept
    <3>1. CASE r \in acked
      BY <3>1, <2>1 DEF Kept, Shape
    <3>2. CASE r = append.rec
      BY <1>5, <3>2, <2>1 DEF SyncAndReturn, Shape
    <3> QED
      BY <1>5, <3>1, <3>2 DEF SyncAndReturn, returnRef
  <2> QED
    BY <2>2, <2>3
<1>6. CASE SyncFails
  <2>1. Len(file) \in Nat /\ durable' \in durable..Len(file)
    BY <1>6 DEF SyncFails, Shape
  <2>2. Shape'
    BY <1>6, <2>1 DEF SyncFails, NotAppending, Shape
  <2>3. Kept'
    BY <1>6, <2>1 DEF SyncFails, Kept, Shape
  <2> QED
    BY <2>2, <2>3
<1>7. CASE Crash
  BY <1>7 DEF Crash, stopped, NotAppending, Shape, Kept
<1>8. CASE PowerLoss
  <2>1. append' = NotAppending /\ durable' = durable /\ acked' = acked
    BY <1>8 DEF PowerLoss, stopped
  <2>2. IsSeq(tail')
    BY <1>8, AtMostOne DEF PowerLoss, Shape
  <2>3. /\ IsSeq(file') /\ durable \in 0..Len(file')
        /\ \A i \in 1..durable : file'[i] = file[i]
    <3>1. CASE UNCHANGED file
      BY <3>1 DEF Shape
    <3>2. CASE \E n \in durable..(Len(file) - 1) : file' = SubSeq(file, 1, n)
      BY <3>2, Prefix DEF Shape
    <3> QED
      BY <1>8, <3>1, <3>2 DEF PowerLoss
  <2> QED
    BY <2>1, <2>2, <2>3 DEF NotAppending, Shape, Kept
<1>9. CASE Start
  BY <1>9 DEF Start, Shape, Kept
<1>10. CASE UNCHANGED vars
  BY <1>10 DEF vars, Shape, Kept
<1> QED
  BY <1>1, <1>2, <1>3, <1>4, <1>5, <1>6, <1>7, <1>8, <1>9, <1>10 DEF Next

\* The inductive invariant holds in every state of every behaviour.
THEOREM InvHolds == Spec => []Inv
<1>1. Init => Inv
  <2> SUFFICES ASSUME Init PROVE Inv
    OBVIOUS
  <2>1. IsSeq(file) /\ IsSeq(tail) /\ Len(file) = 0
    BY AtMostOne DEF Init
  <2> QED
    BY <2>1 DEF Init, NotAppending, Inv, Shape, Kept
<1> QED
  BY <1>1, InvStep, PTL DEF Spec

\* A chain that verifies has every acknowledged record in its place.
THEOREM NothingAcknowledgedIsLost == Spec => []VerifiedMeansComplete
<1>1. Inv => VerifiedMeansComplete
  <2> SUFFICES ASSUME Inv, Verify(lines), NEW r \in acked
               PROVE  r.seq \in DOMAIN lines /\ lines[r.seq] = Parses(r)
    BY DEF VerifiedMeansComplete
  <2>1. PICK i \in 1..durable : file[i] \in {Parses(r), Garbage}
    BY DEF Inv, Kept
  <2>2. i \in 1..Len(file)
    BY DEF Inv, Shape
  <2>3. i \in DOMAIN lines /\ lines[i] = file[i]
    <3>1. PICK S, T : file \in Seq(S) /\ tail \in Seq(T)
      BY DEF Inv, Shape, IsSeq
    <3>2. file \in Seq(S \cup T) /\ tail \in Seq(S \cup T)
      BY <3>1
    <3> QED
      BY <2>2, <3>2 DEF lines
  <2>4. lines[i].parses /\ lines[i].rec.seq = i
    BY <2>3 DEF Verify
  <2>5. lines[i] # Garbage
    BY <2>4 DEF Garbage
  <2>6. lines[i] = Parses(r)
    BY <2>1, <2>3, <2>5
  <2>7. r.seq = i
    BY <2>4, <2>6 DEF Parses
  <2> QED
    BY <2>3, <2>6, <2>7
<1> QED
  BY <1>1, InvHolds, PTL

-----------------------------------------------------------------------------
(* Types.                                                                  *)

\* Lemma: what the reader of the file sees, line by line.
LEMMA LinesAre ==
  ASSUME NEW f, IsSeq(f), NEW t, IsSeq(t)
  PROVE  /\ Len(f) \in Nat /\ Len(t) \in Nat
         /\ IsSeq(f \o t) /\ Len(f \o t) = Len(f) + Len(t)
         /\ DOMAIN (f \o t) = 1..(Len(f) + Len(t))
         /\ \A i \in 1..Len(f) : (f \o t)[i] = f[i]
         /\ \A i \in 1..Len(t) : (f \o t)[Len(f) + i] = t[i]
         /\ t = << >> => f \o t = f
<1>1. PICK S, T : f \in Seq(S) /\ t \in Seq(T)
  BY DEF IsSeq
<1>2. f \in Seq(S \cup T) /\ t \in Seq(S \cup T)
  BY <1>1
<1>3. f \o t \in Seq(S \cup T)
  BY <1>2
<1> QED
  BY <1>2, <1>3 DEF IsSeq

LineOK(line) == line.parses \in BOOLEAN /\ WellFormed(line.rec)

\* The types with the file and the tail apart, and the fields a record.
Typed ==
  /\ \A i \in 1..Len(file) : LineOK(file[i])
  /\ \A i \in 1..Len(tail) : LineOK(tail[i])
  /\ Len(tail) <= 1
  /\ up \in BOOLEAN /\ clean \in BOOLEAN /\ calls \in 0..MaxAppends
  /\ j = [initialized |-> j.initialized, seq |-> j.seq, prevHash |-> j.prevHash]
  /\ j.initialized \in BOOLEAN /\ j.seq \in Nat
  /\ append.step \in {"IDLE", "WRITE", "SYNC"} /\ WellFormed(append.rec)
  /\ \A r \in acked : WellFormed(r)

\* Lemma: what is of its type now is of its type after later calls.
LEMMA StaysWellFormed ==
  ASSUME calls \in Nat, calls' \in Nat, calls <= calls'
  PROVE  /\ \A r : WellFormed(r) => WellFormed(r)'
         /\ \A line : LineOK(line) => LineOK(line)'
BY DEF WellFormed, LineOK

\* Lemma: the empty record and a line of it are of their types.
LEMMA NothingIsWellFormed ==
  ASSUME calls \in Nat
  PROVE  WellFormed(NoRecord) /\ LineOK(Garbage)
BY DEF NoRecord, record, WellFormed, LineOK, Garbage

\* Lemma: the same of the file as it is.
LEMMA LinesHere ==
  ASSUME Shape
  PROVE  /\ IsSeq(file) /\ IsSeq(tail) /\ Len(file) \in Nat /\ Len(tail) \in Nat
         /\ IsSeq(lines) /\ Len(lines) = Len(file) + Len(tail)
         /\ DOMAIN lines = 1..(Len(file) + Len(tail))
         /\ \A i \in 1..Len(file) : lines[i] = file[i]
         /\ \A i \in 1..Len(tail) : lines[Len(file) + i] = tail[i]
         /\ tail = << >> => lines = file
<1>1. IsSeq(file) /\ IsSeq(tail)
  BY DEF Shape
<1> DEFINE all == file \o tail
<1>2. /\ Len(file) \in Nat /\ Len(tail) \in Nat
      /\ IsSeq(all) /\ Len(all) = Len(file) + Len(tail)
      /\ DOMAIN all = 1..(Len(file) + Len(tail))
      /\ \A i \in 1..Len(file) : all[i] = file[i]
      /\ \A i \in 1..Len(tail) : all[Len(file) + i] = tail[i]
      /\ tail = << >> => all = file
  BY <1>1, LinesAre
<1>3. lines = all
  BY DEF lines
<1> HIDE DEF all
<1> QED
  BY <1>1, <1>2, <1>3

\* Lemma: the fields read from the tail are of their types.
LEMMA LoadedIsTyped ==
  ASSUME Shape, Typed
  PROVE  /\ loadTail = [initialized |-> TRUE, seq |-> loadTail.seq,
                        prevHash |-> loadTail.prevHash]
         /\ loadTail.seq \in Nat
<1>1. CASE lines = << >>
  BY <1>1 DEF loadTail, Typed
<1>2. CASE lines # << >>
  <2>1. /\ IsSeq(lines) /\ Len(lines) = Len(file) + Len(tail)
        /\ Len(file) \in Nat /\ Len(tail) \in Nat
        /\ \A i \in 1..Len(file) : lines[i] = file[i]
        /\ \A i \in 1..Len(tail) : lines[Len(file) + i] = tail[i]
    BY LinesHere
  <2>2. Len(lines) # 0
    BY <1>2, <2>1 DEF IsSeq
  <2>3. LineOK(lines[Len(lines)])
    BY <2>1, <2>2 DEF Typed
  <2> QED
    BY <1>2, <2>3 DEF loadTail, LineOK, WellFormed
<1> QED
  BY <1>1, <1>2

\* Lemma: one step of each kind keeps the types.
LEMMA TypedStep == Shape /\ Typed /\ [Next]_vars => Typed'
<1> SUFFICES ASSUME Shape, Typed, [Next]_vars PROVE Typed'
  OBVIOUS
<1>0. /\ IsSeq(file) /\ IsSeq(tail) /\ Len(file) \in Nat /\ calls \in Nat
      /\ MaxAppends \in Nat
      /\ WellFormed(NoRecord) /\ LineOK(Garbage)
  BY NothingIsWellFormed, LinesHere, JournalAssumption DEF Typed
<1>1. CASE AppendRecord
  <2> DEFINE loaded == IF j.initialized THEN j ELSE loadTail
  <2>1. /\ loaded = [initialized |-> loaded.initialized, seq |-> loaded.seq,
                     prevHash |-> loaded.prevHash]
        /\ loaded.initialized = TRUE /\ loaded.seq \in Nat
    BY LoadedIsTyped DEF Typed
  <2>2. /\ j' = loaded /\ calls' = calls + 1 /\ calls < MaxAppends
        /\ UNCHANGED <<file, tail, up, acked, clean>>
        /\ \/ append' = [step |-> "WRITE",
                         rec |-> record(loaded.seq + 1, loaded.prevHash,
                                        calls + 1)]
           \/ append' = append
    BY <1>1 DEF AppendRecord, Begin
  <2> HIDE DEF loaded
  <2>3. /\ \A r : WellFormed(r) => WellFormed(r)'
        /\ \A line : LineOK(line) => LineOK(line)'
    BY <1>0, <2>2, StaysWellFormed
  <2>4. append'.step \in {"IDLE", "WRITE", "SYNC"} /\ WellFormed(append.rec)'
    BY <1>0, <2>1, <2>2, <2>3 DEF Typed, WellFormed, record
  <2>5. /\ \A i \in 1..Len(file)' : LineOK(file[i])'
        /\ \A i \in 1..Len(tail)' : LineOK(tail[i])'
        /\ \A r \in acked' : WellFormed(r)'
    BY <2>2, <2>3 DEF Typed
  <2>6. /\ Len(tail') <= 1 /\ up' \in BOOLEAN /\ clean' \in BOOLEAN
        /\ calls' \in 0..MaxAppends
    BY <1>0, <2>2 DEF Typed
  <2> QED
    BY <2>1, <2>2, <2>4, <2>5, <2>6 DEF Typed
<1>2. CASE LoadTailFails
  <2>1. /\ \A r : WellFormed(r) => WellFormed(r)'
        /\ \A line : LineOK(line) => LineOK(line)'
    BY <1>0, <1>2, StaysWellFormed DEF LoadTailFails
  <2>2. /\ \A i \in 1..Len(file)' : LineOK(file[i])'
        /\ \A i \in 1..Len(tail)' : LineOK(tail[i])'
        /\ \A r \in acked' : WellFormed(r)'
        /\ WellFormed(append.rec)'
    BY <1>2, <2>1 DEF LoadTailFails, Typed
  <2>3. j' = [initialized |-> TRUE, seq |-> j.seq, prevHash |-> j.prevHash]
    BY <1>2 DEF LoadTailFails, Typed
  <2>4. append' = append /\ tail' = tail /\ up' = up /\ clean' = FALSE
        /\ calls' = calls + 1 /\ calls < MaxAppends
    BY <1>2 DEF LoadTailFails
  <2>5. /\ Len(tail') <= 1 /\ calls' \in 0..MaxAppends
        /\ append'.step \in {"IDLE", "WRITE", "SYNC"}
    BY <1>0, <2>4 DEF Typed
  <2>6. up' \in BOOLEAN /\ clean' \in BOOLEAN
    BY <2>4 DEF Typed
  <2>7. /\ j' = [initialized |-> j'.initialized, seq |-> j'.seq,
                  prevHash |-> j'.prevHash]
        /\ j'.initialized \in BOOLEAN /\ j'.seq \in Nat
    BY <2>3 DEF Typed
  <2> QED
    BY <2>2, <2>5, <2>6, <2>7 DEF Typed
<1>3. CASE ~(AppendRecord \/ LoadTailFails)
  <2>0. calls' = calls
    BY <1>3 DEF Next, Write, WriteFails, SyncAndReturn, SyncFails, Crash,
                PowerLoss, Start, vars
  <2>1. /\ \A r : WellFormed(r) <=> WellFormed(r)'
        /\ \A line : LineOK(line) <=> LineOK(line)'
    BY <2>0 DEF WellFormed, LineOK
  <2>2. CASE Write
    <3> DEFINE line == IF tail = << >> THEN Parses(append.rec) ELSE Garbage
    <3>1. LineOK(line)
      BY <1>0 DEF Typed, LineOK, Parses
    <3>2. file' = Append(file, line) /\ Len(tail') = 0
      BY <2>2 DEF Write
    <3>3. \A i \in 1..Len(file)' : LineOK(file[i])'
      BY <1>0, <2>1, <3>1, <3>2, Appended DEF Typed
    <3>4. append' = [step |-> "SYNC", rec |-> append.rec]
      BY <2>2 DEF Write, Shape
    <3> QED
      BY <2>0, <2>1, <2>2, <3>2, <3>3, <3>4 DEF Write, Typed
  <2>3. CASE WriteFails
    <3>1. \/ tail' = tail \/ tail' = <<Garbage>>
          \/ tail' = <<Parses(append.rec)>>
      BY <2>3 DEF WriteFails
    <3>2. LineOK(Parses(append.rec)) /\ LineOK(Garbage)
      BY <1>0 DEF Typed, LineOK, Parses
    <3>3. Len(tail') <= 1 /\ \A i \in 1..Len(tail)' : LineOK(tail[i])'
      <4>1. CASE tail' = tail
        BY <2>1, <4>1 DEF Typed
      <4>2. CASE \E line : LineOK(line) /\ tail' = <<line>>
        BY <2>1, <4>2
      <4> QED
        BY <3>1, <3>2, <4>1, <4>2
    <3> QED
      BY <1>0, <2>0, <2>1, <2>3, <3>3 DEF WriteFails, NotAppending, Typed
  <2>4. CASE SyncAndReturn
    <3>1. /\ j' = [initialized |-> j.initialized, seq |-> append.rec.seq,
                   prevHash |-> append.rec.hash]
          /\ append.rec.seq \in Nat
      BY <2>4 DEF SyncAndReturn, returnRef, Typed, WellFormed
    <3> QED
      BY <1>0, <2>0, <2>1, <2>4, <3>1
         DEF SyncAndReturn, returnRef, NotAppending, Typed
  <2>5. CASE SyncFails
    BY <1>0, <2>0, <2>1, <2>5 DEF SyncFails, NotAppending, Typed
  <2>6. CASE Crash
    BY <1>0, <2>0, <2>1, <2>6 DEF Crash, stopped, Fresh, NotAppending, Typed
  <2>7. CASE PowerLoss
    <3>1. \A i \in 1..Len(file)' : LineOK(file[i])'
      <4>1. CASE UNCHANGED file
        BY <2>1, <4>1 DEF Typed
      <4>2. CASE \E n \in durable..(Len(file) - 1) : file' = SubSeq(file, 1, n)
        BY <1>0, <2>1, <4>2, Prefix DEF Typed, Shape
      <4> QED
        BY <2>7, <4>1, <4>2 DEF PowerLoss
    <3>2. Len(tail') <= 1 /\ \A i \in 1..Len(tail)' : LineOK(tail[i])'
      <4>1. CASE tail' = tail
        BY <2>1, <4>1 DEF Typed
      <4>2. CASE tail' = << >>
        BY <4>2
      <4>3. CASE tail' = <<Garbage>>
        BY <1>0, <2>1, <4>3
      <4>4. CASE \E n \in durable..(Len(file) - 1) : tail' = <<file[n + 1]>>
        BY <1>0, <2>1, <4>4 DEF Typed, Shape
      <4> QED
        BY <2>7, <4>1, <4>2, <4>3, <4>4 DEF PowerLoss
    <3> QED
      BY <1>0, <2>0, <2>1, <2>7, <3>1, <3>2
         DEF PowerLoss, stopped, Fresh, NotAppending, Typed
  <2>8. CASE Start
    BY <2>0, <2>1, <2>8 DEF Start, Typed
  <2>9. CASE UNCHANGED vars
    BY <2>0, <2>1, <2>9 DEF vars, Typed
  <2> QED
    BY <1>3, <2>2, <2>3, <2>4, <2>5, <2>6, <2>7, <2>8, <2>9 DEF Next
<1> QED
  BY <1>1, <1>2, <1>3

\* The types hold throughout.
THEOREM TypedHolds == Spec => []Typed
<1>1. Init => Typed
  <2> SUFFICES ASSUME Init PROVE Typed
    OBVIOUS
  <2>1. calls = 0 /\ WellFormed(NoRecord)
    BY NothingIsWellFormed DEF Init
  <2> QED
    BY <2>1, JournalAssumption DEF Init, NotAppending, Fresh, Typed
<1>2. Inv /\ Typed /\ [Next]_vars => Typed'
  BY TypedStep DEF Inv
<1> QED
  BY <1>1, <1>2, InvHolds, PTL DEF Spec

\* Every variable of the journal has its type throughout.
THEOREM TypeCorrect == Spec => []TypeOK
<1>1. Inv /\ Typed => TypeOK
  <2> SUFFICES ASSUME Shape, Typed PROVE TypeOK
    BY DEF Inv
  <2>1. /\ DOMAIN lines = 1..(Len(file) + Len(tail))
        /\ Len(file) \in Nat /\ Len(tail) \in Nat
        /\ \A i \in 1..Len(file) : lines[i] = file[i]
        /\ \A i \in 1..Len(tail) : lines[Len(file) + i] = tail[i]
    BY LinesHere
  <2>2. \A i \in DOMAIN lines : LineOK(lines[i])
    <3> SUFFICES ASSUME NEW i \in 1..(Len(file) + Len(tail))
                 PROVE  LineOK(lines[i])
      BY <2>1
    <3>1. CASE i \in 1..Len(file)
      BY <2>1, <3>1 DEF Typed
    <3>2. CASE i - Len(file) \in 1..Len(tail)
      <4>1. i = Len(file) + (i - Len(file))
        BY <2>1
      <4> QED
        BY <2>1, <3>2, <4>1 DEF Typed
    <3> QED
      BY <2>1, <3>1, <3>2
  <2> QED
    BY <2>2 DEF TypeOK, Shape, Typed, LineOK
<1> QED
  BY <1>1, InvHolds, TypedHolds, PTL

-----------------------------------------------------------------------------
(* The chain.                                                              *)

\* Line n of the file is a record, numbered n and chained to the one before.
Linked(ls, n) ==
  /\ ls[n].parses
  /\ ls[n].rec.seq = n
  /\ ls[n].rec.prev = IF n = 1 THEN Genesis ELSE ls[n - 1].rec.hash
  /\ ls[n].rec.hash = hash(ls[n].rec.seq, ls[n].rec.prev, ls[n].rec.event)

\* What the next record is chained to.
Top(ls) == IF Len(ls) = 0 THEN Genesis ELSE ls[Len(ls)].rec.hash

\* While no append has failed: the file is all there is, it verifies, and the
\* fields, the append in progress and its last line agree.
Chained ==
  /\ ~up => j = Fresh /\ append = NotAppending
  /\ up /\ clean =>
       /\ tail = << >>
       /\ \A n \in 1..Len(file) : Linked(file, n)
       /\ ~j.initialized => j.seq = 0 /\ j.prevHash = Genesis
       /\ append.step = "IDLE" /\ j.initialized =>
            j.seq = Len(file) /\ j.prevHash = Top(file)
       /\ append.step = "WRITE" =>
            /\ j.initialized
            /\ append.rec = record(Len(file) + 1, Top(file), append.rec.event)
       /\ append.step = "SYNC" =>
            /\ j.initialized /\ Len(file) > 0
            /\ file[Len(file)] = Parses(append.rec)

\* Lemma: a sequence of lines verifies when each of them is linked.
LEMMA VerifyIsLinked ==
  ASSUME NEW ls, IsSeq(ls)
  PROVE  Verify(ls) <=> \A n \in 1..Len(ls) : Linked(ls, n)
<1>1. DOMAIN ls = 1..Len(ls)
  BY DEF IsSeq
<1> QED
  BY <1>1 DEF Verify, Linked

\* Lemma: a linked line stays linked as long as it and the one before stay.
LEMMA StaysLinked ==
  ASSUME NEW ls, NEW ms, NEW n \in Nat, n >= 1, Linked(ls, n),
         \A i \in 1..n : ms[i] = ls[i]
  PROVE  Linked(ms, n)
<1>1. ms[n] = ls[n] /\ (n > 1 => ms[n - 1] = ls[n - 1])
  OBVIOUS
<1> QED
  BY <1>1 DEF Linked

\* Lemma: the fields of a process that starts on a file that verifies go on
\* where the file ends.
LEMMA LoadedIsTop ==
  ASSUME Shape, Typed, tail = << >>, \A n \in 1..Len(file) : Linked(file, n),
         j.seq = 0, j.prevHash = Genesis
  PROVE  loadTail = [initialized |-> TRUE, seq |-> Len(file),
                     prevHash |-> Top(file)]
<1>1. IsSeq(file) /\ lines = file /\ Len(file) \in Nat
  BY LinesHere
<1>2. CASE lines = << >>
  <2>1. Len(file) = 0
    BY <1>1, <1>2
  <2>2. loadTail = [j EXCEPT !.initialized = TRUE]
    BY <1>2 DEF loadTail
  <2>3. loadTail = [initialized |-> TRUE, seq |-> j.seq, prevHash |-> j.prevHash]
    BY <2>2 DEF Typed
  <2> QED
    BY <2>1, <2>3 DEF Top
<1>3. CASE lines # << >>
  <2>1. Len(file) # 0
    BY <1>1, <1>3 DEF IsSeq
  <2>2. Linked(file, Len(file))
    BY <1>1, <2>1
  <2> QED
    BY <1>1, <1>3, <2>1, <2>2 DEF loadTail, Top, Linked
<1> QED
  BY <1>2, <1>3

\* Lemma: one step of each kind keeps the chain.
LEMMA ChainStep == Shape /\ Typed /\ Chained /\ [Next]_vars => Chained'
<1> SUFFICES ASSUME Shape, Typed, Chained, [Next]_vars PROVE Chained'
  OBVIOUS
<1>0. IsSeq(file) /\ Len(file) \in Nat
  BY LinesHere
<1>1. CASE AppendRecord
  <2>1. /\ j' = (IF j.initialized THEN j ELSE loadTail)
        /\ up /\ append.step = "IDLE"
        /\ UNCHANGED <<file, tail, up, clean>>
        /\ \/ append' = append
           \/ append' = [step |-> "WRITE",
                         rec |-> record(j'.seq + 1, j'.prevHash, calls + 1)]
    BY <1>1 DEF AppendRecord, Begin, NotAppending
  <2>2. clean => j'.initialized /\ j'.seq = Len(file) /\ j'.prevHash = Top(file)
    BY <2>1, LoadedIsTop DEF Chained
  <2>3. append' = append \/
          /\ append'.step = "WRITE"
          /\ append'.rec = record(j'.seq + 1, j'.prevHash, append'.rec.event)
    BY <2>1 DEF record
  <2> QED
    BY <2>1, <2>2, <2>3 DEF Chained, Linked, Top
<1>2. CASE LoadTailFails \/ WriteFails \/ SyncFails
  BY <1>2 DEF LoadTailFails, WriteFails, SyncFails, Chained, NotAppending
<1>3. CASE Write
  <2> DEFINE line == IF tail = << >> THEN Parses(append.rec) ELSE Garbage
  <2>1. /\ file' = Append(file, line) /\ tail' = << >>
        /\ UNCHANGED <<up, j, clean>>
        /\ append' = [step |-> "SYNC", rec |-> append.rec]
    BY <1>3 DEF Write, Shape
  <2>2. /\ Len(file') = Len(file) + 1
        /\ \A i \in 1..Len(file) : file'[i] = file[i]
        /\ file'[Len(file) + 1] = line
    BY <1>0, <2>1, Appended
  <2>3. up
    BY <1>3 DEF Chained, Write, NotAppending
  <2> SUFFICES ASSUME clean PROVE Chained'
    BY <2>1, <2>3 DEF Chained
  <2>4. /\ line = Parses(append.rec) /\ j.initialized
        /\ append.rec = record(Len(file) + 1, Top(file), append.rec.event)
        /\ \A n \in 1..Len(file) : Linked(file, n)
    BY <1>3, <2>3 DEF Chained, Write
  <2>5. \A n \in 1..Len(file) : Linked(file', n)
    <3> SUFFICES ASSUME NEW n \in 1..Len(file) PROVE Linked(file', n)
      OBVIOUS
    <3> QED
      BY <1>0, <2>2, <2>4, StaysLinked
  <2>6. Linked(file', Len(file) + 1)
    BY <1>0, <2>2, <2>4 DEF Linked, Parses, Top, record
  <2>7. \A n \in 1..Len(file') : Linked(file', n)
    BY <1>0, <2>2, <2>5, <2>6
  <2> HIDE DEF line
  <2> QED
    BY <1>0, <2>1, <2>2, <2>3, <2>4, <2>7 DEF Chained, Linked
<1>4. CASE SyncAndReturn
  <2>1. /\ append.step = "SYNC" /\ append' = NotAppending
        /\ UNCHANGED <<file, tail, up, clean>>
        /\ j' = [initialized |-> j.initialized, seq |-> append.rec.seq,
                 prevHash |-> append.rec.hash]
    BY <1>4 DEF SyncAndReturn, returnRef, Typed
  <2>2. up
    BY <2>1 DEF Chained, NotAppending
  <2>3. clean => append.rec.seq = Len(file) /\ append.rec.hash = Top(file)
    BY <1>0, <2>1, <2>2 DEF Chained, Linked, Parses, Top
  <2> QED
    BY <2>1, <2>2, <2>3 DEF Chained, NotAppending, Linked, Top
<1>5. CASE Crash \/ PowerLoss
  BY <1>5 DEF Crash, PowerLoss, stopped, Chained
<1>6. CASE Start
  <2>1. clean' => tail = << >> /\ \A n \in 1..Len(file) : Linked(file, n)
    BY <1>0, <1>6, LinesHere, VerifyIsLinked DEF Start
  <2> QED
    BY <1>6, <2>1 DEF Start, Chained, Fresh, NotAppending, Linked
<1>7. CASE UNCHANGED vars
  BY <1>7 DEF vars, Chained, Linked, Top
<1> QED
  BY <1>1, <1>2, <1>3, <1>4, <1>5, <1>6, <1>7 DEF Next

\* The chain holds throughout.
THEOREM ChainHolds == Spec => []Chained
<1>1. Init => Chained
  <2> SUFFICES ASSUME Init PROVE Chained
    OBVIOUS
  <2>1. Len(file) = 0
    BY DEF Init
  <2> QED
    BY <2>1 DEF Init, Chained, Fresh, NotAppending
<1>2. Inv /\ Typed /\ Chained /\ [Next]_vars => Chained'
  BY ChainStep DEF Inv
<1> QED
  BY <1>1, <1>2, InvHolds, TypedHolds, PTL DEF Spec

\* A process that started on complete lines and has had no failed append has a
\* journal that verifies, at every step and however often it was restarted.
THEOREM ChainIsContinued == Spec => []RestartContinuesTheChain
<1>1. Inv /\ Chained => RestartContinuesTheChain
  BY LinesHere, VerifyIsLinked DEF Inv, Chained, RestartContinuesTheChain
<1> QED
  BY <1>1, InvHolds, ChainHolds, PTL
=============================================================================
