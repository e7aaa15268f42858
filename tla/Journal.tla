------------------------------- MODULE Journal -------------------------------
(***************************************************************************)
(* The two hash-chained JSONL journals, adapters/rawjournal/journal.go and *)
(* adapters/auditjournal/journal.go, which append, load and verify in the  *)
(* same way.  Appends run under the journal's mutex, one at a time; a      *)
(* write can be cut short, a sync can fail, the process can die at any     *)
(* step and the power can go, taking what was not synced.                  *)
(*                                                                         *)
(* Data abstractions.  An event is the number of the Append call that      *)
(* carries it.  A hash is what it is computed from, so there are no        *)
(* collisions.  A line of the file is a record or does not parse; the last *)
(* line may lack its newline.  An event too large for the line scanner is  *)
(* left out.  The callers are any here, who go on after a failed append:   *)
(* ScaleFeed adds the one of the raw journal, who does not.                *)
(***************************************************************************)
EXTENDS Integers, Sequences

CONSTANT MaxAppends  \* bound: Append calls

ASSUME JournalAssumption == MaxAppends \in Nat

VARIABLES
  file,     \* the complete lines of the file
  tail,     \* the bytes after the last newline: no line or one
  durable,  \* how many complete lines are known to be synced
  up,       \* the process is running
  j,        \* the journal's fields: initialized, seq and prevHash
  append,   \* the append in progress: its step and its record
  calls,    \* Append calls so far: the last event
  acked,    \* history: the records whose reference was returned
  clean     \* history: the process started on complete lines and no append
            \* has failed since

vars == <<file, tail, durable, up, j, append, calls, acked, clean>>

Genesis == << >>
hash(seq, prev, event) == <<seq, prev, event>>

\* Mutant: the previous hash is stored, not hashed.
recordUnchained(seq, prev, event) ==
  [seq |-> seq, prev |-> prev, event |-> event,
   hash |-> hash(seq, Genesis, event)]

record(seq, prev, event) ==
  [seq |-> seq, prev |-> prev, event |-> event, hash |-> hash(seq, prev, event)]

NoRecord == record(0, Genesis, 0)

Parses(r) == [parses |-> TRUE, rec |-> r]
Garbage == [parses |-> FALSE, rec |-> NoRecord]

\* What a reader of the file sees: the scanner takes an unterminated last line.
lines == file \o tail

Fresh == [initialized |-> FALSE, seq |-> 0, prevHash |-> Genesis]
NotAppending == [step |-> "IDLE", rec |-> NoRecord]

\* Every record anywhere is hashed over its number, predecessor and event.
WellFormed(r) ==
  /\ r.seq \in Nat /\ r.event \in 0..calls
  /\ r.hash = hash(r.seq, r.prev, r.event)

TypeOK ==
  /\ \A i \in DOMAIN lines : lines[i].parses \in BOOLEAN /\ WellFormed(lines[i].rec)
  /\ Len(tail) <= 1 /\ durable \in 0..Len(file)
  /\ up \in BOOLEAN /\ clean \in BOOLEAN /\ calls \in 0..MaxAppends
  /\ j.initialized \in BOOLEAN /\ j.seq \in Nat
  /\ append.step \in {"IDLE", "WRITE", "SYNC"} /\ WellFormed(append.rec)
  /\ \A r \in acked : WellFormed(r)

Init ==
  /\ file = << >> /\ tail = << >> /\ durable = 0
  /\ up = TRUE /\ j = Fresh /\ append = NotAppending
  /\ calls = 0 /\ acked = {} /\ clean = TRUE

Verify(ls) ==
  \A i \in DOMAIN ls :
    /\ ls[i].parses
    /\ ls[i].rec.seq = i
    /\ ls[i].rec.prev = IF i = 1 THEN Genesis ELSE ls[i - 1].rec.hash
    /\ ls[i].rec.hash = hash(ls[i].rec.seq, ls[i].rec.prev, ls[i].rec.event)

\* Mutant: the numbering is taken up again, the chain is not.
loadSeqOnly ==
  [j EXCEPT !.initialized = TRUE,
            !.seq = IF lines = << >> THEN @ ELSE lines[Len(lines)].rec.seq]

\* The fields after the tail was read.
loadTail ==
  IF lines = << >> THEN [j EXCEPT !.initialized = TRUE]
  ELSE LET last == lines[Len(lines)].rec
       IN [initialized |-> TRUE, seq |-> last.seq, prevHash |-> last.hash]

Begin(loaded) ==
  append' = [step |-> "WRITE",
             rec |-> record(loaded.seq + 1, loaded.prevHash, calls + 1)]

\* The call up to the write; the file may also fail to open.
AppendRecord ==
  LET loaded == IF j.initialized THEN j ELSE loadTail IN
  /\ up /\ append = NotAppending /\ calls < MaxAppends
  /\ ~j.initialized => \A i \in DOMAIN lines : lines[i].parses
  /\ calls' = calls + 1
  /\ j' = loaded
  /\ Begin(loaded) \/ UNCHANGED append
  /\ UNCHANGED <<file, tail, durable, up, acked, clean>>

\* The tail cannot be read: the journal counts as initialized all the same.
LoadTailFails ==
  /\ up /\ append = NotAppending /\ calls < MaxAppends /\ ~j.initialized
  /\ calls' = calls + 1
  /\ j' = [j EXCEPT !.initialized = TRUE]
  /\ clean' = FALSE
  /\ UNCHANGED <<file, tail, durable, up, append, acked>>

\* A line written after an unterminated one becomes part of it.
Write ==
  /\ append.step = "WRITE"
  /\ file' = Append(file, IF tail = << >> THEN Parses(append.rec) ELSE Garbage)
  /\ tail' = << >>
  /\ append' = [append EXCEPT !.step = "SYNC"]
  /\ UNCHANGED <<durable, up, j, calls, acked, clean>>

\* The write is cut short: anywhere, or just before the newline.
WriteFails ==
  /\ append.step = "WRITE"
  /\ tail' \in {tail, <<Garbage>>} \cup
               (IF tail = << >> THEN {<<Parses(append.rec)>>} ELSE {})
  /\ append' = NotAppending /\ clean' = FALSE
  /\ UNCHANGED <<file, durable, up, j, calls, acked>>

\* Mutant: the reference is returned without waiting for the sync.
returnUnsynced ==
  /\ durable' \in {durable, Len(file)}
  /\ j' = [j EXCEPT !.seq = append.rec.seq, !.prevHash = append.rec.hash]
  /\ acked' = acked \cup {append.rec}

\* Synced and closed: the fields advance and the reference is returned.
returnRef ==
  /\ durable' = Len(file)
  /\ j' = [j EXCEPT !.seq = append.rec.seq, !.prevHash = append.rec.hash]
  /\ acked' = acked \cup {append.rec}

SyncAndReturn ==
  /\ append.step = "SYNC"
  /\ returnRef
  /\ append' = NotAppending
  /\ UNCHANGED <<file, tail, up, calls, clean>>

\* The sync or the close fails: the line stays in the file, and the next
\* append takes its number again.
SyncFails ==
  /\ append.step = "SYNC"
  /\ durable' \in {durable, Len(file)}
  /\ append' = NotAppending /\ clean' = FALSE
  /\ UNCHANGED <<file, tail, up, j, calls, acked>>

stopped == up' = FALSE /\ j' = Fresh /\ append' = NotAppending

\* The process dies; what it wrote is in the file.
Crash ==
  /\ up
  /\ stopped
  /\ UNCHANGED <<file, tail, durable, calls, acked, clean>>

\* The power goes: of what was not synced a prefix is left.
PowerLoss ==
  /\ stopped
  /\ \/ UNCHANGED file /\ tail' \in {tail, << >>}
     \/ tail # << >> /\ UNCHANGED file /\ tail' = <<Garbage>>
     \/ \E n \in durable..(Len(file) - 1) :
          /\ file' = SubSeq(file, 1, n)
          /\ tail' \in {<< >>, <<Garbage>>, <<file[n + 1]>>}
  /\ UNCHANGED <<durable, calls, acked, clean>>

\* The process does not start on a journal that does not verify.
Start ==
  /\ ~up /\ Verify(lines)
  /\ up' = TRUE /\ clean' = (tail = << >>)
  /\ UNCHANGED <<file, tail, durable, j, append, calls, acked>>

Next ==
  \/ AppendRecord
  \/ LoadTailFails
  \/ Write
  \/ WriteFails
  \/ SyncAndReturn
  \/ SyncFails
  \/ Crash
  \/ PowerLoss
  \/ Start

Spec == Init /\ [][Next]_vars

-----------------------------------------------------------------------------
(* Properties.                                                             *)

\* A chain that verifies has lost nothing that was acknowledged: every record
\* whose reference a ticket or an output command may carry is in its place,
\* after any failed write or sync, crash and loss of power.
VerifiedMeansComplete ==
  Verify(lines) =>
    \A r \in acked : r.seq \in DOMAIN lines /\ lines[r.seq] = Parses(r)

\* A process that started on complete lines and has had no failed append leaves
\* a chain that verifies, at every step, however often it was restarted.
RestartContinuesTheChain == up /\ clean => Verify(lines)
=============================================================================
