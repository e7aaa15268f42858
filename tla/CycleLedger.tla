---------------------------- MODULE CycleLedger ----------------------------
(***************************************************************************)
(* What the station promises about its two-pass business transactions      *)
(* (docs/TWO-PASS-CYCLE.md, "Orphan rule" and "Completion durability       *)
(* boundary"): an open cycle is closed without a ticket or settled with    *)
(* one, never both, and neither is ever undone.                            *)
(***************************************************************************)
EXTENDS Integers

CONSTANTS Cycles,   \* the cycle ids
          NoReceipt

VARIABLES
  book,     \* per cycle: "none", "open", "closed" or "settled"
  receipt   \* per cycle: the quantities of its final ticket, or NoReceipt

ledgerVars == <<book, receipt>>

LedgerInit ==
  /\ book = [c \in Cycles |-> "none"]
  /\ receipt = [c \in Cycles |-> NoReceipt]

Open(c) ==
  /\ book[c] = "none" /\ book' = [book EXCEPT ![c] = "open"]
  /\ UNCHANGED receipt

Close(c) ==
  /\ book[c] = "open" /\ book' = [book EXCEPT ![c] = "closed"]
  /\ UNCHANGED receipt

\* The receipt is any whose net quantity is positive and adds up.
Settle(c) ==
  /\ book[c] = "open" /\ book' = [book EXCEPT ![c] = "settled"]
  /\ receipt' = [receipt EXCEPT ![c] = receipt'[c]]
  /\ receipt[c] = NoReceipt /\ receipt'[c] # NoReceipt
  /\ receipt'[c].net = receipt'[c].gross - receipt'[c].tare
  /\ receipt'[c].net > 0

LedgerNext == \E c \in Cycles : Open(c) \/ Close(c) \/ Settle(c)

LedgerSpec == LedgerInit /\ [][LedgerNext]_ledgerVars
=============================================================================
