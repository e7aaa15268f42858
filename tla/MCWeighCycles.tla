--------------------------- MODULE MCWeighCycles ---------------------------
(***************************************************************************)
(* Small instances of WeighCycles.  15I, written with a dotless i instead  *)
(* of I, keeps the store's key (strings.ToUpper makes it I) but not the     *)
(* pair rule's (which drops letters outside ASCII); "--" has no key.        *)
(***************************************************************************)
EXTENDS WeighCycles

CONSTANTS c1, c2

MCCycles == {c1, c2}

MCPlates == {"15I", "15dotless", "--"}
MCVehicleKey == [p \in MCPlates |-> IF p = "--" THEN None ELSE "15I"]
MCCycleIdentity ==
  [p \in MCPlates |-> CASE p = "15I" -> "15I" [] p = "15dotless" -> "15" [] OTHER -> None]
MCOnePlate == {"15I"}

\* Elapsed between 1 and 2, tare up to 2, net up to 2.
MCPolicy == [NoPolicy EXCEPT !.minElapsed = 1, !.maxElapsed = 2, !.maxTare = 2]

\* Only the window is configured, and it is short.
MCWindow == [NoPolicy EXCEPT !.maxElapsed = 1]
=============================================================================
