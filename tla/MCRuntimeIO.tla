---------------------------- MODULE MCRuntimeIO ----------------------------
(* Small instances of RuntimeIO.                                            *)
EXTENDS RuntimeIO

In(a, b) == [s \in Sides |-> IF s = "ENTRY" THEN a ELSE b]

\* Both barriers open, the exit one still closed, the entry one contradictory.
MCFeedback ==
  {In("OPEN", "OPEN"), In("OPEN", "CLOSED"), In("CONTRADICTORY", "CLOSED")}

Side(s) == {Open(s), Green(s)}

\* Nothing, let in on one side, and released while that side is still open.
MCRequests ==
  {{}, Side("EXIT"), Side("ENTRY") \cup Side("EXIT") \cup {Buzzer}}
=============================================================================
