----------------------------- MODULE MCTwoPass -----------------------------
(***************************************************************************)
(* Small instances of TwoPass.  Weights: 0 is an empty deck, 4 an empty    *)
(* truck, 6 a loaded one.  There is one truck: the tag t1 is registered to *)
(* its plate p1, t9 is registered to nothing.                              *)
(***************************************************************************)
EXTENDS TwoPass

CONSTANT c1

MCCycles == {c1}
MCOneTag == {"t1"}
MCOneKnownTag == {"t1", "t9"}
MCPlates == {"p1"}
MCVehicles == [t \in {"t1"} |-> "p1"]
MCKey == [p \in MCPlates \cup {None} |-> p]

\* Sensor snapshots, by the set of inputs that are on.
Sensed(on) == [entry |-> "entry" \in on, front |-> "front" \in on,
               rear |-> "rear" \in on, exit |-> "exit" \in on,
               safety |-> "safety" \in on]

\* A truck on its way, in either direction, and the deserted road.
MCRoad ==
  {Sensed(on) : on \in
     {{"entry", "safety"}, {"front", "rear", "safety"}, {"exit", "safety"},
      {"entry", "exit", "safety"}, {"safety"}}}

MCWeights == {0, 4, 6}
MCFrames == [weight : MCWeights, stable : {TRUE}, ok : {TRUE}]

\* Only the elapsed time is limited.
MCPolicy ==
  [minElapsed |-> 0, maxElapsed |-> 1, minGross |-> 0, maxGross |-> 0,
   minTare |-> 0, maxTare |-> 0, minNet |-> 0, maxNet |-> 0]
=============================================================================
