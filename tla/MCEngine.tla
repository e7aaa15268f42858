------------------------------ MODULE MCEngine ------------------------------
(***************************************************************************)
(* Small instances of Engine.  Weights: 0 is an empty deck, 5 is a loaded  *)
(* truck, and 6 is one too, for mutants.                                   *)
(* t1 is registered to the plate 15C-1, which one camera spells 15c1; t2   *)
(* is not registered.                                                      *)
(***************************************************************************)
EXTENDS Engine

MCTags == {"t1", "t2"}
MCPlates == {"15C-1", "15c1", "60A-2"}
MCNormalizePlate == [p \in MCPlates |-> IF p = "60A-2" THEN "60A2" ELSE "15C1"]
MCVehicles == [t \in {"t1"} |-> "15C-1"]
MCKnownTag == {"t1"}
MCOnePlate == {"15C-1"}
MCTwoPlates == {"15C-1", "60A-2"}

\* Sensor snapshots, by the set of inputs that are on.
Snapshot(on) == [entry |-> "entry" \in on, front |-> "front" \in on,
                 rear |-> "rear" \in on, exit |-> "exit" \in on,
                 safety |-> "safety" \in on]

\* One truck crossing, the next one waiting, safety lost on approach.
MCCrossing ==
  {Snapshot(on) : on \in
     {{"entry"}, {"safety"}, {"entry", "safety"}, {"front", "safety"},
      {"front", "rear", "safety"}, {"exit", "safety"},
      {"entry", "front", "rear", "safety"}, {"exit"}, {}}}

\* The deck as seen with one sensor possibly dead, then the way out, with
\* safety lost on the way.
MCWay ==
  {Snapshot(on) : on \in
     {{"entry", "safety"}, {"safety"}, {"front", "safety"},
      {"rear", "safety"}, {"front", "rear", "safety"},
      {"exit", "safety"}, {"exit"}, {}}}

\* Approach and exit only: what the identity decisions depend on.
MCApproach ==
  {Snapshot(on) : on \in
     {{"entry", "safety"}, {"safety"}, {"front", "rear", "safety"},
      {"exit", "safety"}}}

MCWeights == {0, 5, 6}

Frame(w, stable, ok) == [weight |-> w, stable |-> stable, ok |-> ok]

\* An empty deck, a loaded truck (settled and settling), a faulted frame.
MCFrames == {Frame(0, TRUE, TRUE), Frame(5, TRUE, TRUE),
             Frame(5, FALSE, TRUE), Frame(5, TRUE, FALSE)}

\* Settled frames, one of them faulted.
MCFaultedFrames == {Frame(0, TRUE, TRUE), Frame(5, TRUE, TRUE), Frame(5, TRUE, FALSE)}

\* Enough to authorise entry and to weigh.
MCSettledFrames == {Frame(0, TRUE, TRUE), Frame(5, TRUE, TRUE)}
=============================================================================
