------------------------------ MODULE Workflow ------------------------------
(***************************************************************************)
(* The workflow as the I/O controller sees it: what it may request of the  *)
(* outputs and when.  RuntimeIO is the controller over any workflow that   *)
(* moves like this, and TwoPass, the station behind the audit recorder, is *)
(* shown to be one.                                                        *)
(***************************************************************************)
Sides == {"ENTRY", "EXIT"}

Open(s) == <<"OPEN", s>>    \* the barrier's open request
Green(s) == <<"GREEN", s>>
Buzzer == <<"BUZZER", "EXIT">>

Permissive == {"OPEN", "GREEN"} \X Sides \cup {Buzzer}

\* A side's barrier and green light are requested together, and the buzzer
\* with the side the truck is released on (which is either one, since the
\* session swaps the sides on the way back).
Wants ==
  {w \in SUBSET Permissive :
     /\ \A s \in Sides : Open(s) \in w <=> Green(s) \in w
     /\ Buzzer \in w => \E s \in Sides : Open(s) \in w}

\* The devices whose faults the controller or the recorder reports.
Reported == {"REMOTE_IO", "AUDIT_STORE", "ENTRY_BARRIER", "EXIT_BARRIER"}

Phases == {"NONE", "ACTIVE", "LOCKED"}

VARIABLES
  tx,     \* the transaction: absent, active or locked out
  want,   \* its Outputs
  faults  \* the devices reported with a critical fault

workflow == <<tx, want, faults>>

Start == tx = "NONE" /\ want = {} /\ faults = {}

\* Only an active transaction requests anything, and not when it starts.  None
\* starts or goes on under a critical fault, of these devices or of others;
\* a locked-out one stays so, as does the fault of a lost audit record.
Move ==
  /\ \/ /\ tx' = "ACTIVE" /\ tx # "LOCKED"
        /\ faults' = {} /\ want' \in Wants
        /\ tx = "NONE" => want' = {}
     \/ tx' = "LOCKED" /\ want' = {}
     \/ tx' = "NONE" /\ tx # "LOCKED" /\ want' = {}
  /\ faults' \subseteq Reported
  /\ "AUDIT_STORE" \in faults => "AUDIT_STORE" \in faults'

\* The process ends: nothing of the workflow is left.
Stop == tx' = "NONE" /\ want' = {} /\ faults' = {}

WorkflowSpec == Start /\ [][Move \/ Stop]_workflow
=============================================================================
