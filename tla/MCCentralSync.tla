--------------------------- MODULE MCCentralSync ---------------------------
(* Instances of CentralSync; the constants are given in the cfg files.      *)
EXTENDS CentralSync

\* The second ticket of the queue is one Central will never take.
MCRefused == {2}
=============================================================================
