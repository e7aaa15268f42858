---------------------------- MODULE MCScaleFeed ----------------------------
(* Instances of ScaleFeed; the bound is given in the cfg file.              *)
EXTENDS ScaleFeed
=============================================================================
