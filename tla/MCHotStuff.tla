----------------------------- MODULE MCHotStuff -----------------------------
(* Instances of HotStuff.                                                  *)
EXTENDS HotStuff, TLC
=============================================================================
