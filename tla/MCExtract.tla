----------------------------- MODULE MCExtract -----------------------------
(***************************************************************************)
(* Instances of Extract for TLC.                                           *)
(***************************************************************************)
EXTENDS Extract

NoInProcess   == {}
LastInProcess == {NumPlugins}
=============================================================================
