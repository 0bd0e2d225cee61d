----------------------------- MODULE MCBarrage -----------------------------
(* Model-checking instances of Barrage; the values are in the .cfg files.   *)
EXTENDS Barrage
=============================================================================
