------------------------------ MODULE MCReplay ------------------------------
(* Model-checking instance of Replay; the values are in the .cfg file.      *)
EXTENDS Replay
=============================================================================
