-------------------------- MODULE MCBarrageCommand --------------------------
(* Model-checking instance of BarrageCommand; the values are in the .cfg.   *)
EXTENDS BarrageCommand
=============================================================================
