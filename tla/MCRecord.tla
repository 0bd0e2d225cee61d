------------------------------ MODULE MCRecord ------------------------------
(* Model-checking instance of Record; the values are in the .cfg file.   *)
EXTENDS Record
=============================================================================
