------------------------------ MODULE MCFcmSend ------------------------------
(* Instances of FcmSend for TLC. *)
EXTENDS FcmSend
==============================================================================
