------------------------------ MODULE MCOtaStream ------------------------------
(***************************************************************************)
(* Instances of OtaStream: servers that send less, all and more of an      *)
(* image of up to three blocks, right and wrong.                           *)
(***************************************************************************)
EXTENDS OtaStream

AnyServers == [len : 0 .. 8, sent : 0 .. MaxSent, good : BOOLEAN]
===============================================================================
