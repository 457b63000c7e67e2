-------------------------------- MODULE MCYloop --------------------------------
(***************************************************************************)
(* A small instance of Yloop for TLC: two callers, two events, two delayed *)
(* actions with different delays.                                          *)
(***************************************************************************)
EXTENDS Yloop

CONSTANTS blink, check

MCActions == {blink, check}
MCDelay == [a \in MCActions |-> IF a = check THEN 2 ELSE 1]
===============================================================================
