-------------------------------- MODULE MCBloop --------------------------------
(***************************************************************************)
(* An instance of Bloop: two LEDs of different periods, a scheduled event. *)
(***************************************************************************)
EXTENDS Bloop

CONSTANTS fast, slow, once

MCLeds == {fast, slow}
MCScheduled == {once}
MCDelay == [t \in {fast, slow, once} |-> IF t = slow THEN 2 ELSE 1]
===============================================================================
