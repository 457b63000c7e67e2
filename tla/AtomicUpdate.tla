------------------------------ MODULE AtomicUpdate ------------------------------
(***************************************************************************)
(* What the updater and boot2 promise together: the release the device     *)
(* starts changes in one step, and a release that cannot be started gives  *)
(* way to the last one that could.                                         *)
(***************************************************************************)
CONSTANTS Releases,  \* the releases that may be installed
          First      \* those the device may be delivered with

VARIABLES cur,       \* the release a reset starts
          safe       \* the last good one

Init == cur \in First /\ safe = cur

Install(r) ==
  /\ cur.good
  /\ cur' = r
  /\ safe' = IF r.good THEN r ELSE cur

RollBack ==
  /\ ~cur.good
  /\ cur' = safe
  /\ UNCHANGED safe

Next == (\E r \in Releases : Install(r)) \/ RollBack

Spec == Init /\ [][Next]_<<cur, safe>>
===============================================================================
