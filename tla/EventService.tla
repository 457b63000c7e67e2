------------------------------ MODULE EventService ------------------------------
(***************************************************************************)
(* What an event loop promises its posters: the types posted for an event  *)
(* stay pending until its handler has been called with all of them, and    *)
(* the handlers run one at a time.                                         *)
(***************************************************************************)
CONSTANTS Events, Types, None

VARIABLES
  pending,      \* the types posted and not yet handled, of each event
  busy          \* the event whose handler runs

vars == <<pending, busy>>

Init == pending = [e \in Events |-> {}] /\ busy = None

\* Some types are posted, for one event or several.
Post ==
  /\ pending' \in [Events -> SUBSET Types]
  /\ \A e \in Events : pending[e] \subseteq pending'[e]
  /\ UNCHANGED busy

\* The handler may see types it has seen before.
Begin(e) ==
  /\ busy = None /\ busy' = e
  /\ \E again \in SUBSET Types : pending' = [pending EXCEPT ![e] = @ \cup again]

End ==
  /\ busy # None /\ busy' = None
  /\ pending' = [pending EXCEPT ![busy] = {}]

Next == Post \/ (\E e \in Events : Begin(e)) \/ End

Spec == Init /\ [][Next]_vars
===============================================================================
