------------------------------ MODULE StationLink ------------------------------
(***************************************************************************)
(* What the connection manager makes of the firmware for an application:   *)
(* the interface exists while it is used, the firmware is asked to join    *)
(* the wanted network when nothing of the last attempt is left, and every  *)
(* change of the link is heard, once and in order.                         *)
(***************************************************************************)
CONSTANTS Profiles, None

VARIABLES
  ifaces,     \* interfaces of the station in the firmware
  want, on,   \* the network wanted, the one the firmware joins or has joined
  link,       \* "down", "joining" or "up"
  view,       \* "off", "trying", "on" or "lost": what the application believes
  ups, downs  \* a link has come up, gone down, and it has not yet heard of it

vars == <<ifaces, want, on, link, view, ups, downs>>

Init ==
  /\ ifaces = 0 /\ want = None /\ on = None
  /\ link = "down" /\ view = "off" /\ ups = FALSE /\ downs = FALSE

\* The firmware is asked to join; it may refuse.
Ask(p) ==
  /\ link = "down" /\ ~ups /\ ~downs
  /\ view' = "trying"
  /\ \/ link' = "joining" /\ on' = p
     \/ UNCHANGED <<link, on>>
  /\ UNCHANGED <<ups, downs>>

Begin(p) == view = "off" /\ ifaces = 0 /\ Ask(p) /\ want' = p /\ ifaces' = 1

Again == view = "lost" /\ Ask(want) /\ UNCHANGED <<want, ifaces>>

End ==
  /\ view = "lost" /\ view' = "off"
  /\ ifaces = 1 /\ ifaces' = 0
  /\ link = "down" /\ UNCHANGED <<want, on, link, ups, downs>>

Join ==
  /\ link = "joining" /\ link' = "up"
  /\ ~ups /\ ups' = TRUE
  /\ UNCHANGED <<ifaces, want, on, view, downs>>

\* The attempt fails or the connection ends.
Lose ==
  /\ link # "down" /\ link' = "down" /\ on' = None
  /\ ~downs /\ downs' = TRUE
  /\ UNCHANGED <<ifaces, want, view, ups>>

HearUp ==
  /\ ups /\ ups' = FALSE
  /\ view = "trying" /\ view' = "on"
  /\ UNCHANGED <<ifaces, want, on, link, downs>>

HearDown ==
  /\ downs /\ downs' = FALSE /\ ~ups
  /\ view \in {"trying", "on"} /\ view' = "lost"
  /\ UNCHANGED <<ifaces, want, on, link, ups>>

Next ==
  \/ \E p \in Profiles : Begin(p)
  \/ Again \/ End \/ Join \/ Lose \/ HearUp \/ HearDown

Spec == Init /\ [][Next]_vars
===============================================================================
