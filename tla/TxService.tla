------------------------------- MODULE TxService -------------------------------
(***************************************************************************)
(* What the transmit path promises lwIP: packets are taken up for sending  *)
(* in the order they were handed over, sent until they get through, and    *)
(* given back after that and once.  Where MayDrop holds a packet may also   *)
(* be given back while it is still being sent.                             *)
(***************************************************************************)
EXTENDS Sequences, SequencesExt

CONSTANTS Packets, MayDrop

VARIABLES waiting, sending, sent

Init == waiting = <<>> /\ sending = {} /\ sent = {}

Output(p) ==
  /\ p \notin Range(waiting) \cup sending \cup sent
  /\ waiting' = Append(waiting, p)
  /\ UNCHANGED <<sending, sent>>

Send ==
  /\ waiting # <<>>
  /\ sending' = sending \cup {Head(waiting)}
  /\ waiting' = Tail(waiting)
  /\ UNCHANGED sent

Succeed(p) ==
  /\ p \in sending
  /\ sending' = sending \ {p}
  /\ sent' = sent \cup {p}
  /\ UNCHANGED waiting

GiveBack(p) ==
  /\ p \in sent \/ (MayDrop /\ p \in sending)
  /\ sent' = sent \ {p}
  /\ sending' = sending \ {p}
  /\ UNCHANGED waiting

Next == Send \/ \E p \in Packets : Output(p) \/ Succeed(p) \/ GiveBack(p)

Spec == Init /\ [][Next]_<<waiting, sending, sent>>
===============================================================================
