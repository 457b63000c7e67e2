------------------------------ MODULE CmdChannel ------------------------------
(***************************************************************************)
(* What the command manager promises the firmware: a mailbox of one        *)
(* command, filled in the order in which the commands were accepted.       *)
(***************************************************************************)
EXTENDS Sequences, Naturals, SequencesExt

CONSTANTS Cmds, None

VARIABLES open,     \* commands are still accepted
          waiting,  \* accepted and not yet given, oldest first
          box,      \* the mailbox
          given     \* every command the mailbox has ever held

vars == <<open, waiting, box, given>>

Init == open = TRUE /\ waiting = <<>> /\ box = None /\ given = {}

Accept(c) ==
  /\ open /\ c \notin given /\ c \notin ToSet(waiting)
  /\ waiting' = Append(waiting, c)
  /\ UNCHANGED <<open, box, given>>

Give ==
  /\ box = None /\ waiting # <<>>
  /\ box' = Head(waiting)
  /\ waiting' = Tail(waiting)
  /\ given' = given \cup {Head(waiting)}
  /\ UNCHANGED open

Acknowledge ==
  /\ box # None
  /\ box' = None
  /\ UNCHANGED <<open, waiting, given>>

\* A command that is given up closes the channel for good; if it was still
\* waiting it is never given.
GiveUp ==
  /\ open' = FALSE
  /\ \/ waiting' = waiting
     \/ \E i \in 1 .. Len(waiting) : waiting' = RemoveAt(waiting, i)
  /\ UNCHANGED <<box, given>>

Next == (\E c \in Cmds : Accept(c)) \/ Give \/ Acknowledge \/ GiveUp

Spec == Init /\ [][Next]_vars
===============================================================================
