---------------------------- MODULE DispatchService ----------------------------
(***************************************************************************)
(* What an event loop promises the applications: callbacks run one at a    *)
(* time, events are dispatched in the order in which they wait, each once, *)
(* and a delayed action is called when its time is over, once, unless it   *)
(* was cancelled, and never before one that is due earlier.                *)
(***************************************************************************)
EXTENDS Integers, Sequences

CONSTANTS Events, Actions, Delay

VARIABLES
  events,  \* the events that wait, in the order of dispatch
  due,     \* the time left to each action that waits
  typed,   \* whether there is something to read on the console
  busy     \* whether a callback runs

vars == <<events, due, typed, busy>>

Waiting == DOMAIN due

Init ==
  /\ events = <<>> /\ due = [a \in {} |-> 0]
  /\ typed = FALSE /\ busy = FALSE

\* An event comes, at the end or before the others.
Post(e) ==
  /\ events' \in {Append(events, e), <<e>> \o events}
  /\ UNCHANGED <<due, typed, busy>>

Type == typed' = TRUE /\ UNCHANGED <<events, due, busy>>

\* A callback postpones an action or cancels it.
Postpone(a) ==
  /\ busy /\ a \notin Waiting
  /\ due' = [b \in Waiting \cup {a} |-> IF b = a THEN Delay[a] ELSE due[b]]
  /\ UNCHANGED <<events, typed, busy>>

Cancel(a) ==
  /\ busy /\ a \in Waiting
  /\ due' = [b \in Waiting \ {a} |-> due[b]]
  /\ UNCHANGED <<events, typed, busy>>

Begin == ~busy /\ busy' = TRUE

Dispatch ==
  /\ Begin
  /\ events # <<>> /\ events' = Tail(events)
  /\ UNCHANGED <<due, typed>>

\* The action that is due first.
Call(a) ==
  /\ Begin
  /\ a \in Waiting /\ due[a] <= 0 /\ \A b \in Waiting : due[a] <= due[b]
  /\ due' = [b \in Waiting \ {a} |-> due[b]]
  /\ UNCHANGED <<events, typed>>

\* The console is read, perhaps not all of it.
Read ==
  /\ Begin
  /\ typed /\ typed' \in BOOLEAN
  /\ UNCHANGED <<events, due>>

End ==
  /\ busy /\ busy' = FALSE
  /\ UNCHANGED <<events, due, typed>>

Tick ==
  /\ due' = [a \in Waiting |-> due[a] - 1]
  /\ UNCHANGED <<events, typed, busy>>

Next ==
  \/ \E e \in Events : Post(e)
  \/ \E a \in Actions : Postpone(a) \/ Cancel(a) \/ Call(a)
  \/ Type \/ Dispatch \/ Read \/ End \/ Tick

Spec == Init /\ [][Next]_vars
===============================================================================
