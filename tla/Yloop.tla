---------------------------------- MODULE Yloop ----------------------------------
(***************************************************************************)
(* yloop, the event loop of the applications: one task polls the event     *)
(* device (device.c) and the console (vfs_uart.c), calls at most one       *)
(* delayed action a round, and then the readers with something to read.    *)
(* Every poll has a semaphore of its own on the stack (select.c), which    *)
(* the devices signal, from tasks and from the interrupt of the UART.      *)
(***************************************************************************)
EXTENDS Integers, Sequences, SequencesExt

CONSTANTS Callers,    \* the tasks that post events or schedule calls
          Events,     \* the events and calls they post
          Actions,    \* the delayed actions the callbacks post
          Delay,      \* how long each is delayed
          CacheSize,  \* the event buffers kept for reuse
          RxSize,     \* the size of the stream buffer of the console
          MaxLate,    \* bound on how late the loop runs
          MaxUrgent   \* bound on the urgent calls

ASSUME DelayAssumption == Delay \in [Actions -> Nat \ {0}]
ASSUME SizeAssumption == CacheSize \in Nat /\ RxSize \in Nat \ {0}
ASSUME LateAssumption == MaxLate \in Nat
ASSUME UrgentAssumption == MaxUrgent \in Nat

VARIABLES
  pc,           \* where the loop is in aos_loop_run
  back,         \* where it goes on after the callback it is in
  until,        \* after how many ticks its wait ends, if ever
  sem,          \* the semaphore of the poll
  hooked,       \* the devices whose poll_cb is set
  revents,      \* the devices marked POLLIN
  bufs,         \* the events in the device, in the order of reading
  cache_count,  \* the buffers in buf_cache
  job,          \* where the callers are in _event_write
  rx,           \* how much the stream buffer of the console holds
  timeouts,     \* the delayed actions, in the order of the list
  left,         \* timeout_ms - aos_now_ms() of each of them
  urgent        \* the urgent calls so far

loop == <<pc, back, until>>
poll == <<sem, hooked, revents>>
device == <<bufs, cache_count>>
timers == <<timeouts, left>>
vars == <<loop, poll, device, job, rx, timers, urgent>>

-------------------------------------------------------------------------------
EVENT == "event"        \* /dev/event, the first reader
CONSOLE == "console"    \* the UART, the second
Devices == {EVENT, CONSOLE}

Due(a) == left[a] <= 0

\* Mutant: the list is not searched.
PlacesEnd(a, time) == {Len(timeouts) + 1}

\* Where aos_post_delayed_action puts an action: before the first that is due
\* later.
Places(a, time) ==
  {k \in 1 .. Len(timeouts) + 1 :
     /\ \A i \in 1 .. k - 1 : time[timeouts[i]] <= time[a]
     /\ k <= Len(timeouts) => time[a] < time[timeouts[k]]}

Init ==
  /\ pc = "round" /\ back = "round" /\ until = {}
  /\ sem = "deleted" /\ hooked = {} /\ revents = {}
  /\ bufs = <<>> /\ cache_count = 0
  /\ job = [k \in Callers |-> "idle"]
  /\ rx = 0
  /\ timeouts = <<>>
  /\ left = [a \in Actions |-> 0]
  /\ urgent = 0

\* The mutex of the event device: the loop holds it within single steps.
Locked == \E k \in Callers : job[k] # "idle"

\* vfs_poll_notify, after POLLIN was set.
Notify(d) ==
  /\ revents' = revents \cup {d}
  /\ sem' = IF sem = "deleted" THEN sem ELSE "given"

-------------------------------------------------------------------------------
(***************************************************************************)
(* The loop                                                                *)
(***************************************************************************)

\* The time to the first delayed action; a new semaphore, revents cleared.
Round ==
  /\ pc = "round"
  /\ until' = IF timeouts = <<>> THEN {}
              ELSE IF Due(Head(timeouts)) THEN {0} ELSE {left[Head(timeouts)]}
  /\ sem' = "empty" /\ revents' = {}
  /\ pc' = "event"
  /\ UNCHANGED <<back, hooked, device, job, rx, timers, urgent>>

\* Mutant: what was there before is not noticed.
PollEventNew ==
  /\ pc = "event" /\ ~Locked
  /\ hooked' = hooked \cup {EVENT}
  /\ pc' = "uart"
  /\ UNCHANGED <<back, until, sem, revents, device, job, rx, timers, urgent>>

\* event_poll, setup
PollEvent ==
  /\ pc = "event" /\ ~Locked
  /\ hooked' = hooked \cup {EVENT}
  /\ IF bufs # <<>> THEN Notify(EVENT) ELSE UNCHANGED <<sem, revents>>
  /\ pc' = "uart"
  /\ UNCHANGED <<back, until, device, job, rx, timers, urgent>>

\* vfs_uart_poll, setup: the callback is set in a critical section,
PollUart ==
  /\ pc = "uart"
  /\ hooked' = hooked \cup {CONSOLE}
  /\ pc' = "check"
  /\ UNCHANGED <<back, until, sem, revents, device, job, rx, timers, urgent>>

\* and the stream buffer tested after it.
CheckUart ==
  /\ pc = "check"
  /\ IF rx > 0 THEN Notify(CONSOLE) ELSE UNCHANGED <<sem, revents>>
  /\ pc' = "wait"
  /\ UNCHANGED <<back, until, hooked, device, job, rx, timers, urgent>>

\* Mutant: the time limit is forgotten.
WakeGiven ==
  /\ pc = "wait"
  /\ sem = "given"
  /\ sem' = "empty"
  /\ until' = {}
  /\ pc' = "unevent"
  /\ UNCHANGED <<back, hooked, revents, device, job, rx, timers, urgent>>

\* aos_sem_wait returns with the semaphore or when its time is over.
Wake ==
  /\ pc = "wait"
  /\ sem = "given" \/ 0 \in until
  /\ sem' = "empty"
  /\ until' = {}
  /\ pc' = "unevent"
  /\ UNCHANGED <<back, hooked, revents, device, job, rx, timers, urgent>>

\* Mutant: the callback is removed without the mutex.
UnpollEventUnlocked ==
  /\ pc = "unevent"
  /\ hooked' = hooked \ {EVENT}
  /\ pc' = "unuart"
  /\ UNCHANGED <<back, until, sem, revents, device, job, rx, timers, urgent>>

\* event_poll and vfs_uart_poll remove the callbacks.
UnpollEvent ==
  /\ pc = "unevent" /\ ~Locked
  /\ hooked' = hooked \ {EVENT}
  /\ pc' = "unuart"
  /\ UNCHANGED <<back, until, sem, revents, device, job, rx, timers, urgent>>

UnpollUart ==
  /\ pc = "unuart"
  /\ hooked' = hooked \ {CONSOLE}
  /\ pc' = "free"
  /\ UNCHANGED <<back, until, sem, revents, device, job, rx, timers, urgent>>

Free ==
  /\ pc = "free"
  /\ sem' = "deleted"
  /\ pc' = "timeout"
  /\ UNCHANGED <<back, until, hooked, revents, device, job, rx, timers, urgent>>

\* The first delayed action is called if it is due, one a round.
Timeout ==
  /\ pc = "timeout"
  /\ IF timeouts # <<>> /\ Due(Head(timeouts))
       THEN /\ timeouts' = Tail(timeouts)
            /\ left' = [left EXCEPT ![Head(timeouts)] = 0]
            /\ pc' = "call" /\ back' = "readevent"
       ELSE pc' = "readevent" /\ UNCHANGED <<back, timers>>
  /\ UNCHANGED <<until, poll, device, job, rx, urgent>>

\* event_read_cb takes one event and dispatches it; the buffer is kept.
ReadEvent ==
  /\ pc = "readevent"
  /\ IF EVENT \in revents /\ bufs # <<>>
       THEN /\ ~Locked
            /\ bufs' = Tail(bufs)
            /\ cache_count' = IF cache_count < CacheSize THEN cache_count + 1 ELSE cache_count
            /\ pc' = "call" /\ back' = "readuart"
       ELSE pc' = "readuart" /\ UNCHANGED <<back, device>>
  /\ UNCHANGED <<until, poll, job, rx, timers, urgent>>

\* console_cb_read reads what there is, or a part, and runs the commands.
ReadUart ==
  /\ pc = "readuart"
  /\ IF CONSOLE \in revents /\ rx > 0
       THEN /\ rx' \in 0 .. rx - 1
            /\ pc' = "call" /\ back' = "round"
       ELSE pc' = "round" /\ UNCHANGED <<back, rx>>
  /\ UNCHANGED <<until, poll, device, job, timers, urgent>>

\* A callback returns.
Return ==
  /\ pc = "call"
  /\ pc' = back
  /\ UNCHANGED <<back, until, poll, device, job, rx, timers, urgent>>

LoopStep ==
  \/ Round \/ PollEvent \/ PollUart \/ CheckUart \/ Wake \/ UnpollEvent \/ UnpollUart
  \/ Free \/ Timeout \/ ReadEvent \/ ReadUart \/ Return

-------------------------------------------------------------------------------
(***************************************************************************)
(* What the callbacks do in the loop                                       *)
(***************************************************************************)

\* aos_post_delayed_action
PostDelayed(a) ==
  /\ pc = "call" /\ a \notin Range(timeouts)
  /\ left' = [left EXCEPT ![a] = Delay[a]]
  /\ \E k \in Places(a, left') : timeouts' = InsertAt(timeouts, k, a)
  /\ UNCHANGED <<loop, poll, device, job, rx, urgent>>

\* aos_cancel_delayed_action
CancelDelayed(a) ==
  /\ pc = "call"
  /\ \E k \in 1 .. Len(timeouts) : timeouts[k] = a /\ timeouts' = RemoveAt(timeouts, k)
  /\ left' = [left EXCEPT ![a] = 0]
  /\ UNCHANGED <<loop, poll, device, job, rx, urgent>>

\* What _event_write does to the device, with a buffer of the cache if it has
\* one.
Enqueue(e, first) ==
  /\ bufs' = IF first THEN <<e>> \o bufs ELSE Append(bufs, e)
  /\ cache_count' = IF cache_count > 0 THEN cache_count - 1 ELSE 0

\* aos_post_event in a callback: no poll is set up that could be notified.
PostEvent(e) ==
  /\ pc = "call" /\ ~Locked /\ e \notin Range(bufs)
  /\ Enqueue(e, FALSE)
  /\ IF EVENT \in hooked THEN Notify(EVENT) ELSE UNCHANGED <<sem, revents>>
  /\ UNCHANGED <<loop, hooked, job, rx, timers, urgent>>

-------------------------------------------------------------------------------
(***************************************************************************)
(* The callers, of any priority, and the interrupt                         *)
(***************************************************************************)

\* _event_write under the mutex, as far as the test of poll_cb.
Write(k, e, first) ==
  /\ job[k] = "idle" /\ ~Locked /\ e \notin Range(bufs)
  /\ first => urgent < MaxUrgent
  /\ urgent' = IF first THEN urgent + 1 ELSE urgent
  /\ Enqueue(e, first)
  /\ job' = [job EXCEPT ![k] = IF EVENT \in hooked THEN "notify" ELSE "unlock"]
  /\ UNCHANGED <<loop, poll, rx, timers>>

\* The call of poll_cb.
WriteNotify(k) ==
  /\ job[k] = "notify"
  /\ Notify(EVENT)
  /\ job' = [job EXCEPT ![k] = "unlock"]
  /\ UNCHANGED <<loop, hooked, device, rx, timers, urgent>>

WriteUnlock(k) ==
  /\ job[k] = "unlock"
  /\ job' = [job EXCEPT ![k] = "idle"]
  /\ UNCHANGED <<loop, poll, device, rx, timers, urgent>>

\* Mutant: what does not fit is not announced either.
UartIrqFull ==
  /\ \E n \in 0 .. RxSize : rx' = (IF rx + n < RxSize THEN rx + n ELSE RxSize)
  /\ IF CONSOLE \in hooked /\ rx' < RxSize THEN Notify(CONSOLE) ELSE UNCHANGED <<sem, revents>>
  /\ UNCHANGED <<loop, hooked, device, job, timers, urgent>>

\* __uart_rx_irq: what does not fit into the stream buffer is lost, and the
\* poll is notified in any case.
UartIrq ==
  /\ \E n \in 0 .. RxSize : rx' = (IF rx + n < RxSize THEN rx + n ELSE RxSize)
  /\ IF CONSOLE \in hooked THEN Notify(CONSOLE) ELSE UNCHANGED <<sem, revents>>
  /\ UNCHANGED <<loop, hooked, device, job, timers, urgent>>

\* Time passes; nothing keeps the loop from a delayed action for more than
\* MaxLate.
Tick ==
  /\ \A a \in Range(timeouts) : left[a] > - MaxLate
  /\ left' = [a \in Actions |-> IF a \in Range(timeouts) THEN left[a] - 1 ELSE left[a]]
  /\ until' = {u - 1 : u \in until \ {0}} \cup (until \cap {0})
  /\ timeouts # <<>>
  /\ UNCHANGED <<pc, back, poll, device, job, rx, timeouts, urgent>>

-------------------------------------------------------------------------------
Next ==
  \/ LoopStep
  \/ \E a \in Actions : PostDelayed(a) \/ CancelDelayed(a)
  \/ \E e \in Events : PostEvent(e)
  \/ \E k \in Callers, e \in Events, first \in BOOLEAN : Write(k, e, first)
  \/ \E k \in Callers : WriteNotify(k) \/ WriteUnlock(k)
  \/ UartIrq \/ Tick

Spec == Init /\ [][Next]_vars

\* The scheduler runs the loop, callbacks return, and a caller that has the
\* mutex goes on; time passes.
LoopFair == WF_vars(LoopStep)
CallerFair(k) == WF_vars(WriteNotify(k) \/ WriteUnlock(k))
TimeFair == WF_vars(Tick)

Fairness == LoopFair /\ (\A k \in Callers : CallerFair(k)) /\ TimeFair

FairSpec == Spec /\ Fairness

-------------------------------------------------------------------------------
(***************************************************************************)
(* Properties                                                              *)
(***************************************************************************)

\* The type invariant of the loop, its devices and their callers.
TypeOK ==
  /\ pc \in {"round", "event", "uart", "check", "wait", "unevent", "unuart", "free",
             "timeout", "readevent", "readuart", "call"}
  /\ back \in {"round", "readevent", "readuart"}
  /\ until \subseteq Nat
  /\ sem \in {"deleted", "empty", "given"}
  /\ hooked \subseteq Devices /\ revents \subseteq Devices
  /\ bufs \in Seq(Events)
  /\ cache_count \in 0 .. CacheSize
  /\ job \in [Callers -> {"idle", "notify", "unlock"}]
  /\ rx \in 0 .. RxSize
  /\ timeouts \in Seq(Actions)
  /\ left \in [Actions -> Int]
  /\ urgent \in Nat

(***************************************************************************)
(* The inductive invariant (YloopProofs)                                   *)
(***************************************************************************)

Distinct(s) == \A i, j \in 1 .. Len(s) : s[i] = s[j] => i = j

Ascends(s, time) == \A i, j \in 1 .. Len(s) : i < j => time[s[i]] <= time[s[j]]

\* An action is listed once, and the list ascends: its first entry is all
\* that aos_loop_run looks at (yloop.c:238, 262).
TimerInv == Distinct(timeouts) /\ Ascends(timeouts, left)

\* One caller at a time has the mutex.
LockInv == \A k, l \in Callers : job[k] # "idle" /\ job[l] # "idle" => k = l

\* Where the callbacks are set, and the semaphore they signal exists.
HookInv ==
  /\ EVENT \in hooked <=> pc \in {"uart", "check", "wait", "unevent"}
  /\ CONSOLE \in hooked <=> pc \in {"check", "wait", "unevent", "unuart"}
  /\ sem = "deleted" <=> pc \in {"timeout", "readevent", "readuart", "call", "round"}
  /\ \A k \in Callers : job[k] = "notify" => EVENT \in hooked

\* What was there before the callback was set has been noticed.
PollInv ==
  /\ pc \in {"event", "uart", "check", "wait"} /\ revents # {} => sem = "given"
  /\ EVENT \in hooked /\ bufs # <<>> => EVENT \in revents \/ \E k \in Callers : job[k] = "notify"
  /\ CONSOLE \in hooked /\ pc # "check" /\ rx > 0 => CONSOLE \in revents

IInv == TypeOK /\ TimerInv /\ LockInv /\ HookInv /\ PollInv

\* A loop that waits has nothing to read, or is about to be woken for it.
NoLostWakeup ==
  pc = "wait" /\ sem = "empty" =>
    /\ rx = 0
    /\ bufs = <<>> \/ \E k \in Callers : job[k] = "notify"

\* Nobody signals the semaphore of a poll that is over: it is on the stack of
\* aos_poll, and deleted.
SignalsLivePoll ==
  /\ hooked # {} => sem # "deleted"
  /\ (\E k \in Callers : job[k] = "notify") => sem # "deleted"

LoopReady ==
  /\ pc = "wait" => sem = "given" \/ 0 \in until
  /\ Locked => pc \notin {"event", "unevent", "readevent"}

Timely == \A a \in Range(timeouts) : left[a] > - MaxLate

CanUnlock(k) == ENABLED <<WriteNotify(k) \/ WriteUnlock(k)>>_vars

\* What is due can be done: the loop, unless it waits in vain or for the mutex,
\* a caller that has the mutex, and time.
LoopCanStep ==
  /\ LoopReady => ENABLED <<LoopStep>>_vars
  /\ \A k \in Callers : job[k] # "idle" => CanUnlock(k)
  /\ timeouts # <<>> /\ Timely => ENABLED <<Tick>>_vars

\* Every event posted is dispatched, every delayed action called or
\* cancelled, and the console is read, whatever the others do: none of the
\* three starves another.
Dispatched ==
  /\ \A e \in Events : e \in Range(bufs) ~> e \notin Range(bufs)
  /\ \A a \in Actions : a \in Range(timeouts) ~> a \notin Range(timeouts)
  /\ rx > 0 ~> pc = "call" /\ back = "round"

waiting == [a \in Range(timeouts) |-> left[a]]

\* The round with its polls, semaphores and list is a DispatchService to the
\* applications: of the delayed actions the first of the list is the one to be
\* called next (yloop.c:190-198, 262), and an event is dispatched once and in
\* turn whenever the device has it (device.c:129-157).
Service == INSTANCE DispatchService
  WITH events <- bufs, due <- waiting, typed <- rx > 0, busy <- pc = "call"

ImplementsDispatchService == Service!Spec
===============================================================================
