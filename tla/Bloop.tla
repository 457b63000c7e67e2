---------------------------------- MODULE Bloop ----------------------------------
(***************************************************************************)
(* The event loop of the firmware, bloop (bloop_base.c), as looprt.c runs  *)
(* it: one task above all its posters handles the highest event that is    *)
(* set and the timers that are due.  Tasks and interrupts post events;     *)
(* blinking LEDs bring timers of their own (loopset_led.c), the infrared   *)
(* receiver an interrupt that stays masked until it is read (bl_ir.c).     *)
(***************************************************************************)
EXTENDS Integers, Sequences, SequencesExt

CONSTANTS Tasks,      \* the tasks that call looprt_evt_notify_async and the like
          LedTimers,  \* the timers of the LED triggers
          Scheduled,  \* the timers of looprt_evt_schedule
          Delay,      \* the delay of each timer
          MaxLate,    \* bound on how late the loop and its posters run
          MaxStranded,\* bound on how late a timer is that nobody has told it of
          MaxPosts    \* bound on the interrupts and on the dumps asked for

Timers == LedTimers \cup Scheduled

ASSUME TimersAssumption == LedTimers \cap Scheduled = {}
ASSUME DelayAssumption == Delay \in [Timers -> Nat \ {0}]
ASSUME LateAssumption == MaxLate \in Nat /\ MaxStranded \in Nat /\ MaxLate <= MaxStranded
ASSUME PostsAssumption == MaxPosts \in Nat

VARIABLES
  pc,                 \* where the loop is in bloop_run
  cur,                \* the event it handles
  until,              \* after how many ticks its sleep ends, if ever
  notified,           \* the notification of its task
  async, sync,        \* bitmap_evt_async, bitmap_evt_sync
  amap, smap,         \* evt_type_map_async, evt_type_map_sync
  list, dued,         \* timer_dlist, timer_dued
  left,               \* (int)time_target - (int)now of each timer that runs
  waiting,            \* the waiting_queue of the LED triggers
  masked,             \* the interrupt of the infrared receiver
  job,                \* where the tasks are in what they call
  search,             \* the timers about to be linked, the list as searched
  used,               \* the timers configured so far
  posts,              \* interrupts and dumps so far
  torn,               \* a timer was linked next to one that is there no more
  passed              \* events of lower priority handled while one is set

loop == <<pc, cur, until>>
events == <<async, sync, amap, smap>>
timers == <<list, dued, left>>
callers == <<job, search, used, posts>>
outside == <<waiting, masked, callers, torn, passed>>
vars == <<loop, notified, events, timers, waiting, masked, callers, torn, passed>>

-------------------------------------------------------------------------------
\* The events and their priorities: loopset_led.c:138, IR_PRIORITY,
\* LOOP_TASK_PRIORITY_HIGHEST.
LED == 1
IR == 3
SYS == 31
Events == {LED, IR, SYS}
None == 0

\* EVT_MAP_LED_TRIGGER, EVT_MAP_LED_WAITING, EVT_MAP_IR_TRIGGER,
\* LOOP_TASK_SYS_EVT_DUMP
Types == {"trigger", "waiting", "ir", "dump"}

\* What a timer that is due posts.
TimerEvent(t) == IF t \in LedTimers THEN LED ELSE SYS
TimerType(t) == IF t \in LedTimers THEN "trigger" ELSE "dump"

\* Mutant: a timer that is due no later is passed over.
PlacesBehind(t, time) ==
  {k \in 1 .. Len(list) + 1 :
     /\ \A i \in 1 .. k - 1 : time[t] <= time[list[i]]
     /\ k <= Len(list) => time[list[k]] < time[t]}

\* Where bloop_timer_register puts a timer: before the first that is not due
\* earlier.
Places(t, time) ==
  {k \in 1 .. Len(list) + 1 :
     /\ \A i \in 1 .. k - 1 : time[list[i]] < time[t]
     /\ k <= Len(list) => time[t] <= time[list[k]]}

Register(t, time) == \E k \in Places(t, time) : list' = InsertAt(list, k, t)

Due(t) == left[t] <= 0

\* How many timers at the front of the list are due.
DueCount ==
  {n \in 0 .. Len(list) : /\ \A i \in 1 .. n : Due(list[i])
                         /\ n < Len(list) => ~Due(list[n + 1])}

\* _evt_highest
Highest(S) == CHOOSE e \in S : \A f \in S : f <= e

Init ==
  /\ pc = "copy" /\ cur = None /\ until = {}
  /\ notified = FALSE
  /\ async = {} /\ sync = {}
  /\ amap = [e \in Events |-> {}] /\ smap = [e \in Events |-> {}]
  /\ list = <<>> /\ dued = <<>>
  /\ left = [t \in Timers |-> 0]
  /\ waiting = <<>>
  /\ masked = FALSE
  /\ job = [k \in Tasks |-> "idle"]
  /\ search = {} /\ used = {} /\ posts = 0
  /\ torn = FALSE
  /\ passed = [e \in Events |-> 0]

-------------------------------------------------------------------------------
(***************************************************************************)
(* The loop                                                                *)
(***************************************************************************)

\* The beginning of _bloop_wait: fetch what was posted.
Copy ==
  /\ pc = "copy"
  /\ sync' = sync \cup async
  /\ async' = {}
  /\ pc' = IF sync' = {} THEN "idle" ELSE "timers"
  /\ UNCHANGED <<cur, until, notified, amap, smap, timers, outside>>

\* Nothing is set: sleep until the first timer is due, which it may be already.
Sleep ==
  /\ pc = "idle"
  /\ IF list # <<>> /\ Due(Head(list))
       THEN pc' = "timers" /\ UNCHANGED until
       ELSE /\ pc' = "wait"
            /\ until' = IF list = <<>> THEN {} ELSE {left[Head(list)]}
  /\ UNCHANGED <<cur, notified, events, timers, outside>>

\* Mutant: vTaskDelay for ulTaskNotifyTake.
WakeByTime ==
  /\ pc = "wait" /\ 0 \in until
  /\ until' = {}
  /\ pc' = "copy"
  /\ UNCHANGED <<cur, notified, events, timers, outside>>

\* ulTaskNotifyTake returns with the notification, or when its time is over.
Wake ==
  /\ pc = "wait"
  /\ \/ notified
     \/ 0 \in until
  /\ notified' = FALSE
  /\ until' = {}
  /\ pc' = "copy"
  /\ UNCHANGED <<cur, events, timers, outside>>

\* handle_timer: the timers that are due at one moment post their events.
HandleTimers ==
  /\ pc = "timers"
  /\ \E n \in DueCount :
       LET due == {list[i] : i \in 1 .. n} IN
       /\ sync' = sync \cup {TimerEvent(t) : t \in due}
       /\ amap' = [e \in Events |->
                     amap[e] \cup {TimerType(t) : t \in {t \in due : TimerEvent(t) = e}}]
       /\ dued' = Reverse(SubSeq(list, 1, n)) \o dued
       /\ list' = SubSeq(list, n + 1, Len(list))
       /\ left' = [t \in Timers |-> IF t \in due THEN 0 ELSE left[t]]
  /\ pc' = "clean"
  /\ UNCHANGED <<cur, until, notified, async, smap, outside>>

\* Mutant: a timer that is not freed is not registered again.
CleanOnce ==
  /\ pc = "clean" /\ dued # <<>>
  /\ dued' = Tail(dued)
  /\ UNCHANGED <<loop, notified, events, list, left, outside>>

\* _timer_dued_clean: a timer is registered again, or freed.
Clean ==
  /\ pc = "clean" /\ dued # <<>>
  /\ dued' = Tail(dued)
  /\ IF Head(dued) \in LedTimers
       THEN /\ left' = [left EXCEPT ![Head(dued)] = Delay[Head(dued)]]
            /\ Register(Head(dued), left')
       ELSE UNCHANGED <<list, left>>
  /\ UNCHANGED <<loop, notified, events, outside>>

\* The beginning of _evt_handle.  (Of an empty set the
\* highest is undefined: __builtin_clz(0).)
Take ==
  /\ pc = "clean" /\ dued = <<>>
  /\ cur' \in IF sync = {} THEN Events ELSE {Highest(sync)}
  /\ smap' = [smap EXCEPT ![cur'] = @ \cup amap[cur']]
  /\ amap' = [amap EXCEPT ![cur'] = {}]
  /\ passed' = [e \in Events |->
                  IF e > cur' /\ e \in sync \cup async THEN passed[e] + 1
                  ELSE IF e = cur' THEN 0 ELSE passed[e]]
  /\ pc' = "handle"
  /\ UNCHANGED <<until, notified, async, sync, timers, waiting, masked, callers, torn>>

\* _waiting_queue_handle registers the timers that wait, the last one first.
LedRegister ==
  /\ pc = "handle" /\ cur = LED /\ "waiting" \in smap[LED] /\ waiting # <<>>
  /\ Register(Head(waiting), left)
  /\ waiting' = Tail(waiting)
  /\ UNCHANGED <<loop, notified, events, dued, left, masked, callers, torn, passed>>

\* The rest of _led_bloop_evt.
HandleLed ==
  /\ pc = "handle" /\ cur = LED
  /\ "waiting" \in smap[LED] => waiting = <<>>
  /\ smap' = [smap EXCEPT ![LED] = {}]
  /\ pc' = "unset"
  /\ UNCHANGED <<cur, until, notified, async, sync, amap, timers, outside>>

\* _ir_bloop_evt reads the receiver and leaves its map as it is.
HandleIr ==
  /\ pc = "handle" /\ cur = IR
  /\ masked' = FALSE
  /\ pc' = "unset"
  /\ UNCHANGED <<cur, until, notified, events, timers, waiting, callers, torn, passed>>

\* loop_evt_entity_sys_evt
HandleSys ==
  /\ pc = "handle" /\ cur = SYS
  /\ smap' = [smap EXCEPT ![SYS] = {}]
  /\ pc' = "unset"
  /\ UNCHANGED <<cur, until, notified, async, sync, amap, timers, outside>>

\* Mutant: the types are cleared with the event.
UnsetTypes ==
  /\ pc = "unset"
  /\ sync' = sync \ {cur}
  /\ amap' = [amap EXCEPT ![cur] = {}]
  /\ cur' = None /\ pc' = "copy"
  /\ UNCHANGED <<until, notified, async, smap, timers, outside>>

\* The end of _evt_handle.
Unset ==
  /\ pc = "unset"
  /\ sync' = sync \ {cur}
  /\ cur' = None /\ pc' = "copy"
  /\ UNCHANGED <<until, notified, async, amap, smap, timers, outside>>

LoopStep ==
  \/ Copy \/ Sleep \/ Wake \/ HandleTimers \/ Clean
  \/ Take \/ LedRegister \/ HandleLed \/ HandleIr \/ HandleSys \/ Unset

-------------------------------------------------------------------------------
(***************************************************************************)
(* The posters, all of lower priority than the loop: they run while it     *)
(* sleeps, or waits for a mutex in the handler of IR (aos_post_event).     *)
(***************************************************************************)

PostersRun == \/ pc = "wait" /\ ~notified
              \/ pc = "handle" /\ cur = IR

\* The critical section of bloop_evt_set_async.
SetAsync(e, type) ==
  /\ async' = async \cup {e}
  /\ amap' = [amap EXCEPT ![e] = @ \cup {type}]
  /\ UNCHANGED <<sync, smap>>

\* loopset_led_trigger configures its timer and puts it into the queue.
LedTrigger(k, t) ==
  /\ PostersRun /\ job[k] = "idle" /\ t \notin used
  /\ left' = [left EXCEPT ![t] = Delay[t]]
  /\ waiting' = <<t>> \o waiting
  /\ used' = used \cup {t}
  /\ job' = [job EXCEPT ![k] = "post"]
  /\ UNCHANGED <<loop, notified, events, list, dued, masked, search, posts, torn, passed>>

LedPost(k) ==
  /\ PostersRun /\ job[k] = "post"
  /\ SetAsync(LED, "waiting")
  /\ job' = [job EXCEPT ![k] = "give"]
  /\ UNCHANGED <<loop, notified, timers, waiting, masked, search, used, posts, torn, passed>>

\* The command looprt_evt_status posts a dump.
Dump(k) ==
  /\ PostersRun /\ job[k] = "idle" /\ posts < MaxPosts
  /\ SetAsync(SYS, "dump")
  /\ posts' = posts + 1
  /\ job' = [job EXCEPT ![k] = "give"]
  /\ UNCHANGED <<loop, notified, timers, waiting, masked, search, used, torn, passed>>

\* The end of bloop_evt_set_async: xTaskNotifyGive.
Give(k) ==
  /\ PostersRun /\ job[k] = "give"
  /\ notified' = TRUE
  /\ job' = [job EXCEPT ![k] = "idle"]
  /\ UNCHANGED <<loop, events, timers, waiting, masked, search, used, posts, torn, passed>>

\* looprt_evt_schedule configures a timer and searches the list for its place.
Schedule(k, t) ==
  /\ PostersRun /\ job[k] = "idle" /\ t \notin used
  /\ left' = [left EXCEPT ![t] = Delay[t]]
  /\ search' = search \cup {[task |-> k, timer |-> t, seen |-> list]}
  /\ used' = used \cup {t}
  /\ job' = [job EXCEPT ![k] = "link"]
  /\ UNCHANGED <<loop, notified, events, list, dued, waiting, masked, posts, torn, passed>>

\* It links the timer there, without a lock.  If the list has changed since
\* it was searched, its links may be torn, and the model ends.
Link(r) ==
  /\ PostersRun
  /\ search' = search \ {r}
  /\ job' = [job EXCEPT ![r.task] = "idle"]
  /\ IF r.seen = list
       THEN Register(r.timer, left) /\ UNCHANGED torn
       ELSE torn' = TRUE /\ UNCHANGED list
  /\ UNCHANGED <<loop, notified, events, dued, left, waiting, masked, used, posts, passed>>

\* Mutant: the loop is not notified.
IrInterruptSilent ==
  /\ ~masked /\ posts < MaxPosts
  /\ masked' = TRUE
  /\ SetAsync(IR, "ir")
  /\ posts' = posts + 1
  /\ UNCHANGED <<loop, notified, timers, waiting, job, search, used, torn, passed>>

\* ir_interrupt_entry and bloop_evt_set_async_fromISR
IrInterrupt ==
  /\ ~masked /\ posts < MaxPosts
  /\ masked' = TRUE
  /\ SetAsync(IR, "ir")
  /\ notified' = TRUE
  /\ posts' = posts + 1
  /\ UNCHANGED <<loop, timers, waiting, job, search, used, torn, passed>>

\* The timers whose time passes.
Running == Range(list) \cup Range(waiting) \cup {r.timer : r \in search}

\* The tick interrupt.  Nothing delays the loop or a poster for longer than
\* MaxLate; a scheduled timer the loop does not know of waits a little longer.
\* (Ticks while nobody is about to read the clock are put off to the next
\* moment somebody is.)
Tick ==
  /\ pc \in {"idle", "wait", "timers", "clean"} \/ PostersRun
  /\ \A t \in Running :
       left[t] > - (IF t \in Range(list) \cap Scheduled THEN MaxStranded ELSE MaxLate)
  /\ left' = [t \in Timers |-> IF t \in Running THEN left[t] - 1 ELSE left[t]]
  /\ until' = {u - 1 : u \in until \ {0}} \cup (until \cap {0})
  /\ UNCHANGED <<pc, cur, notified, events, list, dued, waiting, masked, callers, torn, passed>>

-------------------------------------------------------------------------------
TaskStep(k) ==
  \/ \E t \in LedTimers : LedTrigger(k, t)
  \/ \E t \in Scheduled : Schedule(k, t)
  \/ LedPost(k) \/ Dump(k) \/ Give(k)

Next ==
  /\ ~torn
  /\ \/ LoopStep
     \/ \E k \in Tasks : TaskStep(k)
     \/ \E r \in search : Link(r)
     \/ IrInterrupt \/ Tick

Spec == Init /\ [][Next]_vars

\* The rest of a call that a task has begun.
TaskGoesOn(k) == LedPost(k) \/ Give(k) \/ \E r \in search : r.task = k /\ Link(r)

\* The scheduler runs the loop, and a task that has begun to post while the
\* loop sleeps; time goes on.
LoopFair == WF_vars(~torn /\ LoopStep)
TaskFair(k) == WF_vars(~torn /\ TaskGoesOn(k))
TimeFair == WF_vars(~torn /\ Tick)

Fairness == LoopFair /\ (\A k \in Tasks : TaskFair(k)) /\ TimeFair

FairSpec == Spec /\ Fairness

-------------------------------------------------------------------------------
(***************************************************************************)
(* Properties                                                              *)
(***************************************************************************)

\* The type invariant of the loop and its posters.
TypeOK ==
  /\ pc \in {"copy", "idle", "wait", "timers", "clean", "handle", "unset"}
  /\ cur \in Events \cup {None}
  /\ until \subseteq Nat
  /\ notified \in BOOLEAN
  /\ async \subseteq Events /\ sync \subseteq Events
  /\ amap \in [Events -> SUBSET Types] /\ smap \in [Events -> SUBSET Types]
  /\ list \in Seq(Timers) /\ dued \in Seq(Timers)
  /\ left \in [Timers -> Int]
  /\ waiting \in Seq(LedTimers)
  /\ masked \in BOOLEAN
  /\ job \in [Tasks -> {"idle", "post", "give", "link"}]
  /\ search \subseteq [task : Tasks, timer : Scheduled, seen : Seq(Timers)]
  /\ used \subseteq Timers
  /\ posts \in Nat
  /\ torn \in BOOLEAN
  /\ passed \in [Events -> Nat]

(***************************************************************************)
(* The inductive invariant (BloopProofs)                                   *)
(***************************************************************************)

InList == {list[i] : i \in 1 .. Len(list)}
InDued == {dued[i] : i \in 1 .. Len(dued)}
InQueue == {waiting[i] : i \in 1 .. Len(waiting)}
InSearch == {r.timer : r \in search}

Distinct(s) == \A i, j \in 1 .. Len(s) : s[i] = s[j] => i = j
Ascends(s, time) == \A i, j \in 1 .. Len(s) : i < j => time[s[i]] <= time[s[j]]

\* A timer is in one place and there once, and timer_dlist ascends ("ascend
\* list on time_target", bloop_base.c:143, 234), whether the loop registers it
\* or, without a lock, a task whose place in the list is still what it found:
\* where the list has changed meanwhile the model ends (torn).
TimerInv ==
  /\ InList \cup InDued \cup InQueue \cup InSearch \subseteq used
  /\ Distinct(list) /\ Distinct(dued) /\ Distinct(waiting)
  /\ \A s, u \in search : s.timer = u.timer \/ s.task = u.task => s = u
  /\ \A s \in search : job[s.task] = "link"
  /\ InDued \cap InList = {} /\ InQueue \cap (InList \cup InDued) = {}
  /\ InSearch \cap (InList \cup InDued \cup InQueue) = {}
  /\ Ascends(list, left)
  /\ dued # <<>> => pc = "clean"

\* The loop leaves _bloop_wait with an event to handle: __builtin_clz is never
\* asked for the highest bit of zero (bloop_base.c:246).
WorkInv ==
  /\ pc = "clean" => sync # {}
  /\ pc = "timers" => sync # {} \/ (list # <<>> /\ Due(Head(list)))
  /\ pc \in {"idle", "wait"} => sync = {}
  /\ IF pc \in {"handle", "unset"} THEN cur \in sync ELSE cur = None

\* The receiver is read once for every interrupt: a handler that finds none
\* would report a repeated key (loopset_ir.c:56).
IrInv ==
  /\ IR \in async => masked
  /\ IR \in sync => IF pc = "unset" /\ cur = IR THEN TRUE ELSE masked /\ IR \notin async
  /\ \A t \in Types : t \in amap[IR] => t = "ir"

\* A type that is posted has its event set, and a loop that goes to sleep or
\* sleeps has been or is about to be notified of it.
WakeInv ==
  /\ \A e \in Events : amap[e] # {} => e \in async \cup sync
  /\ pc = "handle" => amap[cur] = {}
  /\ pc = "unset" /\ amap[cur] # {} => cur \in async
  /\ pc \in {"idle", "wait"} /\ async # {} => notified \/ \E k \in Tasks : job[k] = "give"

\* An event that was passed over once is the next of its priority.
TurnInv ==
  \A e \in Events :
    /\ passed[e] \in {0, 1}
    /\ passed[e] = 1 => e \in sync \cup async
    /\ passed[e] = 1 /\ pc \in {"idle", "wait", "timers", "clean"} => e \in sync
    /\ pc \in {"handle", "unset"} /\ e = cur => passed[e] = 0

IInv == TypeOK /\ TimerInv /\ WorkInv /\ IrInv /\ WakeInv /\ TurnInv

\* A loop that sleeps has nothing to handle, or will be woken for it.
NoLostWakeup ==
  pc = "wait" =>
    \A e \in Events : e \in async \cup sync \/ amap[e] # {} =>
      notified \/ \E k \in Tasks : job[k] = "give"

\* An event waits for one handler of lower priority at most, the one that
\* runs when it is posted not counted.
OvertakenOnce == \A e \in Events : passed[e] <= 1

CanGoOn(k) == ENABLED <<~torn /\ TaskGoesOn(k)>>_vars

\* What is due can be done: the loop, unless it sleeps and nobody has woken it,
\* and a task that has posted and is about to say so.
LoopCanStep ==
  ~torn =>
    /\ pc # "wait" \/ notified => ENABLED <<~torn /\ LoopStep>>_vars
    /\ \A k \in Tasks : PostersRun /\ job[k] = "give" => CanGoOn(k)

Pending(e) == amap[e] \cup (IF pc = "handle" /\ cur = e THEN smap[e] ELSE {})

pendings == [e \in Events |-> Pending(e)]

handling == IF pc = "handle" THEN cur ELSE None

\* Whatever is posted waits for its handler, which is given all of it
\* (EventService).
Service == INSTANCE EventService WITH pending <- pendings, busy <- handling

ImplementsEventService == Service!Spec

\* Every posted type gets to a handler.
Handled == \A e \in Events : Pending(e) # {} ~> (Pending(e) = {} \/ torn)

\* A LED that was asked to blink does so for ever.
Blinks == \A t \in LedTimers : t \in used ~> (t \in Range(dued) \/ torn)
===============================================================================
