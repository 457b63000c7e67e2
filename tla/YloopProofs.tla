------------------------------- MODULE YloopProofs -------------------------------
(***************************************************************************)
(* Theorems about Yloop, for any callers, events, delayed actions, delays  *)
(* and buffer sizes: the inductive invariant and what follows from it.     *)
(***************************************************************************)
EXTENDS Yloop, ListLemmas

USE DelayAssumption, SizeAssumption, LateAssumption, UrgentAssumption

-------------------------------------------------------------------------------
(***************************************************************************)
(* The steps by what they may change                                       *)
(***************************************************************************)

\* Every step is one of these.
LEMMA Steps ==
  ASSUME [Next]_vars
  PROVE  \/ Round \/ PollEvent \/ PollUart \/ CheckUart \/ Wake \/ UnpollEvent \/ UnpollUart
         \/ Free \/ Timeout \/ ReadEvent \/ ReadUart \/ Return
         \/ \E a \in Actions : PostDelayed(a) \/ CancelDelayed(a)
         \/ \E e \in Events : PostEvent(e)
         \/ \E k \in Callers, e \in Events, first \in BOOLEAN : Write(k, e, first)
         \/ \E k \in Callers : WriteNotify(k) \/ WriteUnlock(k)
         \/ UartIrq \/ Tick \/ UNCHANGED vars
BY DEF Next, LoopStep

\* One caller at a time has the mutex.
LEMMA LockStep ==
  ASSUME TypeOK, LockInv, [Next]_vars
  PROVE  LockInv'
<1> USE DEF loop, poll, device, timers
<1>1. CASE UNCHANGED job
  BY <1>1 DEF LockInv
<1>2. ASSUME NEW k \in Callers, NEW e \in Events, NEW first \in BOOLEAN, Write(k, e, first)
      PROVE  LockInv'
  BY <1>2 DEF Write, Locked, LockInv, TypeOK
<1>3. ASSUME NEW k \in Callers, WriteNotify(k) \/ WriteUnlock(k)
      PROVE  LockInv'
  BY <1>3 DEF WriteNotify, WriteUnlock, LockInv, TypeOK
<1>4. CASE \/ Round \/ PollEvent \/ PollUart \/ CheckUart \/ Wake \/ UnpollEvent \/ UnpollUart
           \/ Free \/ Timeout \/ ReadEvent \/ ReadUart \/ Return
           \/ \E a \in Actions : PostDelayed(a) \/ CancelDelayed(a)
           \/ \E e \in Events : PostEvent(e)
           \/ UartIrq \/ Tick \/ UNCHANGED vars
  BY <1>1, <1>4 DEF Round, PollEvent, PollUart, CheckUart, Wake, UnpollEvent, UnpollUart, Free,
       Timeout, ReadEvent, ReadUart, Return, PostDelayed, CancelDelayed, PostEvent, UartIrq, Tick, vars
<1> QED BY <1>2, <1>3, <1>4, Steps

\* The callbacks are set while their poll lives.
LEMMA HookStep ==
  ASSUME TypeOK, LockInv, HookInv, [Next]_vars
  PROVE  HookInv'
<1> USE DEF loop, poll, device, timers, Devices, EVENT, CONSOLE, HookInv, Notify
<1>0. /\ pc \in {"round", "event", "uart", "check", "wait", "unevent", "unuart", "free",
                 "timeout", "readevent", "readuart", "call"}
      /\ back \in {"round", "readevent", "readuart"}
      /\ sem \in {"deleted", "empty", "given"}
      /\ hooked \subseteq Devices
      /\ job \in [Callers -> {"idle", "notify", "unlock"}]
  BY DEF TypeOK
<1>1. CASE Round \/ PollUart \/ CheckUart \/ Wake
  BY <1>0, <1>1 DEF Round, PollUart, CheckUart, Wake
<1>2. CASE PollEvent
  BY <1>0, <1>2 DEF PollEvent
<1>3. CASE UnpollEvent
  BY <1>0, <1>3 DEF UnpollEvent, Locked
<1>4. CASE UnpollUart \/ Free
  BY <1>0, <1>4 DEF UnpollUart, Free
<1>5. CASE Timeout \/ ReadEvent \/ ReadUart
  BY <1>0, <1>5 DEF Timeout, ReadEvent, ReadUart
<1>6. CASE Return
  BY <1>0, <1>6 DEF Return
<1>7. ASSUME NEW a \in Actions, PostDelayed(a) \/ CancelDelayed(a)
      PROVE  HookInv'
  BY <1>0, <1>7 DEF PostDelayed, CancelDelayed
<1>8. ASSUME NEW e \in Events, PostEvent(e)
      PROVE  HookInv'
  BY <1>0, <1>8 DEF PostEvent
<1>9. ASSUME NEW k \in Callers, NEW e \in Events, NEW first \in BOOLEAN, Write(k, e, first)
      PROVE  HookInv'
  BY <1>0, <1>9 DEF Write
<1>10. ASSUME NEW k \in Callers, WriteNotify(k) \/ WriteUnlock(k)
       PROVE  HookInv'
  BY <1>0, <1>10 DEF WriteNotify, WriteUnlock
<1>11. CASE UartIrq
  BY <1>0, <1>11 DEF UartIrq
<1>12. CASE Tick \/ UNCHANGED vars
  BY <1>12 DEF Tick, vars
<1> QED BY <1>1, <1>2, <1>3, <1>4, <1>5, <1>6, <1>7, <1>8, <1>9, <1>10, <1>11, <1>12, Steps

\* What there is to read has been noticed.
LEMMA PollStep ==
  ASSUME TypeOK, LockInv, HookInv, PollInv, [Next]_vars
  PROVE  PollInv'
<1> USE DEF loop, poll, device, timers, Devices, EVENT, CONSOLE, PollInv, Notify
<1>0. /\ pc \in {"round", "event", "uart", "check", "wait", "unevent", "unuart", "free",
                 "timeout", "readevent", "readuart", "call"}
      /\ back \in {"round", "readevent", "readuart"}
      /\ sem \in {"deleted", "empty", "given"}
      /\ hooked \subseteq Devices /\ revents \subseteq Devices
      /\ job \in [Callers -> {"idle", "notify", "unlock"}]
  BY DEF TypeOK
<1>1. CASE Round
  BY <1>0, <1>1 DEF Round, HookInv
<1>2. CASE PollEvent
  BY <1>0, <1>2 DEF PollEvent, HookInv
<1>3. CASE PollUart \/ CheckUart
  BY <1>0, <1>3 DEF PollUart, CheckUart, HookInv
<1>4. CASE Wake \/ UnpollEvent \/ UnpollUart \/ Free
  BY <1>0, <1>4 DEF Wake, UnpollEvent, UnpollUart, Free, HookInv
<1>5. CASE Timeout \/ ReadEvent \/ ReadUart
  BY <1>0, <1>5 DEF Timeout, ReadEvent, ReadUart, HookInv
<1>6. CASE Return
  BY <1>0, <1>6 DEF Return, HookInv
<1>7. ASSUME NEW a \in Actions, PostDelayed(a) \/ CancelDelayed(a)
      PROVE  PollInv'
  BY <1>0, <1>7 DEF PostDelayed, CancelDelayed
<1>8. ASSUME NEW e \in Events, PostEvent(e)
      PROVE  PollInv'
  BY <1>0, <1>8 DEF PostEvent, HookInv
<1>9. ASSUME NEW k \in Callers, NEW e \in Events, NEW first \in BOOLEAN, Write(k, e, first)
      PROVE  PollInv'
  BY <1>0, <1>9 DEF Write, Locked
<1>10. ASSUME NEW k \in Callers, WriteNotify(k) \/ WriteUnlock(k)
       PROVE  PollInv'
  BY <1>0, <1>10 DEF WriteNotify, WriteUnlock, HookInv, LockInv
<1>11. CASE UartIrq
  BY <1>0, <1>11 DEF UartIrq, HookInv
<1>12. CASE Tick \/ UNCHANGED vars
  BY <1>12 DEF Tick, vars
<1> QED BY <1>1, <1>2, <1>3, <1>4, <1>5, <1>6, <1>7, <1>8, <1>9, <1>10, <1>11, <1>12, Steps

-------------------------------------------------------------------------------
(***************************************************************************)
(* The delayed actions                                                     *)
(***************************************************************************)

\* aos_post_delayed_action keeps the list in order.
LEMMA PostedList ==
  ASSUME TypeOK, TimerInv, NEW a \in Actions, PostDelayed(a)
  PROVE  timeouts' \in Seq(Actions) /\ left' \in [Actions -> Int] /\ TimerInv'
<1> DEFINE r(k) == InsertAt(timeouts, k, a)
<1>1. /\ timeouts \in Seq(Actions) /\ left \in [Actions -> Int]
      /\ Distinct(timeouts) /\ Ascends(timeouts, left)
      /\ a \notin Range(timeouts)
      /\ left' = [left EXCEPT ![a] = Delay[a]]
  BY DEF TypeOK, TimerInv, PostDelayed
<1>2. PICK k \in Places(a, left') : timeouts' = r(k)
  BY DEF PostDelayed
<1>3. left' \in [Actions -> Int] /\ Len(timeouts) \in Nat
  BY <1>1
<1>4. /\ k \in 1 .. Len(timeouts) + 1
      /\ \A i \in 1 .. k - 1 : left'[timeouts[i]] <= left'[a]
      /\ k <= Len(timeouts) => left'[a] < left'[timeouts[k]]
  BY <1>2 DEF Places
<1>5. \A i \in 1 .. Len(timeouts) : timeouts[i] \in Actions /\ timeouts[i] # a
  BY <1>1 DEF Range
<1>6. Ascends(timeouts, left')
  BY <1>1, <1>5 DEF Ascends
<1>7. k <= Len(timeouts) => left'[a] <= left'[timeouts[k]]
  <2> SUFFICES ASSUME k <= Len(timeouts)
               PROVE  left'[a] <= left'[timeouts[k]]
    OBVIOUS
  <2>1. k \in 1 .. Len(timeouts)
    BY <1>3, <1>4
  <2>2. left'[timeouts[k]] \in Int /\ left'[a] \in Int
    BY <1>3, <1>5, <2>1
  <2> QED BY <1>4, <2>2
<1>8. \A i, j \in 1 .. Len(r(k)) : i < j => left'[r(k)[i]] <= left'[r(k)[j]]
  <2>1. \A i, j \in 1 .. Len(timeouts) : i < j => left'[timeouts[i]] <= left'[timeouts[j]]
    BY <1>6 DEF Ascends
  <2> QED BY <1>1, <1>3, <1>4, <1>7, <2>1, InsertAtAscends
<1>9. \A i, j \in 1 .. Len(r(k)) : r(k)[i] = r(k)[j] => i = j
  <2>1. \A i, j \in 1 .. Len(timeouts) : timeouts[i] = timeouts[j] => i = j
    BY <1>1 DEF Distinct
  <2>2. a \notin {timeouts[i] : i \in 1 .. Len(timeouts)}
    BY <1>5
  <2> QED BY <1>1, <1>4, <2>1, <2>2, InsertAtElements
<1>10. r(k) \in Seq(Actions)
  BY <1>1, <1>4, InsertAtFacts
<1> QED BY <1>2, <1>3, <1>8, <1>9, <1>10 DEF TimerInv, Distinct, Ascends

\* aos_cancel_delayed_action does too.
LEMMA CancelledList ==
  ASSUME TypeOK, TimerInv, NEW a \in Actions, CancelDelayed(a)
  PROVE  timeouts' \in Seq(Actions) /\ left' \in [Actions -> Int] /\ TimerInv'
<1> DEFINE r(k) == RemoveAt(timeouts, k)
<1>1. /\ timeouts \in Seq(Actions) /\ left \in [Actions -> Int]
      /\ Distinct(timeouts) /\ Ascends(timeouts, left)
      /\ left' = [left EXCEPT ![a] = 0]
  BY DEF TypeOK, TimerInv, CancelDelayed
<1>2. PICK k \in 1 .. Len(timeouts) : timeouts[k] = a /\ timeouts' = r(k)
  BY DEF CancelDelayed
<1>3. left' \in [Actions -> Int]
  BY <1>1
<1>4. \A i, j \in 1 .. Len(timeouts) : timeouts[i] = timeouts[j] => i = j
  BY <1>1 DEF Distinct
<1>5. r(k) \in Seq(Actions)
  BY <1>1, RemoveAtFacts
<1>6. /\ {r(k)[i] : i \in 1 .. Len(r(k))} = {timeouts[i] : i \in 1 .. Len(timeouts)} \ {timeouts[k]}
      /\ \A i, j \in 1 .. Len(r(k)) : r(k)[i] = r(k)[j] => i = j
      /\ \A i, j \in 1 .. Len(r(k)) : i < j =>
           \E m, n \in 1 .. Len(timeouts) :
             m < n /\ timeouts[m] = r(k)[i] /\ timeouts[n] = r(k)[j]
  BY <1>1, <1>4, RemoveAtElements
<1> HIDE DEF r
<1>7. \A i \in 1 .. Len(r(k)) : left'[r(k)[i]] = left[r(k)[i]]
  <2> TAKE i \in 1 .. Len(r(k))
  <2>1. r(k)[i] \in {timeouts[m] : m \in 1 .. Len(timeouts)} \ {timeouts[k]}
    BY <1>6
  <2>2. r(k)[i] # a /\ r(k)[i] \in Actions
    BY <1>1, <1>2, <2>1
  <2> QED BY <1>1, <2>2
<1>8. \A i, j \in 1 .. Len(r(k)) : i < j => left[r(k)[i]] <= left[r(k)[j]]
  <2> TAKE i, j \in 1 .. Len(r(k))
  <2> HAVE i < j
  <2>1. PICK m, n \in 1 .. Len(timeouts) : m < n /\ timeouts[m] = r(k)[i] /\ timeouts[n] = r(k)[j]
    BY <1>6
  <2>2. left[timeouts[m]] <= left[timeouts[n]]
    BY <1>1, <2>1 DEF Ascends
  <2> QED BY <2>1, <2>2
<1> QED BY <1>2, <1>3, <1>5, <1>6, <1>7, <1>8 DEF TimerInv, Distinct, Ascends

\* The first action leaves the list when it is called.
LEMMA CalledList ==
  ASSUME TypeOK, TimerInv, Timeout
  PROVE  timeouts' \in Seq(Actions) /\ left' \in [Actions -> Int] /\ TimerInv'
<1>1. /\ timeouts \in Seq(Actions) /\ left \in [Actions -> Int]
      /\ Distinct(timeouts) /\ Ascends(timeouts, left)
  BY DEF TypeOK, TimerInv
<1>2. CASE ~(timeouts # <<>> /\ Due(Head(timeouts)))
  BY <1>1, <1>2 DEF Timeout, timers, TimerInv
<1>3. CASE timeouts # <<>> /\ Due(Head(timeouts))
  <2> DEFINE u == Tail(timeouts)
  <2>1. /\ timeouts' = u /\ timeouts # <<>>
        /\ left' = [left EXCEPT ![Head(timeouts)] = 0]
    BY <1>3 DEF Timeout
  <2>2. \A i, j \in 1 .. Len(timeouts) : timeouts[i] = timeouts[j] => i = j
    BY <1>1 DEF Distinct
  <2>3. /\ Head(timeouts) \in {timeouts[i] : i \in 1 .. Len(timeouts)}
        /\ u \in Seq(Actions)
        /\ {u[i] : i \in 1 .. Len(u)} = {timeouts[i] : i \in 1 .. Len(timeouts)} \ {Head(timeouts)}
        /\ \A i, j \in 1 .. Len(u) : u[i] = u[j] => i = j
    BY <1>1, <2>1, <2>2, TailElements
  <2>4. /\ Len(timeouts) \in Nat /\ Len(u) = Len(timeouts) - 1
        /\ \A i \in 1 .. Len(timeouts) - 1 : u[i] = timeouts[i + 1]
    BY <1>1, <2>1, HeadTailProperties, LenProperties
  <2> HIDE DEF u
  <2>5. \A i \in 1 .. Len(u) : left'[u[i]] = left[u[i]]
    <3> TAKE i \in 1 .. Len(u)
    <3>1. u[i] \in {timeouts[k] : k \in 1 .. Len(timeouts)} \ {Head(timeouts)}
      BY <2>3
    <3> QED BY <1>1, <2>1, <3>1
  <2>6. \A i, j \in 1 .. Len(u) : i < j => left[u[i]] <= left[u[j]]
    <3> TAKE i, j \in 1 .. Len(u)
    <3> HAVE i < j
    <3>1. u[i] = timeouts[i + 1] /\ u[j] = timeouts[j + 1]
      BY <2>4
    <3>2. i + 1 \in 1 .. Len(timeouts) /\ j + 1 \in 1 .. Len(timeouts) /\ i + 1 < j + 1
      BY <2>4
    <3> QED BY <1>1, <3>1, <3>2 DEF Ascends
  <2>7. left' \in [Actions -> Int]
    BY <1>1, <2>1
  <2> QED BY <2>1, <2>3, <2>5, <2>6, <2>7 DEF TimerInv, Distinct, Ascends
<1> QED BY <1>2, <1>3

\* Time passes for all the listed actions alike.
LEMMA TickedList ==
  ASSUME TypeOK, TimerInv, Tick
  PROVE  timeouts' \in Seq(Actions) /\ left' \in [Actions -> Int] /\ TimerInv'
<1>1. /\ timeouts \in Seq(Actions) /\ left \in [Actions -> Int] /\ timeouts' = timeouts
      /\ Distinct(timeouts) /\ Ascends(timeouts, left)
      /\ left' = [a \in Actions |-> IF a \in Range(timeouts) THEN left[a] - 1 ELSE left[a]]
  BY DEF TypeOK, TimerInv, Tick
<1>2. \A i \in 1 .. Len(timeouts) : timeouts[i] \in Actions /\ timeouts[i] \in Range(timeouts)
  BY <1>1 DEF Range
<1>3. \A i \in 1 .. Len(timeouts) :
        left'[timeouts[i]] = left[timeouts[i]] - 1 /\ left[timeouts[i]] \in Int
  BY <1>1, <1>2
<1>4. Ascends(timeouts, left')
  <2> SUFFICES ASSUME NEW i \in 1 .. Len(timeouts), NEW j \in 1 .. Len(timeouts), i < j
               PROVE  left'[timeouts[i]] <= left'[timeouts[j]]
    BY DEF Ascends
  <2>1. left[timeouts[i]] <= left[timeouts[j]]
    BY <1>1 DEF Ascends
  <2> QED BY <1>3, <2>1
<1>5. left' \in [Actions -> Int]
  BY <1>1
<1> QED BY <1>1, <1>4, <1>5 DEF TimerInv

\* Every step keeps the list in order.
LEMMA TimerStep ==
  ASSUME TypeOK, TimerInv, [Next]_vars
  PROVE  timeouts' \in Seq(Actions) /\ left' \in [Actions -> Int] /\ TimerInv'
<1>1. CASE UNCHANGED timers
  BY <1>1 DEF timers, TimerInv, TypeOK
<1>2. CASE \/ Round \/ PollEvent \/ PollUart \/ CheckUart \/ Wake \/ UnpollEvent \/ UnpollUart
           \/ Free \/ ReadEvent \/ ReadUart \/ Return
           \/ \E e \in Events : PostEvent(e)
           \/ \E k \in Callers, e \in Events, first \in BOOLEAN : Write(k, e, first)
           \/ \E k \in Callers : WriteNotify(k) \/ WriteUnlock(k)
           \/ UartIrq \/ UNCHANGED vars
  BY <1>1, <1>2 DEF Round, PollEvent, PollUart, CheckUart, Wake, UnpollEvent, UnpollUart, Free,
       ReadEvent, ReadUart, Return, PostEvent, Write, WriteNotify, WriteUnlock, UartIrq, vars
<1> QED BY <1>2, PostedList, CancelledList, CalledList, TickedList, Steps

-------------------------------------------------------------------------------
(***************************************************************************)
(* The inductive invariant                                                 *)
(***************************************************************************)

\* A write adds one event to the device.
LEMMA EnqueueTyped ==
  ASSUME TypeOK, NEW e \in Events, NEW first \in BOOLEAN, Enqueue(e, first)
  PROVE  bufs' \in Seq(Events) /\ cache_count' \in 0 .. CacheSize
<1>1. bufs \in Seq(Events) /\ cache_count \in 0 .. CacheSize
  BY DEF TypeOK
<1>2. bufs' \in Seq(Events)
  BY <1>1 DEF Enqueue
<1> QED BY <1>1, <1>2 DEF Enqueue

\* The types of the variables.
LEMMA TypeStep ==
  ASSUME TypeOK, TimerInv, [Next]_vars
  PROVE  TypeOK'
<1> USE DEF TypeOK, loop, poll, device, timers, Devices, EVENT, CONSOLE, Notify
<1>0. timeouts' \in Seq(Actions) /\ left' \in [Actions -> Int]
  BY TimerStep
<1>1. CASE Round
  <2>1. timeouts # <<>> => Head(timeouts) \in Actions /\ left[Head(timeouts)] \in Int
    OBVIOUS
  <2>2. until' \subseteq Nat
    <3>1. CASE timeouts = <<>> \/ Due(Head(timeouts))
      BY <1>1, <3>1 DEF Round
    <3>2. CASE timeouts # <<>> /\ ~Due(Head(timeouts))
      <4>1. left[Head(timeouts)] \in Nat
        BY <2>1, <3>2 DEF Due
      <4>2. until' = {left[Head(timeouts)]}
        BY <1>1, <3>2 DEF Round
      <4> QED BY <4>1, <4>2
    <3> QED BY <3>1, <3>2
  <2> QED BY <1>0, <1>1, <2>2 DEF Round
<1>2. CASE PollEvent \/ PollUart \/ CheckUart
  BY <1>0, <1>2 DEF PollEvent, PollUart, CheckUart
<1>3. CASE Wake \/ UnpollEvent \/ UnpollUart \/ Free \/ Return
  BY <1>0, <1>3 DEF Wake, UnpollEvent, UnpollUart, Free, Return
<1>4. CASE Timeout
  BY <1>0, <1>4 DEF Timeout
<1>5. CASE ReadEvent
  <2>1. bufs' \in Seq(Events) /\ cache_count' \in 0 .. CacheSize
    <3>1. bufs # <<>> => Tail(bufs) \in Seq(Events)
      OBVIOUS
    <3>2. CASE EVENT \in revents /\ bufs # <<>>
      <4>1. /\ bufs' = Tail(bufs)
            /\ cache_count' = IF cache_count < CacheSize THEN cache_count + 1 ELSE cache_count
        BY <1>5, <3>2 DEF ReadEvent
      <4>2. cache_count \in 0 .. CacheSize
        OBVIOUS
      <4>3. cache_count' \in 0 .. CacheSize
        BY <4>1, <4>2
      <4> QED BY <3>1, <3>2, <4>1, <4>3
    <3>3. CASE ~(EVENT \in revents /\ bufs # <<>>)
      BY <1>5, <3>3 DEF ReadEvent
    <3> QED BY <3>2, <3>3
  <2> QED BY <1>0, <1>5, <2>1 DEF ReadEvent
<1>6. CASE ReadUart
  BY <1>0, <1>6 DEF ReadUart
<1>7. ASSUME NEW a \in Actions, PostDelayed(a) \/ CancelDelayed(a)
      PROVE  TypeOK'
  BY <1>0, <1>7 DEF PostDelayed, CancelDelayed
<1>8. ASSUME NEW e \in Events, PostEvent(e)
      PROVE  TypeOK'
  <2>1. bufs' \in Seq(Events) /\ cache_count' \in 0 .. CacheSize
    BY <1>8, EnqueueTyped DEF PostEvent
  <2> QED BY <1>0, <1>8, <2>1 DEF PostEvent
<1>9. ASSUME NEW k \in Callers, NEW e \in Events, NEW first \in BOOLEAN, Write(k, e, first)
      PROVE  TypeOK'
  <2>1. bufs' \in Seq(Events) /\ cache_count' \in 0 .. CacheSize
    BY <1>9, EnqueueTyped DEF Write
  <2> QED BY <1>0, <1>9, <2>1 DEF Write
<1>10. ASSUME NEW k \in Callers, WriteNotify(k) \/ WriteUnlock(k)
       PROVE  TypeOK'
  BY <1>0, <1>10 DEF WriteNotify, WriteUnlock
<1>11. CASE UartIrq
  <2>1. rx' \in 0 .. RxSize
    BY <1>11 DEF UartIrq
  <2> QED BY <1>0, <1>11, <2>1 DEF UartIrq
<1>12. CASE Tick
  <2>1. until' \subseteq Nat
    <3>1. until \subseteq Nat
      OBVIOUS
    <3>2. until' = {u - 1 : u \in until \ {0}} \cup (until \cap {0})
      BY <1>12 DEF Tick
    <3>3. \A u \in until \ {0} : u - 1 \in Nat
      BY <3>1
    <3> QED BY <3>1, <3>2, <3>3
  <2> QED BY <1>0, <1>12, <2>1 DEF Tick
<1>13. CASE UNCHANGED vars
  BY <1>13 DEF vars
<1> QED BY <1>1, <1>2, <1>3, <1>4, <1>5, <1>6, <1>7, <1>8, <1>9, <1>10, <1>11, <1>12, <1>13, Steps

\* The inductive invariant holds when the loop starts.
LEMMA InitIInv == Init => IInv
<1> SUFFICES ASSUME Init
             PROVE  IInv
  OBVIOUS
<1>1. TypeOK
  BY DEF Init, TypeOK
<1>2. TimerInv
  BY DEF Init, TimerInv, Distinct, Ascends
<1>3. LockInv /\ HookInv /\ PollInv
  BY DEF Init, LockInv, HookInv, PollInv, EVENT, CONSOLE
<1> QED BY <1>1, <1>2, <1>3 DEF IInv

\* Every step keeps the inductive invariant.
LEMMA StepIInv == IInv /\ [Next]_vars => IInv'
BY TypeStep, TimerStep, LockStep, HookStep, PollStep DEF IInv

\* The event loop keeps its inductive invariant: the delayed actions are
\* listed once each, in the order in which they are due (yloop.c:173-225), the
\* callbacks are set while their poll lives, and what was in a device before
\* its callback was set has been noticed (device.c:159-183, vfs_uart.c:218-249).
THEOREM Invariance == Spec => []IInv
BY InitIInv, StepIInv, PTL DEF Spec

\* The loop does not wait while there is something to read: the devices look
\* once more after their callbacks are set (device.c:172-177,
\* vfs_uart.c:236-249).
THEOREM NothingIsSleptOver == Spec => []NoLostWakeup
<1>1. IInv => NoLostWakeup
  <2>1. TypeOK => rx \in Nat
    BY DEF TypeOK
  <2> QED BY <2>1 DEF IInv, PollInv, HookInv, NoLostWakeup
<1> QED BY <1>1, Invariance, PTL

\* Nobody signals the semaphore of a poll that has returned: the callbacks are
\* removed before it is deleted, the one of the events under the mutex its
\* callers signal under (select.c:168-173, device.c:164-169).
THEOREM OnlyLivePolls == Spec => []SignalsLivePoll
<1>1. IInv => SignalsLivePoll
  <2>1. TypeOK => hooked \subseteq {EVENT, CONSOLE}
    BY DEF TypeOK, Devices
  <2> QED BY <2>1 DEF IInv, HookInv, SignalsLivePoll
<1> QED BY <1>1, Invariance, PTL

-------------------------------------------------------------------------------
(***************************************************************************)
(* The refinement of DispatchService                                       *)
(***************************************************************************)
LEMMA RangeIsElements ==
  ASSUME NEW S, NEW s \in Seq(S)
  PROVE  Range(s) = {s[i] : i \in 1 .. Len(s)}
BY DEF Range

\* Posting adds the action to those that wait, with its delay.
LEMMA PostedWaits ==
  ASSUME TypeOK, TimerInv, NEW a \in Actions, PostDelayed(a)
  PROVE  Service!Postpone(a)
<1>1. /\ timeouts \in Seq(Actions) /\ left \in [Actions -> Int]
      /\ a \notin Range(timeouts) /\ left' = [left EXCEPT ![a] = Delay[a]]
      /\ \A i, j \in 1 .. Len(timeouts) : timeouts[i] = timeouts[j] => i = j
  BY DEF TypeOK, TimerInv, Distinct, PostDelayed
<1>2. PICK k \in 1 .. Len(timeouts) + 1 : timeouts' = InsertAt(timeouts, k, a)
  BY DEF PostDelayed, Places
<1>3. Range(timeouts') = Range(timeouts) \cup {a}
  <2>1. a \notin {timeouts[i] : i \in 1 .. Len(timeouts)}
    BY <1>1 DEF Range
  <2> DEFINE r == InsertAt(timeouts, k, a)
  <2>2. /\ {r[i] : i \in 1 .. Len(r)} = {timeouts[i] : i \in 1 .. Len(timeouts)} \cup {a}
        /\ \A i, j \in 1 .. Len(r) : r[i] = r[j] => i = j
    <3>1. \A i, j \in 1 .. Len(timeouts) : timeouts[i] = timeouts[j] => i = j
      BY <1>1
    <3>2. timeouts \in Seq(Actions)
      BY <1>1
    <3> QED BY <2>1, <3>1, <3>2, InsertAtElements
  <2>3. r \in Seq(Actions)
    BY <1>1, InsertAtFacts
  <2> HIDE DEF r
  <2>4. Range(r) = Range(timeouts) \cup {a}
    BY <1>1, <2>2, <2>3, RangeIsElements
  <2> QED BY <1>2, <2>4 DEF r
<1>4. \A b \in Range(timeouts) : b \in Actions /\ b # a
  BY <1>1 DEF Range
<1>5. waiting' = [b \in Range(timeouts) \cup {a} |-> IF b = a THEN Delay[a] ELSE waiting[b]]
  BY <1>1, <1>3, <1>4 DEF waiting
<1>6. pc = "call" /\ UNCHANGED <<bufs, rx, pc>>
  BY DEF PostDelayed, loop, device
<1>7. DOMAIN waiting = Range(timeouts)
  BY DEF waiting
<1> QED BY <1>1, <1>5, <1>6, <1>7 DEF Service!Postpone, Service!Waiting

\* An action that leaves the list does not wait any more.
LEMMA LeavesList ==
  ASSUME TypeOK, NEW a \in Actions, left' = [left EXCEPT ![a] = 0],
         Range(timeouts') = Range(timeouts) \ {a}
  PROVE  waiting' = [b \in DOMAIN waiting \ {a} |-> waiting[b]]
<1>1. \A b \in Range(timeouts) : b \in Actions
  BY DEF Range, TypeOK
<1> QED BY <1>1 DEF waiting, TypeOK

\* aos_cancel_delayed_action is the service's Cancel.
LEMMA CancelledWaitsNoMore ==
  ASSUME TypeOK, TimerInv, NEW a \in Actions, CancelDelayed(a)
  PROVE  Service!Cancel(a)
<1>1. /\ timeouts \in Seq(Actions) /\ left' = [left EXCEPT ![a] = 0]
      /\ \A i, j \in 1 .. Len(timeouts) : timeouts[i] = timeouts[j] => i = j
  BY DEF TypeOK, TimerInv, Distinct, CancelDelayed
<1>2. PICK k \in 1 .. Len(timeouts) : timeouts[k] = a /\ timeouts' = RemoveAt(timeouts, k)
  BY DEF CancelDelayed
<1>3. Range(timeouts') = Range(timeouts) \ {a}
  <2> DEFINE r == RemoveAt(timeouts, k)
  <2>1. /\ {r[i] : i \in 1 .. Len(r)}
             = {timeouts[i] : i \in 1 .. Len(timeouts)} \ {timeouts[k]}
        /\ \A i, j \in 1 .. Len(r) : r[i] = r[j] => i = j
        /\ \A i, j \in 1 .. Len(r) : i < j =>
             \E m, n \in 1 .. Len(timeouts) : m < n /\ timeouts[m] = r[i] /\ timeouts[n] = r[j]
    <3>1. \A i, j \in 1 .. Len(timeouts) : timeouts[i] = timeouts[j] => i = j
      BY <1>1
    <3>2. timeouts \in Seq(Actions)
      BY <1>1
    <3> QED BY <3>1, <3>2, RemoveAtElements
  <2>2. r \in Seq(Actions)
    BY <1>1, RemoveAtFacts
  <2> HIDE DEF r
  <2>3. Range(r) = Range(timeouts) \ {a}
    <3>1. Range(r) = {r[i] : i \in 1 .. Len(r)}
      BY <2>2, RangeIsElements
    <3>2. Range(timeouts) = {timeouts[i] : i \in 1 .. Len(timeouts)}
      BY <1>1, RangeIsElements
    <3> QED BY <1>2, <2>1, <3>1, <3>2
  <2> QED BY <1>2, <2>3 DEF r
<1>4. a \in Range(timeouts) /\ DOMAIN waiting = Range(timeouts)
  BY <1>1, <1>2 DEF Range, waiting
<1>5. pc = "call" /\ UNCHANGED <<bufs, rx, pc>>
  BY DEF CancelDelayed, loop, device
<1> QED BY <1>1, <1>3, <1>4, <1>5, LeavesList DEF Service!Cancel, Service!Waiting

\* The first of the list is due before all others.
LEMMA CalledIsFirst ==
  ASSUME TypeOK, TimerInv, Timeout, pc' = "call"
  PROVE  \E a \in Actions : Service!Call(a)
<1> DEFINE a == Head(timeouts)
<1>1. /\ timeouts \in Seq(Actions) /\ left \in [Actions -> Int]
      /\ \A i, j \in 1 .. Len(timeouts) : timeouts[i] = timeouts[j] => i = j
      /\ \A i, j \in 1 .. Len(timeouts) : i < j => left[timeouts[i]] <= left[timeouts[j]]
  BY DEF TypeOK, TimerInv, Distinct, Ascends
<1>2. /\ pc = "timeout" /\ UNCHANGED <<bufs, rx>>
      /\ timeouts # <<>> /\ Due(a) /\ timeouts' = Tail(timeouts)
      /\ left' = [left EXCEPT ![a] = 0]
  BY DEF Timeout, device
<1>3. /\ Len(timeouts) \in Nat /\ Len(timeouts) >= 1 /\ a = timeouts[1] /\ 1 \in 1 .. Len(timeouts)
  BY <1>1, <1>2, HeadTailProperties, LenProperties, EmptySeq
<1>4. a \in Actions /\ a \in Range(timeouts)
  BY <1>1, <1>3 DEF Range
<1>5. Range(timeouts') = Range(timeouts) \ {a}
  <2> DEFINE u == Tail(timeouts)
  <2>1. /\ {u[i] : i \in 1 .. Len(u)} = {timeouts[i] : i \in 1 .. Len(timeouts)} \ {a}
        /\ u \in Seq(Actions)
    BY <1>1, <1>2, TailElements
  <2> HIDE DEF u
  <2>2. Range(u) = Range(timeouts) \ {a}
    BY <1>1, <2>1, RangeIsElements
  <2> QED BY <1>2, <2>2 DEF u
<1>6. \A b \in Range(timeouts) : left[a] <= left[b]
  <2> SUFFICES ASSUME NEW i \in 1 .. Len(timeouts) PROVE left[a] <= left[timeouts[i]]
    BY <1>1 DEF Range
  <2>1. CASE i = 1
    BY <1>1, <1>3, <1>4, <2>1
  <2>2. CASE i # 1
    <3>1. 1 < i
      BY <1>3, <2>2
    <3> QED BY <1>1, <1>3, <3>1
  <2> QED BY <2>1, <2>2
<1>7. DOMAIN waiting = Range(timeouts) /\ \A b \in Range(timeouts) : waiting[b] = left[b]
  BY DEF waiting
<1>8. waiting' = [b \in DOMAIN waiting \ {a} |-> waiting[b]]
  BY <1>2, <1>4, <1>5, LeavesList
<1>9. Service!Call(a)
  BY <1>2, <1>4, <1>6, <1>7, <1>8 DEF Service!Call, Service!Begin, Service!Waiting, Due
<1> QED BY <1>4, <1>9

\* What does not touch the timers leaves what waits alone.
LEMMA SameWaiting == UNCHANGED timers => waiting' = waiting
BY DEF timers, waiting

\* A tick brings every action that waits nearer, and nothing else.
LEMMA TickIsService ==
  ASSUME TypeOK, Tick
  PROVE  Service!Tick
<1>1. /\ timeouts' = timeouts /\ UNCHANGED <<pc, bufs, rx>>
      /\ left' = [a \in Actions |-> IF a \in Range(timeouts) THEN left[a] - 1 ELSE left[a]]
  BY DEF Tick, device
<1>2. \A b \in Range(timeouts) : b \in Actions
  BY DEF Range, TypeOK
<1>3. DOMAIN waiting = Range(timeouts) /\ \A b \in Range(timeouts) : waiting[b] = left[b]
  BY DEF waiting
<1>4. waiting' = [b \in Range(timeouts) |-> waiting[b] - 1]
  BY <1>1, <1>2, <1>3 DEF waiting
<1> QED BY <1>1, <1>3, <1>4 DEF Service!Tick, Service!Waiting

\* A loop step that starts no callback is not seen, unless one returns.
LEMMA QuietStep ==
  ASSUME \/ Round \/ PollEvent \/ PollUart \/ CheckUart \/ Wake \/ UnpollEvent \/ UnpollUart
         \/ Free \/ \E k \in Callers : WriteNotify(k) \/ WriteUnlock(k)
         \/ UNCHANGED vars
  PROVE  UNCHANGED Service!vars
<1>1. /\ UNCHANGED <<timers, bufs, rx>>
      /\ UNCHANGED pc \/ (pc # "call" /\ pc' # "call")
  BY DEF Round, PollEvent, PollUart, CheckUart, Wake, UnpollEvent, UnpollUart, Free,
    WriteNotify, WriteUnlock, vars, loop, poll, device
<1> QED BY <1>1, SameWaiting DEF Service!vars

\* A read of a device is a dispatch by the service, or shows nothing.
LEMMA ReadStep ==
  ASSUME TypeOK, ReadEvent \/ ReadUart
  PROVE  [Service!Next]_(Service!vars)
<1>1. waiting' = waiting
  BY SameWaiting DEF ReadEvent, ReadUart
<1>2. CASE ReadEvent
  <2>1. CASE EVENT \in revents /\ bufs # <<>>
    BY <1>1, <1>2, <2>1 DEF ReadEvent, Service!Next, Service!Dispatch, Service!Begin
  <2>2. CASE ~(EVENT \in revents /\ bufs # <<>>)
    BY <1>1, <1>2, <2>2 DEF ReadEvent, device, Service!vars
  <2> QED BY <2>1, <2>2
<1>3. CASE ReadUart
  <2>1. CASE CONSOLE \in revents /\ rx > 0
    BY <1>1, <1>3, <2>1 DEF ReadUart, device, Service!Next, Service!Read, Service!Begin
  <2>2. CASE ~(CONSOLE \in revents /\ rx > 0)
    BY <1>1, <1>3, <2>2 DEF ReadUart, device, Service!vars
  <2> QED BY <2>1, <2>2
<1> QED BY <1>2, <1>3

\* Events come from callbacks and callers, input from the interrupt.
LEMMA ArrivalStep ==
  ASSUME TypeOK,
         \/ \E e \in Events : PostEvent(e)
         \/ \E k \in Callers, e \in Events, first \in BOOLEAN : Write(k, e, first)
         \/ UartIrq
  PROVE  [Service!Next]_(Service!vars)
<1>1. waiting' = waiting /\ UNCHANGED pc
  BY SameWaiting DEF PostEvent, Write, UartIrq, loop
<1>2. ASSUME NEW e \in Events,
             PostEvent(e) \/ \E k \in Callers, first \in BOOLEAN : Write(k, e, first)
      PROVE  Service!Post(e)
  <2>1. UNCHANGED rx /\ \E first \in BOOLEAN : Enqueue(e, first)
    BY <1>2 DEF PostEvent, Write
  <2> QED BY <1>1, <2>1 DEF Enqueue, Service!Post
<1>3. CASE UartIrq
  <2>1. bufs' = bufs
    BY <1>3 DEF UartIrq, device
  <2>2. rx > 0 => rx' > 0
    BY <1>3, SizeAssumption DEF UartIrq, TypeOK
  <2> QED BY <1>1, <2>1, <2>2 DEF Service!Next, Service!Type, Service!vars
<1> QED BY <1>2, <1>3 DEF Service!Next

\* yloop implements the service the applications see: although it looks at the
\* first delayed action only, calls one a round and reads one event a round, it
\* calls none before one that is due earlier, none that was cancelled, and
\* dispatches each event once and in turn (yloop.c:227-289, device.c:129-157).
THEOREM Refinement == Spec => ImplementsDispatchService
<1>1. Init => Service!Init
  BY DEF Init, Service!Init, waiting, Range
<1>2. IInv /\ [Next]_vars => [Service!Next]_(Service!vars)
  <2> SUFFICES ASSUME TypeOK, TimerInv, [Next]_vars
               PROVE  [Service!Next]_(Service!vars)
    BY DEF IInv
  <2>1. CASE Timeout
    <3>1. CASE pc' = "call"
      BY <2>1, <3>1, CalledIsFirst DEF Service!Next
    <3>2. CASE pc' # "call"
      BY <2>1, <3>2, SameWaiting DEF Timeout, device, Service!vars
    <3> QED BY <3>1, <3>2
  <2>2. CASE Return
    <3>1. pc' # "call"
      BY <2>2 DEF Return, TypeOK
    <3> QED BY <2>2, <3>1, SameWaiting DEF Return, device, Service!Next, Service!End
  <2>3. CASE Tick
    BY <2>3, TickIsService DEF Service!Next
  <2> QED BY <2>1, <2>2, <2>3, Steps, QuietStep, ReadStep, ArrivalStep, PostedWaits,
          CancelledWaitsNoMore DEF Service!Next
<1> QED BY <1>1, <1>2, Invariance, PTL DEF Spec, Service!Spec, ImplementsDispatchService

-------------------------------------------------------------------------------
(***************************************************************************)
(* Liveness: what is posted is dispatched (Dispatched)                     *)
(***************************************************************************)

\* The leads-to steps are chained a fixed number of times.  (The first parameter of
\* aos_post_delayed_action is an int of milliseconds.)
Few ==
  /\ IsFiniteSet(Events) /\ Cardinality(Events) <= 100
  /\ IsFiniteSet(Actions) /\ Cardinality(Actions) <= 100
  /\ MaxUrgent <= 100 /\ MaxLate <= 100
  /\ \A a \in Actions : Delay[a] <= 2147483647

\* An event is queued once.
BufInv == Distinct(bufs) /\ urgent <= MaxUrgent

\* A poll that waits for time waits for the first action.
UntilInv ==
  pc \in {"event", "uart", "check", "wait"} /\ timeouts # <<>> =>
    until = {IF Due(Head(timeouts)) THEN 0 ELSE left[Head(timeouts)]}

\* No action is later than the loop may be, or further off than when it was posted.
LeftInv == \A a \in DOMAIN waiting : waiting[a] >= - MaxLate /\ waiting[a] <= Delay[a]

LiveInv == IInv /\ BufInv /\ UntilInv /\ LeftInv

\* What a write does to the list of the device.
LEMMA Enqueued ==
  ASSUME TypeOK, NEW e \in Events, NEW first \in BOOLEAN, Enqueue(e, first)
  PROVE  /\ bufs' \in Seq(Events) /\ Len(bufs) \in Nat /\ Len(bufs') = Len(bufs) + 1
         /\ first => bufs'[1] = e /\ \A i \in 1 .. Len(bufs) : bufs'[i + 1] = bufs[i]
         /\ ~first => bufs'[Len(bufs) + 1] = e /\ \A i \in 1 .. Len(bufs) : bufs'[i] = bufs[i]
<1>1. bufs \in Seq(Events) /\ Len(bufs) \in Nat
  BY DEF TypeOK
<1>2. CASE first
  <2>1. bufs' = <<e>> \o bufs
    BY <1>2 DEF Enqueue
  <2> QED BY <1>1, <1>2, <2>1
<1>3. CASE ~first
  <2>1. bufs' = Append(bufs, e)
    BY <1>3 DEF Enqueue
  <2> QED BY <1>1, <1>3, <2>1
<1> QED BY <1>2, <1>3

\* What reading an event does to it.
LEMMA Dequeued ==
  ASSUME TypeOK, bufs # <<>>, bufs' = Tail(bufs)
  PROVE  /\ bufs' \in Seq(Events) /\ Len(bufs) \in Nat \ {0} /\ Len(bufs') = Len(bufs) - 1
         /\ \A i \in 1 .. Len(bufs) - 1 : bufs'[i] = bufs[i + 1]
<1>1. bufs \in Seq(Events) /\ Len(bufs) \in Nat
  BY DEF TypeOK
<1> QED BY <1>1, HeadTailProperties, LenProperties

\* Who changes the list.
LEMMA BufSteps ==
  ASSUME TypeOK, [Next]_vars
  PROVE  \/ UNCHANGED <<bufs, urgent>>
         \/ /\ ReadEvent /\ EVENT \in revents /\ bufs # <<>>
            /\ bufs' = Tail(bufs) /\ urgent' = urgent
         \/ \E e \in Events, first \in BOOLEAN :
              /\ e \notin Range(bufs) /\ Enqueue(e, first)
              /\ IF first THEN urgent < MaxUrgent /\ urgent' = urgent + 1 ELSE urgent' = urgent
<1> USE DEF loop, poll, device, timers
<1>1. CASE ReadEvent
  BY <1>1 DEF ReadEvent
<1>2. ASSUME NEW e \in Events, PostEvent(e)
      PROVE  e \notin Range(bufs) /\ Enqueue(e, FALSE) /\ urgent' = urgent
  BY <1>2 DEF PostEvent
<1>3. ASSUME NEW k \in Callers, NEW e \in Events, NEW first \in BOOLEAN, Write(k, e, first)
      PROVE  /\ e \notin Range(bufs) /\ Enqueue(e, first)
             /\ IF first THEN urgent < MaxUrgent /\ urgent' = urgent + 1 ELSE urgent' = urgent
  BY <1>3 DEF Write
<1>4. CASE \/ Round \/ PollEvent \/ PollUart \/ CheckUart \/ Wake \/ UnpollEvent \/ UnpollUart
           \/ Free \/ Timeout \/ ReadUart \/ Return
           \/ \E a \in Actions : PostDelayed(a) \/ CancelDelayed(a)
           \/ \E k \in Callers : WriteNotify(k) \/ WriteUnlock(k)
           \/ UartIrq \/ Tick \/ UNCHANGED vars
  BY <1>4 DEF Round, PollEvent, PollUart, CheckUart, Wake, UnpollEvent, UnpollUart, Free,
       Timeout, ReadUart, Return, PostDelayed, CancelDelayed, WriteNotify, WriteUnlock, UartIrq,
       Tick, vars
<1> QED BY <1>1, <1>2, <1>3, <1>4, Steps

LEMMA BufStep ==
  ASSUME TypeOK, BufInv, [Next]_vars
  PROVE  BufInv'
<1>1. bufs \in Seq(Events) /\ Len(bufs) \in Nat /\ urgent \in Nat /\ Distinct(bufs)
      /\ urgent <= MaxUrgent
  BY DEF TypeOK, BufInv
<1>2. CASE UNCHANGED <<bufs, urgent>>
  BY <1>1, <1>2 DEF BufInv, Distinct
<1>3. CASE bufs # <<>> /\ bufs' = Tail(bufs) /\ urgent' = urgent
  <2>1. Distinct(bufs')
    BY <1>1, <1>3, Dequeued DEF Distinct
  <2> QED BY <1>1, <1>3, <2>1 DEF BufInv
<1>4. ASSUME NEW e \in Events, NEW first \in BOOLEAN, e \notin Range(bufs), Enqueue(e, first),
             IF first THEN urgent < MaxUrgent /\ urgent' = urgent + 1 ELSE urgent' = urgent
      PROVE  BufInv'
  <2>1. \A i \in 1 .. Len(bufs) : bufs[i] # e
    BY <1>1, <1>4, RangeIsElements
  <2>2. Distinct(bufs')
    <3>1. CASE first
      <4>1. /\ Len(bufs') = Len(bufs) + 1 /\ bufs'[1] = e
            /\ \A i \in 1 .. Len(bufs) : bufs'[i + 1] = bufs[i]
        BY <1>4, <3>1, Enqueued
      <4>2. ASSUME NEW i \in 1 .. Len(bufs'), i # 1
            PROVE  i - 1 \in 1 .. Len(bufs) /\ bufs'[i] = bufs[i - 1]
        <5>1. i - 1 \in 1 .. Len(bufs) /\ (i - 1) + 1 = i
          BY <1>1, <4>1, <4>2
        <5> QED BY <4>1, <5>1
      <4>3. ASSUME NEW i \in 1 .. Len(bufs'), NEW j \in 1 .. Len(bufs'), bufs'[i] = bufs'[j]
            PROVE  i = j
        <5>1. CASE i = 1 \/ j = 1
          BY <2>1, <4>1, <4>2, <4>3, <5>1
        <5>2. CASE i # 1 /\ j # 1
          <6>1. /\ i - 1 \in 1 .. Len(bufs) /\ j - 1 \in 1 .. Len(bufs)
                /\ bufs[i - 1] = bufs[j - 1]
            BY <4>2, <4>3, <5>2
          <6>2. i - 1 = j - 1
            BY <1>1, <6>1 DEF Distinct
          <6> QED BY <6>2
        <5> QED BY <5>1, <5>2
      <4> QED BY <4>3 DEF Distinct
    <3>2. CASE ~first
      <4>1. \A i \in 1 .. Len(bufs') :
              IF i = Len(bufs) + 1 THEN bufs'[i] = e ELSE i \in 1 .. Len(bufs) /\ bufs'[i] = bufs[i]
        BY <1>1, <1>4, <3>2, Enqueued
      <4> QED BY <1>1, <2>1, <4>1 DEF Distinct
    <3> QED BY <3>1, <3>2
  <2>3. urgent' <= MaxUrgent
    BY <1>1, <1>4
  <2> QED BY <2>2, <2>3 DEF BufInv
<1> QED BY <1>2, <1>3, <1>4, BufSteps

PlaceIn(s, e) == CHOOSE i \in 1 .. Len(s) : s[i] = e
\* How many events are read before e, urgent ones that may still come included.
Before(e) == PlaceIn(bufs, e) + (MaxUrgent - urgent)

LEMMA PlaceFacts ==
  ASSUME NEW S, NEW s \in Seq(S), Distinct(s), NEW e, NEW i \in 1 .. Len(s), s[i] = e
  PROVE  PlaceIn(s, e) = i
<1>1. PlaceIn(s, e) \in 1 .. Len(s) /\ s[PlaceIn(s, e)] = e
  BY DEF PlaceIn
<1> QED BY <1>1 DEF Distinct

LEMMA BeforeMoves ==
  ASSUME TypeOK, BufInv, TypeOK', BufInv', [Next]_vars, NEW e \in Events,
         e \in Range(bufs), e \in Range(bufs')
  PROVE  \E p, q \in Nat :
           /\ p = Before(e) /\ q = Before(e)'
           /\ IF ReadEvent /\ EVENT \in revents THEN q = p - 1 ELSE q = p
<1>1. /\ bufs \in Seq(Events) /\ bufs' \in Seq(Events) /\ Len(bufs) \in Nat /\ Len(bufs') \in Nat
      /\ Distinct(bufs) /\ Distinct(bufs')
  BY DEF TypeOK, BufInv
<1>2. PICK u \in Nat, v \in Nat, m \in Nat :
        u = urgent /\ v = urgent' /\ m = MaxUrgent /\ u <= m /\ v <= m
  BY DEF TypeOK, BufInv
<1>3. PICK i \in 1 .. Len(bufs) : bufs[i] = e
  BY <1>1, RangeIsElements
<1>4. PICK j \in 1 .. Len(bufs') : bufs'[j] = e
  BY <1>1, RangeIsElements
<1>5. PlaceIn(bufs, e) = i /\ PlaceIn(bufs', e) = j
  BY <1>1, <1>3, <1>4, PlaceFacts
<1>6. i \in Nat /\ j \in Nat
  BY <1>1
<1>7. PICK p \in Nat, q \in Nat : p = i + (m - u) /\ q = j + (m - v)
  <2>1. m \in Nat /\ u \in Nat /\ v \in Nat /\ u <= m /\ v <= m
    BY <1>2
  <2>2. i + (m - u) \in Nat
    BY <1>6, <2>1
  <2>3. j + (m - v) \in Nat
    BY <1>6, <2>1
  <2> QED BY <2>2, <2>3
<1>8. p = Before(e) /\ q = Before(e)'
  BY <1>2, <1>5, <1>7 DEF Before
<1>9. CASE UNCHANGED <<bufs, urgent>>
  <2>1. i = j /\ u = v
    BY <1>1, <1>2, <1>5, <1>9
  <2>2. ~(ReadEvent /\ EVENT \in revents)
    <3>1. bufs # <<>>
      BY <1>1, <1>3
    <3>2. bufs # Tail(bufs)
      BY <1>1, <3>1, Dequeued, HeadTailProperties
    <3> QED BY <1>9, <3>1, <3>2 DEF ReadEvent
  <2> QED BY <1>7, <1>8, <2>1, <2>2
<1>10. CASE ReadEvent /\ EVENT \in revents /\ bufs # <<>> /\ bufs' = Tail(bufs) /\ urgent' = urgent
  <2>1. i = j + 1 /\ u = v
    <3>1. j + 1 \in 1 .. Len(bufs) /\ bufs[j + 1] = e
      BY <1>1, <1>4, <1>10, Dequeued
    <3> QED BY <1>1, <1>2, <1>3, <1>10, <3>1 DEF Distinct
  <2>2. q = p - 1
    BY <1>2, <1>6, <1>7, <2>1
  <2> QED BY <1>8, <1>10, <2>2
<1>11. ASSUME NEW f \in Events, NEW first \in BOOLEAN, f \notin Range(bufs), Enqueue(f, first),
              IF first THEN urgent < MaxUrgent /\ urgent' = urgent + 1 ELSE urgent' = urgent
       PROVE  p = q /\ ~(ReadEvent /\ EVENT \in revents)
  <2>1. Len(bufs') = Len(bufs) + 1
    BY <1>11, Enqueued
  <2>2. ~(ReadEvent /\ EVENT \in revents)
    <3>1. bufs # <<>>
      BY <1>1, <1>3
    <3>2. bufs' = Tail(bufs) => Len(bufs') = Len(bufs) - 1
      BY <3>1, Dequeued
    <3>3. bufs' # Tail(bufs)
      BY <1>1, <2>1, <3>2
    <3> QED BY <3>1, <3>3 DEF ReadEvent
  <2>3. CASE first
    <3>1. i + 1 \in 1 .. Len(bufs') /\ bufs'[i + 1] = e
      <4>1. \A h \in 1 .. Len(bufs) : bufs'[h + 1] = bufs[h]
        BY <1>11, <2>3, Enqueued
      <4>2. i + 1 \in 1 .. Len(bufs')
        BY <1>1, <1>3, <2>1
      <4> QED BY <1>3, <4>1, <4>2
    <3>2. j = i + 1
      BY <1>4, <1>1, <3>1 DEF Distinct
    <3>3. v = u + 1
      BY <1>2, <1>11, <2>3
    <3> QED BY <1>2, <1>6, <1>7, <2>2, <3>2, <3>3
  <2>4. CASE ~first
    <3>1. i \in 1 .. Len(bufs') /\ bufs'[i] = e
      BY <1>1, <1>3, <1>11, <2>1, <2>4, Enqueued
    <3>2. j = i
      BY <1>4, <1>1, <3>1 DEF Distinct
    <3>3. v = u
      BY <1>2, <1>11, <2>4
    <3> QED BY <1>2, <1>6, <1>7, <2>2, <3>2, <3>3
  <2> QED BY <2>3, <2>4
<1>12. p = q /\ ~(ReadEvent /\ EVENT \in revents)
         => \E p1, q1 \in Nat :
              /\ p1 = Before(e) /\ q1 = Before(e)'
              /\ IF ReadEvent /\ EVENT \in revents THEN q1 = p1 - 1 ELSE q1 = p1
  BY <1>8
<1> QED BY <1>9, <1>10, <1>11, <1>12, BufSteps

-------------------------------------------------------------------------------
LEMMA WaitingFacts ==
  ASSUME TypeOK
  PROVE  /\ DOMAIN waiting = Range(timeouts) /\ Range(timeouts) \subseteq Actions
         /\ \A a \in Range(timeouts) : waiting[a] = left[a] /\ waiting[a] \in Int
<1>1. timeouts \in Seq(Actions) /\ left \in [Actions -> Int]
  BY DEF TypeOK
<1>2. Range(timeouts) \subseteq Actions
  BY <1>1, RangeIsElements
<1> QED BY <1>1, <1>2 DEF waiting

LEMMA WaitingFactsNext ==
  ASSUME TypeOK'
  PROVE  /\ (DOMAIN waiting)' = Range(timeouts') /\ Range(timeouts') \subseteq Actions
         /\ \A a \in Range(timeouts') : waiting'[a] = left'[a] /\ waiting'[a] \in Int
<1>1. timeouts' \in Seq(Actions) /\ left' \in [Actions -> Int]
  BY DEF TypeOK
<1>2. Range(timeouts') \subseteq Actions
  BY <1>1, RangeIsElements
<1> QED BY <1>1, <1>2 DEF waiting

\* Who changes what waits.
LEMMA WaitingSteps ==
  ASSUME TypeOK, TimerInv, [Next]_vars
  PROVE  \/ UNCHANGED timers /\ ~(Timeout /\ pc' = "call")
         \/ /\ pc = "call" /\ UNCHANGED <<pc, back, until, revents, bufs, job, rx>>
            /\ \E a \in Actions :
                 /\ a \notin DOMAIN waiting
                 /\ waiting' = [b \in DOMAIN waiting \cup {a} |->
                                  IF b = a THEN Delay[a] ELSE waiting[b]]
         \/ /\ pc = "call" /\ UNCHANGED <<pc, back, until, revents, bufs, job, rx>>
            /\ \E a \in DOMAIN waiting : waiting' = [b \in DOMAIN waiting \ {a} |-> waiting[b]]
         \/ /\ Timeout /\ pc' = "call"
            /\ \E a \in DOMAIN waiting :
                 /\ \A b \in DOMAIN waiting : waiting[a] <= waiting[b]
                 /\ waiting' = [b \in DOMAIN waiting \ {a} |-> waiting[b]]
         \/ Tick /\ waiting' = [a \in DOMAIN waiting |-> waiting[a] - 1]
<1> USE DEF loop, poll, device, timers
<1>1. ASSUME NEW a \in Actions, PostDelayed(a)
      PROVE  /\ pc = "call" /\ UNCHANGED <<pc, back, until, revents, bufs, job, rx>>
             /\ a \notin DOMAIN waiting
             /\ waiting' = [b \in DOMAIN waiting \cup {a} |->
                              IF b = a THEN Delay[a] ELSE waiting[b]]
  <2>1. Service!Postpone(a)
    BY <1>1, PostedWaits
  <2> QED BY <1>1, <2>1 DEF PostDelayed, Service!Postpone, Service!Waiting
<1>2. ASSUME NEW a \in Actions, CancelDelayed(a)
      PROVE  /\ pc = "call" /\ UNCHANGED <<pc, back, until, revents, bufs, job, rx>>
             /\ \E b \in DOMAIN waiting : waiting' = [c \in DOMAIN waiting \ {b} |-> waiting[c]]
  <2>1. Service!Cancel(a)
    BY <1>2, CancelledWaitsNoMore
  <2> QED BY <1>2, <2>1 DEF CancelDelayed, Service!Cancel, Service!Waiting
<1>3. CASE Timeout
  <2>1. CASE pc' = "call"
    <3>1. PICK a \in Actions : Service!Call(a)
      BY <1>3, <2>1, CalledIsFirst
    <3> QED BY <1>3, <2>1, <3>1 DEF Service!Call, Service!Waiting
  <2>2. CASE pc' # "call"
    BY <1>3, <2>2 DEF Timeout
  <2> QED BY <2>1, <2>2
<1>4. CASE Tick
  <2>1. Service!Tick
    BY <1>4, TickIsService
  <2> QED BY <1>4, <2>1 DEF Service!Tick, Service!Waiting
<1>5. CASE ~Timeout /\ \/ Round \/ PollEvent \/ PollUart \/ CheckUart \/ Wake \/ UnpollEvent
                       \/ UnpollUart \/ Free \/ ReadEvent \/ ReadUart \/ Return
                       \/ \E e \in Events : PostEvent(e)
                       \/ \E k \in Callers, e \in Events, first \in BOOLEAN : Write(k, e, first)
                       \/ \E k \in Callers : WriteNotify(k) \/ WriteUnlock(k)
                       \/ UartIrq \/ UNCHANGED vars
  BY <1>5 DEF Round, PollEvent, PollUart, CheckUart, Wake, UnpollEvent, UnpollUart, Free,
       ReadEvent, ReadUart, Return, PostEvent, Write, WriteNotify, WriteUnlock, UartIrq, vars
<1> QED BY <1>1, <1>2, <1>3, <1>4, <1>5, Steps

LEMMA LeftStep ==
  ASSUME TypeOK, TimerInv, LeftInv, [Next]_vars
  PROVE  LeftInv'
<1>1. /\ DOMAIN waiting = Range(timeouts) /\ Range(timeouts) \subseteq Actions
      /\ \A a \in Range(timeouts) : waiting[a] = left[a] /\ waiting[a] \in Int
  BY WaitingFacts
<1>2. \A a \in DOMAIN waiting : waiting[a] >= - MaxLate /\ waiting[a] <= Delay[a]
  BY DEF LeftInv
<1>3. \A a \in Actions : Delay[a] \in Nat \ {0}
  BY DelayAssumption
<1>4. CASE UNCHANGED timers
  <2>1. waiting' = waiting
    BY <1>4, SameWaiting
  <2> QED BY <1>2, <2>1 DEF LeftInv
<1>5. ASSUME NEW a \in Actions, a \notin DOMAIN waiting,
             waiting' = [b \in DOMAIN waiting \cup {a} |-> IF b = a THEN Delay[a] ELSE waiting[b]]
      PROVE  LeftInv'
  <2>1. Delay[a] >= - MaxLate /\ Delay[a] <= Delay[a]
    BY <1>3
  <2> QED BY <1>2, <1>5, <2>1 DEF LeftInv
<1>6. ASSUME NEW a \in DOMAIN waiting, waiting' = [b \in DOMAIN waiting \ {a} |-> waiting[b]]
      PROVE  LeftInv'
  BY <1>2, <1>6 DEF LeftInv
<1>7. CASE Tick /\ waiting' = [a \in DOMAIN waiting |-> waiting[a] - 1]
  <2>1. \A a \in DOMAIN waiting : waiting[a] > - MaxLate
    BY <1>1, <1>7 DEF Tick
  <2>2. \A a \in DOMAIN waiting :
          /\ waiting[a] \in Int /\ Delay[a] \in Int
          /\ waiting[a] - 1 >= - MaxLate /\ waiting[a] - 1 <= Delay[a]
    BY <1>1, <1>2, <1>3, <2>1
  <2> QED BY <1>7, <2>2 DEF LeftInv
<1> QED BY <1>4, <1>5, <1>6, <1>7, WaitingSteps

LEMMA UntilStep ==
  ASSUME TypeOK, UntilInv, [Next]_vars
  PROVE  UntilInv'
<1> USE DEF loop, poll, device, timers
<1>0. timeouts \in Seq(Actions) /\ left \in [Actions -> Int] /\ until \subseteq Nat
  BY DEF TypeOK
<1>1. CASE Round
  BY <1>1 DEF Round, UntilInv, Due
<1>2. CASE PollEvent \/ PollUart \/ CheckUart
  BY <1>2 DEF PollEvent, PollUart, CheckUart, UntilInv, Due
<1>3. CASE Wake \/ UnpollEvent \/ UnpollUart \/ Free
  BY <1>3 DEF Wake, UnpollEvent, UnpollUart, Free, UntilInv
<1>4. CASE Timeout \/ ReadEvent \/ ReadUart
  BY <1>4 DEF Timeout, ReadEvent, ReadUart, UntilInv
<1>5. CASE Return
  <2>1. pc' \in {"round", "readevent", "readuart"}
    BY <1>5 DEF Return, TypeOK
  <2> QED BY <2>1 DEF UntilInv
<1>6. ASSUME NEW a \in Actions, PostDelayed(a) \/ CancelDelayed(a)
      PROVE  UntilInv'
  BY <1>6 DEF PostDelayed, CancelDelayed, UntilInv
<1>7. CASE \/ \E e \in Events : PostEvent(e)
           \/ \E k \in Callers, e \in Events, first \in BOOLEAN : Write(k, e, first)
           \/ \E k \in Callers : WriteNotify(k) \/ WriteUnlock(k)
           \/ UartIrq \/ UNCHANGED vars
  <2>1. UNCHANGED <<pc, until, timeouts, left>>
    BY <1>7 DEF PostEvent, Write, WriteNotify, WriteUnlock, UartIrq, vars
  <2> QED BY <2>1 DEF UntilInv, Due
<1>8. CASE Tick
  <2> SUFFICES ASSUME pc \in {"event", "uart", "check", "wait"}, timeouts # <<>>
               PROVE  until' = {IF Due(Head(timeouts))' THEN 0 ELSE left'[Head(timeouts)]}
    BY <1>8 DEF Tick, UntilInv, Due
  <2>1. Head(timeouts) \in Range(timeouts) /\ Head(timeouts) \in Actions
    <3>1. Len(timeouts) \in Nat \ {0} /\ Head(timeouts) = timeouts[1]
      BY <1>0, HeadTailProperties, LenProperties, EmptySeq
    <3> QED BY <1>0, <3>1, RangeIsElements
  <2>2. PICK h \in Int : h = left[Head(timeouts)]
    BY <1>0, <2>1
  <2>3. left'[Head(timeouts)] = h - 1
    BY <1>8, <2>1, <2>2 DEF Tick
  <2>4. until = {IF h <= 0 THEN 0 ELSE h}
    BY <2>2 DEF UntilInv, Due
  <2>5. until' = {IF h <= 0 THEN 0 ELSE h - 1}
    <3>1. until' = {u - 1 : u \in until \ {0}} \cup (until \cap {0})
      BY <1>8 DEF Tick
    <3>2. CASE h <= 0
      <4>1. until \ {0} = {} /\ until \cap {0} = {0}
        BY <2>4, <3>2
      <4> QED BY <3>1, <3>2, <4>1
    <3>3. CASE ~(h <= 0)
      <4>1. until \ {0} = {h} /\ until \cap {0} = {}
        BY <2>2, <2>4, <3>3
      <4> QED BY <3>1, <3>3, <4>1
    <3> QED BY <3>2, <3>3
  <2>6. Due(Head(timeouts))' <=> h - 1 <= 0
    BY <1>8, <2>3 DEF Tick, Due
  <2> QED BY <2>3, <2>5, <2>6
<1> QED BY <1>1, <1>2, <1>3, <1>4, <1>5, <1>6, <1>7, <1>8, Steps

LEMMA LiveInvariance == Spec => []LiveInv
<1>1. Init => LiveInv
  <2> SUFFICES ASSUME Init PROVE LiveInv
    OBVIOUS
  <2>1. BufInv
    BY DEF Init, BufInv, Distinct
  <2>2. UntilInv
    BY DEF Init, UntilInv
  <2>3. LeftInv
    BY DEF Init, LeftInv, waiting, Range
  <2> QED BY <2>1, <2>2, <2>3, InitIInv DEF LiveInv
<1>2. LiveInv /\ [Next]_vars => LiveInv'
  BY StepIInv, BufStep, UntilStep, LeftStep DEF LiveInv, IInv
<1> QED BY <1>1, <1>2, PTL DEF Spec

-------------------------------------------------------------------------------
(***************************************************************************)
(* What is left to do before the loop gets to it                           *)
(***************************************************************************)

CallerStep ==
  \E k \in Callers :
    WriteNotify(k) \/ WriteUnlock(k) \/ \E e \in Events, first \in BOOLEAN : Write(k, e, first)

Unqueued == Events \ Range(bufs)

\* The steps of the callers that can be taken until the loop reads an event.
Hold == IF \E k \in Callers : job[k] = "notify" THEN 2
        ELSE IF \E k \in Callers : job[k] = "unlock" THEN 1 ELSE 0
Calls == 3 * Cardinality(Unqueued) + Hold

LEMMA UnqueuedMoves ==
  ASSUME Few, TypeOK, TypeOK', [Next]_vars
  PROVE  \E u, v \in 0 .. 100 :
           /\ u = Cardinality(Unqueued) /\ v = Cardinality(Unqueued)'
           /\ \/ v = u /\ UNCHANGED bufs
              \/ ReadEvent /\ EVENT \in revents /\ bufs # <<>> /\ v <= u + 1
              \/ v + 1 = u /\ bufs' # bufs
<1>1. /\ bufs \in Seq(Events) /\ bufs' \in Seq(Events)
      /\ Range(bufs) = {bufs[i] : i \in 1 .. Len(bufs)}
      /\ Range(bufs') = {bufs'[i] : i \in 1 .. Len(bufs')}
  BY RangeIsElements DEF TypeOK
<1>2. /\ IsFiniteSet(Unqueued) /\ Cardinality(Unqueued) \in 0 .. 100
      /\ IsFiniteSet(Unqueued') /\ Cardinality(Unqueued') \in 0 .. 100
  <2>1. \A S \in SUBSET Events : IsFiniteSet(S) /\ Cardinality(S) \in 0 .. 100
    <3> TAKE S \in SUBSET Events
    <3>1. IsFiniteSet(S) /\ Cardinality(S) <= Cardinality(Events)
      BY FS_Subset DEF Few
    <3>2. PICK m \in Nat, n \in Nat : m = Cardinality(Events) /\ n = Cardinality(S)
      BY <3>1, FS_CardinalityType DEF Few
    <3>3. n <= m /\ m <= 100
      BY <3>1, <3>2 DEF Few
    <3> QED BY <3>1, <3>2, <3>3
  <2>2. Unqueued \in SUBSET Events /\ Unqueued' \in SUBSET Events
    BY DEF Unqueued
  <2> QED BY <2>1, <2>2
<1>3. PICK u \in 0 .. 100, v \in 0 .. 100 : u = Cardinality(Unqueued) /\ v = Cardinality(Unqueued')
  BY <1>2
<1>4. CASE UNCHANGED bufs
  BY <1>3, <1>4 DEF Unqueued
<1>5. CASE ReadEvent /\ EVENT \in revents /\ bufs # <<>> /\ bufs' = Tail(bufs)
  <2>1. /\ Len(bufs) \in Nat \ {0} /\ Len(bufs') = Len(bufs) - 1
        /\ \A i \in 1 .. Len(bufs) - 1 : bufs'[i] = bufs[i + 1]
    BY <1>5, Dequeued
  <2>2. \A f \in Range(bufs) \ {bufs[1]} : f \in Range(bufs')
    <3> SUFFICES ASSUME NEW i \in 1 .. Len(bufs), i # 1 PROVE bufs[i] \in Range(bufs')
      BY <1>1
    <3>1. i - 1 \in 1 .. Len(bufs) - 1 /\ (i - 1) + 1 = i
      BY <2>1
    <3>2. bufs'[i - 1] = bufs[i] /\ i - 1 \in 1 .. Len(bufs')
      BY <2>1, <3>1
    <3> QED BY <1>1, <3>2
  <2>3. Unqueued' \subseteq Unqueued \cup {bufs[1]}
    BY <2>2 DEF Unqueued
  <2>4. IsFiniteSet(Unqueued \cup {bufs[1]}) /\ Cardinality(Unqueued \cup {bufs[1]}) <= u + 1
    <3>1. IsFiniteSet(Unqueued \cup {bufs[1]})
      BY <1>2, FS_AddElement
    <3>2. Cardinality(Unqueued \cup {bufs[1]}) = IF bufs[1] \in Unqueued THEN u ELSE u + 1
      BY <1>2, <1>3, FS_AddElement
    <3> QED BY <1>3, <3>1, <3>2
  <2>5. Cardinality(Unqueued') <= Cardinality(Unqueued \cup {bufs[1]})
    BY <2>3, <2>4, FS_Subset
  <2>6. Cardinality(Unqueued \cup {bufs[1]}) \in Nat
    BY <2>4, FS_CardinalityType
  <2>7. v <= u + 1
    BY <1>3, <2>4, <2>5, <2>6
  <2> QED BY <1>3, <1>5, <2>7
<1>6. ASSUME NEW e \in Events, NEW first \in BOOLEAN, e \notin Range(bufs), Enqueue(e, first)
      PROVE  v + 1 = u /\ bufs' # bufs
  <2>1. Len(bufs') = Len(bufs) + 1 /\ Len(bufs) \in Nat
    BY <1>6, Enqueued
  <2>2. Range(bufs') = Range(bufs) \cup {e}
    <3>1. CASE first
      <4>1. bufs'[1] = e /\ \A i \in 1 .. Len(bufs) : bufs'[i + 1] = bufs[i]
        BY <1>6, <3>1, Enqueued
      <4>2. ASSUME NEW i \in 1 .. Len(bufs) PROVE bufs[i] \in Range(bufs')
        <5>1. i + 1 \in 1 .. Len(bufs')
          BY <2>1
        <5> QED BY <1>1, <4>1, <5>1
      <4>3. e \in Range(bufs')
        <5>1. 1 \in 1 .. Len(bufs')
          BY <2>1
        <5> QED BY <1>1, <4>1, <5>1
      <4>4. ASSUME NEW i \in 1 .. Len(bufs'), i # 1 PROVE bufs'[i] \in Range(bufs)
        <5>1. i - 1 \in 1 .. Len(bufs) /\ (i - 1) + 1 = i
          BY <2>1, <4>4
        <5>2. bufs'[i] = bufs[i - 1]
          BY <4>1, <5>1
        <5> QED BY <1>1, <5>1, <5>2
      <4>5. Range(bufs') \subseteq Range(bufs) \cup {e}
        BY <1>1, <4>1, <4>4
      <4>6. Range(bufs) \subseteq Range(bufs')
        BY <1>1, <4>2
      <4> QED BY <4>3, <4>5, <4>6
    <3>2. CASE ~first
      <4>1. bufs'[Len(bufs) + 1] = e /\ \A i \in 1 .. Len(bufs) : bufs'[i] = bufs[i]
        BY <1>6, <3>2, Enqueued
      <4>2. 1 .. Len(bufs') = (1 .. Len(bufs)) \cup {Len(bufs) + 1}
        BY <2>1
      <4> QED BY <1>1, <4>1, <4>2
    <3> QED BY <3>1, <3>2
  <2>3. Unqueued' = Unqueued \ {e} /\ e \in Unqueued
    BY <1>6, <2>2 DEF Unqueued
  <2>4. Cardinality(Unqueued') = Cardinality(Unqueued) - 1
    BY <1>2, <2>3, FS_RemoveElement
  <2>5. bufs' # bufs
    BY <2>1
  <2> QED BY <1>3, <2>4, <2>5
<1> QED BY <1>3, <1>4, <1>5, <1>6, BufSteps

LEMMA HoldMoves ==
  ASSUME TypeOK, LockInv, [Next]_vars
  PROVE  \E h, g \in 0 .. 2 :
           /\ h = Hold /\ g = Hold'
           /\ \/ g = h /\ UNCHANGED job
              \/ g < h /\ CallerStep /\ UNCHANGED bufs
              \/ bufs' # bufs /\ ~ReadEvent
<1> USE DEF loop, poll, device, timers
<1>0. PICK h \in 0 .. 2, g \in 0 .. 2 : h = Hold /\ g = Hold'
  BY DEF Hold
<1>1. CASE UNCHANGED job
  BY <1>0, <1>1 DEF Hold
<1>2. ASSUME NEW k \in Callers, WriteNotify(k)
      PROVE  g < h /\ UNCHANGED bufs
  <2>1. /\ job[k] = "notify" /\ job'[k] = "unlock" /\ UNCHANGED bufs
        /\ \A l \in Callers : l # k => job'[l] = job[l]
    BY <1>2 DEF WriteNotify, TypeOK
  <2>2. \A l \in Callers : l # k => job[l] = "idle"
    BY <2>1 DEF LockInv
  <2>3. h = 2 /\ g = 1
    BY <1>0, <2>1, <2>2 DEF Hold
  <2> QED BY <2>1, <2>3
<1>3. ASSUME NEW k \in Callers, WriteUnlock(k)
      PROVE  g < h /\ UNCHANGED bufs
  <2>1. /\ job[k] = "unlock" /\ job'[k] = "idle" /\ UNCHANGED bufs
        /\ \A l \in Callers : l # k => job'[l] = job[l]
    BY <1>3 DEF WriteUnlock, TypeOK
  <2>2. \A l \in Callers : l # k => job[l] = "idle"
    BY <2>1 DEF LockInv
  <2>3. h = 1 /\ g = 0
    BY <1>0, <2>1, <2>2 DEF Hold
  <2> QED BY <2>1, <2>3
<1>4. ASSUME NEW k \in Callers, NEW e \in Events, NEW first \in BOOLEAN, Write(k, e, first)
      PROVE  bufs' # bufs /\ ~ReadEvent
  <2>1. Len(bufs') = Len(bufs) + 1 /\ Len(bufs) \in Nat
    BY <1>4, Enqueued DEF Write
  <2>2. bufs' # bufs
    BY <2>1
  <2>3. job' # job
    BY <1>4 DEF Write, TypeOK
  <2> QED BY <2>2, <2>3 DEF ReadEvent
<1>5. CASE \/ Round \/ PollEvent \/ PollUart \/ CheckUart \/ Wake \/ UnpollEvent \/ UnpollUart
           \/ Free \/ Timeout \/ ReadEvent \/ ReadUart \/ Return
           \/ \E a \in Actions : PostDelayed(a) \/ CancelDelayed(a)
           \/ \E e \in Events : PostEvent(e)
           \/ UartIrq \/ Tick \/ UNCHANGED vars
  BY <1>1, <1>5 DEF Round, PollEvent, PollUart, CheckUart, Wake, UnpollEvent, UnpollUart, Free,
       Timeout, ReadEvent, ReadUart, Return, PostDelayed, CancelDelayed, PostEvent, UartIrq, Tick, vars
<1> QED BY <1>0, <1>2, <1>3, <1>4, <1>5, Steps DEF CallerStep

\* Only an event that is read lets more be written.
LEMMA CallsMoves ==
  ASSUME Few, TypeOK, LockInv, TypeOK', [Next]_vars
  PROVE  \E c, d \in 0 .. 302 :
           /\ c = Calls /\ d = Calls' /\ d <= c + 3
           /\ ~(ReadEvent /\ EVENT \in revents /\ bufs # <<>>) => d <= c
           /\ CallerStep => d < c
<1>1. PICK u \in 0 .. 100, v \in 0 .. 100 :
        /\ u = Cardinality(Unqueued) /\ v = Cardinality(Unqueued)'
        /\ \/ v = u /\ UNCHANGED bufs
           \/ ReadEvent /\ EVENT \in revents /\ bufs # <<>> /\ v <= u + 1
           \/ v + 1 = u /\ bufs' # bufs
  BY UnqueuedMoves
<1>2. PICK h \in 0 .. 2, g \in 0 .. 2 :
        /\ h = Hold /\ g = Hold'
        /\ \/ g = h /\ UNCHANGED job
           \/ g < h /\ CallerStep /\ UNCHANGED bufs
           \/ bufs' # bufs /\ ~ReadEvent
  BY HoldMoves
<1>3. CallerStep => job' # job
  BY DEF CallerStep, WriteNotify, WriteUnlock, Write, TypeOK
<1>4. UNCHANGED bufs => u = v
  BY <1>1 DEF Unqueued
<1>5. bufs' # bufs /\ ~ReadEvent => v + 1 = u
  BY <1>1
<1>6. ReadEvent => ~CallerStep
  <2>1. ReadEvent => UNCHANGED job
    BY DEF ReadEvent
  <2> QED BY <1>3, <2>1
<1>7. PICK c \in Nat, d \in Nat : c = 3 * u + h /\ d = 3 * v + g
  OBVIOUS
<1>8. c = Calls /\ d = Calls'
  BY <1>1, <1>2, <1>7 DEF Calls
<1>9. c <= 302 /\ d <= 302
  BY <1>7
<1>10. d <= c + 3 /\ (CallerStep => d < c)
  <2>1. CASE g = h /\ UNCHANGED job
    BY <1>1, <1>3, <1>7, <2>1
  <2>2. CASE g < h /\ CallerStep /\ UNCHANGED bufs
    BY <1>4, <1>7, <2>2
  <2>3. CASE bufs' # bufs /\ ~ReadEvent
    BY <1>5, <1>7, <2>3
  <2> QED BY <1>2, <2>1, <2>2, <2>3
<1>11. ~(ReadEvent /\ EVENT \in revents /\ bufs # <<>>) => d <= c
  <2> SUFFICES ASSUME ~(ReadEvent /\ EVENT \in revents /\ bufs # <<>>)
               PROVE  d <= c
    OBVIOUS
  <2>1. v <= u
    BY <1>1
  <2>2. CASE g <= h
    BY <1>7, <2>1, <2>2
  <2>3. CASE bufs' # bufs /\ ~ReadEvent
    BY <1>5, <1>7, <2>3
  <2> QED BY <1>2, <2>2, <2>3
<1>12. c \in 0 .. 302 /\ d \in 0 .. 302
  BY <1>9
<1> QED BY <1>8, <1>10, <1>11, <1>12

-------------------------------------------------------------------------------
\* The loop's place in its round.
Place ==
  CASE pc = "round" -> 0 [] pc = "event" -> 1 [] pc = "uart" -> 2 [] pc = "check" -> 3
    [] pc = "wait" -> 4 [] pc = "unevent" -> 5 [] pc = "unuart" -> 6 [] pc = "free" -> 7
    [] pc = "timeout" -> 8 [] pc = "readevent" -> 10 [] pc = "readuart" -> 12
    [] pc = "call" -> IF back = "readevent" THEN 9 ELSE IF back = "readuart" THEN 11 ELSE 13

\* The steps to the end of the next look at the delayed actions, at the events, at the console.
ToTimeout == IF Place <= 8 THEN 9 - Place ELSE 23 - Place
ToEvent ==
  IF Place <= 1 \/ (EVENT \in revents /\ Place <= 10) THEN 11 - Place ELSE 25 - Place
ToConsole ==
  IF Place <= 3 \/ (CONSOLE \in revents /\ Place <= 12) THEN 13 - Place ELSE 27 - Place

\* What the steps of the loop do to its place and to the readers that are marked.
Moves(p, q) ==
  \/ Round /\ p = 0 /\ q = 1
  \/ PollEvent /\ p = 1 /\ q = 2 /\ revents \subseteq revents'
       /\ (bufs # <<>> => EVENT \in revents')
  \/ /\ PollUart \/ Wake \/ UnpollEvent \/ UnpollUart \/ Free
     /\ p \in {2, 4, 5, 6, 7} /\ q = p + 1 /\ revents' = revents
  \/ CheckUart /\ p = 3 /\ q = 4 /\ revents \subseteq revents'
       /\ (rx > 0 => CONSOLE \in revents')
  \/ Timeout /\ p = 8 /\ q \in {9, 10} /\ revents' = revents
  \/ ReadEvent /\ p = 10 /\ q \in {11, 12} /\ revents' = revents
  \/ ReadUart /\ p = 12 /\ q \in {0, 13} /\ revents' = revents
       /\ (CONSOLE \in revents /\ rx > 0 => pc' = "call" /\ back' = "round")
  \/ Return /\ (\/ p \in {9, 11} /\ q = p + 1
                \/ p = 13 /\ q = 0) /\ revents' = revents
  \/ ~LoopStep /\ q = p /\ revents \subseteq revents'

LEMMA PlaceMoves ==
  ASSUME TypeOK, [Next]_vars
  PROVE  \E p, q \in 0 .. 13 : p = Place /\ q = Place' /\ Moves(p, q)
<1> USE DEF loop, poll, device, timers
<1>0. /\ pc \in {"round", "event", "uart", "check", "wait", "unevent", "unuart", "free",
                 "timeout", "readevent", "readuart", "call"}
      /\ back \in {"round", "readevent", "readuart"}
  BY DEF TypeOK
<1>1. CASE Round
  <2>1. Place = 0 /\ Place' = 1
    BY <1>1 DEF Round, Place
  <2> QED BY <1>1, <2>1 DEF Moves
<1>2. CASE PollEvent
  <2>1. Place = 1 /\ Place' = 2
    BY <1>2 DEF PollEvent, Place
  <2>2. revents \subseteq revents' /\ (bufs # <<>> => EVENT \in revents')
    BY <1>2 DEF PollEvent, Notify
  <2> QED BY <1>2, <2>1, <2>2 DEF Moves
<1>3. CASE PollUart \/ Wake \/ UnpollEvent \/ UnpollUart \/ Free
  <2>1. Place \in {2, 4, 5, 6, 7} /\ Place' = Place + 1 /\ revents' = revents
    BY <1>3 DEF PollUart, Wake, UnpollEvent, UnpollUart, Free, Place
  <2>2. Place \in 0 .. 13 /\ Place' \in 0 .. 13
    BY <2>1
  <2> QED BY <1>3, <2>1, <2>2 DEF Moves
<1>4. CASE CheckUart
  <2>1. Place = 3 /\ Place' = 4
    BY <1>4 DEF CheckUart, Place
  <2>2. revents \subseteq revents' /\ (rx > 0 => CONSOLE \in revents')
    BY <1>4 DEF CheckUart, Notify
  <2> QED BY <1>4, <2>1, <2>2 DEF Moves
<1>5. CASE Timeout
  <2>1. Place = 8 /\ Place' \in {9, 10} /\ revents' = revents
    BY <1>5 DEF Timeout, Place
  <2>2. Place' \in 0 .. 13
    BY <2>1
  <2> QED BY <1>5, <2>1, <2>2 DEF Moves
<1>6. CASE ReadEvent
  <2>1. Place = 10 /\ Place' \in {11, 12} /\ revents' = revents
    BY <1>6 DEF ReadEvent, Place
  <2>2. Place' \in 0 .. 13
    BY <2>1
  <2> QED BY <1>6, <2>1, <2>2 DEF Moves
<1>7. CASE ReadUart
  <2>1. Place = 12 /\ Place' \in {0, 13} /\ revents' = revents
    BY <1>7 DEF ReadUart, Place
  <2>2. CONSOLE \in revents /\ rx > 0 => pc' = "call" /\ back' = "round"
    BY <1>7 DEF ReadUart
  <2>3. Place' \in 0 .. 13
    BY <2>1
  <2> QED BY <1>7, <2>1, <2>2, <2>3 DEF Moves
<1>8. CASE Return
  <2>1. /\ \/ Place \in {9, 11} /\ Place' = Place + 1
           \/ Place = 13 /\ Place' = 0
        /\ revents' = revents
    BY <1>0, <1>8 DEF Return, Place
  <2>2. Place \in 0 .. 13 /\ Place' \in 0 .. 13
    BY <2>1
  <2> QED BY <1>8, <2>1, <2>2 DEF Moves
<1>9. CASE ~LoopStep
  <2>1. UNCHANGED <<pc, back>> /\ revents \subseteq revents'
    <3>1. \A a \in Actions : PostDelayed(a) \/ CancelDelayed(a) => UNCHANGED <<pc, back, revents>>
      BY DEF PostDelayed, CancelDelayed
    <3>2. \A e \in Events : PostEvent(e) => UNCHANGED <<pc, back>> /\ revents \subseteq revents'
      BY DEF PostEvent, Notify
    <3>3. \A k \in Callers, e \in Events, first \in BOOLEAN :
            Write(k, e, first) => UNCHANGED <<pc, back, revents>>
      BY DEF Write
    <3>4. \A k \in Callers : WriteNotify(k) \/ WriteUnlock(k)
            => UNCHANGED <<pc, back>> /\ revents \subseteq revents'
      BY DEF WriteNotify, WriteUnlock, Notify
    <3>5. UartIrq \/ Tick \/ UNCHANGED vars
            => UNCHANGED <<pc, back>> /\ revents \subseteq revents'
      BY DEF UartIrq, Notify, Tick, vars
    <3> QED BY <1>9, <3>1, <3>2, <3>3, <3>4, <3>5, Steps DEF LoopStep
  <2>2. Place' = Place /\ Place \in 0 .. 13
    BY <1>0, <2>1 DEF Place
  <2> QED BY <1>9, <2>1, <2>2 DEF Moves
<1> QED BY <1>1, <1>2, <1>3, <1>4, <1>5, <1>6, <1>7, <1>8, <1>9 DEF LoopStep

LEMMA LoopMoves ==
  ASSUME NEW p \in 0 .. 13, NEW q \in 0 .. 13, Moves(p, q), LoopStep
  PROVE  \/ p = 0 /\ q = 1
         \/ p = 1 /\ q = 2 /\ revents \subseteq revents' /\ (bufs # <<>> => EVENT \in revents')
         \/ p \in {2, 4, 5, 6, 7, 9, 11} /\ q = p + 1 /\ revents' = revents
         \/ p = 3 /\ q = 4 /\ revents \subseteq revents' /\ (rx > 0 => CONSOLE \in revents')
         \/ Timeout /\ p = 8 /\ q \in {9, 10} /\ revents' = revents
         \/ ReadEvent /\ p = 10 /\ q \in {11, 12} /\ revents' = revents
         \/ /\ p = 12 /\ q \in {0, 13} /\ revents' = revents
            /\ CONSOLE \in revents /\ rx > 0 => pc' = "call" /\ back' = "round"
         \/ p = 13 /\ q = 0 /\ revents' = revents
BY DEF Moves

LEMMA ToTimeoutMoves ==
  ASSUME TypeOK, [Next]_vars
  PROVE  \E t, u \in 0 .. 14 :
           /\ t = ToTimeout /\ u = ToTimeout'
           /\ ~LoopStep => u <= t
           /\ LoopStep => u < t \/ Timeout
<1>1. PICK p \in 0 .. 13, q \in 0 .. 13 : p = Place /\ q = Place' /\ Moves(p, q)
  BY PlaceMoves
<1>2. PICK t \in 0 .. 14, u \in 0 .. 14 :
        /\ t = IF p <= 8 THEN 9 - p ELSE 23 - p
        /\ u = IF q <= 8 THEN 9 - q ELSE 23 - q
  OBVIOUS
<1>3. t = ToTimeout /\ u = ToTimeout'
  BY <1>1, <1>2 DEF ToTimeout
<1>4. CASE ~LoopStep
  <2>1. q = p
    BY <1>1, <1>4 DEF Moves, LoopStep
  <2>2. u <= t
    BY <1>2, <2>1
  <2> QED BY <1>3, <1>4, <2>2
<1>5. CASE LoopStep
  <2> SUFFICES u < t \/ Timeout
    BY <1>3, <1>5
  <2>1. \/ p <= 7 /\ q = p + 1
        \/ Timeout
        \/ p \in 9 .. 13 /\ (q = 0 \/ (q > p /\ q <= 13))
    BY <1>1, <1>5, LoopMoves
  <2>2. CASE p <= 7 /\ q = p + 1
    BY <1>2, <2>2
  <2>3. CASE p \in 9 .. 13 /\ (q = 0 \/ (q > p /\ q <= 13))
    BY <1>2, <2>3
  <2> QED BY <2>1, <2>2, <2>3
<1> QED BY <1>4, <1>5

LEMMA ToEventMoves ==
  ASSUME TypeOK, [Next]_vars, bufs # <<>>
  PROVE  \E t, u \in 0 .. 25 :
           /\ t = ToEvent /\ u = ToEvent'
           /\ ~LoopStep => u <= t
           /\ LoopStep => u < t \/ (ReadEvent /\ EVENT \in revents)
<1>1. PICK p \in 0 .. 13, q \in 0 .. 13 : p = Place /\ q = Place' /\ Moves(p, q)
  BY PlaceMoves
<1>2. PICK t \in 0 .. 25, u \in 0 .. 25 :
        /\ t = IF p <= 1 \/ (EVENT \in revents /\ p <= 10) THEN 11 - p ELSE 25 - p
        /\ u = IF q <= 1 \/ (EVENT \in revents' /\ q <= 10) THEN 11 - q ELSE 25 - q
  OBVIOUS
<1>3. t = ToEvent /\ u = ToEvent'
  BY <1>1, <1>2 DEF ToEvent
<1>4. CASE ~LoopStep
  <2>1. q = p /\ revents \subseteq revents'
    BY <1>1, <1>4 DEF Moves, LoopStep
  <2>2. u <= t
    BY <1>2, <2>1
  <2> QED BY <1>3, <1>4, <2>2
<1>5. CASE LoopStep
  <2> SUFFICES u < t \/ (ReadEvent /\ EVENT \in revents)
    BY <1>3, <1>5
  <2>1. \/ p = 0 /\ q = 1
        \/ p = 1 /\ q = 2 /\ EVENT \in revents'
        \/ p \in 2 .. 9 /\ q \in {p + 1, p + 2} /\ q <= 10 /\ revents \subseteq revents'
        \/ ReadEvent /\ p = 10 /\ q > p /\ q <= 13
        \/ p \in 11 .. 13 /\ (q = 0 \/ (q > p /\ q <= 13))
    BY <1>1, <1>5, LoopMoves
  <2>2. CASE p = 0 /\ q = 1
    BY <1>2, <2>2
  <2>3. CASE p = 1 /\ q = 2 /\ EVENT \in revents'
    BY <1>2, <2>3
  <2>4. CASE p \in 2 .. 9 /\ q \in {p + 1, p + 2} /\ q <= 10 /\ revents \subseteq revents'
    <3>1. EVENT \in revents => EVENT \in revents'
      BY <2>4
    <3> QED BY <1>2, <2>4, <3>1
  <2>5. CASE ReadEvent /\ p = 10 /\ q > p /\ q <= 13
    BY <1>2, <2>5
  <2>6. CASE p \in 11 .. 13 /\ (q = 0 \/ (q > p /\ q <= 13))
    BY <1>2, <2>6
  <2> QED BY <2>1, <2>2, <2>3, <2>4, <2>5, <2>6
<1> QED BY <1>4, <1>5

LEMMA ToConsoleMoves ==
  ASSUME TypeOK, [Next]_vars, rx > 0
  PROVE  \E t, u \in 0 .. 27 :
           /\ t = ToConsole /\ u = ToConsole'
           /\ ~LoopStep => u <= t
           /\ LoopStep => u < t \/ (pc' = "call" /\ back' = "round")
<1>1. PICK p \in 0 .. 13, q \in 0 .. 13 : p = Place /\ q = Place' /\ Moves(p, q)
  BY PlaceMoves
<1>2. PICK t \in 0 .. 27, u \in 0 .. 27 :
        /\ t = IF p <= 3 \/ (CONSOLE \in revents /\ p <= 12) THEN 13 - p ELSE 27 - p
        /\ u = IF q <= 3 \/ (CONSOLE \in revents' /\ q <= 12) THEN 13 - q ELSE 27 - q
  OBVIOUS
<1>3. t = ToConsole /\ u = ToConsole'
  BY <1>1, <1>2 DEF ToConsole
<1>4. CASE ~LoopStep
  <2>1. q = p /\ revents \subseteq revents'
    BY <1>1, <1>4 DEF Moves, LoopStep
  <2>2. u <= t
    BY <1>2, <2>1
  <2> QED BY <1>3, <1>4, <2>2
<1>5. CASE LoopStep
  <2> SUFFICES u < t \/ (pc' = "call" /\ back' = "round")
    BY <1>3, <1>5
  <2>1. \/ p <= 2 /\ q = p + 1
        \/ p = 3 /\ q = 4 /\ CONSOLE \in revents'
        \/ p \in 4 .. 11 /\ q \in {p + 1, p + 2} /\ q <= 12 /\ revents \subseteq revents'
        \/ p = 12 /\ q \in {0, 13}
             /\ (CONSOLE \in revents => pc' = "call" /\ back' = "round")
        \/ p = 13 /\ q = 0
    BY <1>1, <1>5, LoopMoves
  <2>2. CASE p <= 2 /\ q = p + 1
    BY <1>2, <2>2
  <2>3. CASE p = 3 /\ q = 4 /\ CONSOLE \in revents'
    BY <1>2, <2>3
  <2>4. CASE p \in 4 .. 11 /\ q \in {p + 1, p + 2} /\ q <= 12 /\ revents \subseteq revents'
    <3>1. CONSOLE \in revents => CONSOLE \in revents'
      BY <2>4
    <3> QED BY <1>2, <2>4, <3>1
  <2>5. CASE p = 12 /\ q \in {0, 13}
               /\ (CONSOLE \in revents => pc' = "call" /\ back' = "round")
    BY <1>2, <2>5
  <2>6. CASE p = 13 /\ q = 0
    BY <1>2, <2>6
  <2> QED BY <2>1, <2>2, <2>3, <2>4, <2>5, <2>6
<1> QED BY <1>4, <1>5

-------------------------------------------------------------------------------
\* The actions that time waits for.
Late == {a \in DOMAIN waiting : waiting[a] <= - MaxLate}

LEMMA TimelyIsNoneLate ==
  ASSUME TypeOK
  PROVE  Timely <=> Late = {}
BY WaitingFacts DEF Timely, Late

LEMMA LateMoves ==
  ASSUME Few, TypeOK, TypeOK', TimerInv, [Next]_vars
  PROVE  \E l, m \in 0 .. 100 :
           /\ l = Cardinality(Late) /\ m = Cardinality(Late)'
           /\ l = 0 <=> Late = {}
           /\ m = 0 <=> Late' = {}
           /\ Tick => l = 0
           /\ ~Tick => m <= l
           /\ Timeout /\ l # 0 => m < l
<1>0. /\ DOMAIN waiting = Range(timeouts) /\ Range(timeouts) \subseteq Actions
      /\ \A a \in Range(timeouts) : waiting[a] = left[a] /\ waiting[a] \in Int
      /\ (DOMAIN waiting)' = Range(timeouts') /\ Range(timeouts') \subseteq Actions
  BY WaitingFacts, WaitingFactsNext
<1>1. \A S \in SUBSET Actions :
        IsFiniteSet(S) /\ Cardinality(S) \in 0 .. 100 /\ (Cardinality(S) = 0 <=> S = {})
  <2> TAKE S \in SUBSET Actions
  <2>1. IsFiniteSet(S) /\ Cardinality(S) <= Cardinality(Actions)
    BY FS_Subset DEF Few
  <2>2. PICK m \in Nat, n \in Nat : m = Cardinality(Actions) /\ n = Cardinality(S)
    BY <2>1, FS_CardinalityType DEF Few
  <2>3. n <= m /\ m <= 100
    BY <2>1, <2>2 DEF Few
  <2>4. Cardinality(S) \in 0 .. 100
    BY <2>1, <2>2, <2>3
  <2> QED BY <2>1, <2>4, FS_EmptySet
<1>2. Late \in SUBSET Actions /\ Late' \in SUBSET Actions
  BY <1>0 DEF Late
<1>3. PICK l \in 0 .. 100, m \in 0 .. 100 :
        /\ l = Cardinality(Late) /\ m = Cardinality(Late')
        /\ l = 0 <=> Late = {}
        /\ m = 0 <=> Late' = {}
  BY <1>1, <1>2
<1>4. Tick => l = 0
  BY <1>3, TimelyIsNoneLate DEF Tick, Timely
<1>5. Late' \subseteq Late => m <= l /\ (Late' # Late => m < l)
  <2> SUFFICES ASSUME Late' \subseteq Late PROVE m <= l /\ (Late' # Late => m < l)
    OBVIOUS
  <2>1. /\ Cardinality(Late') <= Cardinality(Late)
        /\ Cardinality(Late) = Cardinality(Late') => Late = Late'
    BY <1>1, <1>2, FS_Subset
  <2> QED BY <1>3, <2>1
<1>6. CASE UNCHANGED timers /\ ~(Timeout /\ pc' = "call")
  <2>1. Late' = Late
    BY <1>6, SameWaiting DEF Late
  <2>2. Timeout => Late = {}
    <3> SUFFICES ASSUME Timeout, NEW a \in Late PROVE FALSE
      OBVIOUS
    <3>1. ~(timeouts # <<>> /\ Due(Head(timeouts)))
      BY <1>6 DEF Timeout
    <3>2. PICK i \in 1 .. Len(timeouts) : timeouts[i] = a
      <4>1. a \in Range(timeouts)
        BY <1>0 DEF Late
      <4>2. timeouts \in Seq(Actions)
        BY DEF TypeOK
      <4> QED BY <4>1, <4>2, RangeIsElements
    <3>3. timeouts \in Seq(Actions) /\ left \in [Actions -> Int] /\ Ascends(timeouts, left)
      BY DEF TypeOK, TimerInv
    <3>4. timeouts # <<>> /\ Head(timeouts) = timeouts[1] /\ 1 \in 1 .. Len(timeouts) /\ 1 <= i
      BY <3>2, <3>3, HeadTailProperties, LenProperties, EmptySeq
    <3>5. left[timeouts[1]] <= left[timeouts[i]]
      BY <3>2, <3>3, <3>4 DEF Ascends
    <3>6. left[timeouts[i]] <= - MaxLate
      BY <1>0, <3>2 DEF Late
    <3>7. left[timeouts[1]] \in Int /\ left[timeouts[i]] \in Int
      BY <3>2, <3>3, <3>4
    <3>8. left[Head(timeouts)] <= 0
      BY <3>4, <3>5, <3>6, <3>7, LateAssumption
    <3> QED BY <3>1, <3>4, <3>8 DEF Due
  <2> QED BY <1>3, <1>4, <1>5, <2>1, <2>2
<1>7. CASE /\ pc = "call" /\ UNCHANGED <<pc, back, until, revents, bufs, job, rx>>
           /\ \E a \in Actions :
                /\ a \notin DOMAIN waiting
                /\ waiting' = [b \in DOMAIN waiting \cup {a} |->
                                 IF b = a THEN Delay[a] ELSE waiting[b]]
  <2>1. \A a \in Actions : ~(Delay[a] <= - MaxLate)
    BY DelayAssumption, LateAssumption
  <2>2. Late' \subseteq Late
    BY <1>7, <2>1 DEF Late
  <2>3. ~Timeout
    BY <1>7 DEF Timeout
  <2> QED BY <1>3, <1>4, <1>5, <2>2, <2>3
<1>8. CASE /\ pc = "call" /\ UNCHANGED <<pc, back, until, revents, bufs, job, rx>>
           /\ \E a \in DOMAIN waiting : waiting' = [b \in DOMAIN waiting \ {a} |-> waiting[b]]
  <2>1. Late' \subseteq Late
    BY <1>8 DEF Late
  <2>2. ~Timeout
    BY <1>8 DEF Timeout
  <2> QED BY <1>3, <1>4, <1>5, <2>1, <2>2
<1>9. CASE /\ Timeout /\ pc' = "call"
           /\ \E a \in DOMAIN waiting :
                /\ \A b \in DOMAIN waiting : waiting[a] <= waiting[b]
                /\ waiting' = [b \in DOMAIN waiting \ {a} |-> waiting[b]]
  <2>1. PICK a \in DOMAIN waiting :
          /\ \A b \in DOMAIN waiting : waiting[a] <= waiting[b]
          /\ waiting' = [b \in DOMAIN waiting \ {a} |-> waiting[b]]
    BY <1>9
  <2>2. Late' = Late \ {a}
    BY <2>1 DEF Late
  <2>3. Late # {} => a \in Late
    <3> SUFFICES ASSUME NEW b \in Late PROVE a \in Late
      OBVIOUS
    <3>1. waiting[a] <= waiting[b] /\ waiting[b] <= - MaxLate
      BY <2>1 DEF Late
    <3>2. waiting[a] \in Int /\ waiting[b] \in Int
      BY <1>0, <2>1 DEF Late
    <3> QED BY <2>1, <3>1, <3>2, LateAssumption DEF Late
  <2> QED BY <1>3, <1>4, <1>5, <2>2, <2>3
<1>10. CASE Tick
  <2>1. ~Timeout
    BY <1>10 DEF Tick, Timeout
  <2> QED BY <1>3, <1>4, <1>10, <2>1
<1> QED BY <1>6, <1>7, <1>8, <1>9, <1>10, WaitingSteps

LEMMA LeftMoves ==
  ASSUME TypeOK, TypeOK', TimerInv, LeftInv, LeftInv', [Next]_vars,
         NEW a, a \in DOMAIN waiting, a \in DOMAIN waiting'
  PROVE  \E x, y \in Nat :
           /\ x = waiting[a] + MaxLate /\ y = waiting'[a] + MaxLate
           /\ IF Tick THEN y = x - 1 ELSE y = x
<1>0. /\ DOMAIN waiting = Range(timeouts) /\ Range(timeouts) \subseteq Actions
      /\ waiting[a] = left[a] /\ waiting[a] \in Int
      /\ waiting'[a] = left'[a] /\ waiting'[a] \in Int
  BY WaitingFacts, WaitingFactsNext
<1>1. waiting[a] >= - MaxLate /\ waiting'[a] >= - MaxLate
  BY DEF LeftInv
<1>2. PICK x \in Nat, y \in Nat : x = waiting[a] + MaxLate /\ y = waiting'[a] + MaxLate
  <2>1. waiting[a] + MaxLate \in Nat
    BY <1>0, <1>1, LateAssumption
  <2>2. waiting'[a] + MaxLate \in Nat
    BY <1>0, <1>1, LateAssumption
  <2> QED BY <2>1, <2>2
<1>3. CASE Tick
  <2>1. left'[a] = left[a] - 1
    BY <1>0, <1>3 DEF Tick
  <2>2. y = x - 1
    BY <1>0, <1>2, <2>1, LateAssumption
  <2> QED BY <1>2, <1>3, <2>2
<1>4. CASE ~Tick
  <2>1. waiting'[a] = waiting[a]
    BY <1>4, WaitingSteps, SameWaiting
  <2> QED BY <1>2, <1>4, <2>1
<1> QED BY <1>3, <1>4

-------------------------------------------------------------------------------
\* What somebody waits for: that event or action of is dispatched, or the console read.
Reading == pc = "call" /\ back = "round"

Done(kind, of) ==
  CASE kind = "event" -> of \notin Range(bufs)
    [] kind = "action" -> of \notin DOMAIN waiting
    [] kind = "console" -> Reading

Open(kind, of) == ~Done(kind, of) /\ (kind = "console" => rx > 0)

\* How far it is.
Rank(kind, of) ==
  CASE kind = "event" -> 20000 * Before(of) + 400 * ToEvent + Calls
    [] kind = "action" ->
         2000000 * (waiting[of] + MaxLate)
           + (IF Late = {} THEN 0 ELSE 10000 * Cardinality(Late) + 400 * ToTimeout + Calls)
    [] kind = "console" -> 400 * ToConsole + Calls

\* Who brings it nearer.
TimeMatters(kind) == kind = "action" /\ Late = {}
Helps(kind) == IF TimeMatters(kind) THEN Tick ELSE LoopStep \/ CallerStep

LEMMA EventRank ==
  ASSUME Few, LiveInv, LiveInv', [Next]_vars, NEW e \in Events, Open("event", e), Open("event", e)'
  PROVE  \E n, m \in Nat :
           /\ n = Rank("event", e) /\ m = Rank("event", e)'
           /\ m <= n /\ (Helps("event") => m < n)
<1>1. TypeOK /\ TypeOK' /\ LockInv /\ BufInv /\ BufInv'
  BY DEF LiveInv, IInv
<1>2. e \in Range(bufs) /\ e \in Range(bufs')
  BY DEF Open, Done
<1>3. bufs # <<>>
  BY <1>1, <1>2, RangeIsElements DEF TypeOK
<1>4. PICK p \in Nat, q \in Nat :
        /\ p = Before(e) /\ q = Before(e)'
        /\ IF ReadEvent /\ EVENT \in revents THEN q = p - 1 ELSE q = p
  BY <1>1, <1>2, BeforeMoves
<1>5. PICK t \in 0 .. 25, u \in 0 .. 25 :
        /\ t = ToEvent /\ u = ToEvent'
        /\ ~LoopStep => u <= t
        /\ LoopStep => u < t \/ (ReadEvent /\ EVENT \in revents)
  BY <1>1, <1>3, ToEventMoves
<1>6. PICK c \in 0 .. 302, d \in 0 .. 302 :
        /\ c = Calls /\ d = Calls' /\ d <= c + 3
        /\ ~(ReadEvent /\ EVENT \in revents /\ bufs # <<>>) => d <= c
        /\ CallerStep => d < c
  BY <1>1, CallsMoves
<1>7. PICK n \in Nat, m \in Nat :
        n = 20000 * p + 400 * t + c /\ m = 20000 * q + 400 * u + d
  OBVIOUS
<1>8. n = Rank("event", e) /\ m = Rank("event", e)'
  BY <1>4, <1>5, <1>6, <1>7 DEF Rank
<1>9. CASE ReadEvent /\ EVENT \in revents
  <2>1. q = p - 1 /\ d <= c + 3
    BY <1>4, <1>6, <1>9
  <2>2. m < n
    BY <1>7, <2>1
  <2> QED BY <1>8, <2>2
<1>10. CASE ~(ReadEvent /\ EVENT \in revents)
  <2>1. q = p /\ d <= c /\ (LoopStep => u < t) /\ (~LoopStep => u <= t)
    BY <1>4, <1>5, <1>6, <1>10
  <2>2. Helps("event") => LoopStep \/ CallerStep
    BY DEF Helps, TimeMatters
  <2>3. CASE LoopStep
    <3>1. m < n
      BY <1>7, <2>1, <2>3
    <3> QED BY <1>8, <3>1
  <2>4. CASE ~LoopStep
    <3>1. u <= t /\ (CallerStep => d < c)
      BY <1>6, <2>1, <2>4
    <3>2. m <= n /\ (d < c => m < n)
      BY <1>7, <2>1, <3>1
    <3> QED BY <1>8, <2>2, <2>4, <3>1, <3>2
  <2> QED BY <2>3, <2>4
<1> QED BY <1>9, <1>10

LEMMA ConsoleRank ==
  ASSUME Few, LiveInv, LiveInv', [Next]_vars, NEW o, Open("console", o), ~Done("console", o)'
  PROVE  /\ Open("console", o)'
         /\ \E n, m \in Nat :
              /\ n = Rank("console", o) /\ m = Rank("console", o)'
              /\ m <= n /\ (Helps("console") => m < n)
<1> USE DEF loop, poll, device, timers
<1>1. TypeOK /\ TypeOK' /\ LockInv
  BY DEF LiveInv, IInv
<1>2. rx > 0 /\ ~(pc' = "call" /\ back' = "round") /\ rx \in Nat /\ rx <= RxSize
  BY <1>1 DEF Open, Done, Reading, TypeOK
<1>3. rx' > 0
  <2>1. CASE ReadUart
    <3>1. ~(CONSOLE \in revents)
      BY <1>2, <2>1 DEF ReadUart
    <3> QED BY <1>2, <2>1, <3>1 DEF ReadUart
  <2>2. CASE UartIrq
    <3>1. PICK n \in 0 .. RxSize : rx' = (IF rx + n < RxSize THEN rx + n ELSE RxSize)
      BY <2>2 DEF UartIrq
    <3> QED BY <1>2, <3>1, SizeAssumption
  <2>3. CASE \/ Round \/ PollEvent \/ PollUart \/ CheckUart \/ Wake \/ UnpollEvent \/ UnpollUart
             \/ Free \/ Timeout \/ ReadEvent \/ Return
             \/ \E a \in Actions : PostDelayed(a) \/ CancelDelayed(a)
             \/ \E e \in Events : PostEvent(e)
             \/ \E k \in Callers, e \in Events, first \in BOOLEAN : Write(k, e, first)
             \/ \E k \in Callers : WriteNotify(k) \/ WriteUnlock(k)
             \/ Tick \/ UNCHANGED vars
    <3>1. rx' = rx
      BY <2>3 DEF Round, PollEvent, PollUart, CheckUart, Wake, UnpollEvent, UnpollUart, Free,
         Timeout, ReadEvent, Return, PostDelayed, CancelDelayed, PostEvent, Write, WriteNotify,
         WriteUnlock, Tick, vars
    <3> QED BY <1>2, <3>1
  <2> QED BY <2>1, <2>2, <2>3, Steps
<1>4. Open("console", o)'
  BY <1>3 DEF Open
<1>5. PICK t \in 0 .. 27, u \in 0 .. 27 :
        /\ t = ToConsole /\ u = ToConsole'
        /\ ~LoopStep => u <= t
        /\ LoopStep => u < t
  BY <1>1, <1>2, ToConsoleMoves
<1>6. PICK c \in 0 .. 302, d \in 0 .. 302 :
        /\ c = Calls /\ d = Calls' /\ d <= c + 3
        /\ ~ReadEvent => d <= c
        /\ CallerStep => d < c
  BY <1>1, CallsMoves
<1>7. PICK n \in Nat, m \in Nat : n = 400 * t + c /\ m = 400 * u + d
  OBVIOUS
<1>8. n = Rank("console", o) /\ m = Rank("console", o)'
  BY <1>5, <1>6, <1>7 DEF Rank
<1>9. Helps("console") => LoopStep \/ CallerStep
  BY DEF Helps, TimeMatters
<1>10. CASE LoopStep
  <2>1. u < t /\ d <= c + 3
    BY <1>5, <1>6, <1>10
  <2>2. m < n
    BY <1>7, <2>1
  <2> QED BY <1>4, <1>8, <2>2
<1>11. CASE ~LoopStep
  <2>1. ~ReadEvent
    BY <1>11 DEF LoopStep
  <2>2. u <= t /\ d <= c /\ (CallerStep => d < c)
    BY <1>5, <1>6, <1>11, <2>1
  <2>3. m <= n /\ (d < c => m < n)
    BY <1>7, <2>2
  <2> QED BY <1>4, <1>8, <1>9, <1>11, <2>2, <2>3
<1> QED BY <1>10, <1>11

LEMMA ActionRank ==
  ASSUME Few, LiveInv, LiveInv', [Next]_vars, NEW a \in Actions,
         Open("action", a), Open("action", a)'
  PROVE  \E n, m \in Nat :
           /\ n = Rank("action", a) /\ m = Rank("action", a)'
           /\ m <= n /\ (Helps("action") => m < n)
           /\ m = n => (TimeMatters("action")' <=> TimeMatters("action"))
<1>1. TypeOK /\ TypeOK' /\ LockInv /\ TimerInv /\ LeftInv /\ LeftInv'
  BY DEF LiveInv, IInv
<1>2. a \in DOMAIN waiting /\ a \in DOMAIN waiting'
  BY DEF Open, Done
<1>3. PICK x \in Nat, y \in Nat :
        /\ x = waiting[a] + MaxLate /\ y = waiting'[a] + MaxLate
        /\ IF Tick THEN y = x - 1 ELSE y = x
  BY <1>1, <1>2, LeftMoves
<1>4. PICK l \in 0 .. 100, k \in 0 .. 100 :
        /\ l = Cardinality(Late) /\ k = Cardinality(Late)'
        /\ l = 0 <=> Late = {}
        /\ k = 0 <=> Late' = {}
        /\ Tick => l = 0
        /\ ~Tick => k <= l
        /\ Timeout /\ l # 0 => k < l
  BY <1>1, LateMoves
<1>5. PICK t \in 0 .. 14, u \in 0 .. 14 :
        /\ t = ToTimeout /\ u = ToTimeout'
        /\ ~LoopStep => u <= t
        /\ LoopStep => u < t \/ Timeout
  BY <1>1, ToTimeoutMoves
<1>6. PICK c \in 0 .. 302, d \in 0 .. 302 :
        /\ c = Calls /\ d = Calls' /\ d <= c + 3
        /\ ~ReadEvent => d <= c
        /\ CallerStep => d < c
  BY <1>1, CallsMoves
<1>7. PICK i \in Nat, j \in Nat :
        /\ i = IF l = 0 THEN 0 ELSE 10000 * l + 400 * t + c
        /\ j = IF k = 0 THEN 0 ELSE 10000 * k + 400 * u + d
  OBVIOUS
<1>8. PICK n \in Nat, m \in Nat : n = 2000000 * x + i /\ m = 2000000 * y + j
  OBVIOUS
<1>9. n = Rank("action", a) /\ m = Rank("action", a)'
  <2>1. i = IF Late = {} THEN 0 ELSE 10000 * Cardinality(Late) + 400 * ToTimeout + Calls
    BY <1>4, <1>5, <1>6, <1>7
  <2>2. j = IF Late' = {} THEN 0 ELSE 10000 * Cardinality(Late)' + 400 * ToTimeout' + Calls'
    BY <1>4, <1>5, <1>6, <1>7
  <2> QED BY <1>3, <1>8, <2>1, <2>2 DEF Rank
<1>10. TimeMatters("action") <=> l = 0
  BY <1>4 DEF TimeMatters
<1>11. TimeMatters("action")' <=> k = 0
  BY <1>4 DEF TimeMatters
<1> DEFINE Goal == m <= n /\ (Helps("action") => m < n) /\ (m = n => (k = 0 <=> l = 0))
<1>12. ASSUME Tick PROVE Goal
  <2>1. y = x - 1
    BY <1>3, <1>12
  <2>2. j <= 1100000
    BY <1>7
  <2> QED BY <1>8, <2>1, <2>2
<1>13. ASSUME ~Tick, l = 0 PROVE Goal
  <2>1. y = x /\ k = 0 /\ i = 0 /\ j = 0
    BY <1>3, <1>4, <1>7, <1>13
  <2>2. ~Helps("action")
    BY <1>10, <1>13 DEF Helps
  <2> QED BY <1>8, <1>13, <2>1, <2>2
<1>14. ASSUME ~Tick, l # 0 PROVE Goal
  <2>1. y = x /\ k <= l /\ i = 10000 * l + 400 * t + c
    BY <1>3, <1>4, <1>7, <1>14
  <2>2. Helps("action") => LoopStep \/ CallerStep
    BY <1>10, <1>14 DEF Helps
  <2>3. CASE k = 0
    <3>1. j < i
      BY <1>7, <1>14, <2>1, <2>3
    <3> QED BY <1>8, <2>1, <3>1
  <2>4. CASE k # 0 /\ Timeout
    <3>1. k < l /\ j = 10000 * k + 400 * u + d
      BY <1>4, <1>7, <1>14, <2>4
    <3>2. j < i
      BY <2>1, <3>1
    <3> QED BY <1>8, <2>1, <3>2
  <2>5. CASE k # 0 /\ ~Timeout /\ LoopStep
    <3>1. u < t /\ d <= c + 3 /\ j = 10000 * k + 400 * u + d
      BY <1>5, <1>6, <1>7, <2>5
    <3>2. j < i
      BY <2>1, <3>1
    <3> QED BY <1>8, <2>1, <3>2
  <2>6. CASE k # 0 /\ ~LoopStep
    <3>1. ~ReadEvent
      BY <2>6 DEF LoopStep
    <3>2. u <= t /\ d <= c /\ (CallerStep => d < c) /\ j = 10000 * k + 400 * u + d
      BY <1>5, <1>6, <1>7, <2>6, <3>1
    <3>3. j <= i /\ (CallerStep => j < i)
      BY <2>1, <3>2
    <3> QED BY <1>8, <1>14, <2>1, <2>2, <2>6, <3>3
  <2> QED BY <2>3, <2>4, <2>5, <2>6
<1>15. Goal
  BY <1>12, <1>13, <1>14
<1>16. m = n => (TimeMatters("action")' <=> TimeMatters("action"))
  BY <1>10, <1>11, <1>15
<1> HIDE DEF Goal
<1> QED BY <1>9, <1>15, <1>16 DEF Goal

-------------------------------------------------------------------------------
Wanted(kind, of) ==
  \/ kind = "event" /\ of \in Events
  \/ kind = "action" /\ of \in Actions
  \/ kind = "console"

LEMMA RankTyped ==
  ASSUME Few, LiveInv, NEW kind, NEW of, Wanted(kind, of), Open(kind, of)
  PROVE  \E n \in Nat : n = Rank(kind, of) /\ n < 4503599627370496
<1>1. TypeOK /\ BufInv /\ LeftInv
  BY DEF LiveInv, IInv
<1>2. PICK c \in Nat : c = Calls /\ c <= 302
  <2>1. IsFiniteSet(Unqueued) /\ Cardinality(Unqueued) <= Cardinality(Events)
    BY FS_Subset DEF Few, Unqueued
  <2>2. PICK x \in Nat, y \in Nat : x = Cardinality(Events) /\ y = Cardinality(Unqueued)
    BY <2>1, FS_CardinalityType DEF Few
  <2>3. y <= x /\ x <= 100
    BY <2>1, <2>2 DEF Few
  <2>4. PICK h \in 0 .. 2 : h = Hold
    BY DEF Hold
  <2>5. PICK d \in Nat : d = 3 * y + h
    OBVIOUS
  <2>6. d = Calls
    BY <2>2, <2>4, <2>5 DEF Calls
  <2>7. d <= 302
    BY <2>3, <2>5
  <2> QED BY <2>6, <2>7
<1>3. PICK p \in 0 .. 13 : p = Place
  <2>1. /\ pc \in {"round", "event", "uart", "check", "wait", "unevent", "unuart", "free",
                   "timeout", "readevent", "readuart", "call"}
        /\ back \in {"round", "readevent", "readuart"}
    BY <1>1 DEF TypeOK
  <2>2. Place \in 0 .. 13
    BY <2>1 DEF Place
  <2> QED BY <2>2
<1>4. CASE kind = "event"
  <2>1. bufs \in Seq(Events) /\ Distinct(bufs) /\ of \in Events /\ of \in Range(bufs)
    BY <1>1, <1>4 DEF TypeOK, BufInv, Wanted, Open, Done
  <2>2. PICK i \in 1 .. Len(bufs) : bufs[i] = of
    BY <2>1, RangeIsElements
  <2>3. PlaceIn(bufs, of) = i
    BY <2>1, <2>2, PlaceFacts
  <2>4. PICK m \in Nat, u \in Nat : m = MaxUrgent /\ u = urgent /\ u <= m /\ m <= 100
    BY <1>1, UrgentAssumption DEF TypeOK, BufInv, Few
  <2>5. PICK x \in Nat, l \in Nat : x = Cardinality(Events) /\ l = Len(bufs)
    BY <2>1, FS_CardinalityType DEF Few
  <2>6. l <= x /\ x <= 100
    <3>1. Len(bufs) <= Cardinality(Events)
      BY <2>1, DistinctShort DEF Few, Distinct
    <3> QED BY <2>5, <3>1 DEF Few
  <2>7. i \in Nat /\ i <= 100
    BY <2>5, <2>6
  <2>8. PICK b \in Nat : b = i + (m - u) /\ b <= 200
    <3>1. i + (m - u) \in Nat /\ i + (m - u) <= 200
      BY <2>4, <2>7
    <3> QED BY <3>1
  <2>9. b = Before(of)
    BY <2>3, <2>4, <2>8 DEF Before
  <2>10. PICK t \in 0 .. 25 : t = ToEvent
    <3>1. PICK t \in 0 .. 25 :
            t = IF p <= 1 \/ (EVENT \in revents /\ p <= 10) THEN 11 - p ELSE 25 - p
      OBVIOUS
    <3> QED BY <1>3, <3>1 DEF ToEvent
  <2>11. PICK n \in Nat : n = 20000 * b + 400 * t + c
    OBVIOUS
  <2>12. n = Rank(kind, of)
    BY <1>2, <1>4, <2>9, <2>10, <2>11 DEF Rank
  <2>13. n < 4503599627370496
    BY <1>2, <2>8, <2>11
  <2> QED BY <2>12, <2>13
<1>5. CASE kind = "console"
  <2>1. PICK t \in 0 .. 27 : t = ToConsole
    <3>1. PICK t \in 0 .. 27 :
            t = IF p <= 3 \/ (CONSOLE \in revents /\ p <= 12) THEN 13 - p ELSE 27 - p
      OBVIOUS
    <3> QED BY <1>3, <3>1 DEF ToConsole
  <2>2. PICK n \in Nat : n = 400 * t + c
    OBVIOUS
  <2>3. n = Rank(kind, of)
    BY <1>2, <1>5, <2>1, <2>2 DEF Rank
  <2>4. n < 4503599627370496
    BY <1>2, <2>2
  <2> QED BY <2>3, <2>4
<1>6. CASE kind = "action"
  <2>1. of \in Actions /\ of \in DOMAIN waiting
    BY <1>6 DEF Wanted, Open, Done
  <2>2. waiting[of] \in Int /\ waiting[of] >= - MaxLate /\ waiting[of] <= Delay[of]
    BY <1>1, <2>1, WaitingFacts DEF LeftInv
  <2>3. Delay[of] \in Nat /\ Delay[of] <= 2147483647 /\ MaxLate <= 100
    BY <2>1, DelayAssumption DEF Few
  <2>4. PICK x \in Nat : x = waiting[of] + MaxLate /\ x <= 2147483747
    <3>1. waiting[of] + MaxLate \in Nat /\ waiting[of] + MaxLate <= 2147483747
      BY <2>2, <2>3, LateAssumption
    <3> QED BY <3>1
  <2>5. PICK l \in Nat : l = Cardinality(Late) /\ l <= 100
    <3>1. Late \subseteq Actions
      BY <1>1, WaitingFacts DEF Late
    <3>2. IsFiniteSet(Late) /\ Cardinality(Late) <= Cardinality(Actions)
      BY <3>1, FS_Subset DEF Few
    <3>3. PICK y \in Nat, l \in Nat : y = Cardinality(Actions) /\ l = Cardinality(Late)
      BY <3>2, FS_CardinalityType DEF Few
    <3>4. l <= y /\ y <= 100
      BY <3>2, <3>3 DEF Few
    <3>5. l <= 100
      BY <3>4
    <3> QED BY <3>3, <3>5
  <2>6. PICK t \in 0 .. 14 : t = ToTimeout
    <3>1. PICK t \in 0 .. 14 : t = IF p <= 8 THEN 9 - p ELSE 23 - p
      OBVIOUS
    <3> QED BY <1>3, <3>1 DEF ToTimeout
  <2>7. PICK i \in Nat : i = IF Late = {} THEN 0 ELSE 10000 * l + 400 * t + c
    <3>1. 10000 * l + 400 * t + c \in Nat
      OBVIOUS
    <3> QED BY <3>1
  <2>8. PICK n \in Nat : n = 2000000 * x + i
    OBVIOUS
  <2>9. n = Rank(kind, of)
    <3>1. i = IF Late = {} THEN 0 ELSE 10000 * Cardinality(Late) + 400 * ToTimeout + Calls
      BY <1>2, <2>5, <2>6, <2>7
    <3> QED BY <1>6, <2>4, <2>8, <3>1 DEF Rank
  <2>10. i <= 1100000
    BY <1>2, <2>5, <2>7
  <2>11. n < 4503599627370496
    BY <2>4, <2>8, <2>10
  <2> QED BY <2>9, <2>11
<1> QED BY <1>4, <1>5, <1>6 DEF Wanted

At(kind, of, n) == Open(kind, of) /\ Rank(kind, of) = n
Below(kind, of, n) == Done(kind, of) \/ (Open(kind, of) /\ Rank(kind, of) < n)

LEMMA AtMoves ==
  ASSUME Few, LiveInv, LiveInv', [Next]_vars, NEW kind, NEW of, Wanted(kind, of), NEW n,
         At(kind, of, n)
  PROVE  /\ \/ At(kind, of, n)' /\ (TimeMatters(kind)' <=> TimeMatters(kind))
            \/ Below(kind, of, n)'
         /\ Helps(kind) => Below(kind, of, n)'
<1>1. CASE Done(kind, of)'
  BY <1>1 DEF Below
<1>2. CASE ~Done(kind, of)'
  <2>1. Open(kind, of) /\ Rank(kind, of) = n
    BY DEF At
  <2>2. Open(kind, of)'
    BY <1>2, <2>1, ConsoleRank DEF Open, Wanted
  <2>3. kind # "action" => ~TimeMatters(kind) /\ ~TimeMatters(kind)'
    BY DEF TimeMatters
  <2>4. \E x, y \in Nat :
          /\ x = Rank(kind, of) /\ y = Rank(kind, of)'
          /\ y <= x /\ (Helps(kind) => y < x)
          /\ y = x => (TimeMatters(kind)' <=> TimeMatters(kind))
    <3>1. CASE kind = "event"
      BY <2>1, <2>2, <2>3, <3>1, EventRank DEF Wanted
    <3>2. CASE kind = "console"
      BY <1>2, <2>1, <2>3, <3>2, ConsoleRank
    <3>3. CASE kind = "action"
      BY <2>1, <2>2, <3>3, ActionRank DEF Wanted
    <3> QED BY <3>1, <3>2, <3>3 DEF Wanted
  <2>5. PICK x \in Nat, y \in Nat :
          /\ x = Rank(kind, of) /\ y = Rank(kind, of)'
          /\ y <= x /\ (Helps(kind) => y < x)
          /\ y = x => (TimeMatters(kind)' <=> TimeMatters(kind))
    BY <2>4
  <2>6. y < x => Below(kind, of, n)'
    BY <2>1, <2>2, <2>5 DEF Below
  <2>7. y = x => At(kind, of, n)'
    BY <2>1, <2>2, <2>5 DEF At
  <2> QED BY <2>5, <2>6, <2>7
<1> QED BY <1>1, <1>2

\* Nobody but the loop and the callers takes away what they go on with.
LEMMA ReadyKept ==
  ASSUME TypeOK, [Next]_vars, ~LoopStep, ~CallerStep
  PROVE  UNCHANGED <<pc, job>> /\ (LoopReady => LoopReady')
<1> USE DEF loop, poll, device, timers
<1>1. UNCHANGED <<pc, job>> /\ (sem = "given" => sem' = "given") /\ (0 \in until => 0 \in until')
  <2>1. \A a \in Actions : PostDelayed(a) \/ CancelDelayed(a) => UNCHANGED <<pc, job, sem, until>>
    BY DEF PostDelayed, CancelDelayed
  <2>2. \A e \in Events : PostEvent(e)
          => UNCHANGED <<pc, job, until>> /\ (sem = "given" => sem' = "given")
    BY DEF PostEvent, Notify
  <2>3. UartIrq => UNCHANGED <<pc, job, until>> /\ (sem = "given" => sem' = "given")
    BY DEF UartIrq, Notify
  <2>4. Tick => UNCHANGED <<pc, job, sem>> /\ (0 \in until => 0 \in until')
    BY DEF Tick
  <2>5. UNCHANGED vars => UNCHANGED <<pc, job, sem, until>>
    BY DEF vars
  <2> QED BY <2>1, <2>2, <2>3, <2>4, <2>5, Steps DEF LoopStep, CallerStep
<1> QED BY <1>1 DEF LoopReady, Locked

\* While somebody waits, the loop does not sleep over it, unless for a caller.
LEMMA SomebodyGoesOn ==
  ASSUME LiveInv, NEW kind, NEW of, Wanted(kind, of), Open(kind, of), ~TimeMatters(kind)
  PROVE  LoopReady \/ \E k \in Callers : job[k] # "idle"
<1> SUFFICES ASSUME ~Locked PROVE LoopReady
  BY DEF Locked
<1> SUFFICES ASSUME pc = "wait" PROVE sem = "given" \/ 0 \in until
  BY DEF LoopReady
<1>1. TypeOK /\ HookInv /\ PollInv /\ UntilInv
  BY DEF LiveInv, IInv
<1>2. \A k \in Callers : job[k] # "notify"
  BY DEF Locked
<1>3. EVENT \in hooked /\ CONSOLE \in hooked
  BY <1>1 DEF HookInv
<1>4. CASE kind = "event"
  <2>1. of \in Range(bufs) /\ bufs \in Seq(Events)
    BY <1>1, <1>4 DEF Open, Done, TypeOK
  <2>2. bufs # <<>>
    BY <2>1, RangeIsElements
  <2> QED BY <1>1, <1>2, <1>3, <2>2 DEF PollInv
<1>5. CASE kind = "console"
  <2>1. rx > 0
    BY <1>5 DEF Open
  <2> QED BY <1>1, <1>3, <2>1 DEF PollInv
<1>6. CASE kind = "action"
  <2>1. PICK a \in Late : TRUE
    BY <1>6 DEF TimeMatters
  <2>2. /\ timeouts \in Seq(Actions) /\ left \in [Actions -> Int] /\ Ascends(timeouts, left)
        /\ a \in Range(timeouts) /\ left[a] <= - MaxLate
    BY <1>1, WaitingFacts DEF LiveInv, IInv, TypeOK, TimerInv, Late
  <2>3. PICK i \in 1 .. Len(timeouts) : timeouts[i] = a
    BY <2>2, RangeIsElements
  <2>4. timeouts # <<>> /\ Head(timeouts) = timeouts[1] /\ 1 \in 1 .. Len(timeouts) /\ 1 <= i
    BY <2>2, <2>3, HeadTailProperties, LenProperties, EmptySeq
  <2>5. left[timeouts[1]] <= left[timeouts[i]]
    BY <2>2, <2>3, <2>4 DEF Ascends
  <2>6. left[timeouts[1]] \in Int /\ left[timeouts[i]] \in Int
    BY <2>2, <2>3, <2>4
  <2>7. left[Head(timeouts)] <= 0
    BY <2>2, <2>3, <2>4, <2>5, <2>6, LateAssumption
  <2>8. until = {0}
    BY <1>1, <2>4, <2>7 DEF UntilInv, Due
  <2> QED BY <2>8
<1> QED BY <1>4, <1>5, <1>6 DEF Wanted

Awake == [][Next]_vars /\ []LiveInv /\ []LoopCanStep /\ []Fairness

\* The loop goes on.
LEMMA LoopInTheEnd ==
  ASSUME Few, NEW kind, NEW of, Wanted(kind, of), NEW n
  PROVE  Awake => (At(kind, of, n) /\ ~TimeMatters(kind) /\ LoopReady => <>Below(kind, of, n))
<1> DEFINE R == At(kind, of, n) /\ ~TimeMatters(kind) /\ LoopReady
<1>1. LiveInv /\ LiveInv' /\ R /\ [Next]_vars => R' \/ Below(kind, of, n)'
  <2> SUFFICES ASSUME LiveInv, LiveInv', R, [Next]_vars, ~Below(kind, of, n)'
               PROVE  R'
    OBVIOUS
  <2>1. At(kind, of, n)' /\ ~TimeMatters(kind)' /\ ~LoopStep /\ ~CallerStep
    BY AtMoves DEF Helps
  <2>2. LoopReady'
    BY <2>1, ReadyKept DEF LiveInv, IInv
  <2> QED BY <2>1, <2>2
<1>2. LiveInv /\ LiveInv' /\ R /\ [Next]_vars /\ <<LoopStep>>_vars => Below(kind, of, n)'
  BY AtMoves DEF Helps
<1>3. LoopCanStep /\ R => ENABLED <<LoopStep>>_vars
  BY DEF LoopCanStep
<1>4. Fairness => LoopFair
  BY DEF Fairness
<1> QED BY <1>1, <1>2, <1>3, <1>4, PTL DEF Awake, LoopFair

\* A caller gives the mutex back.
LEMMA CallerInTheEnd ==
  ASSUME Few, NEW kind, NEW of, Wanted(kind, of), NEW n, NEW k \in Callers
  PROVE  Awake => (At(kind, of, n) /\ ~TimeMatters(kind) /\ job[k] # "idle"
                     => <>Below(kind, of, n))
<1> DEFINE R == At(kind, of, n) /\ ~TimeMatters(kind) /\ job[k] # "idle"
<1>1. LiveInv /\ LiveInv' /\ R /\ [Next]_vars => R' \/ Below(kind, of, n)'
  <2> SUFFICES ASSUME LiveInv, LiveInv', R, [Next]_vars, ~Below(kind, of, n)'
               PROVE  R'
    OBVIOUS
  <2>1. At(kind, of, n)' /\ ~TimeMatters(kind)' /\ ~LoopStep /\ ~CallerStep
    BY AtMoves DEF Helps
  <2>2. job' = job
    BY <2>1, ReadyKept DEF LiveInv, IInv
  <2> QED BY <2>1, <2>2
<1>2. /\ LiveInv /\ LiveInv' /\ R /\ [Next]_vars /\ <<WriteNotify(k) \/ WriteUnlock(k)>>_vars
      => Below(kind, of, n)'
  BY AtMoves DEF Helps, CallerStep
<1>3. LoopCanStep /\ R => CanUnlock(k)
  BY DEF LoopCanStep
<1>4. Fairness => CallerFair(k)
  BY DEF Fairness
<1> QED BY <1>1, <1>2, <1>3, <1>4, PTL DEF Awake, CallerFair, CanUnlock

\* Time passes until an action is due.
LEMMA TimeInTheEnd ==
  ASSUME Few, NEW kind, NEW of, Wanted(kind, of), NEW n
  PROVE  Awake => (At(kind, of, n) /\ TimeMatters(kind) => <>Below(kind, of, n))
<1> DEFINE R == At(kind, of, n) /\ TimeMatters(kind)
<1>1. LiveInv /\ LiveInv' /\ R /\ [Next]_vars => R' \/ Below(kind, of, n)'
  BY AtMoves
<1>2. LiveInv /\ LiveInv' /\ R /\ [Next]_vars /\ <<Tick>>_vars => Below(kind, of, n)'
  BY AtMoves DEF Helps
<1>3. LiveInv /\ LoopCanStep /\ R => ENABLED <<Tick>>_vars
  <2> SUFFICES ASSUME LiveInv, LoopCanStep, R PROVE ENABLED <<Tick>>_vars
    OBVIOUS
  <2>1. TypeOK
    BY DEF LiveInv, IInv
  <2>2. Timely
    BY <2>1, TimelyIsNoneLate DEF TimeMatters
  <2>3. of \in Range(timeouts)
    BY <2>1, WaitingFacts DEF TimeMatters, At, Open, Done
  <2>4. timeouts # <<>>
    BY <2>3 DEF Range
  <2> QED BY <2>2, <2>4 DEF LoopCanStep
<1>4. Fairness => TimeFair
  BY DEF Fairness
<1> QED BY <1>1, <1>2, <1>3, <1>4, PTL DEF Awake, TimeFair

\* Whoever's turn it is, what is waited for comes nearer.
LEMMA Nearer ==
  ASSUME Few, NEW kind, NEW of, Wanted(kind, of), NEW n \in Nat
  PROVE  Awake => (LiveInv /\ Below(kind, of, n + 1) => <>Below(kind, of, n))
<1>1. LiveInv /\ Below(kind, of, n + 1) =>
        \/ Below(kind, of, n)
        \/ At(kind, of, n) /\ TimeMatters(kind)
        \/ At(kind, of, n) /\ ~TimeMatters(kind) /\ LoopReady
        \/ \E k \in Callers : At(kind, of, n) /\ ~TimeMatters(kind) /\ job[k] # "idle"
  <2> SUFFICES ASSUME LiveInv, Below(kind, of, n + 1), ~Below(kind, of, n)
               PROVE  /\ At(kind, of, n)
                      /\ ~TimeMatters(kind) => LoopReady \/ \E k \in Callers : job[k] # "idle"
    OBVIOUS
  <2>1. Open(kind, of)
    BY DEF Below
  <2>2. PICK x \in Nat : x = Rank(kind, of)
    BY <2>1, RankTyped
  <2>3. x < n + 1 /\ ~(x < n)
    BY <2>1, <2>2 DEF Below
  <2>4. At(kind, of, n)
    BY <2>1, <2>2, <2>3 DEF At
  <2> QED BY <2>1, <2>4, SomebodyGoesOn
<1>2. Awake => (Below(kind, of, n) => <>Below(kind, of, n))
  BY PTL
<1>3. Awake =>
        ((\/ Below(kind, of, n)
          \/ At(kind, of, n) /\ TimeMatters(kind)
          \/ At(kind, of, n) /\ ~TimeMatters(kind) /\ LoopReady
          \/ \E k \in Callers : At(kind, of, n) /\ ~TimeMatters(kind) /\ job[k] # "idle")
         => <>Below(kind, of, n))
  BY <1>2, LoopInTheEnd, CallerInTheEnd, TimeInTheEnd
<1> QED BY <1>1, <1>3

Drops(kind, of, m, n) == Below(kind, of, m) ~> Below(kind, of, n)

\* Some falls after each other.
DropsBy(kind, of, m) == \A n \in Nat : Awake => Drops(kind, of, n + m, n)

LEMMA DropsByOne ==
  ASSUME Few, NEW kind, NEW of, Wanted(kind, of)
  PROVE  DropsBy(kind, of, 1)
<1> SUFFICES ASSUME NEW n \in Nat PROVE Awake => Drops(kind, of, n + 1, n)
  BY DEF DropsBy
<1>1. Awake => (LiveInv /\ Below(kind, of, n + 1) => <>Below(kind, of, n))
  BY Nearer
<1> QED BY <1>1, PTL DEF Awake, Drops

\* Twice as many of them, and sixteen times.
LEMMA DropsDouble ==
  ASSUME NEW kind, NEW of, NEW m \in Nat, DropsBy(kind, of, m)
  PROVE  DropsBy(kind, of, m + m)
<1> SUFFICES ASSUME NEW n \in Nat PROVE Awake => Drops(kind, of, n + (m + m), n)
  BY DEF DropsBy
<1>1. n + m \in Nat /\ (n + m) + m = n + (m + m)
  OBVIOUS
<1>2. Awake => Drops(kind, of, n + m, n)
  BY DEF DropsBy
<1>3. Awake => Drops(kind, of, (n + m) + m, n + m)
  BY <1>1 DEF DropsBy
<1>4. Awake => Drops(kind, of, (n + m) + m, n)
  BY <1>2, <1>3, PTL DEF Drops
<1> QED BY <1>1, <1>4

LEMMA DropsSixteenfold ==
  ASSUME NEW kind, NEW of, NEW m \in Nat, NEW n \in Nat, n = 16 * m, DropsBy(kind, of, m)
  PROVE  DropsBy(kind, of, n)
<1>1. DropsBy(kind, of, m + m)
  BY DropsDouble
<1>2. DropsBy(kind, of, (m + m) + (m + m))
  BY <1>1, m + m \in Nat, DropsDouble
<1> DEFINE f == (m + m) + (m + m)
<1>3. f \in Nat /\ f + f \in Nat /\ (f + f) + (f + f) = n
  OBVIOUS
<1> HIDE DEF f
<1>4. DropsBy(kind, of, f + f)
  BY <1>2, <1>3, DropsDouble DEF f
<1>5. DropsBy(kind, of, (f + f) + (f + f))
  BY <1>3, <1>4, DropsDouble
<1> QED BY <1>3, <1>5

InTheEnd(kind, of) == Open(kind, of) ~> Done(kind, of)

\* From whatever is still to do.
LEMMA DoneInTheEnd ==
  ASSUME Few, NEW kind, NEW of, Wanted(kind, of)
  PROVE  Awake => InTheEnd(kind, of)
<1>0. DropsBy(kind, of, 1)
  BY DropsByOne
<1>1. DropsBy(kind, of, 16)
  BY <1>0, 16 = 16 * 1, DropsSixteenfold
<1>2. DropsBy(kind, of, 256)
  BY <1>1, 256 = 16 * 16, DropsSixteenfold
<1>3. DropsBy(kind, of, 4096)
  BY <1>2, 4096 = 16 * 256, DropsSixteenfold
<1>4. DropsBy(kind, of, 65536)
  BY <1>3, 65536 = 16 * 4096, DropsSixteenfold
<1>5. DropsBy(kind, of, 1048576)
  BY <1>4, 1048576 = 16 * 65536, DropsSixteenfold
<1>6. DropsBy(kind, of, 16777216)
  BY <1>5, 16777216 = 16 * 1048576, DropsSixteenfold
<1>7. DropsBy(kind, of, 268435456)
  BY <1>6, 268435456 = 16 * 16777216, DropsSixteenfold
<1>8. DropsBy(kind, of, 4294967296)
  BY <1>7, 4294967296 = 16 * 268435456, DropsSixteenfold
<1>9. DropsBy(kind, of, 68719476736)
  BY <1>8, 68719476736 = 16 * 4294967296, DropsSixteenfold
<1>10. DropsBy(kind, of, 1099511627776)
  BY <1>9, 1099511627776 = 16 * 68719476736, DropsSixteenfold
<1>11. DropsBy(kind, of, 17592186044416)
  BY <1>10, 17592186044416 = 16 * 1099511627776, DropsSixteenfold
<1>12. DropsBy(kind, of, 281474976710656)
  BY <1>11, 281474976710656 = 16 * 17592186044416, DropsSixteenfold
<1>13. DropsBy(kind, of, 4503599627370496)
  BY <1>12, 4503599627370496 = 16 * 281474976710656, DropsSixteenfold
<1>14. Awake => Drops(kind, of, 0 + 4503599627370496, 0)
  BY <1>13 DEF DropsBy
<1>15. LiveInv /\ Open(kind, of) => Below(kind, of, 0 + 4503599627370496)
  <2> SUFFICES ASSUME LiveInv, Open(kind, of) PROVE Below(kind, of, 0 + 4503599627370496)
    OBVIOUS
  <2>1. PICK n \in Nat : n = Rank(kind, of) /\ n < 4503599627370496
    BY RankTyped
  <2>2. n < 0 + 4503599627370496
    BY <2>1
  <2> QED BY <2>1, <2>2 DEF Below
<1>16. LiveInv /\ Below(kind, of, 0) => Done(kind, of)
  <2> SUFFICES ASSUME LiveInv, Open(kind, of), Rank(kind, of) < 0 PROVE FALSE
    BY DEF Below
  <2>1. PICK n \in Nat : n = Rank(kind, of)
    BY RankTyped
  <2> QED BY <2>1
<1> QED BY <1>14, <1>15, <1>16, PTL DEF Awake, Drops, InTheEnd

\* Whatever the others do, an event is dispatched, a delayed action called or cancelled and the
\* console read (yloop.c:227-289): the loop looks at one action and reads one event a round,
\* but what can come before each of them is bounded, and every step of the loop and of a caller
\* that has the mutex, or time itself, uses some of it up.
THEOREM NoneStarves ==
  Few => (Spec /\ []Fairness /\ []LoopCanStep => Dispatched)
<1> SUFFICES ASSUME Few
             PROVE  Spec /\ []Fairness /\ []LoopCanStep => Dispatched
  OBVIOUS
<1>1. Spec /\ []Fairness /\ []LoopCanStep => Awake
  BY LiveInvariance, PTL DEF Spec, Awake
<1>2. ASSUME NEW e \in Events
      PROVE  Awake => (e \in Range(bufs) ~> e \notin Range(bufs))
  <2>0. Wanted("event", e)
    BY DEF Wanted
  <2>1. Awake => InTheEnd("event", e)
    BY <2>0, DoneInTheEnd
  <2>2. e \in Range(bufs) => Open("event", e)
    BY DEF Open, Done
  <2>3. Done("event", e) => e \notin Range(bufs)
    BY DEF Done
  <2> QED BY <2>1, <2>2, <2>3, PTL DEF InTheEnd
<1>3. ASSUME NEW a \in Actions
      PROVE  Awake => (a \in Range(timeouts) ~> a \notin Range(timeouts))
  <2>0. Wanted("action", a)
    BY DEF Wanted
  <2>1. Awake => InTheEnd("action", a)
    BY <2>0, DoneInTheEnd
  <2>2. a \in Range(timeouts) => Open("action", a)
    BY DEF Open, Done, waiting
  <2>3. Done("action", a) => a \notin Range(timeouts)
    BY DEF Done, waiting
  <2> QED BY <2>1, <2>2, <2>3, PTL DEF InTheEnd
<1>4. Awake => (rx > 0 ~> pc = "call" /\ back = "round")
  <2>0. Wanted("console", CONSOLE)
    BY DEF Wanted
  <2>1. Awake => InTheEnd("console", CONSOLE)
    BY <2>0, DoneInTheEnd
  <2>2. rx > 0 => Open("console", CONSOLE) \/ (pc = "call" /\ back = "round")
    BY DEF Open, Done, Reading
  <2>3. Done("console", CONSOLE) => pc = "call" /\ back = "round"
    BY DEF Done, Reading
  <2> QED BY <2>1, <2>2, <2>3, PTL DEF InTheEnd
<1> QED BY <1>1, <1>2, <1>3, <1>4 DEF Dispatched
===============================================================================
