------------------------------- MODULE BloopProofs -------------------------------
(***************************************************************************)
(* Theorems about Bloop, for any number of posters, LEDs and scheduled     *)
(* events and any delays: the inductive invariant and what follows.        *)
(***************************************************************************)
EXTENDS Bloop, ListLemmas

USE TimersAssumption, DelayAssumption, LateAssumption, PostsAssumption

-------------------------------------------------------------------------------
(***************************************************************************)
(* The operators                                                           *)
(***************************************************************************)

\* The highest of some events is one of them, and none is higher.
LEMMA HighestFacts ==
  ASSUME NEW S \in SUBSET Events, S # {}
  PROVE  Highest(S) \in S /\ \A f \in S : f <= Highest(S)
<1>1. \E e \in S : \A f \in S : f <= e
  <2>1. CASE SYS \in S
    BY <2>1 DEF Events, LED, IR, SYS
  <2>2. CASE SYS \notin S /\ IR \in S
    BY <2>2 DEF Events, LED, IR, SYS
  <2>3. CASE SYS \notin S /\ IR \notin S
    <3>1. S = {LED}
      BY <2>3 DEF Events
    <3> QED BY <3>1 DEF LED
  <2> QED BY <2>1, <2>2, <2>3
<1> QED BY <1>1 DEF Highest

\* What a timer posts, and for which event: never for the receiver's.
LEMMA TimerPosts ==
  ASSUME NEW t \in Timers
  PROVE  TimerEvent(t) \in {LED, SYS} /\ TimerType(t) \in Types
BY DEF TimerEvent, TimerType, Types

\* The event taken is one that is set, and the highest.
LEMMA TakenEvent ==
  ASSUME TypeOK, WorkInv, Take
  PROVE  cur' \in sync /\ cur' \in Events /\ \A f \in sync : f <= cur'
<1>1. sync \in SUBSET Events /\ sync # {}
  BY DEF TypeOK, WorkInv, Take
<1>2. cur' = Highest(sync)
  BY <1>1 DEF Take
<1> QED BY <1>1, <1>2, HighestFacts

\* The actions of Next that leave the timers, and those that leave the loop.
LEMMA Actions ==
  ASSUME [Next]_vars
  PROVE  \/ LoopStep
         \/ \E k \in Tasks : \/ \E t \in LedTimers : LedTrigger(k, t)
                             \/ \E t \in Scheduled : Schedule(k, t)
                             \/ LedPost(k) \/ Dump(k) \/ Give(k)
         \/ \E r \in search : Link(r)
         \/ IrInterrupt \/ Tick \/ UNCHANGED vars
BY DEF Next, TaskStep

-------------------------------------------------------------------------------
(***************************************************************************)
(* Preservation, part by part                                              *)
(***************************************************************************)

\* What the loop has to do.
LEMMA WorkStep ==
  ASSUME IInv, [Next]_vars
  PROVE  WorkInv'
<1> USE DEF IInv, WorkInv, loop, events, timers, callers, outside
<1>1. CASE Copy
  BY <1>1 DEF Copy
<1>2. CASE Sleep
  BY <1>2 DEF Sleep, Due
<1>3. CASE Wake
  BY <1>3 DEF Wake
<1>4. CASE HandleTimers
  <2>1. sync' # {}
    <3>1. CASE sync # {}
      BY <1>4, <3>1 DEF HandleTimers
    <3>2. CASE sync = {}
      <4>1. list # <<>> /\ Due(list[1]) /\ list \in Seq(Timers)
        BY <1>4, <3>2 DEF HandleTimers, TypeOK
      <4>2. PICK n \in DueCount :
              sync' = sync \cup {TimerEvent(t) : t \in {list[i] : i \in 1 .. n}}
        BY <1>4 DEF HandleTimers
      <4>3. Len(list) >= 1 /\ Len(list) \in Nat
        BY <4>1
      <4>4. n \in 0 .. Len(list) /\ n # 0
        BY <4>1, <4>3 DEF DueCount
      <4>5. 1 \in 1 .. n
        BY <4>3, <4>4
      <4>6. list[1] \in {list[i] : i \in 1 .. n}
        BY <4>5
      <4>7. TimerEvent(list[1]) \in {TimerEvent(t) : t \in {list[i] : i \in 1 .. n}}
        BY <4>6
      <4> QED BY <4>2, <4>7
    <3> QED BY <3>1, <3>2
  <2> QED BY <1>4, <2>1 DEF HandleTimers
<1>5. CASE Clean
  BY <1>5 DEF Clean
<1>6. CASE Take
  BY <1>6, TakenEvent DEF Take
<1>7. CASE LedRegister
  BY <1>7 DEF LedRegister
<1>8. CASE HandleLed \/ HandleIr \/ HandleSys
  BY <1>8 DEF HandleLed, HandleIr, HandleSys
<1>9. CASE Unset
  BY <1>9 DEF Unset
<1>10. ASSUME NEW k \in Tasks, NEW t \in Timers, LedTrigger(k, t) \/ Schedule(k, t)
       PROVE  WorkInv'
  BY <1>10 DEF LedTrigger, Schedule, PostersRun
<1>11. ASSUME NEW k \in Tasks, LedPost(k) \/ Dump(k) \/ Give(k)
       PROVE  WorkInv'
  BY <1>11 DEF LedPost, Dump, Give, SetAsync, PostersRun
<1>12. ASSUME NEW r \in search, Link(r)
       PROVE  WorkInv'
  BY <1>12 DEF Link, PostersRun
<1>13. CASE IrInterrupt
  BY <1>13 DEF IrInterrupt, SetAsync, Due
<1>14. CASE Tick
  <2>1. pc = "timers" /\ list # <<>> /\ Due(Head(list)) => Due(Head(list))'
    <3> HAVE pc = "timers" /\ list # <<>> /\ Due(Head(list))
    <3>1. Head(list) \in Timers /\ left[Head(list)] \in Int
      BY DEF TypeOK
    <3>2. /\ list' = list
          /\ left'[Head(list)] \in {left[Head(list)], left[Head(list)] - 1}
      BY <1>14, <3>1 DEF Tick
    <3> QED BY <3>1, <3>2 DEF Due
  <2> QED BY <1>14, <2>1 DEF Tick
<1>15. CASE UNCHANGED vars
  BY <1>15 DEF vars, Due
<1> QED BY <1>1, <1>2, <1>3, <1>4, <1>5, <1>6, <1>7, <1>8, <1>9, <1>10, <1>11, <1>12,
           <1>13, <1>14, <1>15, Actions DEF LoopStep, Timers

\* The receiver's interrupt.
LEMMA IrStep ==
  ASSUME IInv, [Next]_vars
  PROVE  IrInv'
<1> USE DEF IInv, IrInv, loop, events, timers, callers, outside, LED, IR, SYS
<1>1. CASE Copy
  BY <1>1 DEF Copy, WorkInv
<1>2. CASE Sleep \/ Wake
  BY <1>2 DEF Sleep, Wake, WorkInv
<1>4. CASE HandleTimers
  <2>1. PICK n \in DueCount :
          /\ sync' = sync \cup {TimerEvent(t) : t \in {list[i] : i \in 1 .. n}}
          /\ amap' = [e \in Events |-> amap[e] \cup
                {TimerType(t) : t \in {t \in {list[i] : i \in 1 .. n} : TimerEvent(t) = e}}]
    BY <1>4 DEF HandleTimers
  <2>2. \A i \in 1 .. n : TimerEvent(list[i]) # IR
    <3>1. \A i \in 1 .. n : list[i] \in Timers
      BY DEF TypeOK, DueCount
    <3> QED BY <3>1, TimerPosts
  <2>3. IR \in sync' => IR \in sync
    BY <2>1, <2>2
  <2>4. amap'[IR] = amap[IR]
    BY <2>1, <2>2 DEF Events
  <2> QED BY <1>4, <2>3, <2>4 DEF HandleTimers
<1>5. CASE Clean
  BY <1>5 DEF Clean
<1>6. CASE Take
  BY <1>6, TakenEvent DEF Take, WorkInv, TypeOK, Events
<1>7. CASE LedRegister
  BY <1>7 DEF LedRegister
<1>8. CASE HandleLed \/ HandleSys
  BY <1>8 DEF HandleLed, HandleSys
<1>16. CASE HandleIr
  BY <1>16 DEF HandleIr, WorkInv
<1>9. CASE Unset
  BY <1>9 DEF Unset, WorkInv
<1>10. ASSUME NEW k \in Tasks, NEW t \in Timers, LedTrigger(k, t) \/ Schedule(k, t)
       PROVE  IrInv'
  BY <1>10 DEF LedTrigger, Schedule
<1>11. ASSUME NEW k \in Tasks, LedPost(k) \/ Dump(k) \/ Give(k)
       PROVE  IrInv'
  BY <1>11 DEF LedPost, Dump, Give, SetAsync, TypeOK, Events
<1>12. ASSUME NEW r \in search, Link(r)
       PROVE  IrInv'
  BY <1>12 DEF Link
<1>13. CASE IrInterrupt
  BY <1>13 DEF IrInterrupt, SetAsync, TypeOK, Events
<1>14. CASE Tick
  BY <1>14 DEF Tick
<1>15. CASE UNCHANGED vars
  BY <1>15 DEF vars
<1> QED BY <1>1, <1>2, <1>4, <1>5, <1>6, <1>7, <1>8, <1>9, <1>10, <1>11, <1>12,
           <1>13, <1>14, <1>15, <1>16, Actions DEF LoopStep, Timers

\* Pending types and the notification.
LEMMA WakeStep ==
  ASSUME IInv, [Next]_vars
  PROVE  WakeInv'
<1> USE DEF IInv, WakeInv, loop, events, timers, callers, outside
<1>1. CASE Copy
  BY <1>1 DEF Copy, WorkInv
<1>2. CASE Sleep \/ Wake
  BY <1>2 DEF Sleep, Wake, WorkInv
<1>4. CASE HandleTimers
  <2>1. PICK n \in DueCount :
          /\ sync' = sync \cup {TimerEvent(t) : t \in {list[i] : i \in 1 .. n}}
          /\ amap' = [e \in Events |-> amap[e] \cup
                {TimerType(t) : t \in {t \in {list[i] : i \in 1 .. n} : TimerEvent(t) = e}}]
    BY <1>4 DEF HandleTimers
  <2>2. \A e \in Events : amap'[e] # {} => e \in async \cup sync'
    BY <2>1
  <2> QED BY <1>4, <2>2 DEF HandleTimers
<1>5. CASE Clean
  BY <1>5 DEF Clean
<1>6. CASE Take
  BY <1>6, TakenEvent DEF Take, TypeOK
<1>7. CASE LedRegister
  BY <1>7 DEF LedRegister
<1>8. CASE HandleLed \/ HandleSys \/ HandleIr
  BY <1>8 DEF HandleLed, HandleSys, HandleIr
<1>9. CASE Unset
  BY <1>9 DEF Unset, WorkInv
<1>10. ASSUME NEW k \in Tasks, NEW t \in Timers, LedTrigger(k, t) \/ Schedule(k, t)
       PROVE  WakeInv'
  BY <1>10 DEF LedTrigger, Schedule, TypeOK
<1>11. ASSUME NEW k \in Tasks, LedPost(k) \/ Dump(k)
       PROVE  WakeInv'
  BY <1>11 DEF LedPost, Dump, SetAsync, TypeOK, PostersRun, WorkInv, Events, LED, SYS, IR
<1>17. ASSUME NEW k \in Tasks, Give(k)
       PROVE  WakeInv'
  BY <1>17 DEF Give
<1>12. ASSUME NEW r \in search, Link(r)
       PROVE  WakeInv'
  BY <1>12 DEF Link, TypeOK, TimerInv
<1>13. CASE IrInterrupt
  BY <1>13 DEF IrInterrupt, SetAsync, TypeOK, WorkInv, IrInv, Events
<1>14. CASE Tick
  BY <1>14 DEF Tick
<1>15. CASE UNCHANGED vars
  BY <1>15 DEF vars
<1> QED BY <1>1, <1>2, <1>4, <1>5, <1>6, <1>7, <1>8, <1>9, <1>10, <1>11, <1>12,
           <1>13, <1>14, <1>15, <1>17, Actions DEF LoopStep, Timers

\* The turns of the events.
LEMMA TurnStep ==
  ASSUME IInv, [Next]_vars
  PROVE  TurnInv'
<1> USE DEF IInv, TurnInv, loop, events, timers, callers, outside
<1>1. CASE Copy
  BY <1>1 DEF Copy, WorkInv
<1>2. CASE Sleep \/ Wake
  BY <1>2 DEF Sleep, Wake, WorkInv
<1>4. CASE HandleTimers
  <2>1. sync \subseteq sync'
    BY <1>4 DEF HandleTimers
  <2> QED BY <1>4, <2>1 DEF HandleTimers
<1>5. CASE Clean
  BY <1>5 DEF Clean
<1>6. CASE Take
  <2>1. cur' \in sync /\ cur' \in Events /\ \A f \in sync : f <= cur'
    BY <1>6, TakenEvent
  <2>2. /\ passed' = [e \in Events |->
                  IF e > cur' /\ e \in sync \cup async THEN passed[e] + 1
                  ELSE IF e = cur' THEN 0 ELSE passed[e]]
        /\ sync' = sync /\ async' = async /\ pc = "clean" /\ pc' = "handle"
    BY <1>6 DEF Take
  <2>3. ASSUME NEW e \in Events
        PROVE  passed'[e] \in {0, 1} /\ (passed'[e] = 1 => e \in sync \cup async)
    <3>1. CASE e > cur' /\ e \in sync \cup async
      <4>1. e \notin sync
        BY <2>1, <3>1 DEF Events, LED, IR, SYS
      <4> QED BY <2>2, <3>1, <4>1
    <3>2. CASE ~(e > cur' /\ e \in sync \cup async)
      BY <2>2, <3>2
    <3> QED BY <3>1, <3>2
  <2>4. passed'[cur'] = 0
    BY <2>1, <2>2 DEF Events, LED, IR, SYS
  <2> QED BY <2>2, <2>3, <2>4
<1>7. CASE LedRegister
  BY <1>7 DEF LedRegister
<1>8. CASE HandleLed \/ HandleSys \/ HandleIr
  BY <1>8 DEF HandleLed, HandleSys, HandleIr
<1>9. CASE Unset
  BY <1>9 DEF Unset
<1>10. ASSUME NEW k \in Tasks, NEW t \in Timers, LedTrigger(k, t) \/ Schedule(k, t)
       PROVE  TurnInv'
  BY <1>10 DEF LedTrigger, Schedule
<1>11. ASSUME NEW k \in Tasks, LedPost(k) \/ Dump(k) \/ Give(k)
       PROVE  TurnInv'
  BY <1>11 DEF LedPost, Dump, Give, SetAsync
<1>12. ASSUME NEW r \in search, Link(r)
       PROVE  TurnInv'
  BY <1>12 DEF Link
<1>13. CASE IrInterrupt
  BY <1>13 DEF IrInterrupt, SetAsync
<1>14. CASE Tick
  BY <1>14 DEF Tick
<1>15. CASE UNCHANGED vars
  BY <1>15 DEF vars
<1> QED BY <1>1, <1>2, <1>4, <1>5, <1>6, <1>7, <1>8, <1>9, <1>10, <1>11, <1>12,
           <1>13, <1>14, <1>15, Actions DEF LoopStep, Timers

-------------------------------------------------------------------------------
(***************************************************************************)
(* The timers                                                              *)
(***************************************************************************)

\* Where a timer is put, the list goes on ascending.
LEMMA RegisterFacts ==
  ASSUME list \in Seq(Timers), NEW t \in Timers, NEW time \in [Timers -> Int],
         Distinct(list),
         Ascends(list, time),
         t \notin InList,
         Register(t, time)
  PROVE  /\ list' \in Seq(Timers)
         /\ InList' = InList \cup {t}
         /\ Distinct(list')
         /\ Ascends(list', time)
<1> USE DEF Distinct, Ascends
<1> DEFINE r(k) == InsertAt(list, k, t)
<1>1. PICK k \in Places(t, time) : list' = r(k)
  BY DEF Register
<1>2. /\ k \in 1 .. Len(list) + 1
      /\ \A i \in 1 .. k - 1 : time[list[i]] < time[t]
      /\ k <= Len(list) => time[t] <= time[list[k]]
  BY <1>1 DEF Places
<1>3. /\ \A i \in 1 .. k - 1 : time[list[i]] <= time[t]
      /\ t \notin {list[i] : i \in 1 .. Len(list)}
  <2>1. \A i \in 1 .. k - 1 : list[i] \in Timers /\ time[list[i]] \in Int
    BY <1>2
  <2>2. time[t] \in Int
    OBVIOUS
  <2>3. \A i \in 1 .. k - 1 : time[list[i]] <= time[t]
    BY <1>2, <2>1, <2>2
  <2> QED BY <2>3 DEF InList
<1>4. r(k) \in Seq(Timers)
  BY <1>2, InsertAtFacts
<1>5. /\ {r(k)[i] : i \in 1 .. Len(r(k))} = {list[i] : i \in 1 .. Len(list)} \cup {t}
      /\ \A i, j \in 1 .. Len(r(k)) : r(k)[i] = r(k)[j] => i = j
  BY <1>2, <1>3, InsertAtElements
<1>6. \A i, j \in 1 .. Len(r(k)) : i < j => time[r(k)[i]] <= time[r(k)[j]]
  BY <1>2, <1>3, InsertAtAscends
<1> HIDE DEF r
<1>7. InList' = {list'[i] : i \in 1 .. Len(list')}
  BY DEF InList
<1>8. InList' = InList \cup {t}
  <2>1. InList' = {r(k)[i] : i \in 1 .. Len(r(k))}
    BY <1>1, <1>7, Zenon
  <2> QED BY <2>1, <1>5 DEF InList
<1> QED BY <1>1, <1>4, <1>5, <1>6, <1>8

\* What HandleTimers does to the lists: the timers move, none is lost.
LEMMA DueFacts ==
  ASSUME IInv, HandleTimers
  PROVE  \E n \in 0 .. Len(list) :
           LET due == {list[i] : i \in 1 .. n} IN
           /\ dued' \in Seq(Timers) /\ list' \in Seq(Timers)
           /\ InDued' = due /\ InList' = InList \ due /\ due \subseteq InList
           /\ Distinct(dued')
           /\ Distinct(list')
           /\ Ascends(list', left)
           /\ left' = [t \in Timers |-> IF t \in due THEN 0 ELSE left[t]]
           /\ sync' = sync \cup {TimerEvent(t) : t \in due}
<1> USE DEF Distinct, Ascends
<1>1. PICK n \in DueCount :
        /\ sync' = sync \cup {TimerEvent(t) : t \in {list[i] : i \in 1 .. n}}
        /\ dued' = Reverse(SubSeq(list, 1, n)) \o dued
        /\ list' = SubSeq(list, n + 1, Len(list))
        /\ left' = [t \in Timers |-> IF t \in {list[i] : i \in 1 .. n} THEN 0 ELSE left[t]]
  BY DEF HandleTimers
<1>2. /\ n \in 0 .. Len(list) /\ Len(list) \in Nat /\ n \in Nat
      /\ list \in Seq(Timers) /\ dued = <<>>
      /\ Distinct(list)
      /\ \A i, j \in 1 .. Len(list) : i < j => left[list[i]] <= left[list[j]]
  BY <1>1 DEF DueCount, IInv, TypeOK, TimerInv, HandleTimers
<1> DEFINE due == {list[i] : i \in 1 .. n}
           a == SubSeq(list, 1, n)
           b == SubSeq(list, n + 1, Len(list))
<1>3. a \in Seq(Timers) /\ Len(a) = n /\ \A i \in 1 .. n : a[i] = list[i]
  <2>1. \A i \in 1 .. n : list[i] \in Timers
    BY <1>2
  <2> QED BY <1>2, <2>1, SubSeqProperties
<1>4. /\ b \in Seq(Timers) /\ Len(b) = Len(list) - n
      /\ \A i \in 1 .. Len(list) - n : b[i] = list[i + n]
  BY <1>2, SubSeqProperties
<1> HIDE DEF a, b
<1>5. /\ Reverse(a) \in Seq(Timers) /\ Len(Reverse(a)) = n
      /\ \A i \in 1 .. n : Reverse(a)[i] = list[n - i + 1]
  <2>1. Reverse(a) = [i \in 1 .. n |-> a[(n - i) + 1]]
    BY <1>3 DEF Reverse
  <2>2. \A i \in 1 .. n : (n - i) + 1 \in 1 .. n
    BY <1>2
  <2>3. \A i \in 1 .. n : Reverse(a)[i] = list[n - i + 1] /\ Reverse(a)[i] \in Timers
    BY <1>3, <2>1, <2>2
  <2> QED BY <1>2, <2>1, <2>3
<1>6. dued' = Reverse(a) /\ list' = b
  BY <1>1, <1>2, <1>5 DEF a, b
<1>7. InDued' = due
  <2>1. InDued' = {Reverse(a)[i] : i \in 1 .. n}
    BY <1>5, <1>6 DEF InDued
  <2>2. ASSUME NEW i \in 1 .. n
        PROVE  Reverse(a)[i] \in due /\ list[i] \in {Reverse(a)[j] : j \in 1 .. n}
    <3>1. n - i + 1 \in 1 .. n /\ n - (n - i + 1) + 1 = i
      BY <1>2
    <3>2. Reverse(a)[n - i + 1] = list[i]
      BY <1>5, <3>1
    <3> QED BY <1>5, <3>1, <3>2
  <2> QED BY <2>1, <2>2
<1>8. InList' = InList \ due /\ due \subseteq InList
  <2>1. InList' = {b[i] : i \in 1 .. Len(list) - n}
    BY <1>4, <1>6 DEF InList
  <2>2. ASSUME NEW i \in 1 .. Len(list) - n
        PROVE  b[i] \in InList \ due
    <3>1. i + n \in 1 .. Len(list) /\ b[i] = list[i + n] /\ \A j \in 1 .. n : j \in 1 .. Len(list) /\ j # i + n
      BY <1>2, <1>4
    <3>2. b[i] \notin due
      BY <1>2, <3>1
    <3> QED BY <3>1, <3>2 DEF InList
  <2>3. ASSUME NEW i \in 1 .. Len(list), list[i] \notin due
        PROVE  list[i] \in {b[j] : j \in 1 .. Len(list) - n}
    <3>1. i \notin 1 .. n
      BY <2>3
    <3>2. i - n \in 1 .. Len(list) - n /\ (i - n) + n = i
      BY <3>1, <1>2
    <3>3. b[i - n] = list[i]
      BY <3>2, <1>4
    <3> QED BY <3>2, <3>3
  <2>4. due \subseteq InList
    BY <1>2 DEF InList
  <2>5. InList = {list[i] : i \in 1 .. Len(list)}
    BY DEF InList
  <2> HIDE DEF due
  <2> QED BY ONLY <2>1, <2>2, <2>3, <2>4, <2>5
<1>9. Distinct(dued')
  <2> SUFFICES ASSUME NEW i \in 1 .. n, NEW j \in 1 .. n, Reverse(a)[i] = Reverse(a)[j]
               PROVE  i = j
    BY <1>5, <1>6
  <2>1. n - i + 1 \in 1 .. Len(list) /\ n - j + 1 \in 1 .. Len(list)
    BY <1>2
  <2>2. n - i + 1 = n - j + 1
    BY <2>1, <1>2, <1>5
  <2> QED BY <2>2, <1>2
<1>10. ASSUME NEW i \in 1 .. Len(list'), NEW j \in 1 .. Len(list')
       PROVE  /\ list'[i] = list'[j] => i = j
              /\ i < j => left[list'[i]] <= left[list'[j]]
  <2>1. i \in 1 .. Len(list) - n /\ j \in 1 .. Len(list) - n
    BY <1>4, <1>6
  <2>2. list'[i] = list[i + n] /\ list'[j] = list[j + n]
    BY <2>1, <1>4, <1>6
  <2>3. /\ i + n \in 1 .. Len(list) /\ j + n \in 1 .. Len(list)
        /\ (i + n = j + n => i = j) /\ (i < j => i + n < j + n)
    BY <2>1, <1>2
  <2> QED BY <2>2, <2>3, <1>2
<1> QED BY <1>1, <1>2, <1>3, <1>4, <1>5, <1>6, <1>7, <1>8, <1>9, <1>10

\* Time passes for all the timers of a list alike.
LEMMA TickFacts ==
  ASSUME IInv, Tick
  PROVE  /\ left' \in [Timers -> Int]
         /\ \A t \in InList : left'[t] = left[t] - 1
<1>1. /\ left' = [t \in Timers |-> IF t \in Running THEN left[t] - 1 ELSE left[t]]
      /\ left \in [Timers -> Int]
  BY DEF Tick, IInv, TypeOK
<1>2. InList \subseteq Running /\ InList \subseteq Timers
  <2>1. list \in Seq(Timers)
    BY DEF IInv, TypeOK
  <2>2. \A i \in 1 .. Len(list) : list[i] \in Timers /\ i \in DOMAIN list
    BY <2>1
  <2> QED BY <2>2 DEF InList, Running, Range
<1> QED BY <1>1, <1>2

\* A registered timer is one more element of the list.
LEMMA RegisterTyped ==
  ASSUME list \in Seq(Timers), NEW t \in Timers, NEW time, Register(t, time)
  PROVE  list' \in Seq(Timers)
<1>1. PICK k \in Places(t, time) : list' = InsertAt(list, k, t)
  BY DEF Register
<1>2. k \in 1 .. Len(list) + 1
  BY <1>1 DEF Places
<1> QED BY <1>1, <1>2, InsertAtFacts

\* The types of the variables.
LEMMA TypeStep ==
  ASSUME IInv, [Next]_vars
  PROVE  TypeOK'
<1> USE DEF TypeOK, loop, events, timers, callers, outside
<1>0. TypeOK
  BY DEF IInv
<1>1. CASE Copy
  BY <1>0, <1>1 DEF Copy
<1>2. CASE Sleep
  <2>1. list # <<>> => Head(list) \in Timers /\ left[Head(list)] \in Int
    BY <1>0
  <2>2. CASE list # <<>> /\ Due(Head(list))
    BY <1>0, <1>2, <2>2 DEF Sleep
  <2>3. CASE list = <<>>
    BY <1>0, <1>2, <2>3 DEF Sleep
  <2>4. CASE list # <<>> /\ ~Due(Head(list))
    <3>1. left[Head(list)] \in Nat
      BY <2>1, <2>4 DEF Due
    <3>2. until' = {left[Head(list)]}
      BY <1>2, <2>4 DEF Sleep
    <3> QED BY <1>0, <1>2, <2>4, <3>1, <3>2 DEF Sleep
  <2> QED BY <2>2, <2>3, <2>4
<1>3. CASE Wake
  BY <1>0, <1>3 DEF Wake
<1>4. CASE HandleTimers
  <2>1. dued' \in Seq(Timers) /\ list' \in Seq(Timers) /\ left' \in [Timers -> Int]
    BY <1>0, <1>4, DueFacts
  <2>2. PICK n \in DueCount :
          /\ sync' = sync \cup {TimerEvent(t) : t \in {list[i] : i \in 1 .. n}}
          /\ amap' = [e \in Events |-> amap[e] \cup
                {TimerType(t) : t \in {t \in {list[i] : i \in 1 .. n} : TimerEvent(t) = e}}]
    BY <1>4 DEF HandleTimers
  <2>3. \A i \in 1 .. n : list[i] \in Timers
    BY <1>0 DEF DueCount
  <2>4. sync' \subseteq Events /\ amap' \in [Events -> SUBSET Types]
    BY <1>0, <2>2, <2>3, TimerPosts DEF Events
  <2> QED BY <1>0, <1>4, <2>1, <2>4 DEF HandleTimers
<1>5. CASE Clean
  <2>1. Head(dued) \in Timers /\ Tail(dued) \in Seq(Timers)
    BY <1>0, <1>5 DEF Clean
  <2>2. left' \in [Timers -> Int] /\ list' \in Seq(Timers)
    <3>1. CASE Head(dued) \in LedTimers
      <4>1. left' = [left EXCEPT ![Head(dued)] = Delay[Head(dued)]] /\ Register(Head(dued), left')
        BY <1>5, <3>1 DEF Clean
      <4>2. Delay[Head(dued)] \in Int
        BY <2>1
      <4> QED BY <1>0, <2>1, <4>1, <4>2, RegisterTyped
    <3>2. CASE Head(dued) \notin LedTimers
      BY <1>0, <1>5, <3>2 DEF Clean
    <3> QED BY <3>1, <3>2
  <2> QED BY <1>0, <1>5, <2>1, <2>2 DEF Clean
<1>6. CASE Take
  BY <1>0, <1>6, TakenEvent DEF Take, IInv
<1>7. CASE LedRegister
  <2>1. Head(waiting) \in Timers /\ waiting' \in Seq(LedTimers)
    BY <1>0, <1>7 DEF LedRegister, Timers
  <2>2. list' \in Seq(Timers)
    BY <1>0, <1>7, <2>1, RegisterTyped DEF LedRegister
  <2> QED BY <1>0, <1>7, <2>1, <2>2 DEF LedRegister
<1>8. CASE HandleLed \/ HandleIr \/ HandleSys
  BY <1>0, <1>8 DEF HandleLed, HandleIr, HandleSys
<1>9. CASE Unset
  BY <1>0, <1>9 DEF Unset
<1>10. ASSUME NEW k \in Tasks, NEW t \in LedTimers, LedTrigger(k, t)
       PROVE  TypeOK'
  BY <1>0, <1>10 DEF LedTrigger, Timers
<1>16. ASSUME NEW k \in Tasks, NEW t \in Scheduled, Schedule(k, t)
       PROVE  TypeOK'
  BY <1>0, <1>16 DEF Schedule, Timers
<1>11. ASSUME NEW k \in Tasks, LedPost(k)
       PROVE  TypeOK'
  BY <1>0, <1>11 DEF LedPost, SetAsync, Events, Types
<1>17. ASSUME NEW k \in Tasks, Dump(k)
       PROVE  TypeOK'
  BY <1>0, <1>17 DEF Dump, SetAsync, Events, Types
<1>18. ASSUME NEW k \in Tasks, Give(k)
       PROVE  TypeOK'
  BY <1>0, <1>18 DEF Give
<1>12. ASSUME NEW r \in search, Link(r)
       PROVE  TypeOK'
  <2>1. list' \in Seq(Timers)
    BY <1>0, <1>12, RegisterTyped DEF Link, Timers
  <2> QED BY <1>0, <1>12, <2>1 DEF Link
<1>13. CASE IrInterrupt
  BY <1>0, <1>13 DEF IrInterrupt, SetAsync, Events, Types
<1>14. CASE Tick
  BY <1>0, <1>14, TickFacts DEF Tick
<1>15. CASE UNCHANGED vars
  BY <1>0, <1>15 DEF vars
<1> QED BY <1>1, <1>2, <1>3, <1>4, <1>5, <1>6, <1>7, <1>8, <1>9, <1>10, <1>11, <1>12,
           <1>13, <1>14, <1>15, <1>16, <1>17, <1>18, Actions DEF LoopStep

\* Where the timers are.
LEMMA TimerStep ==
  ASSUME IInv, [Next]_vars
  PROVE  TimerInv'
<1> USE DEF loop, events, timers, callers, outside
<1>0. TimerInv /\ TypeOK /\ TypeOK'
  BY TypeStep DEF IInv
<1>1. CASE /\ UNCHANGED <<list, dued, left, waiting, search, used>>
           /\ \A k \in Tasks : job[k] = "link" => job'[k] = "link"
           /\ dued # <<>> => pc' = "clean"
  <2>1. UNCHANGED <<InList, InDued, InQueue, InSearch>>
    BY <1>1 DEF InList, InDued, InQueue, InSearch
  <2>2. \A s \in search : s.task \in Tasks
    BY <1>0 DEF TypeOK
  <2> QED BY <1>0, <1>1, <2>1, <2>2 DEF TimerInv
<1>2. CASE Copy \/ Sleep \/ Wake \/ Take \/ HandleLed \/ HandleIr \/ HandleSys \/ Unset
  BY <1>0, <1>1, <1>2 DEF Copy, Sleep, Wake, Take, HandleLed, HandleIr, HandleSys, Unset, TimerInv
<1>3. CASE IrInterrupt \/ UNCHANGED vars
  BY <1>0, <1>1, <1>3 DEF IrInterrupt, vars, TimerInv
<1>4. ASSUME NEW k \in Tasks, LedPost(k) \/ Dump(k) \/ Give(k)
      PROVE  TimerInv'
  BY <1>0, <1>1, <1>4 DEF LedPost, Dump, Give, TimerInv, TypeOK
<1>5. CASE HandleTimers
  <2>1. PICK n \in 0 .. Len(list) :
           LET due == {list[i] : i \in 1 .. n} IN
           /\ dued' \in Seq(Timers) /\ list' \in Seq(Timers)
           /\ InDued' = due /\ InList' = InList \ due /\ due \subseteq InList
           /\ Distinct(dued')
           /\ Distinct(list')
           /\ Ascends(list', left)
           /\ left' = [t \in Timers |-> IF t \in due THEN 0 ELSE left[t]]
    BY <1>5, DueFacts
  <2> DEFINE due == {list[i] : i \in 1 .. n}
  <2>2. /\ InDued' = due /\ InList' = InList \ due /\ due \subseteq InList
        /\ left' = [t \in Timers |-> IF t \in due THEN 0 ELSE left[t]]
    BY <2>1
  <2> HIDE DEF due
  <2>3. /\ UNCHANGED <<waiting, search, used, job>> /\ pc' = "clean"
    BY <1>5 DEF HandleTimers
  <2>4. InQueue' = InQueue /\ InSearch' = InSearch
    BY <2>3 DEF InQueue, InSearch
  <2>5. Ascends(list', left')
    <3>1. \A i \in 1 .. Len(list') : list'[i] \in Timers /\ list'[i] \in InList'
      BY <2>1 DEF InList
    <3>2. \A i \in 1 .. Len(list') : left'[list'[i]] = left[list'[i]]
      BY <2>2, <3>1
    <3> QED BY <2>1, <3>2 DEF Ascends
  <2> QED BY <1>0, <2>1, <2>2, <2>3, <2>4, <2>5 DEF TimerInv
<1>6. CASE Clean
  <2>1. /\ dued # <<>> /\ dued' = Tail(dued) /\ pc' = "clean"
        /\ UNCHANGED <<waiting, search, used, job>>
    BY <1>6 DEF Clean
  <2>2. /\ InDued' = InDued \ {Head(dued)} /\ Head(dued) \in InDued
        /\ Distinct(dued')
    <3>1. dued \in Seq(Timers) /\ Distinct(dued)
      BY <1>0 DEF TypeOK, TimerInv
    <3>2. /\ Head(dued) \in {dued[i] : i \in 1 .. Len(dued)}
          /\ {Tail(dued)[i] : i \in 1 .. Len(Tail(dued))}
                = {dued[i] : i \in 1 .. Len(dued)} \ {Head(dued)}
          /\ Distinct(Tail(dued))
      <4>1. \A i, j \in 1 .. Len(dued) : dued[i] = dued[j] => i = j
        BY <3>1 DEF Distinct
      <4>2. /\ Head(dued) \in {dued[i] : i \in 1 .. Len(dued)}
            /\ Tail(dued) \in Seq(Timers)
            /\ {Tail(dued)[i] : i \in 1 .. Len(Tail(dued))}
                  = {dued[i] : i \in 1 .. Len(dued)} \ {Head(dued)}
            /\ \A i, j \in 1 .. Len(Tail(dued)) : Tail(dued)[i] = Tail(dued)[j] => i = j
        <5>1. dued \in Seq(Timers) /\ dued # <<>>
          BY <2>1, <3>1
        <5> QED BY <4>1, <5>1, TailElements
      <4> QED BY <4>2 DEF Distinct
    <3>3. InDued' = {dued'[i] : i \in 1 .. Len(dued')}
      BY DEF InDued
    <3>4. InDued' = {Tail(dued)[i] : i \in 1 .. Len(Tail(dued))}
      BY <2>1, <3>3, Zenon
    <3> QED BY <2>1, <3>2, <3>4 DEF InDued
  <2>3. InQueue' = InQueue /\ InSearch' = InSearch
    BY <2>1 DEF InQueue, InSearch
  <2>4. Head(dued) \in Timers /\ Head(dued) \notin InList
    BY <1>0, <2>1, <2>2 DEF TimerInv, TypeOK
  <2>5. CASE Head(dued) \in LedTimers
    <3>1. left' = [left EXCEPT ![Head(dued)] = Delay[Head(dued)]] /\ Register(Head(dued), left')
      BY <1>6, <2>5 DEF Clean
    <3>2. \A i \in 1 .. Len(list) : left'[list[i]] = left[list[i]]
      <4>1. \A i \in 1 .. Len(list) : list[i] \in Timers /\ list[i] # Head(dued)
        <5>1. list \in Seq(Timers) /\ \A i \in 1 .. Len(list) : list[i] \in InList
          BY <1>0 DEF TypeOK, InList
        <5> QED BY <2>4, <5>1
      <4> QED BY <1>0, <3>1, <4>1 DEF TypeOK
    <3>3. Ascends(list, left')
      BY <1>0, <3>2 DEF TimerInv, Ascends
    <3>4. /\ InList' = InList \cup {Head(dued)}
          /\ Distinct(list')
          /\ Ascends(list', left')
      BY <1>0, <2>4, <3>1, <3>3, RegisterFacts DEF TimerInv, TypeOK
    <3> QED BY <1>0, <2>1, <2>2, <2>3, <3>4 DEF TimerInv
  <2>6. CASE Head(dued) \notin LedTimers
    <3>1. UNCHANGED <<list, left>>
      BY <1>6, <2>6 DEF Clean
    <3> QED BY <1>0, <2>1, <2>2, <2>3, <3>1 DEF TimerInv, InList
  <2> QED BY <2>5, <2>6
<1>7. CASE LedRegister
  <2>1. /\ waiting # <<>> /\ waiting' = Tail(waiting) /\ Register(Head(waiting), left)
        /\ UNCHANGED <<left, dued, search, used, job, pc>>
    BY <1>7 DEF LedRegister
  <2>2. /\ InQueue' = InQueue \ {Head(waiting)} /\ Head(waiting) \in InQueue
        /\ Distinct(waiting')
    <3>1. waiting \in Seq(LedTimers) /\ Distinct(waiting)
      BY <1>0 DEF TypeOK, TimerInv
    <3>2. /\ Head(waiting) \in {waiting[i] : i \in 1 .. Len(waiting)}
          /\ {Tail(waiting)[i] : i \in 1 .. Len(Tail(waiting))}
                = {waiting[i] : i \in 1 .. Len(waiting)} \ {Head(waiting)}
          /\ Distinct(Tail(waiting))
      <4>1. \A i, j \in 1 .. Len(waiting) : waiting[i] = waiting[j] => i = j
        BY <3>1 DEF Distinct
      <4>2. /\ Head(waiting) \in {waiting[i] : i \in 1 .. Len(waiting)}
            /\ Tail(waiting) \in Seq(LedTimers)
            /\ {Tail(waiting)[i] : i \in 1 .. Len(Tail(waiting))}
                  = {waiting[i] : i \in 1 .. Len(waiting)} \ {Head(waiting)}
            /\ \A i, j \in 1 .. Len(Tail(waiting)) : Tail(waiting)[i] = Tail(waiting)[j] => i = j
        <5>1. waiting \in Seq(LedTimers) /\ waiting # <<>>
          BY <2>1, <3>1
        <5> QED BY <4>1, <5>1, TailElements
      <4> QED BY <4>2 DEF Distinct
    <3>3. InQueue' = {waiting'[i] : i \in 1 .. Len(waiting')}
      BY DEF InQueue
    <3>4. InQueue' = {Tail(waiting)[i] : i \in 1 .. Len(Tail(waiting))}
      BY <2>1, <3>3, Zenon
    <3> QED BY <2>1, <3>2, <3>4 DEF InQueue
  <2>3. InDued' = InDued /\ InSearch' = InSearch
    BY <2>1 DEF InDued, InSearch
  <2>4. Head(waiting) \in Timers /\ Head(waiting) \notin InList
    BY <1>0, <2>1, <2>2 DEF TimerInv, TypeOK, Timers
  <2>5. /\ InList' = InList \cup {Head(waiting)}
        /\ Distinct(list')
        /\ Ascends(list', left)
    BY <1>0, <2>1, <2>4, RegisterFacts DEF TimerInv, TypeOK
  <2> QED BY <1>0, <2>1, <2>2, <2>3, <2>5 DEF TimerInv
<1>8. ASSUME NEW k \in Tasks, NEW t \in LedTimers, LedTrigger(k, t)
      PROVE  TimerInv'
  <2>1. /\ t \notin used /\ used' = used \cup {t} /\ waiting' = <<t>> \o waiting
        /\ left' = [left EXCEPT ![t] = Delay[t]]
        /\ job' = [job EXCEPT ![k] = "post"] /\ job[k] = "idle"
        /\ UNCHANGED <<list, dued, search, pc>>
    BY <1>8 DEF LedTrigger
  <2>2. waiting' = InsertAt(waiting, 1, t)
    <3>1. waiting \in Seq(LedTimers) /\ SubSeq(waiting, 1, 0) = <<>>
          /\ SubSeq(waiting, 1, Len(waiting)) = waiting
      BY <1>0 DEF TypeOK
    <3> QED BY <2>1, <3>1 DEF InsertAt
  <2>3. t \notin InList \cup InDued \cup InQueue \cup InSearch
    BY <1>0, <2>1 DEF TimerInv
  <2>4. /\ InQueue' = InQueue \cup {t}
        /\ Distinct(waiting')
    <3>1. /\ waiting \in Seq(LedTimers) /\ Distinct(waiting) /\ 1 \in 1 .. Len(waiting) + 1
          /\ t \notin {waiting[i] : i \in 1 .. Len(waiting)}
      BY <1>0, <2>3 DEF TypeOK, TimerInv, InQueue
    <3> DEFINE r == InsertAt(waiting, 1, t)
    <3>2. /\ {r[i] : i \in 1 .. Len(r)} = {waiting[i] : i \in 1 .. Len(waiting)} \cup {t}
          /\ Distinct(r)
      BY <3>1, InsertAtElements DEF Distinct
    <3> HIDE DEF r
    <3>3. InQueue' = {waiting'[i] : i \in 1 .. Len(waiting')} /\ waiting' = r
      BY <2>2 DEF InQueue, r
    <3>4. InQueue' = {r[i] : i \in 1 .. Len(r)}
      BY <3>3, Zenon
    <3> QED BY <3>2, <3>3, <3>4 DEF InQueue
  <2>5. InList' = InList /\ InDued' = InDued /\ InSearch' = InSearch
    BY <2>1 DEF InList, InDued, InSearch
  <2>6. \A i \in 1 .. Len(list) : left'[list[i]] = left[list[i]]
    <3>1. \A i \in 1 .. Len(list) : list[i] \in Timers /\ list[i] # t
      <4>1. list \in Seq(Timers) /\ \A i \in 1 .. Len(list) : list[i] \in InList
        BY <1>0 DEF TypeOK, InList
      <4> QED BY <2>3, <4>1
    <3> QED BY <1>0, <2>1, <3>1 DEF TypeOK
  <2>7. \A s \in search : job'[s.task] = "link"
    BY <1>0, <2>1 DEF TimerInv, TypeOK
  <2>8. Ascends(list, left')
    BY <1>0, <2>6 DEF TimerInv, Ascends
  <2> QED BY <1>0, <2>1, <2>3, <2>4, <2>5, <2>7, <2>8 DEF TimerInv
<1>9. ASSUME NEW k \in Tasks, NEW t \in Scheduled, Schedule(k, t)
      PROVE  TimerInv'
  <2> DEFINE new == [task |-> k, timer |-> t, seen |-> list]
  <2>1. /\ t \notin used /\ used' = used \cup {t} /\ search' = search \cup {new}
        /\ left' = [left EXCEPT ![t] = Delay[t]]
        /\ job' = [job EXCEPT ![k] = "link"] /\ job[k] = "idle"
        /\ UNCHANGED <<list, dued, waiting, pc>>
    BY <1>9 DEF Schedule
  <2>2. t \notin InList \cup InDued \cup InQueue \cup InSearch
    BY <1>0, <2>1 DEF TimerInv
  <2>3. InSearch' = InSearch \cup {t}
    <3>1. new.timer = t
      OBVIOUS
    <3> QED BY <2>1, <3>1 DEF InSearch
  <2>4. InList' = InList /\ InDued' = InDued /\ InQueue' = InQueue
    BY <2>1 DEF InList, InDued, InQueue
  <2>5. \A i \in 1 .. Len(list) : left'[list[i]] = left[list[i]]
    <3>1. \A i \in 1 .. Len(list) : list[i] \in Timers /\ list[i] # t
      <4>1. list \in Seq(Timers) /\ \A i \in 1 .. Len(list) : list[i] \in InList
        BY <1>0 DEF TypeOK, InList
      <4> QED BY <2>2, <4>1
    <3> QED BY <1>0, <2>1, <3>1 DEF TypeOK
  <2>6. \A s \in search : s.task # k /\ s.timer # t
    BY <1>0, <2>1, <2>2 DEF TimerInv, InSearch
  <2>7. \A s \in search' : job'[s.task] = "link"
    BY <1>0, <2>1 DEF TimerInv, TypeOK
  <2>8. \A s, u \in search' : s.timer = u.timer \/ s.task = u.task => s = u
    BY <1>0, <2>1, <2>6 DEF TimerInv
  <2>9. Ascends(list, left')
    BY <1>0, <2>5 DEF TimerInv, Ascends
  <2> QED BY <1>0, <2>1, <2>2, <2>3, <2>4, <2>7, <2>8, <2>9 DEF TimerInv
<1>10. ASSUME NEW r \in search, Link(r)
       PROVE  TimerInv'
  <2>1. /\ search' = search \ {r} /\ job' = [job EXCEPT ![r.task] = "idle"]
        /\ UNCHANGED <<dued, left, waiting, used, pc>>
        /\ UNCHANGED list \/ Register(r.timer, left)
    BY <1>10 DEF Link
  <2>2. /\ InSearch' = InSearch \ {r.timer} /\ r.timer \in InSearch /\ r.timer \in Timers
        /\ \A s \in search' : s.task # r.task
    <3>1. \A s \in search : s.timer = r.timer \/ s.task = r.task => s = r
      BY <1>0 DEF TimerInv
    <3>2. r.timer \in InSearch /\ r.timer \in Timers
      BY <1>0 DEF TypeOK, InSearch, Timers
    <3>3. InSearch' = {s.timer : s \in search \ {r}}
      BY <2>1 DEF InSearch
    <3> QED BY <2>1, <3>1, <3>2, <3>3 DEF InSearch
  <2>3. InDued' = InDued /\ InQueue' = InQueue
    BY <2>1 DEF InDued, InQueue
  <2>4. /\ InList' \subseteq InList \cup {r.timer}
        /\ Distinct(list')
        /\ Ascends(list', left)
    <3>1. CASE UNCHANGED list
      BY <1>0, <3>1 DEF InList, TimerInv
    <3>2. CASE Register(r.timer, left)
      <4>1. r.timer \notin InList
        BY <1>0, <2>2 DEF TimerInv
      <4> QED BY <1>0, <2>2, <3>2, <4>1, RegisterFacts DEF TimerInv, TypeOK
    <3> QED BY <2>1, <3>1, <3>2
  <2>5. \A s \in search' : job'[s.task] = "link"
    BY <1>0, <2>1, <2>2 DEF TimerInv, TypeOK
  <2> QED BY <1>0, <2>1, <2>2, <2>3, <2>4, <2>5 DEF TimerInv
<1>11. CASE Tick
  <2>1. UNCHANGED <<list, dued, waiting, search, used, job, pc>>
    BY <1>11 DEF Tick
  <2>2. UNCHANGED <<InList, InDued, InQueue, InSearch>>
    BY <2>1 DEF InList, InDued, InQueue, InSearch
  <2>3. Ascends(list, left')
    <3> SUFFICES ASSUME NEW i \in 1 .. Len(list), NEW j \in 1 .. Len(list), i < j
                 PROVE  left'[list[i]] <= left'[list[j]]
      BY DEF Ascends
    <3>1. left'[list[i]] = left[list[i]] - 1 /\ left'[list[j]] = left[list[j]] - 1
      BY <1>11, TickFacts DEF InList
    <3>2. left[list[i]] <= left[list[j]] /\ left[list[i]] \in Int /\ left[list[j]] \in Int
      <4>1. list \in Seq(Timers)
        BY <1>0 DEF TypeOK
      <4>2. list[i] \in Timers /\ list[j] \in Timers
        BY <4>1
      <4> QED BY <1>0, <4>2 DEF TimerInv, Ascends, TypeOK
    <3> QED BY <3>1, <3>2
  <2> QED BY <1>0, <2>1, <2>2, <2>3 DEF TimerInv
<1> QED BY <1>2, <1>3, <1>4, <1>5, <1>6, <1>7, <1>8, <1>9, <1>10, <1>11, Actions DEF LoopStep

-------------------------------------------------------------------------------
\* The initial states.
LEMMA InitIInv == Init => IInv
<1> SUFFICES ASSUME Init PROVE IInv
  OBVIOUS
<1>1. TypeOK
  <2>1. <<>> \in Seq(Timers) /\ <<>> \in Seq(LedTimers)
    OBVIOUS
  <2>2. /\ amap \in [Events -> SUBSET Types] /\ smap \in [Events -> SUBSET Types]
        /\ left \in [Timers -> Int] /\ passed \in [Events -> Nat]
        /\ job \in [Tasks -> {"idle", "post", "give", "link"}]
    BY DEF Init
  <2> QED BY <2>1, <2>2 DEF Init, TypeOK
<1>2. TimerInv
  BY DEF Init, TimerInv, InList, InDued, InQueue, InSearch, Distinct, Ascends
<1>3. WorkInv /\ IrInv
  BY DEF Init, WorkInv, IrInv, Events, IR
<1>4. WakeInv
  BY DEF Init, WakeInv
<1>5. TurnInv
  BY DEF Init, TurnInv
<1> QED BY <1>1, <1>2, <1>3, <1>4, <1>5 DEF IInv

\* Every step keeps the whole of the inductive invariant.
LEMMA StepIInv == IInv /\ [Next]_vars => IInv'
BY TypeStep, TimerStep, WorkStep, IrStep, WakeStep, TurnStep DEF IInv

\* In every state of the loop its lists, maps and notification agree
\* (bloop_base.c:124-286).
THEOREM Invariance == Spec => []IInv
<1>1. IInv /\ [Next]_vars => IInv'
  BY StepIInv
<1> QED BY InitIInv, <1>1, PTL DEF Spec

\* The loop never sleeps over an event that was posted: bloop_evt_set_async
\* sets the bit before it notifies, and the loop fetches the bits after it was
\* notified (bloop_base.c:201-221, 344-355).
THEOREM NoWakeupIsLost == Spec => []NoLostWakeup
<1>1. IInv => NoLostWakeup
  BY DEF IInv, WorkInv, WakeInv, NoLostWakeup
<1> QED BY <1>1, Invariance, PTL

\* _bloop_wait fetches what was posted before every event it handles
\* (bloop_base.c:203), so that the highest priority overtakes at once.
THEOREM NoSecondOvertaking == Spec => []OvertakenOnce
<1>1. IInv => OvertakenOnce
  BY DEF IInv, TurnInv, OvertakenOnce
<1> QED BY <1>1, Invariance, PTL

\* What is pending is what is in the maps, event by event.
LEMMA PendingFacts ==
  ASSUME IInv, IInv', [Next]_vars
  PROVE  \/ (\A e \in Events : Pending(e) \subseteq Pending(e)') /\ UNCHANGED handling
         \/ \E c \in Events :
              /\ handling = None /\ handling' = c /\ Pending(c) \subseteq Pending(c)'
              /\ \A e \in Events \ {c} : Pending(e)' = Pending(e)
         \/ \E c \in Events :
              /\ handling = c /\ handling' = None
              /\ \A e \in Events : Pending(e)' = IF e = c THEN {} ELSE Pending(e)
<1> USE DEF loop, events, timers, callers, outside, handling
<1>0. TypeOK /\ WorkInv /\ WakeInv
  BY DEF IInv
<1>1. CASE /\ \A e \in Events : amap[e] \subseteq amap'[e]
           /\ UNCHANGED <<smap, pc, cur>>
  BY <1>1 DEF Pending
<1>2. CASE Copy \/ Sleep \/ Wake \/ Clean \/ Unset
  BY <1>2 DEF Copy, Sleep, Wake, Clean, Unset, Pending
<1>3. CASE HandleTimers
  <2>1. PICK n \in DueCount :
          LET due == {list[i] : i \in 1 .. n} IN
          amap' = [e \in Events |->
                     amap[e] \cup {TimerType(t) : t \in {t \in due : TimerEvent(t) = e}}]
    BY <1>3 DEF HandleTimers
  <2>2. \A e \in Events : amap[e] \subseteq amap'[e]
    BY <2>1
  <2> QED BY <1>3, <2>2 DEF HandleTimers, Pending
<1>4. CASE Take
  <2>1. /\ pc = "clean" /\ pc' = "handle"
        /\ smap' = [smap EXCEPT ![cur'] = @ \cup amap[cur']]
        /\ amap' = [amap EXCEPT ![cur'] = {}]
    BY <1>4 DEF Take
  <2>2. cur' \in Events
    BY <1>0, <1>4, TakenEvent
  <2>3. ASSUME NEW e \in Events
        PROVE  /\ e = cur' => Pending(e) \subseteq Pending(e)'
               /\ e # cur' => Pending(e)' = Pending(e)
    BY <1>0, <2>1, <2>2 DEF Pending, TypeOK
  <2>4. PICK c \in Events : c = cur'
    BY <2>2
  <2> QED BY <2>1, <2>3, <2>4
<1>5. CASE LedRegister
  BY <1>1, <1>5 DEF LedRegister
<1>6. CASE HandleLed \/ HandleIr \/ HandleSys
  <2>1. /\ pc = "handle" /\ pc' = "unset" /\ cur' = cur /\ UNCHANGED amap /\ cur \in Events
    BY <1>6 DEF HandleLed, HandleIr, HandleSys, Events
  <2>2. amap[cur] = {}
    BY <1>0, <2>1 DEF WakeInv
  <2>3. \A e \in Events : Pending(e)' = IF e = cur THEN {} ELSE Pending(e)
    BY <2>1, <2>2 DEF Pending
  <2> QED BY <2>1, <2>3
<1>7. ASSUME NEW e \in Events, NEW type, SetAsync(e, type)
      PROVE  \A f \in Events : amap[f] \subseteq amap'[f]
  BY <1>0, <1>7 DEF SetAsync, TypeOK
<1>8. ASSUME NEW k \in Tasks, LedPost(k) \/ Dump(k)
      PROVE  (\A e \in Events : Pending(e) \subseteq Pending(e)') /\ UNCHANGED handling
  BY <1>7, <1>8 DEF LedPost, Dump, SetAsync, Pending, Events
<1>9. CASE IrInterrupt
  BY <1>7, <1>9 DEF IrInterrupt, SetAsync, Pending, Events
<1>10. ASSUME NEW k \in Tasks, Give(k) \/ (\E t \in LedTimers : LedTrigger(k, t))
                                      \/ \E t \in Scheduled : Schedule(k, t)
       PROVE  (\A e \in Events : Pending(e) \subseteq Pending(e)') /\ UNCHANGED handling
  BY <1>10 DEF Give, LedTrigger, Schedule, Pending
<1>11. ASSUME NEW r \in search, Link(r)
       PROVE  (\A e \in Events : Pending(e) \subseteq Pending(e)') /\ UNCHANGED handling
  BY <1>11 DEF Link, Pending
<1>12. CASE Tick \/ UNCHANGED vars
  BY <1>12 DEF Tick, vars, Pending
<1> QED BY <1>2, <1>3, <1>4, <1>5, <1>6, <1>8, <1>9, <1>10, <1>11, <1>12, Actions DEF LoopStep

\* bloop is an event service: what is posted, by a task, an interrupt or a
\* timer, is in the map of its event until the handler has been called with
\* all of it (bloop_base.c:244-286, 321-384).
THEOREM Refinement == Spec => ImplementsEventService
<1>1. Init => Service!Init
  BY DEF Init, Service!Init, pendings, Pending, handling
<1>2. IInv /\ IInv' /\ [Next]_vars => [Service!Next]_(Service!vars)
  <2> SUFFICES ASSUME IInv, IInv', [Next]_vars
               PROVE  Service!Next
    OBVIOUS
  <2>1. TypeOK /\ TypeOK'
    BY DEF IInv
  <2>2. pendings = [e \in Events |-> Pending(e)] /\ pendings' = [e \in Events |-> Pending(e)']
    BY DEF pendings
  <2>3. \A e \in Events : Pending(e)' \subseteq Types
    BY <2>1 DEF Pending, TypeOK
  <2>4. CASE (\A e \in Events : Pending(e) \subseteq Pending(e)') /\ UNCHANGED handling
    BY <2>2, <2>3, <2>4 DEF Service!Next, Service!Post
  <2>5. ASSUME NEW c \in Events,
               handling = None /\ handling' = c /\ Pending(c) \subseteq Pending(c)',
               \A e \in Events \ {c} : Pending(e)' = Pending(e)
        PROVE  Service!Next
    <3>1. pendings' = [pendings EXCEPT ![c] = @ \cup Pending(c)']
      BY <2>2, <2>5
    <3> QED BY <2>3, <2>5, <3>1 DEF Service!Next, Service!Begin
  <2>6. ASSUME NEW c \in Events, handling = c /\ handling' = None,
               \A e \in Events : Pending(e)' = IF e = c THEN {} ELSE Pending(e)
        PROVE  Service!Next
    <3>1. pendings' = [pendings EXCEPT ![c] = {}]
      BY <2>2, <2>6
    <3>2. c # None
      BY DEF Events, None, LED, IR, SYS
    <3> QED BY <2>6, <3>1, <3>2 DEF Service!Next, Service!End
  <2> QED BY <2>4, <2>5, <2>6, PendingFacts
<1> QED BY <1>1, <1>2, Invariance, PTL DEF Spec, Service!Spec, ImplementsEventService

-------------------------------------------------------------------------------
(***************************************************************************)
(* Liveness: every posted type gets to its handler (Handled)               *)
(***************************************************************************)

\* The leads-to steps are chained a fixed number of times. A device has far fewer LEDs and
\* scheduled events; MaxPosts bounds the interrupts and dumps of a behaviour.
Few == IsFiniteSet(Timers) /\ Cardinality(Timers) <= 100 /\ MaxPosts <= 100

\* No event is set that is higher than the one being handled.
OrderInv == pc \in {"handle", "unset"} => \A f \in sync : f <= cur

LiveInv == IInv /\ OrderInv /\ posts <= MaxPosts

LEMMA OrderStep ==
  ASSUME IInv, OrderInv, [Next]_vars
  PROVE  OrderInv'
<1> USE DEF IInv, OrderInv, loop, events, timers, callers, outside
<1>1. CASE Copy \/ Sleep \/ Wake \/ HandleTimers \/ Clean \/ LedRegister
  BY <1>1 DEF Copy, Sleep, Wake, HandleTimers, Clean, LedRegister
<1>2. CASE Take
  BY <1>2, TakenEvent DEF Take
<1>3. CASE HandleLed \/ HandleIr \/ HandleSys \/ Unset
  BY <1>3 DEF HandleLed, HandleIr, HandleSys, Unset
<1>4. ASSUME NEW j \in Tasks, NEW t \in Timers, LedTrigger(j, t) \/ Schedule(j, t)
      PROVE  OrderInv'
  BY <1>4 DEF LedTrigger, Schedule
<1>5. ASSUME NEW j \in Tasks, LedPost(j) \/ Dump(j) \/ Give(j)
      PROVE  OrderInv'
  BY <1>5 DEF LedPost, Dump, Give, SetAsync
<1>6. ASSUME NEW r \in search, Link(r)
      PROVE  OrderInv'
  BY <1>6 DEF Link
<1>7. CASE IrInterrupt \/ Tick \/ UNCHANGED vars
  BY <1>7 DEF IrInterrupt, SetAsync, Tick, vars
<1> QED BY <1>1, <1>2, <1>3, <1>4, <1>5, <1>6, <1>7, Actions DEF LoopStep, Timers

LEMMA PostsStep ==
  ASSUME IInv, posts <= MaxPosts, [Next]_vars
  PROVE  posts' <= MaxPosts
<1> USE DEF IInv, TypeOK, loop, events, timers, callers, outside
<1>1. CASE LoopStep
  BY <1>1 DEF LoopStep, Copy, Sleep, Wake, HandleTimers, Clean, LedRegister, Take, HandleLed,
     HandleIr, HandleSys, Unset
<1>2. ASSUME NEW j \in Tasks, NEW t \in Timers, LedTrigger(j, t) \/ Schedule(j, t)
      PROVE  posts' <= MaxPosts
  BY <1>2 DEF LedTrigger, Schedule
<1>3. ASSUME NEW j \in Tasks, LedPost(j) \/ Dump(j) \/ Give(j)
      PROVE  posts' <= MaxPosts
  BY <1>3 DEF LedPost, Dump, Give
<1>4. ASSUME NEW r \in search, Link(r)
      PROVE  posts' <= MaxPosts
  BY <1>4 DEF Link
<1>5. CASE IrInterrupt \/ Tick \/ UNCHANGED vars
  BY <1>5 DEF IrInterrupt, Tick, vars
<1> QED BY <1>1, <1>2, <1>3, <1>4, <1>5, Actions DEF Timers

LEMMA LiveInvariance == Spec => []LiveInv
<1>1. Init => LiveInv
  BY InitIInv DEF Init, LiveInv, OrderInv
<1>2. LiveInv /\ [Next]_vars => LiveInv'
  BY StepIInv, OrderStep, PostsStep DEF LiveInv
<1> QED BY <1>1, <1>2, PTL DEF Spec

\* No list of the loop is longer than there are timers.
LEMMA ShortList ==
  ASSUME Few, NEW s \in Seq(Timers), Distinct(s)
  PROVE  Len(s) \in 0 .. 100
<1>1. Len(s) \in Nat /\ Len(s) <= Cardinality(Timers)
  BY DistinctShort DEF Few, Distinct
<1>2. PICK c \in Nat : c = Cardinality(Timers)
  BY FS_CardinalityType DEF Few
<1>3. c <= 100
  BY <1>2 DEF Few
<1>4. PICK d \in Nat : d = Len(s)
  BY <1>1
<1>5. d <= c
  BY <1>1, <1>2, <1>4
<1>6. d \in 0 .. 100
  BY <1>3, <1>5
<1> QED BY <1>4, <1>6

LEMMA ShortFacts ==
  ASSUME IInv, Few
  PROVE  Len(dued) \in 0 .. 100 /\ Len(waiting) \in 0 .. 100
<1>1. dued \in Seq(Timers) /\ Distinct(dued) /\ waiting \in Seq(Timers) /\ Distinct(waiting)
  BY DEF IInv, TypeOK, TimerInv, Timers
<1> QED BY <1>1, ShortList

LEMMA ShortFactsNext ==
  ASSUME IInv', Few
  PROVE  Len(dued') \in 0 .. 100 /\ Len(waiting') \in 0 .. 100
<1>1. dued' \in Seq(Timers) /\ waiting' \in Seq(Timers)
  BY DEF IInv, TypeOK, Timers
<1>2. Distinct(dued') /\ Distinct(waiting')
  BY DEF IInv, TimerInv, Distinct
<1> QED BY <1>1, <1>2, ShortList

\* The scheduled events that have not fired.
Unfired == {t \in Scheduled : t \notin used \/ t \in InSearch \cup InList}

LEMMA RegisterElements ==
  ASSUME IInv, NEW t \in Timers, t \notin InList, NEW time, Register(t, time)
  PROVE  InList' = InList \cup {t}
<1>1. PICK k \in 1 .. Len(list) + 1 : list' = InsertAt(list, k, t)
  BY DEF Register, Places
<1>2. list \in Seq(Timers) /\ \A i, j \in 1 .. Len(list) : list[i] = list[j] => i = j
  BY DEF IInv, TypeOK, TimerInv, Distinct
<1>3. t \notin {list[i] : i \in 1 .. Len(list)}
  BY DEF InList
<1> DEFINE r == InsertAt(list, k, t)
<1>4. /\ {r[i] : i \in 1 .. Len(r)} = {list[i] : i \in 1 .. Len(list)} \cup {t}
      /\ \A i, j \in 1 .. Len(r) : r[i] = r[j] => i = j
  BY <1>1, <1>2, <1>3, InsertAtElements
<1> HIDE DEF r
<1>5. list' = r
  BY <1>1 DEF r
<1>6. InList' = {r[i] : i \in 1 .. Len(r)}
  BY <1>5, Zenon DEF InList
<1> QED BY <1>4, <1>6 DEF InList

\* A scheduled event fires once.
LEMMA UnfiredStep ==
  ASSUME IInv, [Next]_vars
  PROVE  /\ Unfired' \subseteq Unfired
         /\ HandleTimers /\ SYS \notin sync /\ SYS \in sync' => Unfired' # Unfired
<1> USE DEF loop, events, timers, callers, outside
<1>1. ASSUME UNCHANGED <<used, search, list>>
      PROVE  Unfired' = Unfired
  BY <1>1 DEF Unfired, InSearch, InList
<1>2. CASE HandleTimers
  <2>1. PICK n \in 0 .. Len(list) :
          LET due == {list[i] : i \in 1 .. n} IN
          /\ InList' = InList \ due /\ due \subseteq InList
          /\ sync' = sync \cup {TimerEvent(t) : t \in due}
    BY <1>2, DueFacts
  <2>2. UNCHANGED <<used, search>>
    BY <1>2 DEF HandleTimers
  <2>3. InSearch' = InSearch
    BY <2>2 DEF InSearch
  <2>4. Unfired' \subseteq Unfired
    BY <2>1, <2>2, <2>3 DEF Unfired
  <2>5. ASSUME SYS \notin sync, SYS \in sync'
        PROVE  Unfired' # Unfired
    <3> DEFINE due == {list[i] : i \in 1 .. n}
    <3>1. PICK t \in due : TimerEvent(t) = SYS
      BY <2>1, <2>5
    <3> HIDE DEF due
    <3>2. t \in InList /\ t \notin InList'
      BY <2>1, <3>1 DEF due
    <3>3. t \in Timers /\ t \in used /\ t \notin InSearch
      <4>1. list \in Seq(Timers)
        BY DEF IInv, TypeOK
      <4>2. InList \subseteq Timers
        BY <4>1 DEF InList
      <4> QED BY <3>2, <4>2 DEF IInv, TimerInv
    <3>4. t \in Scheduled
      BY <3>1, <3>3 DEF TimerEvent, LED, SYS, Timers
    <3>5. t \in Unfired /\ t \notin Unfired'
      BY <2>2, <2>3, <3>2, <3>3, <3>4 DEF Unfired
    <3> QED BY <3>5
  <2> QED BY <2>4, <2>5
<1>3. CASE Clean
  <2>1. UNCHANGED <<used, search>>
    BY <1>3 DEF Clean
  <2>2. InSearch' = InSearch
    BY <2>1 DEF InSearch
  <2>3. CASE Head(dued) \in LedTimers
    <3>1. Register(Head(dued), left')
      BY <1>3, <2>3 DEF Clean
    <3>2. Head(dued) \notin InList /\ Head(dued) \in Timers
      <4>1. dued \in Seq(Timers) /\ dued # <<>> /\ Distinct(dued) /\ InDued \cap InList = {}
        BY <1>3 DEF IInv, TypeOK, TimerInv, Clean
      <4>2. Head(dued) \in InDued
        BY <4>1, TailElements DEF Distinct, InDued
      <4> QED BY <2>3, <4>1, <4>2 DEF Timers
    <3>3. InList' = InList \cup {Head(dued)}
      BY <3>1, <3>2, RegisterElements
    <3> QED BY <1>3, <2>1, <2>2, <2>3, <3>3 DEF Unfired, Clean, HandleTimers
  <2>4. CASE Head(dued) \notin LedTimers
    BY <1>1, <1>3, <2>4 DEF Clean, HandleTimers
  <2> QED BY <2>3, <2>4
<1>4. CASE LedRegister
  <2>1. UNCHANGED <<used, search>>
    BY <1>4 DEF LedRegister
  <2>2. InSearch' = InSearch
    BY <2>1 DEF InSearch
  <2>3. Register(Head(waiting), left)
    BY <1>4 DEF LedRegister
  <2>4. Head(waiting) \notin InList /\ Head(waiting) \in LedTimers
    <3>1. /\ waiting \in Seq(LedTimers) /\ waiting # <<>> /\ Distinct(waiting)
          /\ InQueue \cap InList = {}
      BY <1>4 DEF IInv, TypeOK, TimerInv, LedRegister
    <3>2. Head(waiting) \in InQueue /\ Head(waiting) \in LedTimers
      BY <3>1, TailElements DEF Distinct, InQueue
    <3> QED BY <3>1, <3>2
  <2>5. InList' = InList \cup {Head(waiting)}
    BY <2>3, <2>4, RegisterElements DEF Timers
  <2> QED BY <1>4, <2>1, <2>2, <2>4, <2>5 DEF Unfired, LedRegister, HandleTimers
<1>5. CASE Copy \/ Sleep \/ Wake \/ Take \/ HandleLed \/ HandleIr \/ HandleSys \/ Unset
  BY <1>1, <1>5 DEF Copy, Sleep, Wake, Take, HandleLed, HandleIr, HandleSys, Unset, HandleTimers
<1>6. ASSUME NEW j \in Tasks, NEW t \in LedTimers, LedTrigger(j, t)
      PROVE  Unfired' \subseteq Unfired /\ ~HandleTimers
  BY <1>6 DEF LedTrigger, Unfired, InSearch, InList, PostersRun, HandleTimers
<1>7. ASSUME NEW j \in Tasks, NEW t \in Scheduled, Schedule(j, t)
      PROVE  Unfired' \subseteq Unfired /\ ~HandleTimers
  <2>1. /\ t \notin used /\ used' = used \cup {t} /\ list' = list
        /\ search' = search \cup {[task |-> j, timer |-> t, seen |-> list]}
    BY <1>7 DEF Schedule
  <2>2. InSearch' = InSearch \cup {t} /\ InList' = InList
    <3> DEFINE new == [task |-> j, timer |-> t, seen |-> list]
    <3>1. new.timer = t /\ search' = search \cup {new}
      BY <2>1
    <3> HIDE DEF new
    <3>2. {s.timer : s \in search \cup {new}} = {s.timer : s \in search} \cup {t}
      BY <3>1
    <3>3. InSearch' = {s.timer : s \in search \cup {new}}
      BY <3>1, Zenon DEF InSearch
    <3> QED BY <2>1, <3>2, <3>3 DEF InSearch, InList
  <2> QED BY <1>7, <2>1, <2>2 DEF Unfired, Schedule, PostersRun, HandleTimers
<1>8. ASSUME NEW j \in Tasks, LedPost(j) \/ Dump(j) \/ Give(j)
      PROVE  Unfired' \subseteq Unfired /\ ~HandleTimers
  BY <1>1, <1>8 DEF LedPost, Dump, Give, PostersRun, HandleTimers
<1>9. ASSUME NEW r \in search, Link(r)
      PROVE  Unfired' \subseteq Unfired /\ ~HandleTimers
  <2>1. search' \subseteq search /\ used' = used
    BY <1>9 DEF Link
  <2>2. InSearch' \subseteq InSearch /\ r.timer \in InSearch
    BY <2>1 DEF InSearch
  <2>3. InList' \subseteq InList \cup {r.timer}
    <3>1. r.timer \in Timers /\ r.timer \notin InList
      BY <2>2 DEF IInv, TypeOK, TimerInv, Timers
    <3>2. CASE Register(r.timer, left)
      BY <3>1, <3>2, RegisterElements
    <3>3. CASE list' = list
      BY <3>3 DEF InList
    <3> QED BY <1>9, <3>2, <3>3 DEF Link
  <2> QED BY <1>9, <2>1, <2>2, <2>3 DEF Unfired, Link, PostersRun, HandleTimers
<1>10. CASE Tick \/ IrInterrupt \/ UNCHANGED vars
  <2>1. UNCHANGED <<used, search, list, sync>>
    BY <1>10 DEF Tick, IrInterrupt, SetAsync, vars
  <2> QED BY <1>1, <2>1
<1> QED BY <1>2, <1>3, <1>4, <1>5, <1>6, <1>7, <1>8, <1>9, <1>10, Actions DEF LoopStep

\* How many are left.
LEMMA UnfiredCount ==
  ASSUME IInv, [Next]_vars, Few
  PROVE  \E c, d \in 0 .. 100 :
           /\ c = Cardinality(Unfired) /\ d = Cardinality(Unfired') /\ d <= c
           /\ HandleTimers /\ SYS \notin sync /\ SYS \in sync' => d < c
<1>1. IsFiniteSet(Timers) /\ Cardinality(Timers) \in Nat /\ Cardinality(Timers) <= 100
  BY FS_CardinalityType DEF Few
<1>2. Unfired \in SUBSET Timers
  BY DEF Unfired, Timers
<1>3. /\ IsFiniteSet(Unfired) /\ Cardinality(Unfired) \in Nat
      /\ Cardinality(Unfired) <= Cardinality(Timers)
  BY <1>1, <1>2, FS_Subset, FS_CardinalityType
<1>4. PICK U : U = Unfired'
  OBVIOUS
<1>5. U \in SUBSET Unfired
  BY <1>4, UnfiredStep
<1>6. /\ IsFiniteSet(U) /\ Cardinality(U) \in Nat /\ Cardinality(U) <= Cardinality(Unfired)
      /\ Cardinality(Unfired) = Cardinality(U) => Unfired = U
  BY <1>3, <1>5, FS_Subset, FS_CardinalityType
<1>7. HandleTimers /\ SYS \notin sync /\ SYS \in sync' => U # Unfired
  BY <1>4, UnfiredStep
<1>8. Cardinality(Unfired) \in 0 .. 100 /\ Cardinality(U) \in 0 .. 100
  BY <1>1, <1>3, <1>6
<1>9. HandleTimers /\ SYS \notin sync /\ SYS \in sync' => Cardinality(U) < Cardinality(Unfired)
  BY <1>3, <1>6, <1>7
<1> QED BY <1>4, <1>6, <1>8, <1>9

Awaited(e) == Pending(e) # {}
\* The next event taken is e or a higher one.
Seen(e) == e \in sync /\ ~(pc = "unset" /\ cur = e)

\* How many handlers may run before e's: one of a lower event, and for each of the higher
\* events those that are set, can still be posted, or are left to a timer.
One(b) == IF b THEN 1 ELSE 0
Bits(e, f) == IF e < f THEN One(f \in async) + One(f \in sync) ELSE 0
Others(e) ==
  One(~Seen(e)) + (MaxPosts - posts) + Cardinality(Unfired) + Bits(e, IR) + Bits(e, SYS)

\* How many steps the loop has before the next of them is over.
Round(e) ==
  CASE pc = "idle" -> 206
    [] pc = "wait" -> IF notified THEN 3 ELSE 4
    [] pc = "timers" -> 205
    [] pc = "clean" -> 104 + Len(dued)
    [] pc = "handle" -> 3 + (IF cur = LED THEN Len(waiting) ELSE 0)
    [] pc = "unset" -> 2
    [] pc = "copy" -> IF Seen(e) THEN 206 ELSE 1

\* Who helps: the loop, or a task that wakes it.
Help == LoopStep \/ (pc = "wait" /\ ~notified /\ \E j \in Tasks : Give(j))

\* An event that is awaited is set, and stays set.
LEMMA AwaitedSet ==
  ASSUME IInv, NEW e \in Events, Awaited(e)
  PROVE  e \in async \cup sync
BY DEF IInv, WorkInv, WakeInv, Awaited, Pending, TypeOK

\* Its handler does away with what is awaited.
LEMMA HandlerServes ==
  ASSUME IInv, NEW e \in Events, HandleLed \/ HandleIr \/ HandleSys, Awaited(e)'
  PROVE  cur # e
BY DEF HandleLed, HandleIr, HandleSys, IInv, WakeInv, Awaited, Pending, events

LEMMA SeenStays ==
  ASSUME IInv, [Next]_vars, NEW e \in Events, Awaited(e)', Seen(e)
  PROVE  Seen(e)'
<1> USE DEF IInv, Seen, loop, events, timers, callers, outside
<1>1. CASE Copy \/ Sleep \/ Wake \/ HandleTimers \/ Clean \/ LedRegister
  BY <1>1 DEF Copy, Sleep, Wake, HandleTimers, Clean, LedRegister
<1>2. CASE Take
  BY <1>2 DEF Take
<1>3. CASE HandleLed \/ HandleIr \/ HandleSys
  <2>1. cur # e
    BY <1>3, HandlerServes
  <2> QED BY <1>3, <2>1 DEF HandleLed, HandleIr, HandleSys
<1>4. CASE Unset
  BY <1>4 DEF Unset
<1>5. ASSUME NEW j \in Tasks, NEW t \in Timers, LedTrigger(j, t) \/ Schedule(j, t)
      PROVE  Seen(e)'
  BY <1>5 DEF LedTrigger, Schedule
<1>6. ASSUME NEW j \in Tasks, LedPost(j) \/ Dump(j) \/ Give(j)
      PROVE  Seen(e)'
  BY <1>6 DEF LedPost, Dump, Give, SetAsync
<1>7. ASSUME NEW r \in search, Link(r)
      PROVE  Seen(e)'
  BY <1>7 DEF Link
<1>8. CASE IrInterrupt \/ Tick \/ UNCHANGED vars
  BY <1>8 DEF IrInterrupt, SetAsync, Tick, vars
<1> QED BY <1>1, <1>2, <1>3, <1>4, <1>5, <1>6, <1>7, <1>8, Actions DEF LoopStep, Timers

\* What the steps do to the events that are set and to the posts that are left.
LEMMA BitsStep ==
  ASSUME LiveInv, [Next]_vars, NEW e \in Events
  PROVE  \E i, j, x, y \in 0 .. 2 :
           /\ i = Bits(e, IR) /\ j = Bits(e, IR)' /\ x = Bits(e, SYS) /\ y = Bits(e, SYS)'
           /\ \/ j <= i /\ y <= x /\ posts' = posts
              \/ j + y <= i + x + 1 /\ posts' = posts + 1
              \/ j = i /\ y = x + 1 /\ posts' = posts /\ SYS \notin sync /\ SYS \in sync' /\ HandleTimers
           /\ Unset /\ Seen(e) => j + y < i + x /\ posts' = posts
           /\ Copy => j <= i /\ y <= x /\ posts' = posts
<1> USE DEF loop, events, timers, callers, outside
<1>0. PICK i, j, x, y \in 0 .. 2 :
        i = Bits(e, IR) /\ j = Bits(e, IR)' /\ x = Bits(e, SYS) /\ y = Bits(e, SYS)'
  BY DEF Bits, One
<1> DEFINE Goal ==
      /\ \/ j <= i /\ y <= x /\ posts' = posts
         \/ j + y <= i + x + 1 /\ posts' = posts + 1
         \/ j = i /\ y = x + 1 /\ posts' = posts /\ SYS \notin sync /\ SYS \in sync' /\ HandleTimers
      /\ Unset /\ Seen(e) => j + y < i + x /\ posts' = posts
      /\ Copy => j <= i /\ y <= x /\ posts' = posts
<1> SUFFICES Goal
  BY <1>0
<1>1. CASE UNCHANGED <<async, sync, posts>> /\ ~Unset
  BY <1>0, <1>1 DEF Bits, One
<1>2. CASE Copy
  <2>1. sync' = sync \cup async /\ async' = {} /\ posts' = posts /\ ~Unset /\ ~HandleTimers
    BY <1>2 DEF Copy, Unset, HandleTimers
  <2>2. j <= i
    BY <1>0, <2>1 DEF Bits, One, LED, IR, SYS
  <2>3. y <= x
    BY <1>0, <2>1 DEF Bits, One, LED, IR, SYS
  <2> QED BY <2>1, <2>2, <2>3
<1>3. CASE HandleTimers
  <2>1. PICK n \in 0 .. Len(list) :
          sync' = sync \cup {TimerEvent(t) : t \in {list[i_1] : i_1 \in 1 .. n}}
    BY <1>3, DueFacts DEF LiveInv
  <2>2. \A f \in sync' : f \in sync \/ f \in {LED, SYS}
    BY <2>1 DEF TimerEvent
  <2>3. sync \subseteq sync' /\ async' = async /\ posts' = posts /\ ~Unset /\ ~Copy
    BY <1>3, <2>1 DEF HandleTimers, Unset, Copy
  <2>4. IR \in sync' <=> IR \in sync
    BY <2>2, <2>3 DEF LED, IR, SYS
  <2>5. j = i
    BY <1>0, <2>3, <2>4 DEF Bits, One, LED, IR, SYS
  <2>6. CASE SYS \in sync \/ SYS \notin sync'
    <3>1. y = x
      BY <1>0, <2>3, <2>6 DEF Bits, One, LED, IR, SYS
    <3> QED BY <2>3, <2>5, <3>1
  <2>7. CASE SYS \notin sync /\ SYS \in sync'
    <3>1. y = x \/ y = x + 1
      BY <1>0, <2>3, <2>7 DEF Bits, One, LED, IR, SYS
    <3> QED BY <1>3, <2>3, <2>5, <2>7, <3>1
  <2> QED BY <2>6, <2>7
<1>4. CASE Unset
  <2>1. /\ sync' = sync \ {cur} /\ async' = async /\ posts' = posts /\ pc = "unset"
        /\ ~Copy /\ cur \in sync
    BY <1>4 DEF Unset, Copy, LiveInv, IInv, WorkInv
  <2>2. j <= i
    BY <1>0, <2>1 DEF Bits, One, LED, IR, SYS
  <2>3. y <= x
    BY <1>0, <2>1 DEF Bits, One, LED, IR, SYS
  <2>4. ASSUME Seen(e)
        PROVE  j + y < i + x
    <3>1. cur \in {IR, SYS} /\ e < cur
      <4>1. e \in sync /\ e # cur
        BY <2>1, <2>4 DEF Seen
      <4>2. e <= cur
        BY <2>1, <4>1 DEF LiveInv, OrderInv
      <4>3. cur \in Events
        BY <2>1 DEF LiveInv, IInv, TypeOK
      <4> QED BY <4>1, <4>2, <4>3 DEF Events, LED, IR, SYS
    <3>2. CASE cur = IR
      <4>1. j < i
        BY <1>0, <2>1, <3>1, <3>2 DEF Bits, One, LED, IR, SYS
      <4> QED BY <2>3, <4>1
    <3>3. CASE cur = SYS
      <4>1. y < x
        BY <1>0, <2>1, <3>1, <3>3 DEF Bits, One, LED, IR, SYS
      <4> QED BY <2>2, <4>1
    <3> QED BY <3>1, <3>2, <3>3
  <2> QED BY <2>1, <2>2, <2>3, <2>4
<1>5. CASE Sleep \/ Wake \/ Clean \/ Take \/ LedRegister \/ HandleLed \/ HandleIr \/ HandleSys
  <2>1. UNCHANGED <<async, sync, posts>> /\ ~Unset
    BY <1>5 DEF Sleep, Wake, Clean, Take, LedRegister, HandleLed, HandleIr, HandleSys, Unset
  <2> QED BY <1>1, <2>1
<1>6. ASSUME NEW k \in Tasks, NEW t \in Timers, LedTrigger(k, t) \/ Schedule(k, t)
      PROVE  Goal
  <2>1. UNCHANGED <<async, sync, posts>> /\ ~Unset
    BY <1>6 DEF LedTrigger, Schedule, PostersRun, Unset
  <2> QED BY <1>1, <2>1
<1>7. ASSUME NEW k \in Tasks, Give(k)
      PROVE  Goal
  <2>1. UNCHANGED <<async, sync, posts>> /\ ~Unset
    BY <1>7 DEF Give, PostersRun, Unset
  <2> QED BY <1>1, <2>1
<1>8. ASSUME NEW k \in Tasks, LedPost(k)
      PROVE  Goal
  <2>1. async' = async \cup {LED} /\ UNCHANGED <<sync, posts>> /\ ~Unset /\ ~Copy
    BY <1>8 DEF LedPost, SetAsync, PostersRun, Unset, Copy
  <2>2. j = i /\ y = x
    BY <1>0, <2>1 DEF Bits, One, LED, IR, SYS
  <2> QED BY <2>1, <2>2
<1>9. ASSUME NEW k \in Tasks, Dump(k)
      PROVE  Goal
  <2>1. /\ async' = async \cup {SYS} /\ sync' = sync /\ posts' = posts + 1
        /\ ~Unset /\ ~Copy
    BY <1>9 DEF Dump, SetAsync, PostersRun, Unset, Copy
  <2>2. j = i /\ y <= x + 1
    BY <1>0, <2>1 DEF Bits, One, LED, IR, SYS
  <2> QED BY <2>1, <2>2
<1>10. ASSUME NEW r \in search, Link(r)
      PROVE  Goal
  <2>1. UNCHANGED <<async, sync, posts>> /\ ~Unset
    BY <1>10 DEF Link, PostersRun, Unset
  <2> QED BY <1>1, <2>1
<1>11. CASE IrInterrupt
  <2>1. async' = async \cup {IR} /\ sync' = sync /\ posts' = posts + 1 /\ UNCHANGED pc
    BY <1>11 DEF IrInterrupt, SetAsync
  <2>2. j <= i + 1 /\ y = x
    BY <1>0, <2>1 DEF Bits, One, LED, IR, SYS
  <2>3. ~Unset /\ ~Copy
    BY <2>1 DEF Unset, Copy
  <2> QED BY <2>1, <2>2, <2>3
<1>12. CASE Tick \/ UNCHANGED vars
  <2>1. UNCHANGED <<async, sync, posts>> /\ ~Unset
    BY <1>12 DEF Tick, vars, Unset
  <2> QED BY <1>1, <2>1
<1> HIDE DEF Goal
<1>13. Goal
  BY <1>2, <1>3, <1>4, <1>5, <1>6, <1>7, <1>8, <1>9, <1>10, <1>11, <1>12, Actions
     DEF LoopStep, Timers
<1> QED BY <1>13

\* No step adds to the handlers that may come before e's; fetching e and the end of another
\* handler take one away.
LEMMA OthersLess ==
  ASSUME LiveInv, LiveInv', [Next]_vars, Few, NEW e \in Events, Awaited(e), Awaited(e)'
  PROVE  \E t, u \in 0 .. 205 :
           /\ t = Others(e) /\ u = Others(e)' /\ u <= t
           /\ (Copy /\ ~Seen(e)) \/ (Unset /\ Seen(e)) => u < t
           /\ u = t => Seen(e)' = Seen(e)
<1>1. PICK i, j, x, y \in 0 .. 2 :
        /\ i = Bits(e, IR) /\ j = Bits(e, IR)' /\ x = Bits(e, SYS) /\ y = Bits(e, SYS)'
        /\ \/ j <= i /\ y <= x /\ posts' = posts
           \/ j + y <= i + x + 1 /\ posts' = posts + 1
           \/ j = i /\ y = x + 1 /\ posts' = posts /\ SYS \notin sync /\ SYS \in sync' /\ HandleTimers
        /\ Unset /\ Seen(e) => j + y < i + x /\ posts' = posts
        /\ Copy => j <= i /\ y <= x /\ posts' = posts
  BY BitsStep
<1>2. PICK c, d \in 0 .. 100 :
        /\ c = Cardinality(Unfired) /\ d = Cardinality(Unfired') /\ d <= c
        /\ HandleTimers /\ SYS \notin sync /\ SYS \in sync' => d < c
  BY UnfiredCount DEF LiveInv
<1>3. PICK p, q \in 0 .. 100 :
        /\ p = MaxPosts - posts /\ q = MaxPosts - posts'
        /\ posts' = posts => q = p
        /\ posts' = posts + 1 => q = p - 1
  <2>1. PICK a \in Nat, b \in Nat, m \in Nat : a = posts /\ b = posts' /\ m = MaxPosts
    BY DEF LiveInv, IInv, TypeOK
  <2>2. a <= m /\ b <= m /\ m <= 100
    BY <2>1 DEF LiveInv, Few
  <2>3. m - a \in 0 .. 100 /\ m - b \in 0 .. 100
    BY <2>2
  <2>4. PICK p \in 0 .. 100, q \in 0 .. 100 : p = m - a /\ q = m - b
    BY <2>3
  <2>5. (b = a => q = p) /\ (b = a + 1 => q = p - 1)
    BY <2>4
  <2>6. p = MaxPosts - posts /\ q = MaxPosts - posts'
    BY <2>1, <2>4
  <2>7. (posts' = posts => q = p) /\ (posts' = posts + 1 => q = p - 1)
    BY <2>1, <2>5
  <2> QED BY <2>6, <2>7
<1>4. PICK s, r \in 0 .. 1 : s = One(~Seen(e)) /\ r = One(~Seen(e)')
  BY DEF One
<1>6. r <= s
  <2>1. Seen(e) => Seen(e)'
    BY SeenStays DEF LiveInv
  <2> QED BY <1>4, <2>1 DEF One
<1>7. Copy /\ ~Seen(e) => r < s
  <2>1. e \in async \cup sync
    BY AwaitedSet DEF LiveInv
  <2>2. Copy => Seen(e)'
    BY <2>1 DEF Copy, Seen
  <2> QED BY <1>4, <2>2 DEF One
<1>8. r = s => Seen(e)' = Seen(e)
  <2>1. Seen(e) \in BOOLEAN /\ Seen(e)' \in BOOLEAN
    BY DEF Seen
  <2> QED BY <1>4, <2>1 DEF One
<1>9. PICK t, u \in Int : t = s + p + c + i + x /\ u = r + q + d + j + y
  OBVIOUS
<1>10. t = Others(e)
  BY <1>1, <1>2, <1>3, <1>4, <1>9 DEF Others
<1>11. u = Others(e)'
  BY <1>1, <1>2, <1>3, <1>4, <1>9 DEF Others
<1>12. t \in 0 .. 205 /\ u \in 0 .. 205
  BY <1>9
<1>13. u <= t
  BY <1>1, <1>2, <1>3, <1>6, <1>9
<1>14. Copy /\ ~Seen(e) => u < t
  BY <1>1, <1>2, <1>3, <1>7, <1>9
<1>15. Unset /\ Seen(e) => u < t
  BY <1>1, <1>2, <1>3, <1>6, <1>9
<1>16. u = t => r = s
  BY <1>1, <1>2, <1>3, <1>6, <1>9
<1> QED BY <1>8, <1>10, <1>11, <1>12, <1>13, <1>14, <1>15, <1>16

LEMMA RoundTypes ==
  ASSUME IInv, Few, NEW e
  PROVE  Round(e) \in 1 .. 206
<1>1. PICK d \in 0 .. 100, w \in 0 .. 100 : d = Len(dued) /\ w = Len(waiting)
  BY ShortFacts
<1>2. CASE pc = "clean"
  <2>1. Round(e) = 104 + d
    BY <1>1, <1>2 DEF Round
  <2> QED BY <2>1
<1>3. CASE pc = "handle"
  <2>1. Round(e) = 3 \/ Round(e) = 3 + w
    BY <1>1, <1>3 DEF Round
  <2> QED BY <2>1
<1>4. CASE pc \in {"copy", "idle", "wait", "timers", "unset"}
  <2>1. Round(e) \in {1, 2, 3, 4, 205, 206}
    BY <1>4 DEF Round
  <2> QED BY <2>1
<1> QED BY <1>2, <1>3, <1>4 DEF IInv, TypeOK

LEMMA RoundTypesNext ==
  ASSUME IInv', Few, NEW e
  PROVE  Round(e)' \in 1 .. 206
<1>1. PICK d \in 0 .. 100, w \in 0 .. 100 : d = Len(dued') /\ w = Len(waiting')
  BY ShortFactsNext
<1>2. CASE pc' = "clean"
  <2>1. Round(e)' = 104 + d
    BY <1>1, <1>2 DEF Round
  <2> QED BY <2>1
<1>3. CASE pc' = "handle"
  <2>1. Round(e)' = 3 \/ Round(e)' = 3 + w
    BY <1>1, <1>3 DEF Round
  <2> QED BY <2>1
<1>4. CASE pc' \in {"copy", "idle", "wait", "timers", "unset"}
  <2>1. Round(e)' \in {1, 2, 3, 4, 205, 206}
    BY <1>4 DEF Round
  <2> QED BY <2>1
<1> QED BY <1>2, <1>3, <1>4 DEF IInv, TypeOK

\* Unless a handler is done with, a step of the loop brings the end of the round nearer, and
\* nobody else takes it further away.
LEMMA RoundLess ==
  ASSUME LiveInv, LiveInv', [Next]_vars, Few, NEW e \in Events, Awaited(e), Awaited(e)',
         Seen(e)' = Seen(e), ~(Copy /\ ~Seen(e)), ~(Unset /\ Seen(e))
  PROVE  \E r, q \in 1 .. 206 : r = Round(e) /\ q = Round(e)' /\ q <= r /\ (Help => q < r)
<1> USE DEF loop, events, timers, callers, outside
<1>0. PICK r, q \in 1 .. 206 : r = Round(e) /\ q = Round(e)'
  BY RoundTypes, RoundTypesNext DEF LiveInv
<1> SUFFICES q <= r /\ (Help => q < r)
  BY <1>0
<1>1. IInv /\ IInv' /\ TypeOK
  BY DEF LiveInv, IInv
<1>2. PICK d \in 0 .. 100, w \in 0 .. 100, d1 \in 0 .. 100, w1 \in 0 .. 100 :
        d = Len(dued) /\ w = Len(waiting) /\ d1 = Len(dued') /\ w1 = Len(waiting')
  BY <1>1, ShortFacts, ShortFactsNext
<1>3. CASE Copy
  <2>1. pc = "copy" /\ Seen(e) /\ e \in sync /\ pc' = "timers"
    BY <1>3 DEF Copy, Seen
  <2> QED BY <1>0, <2>1 DEF Round
<1>4. CASE Sleep
  <2>1. pc = "idle" /\ pc' \in {"timers", "wait"}
    BY <1>4 DEF Sleep
  <2>2. r = 206 /\ q <= 205
    BY <1>0, <2>1 DEF Round
  <2> QED BY <2>2
<1>5. CASE Wake
  <2>1. pc = "wait" /\ pc' = "copy" /\ ~Seen(e)
    BY <1>1, <1>5 DEF Wake, IInv, WorkInv, Seen
  <2>2. r >= 3 /\ q = 1
    BY <1>0, <2>1 DEF Round
  <2> QED BY <2>2
<1>6. CASE HandleTimers
  <2>1. pc = "timers" /\ pc' = "clean"
    BY <1>6 DEF HandleTimers
  <2>2. r = 205 /\ q = 104 + d1
    BY <1>0, <1>2, <2>1 DEF Round
  <2> QED BY <2>2
<1>7. CASE Clean
  <2>1. pc = "clean" /\ pc' = "clean" /\ dued # <<>> /\ dued' = Tail(dued) /\ dued \in Seq(Timers)
    BY <1>1, <1>7 DEF Clean, TypeOK
  <2>2. Len(dued') = Len(dued) - 1
    BY <2>1, HeadTailProperties
  <2>3. d1 = d - 1
    BY <1>2, <2>2
  <2>4. r = 104 + d /\ q = 104 + d1
    BY <1>0, <1>2, <2>1 DEF Round
  <2> QED BY <2>3, <2>4
<1>8. CASE Take
  <2>1. pc = "clean" /\ pc' = "handle" /\ UNCHANGED waiting
    BY <1>8 DEF Take
  <2>2. r = 104 + d /\ (q = 3 \/ q = 3 + w1)
    BY <1>0, <1>2, <2>1 DEF Round
  <2> QED BY <2>2
<1>9. CASE LedRegister
  <2>1. /\ pc = "handle" /\ pc' = "handle" /\ cur = LED /\ cur' = LED
        /\ waiting # <<>> /\ waiting' = Tail(waiting) /\ waiting \in Seq(LedTimers)
    BY <1>1, <1>9 DEF LedRegister, TypeOK
  <2>2. Len(waiting') = Len(waiting) - 1
    BY <2>1, HeadTailProperties
  <2>3. w1 = w - 1
    BY <1>2, <2>2
  <2>4. r = 3 + w /\ q = 3 + w1
    BY <1>0, <1>2, <2>1 DEF Round
  <2> QED BY <2>3, <2>4
<1>10. CASE HandleLed \/ HandleIr \/ HandleSys
  <2>1. pc = "handle" /\ pc' = "unset"
    BY <1>10 DEF HandleLed, HandleIr, HandleSys
  <2>2. r >= 3 /\ q = 2
    BY <1>0, <1>2, <2>1 DEF Round
  <2> QED BY <2>2
<1>11. CASE Unset
  <2>1. pc = "unset" /\ pc' = "copy" /\ ~Seen(e)'
    BY <1>11 DEF Unset
  <2>2. r = 2 /\ q = 1
    BY <1>0, <2>1 DEF Round
  <2> QED BY <2>2
<1>12. ASSUME UNCHANGED <<pc, cur, dued>>, notified => notified',
              pc = "handle" /\ cur = LED => waiting' = waiting
       PROVE  q <= r
  <2>1. d1 = d /\ (pc = "handle" /\ cur = LED => w1 = w)
    BY <1>2, <1>12
  <2>2. CASE pc = "wait"
    BY <1>0, <1>12, <2>2 DEF Round
  <2>3. CASE pc = "handle"
    BY <1>0, <1>2, <1>12, <2>1, <2>3 DEF Round
  <2>4. CASE pc = "clean"
    BY <1>0, <1>2, <1>12, <2>1, <2>4 DEF Round
  <2>5. CASE pc \in {"copy", "idle", "timers", "unset"}
    <3>1. pc' = pc
      BY <1>12
    <3> QED BY <1>0, <2>5, <3>1 DEF Round
  <2> QED BY <1>1, <2>2, <2>3, <2>4, <2>5 DEF TypeOK
<1>13. ASSUME ~LoopStep
       PROVE  /\ UNCHANGED <<pc, cur, dued>> /\ (notified => notified')
              /\ pc = "handle" /\ cur = LED => waiting' = waiting
  <2>1. ASSUME NEW j \in Tasks, NEW t \in Timers, LedTrigger(j, t) \/ Schedule(j, t)
        PROVE  UNCHANGED <<pc, cur, dued, notified>> /\ (pc = "handle" /\ cur = LED => waiting' = waiting)
    BY <2>1 DEF LedTrigger, Schedule, PostersRun, LED, IR
  <2>2. ASSUME NEW j \in Tasks, LedPost(j) \/ Dump(j) \/ Give(j)
        PROVE  UNCHANGED <<pc, cur, dued, waiting>> /\ (notified => notified')
    BY <2>2 DEF LedPost, Dump, Give
  <2>3. ASSUME NEW s \in search, Link(s)
        PROVE  UNCHANGED <<pc, cur, dued, waiting, notified>>
    BY <2>3 DEF Link
  <2>4. IrInterrupt \/ Tick \/ UNCHANGED vars
          => UNCHANGED <<pc, cur, dued, waiting>> /\ (notified => notified')
    BY DEF IrInterrupt, Tick, vars
  <2> QED BY <1>13, <2>1, <2>2, <2>3, <2>4, Actions DEF Timers
<1>14. ASSUME NEW j \in Tasks, pc = "wait", ~notified, Give(j)
       PROVE  q < r
  <2>1. pc' = "wait" /\ notified'
    BY <1>14 DEF Give
  <2>2. r = 4 /\ q = 3
    BY <1>0, <1>14, <2>1 DEF Round
  <2> QED BY <2>2
<1>15. LoopStep => q < r
  BY <1>3, <1>4, <1>5, <1>6, <1>7, <1>8, <1>9, <1>10, <1>11 DEF LoopStep, Help
<1>16. q <= r
  BY <1>12, <1>13, <1>15
<1> QED BY <1>14, <1>15, <1>16 DEF Help

-------------------------------------------------------------------------------
\* Somebody's turn: k handlers and n steps from e's own.
At(e, k, n) == Awaited(e) /\ ~torn /\ Others(e) = k /\ Round(e) = n
Below(e, k, n) == ~Awaited(e) \/ torn \/ Others(e) < k \/ (Others(e) <= k /\ Round(e) < n)

LEMMA AtMoves ==
  ASSUME LiveInv, LiveInv', [Next]_vars, Few, NEW e \in Events, NEW k, NEW n, At(e, k, n)
  PROVE  /\ At(e, k, n)' \/ Below(e, k, n)'
         /\ Help => Below(e, k, n)'
<1>1. CASE ~Awaited(e)' \/ torn'
  BY <1>1 DEF Below
<1>2. CASE Awaited(e)' /\ ~torn'
  <2>1. Awaited(e) /\ Others(e) = k /\ Round(e) = n
    BY DEF At
  <2>2. PICK t, u \in 0 .. 205 :
          /\ t = Others(e) /\ u = Others(e)' /\ u <= t
          /\ (Copy /\ ~Seen(e)) \/ (Unset /\ Seen(e)) => u < t
          /\ u = t => Seen(e)' = Seen(e)
    BY <1>2, <2>1, OthersLess
  <2>3. CASE u < t
    BY <2>1, <2>2, <2>3 DEF Below
  <2>4. CASE u = t
    <3>1. Seen(e)' = Seen(e) /\ ~(Copy /\ ~Seen(e)) /\ ~(Unset /\ Seen(e))
      BY <2>2, <2>4
    <3>2. PICK r, q \in 1 .. 206 :
            r = Round(e) /\ q = Round(e)' /\ q <= r /\ (Help => q < r)
      BY <1>2, <2>1, <3>1, RoundLess
    <3>3. Others(e)' = k /\ k <= k /\ Round(e)' = q /\ n = r
      BY <2>1, <2>2, <2>4, <3>2
    <3>4. q < r => Below(e, k, n)'
      BY <3>3 DEF Below
    <3>5. q = r => At(e, k, n)'
      BY <1>2, <3>3 DEF At
    <3> QED BY <3>2, <3>4, <3>5
  <2> QED BY <2>2, <2>3, <2>4
<1> QED BY <1>1, <1>2

\* Nobody but the loop takes its state and its notification away.
LEMMA TurnKept ==
  ASSUME IInv, [Next]_vars, ~LoopStep
  PROVE  /\ pc' = pc /\ (notified => notified')
         /\ \A j \in Tasks : job[j] = "give" /\ ~Give(j) => job'[j] = "give"
<1> USE DEF IInv, TypeOK, loop, events, timers, callers, outside
<1>1. ASSUME NEW i \in Tasks, NEW t \in Timers, LedTrigger(i, t) \/ Schedule(i, t)
      PROVE  /\ UNCHANGED <<pc, notified>>
             /\ \A j \in Tasks : job[j] = "give" => job'[j] = "give"
  BY <1>1 DEF LedTrigger, Schedule
<1>2. ASSUME NEW i \in Tasks, LedPost(i) \/ Dump(i)
      PROVE  /\ UNCHANGED <<pc, notified>>
             /\ \A j \in Tasks : job[j] = "give" => job'[j] = "give"
  BY <1>2 DEF LedPost, Dump
<1>3. ASSUME NEW i \in Tasks, Give(i)
      PROVE  /\ pc' = pc /\ notified'
             /\ \A j \in Tasks : job[j] = "give" /\ ~Give(j) => job'[j] = "give"
  <2>1. \A j \in Tasks \ {i} : job'[j] = job[j]
    BY <1>3 DEF Give
  <2> QED BY <1>3, <2>1 DEF Give
<1>4. ASSUME NEW r \in search, Link(r)
      PROVE  /\ UNCHANGED <<pc, notified>>
             /\ \A j \in Tasks : job[j] = "give" => job'[j] = "give"
  <2>1. job[r.task] = "link" /\ job' = [job EXCEPT ![r.task] = "idle"]
    BY <1>4 DEF Link, TimerInv
  <2> QED BY <1>4, <2>1 DEF Link
<1>5. IrInterrupt \/ Tick \/ UNCHANGED vars
        => UNCHANGED <<pc, job>> /\ (notified => notified')
  BY DEF IrInterrupt, Tick, vars
<1> QED BY <1>1, <1>2, <1>3, <1>4, <1>5, Actions DEF Timers

Awake == [][Next]_vars /\ []LiveInv /\ []LoopCanStep /\ []Fairness

\* The loop goes on.
LEMMA LoopInTheEnd ==
  ASSUME Few, NEW e \in Events, NEW k, NEW n
  PROVE  Awake => (At(e, k, n) /\ (pc # "wait" \/ notified) => <>Below(e, k, n))
<1> DEFINE R == At(e, k, n) /\ (pc # "wait" \/ notified)
<1>1. LiveInv /\ LiveInv' /\ R /\ [Next]_vars => R' \/ Below(e, k, n)'
  <2> SUFFICES ASSUME LiveInv, LiveInv', R, [Next]_vars, ~Below(e, k, n)'
               PROVE  R'
    OBVIOUS
  <2>1. At(e, k, n)' /\ ~LoopStep
    BY AtMoves DEF Help
  <2>2. pc' = pc /\ (notified => notified')
    BY <2>1, TurnKept DEF LiveInv
  <2> QED BY <2>1, <2>2
<1>2. LiveInv /\ LiveInv' /\ R /\ [Next]_vars /\ <<~torn /\ LoopStep>>_vars => Below(e, k, n)'
  BY AtMoves DEF Help
<1>3. LoopCanStep /\ R => ENABLED <<~torn /\ LoopStep>>_vars
  BY DEF LoopCanStep, At
<1>4. Fairness => LoopFair
  BY DEF Fairness
<1> QED BY <1>1, <1>2, <1>3, <1>4, PTL DEF Awake, LoopFair

\* A task that has posted wakes the loop.
LEMMA GivenInTheEnd ==
  ASSUME Few, NEW e \in Events, NEW k, NEW n, NEW j \in Tasks
  PROVE  Awake => (At(e, k, n) /\ pc = "wait" /\ ~notified /\ job[j] = "give"
                     => <>Below(e, k, n))
<1> DEFINE R == At(e, k, n) /\ pc = "wait" /\ ~notified /\ job[j] = "give"
<1>1. LiveInv /\ LiveInv' /\ R /\ [Next]_vars => R' \/ Below(e, k, n)'
  <2> SUFFICES ASSUME LiveInv, LiveInv', R, [Next]_vars, ~Below(e, k, n)'
               PROVE  R'
    OBVIOUS
  <2>1. At(e, k, n)' /\ ~LoopStep /\ ~Give(j)
    BY AtMoves DEF Help
  <2>2. pc' = "wait" /\ job'[j] = "give"
    BY <2>1, TurnKept DEF LiveInv
  <2>3. ~notified'
    <3>1. Round(e)' = n /\ Round(e) = n
      BY <2>1 DEF At
    <3>2. Round(e) = 4
      BY DEF Round
    <3>3. notified' => Round(e)' = 3
      BY <2>2 DEF Round
    <3> QED BY <3>1, <3>2, <3>3
  <2> QED BY <2>1, <2>2, <2>3
<1>2. LiveInv /\ LiveInv' /\ R /\ [Next]_vars /\ <<~torn /\ TaskGoesOn(j)>>_vars
        => Below(e, k, n)'
  <2> SUFFICES ASSUME LiveInv, LiveInv', R, [Next]_vars, TaskGoesOn(j)
               PROVE  Below(e, k, n)'
    OBVIOUS
  <2>1. ~LedPost(j)
    BY DEF LedPost
  <2>2. \A r \in search : r.task # j
    BY DEF LiveInv, IInv, TimerInv
  <2>3. Give(j)
    BY <2>1, <2>2 DEF TaskGoesOn
  <2> QED BY <2>3, AtMoves DEF Help
<1>3. LoopCanStep /\ R => CanGoOn(j)
  BY DEF LoopCanStep, At, PostersRun
<1>4. Fairness => TaskFair(j)
  BY DEF Fairness
<1> QED BY <1>1, <1>2, <1>3, <1>4, PTL DEF Awake, TaskFair, CanGoOn

LEMMA OthersTypes ==
  ASSUME LiveInv, Few, NEW e
  PROVE  Others(e) \in 0 .. 205
<1>1. PICK i \in 0 .. 2, x \in 0 .. 2, s \in 0 .. 1 :
        i = Bits(e, IR) /\ x = Bits(e, SYS) /\ s = One(~Seen(e))
  BY DEF Bits, One
<1>2. PICK c \in 0 .. 100 : c = Cardinality(Unfired)
  <2>1. IsFiniteSet(Timers) /\ Unfired \in SUBSET Timers
    BY DEF Few, Unfired, Timers
  <2>2. Cardinality(Unfired) \in Nat /\ Cardinality(Unfired) <= Cardinality(Timers)
    BY <2>1, FS_Subset, FS_CardinalityType
  <2>3. PICK a \in Nat, b \in Nat : a = Cardinality(Timers) /\ b = Cardinality(Unfired)
    BY <2>1, <2>2, FS_CardinalityType
  <2>4. b <= a /\ a <= 100
    BY <2>2, <2>3 DEF Few
  <2>5. b \in 0 .. 100
    BY <2>4
  <2> QED BY <2>3, <2>5
<1>3. PICK p \in 0 .. 100 : p = MaxPosts - posts
  <2>1. PICK a \in Nat, m \in Nat : a = posts /\ m = MaxPosts
    BY DEF LiveInv, IInv, TypeOK
  <2>2. a <= m /\ m <= 100
    BY <2>1 DEF LiveInv, Few
  <2>3. m - a \in 0 .. 100
    BY <2>2
  <2> QED BY <2>1, <2>3
<1>4. PICK t \in Int : t = s + p + c + i + x
  OBVIOUS
<1>5. t = Others(e)
  BY <1>1, <1>2, <1>3, <1>4 DEF Others
<1>6. t \in 0 .. 205
  BY <1>4
<1> QED BY <1>5, <1>6

\* Whoever's turn it is, e's handler comes nearer.
LEMMA HandlerComesNearer ==
  ASSUME Few, NEW e \in Events, NEW k \in Nat, NEW n \in Nat
  PROVE  Awake => (LiveInv /\ Below(e, k, n + 1) => <>Below(e, k, n))
<1>1. LiveInv /\ Below(e, k, n + 1) =>
        \/ Below(e, k, n)
        \/ At(e, k, n) /\ (pc # "wait" \/ notified)
        \/ \E j \in Tasks : At(e, k, n) /\ pc = "wait" /\ ~notified /\ job[j] = "give"
  <2> SUFFICES ASSUME LiveInv, Below(e, k, n + 1), ~Below(e, k, n)
               PROVE  /\ At(e, k, n)
                      /\ pc = "wait" /\ ~notified => \E j \in Tasks : job[j] = "give"
    OBVIOUS
  <2>1. Awaited(e) /\ ~torn
    BY DEF Below
  <2>2. PICK t \in 0 .. 205, r \in 1 .. 206 : t = Others(e) /\ r = Round(e)
    BY OthersTypes, RoundTypes DEF LiveInv
  <2>3. t <= k /\ r < n + 1 /\ ~(t < k) /\ ~(t <= k /\ r < n)
    BY <2>1, <2>2 DEF Below
  <2>4. t = k /\ r = n
    BY <2>3
  <2>5. At(e, k, n)
    BY <2>1, <2>2, <2>4 DEF At
  <2>6. pc = "wait" /\ ~notified => \E j \in Tasks : job[j] = "give"
    <3>1. e \in async \cup sync
      BY <2>1, AwaitedSet DEF LiveInv
    <3> QED BY <3>1 DEF LiveInv, IInv, WorkInv, WakeInv
  <2> QED BY <2>5, <2>6
<1>2. Awake => (Below(e, k, n) => <>Below(e, k, n))
  BY PTL
<1>3. Awake =>
        ((\/ Below(e, k, n)
          \/ At(e, k, n) /\ (pc # "wait" \/ notified)
          \/ \E j \in Tasks : At(e, k, n) /\ pc = "wait" /\ ~notified /\ job[j] = "give")
         => <>Below(e, k, n))
  BY <1>2, LoopInTheEnd, GivenInTheEnd
<1> QED BY <1>1, <1>3

Drops(e, k, m, n) == Below(e, k, m) ~> Below(e, k, n)

LEMMA OneDrop ==
  ASSUME Few, NEW e \in Events, NEW k \in Nat, NEW m \in Nat, NEW n \in Nat, m = n + 1
  PROVE  Awake => Drops(e, k, m, n)
<1>1. Awake => (LiveInv /\ Below(e, k, m) => <>Below(e, k, n))
  BY HandlerComesNearer
<1> QED BY <1>1, PTL DEF Awake, Drops

\* Two falls, one after the other: the number of steps doubles each time.
DropsBy(e, k, m) == \A n \in Nat : Awake => Drops(e, k, n + m, n)

LEMMA DropsDouble ==
  ASSUME NEW e, NEW k, NEW m \in Nat, DropsBy(e, k, m)
  PROVE  DropsBy(e, k, m + m)
<1> SUFFICES ASSUME NEW n \in Nat PROVE Awake => Drops(e, k, n + (m + m), n)
  BY DEF DropsBy
<1>1. n + m \in Nat /\ (n + m) + m = n + (m + m)
  OBVIOUS
<1>2. Awake => Drops(e, k, n + m, n)
  BY DEF DropsBy
<1>3. Awake => Drops(e, k, (n + m) + m, n + m)
  BY <1>1 DEF DropsBy
<1>4. Awake => Drops(e, k, (n + m) + m, n)
  BY <1>2, <1>3, PTL DEF Drops
<1> QED BY <1>1, <1>4

\* A round ends, whose steps are too many to be taken one by one.
LEMMA RoundEnds ==
  ASSUME Few, NEW e \in Events, NEW k \in Nat
  PROVE  Awake => Drops(e, k, 1 + 256, 1)
<1>0. DropsBy(e, k, 1)
  BY OneDrop DEF DropsBy
<1>1. DropsBy(e, k, 2)
  BY <1>0, DropsDouble
<1>2. DropsBy(e, k, 4)
  BY <1>1, 2 + 2 = 4, DropsDouble
<1>3. DropsBy(e, k, 8)
  BY <1>2, 4 + 4 = 8, DropsDouble
<1>4. DropsBy(e, k, 16)
  BY <1>3, 8 + 8 = 16, DropsDouble
<1>5. DropsBy(e, k, 32)
  BY <1>4, 16 + 16 = 32, DropsDouble
<1>6. DropsBy(e, k, 64)
  BY <1>5, 32 + 32 = 64, DropsDouble
<1>7. DropsBy(e, k, 128)
  BY <1>6, 64 + 64 = 128, DropsDouble
<1>8. DropsBy(e, k, 256)
  BY <1>7, 128 + 128 = 256, DropsDouble
<1> QED BY <1>8 DEF DropsBy

Sooner(e, k) == ~Awaited(e) \/ torn \/ Others(e) < k
Falls(e, l, m) == Sooner(e, l) ~> Sooner(e, m)

\* After it, fewer handlers run before e's.
LEMMA OneFall ==
  ASSUME Few, NEW e \in Events, NEW l \in Nat, NEW m \in Nat, l = m + 1
  PROVE  Awake => Falls(e, l, m)
<1>1. LiveInv /\ Sooner(e, l) => Below(e, m, 1 + 256)
  <2> SUFFICES ASSUME LiveInv, Sooner(e, l) PROVE Below(e, m, 1 + 256)
    OBVIOUS
  <2>1. PICK t \in 0 .. 205, r \in 1 .. 206 : t = Others(e) /\ r = Round(e)
    BY OthersTypes, RoundTypes DEF LiveInv
  <2>2. t < l => t <= m /\ r < 1 + 256
    OBVIOUS
  <2> QED BY <2>1, <2>2 DEF Sooner, Below
<1>2. LiveInv /\ Below(e, m, 1) => Sooner(e, m)
  <2> SUFFICES ASSUME LiveInv, Below(e, m, 1) PROVE Sooner(e, m)
    OBVIOUS
  <2>1. PICK r \in 1 .. 206 : r = Round(e)
    BY RoundTypes DEF LiveInv
  <2>2. ~(r < 1)
    OBVIOUS
  <2> QED BY <2>1, <2>2 DEF Sooner, Below
<1>3. Awake => Drops(e, m, 1 + 256, 1)
  BY RoundEnds
<1> QED BY <1>1, <1>2, <1>3, PTL DEF Awake, Drops, Falls

FallsBy(e, m) == \A n \in Nat : Awake => Falls(e, n + m, n)

LEMMA FallsDouble ==
  ASSUME NEW e, NEW m \in Nat, FallsBy(e, m)
  PROVE  FallsBy(e, m + m)
<1> SUFFICES ASSUME NEW n \in Nat PROVE Awake => Falls(e, n + (m + m), n)
  BY DEF FallsBy
<1>1. n + m \in Nat /\ (n + m) + m = n + (m + m)
  OBVIOUS
<1>2. Awake => Falls(e, n + m, n)
  BY DEF FallsBy
<1>3. Awake => Falls(e, (n + m) + m, n + m)
  BY <1>1 DEF FallsBy
<1>4. Awake => Falls(e, (n + m) + m, n)
  BY <1>2, <1>3, PTL DEF Falls
<1> QED BY <1>1, <1>4

\* Its own handler is the next.
LEMMA TurnComes ==
  ASSUME Few, NEW e \in Events
  PROVE  Awake => Falls(e, 0 + 256, 0)
<1>0. FallsBy(e, 1)
  BY OneFall DEF FallsBy
<1>1. FallsBy(e, 2)
  BY <1>0, FallsDouble
<1>2. FallsBy(e, 4)
  BY <1>1, 2 + 2 = 4, FallsDouble
<1>3. FallsBy(e, 8)
  BY <1>2, 4 + 4 = 8, FallsDouble
<1>4. FallsBy(e, 16)
  BY <1>3, 8 + 8 = 16, FallsDouble
<1>5. FallsBy(e, 32)
  BY <1>4, 16 + 16 = 32, FallsDouble
<1>6. FallsBy(e, 64)
  BY <1>5, 32 + 32 = 64, FallsDouble
<1>7. FallsBy(e, 128)
  BY <1>6, 64 + 64 = 128, FallsDouble
<1>8. FallsBy(e, 256)
  BY <1>7, 128 + 128 = 256, FallsDouble
<1> QED BY <1>8 DEF FallsBy

\* Whatever is posted gets to its handler, however many timers are due before and whoever posts
\* meanwhile (bloop_base.c:201-259): while an event waits, handlers of higher events run only for
\* what is set, can still be posted or is left to a timer, and every step of the loop, and every
\* wakeup, brings the next of them, and in the end its own, nearer.
THEOREM EventsHandled ==
  Few => (Spec /\ []Fairness /\ []LoopCanStep => Handled)
<1> SUFFICES ASSUME Few
             PROVE  Spec /\ []Fairness /\ []LoopCanStep => Handled
  OBVIOUS
<1>1. ASSUME NEW e \in Events
      PROVE  Spec /\ []Fairness /\ []LoopCanStep
               => (Pending(e) # {} ~> (Pending(e) = {} \/ torn))
  <2>1. LiveInv => Sooner(e, 0 + 256)
    <3> SUFFICES ASSUME LiveInv PROVE Sooner(e, 0 + 256)
      OBVIOUS
    <3>1. PICK t \in 0 .. 205 : t = Others(e)
      BY OthersTypes
    <3>2. t < 0 + 256
      OBVIOUS
    <3> QED BY <3>1, <3>2 DEF Sooner
  <2>2. LiveInv /\ Sooner(e, 0) => Pending(e) = {} \/ torn
    <3> SUFFICES ASSUME LiveInv, Sooner(e, 0), ~torn PROVE Pending(e) = {}
      OBVIOUS
    <3>1. PICK t \in 0 .. 205 : t = Others(e)
      BY OthersTypes
    <3>2. ~(t < 0)
      OBVIOUS
    <3> QED BY <3>1, <3>2 DEF Sooner, Awaited
  <2>3. Awake => Falls(e, 0 + 256, 0)
    BY TurnComes
  <2> QED BY <2>1, <2>2, <2>3, LiveInvariance, PTL DEF Spec, Awake, Falls
<1> QED BY <1>1 DEF Handled
===============================================================================
