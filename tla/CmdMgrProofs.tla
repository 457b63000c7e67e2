----------------------------- MODULE CmdMgrProofs -----------------------------
(***************************************************************************)
(* The command manager keeps its inductive invariant, for any number of    *)
(* tasks, commands and slots: first the list, the tokens, the callers and  *)
(* the mailbox (IInv), then, with the help of the order of the list, what  *)
(* the firmware still has to confirm and what the callers are told         *)
(* (AnswerInv), then that it implements CmdChannel, last that every call   *)
(* returns and every command is answered.                                  *)
(***************************************************************************)
EXTENDS CmdMgr, ListLemmas

\* The list holds commands only.
LEMMA QueuedFacts == TypeOK => \A d \in Queued : d \in Cmds
<1> SUFFICES ASSUME cmds \in Seq(Cmds), NEW d \in Queued PROVE d \in Cmds
  BY DEF TypeOK
<1>1. PICK i \in 1 .. Len(cmds) : d = cmds[i]
  BY DEF Queued
<1> QED BY <1>1, ElementOfSeq

\* cmd_complete takes exactly its command out of the list and leaves the
\* others in their order.
LEMMA CompleteFacts ==
  ASSUME cmds \in Seq(Cmds), ListInv,
         NEW c \in Queued, NEW fl, NEW res, CmdComplete(c, fl, res)
  PROVE  /\ cmds' \in Seq(Cmds)
         /\ Len(cmds) \in Nat /\ Len(cmds) > 0 /\ Len(cmds') = Len(cmds) - 1
         /\ Queued' = Queued \ {c}
         /\ \A i, j \in 1 .. Len(cmds') : cmds'[i] = cmds'[j] => i = j
         /\ \A i, j \in 1 .. Len(cmds') : i < j =>
              \E k, l \in 1 .. Len(cmds) :
                k < l /\ cmds[k] = cmds'[i] /\ cmds[l] = cmds'[j]
<1>1. Position(c) \in 1 .. Len(cmds) /\ cmds[Position(c)] = c
  BY DEF Position, Queued
<1>2. cmds' = RemoveAt(cmds, Position(c))
  BY DEF CmdComplete
<1>3. Len(cmds) \in Nat /\ Len(cmds) > 0
  BY <1>1, LenProperties
<1>4. /\ cmds' \in Seq(Cmds)
      /\ Len(cmds') = Len(cmds) - 1
  BY <1>1, <1>2, RemoveAtFacts
<1>5. \A i, j \in 1 .. Len(cmds) : cmds[i] = cmds[j] => i = j
  BY DEF ListInv
<1>6. /\ {cmds'[k] : k \in 1 .. Len(cmds')} = {cmds[k] : k \in 1 .. Len(cmds)} \ {c}
      /\ \A i, j \in 1 .. Len(cmds') : cmds'[i] = cmds'[j] => i = j
      /\ \A i, j \in 1 .. Len(cmds') : i < j =>
           \E k, l \in 1 .. Len(cmds) :
             k < l /\ cmds[k] = cmds'[i] /\ cmds[l] = cmds'[j]
  <2> DEFINE r == RemoveAt(cmds, Position(c))
  <2>1. /\ {r[k] : k \in 1 .. Len(r)} = {cmds[k] : k \in 1 .. Len(cmds)} \ {cmds[Position(c)]}
        /\ \A i, j \in 1 .. Len(r) : r[i] = r[j] => i = j
        /\ \A i, j \in 1 .. Len(r) : i < j =>
             \E k, l \in 1 .. Len(cmds) : k < l /\ cmds[k] = r[i] /\ cmds[l] = r[j]
    <3> HIDE DEF Position
    <3> QED BY <1>1, <1>5, RemoveAtElements
  <2> HIDE DEF r
  <2>2. cmds' = r
    BY <1>2 DEF r
  <2>3. {cmds'[k] : k \in 1 .. Len(cmds')} = {cmds[k] : k \in 1 .. Len(cmds)} \ {c}
    <3>1. {cmds'[k] : k \in 1 .. Len(cmds')} = {r[k] : k \in 1 .. Len(r)}
      BY <2>2
    <3>2. @ = {cmds[k] : k \in 1 .. Len(cmds)} \ {cmds[Position(c)]}
      BY <2>1
    <3>3. @ = {cmds[k] : k \in 1 .. Len(cmds)} \ {c}
      BY <1>1
    <3> QED BY <3>1, <3>2, <3>3
  <2>4. \A i, j \in 1 .. Len(cmds') : cmds'[i] = cmds'[j] => i = j
    BY <2>1, <2>2
  <2>5. \A i, j \in 1 .. Len(cmds') : i < j =>
          \E k, l \in 1 .. Len(cmds) :
            k < l /\ cmds[k] = cmds'[i] /\ cmds[l] = cmds'[j]
    BY <2>1, <2>2
  <2> QED BY <2>3, <2>4, <2>5
<1> QED BY <1>3, <1>4, <1>6 DEF Queued

\* What QueueAdd does to the list.
LEMMA AppendFacts ==
  ASSUME cmds \in Seq(Cmds), NEW c \in Cmds, cmds' = Append(cmds, c)
  PROVE  /\ cmds' \in Seq(Cmds)
         /\ Len(cmds) \in Nat /\ Len(cmds') = Len(cmds) + 1
         /\ \A i \in 1 .. Len(cmds) : cmds'[i] = cmds[i]
         /\ cmds'[Len(cmds) + 1] = c
         /\ Queued' = Queued \cup {c}
<1>1. /\ cmds' \in Seq(Cmds)
      /\ Len(cmds) \in Nat /\ Len(cmds') = Len(cmds) + 1
      /\ \A i \in 1 .. Len(cmds) : cmds'[i] = cmds[i]
      /\ cmds'[Len(cmds) + 1] = c
  BY AppendProperties, LenProperties
<1>2. Queued' = Queued \cup {c}
  <2>1. ASSUME NEW i \in 1 .. Len(cmds')
        PROVE  cmds'[i] \in Queued \cup {c}
    BY <1>1 DEF Queued
  <2>2. ASSUME NEW d \in Queued \cup {c}
        PROVE  \E i \in 1 .. Len(cmds') : cmds'[i] = d
    BY <1>1 DEF Queued
  <2> QED BY <2>1, <2>2 DEF Queued
<1> QED BY <1>1, <1>2

\* The first commands of the list that wait for their push: at most one.
LEMMA NextPosUnique ==
  ASSUME Len(cmds) \in Nat
  PROVE  /\ NextPos \subseteq 1 .. Len(cmds)
         /\ \A i, j \in NextPos : i = j
  BY DEF NextPos

\* The cleared manager has its types.
LEMMA TypeInit == Init => TypeOK
<1> SUFFICES ASSUME Init PROVE TypeOK
  OBVIOUS
<1>1. (CHOOSE i \in Ids : TRUE) \in Ids
  BY IdsAssumption
<1>2. cmds \in Seq(Cmds) /\ work \in Seq(Cmds)
  BY EmptySeq DEF Init
<1> QED BY <1>1, <1>2 DEF Init, TypeOK, Flags, Results

\* The cleared manager satisfies the invariant.
LEMMA InvInit == Init => IInv
<1> SUFFICES ASSUME Init PROVE IInv
  OBVIOUS
<1>1. TypeOK
  BY TypeInit
<1>2. Len(cmds) = 0 /\ Queued = {}
  BY DEF Init, Queued
<1>3. ListInv
  BY <1>2, MaxQueuedAssumption DEF Init, ListInv, QueueBounded
<1>4. ChainInv
  BY <1>2 DEF Init, ChainInv
<1>5. TokenInv
  BY <1>2 DEF Init, TokenInv, Given
<1>6. TaskInv
  BY <1>2 DEF Init, TaskInv
<1>7. MailInv
  BY <1>2 DEF Init, MailInv
<1> QED BY <1>1, <1>3, <1>4, <1>5, <1>6, <1>7 DEF IInv

(***************************************************************************)
(* The steps that leave the list as it is                                  *)
(***************************************************************************)

\* bl_send_msg hands a new block to cmd_mgr_queue.
LEMMA SendInv ==
  ASSUME IInv, NEW t \in Tasks, NEW c \in Cmds, NEW k \in Kinds, Send(t, c, k)
  PROVE  IInv'
<1> USE DEF IInv, Send, mgrVars, ipcVars, fwVars, ghost
<1>1. cmds' = cmds /\ Queued' = Queued
  BY DEF Queued
<1>2. TypeOK'
  BY KindsAssumption, NoneAssumption DEF TypeOK, Flags, Results
<1>3. ListInv'
  BY <1>1 DEF ListInv, QueueBounded, TypeOK, TaskInv, MailInv, Given, WaitComplete
<1>4. ChainInv'
  <2>1. \A d \in Queued : d # c /\ flags'[d] = flags[d]
    <3>1. \A d \in Queued : d \in Cmds /\ heap[d] = "live"
      BY QueuedFacts DEF ListInv
    <3> QED BY <3>1 DEF TypeOK
  <2>2. \A i \in 1 .. Len(cmds) : cmds[i] \in Queued
    BY DEF Queued
  <2> QED BY <1>1, <2>1, <2>2 DEF ChainInv
<1>5. TokenInv'
  BY <1>1 DEF TokenInv, TypeOK, ListInv, TaskInv, MailInv, Given
<1>6. TaskInv'
  BY <1>1 DEF TaskInv, TypeOK, ListInv, MailInv, ChainInv, Given
<1>7. MailInv'
  BY <1>1, NoneAssumption DEF MailInv, TypeOK, ListInv, ChainInv, TaskInv, Given
<1> QED BY <1>2, <1>3, <1>4, <1>5, <1>6, <1>7

\* A crashed or full manager refuses the command.
LEMMA RefuseInv ==
  ASSUME IInv, NEW t \in Tasks, NEW err \in {"EPIPE", "ENOMEM"}, pc[t] = "queue", Refuse(t, err)
  PROVE  IInv'
<1> USE DEF IInv, Refuse, mgrVars, ipcVars, fwVars, ghost
<1>1. cmds' = cmds /\ Queued' = Queued
  BY DEF Queued
<1>2. TypeOK'
  BY NoneAssumption DEF TypeOK, Flags, Results
<1>3. ListInv'
  BY <1>1 DEF ListInv, QueueBounded, TypeOK, TaskInv, MailInv, Given, WaitComplete
<1>4. ChainInv'
  BY <1>1 DEF ChainInv, TypeOK, ListInv, TaskInv, Given
<1>5. TokenInv'
  BY <1>1 DEF TokenInv, TypeOK, ListInv, TaskInv, MailInv, Given
<1>6. TaskInv'
  BY <1>1 DEF TaskInv, TypeOK, ListInv, MailInv, ChainInv, Given
<1>7. MailInv'
  BY <1>1, NoneAssumption DEF MailInv, TypeOK, ListInv, ChainInv, TaskInv, Given
<1> QED BY <1>2, <1>3, <1>4, <1>5, <1>6, <1>7

\* The push outside the lock finds the mailbox free.
LEMMA QueuePushInv ==
  ASSUME IInv, NEW t \in Tasks, QueuePush(t)
  PROVE  IInv'
<1> USE DEF IInv, QueuePush, MsgPush, AfterQueue, mgrVars, ipcVars, fwVars, ghost
<1>1. cmds' = cmds /\ Queued' = Queued
  BY DEF Queued
<1>2. TypeOK'
  BY NoneAssumption DEF TypeOK, Flags, Results
<1>3. ListInv'
  BY <1>1 DEF ListInv, QueueBounded, TypeOK, TaskInv, MailInv, Given, WaitComplete
<1>4. ChainInv'
  BY <1>1 DEF ChainInv, TypeOK, ListInv, TaskInv, Given
<1>5. TokenInv'
  BY <1>1 DEF TokenInv, TypeOK, ListInv, TaskInv, MailInv, Given
<1>6. TaskInv'
  BY <1>1 DEF TaskInv, TypeOK, ListInv, MailInv, ChainInv, Given
<1>7. MailInv'
  <2>1. ASSUME NEW u \in Tasks, u # t, pc[u] = "push"
        PROVE  FALSE
    <3>1. PICK i \in 1 .. Len(cmds) : cmds[i] = mine[t]
      BY DEF TaskInv, Queued
    <3>2. PICK j \in 1 .. Len(cmds) : cmds[j] = mine[u]
      BY <2>1 DEF TaskInv, Queued
    <3>3. mine[t] # mine[u]
      BY <2>1 DEF TaskInv
    <3>4. i < j \/ j < i
      BY <3>1, <3>2, <3>3, LenProperties DEF TypeOK
    <3> QED BY <2>1, <3>1, <3>2, <3>4 DEF ChainInv, TaskInv
  <2>2. pc'[t] # "push"
    BY DEF TypeOK
  <2> QED BY <1>1, <2>1, <2>2, NoneAssumption DEF MailInv, TypeOK, ListInv, ChainInv, TaskInv, Given
<1> QED BY <1>2, <1>3, <1>4, <1>5, <1>6, <1>7

\* The return from cmd_mgr_queue without a wait.
LEMMA NoWaitInv ==
  ASSUME IInv, NEW t \in Tasks, NoWait(t)
  PROVE  IInv'
<1> USE DEF IInv, NoWait, mgrVars, ipcVars, fwVars, ghost
<1>1. cmds' = cmds /\ Queued' = Queued
  BY DEF Queued
<1>2. TypeOK'
  BY NoneAssumption DEF TypeOK, Flags, Results
<1>3. ListInv'
  BY <1>1 DEF ListInv, QueueBounded, TypeOK, TaskInv, MailInv, Given, WaitComplete
<1>4. ChainInv'
  BY <1>1 DEF ChainInv, TypeOK, ListInv, TaskInv, Given
<1>5. TokenInv'
  BY <1>1 DEF TokenInv, TypeOK, ListInv, TaskInv, MailInv, Given
<1>6. TaskInv'
  BY <1>1 DEF TaskInv, TypeOK, ListInv, MailInv, ChainInv, Given
<1>7. MailInv'
  BY <1>1, NoneAssumption DEF MailInv, TypeOK, ListInv, ChainInv, TaskInv, Given
<1> QED BY <1>2, <1>3, <1>4, <1>5, <1>6, <1>7

\* A waiting caller takes the semaphore.
LEMMA WakeInv ==
  ASSUME IInv, NEW t \in Tasks, Wake(t)
  PROVE  IInv'
<1> USE DEF IInv, Wake, mgrVars, ipcVars, fwVars, ghost
<1>1. cmds' = cmds /\ Queued' = Queued
  BY DEF Queued
<1>2. TypeOK'
  BY NoneAssumption DEF TypeOK, Flags, Results
<1>3. ListInv'
  BY <1>1 DEF ListInv, QueueBounded, TypeOK, TaskInv, MailInv, Given, WaitComplete
<1>4. ChainInv'
  BY <1>1 DEF ChainInv, TypeOK, ListInv, TaskInv, Given
<1>5. TokenInv'
  BY <1>1 DEF TokenInv, TypeOK, ListInv, TaskInv, MailInv, Given
<1>6. TaskInv'
  BY <1>1 DEF TaskInv, TypeOK, ListInv, MailInv, ChainInv, Given
<1>7. MailInv'
  BY <1>1, NoneAssumption DEF MailInv, TypeOK, ListInv, ChainInv, TaskInv, Given
<1> QED BY <1>2, <1>3, <1>4, <1>5, <1>6, <1>7

\* The wait of a caller ends without the semaphore.
LEMMA TimeoutInv ==
  ASSUME IInv, NEW t \in Tasks, Timeout(t)
  PROVE  IInv'
<1> USE DEF IInv, Timeout, cmdVars, mgrVars, ipcVars, fwVars, ghost
<1>1. cmds' = cmds /\ Queued' = Queued
  BY DEF Queued
<1>2. TypeOK'
  BY NoneAssumption DEF TypeOK, Flags, Results
<1>3. ListInv'
  BY <1>1 DEF ListInv, QueueBounded, TypeOK, TaskInv, MailInv, Given, WaitComplete
<1>4. ChainInv'
  BY <1>1 DEF ChainInv, TypeOK, ListInv, TaskInv, Given
<1>5. TokenInv'
  BY <1>1 DEF TokenInv, TypeOK, ListInv, TaskInv, MailInv, Given
<1>6. TaskInv'
  BY <1>1 DEF TaskInv, TypeOK, ListInv, MailInv, ChainInv, Given
<1>7. MailInv'
  BY <1>1, NoneAssumption DEF MailInv, TypeOK, ListInv, ChainInv, TaskInv, Given
<1> QED BY <1>2, <1>3, <1>4, <1>5, <1>6, <1>7

\* A blocking caller returns and frees its block.
LEMMA ReturnInv ==
  ASSUME IInv, NEW t \in Tasks, Return(t)
  PROVE  IInv'
<1> USE DEF IInv, Return, mgrVars, ipcVars, fwVars, ghost
<1>1. cmds' = cmds /\ Queued' = Queued
  BY DEF Queued
<1>2. TypeOK'
  BY NoneAssumption DEF TypeOK, Flags, Results
<1>3. ListInv'
  BY <1>1 DEF ListInv, QueueBounded, TypeOK, TaskInv, MailInv, Given, WaitComplete
<1>4. ChainInv'
  BY <1>1 DEF ChainInv, TypeOK, ListInv, TaskInv, Given
<1>5. TokenInv'
  BY <1>1 DEF TokenInv, TypeOK, ListInv, TaskInv, MailInv, Given
<1>6. TaskInv'
  BY <1>1 DEF TaskInv, TypeOK, ListInv, MailInv, ChainInv, Given
<1>7. MailInv'
  BY <1>1, NoneAssumption DEF MailInv, TypeOK, ListInv, ChainInv, TaskInv, Given
<1> QED BY <1>2, <1>3, <1>4, <1>5, <1>6, <1>7

\* The acknowledgement interrupt empties the mailbox.
LEMMA MsgAckInv ==
  ASSUME IInv, MsgAck
  PROVE  IInv'
<1> USE DEF IInv, MsgAck, cmdVars, taskVars, mgrVars, ipcVars, fwVars, ghost
<1>1. cmds' = cmds /\ Queued' = Queued
  BY DEF Queued
<1>2. TypeOK'
  BY NoneAssumption DEF TypeOK, Flags, Results
<1>3. ListInv'
  BY <1>1 DEF ListInv, QueueBounded, TypeOK, TaskInv, MailInv, Given, WaitComplete
<1>4. ChainInv'
  BY <1>1 DEF ChainInv, TypeOK, ListInv, TaskInv, Given
<1>5. TokenInv'
  BY <1>1 DEF TokenInv, TypeOK, ListInv, TaskInv, MailInv, Given
<1>6. TaskInv'
  BY <1>1 DEF TaskInv, TypeOK, ListInv, MailInv, ChainInv, Given
<1>7. MailInv'
  BY <1>1, NoneAssumption DEF MailInv, TypeOK, ListInv, ChainInv, TaskInv, Given
<1> QED BY <1>2, <1>3, <1>4, <1>5, <1>6, <1>7

\* An acknowledgement for a freed command: only in the crashed state.
LEMMA LlindCorruptInv ==
  ASSUME IInv, LlindCorrupt
  PROVE  IInv'
<1> USE DEF IInv, LlindCorrupt, cmdVars, taskVars, ipcVars, fwVars, mgrVars, ghost
<1>1. cmds' = cmds /\ Queued' = Queued
  BY DEF Queued
<1>2. TypeOK'
  BY NoneAssumption DEF TypeOK, Flags, Results
<1>3. ListInv'
  BY <1>1 DEF ListInv, QueueBounded, TypeOK, TaskInv, MailInv, Given, WaitComplete
<1>4. ChainInv'
  BY <1>1 DEF ChainInv, TypeOK, ListInv, TaskInv, Given
<1>5. TokenInv'
  BY <1>1 DEF TokenInv, TypeOK, ListInv, TaskInv, MailInv, Given
<1>6. TaskInv'
  BY <1>1 DEF TaskInv, TypeOK, ListInv, MailInv, ChainInv, Given
<1>7. MailInv'
  BY <1>1, NoneAssumption DEF MailInv, TypeOK, ListInv, ChainInv, TaskInv, Given
<1> QED BY <1>2, <1>3, <1>4, <1>5, <1>6, <1>7

\* The firmware takes the message of the mailbox.
LEMMA FwAcceptInv ==
  ASSUME IInv, FwAccept
  PROVE  IInv'
<1> USE DEF IInv, FwAccept, cmdVars, taskVars, ipcVars, mgrVars, fwVars, ghost
<1>1. cmds' = cmds /\ Queued' = Queued
  BY DEF Queued
<1>2. TypeOK'
  BY AppendProperties DEF TypeOK, Flags, Results
<1>3. ListInv'
  BY <1>1 DEF ListInv, QueueBounded, TypeOK, TaskInv, MailInv, Given, WaitComplete
<1>4. ChainInv'
  BY <1>1 DEF ChainInv, TypeOK, ListInv, TaskInv, Given
<1>5. TokenInv'
  BY <1>1 DEF TokenInv, TypeOK, ListInv, TaskInv, MailInv, Given
<1>6. TaskInv'
  BY <1>1 DEF TaskInv, TypeOK, ListInv, MailInv, ChainInv, Given
<1>7. MailInv'
  BY <1>1, NoneAssumption DEF MailInv, TypeOK, ListInv, ChainInv, TaskInv, Given
<1> QED BY <1>2, <1>3, <1>4, <1>5, <1>6, <1>7
(***************************************************************************)
(* The steps that change the list                                          *)
(***************************************************************************)

\* When nothing defers the next command, nothing listed waits for its
\* acknowledgement, the mailbox is empty and nobody is about to fill it.
LEMMA NoDeferMeansQuiet ==
  ASSUME IInv, state # "CRASHED", ~Defers
  PROVE  /\ \A c \in Queued : "WAIT_ACK" \notin flags[c]
         /\ hostid = None /\ taken = None
         /\ \A t \in Tasks : pc[t] # "push"
<1>1. \A c \in Queued : "WAIT_ACK" \notin flags[c]
  <2>1. SUFFICES ASSUME NEW i \in 1 .. Len(cmds), "WAIT_ACK" \in flags[cmds[i]]
                 PROVE  FALSE
    BY DEF Queued
  <2>2. Len(cmds) \in Nat /\ Len(cmds) \in 1 .. Len(cmds) /\ i <= Len(cmds)
    BY LenProperties DEF IInv, TypeOK
  <2>3. cmds # <<>>
    BY <2>2, EmptySeq
  <2>4. i < Len(cmds)
    BY <2>1, <2>2, <2>3 DEF Defers
  <2> QED BY <2>1, <2>2, <2>3, <2>4 DEF Defers, IInv, ChainInv
<1>2. hostid = None /\ taken = None
  BY <1>1 DEF IInv, MailInv
<1>3. \A t \in Tasks : pc[t] # "push"
  BY <1>1 DEF IInv, TaskInv
<1> QED BY <1>1, <1>2, <1>3

\* cmd_mgr_queue appends the command to the list.
LEMMA QueueAddInv ==
  ASSUME IInv, NEW t \in Tasks, QueueAdd(t)
  PROVE  IInv'
<1> DEFINE c == mine[t]
<1> USE DEF IInv, ipcVars, fwVars, ghost
<1>1. /\ c \in Cmds /\ c \notin Queued /\ heap[c] = "live" /\ c \in a2eMsg
      /\ flags[c] \subseteq {"NONBLOCK", "REQ_CFM"}
      /\ pc[t] = "queue" /\ state # "CRASHED" /\ state' = state
  BY DEF QueueAdd, TaskInv, TypeOK
<1>2. /\ cmds' \in Seq(Cmds)
      /\ Len(cmds) \in Nat /\ Len(cmds') = Len(cmds) + 1
      /\ \A i \in 1 .. Len(cmds) : cmds'[i] = cmds[i]
      /\ cmds'[Len(cmds) + 1] = c
      /\ Queued' = Queued \cup {c}
  <2>1. cmds' = Append(cmds, c)
    BY DEF QueueAdd
  <2> QED BY <1>1, <2>1, AppendFacts DEF TypeOK
<1>3. \A i \in 1 .. Len(cmds) : cmds[i] \in Queued /\ cmds[i] # c
  BY <1>1 DEF Queued
<1>4. /\ \A d \in Cmds : d # c => flags'[d] = flags[d]
      /\ flags' \in [Cmds -> SUBSET Flags]
      /\ "WAIT_ACK" \in flags'[c] /\ "DONE" \notin flags'[c]
      /\ "WAIT_PUSH" \in flags'[c] <=> Defers
      /\ "NONBLOCK" \in flags'[c] <=> "NONBLOCK" \in flags[c]
  <2> DEFINE fc == flags[c] \cup {"WAIT_ACK"}
                     \cup (IF Defers THEN {"WAIT_PUSH"} ELSE {})
                     \cup (IF "REQ_CFM" \in flags[c] THEN {"WAIT_CFM"} ELSE {})
  <2>1. flags' = [flags EXCEPT ![c] = fc]
    BY DEF QueueAdd
  <2>2. flags \in [Cmds -> SUBSET Flags]
    BY DEF TypeOK
  <2>3. fc \subseteq Flags
    BY <1>1 DEF Flags
  <2>4. /\ "WAIT_ACK" \in fc /\ "DONE" \notin fc
        /\ "WAIT_PUSH" \in fc <=> Defers
        /\ "NONBLOCK" \in fc <=> "NONBLOCK" \in flags[c]
    BY <1>1
  <2> HIDE DEF fc
  <2> QED BY <1>1, <2>1, <2>2, <2>3, <2>4
<1>5. \A d \in Queued : d \in Cmds /\ d # c
  BY <1>1, QueuedFacts
<1>6. TypeOK'
  BY <1>1, <1>2, <1>4 DEF QueueAdd, TypeOK, Results, AfterQueue
<1>7. ListInv'
  <2>1. queue_sz' = Len(cmds') /\ queue_sz' <= MaxQueued
    <3>1. queue_sz # MaxQueued
      <4>1. CASE cmds = <<>>
        BY <4>1, MaxQueuedAssumption DEF ListInv, QueueBounded
      <4>2. CASE cmds # <<>>
        BY <4>2 DEF QueueAdd, Full
      <4> QED BY <4>1, <4>2
    <3> QED BY <3>1, <1>2, MaxQueuedAssumption DEF QueueAdd, ListInv, QueueBounded
  <2>2. \A i, j \in 1 .. Len(cmds') : cmds'[i] = cmds'[j] => i = j
    BY <1>2, <1>3 DEF ListInv
  <2>3. \A d \in Queued' : /\ heap'[d] = "live" /\ "DONE" \notin flags'[d]
                           /\ ~WaitComplete(flags'[d]) /\ d \notin complete'
    BY <1>1, <1>2, <1>4, <1>5 DEF QueueAdd, ListInv, WaitComplete
  <2> QED BY <2>1, <2>2, <2>3 DEF ListInv, QueueBounded
<1>8. ChainInv'
  <2>1. ASSUME NEW i \in 1 .. Len(cmds'), NEW j \in 1 .. Len(cmds'),
               i < j, "WAIT_ACK" \in flags'[cmds'[i]]
        PROVE  "WAIT_PUSH" \in flags'[cmds'[j]]
    <3>1. i \in 1 .. Len(cmds) /\ cmds'[i] = cmds[i] /\ "WAIT_ACK" \in flags[cmds[i]]
      BY <2>1, <1>2, <1>3, <1>4, <1>5
    <3>2. CASE j \in 1 .. Len(cmds)
      BY <2>1, <3>1, <3>2, <1>2, <1>3, <1>4, <1>5 DEF ChainInv
    <3>3. CASE j = Len(cmds) + 1
      <4>1. Defers
        BY <3>1, <1>1, <1>3, NoDeferMeansQuiet
      <4> QED BY <4>1, <3>3, <1>2, <1>4
    <3> QED BY <3>2, <3>3, <1>2
  <2>2. \A d \in Queued' : "WAIT_PUSH" \in flags'[d] =>
           "WAIT_ACK" \in flags'[d] /\ d \in a2eMsg'
    BY <1>1, <1>2, <1>4, <1>5 DEF QueueAdd, ChainInv
  <2> QED BY <2>1, <2>2 DEF ChainInv
<1>9. TokenInv'
  BY <1>1, <1>2, <1>5 DEF QueueAdd, TokenInv, Given, TypeOK
<1>10. TaskInv'
  BY <1>1, <1>2, <1>4, <1>5, <1>6 DEF QueueAdd, TaskInv, TypeOK, AfterQueue
<1>11. MailInv'
  <2>1. UNCHANGED <<hostid, taken, trigger, msgBuf, ackIrq, fault, mine, heap, a2eMsg>>
    BY DEF QueueAdd
  <2>2. Given' = Given
    BY <2>1 DEF Given
  <2>3. c \notin Given
    BY <1>1 DEF Given
  <2>4. \A d \in {hostid, taken} \ {None} : d \in Queued /\ d # c
    BY <1>1, <1>5 DEF MailInv
  <2>5. CASE Defers
    <3>1. \A u \in Tasks : pc'[u] = "push" <=> pc[u] = "push"
      BY <2>5, <1>1 DEF QueueAdd, TypeOK, AfterQueue
    <3> QED BY <2>1, <2>2, <2>4, <2>5, <3>1, <1>1, <1>2, <1>4, <1>5 DEF MailInv
  <2>6. CASE ~Defers
    <3>1. hostid = None /\ taken = None /\ \A d \in Queued : "WAIT_ACK" \notin flags[d]
      BY <2>6, <1>1, NoDeferMeansQuiet
    <3>2. pc'[t] = "push"
      BY <2>6 DEF QueueAdd, TypeOK
    <3> QED BY <2>1, <2>2, <2>6, <3>1, <3>2, <1>1, <1>2, <1>4, <1>5 DEF MailInv
  <2> QED BY <2>5, <2>6
<1> QED BY <1>6, <1>7, <1>8, <1>9, <1>10, <1>11
\* What the caller of cmd_complete(c) has made of the flags and the results,
\* and what the call leaves behind.
ReadyToComplete(c, fl, res) ==
  /\ fl \in [Cmds -> SUBSET Flags] /\ res \in [Cmds -> Results]
  /\ \A i, j \in 1 .. Len(cmds) : i < j /\ "WAIT_ACK" \in fl[cmds[i]]
       => "WAIT_PUSH" \in fl[cmds[j]]
  /\ \A d \in Queued : /\ fl[d] \subseteq flags[d]
                       /\ d # c => ~WaitComplete(fl[d])
                       /\ "WAIT_PUSH" \in fl[d] => "WAIT_ACK" \in fl[d] /\ d \in a2eMsg'

Completed(c, fl) ==
  /\ ListInv' /\ ChainInv'
  /\ cmds' \in Seq(Cmds) /\ Queued' = Queued \ {c}
  /\ queue_sz' \in Nat
  /\ heap' \in [Cmds -> {"unused", "live", "freed"}]
  /\ flags' \in [Cmds -> SUBSET Flags]
  /\ result' \in [Cmds -> Results] /\ complete' \subseteq Cmds
  /\ c \in Cmds /\ "DONE" \in flags'[c] /\ fl[c] \subseteq flags'[c]
  /\ \A d \in Cmds : d # c => flags'[d] = fl[d] /\ heap'[d] = heap[d]
  /\ heap'[c] = "live" \/ (heap'[c] = "freed" /\ "NONBLOCK" \in fl[c])
  /\ \A d \in Cmds : "NONBLOCK" \in flags'[d] <=> "NONBLOCK" \in fl[d]

\* Removing a completed command keeps the list invariants, whatever flags
\* the caller of cmd_complete has cleared before.
LEMMA CompleteKeepsList ==
  ASSUME IInv, NEW c \in Queued, NEW fl, NEW res,
         ReadyToComplete(c, fl, res), CmdComplete(c, fl, res)
  PROVE  Completed(c, fl)
<1> USE DEF IInv, ReadyToComplete
<1>1. /\ cmds' \in Seq(Cmds)
      /\ Len(cmds) \in Nat /\ Len(cmds) > 0 /\ Len(cmds') = Len(cmds) - 1
      /\ Queued' = Queued \ {c}
      /\ \A i, j \in 1 .. Len(cmds') : cmds'[i] = cmds'[j] => i = j
      /\ \A i, j \in 1 .. Len(cmds') : i < j =>
           \E k, l \in 1 .. Len(cmds) :
             k < l /\ cmds[k] = cmds'[i] /\ cmds[l] = cmds'[j]
  BY CompleteFacts DEF TypeOK
<1>2. \A d \in Queued : d \in Cmds
  BY QueuedFacts
<1>3. c \in Cmds /\ heap[c] = "live"
  BY <1>2 DEF ListInv
<1>4. /\ queue_sz' = queue_sz - 1
      /\ flags' = [fl EXCEPT ![c] = @ \cup {"DONE"}]
      /\ heap' = IF Frees(c, fl) THEN [heap EXCEPT ![c] = "freed"] ELSE heap
      /\ result' = IF Posts(c, fl) THEN [res EXCEPT ![c] = "OK"] ELSE res
      /\ complete' = IF Posts(c, fl) THEN complete \cup {c} ELSE complete
  BY DEF CmdComplete
<1>5. /\ heap' \in [Cmds -> {"unused", "live", "freed"}]
      /\ flags' \in [Cmds -> SUBSET Flags]
      /\ result' \in [Cmds -> Results] /\ complete' \subseteq Cmds
      /\ "DONE" \in flags'[c] /\ fl[c] \subseteq flags'[c]
      /\ \A d \in Cmds : d # c => flags'[d] = fl[d] /\ heap'[d] = heap[d]
      /\ heap'[c] = "live" \/ (heap'[c] = "freed" /\ "NONBLOCK" \in fl[c])
      /\ \A d \in Cmds : "NONBLOCK" \in flags'[d] <=> "NONBLOCK" \in fl[d]
  BY <1>3, <1>4 DEF TypeOK, Flags, Results, Frees
<1>6. queue_sz' = Len(cmds') /\ queue_sz' <= MaxQueued /\ queue_sz' \in Nat
  BY <1>1, <1>4, MaxQueuedAssumption DEF ListInv, QueueBounded
<1>7. ListInv'
  <2>1. \A d \in Queued' : /\ heap'[d] = "live" /\ "DONE" \notin flags'[d]
                           /\ ~WaitComplete(flags'[d]) /\ d \notin complete'
    BY <1>1, <1>2, <1>4, <1>5 DEF ListInv
  <2> QED BY <1>1, <1>6, <2>1 DEF ListInv, QueueBounded
<1>8. ChainInv'
  <2>1. ASSUME NEW i \in 1 .. Len(cmds'), NEW j \in 1 .. Len(cmds'),
               i < j, "WAIT_ACK" \in flags'[cmds'[i]]
        PROVE  "WAIT_PUSH" \in flags'[cmds'[j]]
    <3>1. PICK k \in 1 .. Len(cmds), l \in 1 .. Len(cmds) :
            k < l /\ cmds[k] = cmds'[i] /\ cmds[l] = cmds'[j]
      BY <2>1, <1>1
    <3>2. cmds'[i] \in Cmds /\ cmds'[i] # c /\ cmds'[j] \in Cmds /\ cmds'[j] # c
      <4>1. cmds'[i] \in Queued' /\ cmds'[j] \in Queued'
        BY DEF Queued
      <4> QED BY <4>1, <1>1, <1>2
    <3> QED BY <2>1, <3>1, <3>2, <1>5
  <2>2. \A d \in Queued' : "WAIT_PUSH" \in flags'[d] =>
           "WAIT_ACK" \in flags'[d] /\ d \in a2eMsg'
    BY <1>1, <1>2, <1>5
  <2> QED BY <2>1, <2>2 DEF ChainInv
<1> QED BY <1>1, <1>3, <1>5, <1>6, <1>7, <1>8 DEF Completed

\* A timeout takes its command out of the list, or finds it completed.
LEMMA ExpireInv ==
  ASSUME IInv, NEW t \in Tasks, Expire(t)
  PROVE  IInv'
<1> DEFINE c == mine[t]
<1> USE DEF IInv, ipcVars, fwVars, ghost
<1>1. /\ pc[t] = "expired" /\ c \in Cmds /\ heap[c] = "live"
      /\ "NONBLOCK" \notin flags[c]
      /\ state' = "CRASHED" /\ pc' = [pc EXCEPT ![t] = "ret"]
      /\ UNCHANGED <<next_tkn, reqid, tkn, a2eMsg, mine, hostid, taken,
                     trigger, msgBuf, ackIrq, work, cfmOf, fault>>
  BY DEF Expire, TypeOK, TaskInv
<1>2. CASE "DONE" \in flags[c]
  <2>1. CmdKeep(flags)
    BY <1>2 DEF Expire
  <2>2. c \notin Queued /\ cmds' = cmds /\ Queued' = Queued
    BY <1>2, <2>1 DEF ListInv, CmdKeep, Queued
  <2>3. UNCHANGED <<flags, queue_sz, heap, result, complete>>
    BY <2>1 DEF CmdKeep
  <2>4. TypeOK'
    BY <1>1, <2>2, <2>3 DEF TypeOK
  <2>5. ListInv' /\ ChainInv' /\ TokenInv'
    BY <1>1, <2>2, <2>3 DEF ListInv, QueueBounded, ChainInv, TokenInv, Given
  <2>6. TaskInv'
    BY <1>1, <2>2, <2>3 DEF TaskInv, TypeOK
  <2>7. MailInv'
    BY <1>1, <2>2, <2>3 DEF MailInv, Given, TypeOK
  <2> QED BY <2>4, <2>5, <2>6, <2>7
<1>3. CASE "DONE" \notin flags[c]
  <2> DEFINE res == [result EXCEPT ![c] = "ETIMEDOUT"]
  <2>1. CmdComplete(c, flags, res) /\ c \in Queued
    BY <1>1, <1>3 DEF Expire, TaskInv
  <2>2. ReadyToComplete(c, flags, res)
    BY <1>1 DEF ReadyToComplete, TypeOK, Results, ListInv, ChainInv
  <2>3. IInv
    OBVIOUS
  <2> HIDE DEF c, res, IInv
  <2>4. Completed(c, flags)
    BY <2>1, <2>2, <2>3, CompleteKeepsList
  <2> USE DEF IInv, Completed
  <2>5. heap'[c] = "live" /\ heap' = heap
    BY <1>1, <2>4 DEF c, TypeOK
  <2> USE DEF c
  <2>6. TypeOK'
    BY <1>1, <2>4 DEF TypeOK
  <2>7. TokenInv'
    BY <1>1, <2>4, <2>5 DEF TokenInv, Given
  <2>8. TaskInv'
    BY <1>1, <2>4, <2>5 DEF TaskInv, TypeOK
  <2>9. MailInv'
    <3>1. Given' = Given
      BY <1>1, <2>5 DEF Given
    <3>2. \A u \in Tasks : (pc'[u] = "push" <=> pc[u] = "push") /\ mine'[u] = mine[u]
      BY <1>1 DEF TypeOK
    <3>3. \A d \in Queued' : d \in Queued /\ d \in Cmds /\ flags'[d] = flags[d]
      <4>1. \A d \in Queued : d \in Cmds
        BY QueuedFacts
      <4> QED BY <2>4, <4>1
    <3>4. \A d \in {hostid, taken} \ {None} : d \in Cmds
      BY DEF TypeOK
    <3>5. \A d \in {hostid, taken} \ {None} :
            d \in Queued' => "WAIT_ACK" \in flags'[d] /\ "WAIT_PUSH" \notin flags'[d]
      BY <3>3 DEF MailInv
    <3> QED BY <1>1, <3>1, <3>2, <3>3, <3>4, <3>5 DEF MailInv
  <2> QED BY <2>4, <2>6, <2>7, <2>8, <2>9
<1> QED BY <1>2, <1>3
\* The same when the list stays and only flags are cleared.
Kept(fl) ==
  /\ ListInv' /\ ChainInv'
  /\ cmds' = cmds /\ Queued' = Queued
  /\ UNCHANGED <<queue_sz, heap, result, complete>>
  /\ flags' = fl

\* A command that still waits stays where it is in the list.
LEMMA KeepKeepsList ==
  ASSUME IInv, NEW fl, ReadyToComplete(None, fl, result), CmdKeep(fl)
  PROVE  Kept(fl)
<1> USE DEF IInv, ReadyToComplete
<1>1. /\ cmds' = cmds /\ Queued' = Queued
      /\ UNCHANGED <<queue_sz, heap, result, complete>>
      /\ flags' = fl
  BY DEF CmdKeep, Queued
<1>2. \A d \in Queued : d \in Cmds /\ d # None
  BY QueuedFacts, NoneAssumption
<1>3. ListInv'
  BY <1>1, <1>2 DEF ListInv, QueueBounded
<1>4. ChainInv'
  BY <1>1, <1>2 DEF ChainInv
<1> QED BY <1>1, <1>3, <1>4 DEF Kept

\* A confirmation completes the first command that waits for it, or none.
LEMMA MsgIndInv ==
  ASSUME IInv, NEW k \in 1 .. Len(work), MsgInd(k)
  PROVE  IInv'
<1> USE DEF ipcVars, fwVars, ghost, taskVars
<1>1. /\ UNCHANGED <<state, next_tkn, reqid, tkn, a2eMsg, pc, mine, hostid,
                     taken, trigger, msgBuf, ackIrq, fault>>
      /\ work' = RemoveAt(work, k)
  BY DEF MsgInd
<1>2. work' \in Seq(Cmds) /\ work[k] \in Cmds
  BY <1>1, RemoveAtFacts, ElementOfSeq DEF IInv, TypeOK
<1>3. \A d \in Queued : d \in Cmds
  BY QueuedFacts DEF IInv
<1>4. CASE CmdKeep(flags) /\ UNCHANGED cfmOf
  <2>1. /\ UNCHANGED <<flags, cmds, queue_sz, heap, result, complete>>
        /\ Queued' = Queued /\ Given' = Given
    BY <1>1, <1>4 DEF CmdKeep, Queued, Given
  <2>2. TypeOK'
    BY <1>1, <1>2, <1>4, <2>1 DEF IInv, TypeOK
  <2>3. ListInv'
    BY <1>1, <2>1 DEF IInv, ListInv, QueueBounded
  <2>4. ChainInv'
    BY <1>1, <2>1 DEF IInv, ChainInv
  <2>5. TokenInv'
    BY <1>1, <2>1 DEF IInv, TokenInv
  <2>6. TaskInv'
    BY <1>1, <2>1 DEF IInv, TaskInv
  <2>7. MailInv'
    BY <1>1, <2>1 DEF IInv, MailInv
  <2> QED BY <2>2, <2>3, <2>4, <2>5, <2>6, <2>7 DEF IInv
<1>5. ASSUME NEW i \in TakerPos(reqid[work[k]]),
             cfmOf' = [cfmOf EXCEPT ![cmds[i]] = work[k]],
             LET fl == [flags EXCEPT ![cmds[i]] = @ \ {"WAIT_CFM"}] IN
             IF WaitComplete(fl[cmds[i]]) THEN CmdComplete(cmds[i], fl, result)
                                          ELSE CmdKeep(fl)
      PROVE  IInv'
  <2> DEFINE c == cmds[i]
             fl == [flags EXCEPT ![c] = @ \ {"WAIT_CFM"}]
  <2>1. c \in Queued /\ c \in Cmds /\ heap[c] = "live"
    BY <1>3 DEF TakerPos, Queued, IInv, ListInv
  <2>2. /\ fl \in [Cmds -> SUBSET Flags]
        /\ \A d \in Cmds : /\ fl[d] \subseteq flags[d]
                           /\ d # c => fl[d] = flags[d]
                           /\ "WAIT_ACK" \in fl[d] <=> "WAIT_ACK" \in flags[d]
                           /\ "WAIT_PUSH" \in fl[d] <=> "WAIT_PUSH" \in flags[d]
                           /\ "NONBLOCK" \in fl[d] <=> "NONBLOCK" \in flags[d]
                           /\ "DONE" \in fl[d] <=> "DONE" \in flags[d]
    BY <2>1 DEF IInv, TypeOK
  <2>3. IF WaitComplete(fl[c]) THEN CmdComplete(c, fl, result) ELSE CmdKeep(fl)
    BY <1>5
  <2>4. cfmOf' \in [Cmds -> Cmds \cup {None}]
    BY <1>2, <1>5 DEF IInv, TypeOK
  <2> HIDE DEF c, fl
  <2>5. /\ \A a, b \in 1 .. Len(cmds) : a < b /\ "WAIT_ACK" \in fl[cmds[a]]
             => "WAIT_PUSH" \in fl[cmds[b]]
        /\ \A d \in Queued : /\ fl[d] \subseteq flags[d]
                             /\ d # c => ~WaitComplete(fl[d])
                             /\ "WAIT_PUSH" \in fl[d]
                                  => "WAIT_ACK" \in fl[d] /\ d \in a2eMsg'
    <3>1. \A a \in 1 .. Len(cmds) : cmds[a] \in Cmds
      BY <1>3 DEF Queued
    <3>2. \A a, b \in 1 .. Len(cmds) : a < b /\ "WAIT_ACK" \in fl[cmds[a]]
             => "WAIT_PUSH" \in fl[cmds[b]]
      BY <2>2, <3>1 DEF IInv, ChainInv
    <3>3. \A d \in Queued : d # c => ~WaitComplete(fl[d])
      BY <1>3, <2>2 DEF IInv, ListInv
    <3>4. \A d \in Queued : "WAIT_PUSH" \in fl[d]
                                  => "WAIT_ACK" \in fl[d] /\ d \in a2eMsg'
      BY <1>1, <1>3, <2>2 DEF IInv, ChainInv
    <3> QED BY <1>3, <2>2, <3>2, <3>3, <3>4
  <2>6. result \in [Cmds -> Results]
    BY DEF IInv, TypeOK
  <2>7. CASE WaitComplete(fl[c])
    <3>1. CmdComplete(c, fl, result)
      BY <2>3, <2>7
    <3>2. ReadyToComplete(c, fl, result)
      BY <2>2, <2>5, <2>6 DEF ReadyToComplete
    <3>3. Completed(c, fl)
      BY <2>1, <3>1, <3>2, CompleteKeepsList
    <3>4. "WAIT_ACK" \notin flags[c]
      BY <2>1, <2>2, <2>7 DEF WaitComplete
    <3>5. TypeOK'
      BY <1>1, <1>2, <2>4, <3>3 DEF Completed, IInv, TypeOK
    <3>6. TokenInv' /\ Given' = Given
      BY <1>1, <2>1, <3>3 DEF Completed, IInv, TokenInv, Given, TypeOK
    <3>7. TaskInv'
      BY <1>1, <2>1, <2>2, <3>3, <3>4 DEF Completed, IInv, TaskInv, TypeOK
    <3>8. MailInv'
      BY <1>1, <1>3, <2>1, <2>2, <3>3, <3>4, <3>6 DEF Completed, IInv, MailInv, TypeOK
    <3> QED BY <3>3, <3>5, <3>6, <3>7, <3>8 DEF Completed, IInv
  <2>8. CASE ~WaitComplete(fl[c])
    <3>1. CmdKeep(fl)
      BY <2>3, <2>8
    <3>2. ReadyToComplete(None, fl, result)
      BY <2>2, <2>5, <2>6, <2>8 DEF ReadyToComplete
    <3>3. Kept(fl)
      BY <3>1, <3>2, KeepKeepsList
    <3>4. Given' = Given
      BY <1>1, <3>3 DEF Kept, Given
    <3>5. TypeOK'
      BY <1>1, <1>2, <2>2, <2>4, <3>3 DEF Kept, IInv, TypeOK
    <3>6. TokenInv'
      BY <1>1, <3>3, <3>4 DEF Kept, IInv, TokenInv
    <3>7. TaskInv'
      BY <1>1, <2>1, <2>2, <3>3 DEF Kept, IInv, TaskInv, TypeOK
    <3>8. MailInv'
      BY <1>1, <1>3, <2>2, <3>3, <3>4 DEF Kept, IInv, MailInv
    <3> QED BY <3>3, <3>5, <3>6, <3>7, <3>8 DEF Kept, IInv
  <2> QED BY <2>7, <2>8
<1> QED BY <1>4, <1>5 DEF MsgInd
\* The command cmd_mgr_llind finds by its token is the one it was called
\* for, and it finds it exactly when it is still listed.
LEMMA AckedFacts ==
  ASSUME IInv, taken # None
  PROVE  /\ AckedPos # {} <=> taken \in Queued
         /\ \A i \in AckedPos : cmds[i] = taken
<1> USE DEF IInv
<1>1. \A i \in 1 .. Len(cmds) : cmds[i] \in Queued
  BY DEF Queued
<1>2. taken \in Given
  BY DEF MailInv
<1>3. \A i \in 1 .. Len(cmds) : tkn[cmds[i]] = tkn[taken] => cmds[i] = taken
  BY <1>1, <1>2 DEF TokenInv
<1>4. \A i \in AckedPos : cmds[i] = taken
  BY <1>3 DEF AckedPos
<1>5. ASSUME taken \in Queued
      PROVE  AckedPos # {}
  <2>1. PICK p \in 1 .. Len(cmds) : cmds[p] = taken
    BY <1>5 DEF Queued
  <2>2. "WAIT_ACK" \in flags[taken] /\ "WAIT_PUSH" \notin flags[taken]
    BY <1>5 DEF MailInv
  <2>3. ASSUME NEW j \in 1 .. p - 1
        PROVE  tkn[cmds[j]] # tkn[taken] /\ "WAIT_PUSH" \notin flags[cmds[j]]
    <3>1. j \in 1 .. Len(cmds) /\ j < p
      BY <2>1, LenProperties DEF TypeOK
    <3>2. tkn[cmds[j]] # tkn[taken]
      BY <1>3, <2>1, <3>1 DEF ListInv
    <3>3. "WAIT_PUSH" \notin flags[cmds[j]]
      BY <1>1, <2>1, <2>2, <3>1 DEF ChainInv
    <3> QED BY <3>2, <3>3
  <2>4. p \in AckedPos
    BY <2>1, <2>3 DEF AckedPos
  <2> QED BY <2>4
<1> QED BY <1>1, <1>4, <1>5 DEF AckedPos

\* cmd_mgr_llind: the acknowledged command, and the push of the next one.
LEMMA LlindInv ==
  ASSUME IInv, Llind
  PROVE  IInv'
<1> DEFINE acks == AckedPos # {}
           next == {cmds[i] : i \in NextPos}
           fl == [c \in Cmds |->
                   flags[c] \ ((IF acks /\ c = taken THEN {"WAIT_ACK"} ELSE {})
                               \cup (IF c \in next THEN {"WAIT_PUSH"} ELSE {}))]
<1>1. /\ taken # None /\ taken' = None
      /\ IF acks /\ WaitComplete(fl[taken])
           THEN CmdComplete(taken, fl, result)
           ELSE CmdKeep(fl)
      /\ \/ next = {} /\ UNCHANGED <<hostid, msgBuf, trigger, a2eMsg>>
         \/ \E n \in next : MsgPush(n)
      /\ UNCHANGED <<state, next_tkn, reqid, tkn, pc, mine, ackIrq, work,
                     cfmOf, fault>>
  BY DEF Llind, taskVars, ghost
<1>2. /\ taken \in Cmds /\ taken \in Given /\ hostid = None
      /\ ~trigger /\ ~ackIrq
      /\ \A t \in Tasks : pc[t] # "push"
      /\ taken \in Queued => "WAIT_ACK" \in flags[taken] /\ "WAIT_PUSH" \notin flags[taken]
      /\ taken \notin Queued => state = "CRASHED"
  BY <1>1 DEF IInv, MailInv, TypeOK
<1>3. acks <=> taken \in Queued
  BY <1>1, AckedFacts
<1>4. /\ \A d \in Queued : d \in Cmds
      /\ \A i \in 1 .. Len(cmds) : cmds[i] \in Queued
      /\ Len(cmds) \in Nat
  BY QueuedFacts, LenProperties DEF IInv, TypeOK, Queued
<1>5. \A n \in next : /\ n \in Queued /\ n \in Cmds /\ n # taken
                      /\ "WAIT_PUSH" \in flags[n] /\ "WAIT_ACK" \in flags[n]
                      /\ n \in a2eMsg
  BY <1>2, <1>4 DEF NextPos, IInv, ChainInv
<1>6. \A n, m \in next : n = m
  BY <1>4, NextPosUnique
<1>7. /\ fl \in [Cmds -> SUBSET Flags]
      /\ \A d \in Cmds : fl[d] \subseteq flags[d]
      /\ \A d \in Cmds : ("WAIT_ACK" \in fl[d]) <=> ("WAIT_ACK" \in flags[d] /\ ~(acks /\ d = taken))
      /\ \A d \in Cmds : ("WAIT_PUSH" \in fl[d]) <=> ("WAIT_PUSH" \in flags[d] /\ d \notin next)
      /\ \A d \in Cmds : ("WAIT_CFM" \in fl[d]) <=> ("WAIT_CFM" \in flags[d])
      /\ \A d \in Cmds : ("NONBLOCK" \in fl[d]) <=> ("NONBLOCK" \in flags[d])
      /\ \A d \in Cmds : ("DONE" \in fl[d]) <=> ("DONE" \in flags[d])
  <2> HIDE DEF acks, next
  <2> QED BY DEF IInv, TypeOK
<1>8. \A i \in 1 .. Len(cmds) : i \in NextPos =>
        \A j \in (1 .. i - 1) \ AckedPos : "WAIT_PUSH" \notin flags[cmds[j]]
  BY DEF NextPos
<1>9. \A j \in AckedPos : acks /\ cmds[j] = taken
  BY <1>1, AckedFacts
<1>10. \A i \in 1 .. Len(cmds) : cmds[i] \in next => i \in NextPos
  BY <1>4, NextPosUnique DEF IInv, ListInv
<1>11. /\ next = {} /\ UNCHANGED <<hostid, msgBuf, trigger, a2eMsg>>
       \/ \E n \in next : /\ next = {n} /\ hostid' = n /\ msgBuf' = n
                          /\ trigger' = TRUE /\ a2eMsg' = a2eMsg \ {n}
  <2>1. CASE \E n \in next : MsgPush(n)
    BY <1>6, <2>1 DEF MsgPush
  <2> QED BY <1>1, <2>1
<1> HIDE DEF acks, next, fl
\* A command that still waits for its acknowledgement and for no push would
\* be the acknowledged one: so those behind it are not the next to be pushed.
<1>12. \A d \in Queued : "WAIT_ACK" \in fl[d] => "WAIT_PUSH" \in flags[d]
  BY <1>2, <1>3, <1>4, <1>7, NoneAssumption DEF IInv, MailInv
<1>13. ASSUME NEW i \in 1 .. Len(cmds), NEW j \in 1 .. Len(cmds), i < j,
              "WAIT_ACK" \in fl[cmds[i]]
       PROVE  "WAIT_PUSH" \in fl[cmds[j]]
  <2>1. "WAIT_PUSH" \in flags[cmds[i]] /\ "WAIT_ACK" \in flags[cmds[i]]
    BY <1>13, <1>4, <1>7, <1>12
  <2>2. "WAIT_PUSH" \in flags[cmds[j]]
    BY <1>13, <2>1 DEF IInv, ChainInv
  <2>3. i \notin AckedPos
    BY <1>13, <1>4, <1>7, <1>9
  <2>4. i \in 1 .. j - 1
    BY <1>13, <1>4
  <2>5. cmds[j] \notin next
    BY <1>8, <1>10, <2>1, <2>3, <2>4
  <2> QED BY <1>4, <1>7, <2>2, <2>5
<1>14. ReadyToComplete(taken, fl, result)
  <2>1. result \in [Cmds -> Results]
    BY DEF IInv, TypeOK
  <2>2. ASSUME NEW d \in Queued, d # taken
        PROVE  ~WaitComplete(fl[d])
    BY <2>2, <1>4, <1>7 DEF IInv, ListInv, WaitComplete
  <2>3. ASSUME NEW d \in Queued, "WAIT_PUSH" \in fl[d]
        PROVE  "WAIT_ACK" \in fl[d] /\ d \in a2eMsg'
    <3>1. "WAIT_PUSH" \in flags[d] /\ d \notin next /\ d # taken
      BY <2>3, <1>2, <1>4, <1>7
    <3>2. "WAIT_ACK" \in flags[d] /\ d \in a2eMsg
      BY <3>1 DEF IInv, ChainInv
    <3> QED BY <3>1, <3>2, <1>4, <1>7, <1>11
  <2> QED BY <1>4, <1>7, <1>13, <2>1, <2>2, <2>3 DEF ReadyToComplete
\* What is common to both ends of cmd_mgr_llind.
<1> DEFINE Effect ==
      /\ Queued' = Queued \/ (Queued' = Queued \ {taken} /\ "DONE" \in flags'[taken])
      /\ taken \in Queued' => "WAIT_ACK" \notin flags'[taken]
      /\ flags' \in [Cmds -> SUBSET Flags]
      /\ \A d \in Cmds : d # taken => flags'[d] = fl[d] /\ heap'[d] = heap[d]
      /\ heap' \in [Cmds -> {"unused", "live", "freed"}]
      /\ heap'[taken] = heap[taken] \/ (heap'[taken] = "freed" /\ "NONBLOCK" \in flags[taken])
      /\ fl[taken] \subseteq flags'[taken]
      /\ "NONBLOCK" \in flags'[taken] => "NONBLOCK" \in flags[taken]
<1>15. /\ ListInv' /\ ChainInv' /\ Effect
       /\ cmds' \in Seq(Cmds) /\ queue_sz' \in Nat
       /\ result' \in [Cmds -> Results] /\ complete' \subseteq Cmds
  <2>1. CASE acks /\ WaitComplete(fl[taken])
    <3>1. CmdComplete(taken, fl, result) /\ taken \in Queued
      BY <1>1, <1>3, <2>1 DEF acks, fl, next
    <3>2. Completed(taken, fl)
      BY <1>14, <3>1, CompleteKeepsList
    <3>3. heap[taken] = "live"
      BY <3>1 DEF IInv, ListInv
    <3> QED BY <1>2, <1>7, <3>2, <3>3 DEF Completed
  <2>2. CASE ~(acks /\ WaitComplete(fl[taken]))
    <3>1. CmdKeep(fl)
      BY <1>1, <2>2 DEF acks, fl, next
    <3>2. taken \in Queued => ~WaitComplete(fl[taken])
      BY <1>3, <2>2
    <3>3. ReadyToComplete(None, fl, result)
      BY <1>14, <3>2 DEF ReadyToComplete
    <3>4. Kept(fl)
      BY <3>1, <3>3, KeepKeepsList
    <3> QED BY <1>2, <1>3, <1>7, <3>4 DEF Kept, IInv, TypeOK
  <2> QED BY <2>1, <2>2
<1>16. TypeOK'
  <2>1. /\ hostid' \in Cmds \cup {None} /\ trigger' \in BOOLEAN
        /\ msgBuf' \in Cmds \cup {None} /\ (trigger' => msgBuf' \in Cmds)
        /\ a2eMsg' \subseteq Cmds
    <3>0. /\ hostid \in Cmds \cup {None} /\ trigger \in BOOLEAN
          /\ msgBuf \in Cmds \cup {None} /\ (trigger => msgBuf \in Cmds)
          /\ a2eMsg \subseteq Cmds
      BY DEF IInv, TypeOK
    <3>1. CASE UNCHANGED <<hostid, msgBuf, trigger, a2eMsg>>
      BY <3>0, <3>1
    <3>2. ASSUME NEW n \in next, hostid' = n, msgBuf' = n, trigger' = TRUE,
                 a2eMsg' = a2eMsg \ {n}
          PROVE  /\ hostid' \in Cmds \cup {None} /\ trigger' \in BOOLEAN
                 /\ msgBuf' \in Cmds \cup {None} /\ (trigger' => msgBuf' \in Cmds)
                 /\ a2eMsg' \subseteq Cmds
      BY <3>0, <3>2, <1>5
    <3> QED BY <3>1, <3>2, <1>11
  <2>2. cmds' \in Seq(Cmds) /\ flags' \in [Cmds -> SUBSET Flags]
    BY <1>15
  <2> QED BY <1>1, <1>15, <2>1, <2>2 DEF IInv, TypeOK
<1>17. Given' = Given \cup next
  <2>1. \A d \in Cmds : heap'[d] = "unused" <=> heap[d] = "unused"
    BY <1>2, <1>15 DEF Given, IInv, TypeOK
  <2>2. \A n \in next : heap[n] # "unused"
    BY <1>5 DEF IInv, ListInv
  <2>3. a2eMsg' = a2eMsg \ next
    BY <1>11
  <2> QED BY <1>5, <2>1, <2>2, <2>3 DEF Given
<1>18. TokenInv'
  BY <1>1, <1>5, <1>15, <1>17 DEF IInv, TokenInv
<1>19. TaskInv'
  <2>1. \A t \in Tasks : pc'[t] = pc[t] /\ mine'[t] = mine[t] /\ pc[t] # "push"
    BY <1>1, <1>2
  <2>2. ASSUME NEW t \in Tasks, pc[t] # "idle"
        PROVE  heap'[mine[t]] # "unused"
    BY <2>2, <1>2, <1>15 DEF IInv, TaskInv, TypeOK, Given
  <2>3. ASSUME NEW t \in Tasks, pc[t] = "queue"
        PROVE  /\ heap'[mine[t]] = "live"
               /\ mine[t] \notin Queued'
               /\ mine[t] \in a2eMsg'
               /\ flags'[mine[t]] \subseteq {"NONBLOCK", "REQ_CFM"}
    <3>1. /\ mine[t] \in Cmds /\ mine[t] \notin Queued /\ mine[t] \in a2eMsg
          /\ heap[mine[t]] = "live" /\ mine[t] # taken
          /\ flags[mine[t]] \subseteq {"NONBLOCK", "REQ_CFM"}
      BY <2>3, <1>2 DEF IInv, TaskInv, TypeOK, Given
    <3> QED BY <3>1, <1>5, <1>7, <1>11, <1>15
  <2>4. ASSUME NEW t \in Tasks, pc[t] \in {"wait", "expired", "ret"}
        PROVE  heap'[mine[t]] = "live" /\ "NONBLOCK" \notin flags'[mine[t]]
    <3>1. /\ mine[t] \in Cmds /\ heap[mine[t]] = "live"
          /\ "NONBLOCK" \notin flags[mine[t]]
      BY <2>4 DEF IInv, TaskInv, TypeOK
    <3> QED BY <3>1, <1>7, <1>15
  <2>5. ASSUME NEW t \in Tasks, pc[t] \in {"wait", "expired"}
        PROVE  mine[t] \in Queued' \/ "DONE" \in flags'[mine[t]]
    <3>1. mine[t] \in Cmds /\ (mine[t] \in Queued \/ "DONE" \in flags[mine[t]])
      BY <2>5 DEF IInv, TaskInv, TypeOK
    <3> QED BY <3>1, <1>7, <1>15
  <2>6. \A t \in Tasks : pc[t] = "ret" => mine[t] \notin Queued'
    BY <1>15 DEF IInv, TaskInv
  <2> QED BY <2>1, <2>2, <2>3, <2>4, <2>5, <2>6, <1>1 DEF IInv, TaskInv
<1>20. MailInv'
  <2>1. (hostid' = None /\ next = {}) \/ (next = {hostid'} /\ hostid' \in Cmds)
    BY <1>2, <1>5, <1>11
  <2>2. \A d \in Queued' : d \in Queued /\ d \in Cmds
    BY <1>4, <1>15
  <2>3. \A n \in next : /\ n \in Given' /\ n \in Queued'
                        /\ "WAIT_ACK" \in flags'[n] /\ "WAIT_PUSH" \notin flags'[n]
    BY <1>5, <1>7, <1>15, <1>17
  <2>4. ASSUME NEW d \in Queued', "WAIT_ACK" \in flags'[d], "WAIT_PUSH" \notin flags'[d]
        PROVE  d = hostid'
    <3>1. d # taken
      BY <2>4, <1>15
    <3>2. "WAIT_ACK" \in fl[d] /\ "WAIT_PUSH" \notin fl[d]
      BY <2>2, <2>4, <3>1, <1>15
    <3>3. d \in next
      BY <2>2, <3>2, <1>7, <1>12
    <3> QED BY <2>1, <3>3
  <2>5. trigger' => hostid' # None /\ msgBuf' = hostid' /\ ~ackIrq'
    BY <1>1, <1>2, <1>5, <1>11, NoneAssumption
  <2> QED BY <1>1, <1>2, <2>1, <2>3, <2>4, <2>5 DEF IInv, MailInv
<1> QED BY <1>15, <1>16, <1>18, <1>19, <1>20 DEF IInv

-------------------------------------------------------------------------------
(***************************************************************************)
(* Every step keeps the invariant                                          *)
(***************************************************************************)

\* Whatever step is taken, the inductive invariant of bl_cmds.c still holds.
LEMMA InvNext == IInv /\ [Next]_vars => IInv'
<1> SUFFICES ASSUME IInv, [Next]_vars PROVE IInv'
  OBVIOUS
<1>1. ASSUME NEW t \in Tasks, NEW c \in Cmds, NEW k \in Kinds, Send(t, c, k)
      PROVE  IInv'
  BY <1>1, SendInv
<1>2. ASSUME NEW t \in Tasks, TaskStep(t)
      PROVE  IInv'
  <2>1. CASE QueueCrashed(t) \/ QueueFull(t)
    <3>1. pc[t] = "queue" /\ \E err \in {"EPIPE", "ENOMEM"} : Refuse(t, err)
      BY <2>1 DEF QueueCrashed, QueueFull
    <3> QED BY <3>1, RefuseInv
  <2>2. CASE QueueAdd(t)
    BY <2>2, QueueAddInv
  <2>3. CASE QueuePush(t)
    BY <2>3, QueuePushInv
  <2>4. CASE NoWait(t)
    BY <2>4, NoWaitInv
  <2>5. CASE Wake(t)
    BY <2>5, WakeInv
  <2>6. CASE Expire(t)
    BY <2>6, ExpireInv
  <2>7. CASE Return(t)
    BY <2>7, ReturnInv
  <2> QED BY <1>2, <2>1, <2>2, <2>3, <2>4, <2>5, <2>6, <2>7 DEF TaskStep
<1>3. ASSUME NEW t \in Tasks, Timeout(t)
      PROVE  IInv'
  BY <1>3, TimeoutInv
<1>4. CASE DriverStep
  BY <1>4, MsgAckInv, LlindInv, MsgIndInv DEF DriverStep
<1>5. CASE LlindCorrupt
  BY <1>5, LlindCorruptInv
<1>6. CASE FwAccept
  BY <1>6, FwAcceptInv
<1>7. CASE UNCHANGED vars
  BY <1>7 DEF vars, mgrVars, cmdVars, taskVars, ipcVars, fwVars, ghost, IInv, TypeOK,
    ListInv, QueueBounded, ChainInv, TokenInv, TaskInv, MailInv, Queued, Given
<1> QED BY <1>1, <1>2, <1>3, <1>4, <1>5, <1>6, <1>7 DEF Next

\* The inductive invariant holds in every reachable state, for any tasks,
\* commands, kinds and any limit of the queue.
THEOREM Invariance == Spec => []IInv
<1>1. Init => IInv
  BY InvInit
<1>2. IInv /\ [Next]_vars => IInv'
  BY InvNext
<1> QED BY <1>1, <1>2, PTL DEF Spec

\* Every variable of bl_cmds.c and of the mailbox keeps its type.
THEOREM TypeCorrect == Spec => []TypeOK
<1>1. IInv => TypeOK
  BY DEF IInv
<1> QED BY <1>1, Invariance, PTL

\* queue_sz counts the list and never passes RWNX_CMD_MAX_QUEUED.
THEOREM QueueNeverOverflows == Spec => []QueueBounded
<1>1. IInv => QueueBounded
  BY DEF IInv, ListInv
<1> QED BY <1>1, Invariance, PTL

\* No message is put in a mailbox whose last one is not acknowledged.
THEOREM MailboxNeverOverwritten == Spec => []MailboxFree
<1>1. IInv => MailboxFree
  <2> SUFFICES ASSUME IInv PROVE MailboxFree
    OBVIOUS
  <2>1. ASSUME hostid = None
        PROVE  ~trigger
    BY <2>1 DEF IInv, MailInv
  <2>2. \A t \in Tasks : pc[t] = "push" => hostid = None /\ taken = None
    BY DEF IInv, MailInv
  <2>3. taken # None => hostid = None
    BY DEF IInv, MailInv
  <2> QED BY <2>1, <2>2, <2>3 DEF MailboxFree
<1> QED BY <1>1, Invariance, PTL

\* Before a crash of the manager, an acknowledgement finds its command listed
\* and alive; the heap can only be corrupted after one.
THEOREM AcknowledgedIsListed == Spec => []AckFindsCommand
<1>1. IInv => AckFindsCommand
  <2> SUFFICES ASSUME IInv PROVE AckFindsCommand
    OBVIOUS
  <2>1. (ackIrq => hostid # None) /\ (fault => state = "CRASHED")
    BY DEF IInv, MailInv
  <2>2. ASSUME NEW c \in {hostid, taken} \ {None}, state # "CRASHED"
        PROVE  c \in Queued /\ "WAIT_ACK" \in flags[c]
    BY <2>2 DEF IInv, MailInv
  <2>3. \A c \in Queued : heap[c] = "live"
    BY DEF IInv, ListInv
  <2> QED BY <2>1, <2>2, <2>3 DEF AckFindsCommand
<1> QED BY <1>1, Invariance, PTL

\* A caller that waits never has its command freed under it.
THEOREM WaitingCallerKeepsBlock == Spec => []CallerBlockLive
<1>1. IInv => CallerBlockLive
  <2> SUFFICES ASSUME IInv,
                      NEW t \in Tasks, pc[t] \in {"queue", "push", "wait", "expired", "ret"}
               PROVE  heap[mine[t]] = "live"
    BY DEF CallerBlockLive
  <2> QED BY DEF IInv, TaskInv, ListInv
<1> QED BY <1>1, Invariance, PTL


(***************************************************************************)
(* Confirmations: their order in the list                                  *)
(***************************************************************************)

\* The list orders its commands.
LEMMA BeforeFacts ==
  ASSUME TypeOK, ListInv
  PROVE  /\ \A c, d : Before(c, d) => c \in Queued /\ d \in Queued /\ c # d /\ ~Before(d, c)
         /\ \A c, d \in Queued : c # d => Before(c, d) \/ Before(d, c)
<1>1. Len(cmds) \in Nat /\ \A i, j \in 1 .. Len(cmds) : cmds[i] = cmds[j] => i = j
  BY LenProperties DEF TypeOK, ListInv
<1>2. ASSUME NEW c, NEW d, Before(c, d)
      PROVE  c \in Queued /\ d \in Queued /\ c # d /\ ~Before(d, c)
  <2>1. PICK i \in 1 .. Len(cmds), j \in 1 .. Len(cmds) : i < j /\ cmds[i] = c /\ cmds[j] = d
    BY <1>2 DEF Before
  <2>2. ASSUME NEW k \in 1 .. Len(cmds), NEW l \in 1 .. Len(cmds), k < l, cmds[k] = d, cmds[l] = c
        PROVE  FALSE
    <3>1. k = j /\ l = i
      BY <1>1, <2>1, <2>2
    <3> QED BY <1>1, <2>1, <2>2, <3>1
  <2> QED BY <1>1, <2>1, <2>2 DEF Before, Queued
<1>3. ASSUME NEW c \in Queued, NEW d \in Queued, c # d
      PROVE  Before(c, d) \/ Before(d, c)
  <2>1. PICK i \in 1 .. Len(cmds) : cmds[i] = c
    BY DEF Queued
  <2>2. PICK j \in 1 .. Len(cmds) : cmds[j] = d
    BY DEF Queued
  <2>3. i < j \/ j < i
    BY <1>1, <1>3, <2>1, <2>2
  <2> QED BY <2>1, <2>2, <2>3 DEF Before
<1> QED BY <1>2, <1>3

\* Behind a command that waits for its acknowledgement none is accepted.
LEMMA DeferredBehind ==
  ASSUME IInv, NEW c, NEW d, Before(c, d), "WAIT_ACK" \in flags[c]
  PROVE  d \in a2eMsg /\ ~Accepted(d)
<1>1. PICK i \in 1 .. Len(cmds), j \in 1 .. Len(cmds) : i < j /\ cmds[i] = c /\ cmds[j] = d
  BY DEF Before
<1>2. "WAIT_PUSH" \in flags[d] /\ d \in Queued
  BY <1>1 DEF IInv, ChainInv, Queued
<1> QED BY <1>2 DEF IInv, ChainInv, Accepted, Given

\* What becomes of the order when the list keeps, gains or loses a command.
LEMMA BeforeKept ==
  ASSUME cmds' = cmds
  PROVE  Queued' = Queued /\ \A c, d : Before(c, d)' <=> Before(c, d)
BY DEF Queued, Before

\* A command added at the end leaves the others in their order.
LEMMA BeforeAppended ==
  ASSUME cmds \in Seq(Cmds), NEW e \in Cmds, cmds' = Append(cmds, e)
  PROVE  \A c, d : Before(c, d) => Before(c, d)'
<1>1. /\ Len(cmds) \in Nat /\ Len(cmds') = Len(cmds) + 1
      /\ \A i \in 1 .. Len(cmds) : cmds'[i] = cmds[i]
  BY AppendFacts
<1>2. 1 .. Len(cmds) \subseteq 1 .. Len(cmds')
  BY <1>1
<1> QED BY <1>1, <1>2 DEF Before

\* A command taken out leaves the others in their order.
LEMMA BeforeRemoved ==
  ASSUME TypeOK, ListInv, NEW c \in Queued, NEW fl, NEW res, CmdComplete(c, fl, res)
  PROVE  /\ Queued' = Queued \ {c}
         /\ \A d, e \in Queued' : Before(d, e) => Before(d, e)'
<1>1. /\ cmds' \in Seq(Cmds) /\ Queued' = Queued \ {c}
      /\ \A i, j \in 1 .. Len(cmds') : cmds'[i] = cmds'[j] => i = j
      /\ \A i, j \in 1 .. Len(cmds') : i < j =>
           \E k, l \in 1 .. Len(cmds) :
             k < l /\ cmds[k] = cmds'[i] /\ cmds[l] = cmds'[j]
  BY CompleteFacts DEF TypeOK
<1>2. Len(cmds') \in Nat
  BY <1>1, LenProperties
<1>3. ASSUME NEW d \in Queued', NEW e \in Queued', Before(d, e)
      PROVE  Before(d, e)'
  <2>1. PICK i \in 1 .. Len(cmds') : cmds'[i] = d
    BY DEF Queued
  <2>2. PICK j \in 1 .. Len(cmds') : cmds'[j] = e
    BY DEF Queued
  <2>3. d # e /\ ~Before(e, d)
    BY <1>3, BeforeFacts
  <2>4. ASSUME j < i
        PROVE  FALSE
    <3>1. \E k, l \in 1 .. Len(cmds) : k < l /\ cmds[k] = cmds'[j] /\ cmds[l] = cmds'[i]
      BY <1>1, <2>4
    <3> QED BY <2>1, <2>2, <2>3, <3>1 DEF Before
  <2>5. i < j
    BY <1>2, <2>1, <2>2, <2>3, <2>4
  <2> QED BY <2>1, <2>2, <2>5 DEF Before
<1> QED BY <1>1, <1>3

(***************************************************************************)
(* Confirmations: what the firmware owes                                   *)
(***************************************************************************)

\* A step that the listed commands and the firmware's work do not notice.
LEMMA OwedUnseen ==
  ASSUME OwedInv, UNCHANGED <<state, work, cfmOf, cmds>>,
         \A c \in Queued : /\ flags'[c] = flags[c] /\ (Accepted(c)' <=> Accepted(c))
                           /\ (c \in a2eMsg' => c \in a2eMsg)
  PROVE  OwedInv'
<1>1. Queued' = Queued /\ \A c, d : Before(c, d)' <=> Before(c, d)
  BY BeforeKept
<1>2. SUFFICES ASSUME WorkListed, ListedOwed, MatchedCfm
               PROVE  WorkListed' /\ ListedOwed' /\ MatchedCfm'
  BY DEF OwedInv
<1>3. WorkListed'
  BY <1>1, <1>2 DEF WorkListed
<1>4. ListedOwed'
  BY <1>1, <1>2 DEF ListedOwed
<1>5. MatchedCfm'
  BY <1>2 DEF MatchedCfm
<1> QED BY <1>3, <1>4, <1>5

\* The steps of the callers that leave the list, and those of the driver that
\* leave both.
LEMMA OwedOthers ==
  ASSUME IInv, OwedInv,
         \/ \E t \in Tasks, c \in Cmds, k \in Kinds : Send(t, c, k)
         \/ \E t \in Tasks : \/ QueueCrashed(t) \/ QueueFull(t) \/ QueuePush(t)
                             \/ NoWait(t) \/ Wake(t) \/ Timeout(t) \/ Return(t)
         \/ MsgAck \/ LlindCorrupt \/ UNCHANGED vars
  PROVE  OwedInv'
<1> USE DEF mgrVars, cmdVars, taskVars, ipcVars, fwVars, ghost
<1>1. UNCHANGED <<state, work, cfmOf, cmds>>
  BY DEF Send, QueueCrashed, QueueFull, Refuse, QueuePush, NoWait, Wake, Timeout, Return, MsgAck,
     LlindCorrupt, vars
<1>2. \A c \in Queued : c \in Cmds /\ heap[c] = "live"
  BY QueuedFacts DEF IInv, ListInv
<1>3. ASSUME NEW t \in Tasks, NEW c \in Cmds, NEW k \in Kinds, Send(t, c, k)
      PROVE  OwedInv'
  <2>1. \A d \in Queued : /\ flags'[d] = flags[d] /\ (Accepted(d)' <=> Accepted(d))
                          /\ (d \in a2eMsg' => d \in a2eMsg)
    BY <1>2, <1>3 DEF Send, Accepted, Given, IInv, TypeOK
  <2> QED BY <1>1, <2>1, OwedUnseen
<1>4. ASSUME NEW t \in Tasks, QueueCrashed(t) \/ QueueFull(t) \/ Return(t)
      PROVE  OwedInv'
  <2>1. mine[t] \in Cmds /\ mine[t] \notin Queued
    BY <1>4 DEF QueueCrashed, QueueFull, Return, IInv, TypeOK, TaskInv
  <2>2. \A d \in Queued : /\ flags'[d] = flags[d] /\ (Accepted(d)' <=> Accepted(d))
                          /\ (d \in a2eMsg' => d \in a2eMsg)
    BY <1>2, <1>4, <2>1 DEF QueueCrashed, QueueFull, Refuse, Return, Accepted, Given, IInv, TypeOK
  <2> QED BY <1>1, <2>2, OwedUnseen
<1>5. ASSUME NEW t \in Tasks, QueuePush(t)
      PROVE  OwedInv'
  <2>1. mine[t] \in Cmds /\ mine[t] \in a2eMsg /\ ~trigger
    BY <1>5 DEF QueuePush, IInv, TypeOK, TaskInv, MailInv
  <2>2. \A d \in Queued : /\ flags'[d] = flags[d] /\ (Accepted(d)' <=> Accepted(d))
                          /\ (d \in a2eMsg' => d \in a2eMsg)
    BY <1>2, <1>5, <2>1 DEF QueuePush, MsgPush, Accepted, Given
  <2> QED BY <1>1, <2>2, OwedUnseen
<1>6. CASE \/ \E t \in Tasks : NoWait(t) \/ Wake(t) \/ Timeout(t)
           \/ MsgAck \/ LlindCorrupt \/ UNCHANGED vars
  <2>1. UNCHANGED <<heap, flags, a2eMsg, trigger, msgBuf>>
    BY <1>6 DEF NoWait, Wake, Timeout, MsgAck, LlindCorrupt, vars
  <2>2. \A d \in Queued : /\ flags'[d] = flags[d] /\ (Accepted(d)' <=> Accepted(d))
                          /\ (d \in a2eMsg' => d \in a2eMsg)
    BY <2>1 DEF Accepted, Given
  <2> QED BY <1>1, <2>2, OwedUnseen
<1> QED BY <1>3, <1>4, <1>5, <1>6

\* A command is added: the firmware does not know it yet.
LEMMA OwedQueueAdd ==
  ASSUME IInv, OwedInv, NEW t \in Tasks, QueueAdd(t)
  PROVE  OwedInv'
<1> DEFINE c == mine[t]
<1> USE DEF ipcVars, fwVars, ghost
<1>1. /\ c \in Cmds /\ c \notin Queued /\ c \in a2eMsg
      /\ flags[c] \subseteq {"NONBLOCK", "REQ_CFM"}
  BY DEF QueueAdd, IInv, TypeOK, TaskInv
<1>2. /\ cmds' = Append(cmds, c) /\ UNCHANGED <<state, work, cfmOf, heap, a2eMsg, trigger, msgBuf>>
      /\ flags' = [flags EXCEPT ![c] =
           @ \cup {"WAIT_ACK"}
             \cup (IF Defers THEN {"WAIT_PUSH"} ELSE {})
             \cup (IF "REQ_CFM" \in @ THEN {"WAIT_CFM"} ELSE {})]
  BY DEF QueueAdd
<1>3. /\ \A d \in Cmds : d # c => flags'[d] = flags[d]
      /\ "WAIT_ACK" \in flags'[c] /\ ("WAIT_CFM" \in flags'[c] <=> "REQ_CFM" \in flags'[c])
  <2> HIDE DEF c, Defers
  <2> QED BY <1>1, <1>2 DEF IInv, TypeOK
<1> HIDE DEF c
<1>4. Queued' = Queued \cup {c} /\ \A d, e : Before(d, e) => Before(d, e)'
  BY <1>1, <1>2, AppendFacts, BeforeAppended DEF IInv, TypeOK
<1>5. /\ \A d : Accepted(d)' <=> Accepted(d)
      /\ ~Accepted(c)
  BY <1>1, <1>2 DEF Accepted, Given
<1>6. \A d \in Queued : d \in Cmds /\ d # c
  BY <1>1, QueuedFacts DEF IInv
<1>7. SUFFICES ASSUME WorkListed, ListedOwed, MatchedCfm
               PROVE  WorkListed' /\ ListedOwed' /\ MatchedCfm'
  BY <1>2 DEF OwedInv
<1>8. WorkListed'
  BY <1>2, <1>3, <1>4, <1>5, <1>6, <1>7 DEF WorkListed
<1>9. ListedOwed'
  BY <1>2, <1>3, <1>4, <1>5, <1>6, <1>7 DEF ListedOwed
<1>10. MatchedCfm'
  BY <1>2, <1>7 DEF MatchedCfm
<1> QED BY <1>8, <1>9, <1>10

\* The firmware accepts a command: the last of those it has accepted.
LEMMA OwedFwAccept ==
  ASSUME IInv, OwedInv, FwAccept
  PROVE  OwedInv'
<1> USE DEF mgrVars, cmdVars, ipcVars, ghost
<1>1. /\ trigger /\ trigger' = FALSE
      /\ work' = IF "REQ_CFM" \in flags[msgBuf] THEN Append(work, msgBuf) ELSE work
      /\ UNCHANGED <<state, cfmOf, heap, flags, a2eMsg, msgBuf, cmds>>
  BY DEF FwAccept
<1>2. SUFFICES ASSUME state # "CRASHED", WorkListed, ListedOwed, MatchedCfm
               PROVE  WorkListed' /\ ListedOwed' /\ MatchedCfm'
  BY <1>1 DEF OwedInv
<1>3. /\ msgBuf \in Queued /\ msgBuf \in Given /\ msgBuf \in Cmds
      /\ "WAIT_ACK" \in flags[msgBuf] /\ ~Accepted(msgBuf)
  BY <1>1, <1>2 DEF IInv, MailInv, TypeOK, Accepted
<1>4. /\ Queued' = Queued /\ \A c, d : Before(c, d)' <=> Before(c, d)
  BY <1>1, BeforeKept
<1>5. \A c : Accepted(c)' <=> Accepted(c) \/ c = msgBuf
  BY <1>1, <1>3 DEF Accepted, Given
<1>6. /\ Len(work) \in Nat
      /\ \A k \in 1 .. Len(work) : Append(work, msgBuf)[k] = work[k]
      /\ Append(work, msgBuf)[Len(work) + 1] = msgBuf
      /\ Len(Append(work, msgBuf)) = Len(work) + 1
  BY <1>3, AppendProperties, LenProperties DEF IInv, TypeOK
<1>7. ASSUME NEW k \in 1 .. Len(work)
      PROVE  Before(work[k], msgBuf)
  <2>1. work[k] \in Queued /\ Accepted(work[k])
    BY <1>2 DEF WorkListed
  <2>2. ~Before(msgBuf, work[k])
    BY <1>3, <2>1, DeferredBehind
  <2> QED BY <1>3, <2>1, <2>2, BeforeFacts DEF IInv
<1>8. MatchedCfm'
  BY <1>1, <1>2 DEF MatchedCfm
<1>9. CASE "REQ_CFM" \in flags[msgBuf]
  <2>1. /\ Len(work') = Len(work) + 1 /\ work'[Len(work) + 1] = msgBuf
        /\ \A k \in 1 .. Len(work) : work'[k] = work[k]
        /\ 1 .. Len(work') = (1 .. Len(work)) \cup {Len(work) + 1}
    BY <1>1, <1>6, <1>9
  <2>2. "WAIT_CFM" \in flags[msgBuf]
    BY <1>2, <1>3, <1>9 DEF ListedOwed
  <2>3. (\A k \in 1 .. Len(work) : /\ work[k] \in Queued /\ Accepted(work[k])
                                   /\ "WAIT_CFM" \in flags[work[k]])'
    BY <1>1, <1>2, <1>3, <1>4, <1>5, <2>1, <2>2 DEF WorkListed
  <2>4. (\A i, j \in 1 .. Len(work) : i < j => Before(work[i], work[j]))'
    BY <1>2, <1>4, <1>6, <1>7, <2>1 DEF WorkListed
  <2>5. ListedOwed'
    BY <1>1, <1>2, <1>3, <1>4, <1>5, <1>6, <2>1 DEF ListedOwed
  <2> QED BY <1>8, <2>3, <2>4, <2>5 DEF WorkListed
<1>10. CASE "REQ_CFM" \notin flags[msgBuf]
  <2>1. work' = work /\ "WAIT_CFM" \notin flags[msgBuf]
    BY <1>1, <1>2, <1>3, <1>10 DEF ListedOwed
  <2>2. WorkListed'
    BY <1>1, <1>2, <1>4, <1>5, <2>1 DEF WorkListed
  <2>3. ListedOwed'
    BY <1>1, <1>2, <1>4, <1>5, <1>10, <2>1 DEF ListedOwed
  <2> QED BY <1>8, <2>2, <2>3
<1> QED BY <1>9, <1>10

\* What cmd_mgr_llind leaves to the confirmations.
LEMMA LlindFacts ==
  ASSUME IInv, Llind
  PROVE  /\ UNCHANGED <<state, pc, mine, work, cfmOf>>
         /\ \A d \in Cmds : \A f \in {"WAIT_CFM", "REQ_CFM", "NONBLOCK"} :
              f \in flags'[d] <=> f \in flags[d]
         /\ \A d \in Cmds : d \notin Queued => flags'[d] = flags[d] /\ result'[d] = result[d]
         /\ \A d \in Queued' : /\ d \in a2eMsg' => d \in a2eMsg
                               /\ d \in a2eMsg' /\ "WAIT_ACK" \in flags[d] => "WAIT_ACK" \in flags'[d]
                               /\ Accepted(d)' <=> Accepted(d)
         /\ \/ cmds' = cmds /\ result' = result
            \/ /\ taken \in Queued /\ "WAIT_CFM" \notin flags[taken]
               /\ Queued' = Queued \ {taken}
               /\ \A d, e \in Queued' : Before(d, e) => Before(d, e)'
               /\ \A d \in Cmds : d # taken => result'[d] = result[d]
               /\ "NONBLOCK" \notin flags[taken] =>
                    result'[taken] = "OK" /\ WaitComplete(flags'[taken])
<1> DEFINE acks == AckedPos # {}
           next == {cmds[i] : i \in NextPos}
           fl == [c \in Cmds |->
                   flags[c] \ ((IF acks /\ c = taken THEN {"WAIT_ACK"} ELSE {})
                               \cup (IF c \in next THEN {"WAIT_PUSH"} ELSE {}))]
<1>1. /\ taken # None
      /\ IF acks /\ WaitComplete(fl[taken])
           THEN CmdComplete(taken, fl, result)
           ELSE CmdKeep(fl)
      /\ \/ next = {} /\ UNCHANGED <<hostid, msgBuf, trigger, a2eMsg>>
         \/ \E n \in next : MsgPush(n)
      /\ UNCHANGED <<state, pc, mine, work, cfmOf>>
  BY DEF Llind, taskVars, ghost
<1>2. taken \in Cmds /\ ~trigger
  BY <1>1 DEF IInv, MailInv, TypeOK
<1>3. acks <=> taken \in Queued
  BY <1>1, AckedFacts
<1>4. /\ \A d \in Queued : d \in Cmds /\ heap[d] = "live"
      /\ Len(cmds) \in Nat
  BY QueuedFacts, LenProperties DEF IInv, TypeOK, ListInv
<1>5. \A n \in next : /\ n \in Queued /\ n # taken /\ n \in a2eMsg
                      /\ "WAIT_ACK" \in flags[n]
  BY <1>1, <1>4 DEF NextPos, IInv, ChainInv, MailInv, Queued
<1>6. /\ flags \in [Cmds -> SUBSET Flags] /\ result \in [Cmds -> Results]
      /\ heap \in [Cmds -> {"unused", "live", "freed"}]
  BY DEF IInv, TypeOK
<1>7. /\ fl \in [Cmds -> SUBSET Flags]
      /\ \A d \in Cmds : \A f \in {"WAIT_CFM", "REQ_CFM", "NONBLOCK"} :
           f \in fl[d] <=> f \in flags[d]
      /\ \A d \in Cmds : "WAIT_ACK" \in flags[d] /\ d # taken => "WAIT_ACK" \in fl[d]
      /\ \A d \in Cmds : d \notin Queued => fl[d] = flags[d]
  <2>1. \A d \in Cmds : d \notin Queued => d \notin next /\ ~(acks /\ d = taken)
    BY <1>3, <1>5
  <2> HIDE DEF acks, next
  <2> QED BY <1>6, <2>1
<1>8. \A d \in Queued : d \in a2eMsg' => d \in a2eMsg
  BY <1>1 DEF MsgPush
<1>9. taken \notin a2eMsg
  BY <1>1 DEF IInv, MailInv, Given
<1> HIDE DEF acks, next, fl
<1>10. \A d \in Queued : heap'[d] # "unused" => (Accepted(d)' <=> Accepted(d))
  <2>1. CASE UNCHANGED <<hostid, msgBuf, trigger, a2eMsg>>
    BY <1>4, <2>1 DEF Accepted, Given
  <2>2. CASE \E n \in next : MsgPush(n)
    <3>1. PICK n \in next : MsgPush(n)
      BY <2>2
    <3> QED BY <1>2, <1>4, <1>5, <3>1 DEF MsgPush, Accepted, Given
  <2> QED BY <1>1, <2>1, <2>2
<1>11. CASE CmdKeep(fl)
  <2>1. /\ flags' = fl /\ UNCHANGED <<cmds, heap, result>>
        /\ Queued' = Queued
    BY <1>11 DEF CmdKeep, Queued
  <2> QED BY <1>1, <1>4, <1>7, <1>8, <1>9, <1>10, <2>1
<1>12. CASE acks /\ WaitComplete(fl[taken]) /\ CmdComplete(taken, fl, result)
  <2>1. taken \in Queued /\ "WAIT_CFM" \notin flags[taken]
    BY <1>2, <1>3, <1>7, <1>12 DEF WaitComplete
  <2>2. /\ Queued' = Queued \ {taken}
        /\ \A d, e \in Queued' : Before(d, e) => Before(d, e)'
    BY <1>12, <2>1, BeforeRemoved DEF IInv
  <2>3. /\ flags' = [fl EXCEPT ![taken] = @ \cup {"DONE"}]
        /\ heap' = IF Frees(taken, fl) THEN [heap EXCEPT ![taken] = "freed"] ELSE heap
        /\ result' = IF Posts(taken, fl) THEN [result EXCEPT ![taken] = "OK"] ELSE result
    BY <1>12 DEF CmdComplete
  <2>4. \A d \in Cmds : heap'[d] # "unused" \/ heap'[d] = heap[d]
    BY <1>2, <1>6, <2>3
  <2>5. /\ \A d \in Cmds : d # taken => flags'[d] = fl[d] /\ result'[d] = result[d]
        /\ flags'[taken] = fl[taken] \cup {"DONE"}
    BY <1>2, <1>6, <1>7, <2>3
  <2>6. "NONBLOCK" \notin flags[taken] => result'[taken] = "OK" /\ WaitComplete(flags'[taken])
    <3>1. WaitComplete(fl[taken]) => WaitComplete(fl[taken] \cup {"DONE"})
      BY DEF WaitComplete
    <3> QED BY <1>2, <1>6, <1>7, <1>12, <2>3, <2>5, <3>1 DEF Posts
  <2>7. \A d \in Queued' : Accepted(d)' <=> Accepted(d)
    BY <1>4, <1>10, <2>2, <2>4
  <2> QED BY <1>1, <1>2, <1>4, <1>7, <1>8, <1>9, <2>1, <2>2, <2>5, <2>6, <2>7
<1> QED BY <1>1, <1>11, <1>12

\* The command cmd_mgr_llind completes is confirmed, the others are as before.
LEMMA OwedLlind ==
  ASSUME IInv, OwedInv, Llind
  PROVE  OwedInv'
<1>1. UNCHANGED <<state, work, cfmOf>>
  BY LlindFacts
<1>2. SUFFICES ASSUME WorkListed, ListedOwed, MatchedCfm
               PROVE  WorkListed' /\ ListedOwed' /\ MatchedCfm'
  BY <1>1 DEF OwedInv
<1>3. \A d \in Queued : d \in Cmds
  BY QueuedFacts DEF IInv
<1>4. /\ Queued' \subseteq Queued
      /\ \A d \in Queued : "WAIT_CFM" \in flags[d] => d \in Queued'
      /\ \A d, e \in Queued' : Before(d, e) => Before(d, e)'
  <2>1. CASE cmds' = cmds
    BY <2>1, BeforeKept
  <2> QED BY <2>1, LlindFacts
<1>5. /\ \A d \in Queued' : /\ "WAIT_CFM" \in flags'[d] <=> "WAIT_CFM" \in flags[d]
                            /\ "REQ_CFM" \in flags'[d] <=> "REQ_CFM" \in flags[d]
                            /\ d \in a2eMsg' => d \in a2eMsg
                            /\ d \in a2eMsg' /\ "WAIT_ACK" \in flags[d] => "WAIT_ACK" \in flags'[d]
                            /\ Accepted(d)' <=> Accepted(d)
  BY <1>3, <1>4, LlindFacts
<1>6. WorkListed'
  <2>1. \A k \in 1 .. Len(work) : work[k] \in Queued'
    BY <1>2, <1>4 DEF WorkListed
  <2> QED BY <1>1, <1>2, <1>4, <1>5, <2>1 DEF WorkListed
<1>7. ListedOwed'
  BY <1>1, <1>2, <1>4, <1>5 DEF ListedOwed
<1>8. MatchedCfm'
  BY <1>1, <1>2 DEF MatchedCfm
<1> QED BY <1>6, <1>7, <1>8

\* What cmd_mgr_msgind does with a confirmation.
LEMMA MsgIndFacts ==
  ASSUME IInv, NEW k \in 1 .. Len(work), MsgInd(k)
  PROVE  /\ UNCHANGED <<state, pc, mine>>
         /\ work' = RemoveAt(work, k)
         /\ \A j \in 1 .. k - 1 : reqid[work[j]] # reqid[work[k]]
         /\ \A d \in Cmds : Accepted(d)' <=> Accepted(d)
         /\ a2eMsg' = a2eMsg
         /\ \/ TakerPos(reqid[work[k]]) = {} /\ UNCHANGED <<cmds, flags, result, cfmOf>>
            \/ \E i \in TakerPos(reqid[work[k]]), c \in Queued :
                 /\ c = cmds[i] /\ cfmOf' = [cfmOf EXCEPT ![c] = work[k]]
                 /\ \A d \in Cmds : d # c => flags'[d] = flags[d] /\ result'[d] = result[d]
                 /\ "WAIT_CFM" \notin flags'[c]
                 /\ \A f \in {"NONBLOCK", "REQ_CFM", "WAIT_ACK"} :
                      f \in flags'[c] <=> f \in flags[c]
                 /\ \/ cmds' = cmds /\ result' = result
                    \/ /\ "WAIT_ACK" \notin flags[c] /\ Queued' = Queued \ {c}
                       /\ \A d, e \in Queued' : Before(d, e) => Before(d, e)'
                       /\ "NONBLOCK" \notin flags[c] => result'[c] = "OK"
<1>1. /\ UNCHANGED <<state, pc, mine, a2eMsg, trigger, msgBuf>>
      /\ work' = RemoveAt(work, k)
      /\ \A j \in 1 .. k - 1 : reqid[work[j]] # reqid[work[k]]
  BY DEF MsgInd, taskVars
<1>2. CASE TakerPos(reqid[work[k]]) = {} /\ CmdKeep(flags) /\ UNCHANGED cfmOf
  <2>1. UNCHANGED <<cmds, flags, result, heap>>
    BY <1>2 DEF CmdKeep
  <2> QED BY <1>1, <1>2, <2>1 DEF Accepted, Given
<1>3. ASSUME NEW i \in TakerPos(reqid[work[k]]),
             cfmOf' = [cfmOf EXCEPT ![cmds[i]] = work[k]],
             LET fl == [flags EXCEPT ![cmds[i]] = @ \ {"WAIT_CFM"}] IN
             IF WaitComplete(fl[cmds[i]]) THEN CmdComplete(cmds[i], fl, result)
                                          ELSE CmdKeep(fl)
      PROVE  /\ \A d \in Cmds : Accepted(d)' <=> Accepted(d)
             /\ \E c \in Queued :
                 /\ c = cmds[i] /\ cfmOf' = [cfmOf EXCEPT ![c] = work[k]]
                 /\ \A d \in Cmds : d # c => flags'[d] = flags[d] /\ result'[d] = result[d]
                 /\ "WAIT_CFM" \notin flags'[c]
                 /\ \A f \in {"NONBLOCK", "REQ_CFM", "WAIT_ACK"} :
                      f \in flags'[c] <=> f \in flags[c]
                 /\ \/ cmds' = cmds /\ result' = result
                    \/ /\ "WAIT_ACK" \notin flags[c] /\ Queued' = Queued \ {c}
                       /\ \A d, e \in Queued' : Before(d, e) => Before(d, e)'
                       /\ "NONBLOCK" \notin flags[c] => result'[c] = "OK"
  <2> DEFINE c == cmds[i]
             fl == [flags EXCEPT ![c] = @ \ {"WAIT_CFM"}]
  <2>1. c \in Queued /\ c \in Cmds /\ heap[c] = "live"
    BY QueuedFacts DEF TakerPos, Queued, IInv, ListInv
  <2>2. /\ fl \in [Cmds -> SUBSET Flags]
        /\ \A d \in Cmds : d # c => fl[d] = flags[d]
        /\ "WAIT_CFM" \notin fl[c]
        /\ \A f \in {"NONBLOCK", "REQ_CFM", "WAIT_ACK"} : f \in fl[c] <=> f \in flags[c]
    BY <2>1 DEF IInv, TypeOK
  <2>3. IF WaitComplete(fl[c]) THEN CmdComplete(c, fl, result) ELSE CmdKeep(fl)
    BY <1>3
  <2>4. cfmOf' = [cfmOf EXCEPT ![c] = work[k]]
    BY <1>3
  <2>5. result \in [Cmds -> Results] /\ heap \in [Cmds -> {"unused", "live", "freed"}]
    BY DEF IInv, TypeOK
  <2> HIDE DEF fl
  <2>6. CASE WaitComplete(fl[c])
    <3>1. CmdComplete(c, fl, result)
      BY <2>3, <2>6
    <3>2. /\ Queued' = Queued \ {c}
          /\ \A d, e \in Queued' : Before(d, e) => Before(d, e)'
      <4> HIDE DEF c
      <4> QED BY <2>1, <3>1, BeforeRemoved DEF IInv
    <3>3. /\ flags' = [fl EXCEPT ![c] = @ \cup {"DONE"}]
          /\ heap' = IF Frees(c, fl) THEN [heap EXCEPT ![c] = "freed"] ELSE heap
          /\ result' = IF Posts(c, fl) THEN [result EXCEPT ![c] = "OK"] ELSE result
      BY <3>1 DEF CmdComplete
    <3> HIDE DEF c
    <3>4. \A d \in Cmds : heap'[d] = "unused" <=> heap[d] = "unused"
      BY <2>1, <2>5, <3>3
    <3>5. \A d \in Cmds : Accepted(d)' <=> Accepted(d)
      BY <1>1, <3>4 DEF Accepted, Given
    <3>6. /\ \A d \in Cmds : d # c => flags'[d] = fl[d] /\ result'[d] = result[d]
          /\ flags'[c] = fl[c] \cup {"DONE"}
          /\ "NONBLOCK" \notin fl[c] => result'[c] = "OK"
      BY <2>1, <2>2, <2>5, <2>6, <3>3 DEF Posts
    <3>7. "WAIT_ACK" \notin flags[c]
      BY <2>2, <2>6 DEF WaitComplete
    <3> QED BY <2>1, <2>2, <2>4, <3>2, <3>5, <3>6, <3>7 DEF c
  <2>7. CASE ~WaitComplete(fl[c])
    <3>1. flags' = fl /\ UNCHANGED <<cmds, heap, result>>
      BY <2>3, <2>7 DEF CmdKeep
    <3>2. \A d \in Cmds : Accepted(d)' <=> Accepted(d)
      BY <1>1, <3>1 DEF Accepted, Given
    <3> QED BY <2>1, <2>2, <2>4, <3>1, <3>2
  <2> QED BY <2>6, <2>7
<1> QED BY <1>1, <1>2, <1>3 DEF MsgInd

\* Before a crash the command that takes a confirmation is the one the firmware
\* confirms: an older one that waits for the id would be confirmed before it.
LEMMA TakerIsConfirmed ==
  ASSUME IInv, OwedInv, state # "CRASHED", NEW k \in 1 .. Len(work),
         \A j \in 1 .. k - 1 : reqid[work[j]] # reqid[work[k]]
  PROVE  /\ TakerPos(reqid[work[k]]) # {}
         /\ \A i \in TakerPos(reqid[work[k]]) : cmds[i] = work[k]
<1> DEFINE w == work[k]
           waits(i) == reqid[cmds[i]] = reqid[w] /\ "WAIT_CFM" \in flags[cmds[i]]
<1>1. WorkListed /\ ListedOwed
  BY DEF OwedInv
<1>2. w \in Queued /\ Accepted(w) /\ "WAIT_CFM" \in flags[w]
  BY <1>1 DEF WorkListed
<1>3. Len(cmds) \in Nat /\ Len(work) \in Nat
  BY LenProperties DEF IInv, TypeOK
<1>4. PICK p \in 1 .. Len(cmds) : cmds[p] = w
  BY <1>2 DEF Queued
<1>5. waits(p)
  BY <1>2, <1>4
<1>6. ASSUME NEW i \in 1 .. p - 1, waits(i)
      PROVE  FALSE
  <2> DEFINE c == cmds[i]
  <2>1. i \in 1 .. Len(cmds) /\ i < p
    BY <1>3, <1>4
  <2>2. Before(c, w) /\ c \in Queued
    BY <1>4, <2>1 DEF Before, Queued
  <2>3. "WAIT_CFM" \in flags[c] /\ reqid[c] = reqid[w]
    BY <1>6
  <2> HIDE DEF c, w
  <2>4. "WAIT_ACK" \notin flags[c]
    BY <1>2, <2>2, DeferredBehind
  <2>5. Accepted(c)
    <3>1. c \notin a2eMsg
      BY <1>1, <2>2, <2>4 DEF ListedOwed
    <3>2. c \in Given
      <4>1. c \in Cmds /\ heap[c] = "live"
        BY <2>2, QueuedFacts DEF IInv, ListInv
      <4> QED BY <3>1, <4>1 DEF Given
    <3>3. trigger /\ msgBuf = c => "WAIT_ACK" \in flags[c]
      BY <2>2 DEF IInv, MailInv
    <3> QED BY <2>4, <3>2, <3>3 DEF Accepted
  <2>6. PICK m \in 1 .. Len(work) : work[m] = c
    BY <1>1, <2>2, <2>3, <2>5 DEF ListedOwed
  <2>7. c # w /\ ~Before(w, c)
    BY <2>2, BeforeFacts DEF IInv
  <2>8. ~(m < k)
    BY <1>3, <2>3, <2>6 DEF w
  <2>9. k < m
    BY <1>3, <2>6, <2>7, <2>8 DEF w
  <2>10. Before(w, c)
    BY <1>1, <2>6, <2>9 DEF WorkListed, w
  <2> QED BY <2>7, <2>10
<1> HIDE DEF w
<1>7. p \in TakerPos(reqid[w])
  BY <1>4, <1>5, <1>6 DEF TakerPos
<1>8. \A i \in TakerPos(reqid[w]) : i = p
  <2>1. SUFFICES ASSUME NEW i \in TakerPos(reqid[w]) PROVE i = p
    OBVIOUS
  <2>2. i \in 1 .. Len(cmds) /\ waits(i) /\ \A j \in 1 .. i - 1 : ~waits(j)
    BY DEF TakerPos
  <2> HIDE DEF waits
  <2> QED BY <1>3, <1>5, <1>6, <2>2
<1> QED BY <1>4, <1>7, <1>8 DEF w

\* A confirmation: what the firmware still owes loses the command that takes it.
LEMMA OwedMsgInd ==
  ASSUME IInv, OwedInv, NEW k \in 1 .. Len(work), MsgInd(k)
  PROVE  OwedInv'
<1> DEFINE w == work[k]
<1>1. SUFFICES ASSUME state # "CRASHED", WorkListed, ListedOwed, MatchedCfm
               PROVE  WorkListed' /\ ListedOwed' /\ MatchedCfm'
  <2>1. state' = state
    BY MsgIndFacts
  <2> QED BY <2>1 DEF OwedInv
<1>2. /\ work' = RemoveAt(work, k) /\ a2eMsg' = a2eMsg
      /\ \A d \in Cmds : Accepted(d)' <=> Accepted(d)
  BY MsgIndFacts
<1>3. w \in Queued /\ "WAIT_CFM" \in flags[w]
  BY <1>1 DEF WorkListed
<1>4. /\ cfmOf' = [cfmOf EXCEPT ![w] = w]
      /\ \A d \in Cmds : d # w => flags'[d] = flags[d]
      /\ "WAIT_CFM" \notin flags'[w]
      /\ \A f \in {"NONBLOCK", "REQ_CFM", "WAIT_ACK"} : f \in flags'[w] <=> f \in flags[w]
      /\ \/ cmds' = cmds
         \/ /\ Queued' = Queued \ {w}
            /\ \A d, e \in Queued' : Before(d, e) => Before(d, e)'
  <2>1. \A j \in 1 .. k - 1 : reqid[work[j]] # reqid[work[k]]
    BY MsgIndFacts
  <2>2. TakerPos(reqid[w]) # {} /\ \A i \in TakerPos(reqid[w]) : cmds[i] = w
    BY <1>1, <2>1, TakerIsConfirmed
  <2>3. PICK i \in TakerPos(reqid[work[k]]), c \in Queued :
          /\ c = cmds[i] /\ cfmOf' = [cfmOf EXCEPT ![c] = work[k]]
          /\ \A d \in Cmds : d # c => flags'[d] = flags[d]
          /\ "WAIT_CFM" \notin flags'[c]
          /\ \A f \in {"NONBLOCK", "REQ_CFM", "WAIT_ACK"} :
               f \in flags'[c] <=> f \in flags[c]
          /\ \/ cmds' = cmds
             \/ /\ Queued' = Queued \ {c}
                /\ \A d, e \in Queued' : Before(d, e) => Before(d, e)'
    BY <2>2, MsgIndFacts
  <2>4. c = w
    BY <2>2, <2>3
  <2> QED BY <2>3, <2>4
<1>5. \A d \in Queued : d \in Cmds
  BY QueuedFacts DEF IInv
<1>6. /\ Len(work) \in Nat /\ Len(work') = Len(work) - 1
      /\ \A j \in 1 .. Len(work) - 1 : work'[j] = IF j < k THEN work[j] ELSE work[j + 1]
  BY <1>2, RemoveAtFacts, LenProperties DEF IInv, TypeOK
<1> HIDE DEF w
<1>7. Queued' \subseteq Queued /\ Queued \ {w} \subseteq Queued'
  BY <1>4, BeforeKept
<1>8. \A d, e \in Queued' : Before(d, e) => Before(d, e)'
  BY <1>4, BeforeKept
<1>9. \A i, j \in 1 .. Len(work) : i # j => work[i] # work[j]
  <2>1. SUFFICES ASSUME NEW i \in 1 .. Len(work), NEW j \in 1 .. Len(work), i < j
                 PROVE  work[i] # work[j]
    BY <1>6
  <2> QED BY <1>1, <2>1, BeforeFacts DEF WorkListed, IInv
<1>10. \A j \in 1 .. Len(work') : \E m \in 1 .. Len(work) :
         /\ m # k /\ work'[j] = work[m]
         /\ m = IF j < k THEN j ELSE j + 1
  <2>1. SUFFICES ASSUME NEW j \in 1 .. Len(work')
                 PROVE  LET m == IF j < k THEN j ELSE j + 1 IN
                        m \in 1 .. Len(work) /\ m # k /\ work'[j] = work[m]
    OBVIOUS
  <2> QED BY <1>6
<1>11. \A m \in 1 .. Len(work) : m # k => \E j \in 1 .. Len(work') : work'[j] = work[m]
  <2>1. SUFFICES ASSUME NEW m \in 1 .. Len(work), m # k
                 PROVE  LET j == IF m < k THEN m ELSE m - 1 IN
                        j \in 1 .. Len(work') /\ work'[j] = work[m]
    OBVIOUS
  <2> QED BY <1>6, <2>1
<1>12. WorkListed'
  <2>1. ASSUME NEW j \in 1 .. Len(work')
        PROVE  (/\ work[j] \in Queued /\ Accepted(work[j])
                /\ "WAIT_CFM" \in flags[work[j]])'
    <3>1. PICK m \in 1 .. Len(work) : m # k /\ work'[j] = work[m]
      BY <1>10
    <3>2. work[m] # w
      BY <1>9, <3>1 DEF w
    <3>3. work[m] \in Queued /\ Accepted(work[m]) /\ "WAIT_CFM" \in flags[work[m]]
      BY <1>1 DEF WorkListed
    <3> QED BY <1>2, <1>4, <1>5, <1>7, <3>1, <3>2, <3>3
  <2>2. ASSUME NEW i \in 1 .. Len(work'), NEW j \in 1 .. Len(work'), i < j
        PROVE  Before(work[i], work[j])'
    <3>1. PICK m \in 1 .. Len(work) : work'[i] = work[m] /\ m = IF i < k THEN i ELSE i + 1
      BY <1>10
    <3>2. PICK n \in 1 .. Len(work) : work'[j] = work[n] /\ n = IF j < k THEN j ELSE j + 1
      BY <1>10
    <3>3. m < n
      BY <1>6, <2>2, <3>1, <3>2
    <3>4. Before(work[m], work[n])
      BY <1>1, <3>3 DEF WorkListed
    <3> QED BY <1>8, <2>1, <3>1, <3>2, <3>4
  <2> QED BY <2>1, <2>2 DEF WorkListed
<1>13. ListedOwed'
  <2>1. ASSUME NEW d \in Queued'
        PROVE  /\ "WAIT_CFM" \in flags'[d] /\ Accepted(d)' => \E j \in 1 .. Len(work') : work'[j] = d
               /\ "WAIT_CFM" \in flags'[d] => "REQ_CFM" \in flags'[d]
               /\ "REQ_CFM" \in flags'[d] /\ ~Accepted(d)' => "WAIT_CFM" \in flags'[d]
               /\ d \in a2eMsg' => "WAIT_ACK" \in flags'[d]
    <3>1. d \in Queued /\ d \in Cmds
      BY <1>5, <1>7
    <3>2. CASE d = w
      <4>1. Accepted(w)
        BY <1>1 DEF WorkListed, w
      <4> QED BY <1>1, <1>2, <1>4, <3>1, <3>2, <4>1 DEF ListedOwed
    <3>3. CASE d # w
      <4>1. flags'[d] = flags[d] /\ (Accepted(d)' <=> Accepted(d))
        BY <1>2, <1>4, <3>1, <3>3
      <4>2. "WAIT_CFM" \in flags[d] /\ Accepted(d) => \E j \in 1 .. Len(work') : work'[j] = d
        <5>1. "WAIT_CFM" \in flags[d] /\ Accepted(d) => \E m \in 1 .. Len(work) : work[m] = d
          BY <1>1, <3>1 DEF ListedOwed
        <5> QED BY <1>11, <3>3, <5>1 DEF w
      <4> QED BY <1>1, <1>2, <3>1, <4>1, <4>2 DEF ListedOwed
    <3> QED BY <3>2, <3>3
  <2> QED BY <2>1 DEF ListedOwed
<1>14. MatchedCfm'
  BY <1>1, <1>3, <1>4, <1>5 DEF MatchedCfm, IInv, TypeOK
<1> QED BY <1>12, <1>13, <1>14

\* What the firmware owes and what is listed agree until a crash.
LEMMA OwedNext == IInv /\ OwedInv /\ [Next]_vars => OwedInv'
<1> SUFFICES ASSUME IInv, OwedInv, [Next]_vars PROVE OwedInv'
  OBVIOUS
<1>1. CASE \E t \in Tasks : Expire(t)
  BY <1>1 DEF Expire, OwedInv
<1>2. CASE \E t \in Tasks : QueueAdd(t)
  BY <1>2, OwedQueueAdd
<1>3. CASE FwAccept
  BY <1>3, OwedFwAccept
<1>4. CASE Llind
  BY <1>4, OwedLlind
<1>5. CASE \E k \in 1 .. Len(work) : MsgInd(k)
  BY <1>5, OwedMsgInd
<1> QED BY <1>1, <1>2, <1>3, <1>4, <1>5, OwedOthers DEF Next, TaskStep, DriverStep

(***************************************************************************)
(* What a blocking caller is told                                          *)
(***************************************************************************)

\* A caller whose command a step does not touch is told the same.
LEMMA ResultUntouched ==
  ASSUME NEW t \in Tasks, ResultHeld(t), UNCHANGED <<pc[t], mine[t]>>,
         mine[t] \in Queued' <=> mine[t] \in Queued,
         flags'[mine[t]] = flags[mine[t]], result'[mine[t]] = result[mine[t]],
         cfmOf'[mine[t]] = cfmOf[mine[t]]
  PROVE  ResultHeld(t)'
BY DEF ResultHeld

\* The steps of the callers.
LEMMA ResultTaskStep ==
  ASSUME IInv, OwedInv, ResultInv, NEW t \in Tasks,
         TaskStep(t) \/ Timeout(t) \/ \E c \in Cmds, k \in Kinds : Send(t, c, k)
  PROVE  ResultInv'
<1> USE DEF mgrVars, cmdVars, taskVars, ipcVars, fwVars, ghost
<1>1. /\ cfmOf' = cfmOf
      /\ \A u \in Tasks : u # t => pc'[u] = pc[u] /\ mine'[u] = mine[u]
  BY DEF TaskStep, QueueCrashed, QueueFull, Refuse, QueueAdd, QueuePush, NoWait, Wake, Expire,
     Return, Timeout, Send, IInv, TypeOK
<1>2. ASSUME NEW c \in Cmds, NEW k \in Kinds, Send(t, c, k)
      PROVE  ResultInv'
  <2>1. pc'[t] = "queue" /\ cmds' = cmds /\ result' = result /\ Queued' = Queued
    BY <1>2 DEF Send, IInv, TypeOK, Queued
  <2>2. ASSUME NEW u \in Tasks, u # t
        PROVE  ResultHeld(u)'
    <3>1. CASE pc[u] = "idle"
      BY <1>1, <2>2, <3>1 DEF ResultHeld
    <3>2. CASE pc[u] # "idle"
      <4>1. mine[u] # c /\ mine[u] \in Cmds
        BY <1>2, <3>2 DEF Send, IInv, TypeOK, TaskInv
      <4>2. flags'[mine[u]] = flags[mine[u]]
        BY <1>2, <4>1 DEF Send, IInv, TypeOK
      <4> QED BY <1>1, <2>1, <2>2, <4>2, ResultUntouched DEF ResultInv
    <3> QED BY <3>1, <3>2
  <2> QED BY <2>1, <2>2 DEF ResultInv, ResultHeld
<1> DEFINE c == mine[t]
<1>3. ASSUME TaskStep(t) \/ Timeout(t)
      PROVE  ResultInv'
  <2>1. c \in Cmds /\ pc[t] # "idle"
    BY <1>3 DEF TaskStep, QueueCrashed, QueueFull, Refuse, QueueAdd, QueuePush, NoWait, Wake,
      Expire, Return, Timeout, IInv, TypeOK
  <2>2. ASSUME NEW d \in Cmds, d # c
        PROVE  /\ d \in Queued' <=> d \in Queued
               /\ flags'[d] = flags[d] /\ result'[d] = result[d]
    <3>1. CASE QueueCrashed(t) \/ QueueFull(t) \/ QueuePush(t) \/ NoWait(t) \/ Wake(t)
               \/ Return(t) \/ Timeout(t)
      BY <2>2, <3>1 DEF QueueCrashed, QueueFull, Refuse, QueuePush, NoWait, Wake, Return, Timeout,
         Queued, IInv, TypeOK
    <3>2. CASE QueueAdd(t)
      <4>1. Queued' = Queued \cup {c}
        BY <2>1, <3>2, AppendFacts DEF QueueAdd, IInv, TypeOK
      <4>2. flags'[d] = flags[d] /\ result'[d] = result[d]
        BY <2>1, <2>2, <3>2 DEF QueueAdd, IInv, TypeOK
      <4> QED BY <2>2, <4>1, <4>2
    <3>3. CASE Expire(t)
      <4>1. CASE CmdKeep(flags)
        BY <4>1 DEF CmdKeep, Queued
      <4>2. CASE /\ "DONE" \notin flags[c]
                 /\ CmdComplete(c, flags, [result EXCEPT ![c] = "ETIMEDOUT"])
        <5>1. c \in Queued
          BY <3>3, <4>2 DEF Expire, IInv, TaskInv
        <5>2. Queued' = Queued \ {c}
          <6> HIDE DEF c
          <6> QED BY <4>2, <5>1, CompleteFacts DEF IInv, TypeOK
        <5>3. flags'[d] = flags[d] /\ result'[d] = result[d]
          BY <2>1, <2>2, <4>2 DEF CmdComplete, IInv, TypeOK
        <5> QED BY <2>2, <5>2, <5>3
      <4> QED BY <3>3, <4>1, <4>2 DEF Expire
    <3> QED BY <1>3, <3>1, <3>2, <3>3 DEF TaskStep
  <2>3. ASSUME NEW u \in Tasks, u # t
        PROVE  ResultHeld(u)'
    <3>1. CASE pc[u] = "idle"
      BY <1>1, <2>3, <3>1 DEF ResultHeld
    <3>2. CASE pc[u] # "idle"
      <4>1. mine[u] # c /\ mine[u] \in Cmds
        BY <2>1, <2>3, <3>2 DEF IInv, TypeOK, TaskInv
      <4> HIDE DEF c
      <4> QED BY <1>1, <2>2, <2>3, <4>1, ResultUntouched DEF ResultInv
    <3> QED BY <3>1, <3>2
  <2>4. ResultHeld(t)'
    <3>1. CASE QueueCrashed(t) \/ QueueFull(t) \/ NoWait(t) \/ Return(t)
      BY <3>1 DEF QueueCrashed, QueueFull, Refuse, NoWait, Return, ResultHeld, IInv, TypeOK
    <3>2. CASE QueuePush(t) \/ Wake(t) \/ Timeout(t)
      <4>1. /\ pc[t] \in {"push", "wait"} /\ mine' = mine
            /\ UNCHANGED <<flags, result>> /\ Queued' = Queued
        BY <3>2 DEF QueuePush, Wake, Timeout, Queued
      <4> QED BY <1>1, <4>1 DEF ResultInv, ResultHeld
    <3>3. CASE QueueAdd(t)
      <4>1. Queued' = Queued \cup {c} /\ mine' = mine /\ result'[c] = "EINTR"
        BY <2>1, <3>3, AppendFacts DEF QueueAdd, IInv, TypeOK
      <4>2. "WAIT_CFM" \in flags'[c] <=> "REQ_CFM" \in flags'[c]
        <5>1. flags' = [flags EXCEPT ![c] = @ \cup {"WAIT_ACK"}
                  \cup (IF Defers THEN {"WAIT_PUSH"} ELSE {})
                  \cup (IF "REQ_CFM" \in @ THEN {"WAIT_CFM"} ELSE {})]
          BY <3>3 DEF QueueAdd
        <5>2. flags[c] \subseteq {"NONBLOCK", "REQ_CFM"} /\ flags \in [Cmds -> SUBSET Flags]
          BY <3>3 DEF QueueAdd, IInv, TaskInv, TypeOK
        <5> HIDE DEF c, Defers
        <5> QED BY <2>1, <5>1, <5>2
      <4> QED BY <4>1, <4>2 DEF ResultHeld
    <3>4. CASE Expire(t)
      <4>1. /\ pc[t] = "expired" /\ mine' = mine /\ "NONBLOCK" \notin flags[c]
            /\ c \in Queued \/ "DONE" \in flags[c]
        BY <3>4 DEF Expire, IInv, TaskInv
      <4>2. /\ "REQ_CFM" \in flags[c] /\ "WAIT_CFM" \notin flags[c] => cfmOf[c] # None
            /\ c \notin Queued => (result[c] = "OK" <=> WaitComplete(flags[c]))
        BY <4>1 DEF ResultInv, ResultHeld
      <4>3. CASE "DONE" \in flags[c] /\ CmdKeep(flags)
        <5>1. c \notin Queued /\ Queued' = Queued /\ UNCHANGED <<flags, result>>
          BY <4>3 DEF CmdKeep, Queued, IInv, ListInv
        <5> QED BY <1>1, <4>1, <4>2, <5>1 DEF ResultHeld
      <4>4. CASE /\ "DONE" \notin flags[c]
                 /\ CmdComplete(c, flags, [result EXCEPT ![c] = "ETIMEDOUT"])
        <5>1. c \in Queued /\ ~WaitComplete(flags[c])
          BY <4>1, <4>4 DEF IInv, ListInv
        <5>2. Queued' = Queued \ {c}
          <6> HIDE DEF c
          <6> QED BY <4>4, <5>1, CompleteFacts DEF IInv, TypeOK
        <5>3. /\ flags'[c] = flags[c] \cup {"DONE"}
              /\ result'[c] = "ETIMEDOUT"
          BY <2>1, <4>4, <5>1 DEF CmdComplete, Posts, IInv, TypeOK
        <5>4. ~WaitComplete(flags'[c])
          BY <5>1, <5>3 DEF WaitComplete
        <5> QED BY <1>1, <4>1, <4>2, <5>2, <5>3, <5>4 DEF ResultHeld
      <4> QED BY <3>4, <4>3, <4>4 DEF Expire
    <3> QED BY <1>3, <3>1, <3>2, <3>3, <3>4 DEF TaskStep
  <2> QED BY <2>3, <2>4 DEF ResultInv
<1> QED BY <1>2, <1>3

\* cmd_mgr_llind and cmd_mgr_msgind: a blocking caller finds zero when its
\* command left the list, and then the confirmation has come.
LEMMA ResultCompleted ==
  ASSUME IInv, OwedInv, ResultInv, Llind \/ \E k \in 1 .. Len(work) : MsgInd(k)
  PROVE  ResultInv'
<1> SUFFICES ASSUME NEW t \in Tasks PROVE ResultHeld(t)'
  BY DEF ResultInv
<1> DEFINE c == mine[t]
<1>1. UNCHANGED <<pc, mine>>
  BY LlindFacts, MsgIndFacts
<1>2. SUFFICES ASSUME pc[t] \in {"push", "wait", "expired", "ret"}, "NONBLOCK" \notin flags'[c]
               PROVE  ResultHeld(t)'
  BY <1>1 DEF ResultHeld
<1>3. c \in Cmds
  BY <1>2 DEF IInv, TypeOK
<1>4. "NONBLOCK" \in flags'[c] <=> "NONBLOCK" \in flags[c]
  <2>1. CASE Llind
    BY <1>3, <2>1, LlindFacts
  <2>2. CASE \E k \in 1 .. Len(work) : MsgInd(k)
    BY <1>3, <2>2, MsgIndFacts
  <2> QED BY <2>1, <2>2
<1>5. /\ "REQ_CFM" \in flags[c] /\ "WAIT_CFM" \notin flags[c] => cfmOf[c] # None
      /\ c \in Queued => result[c] # "OK"
      /\ c \notin Queued => (result[c] = "OK" <=> WaitComplete(flags[c]))
  BY <1>2, <1>4 DEF ResultInv, ResultHeld
<1>6. CASE Llind
  <2>1. /\ cfmOf' = cfmOf
        /\ "REQ_CFM" \in flags'[c] <=> "REQ_CFM" \in flags[c]
        /\ "WAIT_CFM" \in flags'[c] <=> "WAIT_CFM" \in flags[c]
        /\ c \notin Queued => flags'[c] = flags[c] /\ result'[c] = result[c]
    BY <1>3, <1>6, LlindFacts
  <2>2. CASE cmds' = cmds /\ result' = result
    <3>1. Queued' = Queued
      BY <2>2 DEF Queued
    <3> QED BY <1>1, <1>5, <2>1, <2>2, <3>1 DEF ResultHeld
  <2>3. CASE /\ Queued' = Queued \ {taken}
             /\ \A d \in Cmds : d # taken => result'[d] = result[d]
             /\ "NONBLOCK" \notin flags[taken] =>
                  result'[taken] = "OK" /\ WaitComplete(flags'[taken])
             /\ taken \in Queued
    <3>1. CASE c = taken
      BY <1>1, <1>2, <1>4, <1>5, <2>1, <2>3, <3>1 DEF ResultHeld
    <3>2. CASE c # taken
      BY <1>1, <1>3, <1>5, <2>1, <2>3, <3>2 DEF ResultHeld
    <3> QED BY <3>1, <3>2
  <2> QED BY <1>6, <2>2, <2>3, LlindFacts
<1>7. ASSUME NEW k \in 1 .. Len(work), MsgInd(k)
      PROVE  ResultHeld(t)'
  <2>1. CASE UNCHANGED <<cmds, flags, result, cfmOf>>
    <3>1. Queued' = Queued
      BY <2>1 DEF Queued
    <3> QED BY <1>1, <1>5, <2>1, <3>1 DEF ResultHeld
  <2>2. ASSUME NEW d \in Queued,
               cfmOf' = [cfmOf EXCEPT ![d] = work[k]],
               \A e \in Cmds : e # d => flags'[e] = flags[e] /\ result'[e] = result[e],
               "WAIT_CFM" \notin flags'[d],
               \A f \in {"NONBLOCK", "REQ_CFM", "WAIT_ACK"} : f \in flags'[d] <=> f \in flags[d],
               \/ cmds' = cmds /\ result' = result
               \/ /\ "WAIT_ACK" \notin flags[d] /\ Queued' = Queued \ {d}
                  /\ "NONBLOCK" \notin flags[d] => result'[d] = "OK"
        PROVE  ResultHeld(t)'
    <3>1. d \in Cmds /\ work[k] # None /\ cfmOf \in [Cmds -> Cmds \cup {None}]
      <4>1. work[k] \in Cmds
        BY ElementOfSeq DEF IInv, TypeOK
      <4> QED BY <4>1, QueuedFacts, NoneAssumption DEF IInv, TypeOK
    <3>2. cfmOf'[d] # None /\ \A e \in Cmds : e # d => cfmOf'[e] = cfmOf[e]
      BY <2>2, <3>1
    <3>3. Queued' = Queued \/ Queued' = Queued \ {d}
      BY <2>2, BeforeKept
    <3>4. CASE c # d
      BY <1>1, <1>3, <1>5, <2>2, <3>2, <3>3, <3>4 DEF ResultHeld
    <3>5. CASE c = d /\ cmds' = cmds /\ result' = result
      <4>1. Queued' = Queued
        BY <3>5, BeforeKept
      <4> QED BY <1>1, <1>5, <2>2, <3>2, <3>5, <4>1 DEF ResultHeld
    <3>6. CASE /\ c = d /\ "WAIT_ACK" \notin flags[d] /\ Queued' = Queued \ {d}
               /\ "NONBLOCK" \notin flags[d] => result'[d] = "OK"
      <4>1. result'[c] = "OK" /\ c \notin Queued'
        BY <1>2, <1>4, <3>6
      <4>2. WaitComplete(flags'[c])
        BY <2>2, <3>6 DEF WaitComplete
      <4> QED BY <1>1, <3>2, <3>6, <4>1, <4>2 DEF ResultHeld
    <3> QED BY <2>2, <3>4, <3>5, <3>6
  <2> QED BY <1>7, <2>1, <2>2, MsgIndFacts
<1> QED BY <1>6, <1>7

\* What blocking callers are told agrees with what the firmware has answered.
LEMMA ResultNext == IInv /\ OwedInv /\ ResultInv /\ [Next]_vars => ResultInv'
<1> SUFFICES ASSUME IInv, OwedInv, ResultInv, [Next]_vars PROVE ResultInv'
  OBVIOUS
<1>1. CASE MsgAck \/ LlindCorrupt \/ FwAccept \/ UNCHANGED vars
  <2>1. UNCHANGED <<pc, mine, flags, result, cfmOf>> /\ Queued' = Queued
    BY <1>1 DEF MsgAck, LlindCorrupt, FwAccept, vars, mgrVars, cmdVars, taskVars, ghost, Queued
  <2> QED BY <2>1 DEF ResultInv, ResultHeld
<1> QED BY <1>1, ResultTaskStep, ResultCompleted DEF Next, DriverStep

\* Until a crash of the manager the firmware owes a confirmation to exactly the
\* listed commands that wait for one, in the order of the list; and what
\* cmd_mgr_queue leaves for a blocking caller is true, crash or not.
THEOREM AnswerInvariance == Spec => []AnswerInv
<1>1. Init => AnswerInv
  <2> SUFFICES ASSUME Init PROVE AnswerInv
    OBVIOUS
  <2>1. Queued = {} /\ Len(work) = 0
    BY DEF Init, Queued
  <2>2. OwedInv
    BY <2>1 DEF Init, OwedInv, WorkListed, ListedOwed, MatchedCfm
  <2>3. ResultInv
    BY DEF Init, ResultInv, ResultHeld
  <2> QED BY <2>2, <2>3 DEF AnswerInv
<1>2. IInv /\ AnswerInv /\ [Next]_vars => AnswerInv'
  BY OwedNext, ResultNext DEF AnswerInv
<1> QED BY <1>1, <1>2, Invariance, PTL DEF Spec

\* Before a crash every confirmation completes the command it answers.
THEOREM ConfirmationsMatch == Spec => []MatchedCfm
<1>1. AnswerInv => MatchedCfm
  BY DEF AnswerInv, OwedInv, MatchedCfm
<1> QED BY <1>1, AnswerInvariance, PTL

\* cmd_mgr_queue tells a blocking caller the truth.
THEOREM ResultIsTrue == Spec => []ResultTruth
<1>1. IInv /\ AnswerInv => ResultTruth
  <2> SUFFICES ASSUME IInv, ResultInv, NEW t \in Tasks, pc[t] = "ret"
               PROVE  LET c == mine[t] IN
                      result[c] = "OK" <=> (/\ WaitComplete(flags[c])
                                            /\ "REQ_CFM" \in flags[c] => cfmOf[c] # None)
    BY DEF AnswerInv, ResultTruth
  <2>1. "NONBLOCK" \notin flags[mine[t]] /\ mine[t] \notin Queued
    BY DEF IInv, TaskInv
  <2>2. /\ "REQ_CFM" \in flags[mine[t]] /\ "WAIT_CFM" \notin flags[mine[t]]
             => cfmOf[mine[t]] # None
        /\ result[mine[t]] = "OK" <=> WaitComplete(flags[mine[t]])
    BY <2>1 DEF ResultInv, ResultHeld
  <2> QED BY <2>2 DEF WaitComplete
<1> QED BY <1>1, Invariance, AnswerInvariance, PTL

(***************************************************************************)
(* The mailbox: the command manager implements CmdChannel                  *)
(***************************************************************************)

Waiters == {c \in Cmds : Waits(c)}

\* The first m commands of the list do not wait for their push, the others do.
Ends(m) ==
  /\ m \in 0 .. Len(cmds)
  /\ \A i \in 1 .. Len(cmds) : cmds[i] \in Waiters <=> i > m

ShapeInv == \E m \in Nat : Ends(m)

\* What a step of the code does to the list and the mailbox is a step of
\* CmdChannel or none.
Moves == ShapeInv' /\ [Channel!Next]_(Channel!vars)

\* The commands that wait are those behind the last one that does not.
LEMMA WaitingFacts ==
  ASSUME cmds \in Seq(Cmds), NEW m, Ends(m)
  PROVE  /\ Waiting = SubSeq(cmds, m + 1, Len(cmds))
         /\ Waiting \in Seq(Cmds) /\ Len(Waiting) = Len(cmds) - m
         /\ \A k \in 1 .. Len(Waiting) : Waiting[k] = cmds[m + k]
<1> DEFINE T == {0} \cup {i \in 1 .. Len(cmds) : ~Waits(cmds[i])}
           w == SubSeq(cmds, m + 1, Len(cmds))
<1>1. m \in Nat /\ Len(cmds) \in Nat /\ m <= Len(cmds)
  BY LenProperties DEF Ends
<1>2. T = 0 .. m
  <2>1. \A i \in 1 .. Len(cmds) : Waits(cmds[i]) <=> cmds[i] \in Waiters
    BY ElementOfSeq DEF Waiters
  <2> QED BY <1>1, <2>1 DEF Ends
<1>3. Max(T) = m
  BY <1>1, <1>2 DEF Max
<1>4. Waiting = w
  BY <1>3 DEF Waiting
<1> HIDE DEF T
<1>5. \A i \in m + 1 .. Len(cmds) : cmds[i] \in Cmds
  BY <1>1, ElementOfSeq
<1>6. /\ w \in Seq(Cmds) /\ Len(w) = IF m + 1 <= Len(cmds) THEN Len(cmds) - (m + 1) + 1 ELSE 0
      /\ \A k \in 1 .. Len(cmds) - (m + 1) + 1 : w[k] = cmds[(m + 1) + k - 1]
  BY <1>1, <1>5, SubSeqProperties
<1> HIDE DEF w
<1>7. Len(w) = Len(cmds) - m
  <2>1. CASE m < Len(cmds)
    BY <1>1, <1>6, <2>1
  <2>2. CASE m = Len(cmds)
    BY <1>1, <1>6, <2>2
  <2> QED BY <1>1, <2>1, <2>2
<1>8. ASSUME NEW k \in 1 .. Len(w)
      PROVE  w[k] = cmds[m + k]
  <2>1. k \in 1 .. Len(cmds) - (m + 1) + 1 /\ (m + 1) + k - 1 = m + k
    BY <1>1, <1>7
  <2> QED BY <1>6, <2>1
<1> QED BY <1>4, <1>6, <1>7, <1>8 DEF w

\* What waits after a step is the end of the list behind the new position.
LEMMA WaitingNext ==
  ASSUME cmds' \in Seq(Cmds), NEW m, Ends(m)'
  PROVE  m \in Nat /\ Waiting' = SubSeq(cmds', m + 1, Len(cmds'))
<1> DEFINE T == {0} \cup {i \in 1 .. Len(cmds') : ~Waits(cmds[i])'}
<1>1. m \in Nat /\ Len(cmds') \in Nat /\ m <= Len(cmds')
  BY LenProperties DEF Ends
<1>2. T = 0 .. m
  <2>1. \A i \in 1 .. Len(cmds') : Waits(cmds[i])' <=> cmds'[i] \in Waiters'
    BY ElementOfSeq DEF Waiters, Waits
  <2> QED BY <1>1, <2>1 DEF Ends
<1>3. Max(T) = m
  BY <1>1, <1>2 DEF Max
<1>4. Waiting' = SubSeq(cmds', Max(T) + 1, Len(cmds'))
  BY DEF Waiting
<1> QED BY <1>1, <1>3, <1>4

\* Steps that neither list, push nor acknowledge.
LEMMA ChannelUnmoved ==
  ASSUME cmds \in Seq(Cmds), NEW m, Ends(m),
         UNCHANGED <<cmds, state, hostid>>, Given' = Given,
         \A d \in Queued : "WAIT_PUSH" \in flags'[d] <=> "WAIT_PUSH" \in flags[d],
         \A u \in Tasks : pc'[u] = "push" <=> pc[u] = "push",
         \A u \in Tasks : pc[u] = "push" => mine'[u] = mine[u]
  PROVE  Moves
<1>1. m \in Nat
  BY LenProperties DEF Ends
<1>2. \A i \in 1 .. Len(cmds) : cmds[i] \in Waiters' <=> cmds[i] \in Waiters
  <2> SUFFICES ASSUME NEW i \in 1 .. Len(cmds)
               PROVE  cmds[i] \in Waiters' <=> cmds[i] \in Waiters
    OBVIOUS
  <2>1. cmds[i] \in Queued /\ cmds[i] \in Cmds
    BY ElementOfSeq DEF Queued
  <2> QED BY <2>1 DEF Waiters, Waits
<1>3. Ends(m)'
  BY <1>2 DEF Ends
<1>4. Waiting' = Waiting
  BY <1>3, WaitingFacts, WaitingNext
<1> QED BY <1>1, <1>3, <1>4 DEF Moves, ShapeInv, Channel!vars

\* A listed command that waits for its push awaits its acknowledgement, and
\* its message is still the caller's.
LEMMA WaitsFacts ==
  ASSUME IInv, NEW d \in Queued, d \in Waiters
  PROVE  "WAIT_ACK" \in flags[d] /\ d \in a2eMsg
BY DEF Waiters, Waits, IInv, ChainInv, TaskInv

\* cmd_mgr_queue accepts a command.
LEMMA QueueAddMoves ==
  ASSUME IInv, ShapeInv, NEW t \in Tasks, QueueAdd(t)
  PROVE  Moves
<1> DEFINE c == mine[t]
<1>1. PICK m \in Nat : Ends(m)
  BY DEF ShapeInv
<1>2. /\ c \in Cmds /\ c \notin Queued /\ c \in a2eMsg
      /\ pc[t] = "queue" /\ state # "CRASHED"
      /\ flags' = [flags EXCEPT ![c] = @ \cup {"WAIT_ACK"}
                     \cup (IF Defers THEN {"WAIT_PUSH"} ELSE {})
                     \cup (IF "REQ_CFM" \in @ THEN {"WAIT_CFM"} ELSE {})]
      /\ pc' = [pc EXCEPT ![t] = IF Defers THEN AfterQueue(c) ELSE "push"]
      /\ cmds' = Append(cmds, c)
      /\ UNCHANGED <<state, heap, a2eMsg, mine, hostid>>
  BY DEF QueueAdd, IInv, TaskInv, TypeOK, ipcVars
<1>3. /\ cmds \in Seq(Cmds) /\ flags \in [Cmds -> SUBSET Flags]
      /\ pc \in [Tasks -> {"idle", "queue", "push", "nowait", "wait", "expired", "ret"}]
      /\ Len(cmds) \in Nat
  BY LenProperties DEF IInv, TypeOK
<1>4. /\ cmds' \in Seq(Cmds) /\ Len(cmds') = Len(cmds) + 1
      /\ \A i \in 1 .. Len(cmds) : cmds'[i] = cmds[i]
      /\ cmds'[Len(cmds) + 1] = c
  BY <1>2, <1>3, AppendProperties
<1> HIDE DEF c
<1>5. \A d \in Queued : d \in Cmds /\ d # c
  BY <1>2, QueuedFacts DEF IInv
<1>6. \A d \in Cmds : d # c => flags'[d] = flags[d]
  BY <1>2, <1>3
<1>7. /\ \A u \in Tasks : u # t => pc'[u] = pc[u]
      /\ pc'[t] = "push" <=> ~Defers
      /\ Defers => "WAIT_PUSH" \in flags'[c]
  BY <1>2, <1>3 DEF AfterQueue
<1>8. \A d \in Queued : d \in Waiters' <=> d \in Waiters
  BY <1>2, <1>5, <1>6, <1>7 DEF Waiters, Waits, c
<1>9. c \in Waiters'
  BY <1>2, <1>7 DEF Waiters, Waits, c
<1>10. \A i \in 1 .. Len(cmds) : cmds[i] \in Queued
  BY DEF Queued
<1>11. Ends(m)'
  <2>1. ASSUME NEW i \in 1 .. Len(cmds')
        PROVE  cmds'[i] \in Waiters' <=> i > m
    <3>1. CASE i \in 1 .. Len(cmds)
      BY <1>1, <1>4, <1>8, <1>10, <3>1 DEF Ends
    <3>2. CASE i = Len(cmds) + 1
      BY <1>1, <1>3, <1>4, <1>9, <3>2 DEF Ends
    <3> QED BY <1>3, <1>4, <3>1, <3>2
  <2> QED BY <1>1, <1>3, <1>4, <2>1 DEF Ends
<1>12. Waiting' = Append(Waiting, c)
  <2>1. SubSeq(Append(cmds, c), m + 1, Len(cmds) + 1) = Append(SubSeq(cmds, m + 1, Len(cmds)), c)
    BY <1>1, <1>2, <1>3, BackAppend DEF Ends
  <2> QED BY <1>1, <1>2, <1>3, <1>4, <1>11, <2>1, WaitingFacts, WaitingNext
<1>13. c \notin ToSet(Waiting)
  <2>1. \A k \in 1 .. Len(Waiting) : Waiting[k] # c
    <3> TAKE k \in 1 .. Len(Waiting)
    <3>1. /\ Len(Waiting) = Len(cmds) - m
          /\ Waiting[k] = cmds[m + k]
      BY <1>1, <1>3, WaitingFacts
    <3>2. m + k \in 1 .. Len(cmds)
      BY <1>1, <1>3, <3>1
    <3> QED BY <1>5, <1>10, <3>1, <3>2
  <2>2. DOMAIN Waiting = 1 .. Len(Waiting)
    BY <1>1, <1>3, WaitingFacts, LenProperties
  <2> QED BY <2>1, <2>2 DEF ToSet
<1>14. Given' = Given /\ c \notin Given
  BY <1>2 DEF Given
<1>15. Channel!Accept(c)
  BY <1>2, <1>12, <1>13, <1>14 DEF Channel!Accept, Channel!ToSet, ToSet
<1>16. Channel!Next
  BY <1>2, <1>15 DEF Channel!Next
<1> QED BY <1>1, <1>11, <1>16 DEF Moves, ShapeInv

\* The push of the oldest command that waits empties its place: its caller
\* gives it to the firmware, or cmd_mgr_llind does.
LEMMA PushGives ==
  ASSUME IInv, NEW m \in Nat, Ends(m), m < Len(cmds), hostid = None,
         UNCHANGED <<state>>,
         hostid' = cmds[m + 1],
         Given' = Given \cup {cmds[m + 1]},
         Waiting' = SubSeq(cmds, m + 2, Len(cmds))
  PROVE  Channel!Next
<1>1. cmds \in Seq(Cmds) /\ Len(cmds) \in Nat
  BY LenProperties DEF IInv, TypeOK
<1>2. Waiting = SubSeq(cmds, m + 1, Len(cmds)) /\ Len(Waiting) > 0 /\ Waiting \in Seq(Cmds)
  BY <1>1, WaitingFacts
<1>3. /\ Head(Waiting) = cmds[m + 1]
      /\ Tail(Waiting) = SubSeq(cmds, (m + 1) + 1, Len(cmds))
  <2>1. m + 1 \in 1 .. Len(cmds) /\ Len(cmds) \in m + 1 .. Len(cmds)
    BY <1>1
  <2> QED BY <1>1, <1>2, <2>1, HeadTailOfSubSeq
<1>4. Waiting # <<>>
  <2>1. Len(<< >>) = 0
    OBVIOUS
  <2>2. Len(Waiting) # 0
    BY <1>2
  <2> QED BY <2>1, <2>2, Zenon
<1>5. (m + 1) + 1 = m + 2
  OBVIOUS
<1> QED BY <1>3, <1>4, <1>5 DEF Channel!Next, Channel!Give

\* The push of a caller hands over the first command that waits.
LEMMA QueuePushMoves ==
  ASSUME IInv, ShapeInv, NEW t \in Tasks, QueuePush(t)
  PROVE  Moves
<1> DEFINE c == mine[t]
<1>1. PICK m \in Nat : Ends(m)
  BY DEF ShapeInv
<1>2. /\ c \in Queued /\ c \in Cmds /\ pc[t] = "push" /\ hostid = None
      /\ "WAIT_ACK" \in flags[c] /\ "WAIT_PUSH" \notin flags[c] /\ heap[c] = "live"
      /\ hostid' = c /\ a2eMsg' = a2eMsg \ {c}
      /\ pc' = [pc EXCEPT ![t] = AfterQueue(c)]
      /\ UNCHANGED <<cmds, state, heap, flags, mine>>
  BY DEF QueuePush, MsgPush, IInv, TaskInv, MailInv, ListInv, TypeOK, mgrVars
<1>3. /\ cmds \in Seq(Cmds) /\ Len(cmds) \in Nat
      /\ pc \in [Tasks -> {"idle", "queue", "push", "nowait", "wait", "expired", "ret"}]
      /\ \A i \in 1 .. Len(cmds) : cmds[i] \in Queued
  BY LenProperties DEF IInv, TypeOK, Queued
<1>4. PICK p \in 1 .. Len(cmds) : cmds[p] = c
  BY <1>2 DEF Queued
<1>5. p > m
  <2>1. c \in Waiters
    BY <1>2 DEF Waiters, Waits
  <2> HIDE DEF c
  <2> QED BY <1>1, <1>4, <2>1 DEF Ends
<1>6. p = m + 1
  <2>1. ASSUME p > m + 1
        PROVE  FALSE
    <3>1. m + 1 \in 1 .. Len(cmds) /\ m + 1 < p
      BY <1>3, <1>4, <2>1
    <3>2. cmds[m + 1] \in Waiters /\ cmds[m + 1] \in Queued
      BY <1>1, <1>3, <3>1 DEF Ends
    <3>3. "WAIT_ACK" \in flags[cmds[m + 1]]
      BY <3>2, WaitsFacts
    <3> QED BY <1>2, <1>4, <3>1, <3>3 DEF IInv, ChainInv
  <2> QED BY <1>4, <1>5, <2>1
<1>7. \A u \in Tasks : pc[u] = "push" => mine[u] = c
  <2> SUFFICES ASSUME NEW u \in Tasks, pc[u] = "push", mine[u] # c
               PROVE  FALSE
    OBVIOUS
  <2>1. /\ mine[u] \in Queued
        /\ "WAIT_ACK" \in flags[mine[u]] /\ "WAIT_PUSH" \notin flags[mine[u]]
    BY DEF IInv, TaskInv
  <2>2. PICK q \in 1 .. Len(cmds) : cmds[q] = mine[u]
    BY <2>1 DEF Queued
  <2>3. p < q \/ q < p
    BY <1>4, <2>2
  <2> QED BY <1>2, <1>4, <2>1, <2>2, <2>3 DEF IInv, ChainInv
<1>8. \A u \in Tasks : u # t => mine[u] # c \/ pc[u] = "idle"
  BY <1>2 DEF IInv, TaskInv
<1>9. /\ pc'[t] # "push"
      /\ \A u \in Tasks : u # t => pc'[u] = pc[u]
  BY <1>2, <1>3 DEF AfterQueue
<1> HIDE DEF c
<1>10. \A d \in Queued : d \in Waiters' <=> d \in Waiters /\ d # c
  <2> SUFFICES ASSUME NEW d \in Queued
               PROVE  d \in Waiters' <=> d \in Waiters /\ d # c
    OBVIOUS
  <2>1. d \in Cmds
    BY QueuedFacts DEF IInv
  <2> QED BY <1>2, <1>7, <1>8, <1>9, <2>1 DEF Waiters, Waits, c
<1>11. Ends(m + 1)'
  <2>1. \A i \in 1 .. Len(cmds) : cmds[i] = c <=> i = m + 1
    BY <1>4, <1>6 DEF IInv, ListInv
  <2>2. \A i \in 1 .. Len(cmds) : cmds[i] \in Waiters' <=> i > m + 1
    BY <1>1, <1>3, <1>10, <2>1 DEF Ends
  <2>3. m + 1 \in 0 .. Len(cmds)
    BY <1>3, <1>4, <1>6
  <2> QED BY <1>2, <2>2, <2>3 DEF Ends
<1>12. Waiting' = SubSeq(cmds, m + 2, Len(cmds))
  <2>1. Waiting' = SubSeq(cmds, (m + 1) + 1, Len(cmds))
    BY <1>2, <1>3, <1>11, WaitingNext
  <2> QED BY <1>1, <2>1
<1>13. Given' = Given \cup {c}
  BY <1>2 DEF Given
<1>14. m < Len(cmds) /\ cmds[m + 1] = c
  BY <1>3, <1>4, <1>6
<1>15. Channel!Next
  BY <1>1, <1>2, <1>12, <1>13, <1>14, PushGives
<1> QED BY <1>1, <1>11, <1>15 DEF Moves, ShapeInv

\* A command that does not wait leaves the list.
LEMMA EndsRemoved ==
  ASSUME cmds \in Seq(Cmds), NEW m \in Nat, Ends(m), NEW p \in 1 .. m,
         cmds' = RemoveAt(cmds, p)
  PROVE  /\ cmds' \in Seq(Cmds) /\ Len(cmds') = Len(cmds) - 1
         /\ m - 1 \in 0 .. Len(cmds')
         /\ \A i \in 1 .. Len(cmds') : \E j \in 1 .. Len(cmds) :
              cmds'[i] = cmds[j] /\ (j > m <=> i > m - 1) /\ (j = m + 1 <=> i = m)
         /\ SubSeq(cmds', m, Len(cmds')) = SubSeq(cmds, m + 1, Len(cmds))
<1>1. Len(cmds) \in Nat /\ m \in 1 .. Len(cmds) /\ p \in 1 .. Len(cmds)
  BY LenProperties DEF Ends
<1>2. /\ cmds' \in Seq(Cmds) /\ Len(cmds') = Len(cmds) - 1
      /\ \A k \in 1 .. Len(cmds) - 1 : cmds'[k] = IF k < p THEN cmds[k] ELSE cmds[k + 1]
  BY <1>1, RemoveAtFacts
<1>3. SubSeq(cmds', m, Len(cmds')) = SubSeq(cmds, m + 1, Len(cmds))
  BY <1>1, <1>2, BackRemoveBefore
<1>4. ASSUME NEW i \in 1 .. Len(cmds')
      PROVE  \E j \in 1 .. Len(cmds) :
               cmds'[i] = cmds[j] /\ (j > m <=> i > m - 1) /\ (j = m + 1 <=> i = m)
  <2>1. CASE i < p
    <3>1. i \in 1 .. Len(cmds) /\ cmds'[i] = cmds[i] /\ i < m
      BY <1>1, <1>2, <2>1
    <3> QED BY <3>1
  <2>2. CASE ~(i < p)
    <3>1. i + 1 \in 1 .. Len(cmds) /\ cmds'[i] = cmds[i + 1]
      BY <1>1, <1>2, <2>2
    <3>2. (i + 1 > m <=> i > m - 1) /\ (i + 1 = m + 1 <=> i = m)
      BY <1>1, <1>2
    <3> QED BY <3>1, <3>2
  <2> QED BY <2>1, <2>2
<1> QED BY <1>1, <1>2, <1>3, <1>4

\* A command that does not wait, and is completed, goes unnoticed.
LEMMA CompleteUnnoticed ==
  ASSUME IInv, NEW m \in Nat, Ends(m), NEW c \in Queued, c \notin Waiters,
         NEW fl, NEW res, CmdComplete(c, fl, res),
         \A d \in Queued : d \in Waiters' <=> d \in Waiters
  PROVE  ShapeInv' /\ Waiting' = Waiting
<1>1. cmds \in Seq(Cmds) /\ Len(cmds) \in Nat
  BY LenProperties DEF IInv, TypeOK
<1>2. Position(c) \in 1 .. Len(cmds) /\ cmds[Position(c)] = c
  BY DEF Position, Queued
<1>3. cmds' = RemoveAt(cmds, Position(c))
  BY DEF CmdComplete
<1> HIDE DEF Position
<1>4. Position(c) \in 1 .. m
  BY <1>1, <1>2 DEF Ends
<1>5. /\ cmds' \in Seq(Cmds) /\ Len(cmds') = Len(cmds) - 1
      /\ m - 1 \in 0 .. Len(cmds')
      /\ \A i \in 1 .. Len(cmds') : \E j \in 1 .. Len(cmds) :
           cmds'[i] = cmds[j] /\ (j > m <=> i > m - 1)
      /\ SubSeq(cmds', m, Len(cmds')) = SubSeq(cmds, m + 1, Len(cmds))
  BY <1>1, <1>3, <1>4, EndsRemoved
<1>6. Ends(m - 1)'
  <2>1. ASSUME NEW i \in 1 .. Len(cmds')
        PROVE  cmds'[i] \in Waiters' <=> i > m - 1
    <3>1. PICK j \in 1 .. Len(cmds) : cmds'[i] = cmds[j] /\ (j > m <=> i > m - 1)
      BY <1>5
    <3>2. cmds[j] \in Queued
      BY DEF Queued
    <3> QED BY <3>1, <3>2 DEF Ends
  <2> QED BY <1>5, <2>1 DEF Ends
<1>7. Waiting' = Waiting
  <2>1. Waiting' = SubSeq(cmds', (m - 1) + 1, Len(cmds'))
    BY <1>5, <1>6, WaitingNext
  <2>2. (m - 1) + 1 = m
    OBVIOUS
  <2> QED BY <1>1, <1>5, <2>1, <2>2, WaitingFacts
<1>8. m - 1 \in Nat
  BY <1>5
<1> QED BY <1>6, <1>7, <1>8 DEF ShapeInv

\* The end of cmd_mgr_msgind: whoever is completed had been acknowledged.
LEMMA MsgIndMoves ==
  ASSUME IInv, ShapeInv, NEW k \in 1 .. Len(work), MsgInd(k)
  PROVE  Moves
<1>1. PICK m \in Nat : Ends(m)
  BY DEF ShapeInv
<1>2. /\ UNCHANGED <<state, pc, mine, a2eMsg, hostid>>
      /\ cmds \in Seq(Cmds) /\ flags \in [Cmds -> SUBSET Flags]
      /\ heap \in [Cmds -> {"unused", "live", "freed"}]
  BY DEF MsgInd, taskVars, ipcVars, IInv, TypeOK
<1>3. CASE TakerPos(reqid[work[k]]) = {} /\ CmdKeep(flags)
  <2>1. UNCHANGED <<cmds, flags, heap>>
    BY <1>3 DEF CmdKeep
  <2>2. Given' = Given
    BY <1>2, <2>1 DEF Given
  <2> QED BY <1>1, <1>2, <2>1, <2>2, ChannelUnmoved
<1>4. ASSUME NEW i \in TakerPos(reqid[work[k]]),
             LET fl == [flags EXCEPT ![cmds[i]] = @ \ {"WAIT_CFM"}] IN
             IF WaitComplete(fl[cmds[i]]) THEN CmdComplete(cmds[i], fl, result)
                                          ELSE CmdKeep(fl)
      PROVE  Moves
  <2> DEFINE c == cmds[i]
             fl == [flags EXCEPT ![c] = @ \ {"WAIT_CFM"}]
  <2>1. c \in Queued /\ c \in Cmds /\ heap[c] = "live"
    BY QueuedFacts DEF TakerPos, Queued, IInv, ListInv
  <2>2. /\ fl \in [Cmds -> SUBSET Flags]
        /\ \A d \in Cmds : \A f \in {"WAIT_ACK", "WAIT_PUSH"} : f \in fl[d] <=> f \in flags[d]
    BY <1>2, <2>1
  <2>3. IF WaitComplete(fl[c]) THEN CmdComplete(c, fl, result) ELSE CmdKeep(fl)
    BY <1>4
  <2> HIDE DEF c, fl
  <2>4. CASE WaitComplete(fl[c]) /\ CmdComplete(c, fl, result)
    <3>1. c \notin Waiters
      BY <2>1, <2>2, <2>4, WaitsFacts DEF WaitComplete
    <3>2. /\ flags' = [fl EXCEPT ![c] = @ \cup {"DONE"}]
          /\ heap' = IF Frees(c, fl) THEN [heap EXCEPT ![c] = "freed"] ELSE heap
      BY <2>4 DEF CmdComplete
    <3>3. \A d \in Cmds : "WAIT_PUSH" \in flags'[d] <=> "WAIT_PUSH" \in flags[d]
      BY <2>1, <2>2, <3>2
    <3>4. \A d \in Queued : d \in Waiters' <=> d \in Waiters
      BY <1>2, <3>3 DEF Waiters, Waits
    <3>5. Given' = Given
      BY <1>2, <2>1, <3>2 DEF Given
    <3>6. ShapeInv' /\ Waiting' = Waiting
      BY <1>1, <2>1, <2>4, <3>1, <3>4, CompleteUnnoticed
    <3> QED BY <1>2, <3>5, <3>6 DEF Moves, Channel!vars
  <2>5. CASE CmdKeep(fl)
    <3>1. flags' = fl /\ UNCHANGED <<cmds, heap>>
      BY <2>5 DEF CmdKeep
    <3>2. Given' = Given
      BY <1>2, <3>1 DEF Given
    <3>3. \A d \in Queued : "WAIT_PUSH" \in flags'[d] <=> "WAIT_PUSH" \in flags[d]
      BY <2>2, <3>1, QueuedFacts DEF IInv
    <3> QED BY <1>1, <1>2, <3>1, <3>2, <3>3, ChannelUnmoved
  <2> QED BY <2>3, <2>4, <2>5
<1> QED BY <1>3, <1>4 DEF MsgInd

\* The timeout of a command: it closes the channel, and a command that is
\* not yet pushed is never given.
LEMMA ExpireMoves ==
  ASSUME IInv, ShapeInv, NEW t \in Tasks, Expire(t)
  PROVE  Moves
<1> DEFINE c == mine[t]
           res == [result EXCEPT ![c] = "ETIMEDOUT"]
<1>1. PICK m \in Nat : Ends(m)
  BY DEF ShapeInv
<1>2. /\ pc[t] = "expired" /\ c \in Cmds /\ heap[c] = "live"
      /\ state' = "CRASHED" /\ pc' = [pc EXCEPT ![t] = "ret"]
      /\ UNCHANGED <<a2eMsg, mine, hostid>>
      /\ cmds \in Seq(Cmds) /\ Len(cmds) \in Nat /\ flags \in [Cmds -> SUBSET Flags]
      /\ heap \in [Cmds -> {"unused", "live", "freed"}]
      /\ pc \in [Tasks -> {"idle", "queue", "push", "nowait", "wait", "expired", "ret"}]
  BY LenProperties DEF Expire, IInv, TypeOK, TaskInv, ipcVars
<1>3. \A u \in Tasks : pc'[u] = "push" <=> pc[u] = "push"
  BY <1>2
<1>4. ASSUME Given' = Given, ShapeInv',
             \/ Waiting' = Waiting
             \/ \E i \in 1 .. Len(Waiting) : Waiting' = RemoveAt(Waiting, i)
      PROVE  Moves
  <2>1. Channel!GiveUp
    BY <1>2, <1>4 DEF Channel!GiveUp, Channel!RemoveAt, RemoveAt
  <2> QED BY <1>4, <2>1 DEF Moves, Channel!Next
<1>5. CASE CmdKeep(flags)
  <2>1. UNCHANGED <<cmds, flags, heap>>
    BY <1>5 DEF CmdKeep
  <2>2. Given' = Given
    BY <1>2, <2>1 DEF Given
  <2>3. \A d \in Cmds : d \in Waiters' <=> d \in Waiters
    BY <1>2, <1>3, <2>1 DEF Waiters, Waits
  <2>4. Ends(m)'
    <3>1. \A i \in 1 .. Len(cmds) : cmds[i] \in Cmds
      BY <1>2, ElementOfSeq
    <3> QED BY <1>1, <2>1, <2>3, <3>1 DEF Ends
  <2>5. Waiting' = Waiting
    BY <1>1, <1>2, <2>1, <2>4, WaitingFacts, WaitingNext
  <2> QED BY <1>1, <1>4, <2>2, <2>4, <2>5 DEF ShapeInv
<1>6. CASE "DONE" \notin flags[c] /\ CmdComplete(c, flags, res)
  <2>1. c \in Queued
    BY <1>2, <1>6 DEF IInv, TaskInv
  <2>2. /\ flags' = [flags EXCEPT ![c] = @ \cup {"DONE"}]
        /\ heap' = IF Frees(c, flags) THEN [heap EXCEPT ![c] = "freed"] ELSE heap
        /\ cmds' = RemoveAt(cmds, Position(c))
    BY <1>6 DEF CmdComplete
  <2> HIDE DEF c, res
  <2>3. Given' = Given
    BY <1>2, <2>2 DEF Given
  <2>4. \A d \in Cmds : "WAIT_PUSH" \in flags'[d] <=> "WAIT_PUSH" \in flags[d]
    BY <1>2, <2>2
  <2>5. \A d \in Queued : d \in Waiters' <=> d \in Waiters
    BY <1>2, <1>3, <2>4 DEF Waiters, Waits
  <2>6. CASE c \notin Waiters
    <3>1. ShapeInv' /\ Waiting' = Waiting
      BY <1>1, <1>6, <2>1, <2>5, <2>6, CompleteUnnoticed
    <3> QED BY <1>4, <2>3, <3>1
  <2>7. CASE c \in Waiters
    <3> DEFINE p == Position(c)
    <3>1. p \in 1 .. Len(cmds) /\ cmds[p] = c
      BY <2>1 DEF Position, Queued
    <3> HIDE DEF p
    <3>2. p \in m + 1 .. Len(cmds)
      BY <1>1, <1>2, <2>7, <3>1 DEF Ends
    <3>3. /\ cmds' \in Seq(Cmds) /\ Len(cmds') = Len(cmds) - 1
          /\ \A k \in 1 .. Len(cmds) - 1 : cmds'[k] = IF k < p THEN cmds[k] ELSE cmds[k + 1]
      BY <1>2, <2>2, <3>1, RemoveAtFacts DEF p
    <3>4. Ends(m)'
      <4>1. ASSUME NEW i \in 1 .. Len(cmds')
            PROVE  cmds'[i] \in Waiters' <=> i > m
        <5>1. i \in 1 .. Len(cmds) /\ i + 1 \in 1 .. Len(cmds)
          BY <1>2, <3>3
        <5>2. cmds[i] \in Queued /\ cmds[i + 1] \in Queued
          BY <5>1 DEF Queued
        <5>3. CASE i < p
          <6>1. cmds'[i] = cmds[i]
            BY <1>2, <3>3, <5>3
          <6> QED BY <1>1, <2>5, <5>1, <5>2, <6>1 DEF Ends
        <5>4. CASE ~(i < p)
          <6>1. cmds'[i] = cmds[i + 1] /\ i + 1 > m /\ i > m
            BY <1>2, <3>2, <3>3, <5>4
          <6> QED BY <1>1, <2>5, <5>1, <5>2, <6>1 DEF Ends
        <5> QED BY <5>3, <5>4
      <4>2. m \in 0 .. Len(cmds')
        BY <1>1, <1>2, <3>2, <3>3
      <4> QED BY <4>1, <4>2 DEF Ends
    <3>5. Waiting' = RemoveAt(Waiting, p - m)
      <4>1. SubSeq(RemoveAt(cmds, p), m + 1, Len(cmds) - 1)
              = RemoveAt(SubSeq(cmds, m + 1, Len(cmds)), p - m)
        BY <1>1, <1>2, <3>2, BackRemoveBehind
      <4>2. Waiting' = SubSeq(cmds', m + 1, Len(cmds) - 1)
        BY <3>3, <3>4, WaitingNext
      <4>3. Waiting = SubSeq(cmds, m + 1, Len(cmds))
        BY <1>1, <1>2, WaitingFacts
      <4> QED BY <2>2, <4>1, <4>2, <4>3 DEF p
    <3>6. p - m \in 1 .. Len(Waiting)
      BY <1>1, <1>2, <3>2, WaitingFacts
    <3> QED BY <1>1, <1>4, <2>3, <3>4, <3>5, <3>6 DEF ShapeInv
  <2> QED BY <2>6, <2>7
<1> QED BY <1>5, <1>6 DEF Expire

\* The steps of callers, interrupt and firmware that the mailbox does not see.
LEMMA QuietMoves ==
  ASSUME IInv, ShapeInv,
         \/ \E t \in Tasks, c \in Cmds, k \in Kinds : Send(t, c, k)
         \/ \E t \in Tasks : \/ QueueCrashed(t) \/ QueueFull(t) \/ NoWait(t)
                             \/ Wake(t) \/ Timeout(t) \/ Return(t)
         \/ FwAccept \/ LlindCorrupt \/ UNCHANGED vars
  PROVE  Moves
<1>1. PICK m \in Nat : Ends(m)
  BY DEF ShapeInv
<1>2. cmds \in Seq(Cmds)
  BY DEF IInv, TypeOK
<1>3. CASE \E t \in Tasks, c \in Cmds, k \in Kinds : Send(t, c, k)
  <2>1. PICK t \in Tasks, c \in Cmds, k \in Kinds : Send(t, c, k)
    BY <1>3
  <2>2. /\ heap[c] = "unused" /\ pc[t] = "idle"
        /\ heap' = [heap EXCEPT ![c] = "live"] /\ a2eMsg' = a2eMsg \cup {c}
        /\ pc' = [pc EXCEPT ![t] = "queue"] /\ mine' = [mine EXCEPT ![t] = c]
        /\ \A d \in Cmds : d # c => flags'[d] = flags[d]
        /\ UNCHANGED <<state, cmds, hostid>>
    BY <2>1 DEF Send, mgrVars, ipcVars, IInv, TypeOK
  <2>3. Given' = Given
    BY <2>2 DEF Given, IInv, TypeOK
  <2>4. \A d \in Queued : d \in Cmds /\ d # c
    BY <2>2, QueuedFacts DEF IInv, ListInv
  <2>5. \A u \in Tasks : (pc'[u] = "push" <=> pc[u] = "push")
                         /\ (pc[u] = "push" => mine'[u] = mine[u])
    BY <2>2 DEF IInv, TypeOK
  <2> QED BY <1>1, <1>2, <2>2, <2>3, <2>4, <2>5, ChannelUnmoved
<1>4. CASE \E t \in Tasks : \/ QueueCrashed(t) \/ QueueFull(t) \/ NoWait(t)
                            \/ Wake(t) \/ Timeout(t) \/ Return(t)
  <2>1. PICK t \in Tasks : \/ QueueCrashed(t) \/ QueueFull(t) \/ NoWait(t)
                           \/ Wake(t) \/ Timeout(t) \/ Return(t)
    BY <1>4
  <2>2. /\ pc[t] \in {"queue", "nowait", "wait", "ret"}
        /\ \E x \in {"idle", "ret", "expired"} : pc' = [pc EXCEPT ![t] = x]
        /\ mine' = mine \/ mine' = [mine EXCEPT ![t] = None]
        /\ heap' = heap \/ heap' = [heap EXCEPT ![mine[t]] = "freed"]
        /\ UNCHANGED <<flags, a2eMsg, state, cmds, hostid>>
    BY <2>1 DEF QueueCrashed, QueueFull, Refuse, NoWait, Wake, Timeout, Return,
       mgrVars, cmdVars, ipcVars
  <2>3. Given' = Given
    <3>1. mine[t] \in Cmds /\ heap[mine[t]] # "unused"
      BY <2>2 DEF IInv, TypeOK, TaskInv
    <3> QED BY <2>2, <3>1 DEF Given, IInv, TypeOK
  <2>4. \A u \in Tasks : (pc'[u] = "push" <=> pc[u] = "push")
                         /\ (pc[u] = "push" => mine'[u] = mine[u])
    BY <2>2 DEF IInv, TypeOK
  <2> QED BY <1>1, <1>2, <2>2, <2>3, <2>4, ChannelUnmoved
<1>5. CASE FwAccept \/ LlindCorrupt \/ UNCHANGED vars
  <2>1. UNCHANGED <<cmds, state, hostid, heap, a2eMsg, flags, pc, mine>>
    BY <1>5 DEF FwAccept, LlindCorrupt, vars, mgrVars, cmdVars, taskVars, ipcVars
  <2>2. Given' = Given
    BY <2>1 DEF Given
  <2> QED BY <1>1, <1>2, <2>1, <2>2, ChannelUnmoved
<1> QED BY <1>3, <1>4, <1>5

\* ipc_host_msgack_handler empties the mailbox.
LEMMA MsgAckMoves ==
  ASSUME IInv, ShapeInv, MsgAck
  PROVE  Moves
<1>1. PICK m \in Nat : Ends(m)
  BY DEF ShapeInv
<1>2. /\ hostid # None /\ hostid' = None
      /\ UNCHANGED <<cmds, state, heap, a2eMsg, flags, pc, mine>>
      /\ cmds \in Seq(Cmds)
  BY DEF MsgAck, IInv, MailInv, TypeOK, mgrVars, cmdVars, taskVars
<1>3. Waiters' = Waiters /\ Given' = Given
  BY <1>2 DEF Waiters, Waits, Given
<1>4. Ends(m)'
  BY <1>1, <1>2, <1>3 DEF Ends
<1>5. Waiting' = Waiting
  BY <1>1, <1>2, <1>4, WaitingFacts, WaitingNext
<1>6. Channel!Acknowledge
  BY <1>2, <1>3, <1>5 DEF Channel!Acknowledge
<1> QED BY <1>1, <1>4, <1>6 DEF Moves, ShapeInv, Channel!Next

\* What cmd_mgr_llind pushes is the oldest command that waits.
LEMMA NextIsOldest ==
  ASSUME IInv, NEW m \in Nat, Ends(m), taken # None
  PROVE  /\ \A d \in Cmds : d \in Waiters <=> "WAIT_PUSH" \in flags[d]
         /\ taken \notin Waiters \/ taken \notin Queued
         /\ NextPos = IF m < Len(cmds) THEN {m + 1} ELSE {}
<1>1. \A t \in Tasks : pc[t] # "push"
  BY DEF IInv, MailInv
<1>2. \A d \in Cmds : d \in Waiters <=> "WAIT_PUSH" \in flags[d]
  BY <1>1 DEF Waiters, Waits
<1>3. taken \in Queued => taken \notin Waiters
  BY <1>2, QueuedFacts DEF IInv, MailInv
<1>4. /\ cmds \in Seq(Cmds) /\ Len(cmds) \in Nat /\ m <= Len(cmds)
      /\ \A i \in 1 .. Len(cmds) : cmds[i] \in Cmds /\ cmds[i] \in Queued
  BY LenProperties, ElementOfSeq DEF IInv, TypeOK, Ends, Queued
<1>5. \A i \in 1 .. Len(cmds) : "WAIT_PUSH" \in flags[cmds[i]] <=> i > m
  BY <1>2, <1>4 DEF Ends
<1>6. \A i \in AckedPos : i \in 1 .. Len(cmds) /\ i <= m
  <2>1. \A i \in AckedPos : i \in 1 .. Len(cmds) /\ cmds[i] = taken
    BY AckedFacts DEF AckedPos
  <2> QED BY <1>3, <1>4, <2>1 DEF Ends
<1>7. CASE m < Len(cmds)
  <2>1. m + 1 \in NextPos
    <3>1. m + 1 \in 1 .. Len(cmds) /\ m + 1 > m /\ m + 1 \notin AckedPos
      BY <1>4, <1>6, <1>7
    <3>2. \A j \in 1 .. (m + 1) - 1 : j \in 1 .. Len(cmds) /\ ~(j > m)
      BY <1>4
    <3> QED BY <1>5, <3>1, <3>2 DEF NextPos
  <2>2. \A i \in NextPos : i = m + 1
    BY <1>4, <2>1, NextPosUnique
  <2>3. NextPos = {m + 1}
    BY <2>1, <2>2
  <2> QED BY <1>2, <1>3, <1>7, <2>3
<1>8. CASE m = Len(cmds)
  <2>1. \A i \in 1 .. Len(cmds) : "WAIT_PUSH" \notin flags[cmds[i]]
    BY <1>4, <1>5, <1>8
  <2>2. NextPos = {}
    BY <2>1 DEF NextPos
  <2> QED BY <1>2, <1>3, <1>4, <1>8, <2>2
<1> QED BY <1>2, <1>3, <1>4, <1>7, <1>8

\* cmd_mgr_llind: at most the oldest command that waits is pushed, and an
\* acknowledged one may leave the list at the same time.
LEMMA LlindMoves ==
  ASSUME IInv, ShapeInv, Llind
  PROVE  Moves
<1> DEFINE acks == AckedPos # {}
           next == {cmds[i] : i \in NextPos}
           fl == [c \in Cmds |->
                   flags[c] \ ((IF acks /\ c = taken THEN {"WAIT_ACK"} ELSE {})
                               \cup (IF c \in next THEN {"WAIT_PUSH"} ELSE {}))]
<1>1. PICK m \in Nat : Ends(m)
  BY DEF ShapeInv
<1>2. /\ taken # None
      /\ IF acks /\ WaitComplete(fl[taken])
           THEN CmdComplete(taken, fl, result)
           ELSE CmdKeep(fl)
      /\ \/ next = {} /\ UNCHANGED <<hostid, msgBuf, trigger, a2eMsg>>
         \/ \E n \in next : MsgPush(n)
      /\ UNCHANGED <<state, pc, mine>>
  BY DEF Llind, taskVars
<1>3. /\ \A d \in Cmds : d \in Waiters <=> "WAIT_PUSH" \in flags[d]
      /\ taken \notin Waiters \/ taken \notin Queued
      /\ NextPos = IF m < Len(cmds) THEN {m + 1} ELSE {}
  BY <1>1, <1>2, NextIsOldest
<1>4. /\ cmds \in Seq(Cmds) /\ Len(cmds) \in Nat
      /\ flags \in [Cmds -> SUBSET Flags] /\ heap \in [Cmds -> {"unused", "live", "freed"}]
      /\ taken \in Cmds /\ hostid = None
      /\ \A t \in Tasks : pc[t] # "push"
      /\ \A i \in 1 .. Len(cmds) : cmds[i] \in Cmds /\ cmds[i] \in Queued
      /\ \A d \in Queued : heap[d] = "live" /\ d \in Cmds
  BY <1>2, LenProperties, ElementOfSeq, QueuedFacts DEF IInv, TypeOK, MailInv, ListInv, Queued
<1>5. acks <=> taken \in Queued
  BY <1>2, AckedFacts
<1>6. next = IF m < Len(cmds) THEN {cmds[m + 1]} ELSE {}
  BY <1>3
<1>7. \A d \in Cmds : "WAIT_PUSH" \in fl[d] <=> "WAIT_PUSH" \in flags[d] /\ d \notin next
  <2> HIDE DEF acks, next
  <2> QED BY <1>4
<1> HIDE DEF acks, next, fl
<1>0. PICK n \in Nat : n = IF m < Len(cmds) THEN m + 1 ELSE m
  OBVIOUS
<1>8. \A i \in 1 .. Len(cmds) : "WAIT_PUSH" \in fl[cmds[i]] <=> i > n
  <2>1. \A i \in 1 .. Len(cmds) : "WAIT_PUSH" \in flags[cmds[i]] <=> i > m
    BY <1>1, <1>3, <1>4 DEF Ends
  <2>2. \A i \in 1 .. Len(cmds) : cmds[i] \in next <=> i = m + 1 /\ m < Len(cmds)
    BY <1>1, <1>4, <1>6 DEF IInv, ListInv
  <2> QED BY <1>0, <1>1, <1>4, <1>7, <2>1, <2>2
<1>9. n \in 0 .. Len(cmds) /\ n \in Nat
  BY <1>0, <1>1, <1>4 DEF Ends
\* The list, whether or not the acknowledged command has left it.
<1>10. /\ \A d \in Cmds : heap'[d] = "unused" <=> heap[d] = "unused"
       /\ ShapeInv'
       /\ Waiting' = SubSeq(cmds, n + 1, Len(cmds))
  <2>1. CASE CmdKeep(fl)
    <3>1. flags' = fl /\ UNCHANGED <<cmds, heap>>
      BY <2>1 DEF CmdKeep
    <3>2. \A d \in Cmds : d \in Waiters' <=> "WAIT_PUSH" \in fl[d]
      BY <1>2, <1>4, <3>1 DEF Waiters, Waits
    <3>3. Ends(n)'
      BY <1>4, <1>8, <1>9, <3>1, <3>2 DEF Ends
    <3>4. Waiting' = SubSeq(cmds, n + 1, Len(cmds))
      BY <1>4, <3>1, <3>3, WaitingNext
    <3> QED BY <1>9, <3>1, <3>3, <3>4 DEF ShapeInv
  <2>2. CASE acks /\ CmdComplete(taken, fl, result)
    <3>1. taken \in Queued /\ taken \notin Waiters
      BY <1>3, <1>5, <2>2
    <3> DEFINE p == Position(taken)
    <3>2. /\ flags' = [fl EXCEPT ![taken] = @ \cup {"DONE"}]
          /\ heap' = IF Frees(taken, fl) THEN [heap EXCEPT ![taken] = "freed"] ELSE heap
          /\ cmds' = RemoveAt(cmds, p)
      BY <2>2 DEF CmdComplete
    <3>3. p \in 1 .. Len(cmds) /\ cmds[p] = taken
      BY <3>1 DEF Position, Queued
    <3> HIDE DEF p
    <3>4. p \in 1 .. m
      BY <1>1, <1>4, <3>1, <3>3 DEF Ends
    <3>5. \A d \in Cmds : heap'[d] = "unused" <=> heap[d] = "unused"
      BY <1>4, <3>1, <3>2
    <3>6. \A d \in Cmds : d \in Waiters' <=> "WAIT_PUSH" \in fl[d]
      <4>1. \A d \in Cmds : "WAIT_PUSH" \in flags'[d] <=> "WAIT_PUSH" \in fl[d]
        BY <1>4, <3>2 DEF fl
      <4> QED BY <1>2, <1>4, <4>1 DEF Waiters, Waits
    <3>7. n >= 1 /\ p \in 1 .. n
      BY <1>0, <1>1, <1>4, <3>4
    <3>8. /\ cmds' \in Seq(Cmds) /\ Len(cmds') = Len(cmds) - 1
          /\ \A k \in 1 .. Len(cmds) - 1 : cmds'[k] = IF k < p THEN cmds[k] ELSE cmds[k + 1]
      BY <1>4, <3>2, <3>3, RemoveAtFacts
    <3>9. Ends(n - 1)'
      <4>1. ASSUME NEW i \in 1 .. Len(cmds')
            PROVE  cmds'[i] \in Waiters' <=> i > n - 1
        <5>1. i \in 1 .. Len(cmds) /\ i + 1 \in 1 .. Len(cmds)
          BY <1>4, <3>8
        <5>2. CASE i < p
          <6>1. cmds'[i] = cmds[i] /\ ~(i > n) /\ ~(i > n - 1)
            BY <1>4, <1>9, <3>7, <3>8, <5>2
          <6> QED BY <1>4, <1>8, <3>6, <5>1, <6>1
        <5>3. CASE ~(i < p)
          <6>1. cmds'[i] = cmds[i + 1] /\ (i + 1 > n <=> i > n - 1)
            BY <1>4, <1>9, <3>8, <5>3
          <6> QED BY <1>4, <1>8, <3>6, <5>1, <6>1
        <5> QED BY <5>2, <5>3
      <4>2. n - 1 \in 0 .. Len(cmds')
        BY <1>4, <1>9, <3>7, <3>8
      <4> QED BY <4>1, <4>2 DEF Ends
    <3>10. Waiting' = SubSeq(cmds, n + 1, Len(cmds))
      <4>1. SubSeq(RemoveAt(cmds, p), n, Len(cmds) - 1) = SubSeq(cmds, n + 1, Len(cmds))
        <5>1. n \in 1 .. Len(cmds) /\ p \in 1 .. n
          BY <1>9, <3>7
        <5> QED BY <1>4, <5>1, BackRemoveBefore
      <4>2. Waiting' = SubSeq(cmds', (n - 1) + 1, Len(cmds'))
        BY <3>8, <3>9, WaitingNext
      <4>3. (n - 1) + 1 = n
        BY <1>9
      <4> QED BY <3>2, <3>8, <4>1, <4>2, <4>3
    <3>11. n - 1 \in Nat
      BY <1>9, <3>7
    <3> QED BY <3>5, <3>9, <3>10, <3>11 DEF ShapeInv
  <2> QED BY <1>2, <2>1, <2>2
<1>11. CASE m < Len(cmds)
  <2>1. /\ hostid' = cmds[m + 1] /\ a2eMsg' = a2eMsg \ {cmds[m + 1]}
    BY <1>2, <1>6, <1>11 DEF MsgPush
  <2>2. cmds[m + 1] \in Queued
    BY <1>1, <1>4, <1>11
  <2>3. Given' = Given \cup {cmds[m + 1]}
    BY <1>4, <1>10, <2>1, <2>2 DEF Given
  <2>4. Waiting' = SubSeq(cmds, m + 2, Len(cmds))
    BY <1>0, <1>1, <1>10, <1>11
  <2>5. Channel!Next
    BY <1>1, <1>2, <1>4, <1>11, <2>1, <2>3, <2>4, PushGives
  <2> QED BY <1>10, <2>5 DEF Moves
<1>12. CASE m = Len(cmds)
  <2>1. UNCHANGED <<hostid, a2eMsg>>
    BY <1>2, <1>6, <1>12
  <2>2. Given' = Given
    BY <1>10, <2>1 DEF Given
  <2>3. Waiting' = Waiting
    <3>1. Waiting = SubSeq(cmds, m + 1, Len(cmds))
      BY <1>1, <1>4, WaitingFacts
    <3>2. n = m
      BY <1>0, <1>4, <1>12
    <3> QED BY <1>10, <3>1, <3>2
  <2> QED BY <1>2, <1>10, <2>1, <2>2, <2>3 DEF Moves, Channel!vars
<1> QED BY <1>1, <1>4, <1>11, <1>12 DEF Ends

\* Nothing is listed, waiting or handed over at the beginning.
LEMMA ChannelInit == Init => ShapeInv /\ Channel!Init
<1> SUFFICES ASSUME Init PROVE ShapeInv /\ Channel!Init
  OBVIOUS
<1>1. cmds = <<>> /\ Len(cmds) = 0 /\ cmds \in Seq(Cmds)
  BY DEF Init
<1>2. Ends(0)
  BY <1>1 DEF Ends
<1>3. Waiting = <<>>
  <2>1. Waiting = SubSeq(cmds, 0 + 1, 0)
    BY <1>1, <1>2, WaitingFacts
  <2> QED BY <2>1, SubSeqEmpty
<1>4. Given = {}
  BY DEF Init, Given
<1> QED BY <1>2, <1>3, <1>4 DEF Init, ShapeInv, Channel!Init

\* Every step is one of CmdChannel or changes nothing it shows.
LEMMA ChannelNext == IInv /\ ShapeInv /\ [Next]_vars => Moves
<1> SUFFICES ASSUME IInv, ShapeInv, [Next]_vars PROVE Moves
  OBVIOUS
<1>1. CASE \E t \in Tasks : QueueAdd(t) \/ QueuePush(t) \/ Expire(t)
  BY <1>1, QueueAddMoves, QueuePushMoves, ExpireMoves
<1>2. CASE \E k \in 1 .. Len(work) : MsgInd(k)
  BY <1>2, MsgIndMoves
<1>3. CASE MsgAck \/ Llind
  BY <1>3, MsgAckMoves, LlindMoves
<1>4. CASE \/ \E t \in Tasks, c \in Cmds, k \in Kinds : Send(t, c, k)
           \/ \E t \in Tasks : \/ QueueCrashed(t) \/ QueueFull(t) \/ NoWait(t)
                               \/ Wake(t) \/ Timeout(t) \/ Return(t)
           \/ FwAccept \/ LlindCorrupt \/ UNCHANGED vars
  BY <1>4, QuietMoves
<1> QED BY <1>1, <1>2, <1>3, <1>4 DEF Next, TaskStep, DriverStep

\* The command manager hands commands over one at a time, each at most once,
\* in the order of the list: it implements CmdChannel.
THEOREM Refinement == Spec => ImplementsChannel
<1>1. IInv /\ ShapeInv /\ [Next]_vars => ShapeInv' /\ [Channel!Next]_(Channel!vars)
  BY ChannelNext DEF Moves
<1> QED BY <1>1, ChannelInit, Invariance, PTL DEF Spec, Channel!Spec, ImplementsChannel

-------------------------------------------------------------------------------
(***************************************************************************)
(* Every call returns                                                      *)
(***************************************************************************)
\* Where a caller can be after each place of bl_send_msg.
After == [queue   |-> {"push", "nowait", "wait", "idle"},
          push    |-> {"nowait", "wait"},
          nowait  |-> {"idle"},
          wait    |-> {"expired", "ret"},
          expired |-> {"ret"},
          ret     |-> {"idle"}]

Stages == {"queue", "push", "nowait", "wait", "expired", "ret"}

\* Only its own steps move a caller, and they move it forward.
LEMMA OwnStepsMove ==
  ASSUME TypeOK, NEW t \in Tasks, TaskStep(t) \/ Timeout(t)
  PROVE  pc[t] \in Stages /\ pc'[t] \in After[pc[t]]
<1>1. pc \in [Tasks -> Stages \cup {"idle"}]
  BY DEF TypeOK, Stages
<1>2. CASE QueueCrashed(t) \/ QueueFull(t)
  BY <1>1, <1>2 DEF QueueCrashed, QueueFull, Refuse, Stages, After
<1>3. CASE QueueAdd(t)
  BY <1>1, <1>3 DEF QueueAdd, AfterQueue, Stages, After
<1>4. CASE QueuePush(t)
  BY <1>1, <1>4 DEF QueuePush, AfterQueue, Stages, After
<1>5. CASE NoWait(t) \/ Wake(t) \/ Timeout(t) \/ Expire(t) \/ Return(t)
  BY <1>1, <1>5 DEF NoWait, Wake, Timeout, Expire, Return, Stages, After
<1> QED BY <1>2, <1>3, <1>4, <1>5 DEF TaskStep

\* A call stays where it is while another task takes a step.
LEMMA OthersLeave ==
  ASSUME TypeOK, NEW t \in Tasks, NEW u \in Tasks, u # t, TaskStep(u) \/ Timeout(u)
  PROVE  pc'[t] = pc[t]
<1>1. pc \in [Tasks -> Stages \cup {"idle"}]
  BY DEF TypeOK, Stages
<1>2. \E p : pc' = [pc EXCEPT ![u] = p]
  BY DEF TaskStep, QueueCrashed, QueueFull, Refuse, QueueAdd, QueuePush, NoWait,
         Wake, Timeout, Expire, Return
<1> QED BY <1>1, <1>2

\* A call never goes back.
LEMMA CallGoesForward ==
  ASSUME TypeOK, NEW t \in Tasks, NEW s \in Stages, pc[t] = s, [Next]_vars
  PROVE  pc'[t] = s \/ pc'[t] \in After[s]
<1>1. pc \in [Tasks -> Stages \cup {"idle"}]
  BY DEF TypeOK, Stages
<1>2. CASE \E u \in Tasks, c \in Cmds, k \in Kinds : Send(u, c, k)
  BY <1>1, <1>2 DEF Send, Stages
<1>3. CASE \E u \in Tasks : TaskStep(u) \/ Timeout(u)
  BY <1>3, OwnStepsMove, OthersLeave
<1>4. CASE DriverStep \/ LlindCorrupt \/ FwAccept \/ UNCHANGED vars
  BY <1>4 DEF DriverStep, MsgAck, Llind, MsgInd, LlindCorrupt, FwAccept, taskVars, vars
<1> QED BY <1>2, <1>3, <1>4 DEF Next

\* The place s of a call is left, for a later one.
Leaves(t, s) == pc[t] = s ~> (pc[t] \in After[s] \/ fault)

CallFair(t) ==
  /\ [](pc[t] # "idle" /\ ~fault => ENABLED <<~fault /\ (TaskStep(t) \/ Timeout(t))>>_vars)
  /\ WF_vars(~fault /\ (TaskStep(t) \/ Timeout(t)))

\* No place of the call is the last one.
LEMMA StageEnds ==
  ASSUME NEW t \in Tasks, NEW s \in Stages
  PROVE  Spec /\ CallFair(t) => Leaves(t, s)
<1>1. TypeOK /\ pc[t] = s /\ [Next]_vars => (pc[t] = s)' \/ (pc[t] \in After[s])'
  BY CallGoesForward
<1>2. TypeOK /\ pc[t] = s /\ <<~fault /\ (TaskStep(t) \/ Timeout(t))>>_vars
        => (pc[t] \in After[s])'
  BY OwnStepsMove
<1>3. pc[t] = s => pc[t] # "idle"
  BY DEF Stages
<1> QED BY <1>1, <1>2, <1>3, TypeCorrect, PTL DEF Spec, CallFair, Leaves

\* A call of bl_send_msg passes through at most five places.
LEMMA CallEnds ==
  ASSUME NEW t \in Tasks
  PROVE  Spec /\ CallFair(t) => (pc[t] # "idle" ~> (pc[t] = "idle" \/ fault))
<1>1. Spec /\ CallFair(t) =>
        /\ Leaves(t, "queue") /\ Leaves(t, "push") /\ Leaves(t, "nowait")
        /\ Leaves(t, "wait") /\ Leaves(t, "expired") /\ Leaves(t, "ret")
  BY StageEnds DEF Stages
<1>2. TypeOK /\ pc[t] # "idle" => \/ pc[t] = "queue" \/ pc[t] = "push" \/ pc[t] = "nowait"
                                \/ pc[t] = "wait" \/ pc[t] = "expired" \/ pc[t] = "ret"
  BY DEF TypeOK
<1>3. /\ pc[t] \in After["queue"] =>
           pc[t] = "push" \/ pc[t] = "nowait" \/ pc[t] = "wait" \/ pc[t] = "idle"
      /\ pc[t] \in After["push"] => pc[t] = "nowait" \/ pc[t] = "wait"
      /\ pc[t] \in After["nowait"] => pc[t] = "idle"
      /\ pc[t] \in After["wait"] => pc[t] = "expired" \/ pc[t] = "ret"
      /\ pc[t] \in After["expired"] => pc[t] = "ret"
      /\ pc[t] \in After["ret"] => pc[t] = "idle"
  BY DEF After
<1> QED BY <1>1, <1>2, <1>3, TypeCorrect, PTL DEF Spec, Leaves

\* Every call of bl_send_msg returns, if its thread runs or its wait expires. Both
\* can be counted on because at each place of the call one of the two is enabled
\* (CanStep), and each place is left for a later one.
THEOREM CallsReturn == Spec /\ []CanStep => Returns
<1>1. ASSUME NEW t \in Tasks
      PROVE  Spec /\ []CanStep /\ TimerFair(t)
               => (pc[t] # "idle" ~> (pc[t] = "idle" \/ fault))
  <2>1. CanStep =>
          (pc[t] # "idle" /\ ~fault => ENABLED <<~fault /\ (TaskStep(t) \/ Timeout(t))>>_vars)
    BY DEF CanStep
  <2> QED BY <2>1, CallEnds, PTL DEF CallFair, TimerFair
<1> QED BY <1>1 DEF Returns, TimerFairness

-------------------------------------------------------------------------------
(***************************************************************************)
(* Every command is answered: the front of the list goes on                *)
(***************************************************************************)
\* A command is being handed over, or its acknowledgement is on its way.
Busy == hostid # None \/ taken # None \/ \E t \in Tasks : pc[t] = "push"

\* What waits for an acknowledgement never waits for one that nobody will give.
HandInv ==
  /\ hostid # None => trigger \/ ackIrq
  /\ state # "CRASHED" => \A d \in Queued : "WAIT_ACK" \in flags[d] => Busy

\* At the beginning nothing is being handed over and nothing is listed.
LEMMA HandInit == Init => HandInv
<1> SUFFICES ASSUME Init PROVE HandInv
  OBVIOUS
<1>1. Queued = {}
  BY DEF Init, Queued
<1> QED BY <1>1 DEF Init, HandInv

\* What waits for its acknowledgement, but not for its push, is being handed over.
LEMMA PushedIsBusy ==
  ASSUME IInv, NEW d \in Queued, "WAIT_ACK" \in flags[d], "WAIT_PUSH" \notin flags[d]
  PROVE  d = hostid \/ d = taken \/ \E t \in Tasks : pc[t] = "push" /\ mine[t] = d
BY DEF IInv, MailInv

\* If cmd_mgr_llind finds nothing to push, nothing waits for its push.
LEMMA NextFound ==
  ASSUME IInv, ShapeInv, taken # None, NextPos = {}, NEW d \in Queued
  PROVE  "WAIT_PUSH" \notin flags[d]
<1>1. PICK m \in Nat : Ends(m)
  BY DEF ShapeInv
<1>2. PICK i \in 1 .. Len(cmds) : cmds[i] = d
  BY DEF Queued
<1>3. d \in Cmds /\ Len(cmds) \in Nat /\ m \in 0 .. Len(cmds)
  BY <1>1, QueuedFacts, LenProperties DEF IInv, TypeOK, Ends
<1>4. m = Len(cmds)
  <2>1. ~(m < Len(cmds))
    BY <1>1, NextIsOldest
  <2> QED BY <1>3, <2>1
<1>5. d \notin Waiters
  BY <1>1, <1>2, <1>3, <1>4 DEF Ends
<1> QED BY <1>1, <1>3, <1>5, NextIsOldest

\* cmd_mgr_llind leaves nothing to wait for, or pushes.
LEMMA HandLlind ==
  ASSUME IInv, ShapeInv, HandInv, Llind
  PROVE  HandInv'
<1> DEFINE acks == AckedPos # {}
           next == {cmds[i] : i \in NextPos}
           fl == [c \in Cmds |->
                   flags[c] \ ((IF acks /\ c = taken THEN {"WAIT_ACK"} ELSE {})
                               \cup (IF c \in next THEN {"WAIT_PUSH"} ELSE {}))]
<1>1. /\ taken # None /\ taken' = None
      /\ IF acks /\ WaitComplete(fl[taken])
           THEN CmdComplete(taken, fl, result)
           ELSE CmdKeep(fl)
      /\ \/ next = {} /\ UNCHANGED <<hostid, msgBuf, trigger, a2eMsg>>
         \/ \E n \in next : MsgPush(n)
      /\ UNCHANGED <<state, pc, mine, ackIrq>>
  BY DEF Llind, taskVars, ghost
<1>2. /\ taken \in Cmds /\ hostid = None
      /\ flags \in [Cmds -> SUBSET Flags] /\ Len(cmds) \in Nat
      /\ \A d \in Queued : d \in Cmds /\ d # None
  BY <1>1, QueuedFacts, LenProperties, NoneAssumption DEF IInv, MailInv, TypeOK
<1>3. acks <=> taken \in Queued
  BY <1>1, AckedFacts
<1>4. CASE \E n \in next : MsgPush(n)
  <2>1. PICK n \in next : MsgPush(n)
    BY <1>4
  <2>2. n \in Queued
    BY <1>2 DEF NextPos, Queued
  <2> QED BY <1>2, <2>1, <2>2 DEF MsgPush, HandInv, Busy
<1>5. CASE next = {} /\ UNCHANGED <<hostid, msgBuf, trigger, a2eMsg>>
  <2>1. ASSUME state # "CRASHED", NEW d \in Queued', "WAIT_ACK" \in flags'[d]
        PROVE  FALSE
    <3>1. taken \in Queued /\ acks
      BY <1>1, <1>2, <1>3, <2>1 DEF IInv, MailInv
    <3>2. /\ "WAIT_ACK" \notin fl[taken]
          /\ \A e \in Cmds : fl[e] \subseteq flags[e]
      BY <1>2, <3>1
    <3>3. d \in Queued /\ "WAIT_ACK" \in fl[d]
      <4> HIDE DEF acks, next
      <4>1. CASE CmdKeep(fl)
        BY <2>1, <4>1 DEF CmdKeep, Queued
      <4>2. CASE CmdComplete(taken, fl, result)
        <5>1. Queued' = Queued \ {taken}
          BY <3>1, <4>2, CompleteFacts DEF IInv, TypeOK
        <5>2. flags' = [fl EXCEPT ![taken] = @ \cup {"DONE"}]
          BY <4>2 DEF CmdComplete
        <5> QED BY <1>2, <2>1, <5>1, <5>2
      <4> QED BY <1>1, <4>1, <4>2
    <3>4. d # taken /\ "WAIT_ACK" \in flags[d] /\ d \in Cmds
      BY <1>2, <3>2, <3>3
    <3>5. "WAIT_PUSH" \notin flags[d]
      <4>1. NextPos = {}
        BY <1>5
      <4> QED BY <1>1, <3>3, <4>1, NextFound
    <3>6. PICK t \in Tasks : pc[t] = "push"
      BY <1>2, <3>3, <3>4, <3>5, PushedIsBusy
    <3> QED BY <1>1, <3>6 DEF IInv, MailInv
  <2> QED BY <1>1, <1>2, <1>5, <2>1 DEF HandInv
<1> QED BY <1>1, <1>4, <1>5

\* Every step keeps HandInv.
LEMMA HandNext == IInv /\ ShapeInv /\ HandInv /\ [Next]_vars => HandInv'
<1> SUFFICES ASSUME IInv, ShapeInv, HandInv, [Next]_vars PROVE HandInv'
  OBVIOUS
<1>1. \A d \in Queued : d \in Cmds
  BY QueuedFacts DEF IInv
<1>2. CASE \/ \E t \in Tasks, c \in Cmds, k \in Kinds : Send(t, c, k)
           \/ \E t \in Tasks : \/ QueueCrashed(t) \/ QueueFull(t) \/ NoWait(t)
                               \/ Wake(t) \/ Timeout(t) \/ Return(t)
           \/ FwAccept \/ LlindCorrupt \/ UNCHANGED vars
  <2>1. UNCHANGED <<state, cmds, hostid, taken>>
    BY <1>2 DEF Send, QueueCrashed, QueueFull, Refuse, NoWait, Wake, Timeout, Return,
       FwAccept, LlindCorrupt, vars, mgrVars, ipcVars, cmdVars
  <2>2. Queued' = Queued /\ \A d \in Queued : flags'[d] = flags[d]
    BY <1>1, <1>2, <2>1 DEF Send, QueueCrashed, QueueFull, Refuse, NoWait, Wake, Timeout, Return,
       FwAccept, LlindCorrupt, vars, mgrVars, cmdVars, Queued, IInv, ListInv, TypeOK
  <2>3. \A t \in Tasks : pc[t] = "push" => pc'[t] = "push"
    BY <1>2 DEF Send, QueueCrashed, QueueFull, Refuse, NoWait, Wake, Timeout, Return,
       FwAccept, LlindCorrupt, vars, taskVars, IInv, TypeOK
  <2>4. trigger \/ ackIrq => (trigger \/ ackIrq)'
    BY <1>2 DEF Send, QueueCrashed, QueueFull, Refuse, NoWait, Wake, Timeout, Return,
       FwAccept, LlindCorrupt, vars, ipcVars, fwVars
  <2> QED BY <2>1, <2>2, <2>3, <2>4 DEF HandInv, Busy
<1>3. ASSUME NEW t \in Tasks, QueueAdd(t)
      PROVE  HandInv'
  <2>1. /\ UNCHANGED <<state, hostid, taken, trigger, ackIrq>>
        /\ mine[t] \in Cmds /\ mine[t] \notin Queued
        /\ Queued' = Queued \cup {mine[t]}
        /\ \A d \in Cmds : d # mine[t] => flags'[d] = flags[d]
    BY <1>3, AppendFacts DEF QueueAdd, ipcVars, fwVars, IInv, TypeOK, TaskInv
  <2>2. \A u \in Tasks : u # t => pc'[u] = pc[u]
    BY <1>3 DEF QueueAdd, IInv, TypeOK
  <2>3. pc[t] # "push"
    BY <1>3 DEF QueueAdd
  <2>4. Busy => Busy'
    BY <2>1, <2>2, <2>3 DEF Busy
  <2>5. CASE ~Defers
    <3>1. pc'[t] = "push"
      BY <1>3, <2>5 DEF QueueAdd, IInv, TypeOK
    <3> QED BY <2>1, <3>1 DEF HandInv, Busy
  <2>6. CASE Defers
    <3>1. Len(cmds) \in Nat /\ Len(cmds) # 0
      BY <2>6, LenProperties, EmptySeq DEF Defers, IInv, TypeOK
    <3>2. cmds[Len(cmds)] \in Queued
      BY <3>1 DEF Queued
    <3>3. "WAIT_ACK" \in flags[cmds[Len(cmds)]]
      BY <2>6, <3>2 DEF Defers, IInv, ChainInv
    <3>4. state # "CRASHED" => Busy
      BY <3>2, <3>3 DEF HandInv
    <3> QED BY <2>1, <2>4, <3>4 DEF HandInv
  <2> QED BY <2>5, <2>6
<1>4. ASSUME NEW t \in Tasks, QueuePush(t)
      PROVE  HandInv'
  BY <1>4, NoneAssumption DEF QueuePush, MsgPush, HandInv, Busy, IInv, TypeOK
<1>5. ASSUME NEW t \in Tasks, Expire(t)
      PROVE  HandInv'
  BY <1>5 DEF Expire, HandInv, ipcVars, fwVars
<1>6. CASE MsgAck
  <2>1. taken' # None /\ hostid' = None
    BY <1>6 DEF MsgAck, IInv, MailInv
  <2> QED BY <2>1 DEF HandInv, Busy
<1>7. ASSUME NEW k \in 1 .. Len(work), MsgInd(k)
      PROVE  HandInv'
  <2>1. UNCHANGED <<state, hostid, taken, trigger, ackIrq, pc>>
    BY <1>7 DEF MsgInd, ipcVars, taskVars
  <2>2. \A d \in Queued' : d \in Queued /\ ("WAIT_ACK" \in flags'[d] => "WAIT_ACK" \in flags[d])
    <3>1. cmds' = cmds => Queued' = Queued
      BY DEF Queued
    <3>2. Queued' \subseteq Queued
      BY <1>7, <3>1, MsgIndFacts
    <3>3. ASSUME NEW d \in Queued, "WAIT_ACK" \in flags'[d]
          PROVE  "WAIT_ACK" \in flags[d]
      BY <1>1, <1>7, <3>3, MsgIndFacts
    <3> QED BY <3>2, <3>3
  <2> QED BY <2>1, <2>2 DEF HandInv, Busy
<1> QED BY <1>2, <1>3, <1>4, <1>5, <1>6, <1>7, HandLlind DEF Next, TaskStep, DriverStep

\* What the list looks like after a step that does not crash the manager: a command
\* is added at its end, or one is taken out. None begins to wait for an acknowledgement.
LEMMA ListChanges ==
  ASSUME IInv, [Next]_vars, state' # "CRASHED"
  PROVE  /\ \/ cmds' = cmds
            \/ \E d \in Cmds : cmds' = Append(cmds, d)
            \/ \E d \in Queued : cmds' = RemoveAt(cmds, Position(d))
         /\ \A d \in Queued : "WAIT_ACK" \in flags'[d] => "WAIT_ACK" \in flags[d]
<1>1. flags \in [Cmds -> SUBSET Flags] /\ \A d \in Queued : d \in Cmds /\ heap[d] = "live"
  BY QueuedFacts DEF IInv, TypeOK, ListInv
<1>2. CASE \/ \E t \in Tasks, c \in Cmds, k \in Kinds : Send(t, c, k)
           \/ \E t \in Tasks : \/ QueueCrashed(t) \/ QueueFull(t) \/ NoWait(t) \/ QueuePush(t)
                               \/ Wake(t) \/ Timeout(t) \/ Return(t)
           \/ FwAccept \/ LlindCorrupt \/ MsgAck \/ UNCHANGED vars
  <2>1. cmds' = cmds
    BY <1>2 DEF Send, QueueCrashed, QueueFull, Refuse, NoWait, QueuePush, Wake, Timeout, Return,
       FwAccept, LlindCorrupt, MsgAck, vars, mgrVars
  <2>2. \A d \in Queued : flags'[d] = flags[d]
    BY <1>1, <1>2 DEF Send, QueueCrashed, QueueFull, Refuse, NoWait, QueuePush, Wake, Timeout,
       Return, FwAccept, LlindCorrupt, MsgAck, vars, cmdVars
  <2> QED BY <2>1, <2>2
<1>3. ASSUME NEW t \in Tasks, QueueAdd(t)
      PROVE  /\ \E d \in Cmds : cmds' = Append(cmds, d)
             /\ \A d \in Queued : "WAIT_ACK" \in flags'[d] => "WAIT_ACK" \in flags[d]
  <2>1. mine[t] \in Cmds /\ mine[t] \notin Queued /\ cmds' = Append(cmds, mine[t])
    BY <1>3 DEF QueueAdd, IInv, TypeOK, TaskInv
  <2>2. \A d \in Cmds : d # mine[t] => flags'[d] = flags[d]
    BY <1>3 DEF QueueAdd, IInv, TypeOK
  <2> QED BY <1>1, <2>1, <2>2
<1>4. ASSUME NEW t \in Tasks, Expire(t)
      PROVE  FALSE
  BY <1>4 DEF Expire
<1>5. ASSUME NEW c, NEW fl, NEW res, CmdComplete(c, fl, res) \/ CmdKeep(fl),
             CmdComplete(c, fl, res) => c \in Queued,
             fl \in [Cmds -> SUBSET Flags], \A d \in Cmds : fl[d] \subseteq flags[d]
      PROVE  /\ cmds' = cmds \/ \E d \in Queued : cmds' = RemoveAt(cmds, Position(d))
             /\ \A d \in Queued : "WAIT_ACK" \in flags'[d] => "WAIT_ACK" \in flags[d]
  <2>1. CASE CmdKeep(fl)
    BY <1>1, <1>5, <2>1 DEF CmdKeep
  <2>2. CASE CmdComplete(c, fl, res)
    <3>1. flags' = [fl EXCEPT ![c] = @ \cup {"DONE"}] /\ cmds' = RemoveAt(cmds, Position(c))
      BY <2>2 DEF CmdComplete
    <3> QED BY <1>1, <1>5, <2>2, <3>1
  <2> QED BY <1>5, <2>1, <2>2
<1>6. CASE Llind
  <2> DEFINE acks == AckedPos # {}
             next == {cmds[i] : i \in NextPos}
             fl == [c \in Cmds |->
                     flags[c] \ ((IF acks /\ c = taken THEN {"WAIT_ACK"} ELSE {})
                                 \cup (IF c \in next THEN {"WAIT_PUSH"} ELSE {}))]
  <2>1. /\ taken # None
        /\ IF acks /\ WaitComplete(fl[taken])
             THEN CmdComplete(taken, fl, result)
             ELSE CmdKeep(fl)
    BY <1>6 DEF Llind
  <2>2. acks => taken \in Queued
    BY <2>1, AckedFacts
  <2>3. fl \in [Cmds -> SUBSET Flags] /\ \A d \in Cmds : fl[d] \subseteq flags[d]
    BY <1>1
  <2> HIDE DEF acks, next, fl
  <2>4. CASE acks /\ WaitComplete(fl[taken])
    BY <1>5, <2>1, <2>2, <2>3, <2>4
  <2>5. CASE ~(acks /\ WaitComplete(fl[taken]))
    <3>1. CmdKeep(fl)
      BY <2>1, <2>5
    <3> QED BY <1>1, <2>3, <3>1 DEF CmdKeep
  <2> QED BY <2>4, <2>5
<1>7. ASSUME NEW k \in 1 .. Len(work), MsgInd(k)
      PROVE  /\ cmds' = cmds \/ \E d \in Queued : cmds' = RemoveAt(cmds, Position(d))
             /\ \A d \in Queued : "WAIT_ACK" \in flags'[d] => "WAIT_ACK" \in flags[d]
  <2>1. CASE CmdKeep(flags)
    BY <2>1 DEF CmdKeep
  <2>2. ASSUME NEW i \in TakerPos(reqid[work[k]]),
               LET fl == [flags EXCEPT ![cmds[i]] = @ \ {"WAIT_CFM"}] IN
               IF WaitComplete(fl[cmds[i]]) THEN CmdComplete(cmds[i], fl, result)
                                            ELSE CmdKeep(fl)
        PROVE  /\ cmds' = cmds \/ \E d \in Queued : cmds' = RemoveAt(cmds, Position(d))
               /\ \A d \in Queued : "WAIT_ACK" \in flags'[d] => "WAIT_ACK" \in flags[d]
    <3> DEFINE c == cmds[i]
               fl == [flags EXCEPT ![c] = @ \ {"WAIT_CFM"}]
    <3>1. c \in Queued
      BY DEF TakerPos, Queued
    <3>2. fl \in [Cmds -> SUBSET Flags] /\ \A d \in Cmds : fl[d] \subseteq flags[d]
      BY <1>1, <3>1
    <3>3. CmdComplete(c, fl, result) \/ CmdKeep(fl)
      BY <2>2
    <3> HIDE DEF c, fl
    <3> QED BY <1>5, <3>1, <3>2, <3>3
  <2> QED BY <1>7, <2>1, <2>2 DEF MsgInd
<1> QED BY <1>2, <1>3, <1>4, <1>6, <1>7 DEF Next, TaskStep, DriverStep

\* The position of a listed command.
LEMMA PositionFacts ==
  ASSUME NEW c \in Queued
  PROVE  Position(c) \in 1 .. Len(cmds) /\ cmds[Position(c)] = c
BY DEF Position, Queued

\* While a command is listed it moves towards the front, or what is in front stays.
LEMMA PositionMoves ==
  ASSUME IInv, IInv', [Next]_vars, state' # "CRASHED", NEW c \in Queued, c \in Queued'
  PROVE  \/ Position(c)' = Position(c) /\ cmds'[1] = cmds[1]
         \/ Position(c)' < Position(c)
<1> DEFINE p == Position(c)
           q == Position(c)'
<1>1. p \in 1 .. Len(cmds) /\ cmds[p] = c
  BY PositionFacts
<1>2. q \in 1 .. Len(cmds') /\ cmds'[q] = c
  BY DEF Position, Queued
<1>3. /\ cmds \in Seq(Cmds) /\ Len(cmds) \in Nat /\ Len(cmds') \in Nat
      /\ \A i, j \in 1 .. Len(cmds) : cmds[i] = cmds[j] => i = j
      /\ \A i, j \in 1 .. Len(cmds') : cmds'[i] = cmds'[j] => i = j
  BY LenProperties DEF IInv, TypeOK, ListInv
<1> HIDE DEF p, q
<1>4. CASE cmds' = cmds
  BY <1>1, <1>2, <1>3, <1>4 DEF p, q
<1>5. ASSUME NEW d \in Cmds, cmds' = Append(cmds, d)
      PROVE  q = p /\ cmds'[1] = cmds[1]
  <2>1. /\ Len(cmds') = Len(cmds) + 1
        /\ \A i \in 1 .. Len(cmds) : cmds'[i] = cmds[i]
    BY <1>3, <1>5, AppendProperties
  <2>2. p \in 1 .. Len(cmds') /\ cmds'[p] = c /\ 1 \in 1 .. Len(cmds)
    BY <1>1, <1>3, <2>1
  <2> QED BY <1>2, <1>3, <2>1, <2>2
<1>6. ASSUME NEW d \in Queued, cmds' = RemoveAt(cmds, Position(d))
      PROVE  (q = p /\ cmds'[1] = cmds[1]) \/ q < p
  <2> DEFINE r == Position(d)
  <2>1. r \in 1 .. Len(cmds)
    BY PositionFacts
  <2> HIDE DEF r
  <2>2. /\ Len(cmds') = Len(cmds) - 1
        /\ \A i \in 1 .. Len(cmds) - 1 : cmds'[i] = IF i < r THEN cmds[i] ELSE cmds[i + 1]
    BY <1>3, <1>6, <2>1, RemoveAtFacts DEF r
  <2>3. CASE q < r
    <3>1. q \in 1 .. Len(cmds) /\ cmds[q] = c /\ 1 \in 1 .. Len(cmds) - 1 /\ 1 < r
      BY <1>2, <1>3, <2>1, <2>2, <2>3
    <3> QED BY <1>1, <1>3, <2>2, <3>1
  <2>4. CASE ~(q < r)
    <3>1. q + 1 \in 1 .. Len(cmds) /\ cmds[q + 1] = c
      BY <1>2, <1>3, <2>1, <2>2, <2>4
    <3>2. p = q + 1
      BY <1>1, <1>3, <3>1
    <3> QED BY <1>1, <1>2, <1>3, <3>2
  <2> QED BY <2>3, <2>4
<1> QED BY <1>4, <1>5, <1>6, ListChanges DEF p, q

(***************************************************************************)
(* Every command is answered: how far it is from that                      *)
(***************************************************************************)
\* What is left to do for the command in front: it is pushed, accepted,
\* acknowledged, taken out of the mailbox and confirmed.
Stage ==
  LET f == cmds[1] IN
  IF "WAIT_ACK" \notin flags[f] THEN 1
  ELSE IF taken = f THEN 2
  ELSE IF hostid # f THEN 5
  ELSE IF trigger THEN 4 ELSE 3

\* And for a command behind it: all of that for those in front of it.
Rank(c) == 5 * (Position(c) - 1) + Stage

LiveInv == IInv /\ OwedInv /\ ShapeInv /\ HandInv

Listed(c) == c \in Queued /\ state # "CRASHED"

\* Who can take the next step of the command in front.
LEMMA FrontFacts ==
  ASSUME LiveInv, NEW c, Listed(c)
  PROVE  /\ cmds[1] \in Queued /\ cmds[1] \in Cmds /\ ~fault
         /\ Stage \in 1 .. 5
         /\ Stage = 1 => work # <<>> /\ Head(work) = cmds[1]
         /\ Stage = 2 => taken = cmds[1] /\ taken # None
         /\ Stage = 3 => ackIrq /\ hostid = cmds[1]
         /\ Stage = 4 => trigger /\ hostid = cmds[1]
         /\ Stage = 5 => \E t \in Tasks : pc[t] = "push" /\ mine[t] = cmds[1]
<1> DEFINE f == cmds[1]
<1>1. Len(cmds) \in Nat /\ Len(cmds) # 0 /\ 1 \in 1 .. Len(cmds)
  BY LenProperties DEF LiveInv, IInv, TypeOK, Listed, Queued
<1>2. f \in Queued /\ f \in Cmds /\ f # None /\ ~fault
  BY <1>1, QueuedFacts, NoneAssumption DEF LiveInv, IInv, MailInv, Listed, Queued
<1>3. \A d \in Queued : d # f => Before(f, d)
  BY <1>1 DEF Before, Queued
<1> HIDE DEF f
<1>4. ASSUME "WAIT_ACK" \notin flags[f]
      PROVE  work # <<>> /\ Head(work) = f
  <2>1. WorkListed /\ ListedOwed /\ heap[f] = "live" /\ ~WaitComplete(flags[f])
    BY <1>2 DEF LiveInv, OwedInv, Listed, IInv, ListInv
  <2>2. "WAIT_CFM" \in flags[f] /\ f \notin a2eMsg
    BY <1>2, <1>4, <2>1 DEF WaitComplete, ListedOwed
  <2>3. ~(trigger /\ msgBuf = f)
    BY <1>2, <1>4 DEF LiveInv, IInv, MailInv
  <2>4. PICK k \in 1 .. Len(work) : work[k] = f
    BY <1>2, <2>1, <2>2, <2>3 DEF ListedOwed, Accepted, Given
  <2>5. work \in Seq(Cmds) /\ Len(work) \in Nat
    BY LenProperties DEF LiveInv, IInv, TypeOK
  <2>6. k = 1
    <3>1. CASE k > 1
      <4>1. 1 \in 1 .. Len(work) /\ 1 < k
        BY <2>4, <2>5, <3>1
      <4>2. Before(work[1], f) /\ work[1] \in Queued
        BY <2>1, <2>4, <4>1 DEF WorkListed
      <4>3. work[1] # f /\ ~Before(f, work[1])
        BY <4>2, BeforeFacts DEF LiveInv, IInv
      <4> QED BY <1>3, <4>2, <4>3
    <3> QED BY <2>4, <2>5, <3>1
  <2>7. work # <<>> /\ Head(work) = work[1]
    BY <2>4, <2>5, <2>6, EmptySeq, HeadTailProperties
  <2> QED BY <2>4, <2>6, <2>7
<1>5. ASSUME "WAIT_ACK" \in flags[f], taken # f, hostid # f
      PROVE  \E t \in Tasks : pc[t] = "push" /\ mine[t] = f
  <2>1. CASE "WAIT_PUSH" \notin flags[f]
    BY <1>2, <1>5, <2>1, PushedIsBusy DEF LiveInv
  <2>2. ASSUME "WAIT_PUSH" \in flags[f], NEW e \in Queued, "WAIT_PUSH" \notin flags[e]
        PROVE  FALSE
    <3>1. Before(f, e)
      BY <1>3, <2>2
    <3> QED BY <1>5, <2>2, <3>1 DEF Before, LiveInv, IInv, ChainInv
  <2>3. Busy
    BY <1>2, <1>5 DEF LiveInv, HandInv, Listed
  <2>4. CASE hostid # None \/ taken # None
    <3>1. PICK e \in {hostid, taken} \ {None} : TRUE
      BY <2>4
    <3>2. e \in Queued /\ "WAIT_PUSH" \notin flags[e]
      BY <3>1 DEF LiveInv, IInv, MailInv, Listed
    <3> QED BY <2>1, <2>2, <3>2
  <2>5. CASE \E t \in Tasks : pc[t] = "push"
    <3>1. PICK t \in Tasks : pc[t] = "push"
      BY <2>5
    <3>2. mine[t] \in Queued /\ "WAIT_PUSH" \notin flags[mine[t]]
      BY <3>1 DEF LiveInv, IInv, TaskInv
    <3> QED BY <2>1, <2>2, <3>2
  <2> QED BY <2>3, <2>4, <2>5 DEF Busy
<1>6. hostid = f => trigger \/ ackIrq
  BY <1>2 DEF LiveInv, HandInv
<1>7. Stage \in 1 .. 5
  BY DEF Stage
<1>8. /\ Stage = 1 <=> "WAIT_ACK" \notin flags[f]
      /\ Stage = 2 => taken = f
      /\ Stage = 3 => hostid = f /\ ~trigger
      /\ Stage = 4 => hostid = f /\ trigger
      /\ Stage = 5 => "WAIT_ACK" \in flags[f] /\ taken # f /\ hostid # f
  BY DEF Stage, f
<1> QED BY <1>2, <1>4, <1>5, <1>6, <1>7, <1>8 DEF f

\* cmd_mgr_llind takes WAIT_ACK off the command it was called for.
LEMMA LlindAcknowledges ==
  ASSUME IInv, Llind, taken \in Queued
  PROVE  "WAIT_ACK" \notin flags'[taken]
<1> DEFINE acks == AckedPos # {}
           next == {cmds[i] : i \in NextPos}
           fl == [c \in Cmds |->
                   flags[c] \ ((IF acks /\ c = taken THEN {"WAIT_ACK"} ELSE {})
                               \cup (IF c \in next THEN {"WAIT_PUSH"} ELSE {}))]
<1>1. /\ taken # None
      /\ IF acks /\ WaitComplete(fl[taken])
           THEN CmdComplete(taken, fl, result)
           ELSE CmdKeep(fl)
  BY DEF Llind
<1>2. acks /\ taken \in Cmds
  BY <1>1, AckedFacts, QueuedFacts DEF IInv
<1>3. "WAIT_ACK" \notin fl[taken] /\ DOMAIN fl = Cmds
  BY <1>2
<1> HIDE DEF acks, next, fl
<1> QED BY <1>1, <1>2, <1>3 DEF CmdComplete, CmdKeep

\* What has been done for the command in front is not undone.
LEMMA StageKept ==
  ASSUME IInv, [Next]_vars, state' # "CRASHED", cmds[1] \in Queued, cmds'[1] = cmds[1]
  PROVE  Stage' <= Stage
<1> DEFINE f == cmds[1]
<1>1. /\ "WAIT_ACK" \in flags'[f] => "WAIT_ACK" \in flags[f]
      /\ f \in Cmds /\ f # None
  BY ListChanges, QueuedFacts, NoneAssumption DEF IInv
<1>2. ASSUME taken = f, "WAIT_ACK" \in flags'[f]
      PROVE  taken' = f
  <2>1. ~Llind
    BY <1>2, LlindAcknowledges
  <2>2. ~MsgAck
    BY <1>1, <1>2 DEF MsgAck
  <2> QED BY <1>2, <2>1, <2>2 DEF Next, Send, TaskStep, QueueCrashed, QueueFull, Refuse, QueueAdd,
       QueuePush, NoWait, Wake, Timeout, Expire, Return, DriverStep, MsgInd, LlindCorrupt, FwAccept,
       vars, ipcVars
<1>3. ASSUME hostid = f
      PROVE  taken' = f \/ (hostid' = f /\ (trigger' => trigger))
  <2>1. ~Llind /\ \A t \in Tasks : ~QueuePush(t)
    BY <1>1, <1>3 DEF IInv, MailInv, Llind, QueuePush
  <2>2. CASE MsgAck
    BY <1>3, <2>2 DEF MsgAck
  <2>3. CASE ~MsgAck
    BY <1>3, <2>1, <2>3 DEF Next, Send, TaskStep, QueueCrashed, QueueFull, Refuse, QueueAdd,
       NoWait, Wake, Timeout, Expire, Return, DriverStep, MsgInd, LlindCorrupt, FwAccept,
       vars, ipcVars, fwVars
  <2> QED BY <2>2, <2>3
<1> QED BY <1>1, <1>2, <1>3 DEF Stage

\* The step that is due for the command in front.
HelpBy(s, t, c) ==
  \/ s = 5 /\ pc[t] = "push" /\ mine[t] = cmds[1] /\ TaskStep(t)
  \/ s = 4 /\ FwAccept
  \/ s \in {2, 3} /\ (MsgAck \/ Llind)
  \/ s = 1 /\ cmds[1] = c /\ Confirm(c)

\* It takes that command a stage further or out of the list.
LEMMA StageFalls ==
  ASSUME LiveInv, NEW d, Listed(d), NEW t, NEW c, HelpBy(Stage, t, c),
         [Next]_vars, state' # "CRASHED", cmds'[1] = cmds[1], cmds[1] \in Queued'
  PROVE  Stage' < Stage
<1> DEFINE f == cmds[1]
<1>1. /\ f \in Queued /\ f \in Cmds /\ f # None /\ Stage \in 1 .. 5
      /\ Stage = 1 => work # <<>> /\ Head(work) = f
      /\ Stage = 2 => taken = f /\ taken # None
      /\ Stage = 3 => ackIrq /\ hostid = f
      /\ Stage = 4 => trigger /\ hostid = f
  BY FrontFacts, NoneAssumption DEF LiveInv, IInv, MailInv
<1>2. /\ IInv /\ OwedInv /\ state # "CRASHED"
      /\ "WAIT_ACK" \in flags'[f] => "WAIT_ACK" \in flags[f]
  BY <1>1, ListChanges DEF LiveInv, Listed
<1>3. CASE Stage = 5
  <2>1. pc[t] = "push" /\ mine[t] = f /\ TaskStep(t)
    BY <1>3 DEF HelpBy
  <2>2. QueuePush(t)
    BY <2>1 DEF TaskStep, QueueCrashed, QueueFull, QueueAdd, NoWait, Wake, Expire, Return
  <2>3. hostid' = f
    BY <2>1, <2>2 DEF QueuePush, MsgPush
  <2> QED BY <1>3, <2>3 DEF Stage
<1>4. CASE Stage = 4
  <2>1. FwAccept
    BY <1>4 DEF HelpBy
  <2>2. hostid' = f /\ ~trigger'
    BY <1>1, <1>4, <2>1 DEF FwAccept, ipcVars
  <2> QED BY <1>4, <2>2 DEF Stage
<1>5. CASE Stage = 3
  <2>1. MsgAck
    BY <1>1, <1>2, <1>5 DEF HelpBy, Llind, IInv, MailInv
  <2>2. taken' = f
    BY <1>1, <1>5, <2>1 DEF MsgAck
  <2> QED BY <1>5, <2>2 DEF Stage
<1>6. CASE Stage = 2
  <2>1. Llind
    BY <1>1, <1>6 DEF HelpBy, MsgAck
  <2>2. "WAIT_ACK" \notin flags'[f]
    BY <1>1, <1>2, <1>6, <2>1, LlindAcknowledges
  <2> QED BY <1>6, <2>2 DEF Stage
<1>7. CASE Stage = 1
  <2>1. PICK k \in 1 .. Len(work) : work[k] = f /\ MsgInd(k)
    BY <1>7 DEF HelpBy, Confirm
  <2>2. /\ \A j \in 1 .. k - 1 : reqid[work[j]] # reqid[work[k]]
        /\ state' = state
    BY <2>1, MsgIndFacts, <1>2
  <2>3. /\ TakerPos(reqid[f]) # {}
        /\ \A i \in TakerPos(reqid[f]) : cmds[i] = f
    BY <1>2, <2>1, <2>2, TakerIsConfirmed
  <2> DEFINE fl == [flags EXCEPT ![f] = @ \ {"WAIT_CFM"}]
  <2>4. "WAIT_ACK" \notin flags[f] /\ flags \in [Cmds -> SUBSET Flags]
    BY <1>2, <1>7 DEF Stage, IInv, TypeOK
  <2>5. WaitComplete(fl[f])
    BY <1>1, <2>4 DEF WaitComplete
  <2>6. CmdComplete(f, fl, result)
    BY <2>1, <2>3, <2>5 DEF MsgInd
  <2>7. Queued' = Queued \ {f}
    <3> HIDE DEF f, fl
    <3> QED BY <1>1, <1>2, <2>6, CompleteFacts DEF IInv, TypeOK
  <2> QED BY <2>7
<1> QED BY <1>1, <1>3, <1>4, <1>5, <1>6, <1>7

\* The rank is a number that the place decides before the stage.
LEMMA RankOrder ==
  ASSUME NEW p \in Nat \ {0}, NEW q \in Nat \ {0}, NEW a \in 1 .. 5, NEW b \in 1 .. 5
  PROVE  /\ 5 * (p - 1) + a \in Nat /\ 5 * (q - 1) + b \in Nat
         /\ q < p => 5 * (q - 1) + b < 5 * (p - 1) + a
         /\ q = p /\ b <= a => 5 * (q - 1) + b <= 5 * (p - 1) + a
         /\ q = p /\ b < a => 5 * (q - 1) + b < 5 * (p - 1) + a
         /\ q = p /\ 5 * (q - 1) + b = 5 * (p - 1) + a => b = a
OBVIOUS

\* A step brings a listed command nearer to its answer or leaves it where it is.
LEMMA RankMoves ==
  ASSUME LiveInv, LiveInv', [Next]_vars, NEW c, Listed(c), Listed(c)'
  PROVE  /\ Rank(c) \in Nat /\ Rank(c)' \in Nat /\ Rank(c)' <= Rank(c)
         /\ Rank(c)' = Rank(c) => Stage' = Stage /\ cmds'[1] = cmds[1]
         /\ \A t, d : HelpBy(Stage, t, d) => Rank(c)' < Rank(c)
<1> DEFINE p == Position(c)
           q == Position(c)'
<1>1. /\ IInv /\ IInv' /\ state' # "CRASHED" /\ c \in Queued /\ c \in Queued'
      /\ Len(cmds) \in Nat /\ Len(cmds') \in Nat
  BY LenProperties DEF Listed, LiveInv, IInv, TypeOK
<1>2. p \in 1 .. Len(cmds) /\ q \in 1 .. Len(cmds') /\ 1 \in 1 .. Len(cmds')
  BY <1>1 DEF Position, Queued
<1>3. Stage \in 1 .. 5 /\ Stage' \in 1 .. 5
  BY DEF Stage
<1>4. Rank(c) = 5 * (p - 1) + Stage /\ Rank(c)' = 5 * (q - 1) + Stage'
  BY DEF Rank
<1>5. cmds[1] \in Queued /\ cmds'[1] \in Queued'
  BY <1>2, FrontFacts DEF Queued
<1> HIDE DEF p, q
<1>6. p \in Nat \ {0} /\ q \in Nat \ {0}
  BY <1>1, <1>2
<1>7. CASE q < p
  <2>1. /\ 5 * (p - 1) + Stage \in Nat /\ 5 * (q - 1) + Stage' \in Nat
        /\ 5 * (q - 1) + Stage' < 5 * (p - 1) + Stage
    BY <1>3, <1>7, <1>6, RankOrder
  <2>2. Rank(c) \in Nat /\ Rank(c)' \in Nat /\ Rank(c)' < Rank(c)
    BY <1>4, <2>1
  <2> QED BY <2>2
<1>8. CASE q = p /\ cmds'[1] = cmds[1]
  <2>1. Stage' <= Stage
    BY <1>1, <1>5, <1>8, StageKept
  <2>2. ASSUME NEW t, NEW d, HelpBy(Stage, t, d)
        PROVE  Stage' < Stage
    BY <1>1, <1>5, <1>8, <2>2, StageFalls
  <2>3. /\ 5 * (p - 1) + Stage \in Nat /\ 5 * (q - 1) + Stage' \in Nat
        /\ 5 * (q - 1) + Stage' <= 5 * (p - 1) + Stage
        /\ 5 * (q - 1) + Stage' = 5 * (p - 1) + Stage => Stage' = Stage
        /\ Stage' < Stage => 5 * (q - 1) + Stage' < 5 * (p - 1) + Stage
    BY <1>3, <1>8, <1>6, <2>1, RankOrder
  <2>4. /\ Rank(c) \in Nat /\ Rank(c)' \in Nat /\ Rank(c)' <= Rank(c)
        /\ Rank(c)' = Rank(c) => Stage' = Stage
        /\ Stage' < Stage => Rank(c)' < Rank(c)
    BY <1>4, <2>3
  <2> QED BY <1>8, <2>2, <2>4
<1> QED BY <1>1, <1>7, <1>8, PositionMoves DEF p, q

\* A task that is about to push stays there until it does.
LEMMA PusherStays ==
  ASSUME IInv, [Next]_vars, NEW t \in Tasks, pc[t] = "push", ~TaskStep(t)
  PROVE  pc'[t] = "push" /\ mine'[t] = mine[t]
<1>1. /\ pc \in [Tasks -> {"idle", "queue", "push", "nowait", "wait", "expired", "ret"}]
      /\ mine \in [Tasks -> Cmds \cup {None}]
  BY DEF IInv, TypeOK
<1>2. CASE \E u \in Tasks, c \in Cmds, k \in Kinds : Send(u, c, k)
  BY <1>1, <1>2 DEF Send
<1>3. ASSUME NEW u \in Tasks, TaskStep(u) \/ Timeout(u)
      PROVE  pc'[t] = "push" /\ mine'[t] = mine[t]
  <2>1. u # t
    BY <1>3 DEF Timeout
  <2>2. \E q, c : /\ pc' = [pc EXCEPT ![u] = q]
                  /\ mine' = mine \/ mine' = [mine EXCEPT ![u] = c]
    BY <1>3 DEF TaskStep, QueueCrashed, QueueFull, Refuse, QueueAdd, QueuePush, NoWait, Wake,
       Timeout, Expire, Return
  <2> QED BY <1>1, <2>1, <2>2
<1>4. CASE DriverStep \/ LlindCorrupt \/ FwAccept \/ UNCHANGED vars
  BY <1>4 DEF DriverStep, MsgAck, Llind, MsgInd, LlindCorrupt, FwAccept, taskVars, vars
<1> QED BY <1>2, <1>3, <1>4 DEF Next

Below(c, n) == Listed(c) => Rank(c) < n

At(c, n, s) == Listed(c) /\ Rank(c) = n /\ Stage = s

\* A command stays at its rank and stage, with the same command in front, or its
\* rank falls; it falls if the step that is due is taken.
LEMMA AtMoves ==
  ASSUME NEW c, NEW n \in Nat, NEW s \in 1 .. 5,
         LiveInv, LiveInv', [Next]_vars, At(c, n, s)
  PROVE  /\ At(c, n, s)' \/ Below(c, n)'
         /\ At(c, n, s)' => cmds'[1] = cmds[1]
         /\ \A t, d : HelpBy(s, t, d) => Below(c, n)'
<1>1. Listed(c) /\ Rank(c) = n /\ Stage = s
  BY DEF At
<1>2. CASE ~Listed(c)'
  BY <1>2 DEF Below, At
<1>3. CASE Listed(c)'
  <2>1. /\ Rank(c)' \in Nat /\ Rank(c)' <= n
        /\ Rank(c)' = n => Stage' = s /\ cmds'[1] = cmds[1]
        /\ \A t, d : HelpBy(s, t, d) => Rank(c)' < n
    BY <1>1, <1>3, RankMoves
  <2>2. Below(c, n)' <=> Rank(c)' < n
    BY <1>3 DEF Below
  <2>3. At(c, n, s)' <=> Rank(c)' = n /\ Stage' = s
    BY <1>3 DEF At
  <2> QED BY <2>1, <2>2, <2>3
<1> QED BY <1>2, <1>3

\* Firmware, tasks and bottom half run, and always have. A fairness condition that holds
\* holds at every later moment too, so that the boxes add nothing to it.
Awake ==
  /\ [][Next]_vars /\ []LiveInv /\ []CanStep
  /\ []SchedFairness /\ []AnswerFairness

\* What the two fairness conditions consist of.
LEMMA FairParts ==
  /\ AnswerFairness => AcceptFair /\ BottomFair
  /\ \A c \in Cmds : AnswerFairness => ConfirmFair(c)
  /\ \A t \in Tasks : SchedFairness => TaskFair(t)
BY DEF AnswerFairness, SchedFairness

\* The firmware accepts the command in front.
LEMMA AcceptedInTheEnd ==
  ASSUME NEW c, NEW n \in Nat
  PROVE  Awake => (At(c, n, 4) => <>Below(c, n))
<1>1. LiveInv /\ LiveInv' /\ At(c, n, 4) /\ [Next]_vars => At(c, n, 4)' \/ Below(c, n)'
  BY AtMoves
<1>2. LiveInv /\ LiveInv' /\ At(c, n, 4) /\ [Next]_vars /\ <<~fault /\ FwAccept>>_vars
        => Below(c, n)'
  BY AtMoves DEF HelpBy
<1>3. LiveInv /\ CanStep /\ At(c, n, 4) => ENABLED <<~fault /\ FwAccept>>_vars
  BY FrontFacts DEF CanStep, At
<1>4. AnswerFairness => AcceptFair
  BY FairParts
<1> QED BY <1>1, <1>2, <1>3, <1>4, PTL DEF Awake, AcceptFair

\* The bottom half notices its acknowledgement and takes it out of the mailbox.
LEMMA AcknowledgedInTheEnd ==
  ASSUME NEW c, NEW n \in Nat, NEW s \in {2, 3}
  PROVE  Awake => (At(c, n, s) => <>Below(c, n))
<1>1. LiveInv /\ LiveInv' /\ At(c, n, s) /\ [Next]_vars => At(c, n, s)' \/ Below(c, n)'
  BY AtMoves
<1>2. LiveInv /\ LiveInv' /\ At(c, n, s) /\ [Next]_vars /\ <<~fault /\ (MsgAck \/ Llind)>>_vars
        => Below(c, n)'
  BY AtMoves DEF HelpBy
<1>3. LiveInv /\ CanStep /\ At(c, n, s) => ENABLED <<~fault /\ (MsgAck \/ Llind)>>_vars
  <2>1. LiveInv /\ At(c, n, s) => ~fault /\ (ackIrq \/ taken # None)
    BY FrontFacts DEF At
  <2> QED BY <2>1 DEF CanStep
<1>4. AnswerFairness => BottomFair
  BY FairParts
<1> QED BY <1>1, <1>2, <1>3, <1>4, PTL DEF Awake, BottomFair

\* The task that is to push it pushes it.
LEMMA PushedInTheEnd ==
  ASSUME NEW c, NEW n \in Nat, NEW t \in Tasks
  PROVE  Awake => (At(c, n, 5) /\ pc[t] = "push" /\ mine[t] = cmds[1] => <>Below(c, n))
<1> DEFINE R == At(c, n, 5) /\ pc[t] = "push" /\ mine[t] = cmds[1]
<1>1. LiveInv /\ LiveInv' /\ R /\ [Next]_vars => R' \/ Below(c, n)'
  <2> SUFFICES ASSUME LiveInv, LiveInv', R, [Next]_vars, ~Below(c, n)'
               PROVE  R'
    OBVIOUS
  <2>1. At(c, n, 5)' /\ cmds'[1] = cmds[1] /\ ~TaskStep(t)
    BY AtMoves DEF HelpBy
  <2> QED BY <2>1, PusherStays DEF LiveInv
<1>2. LiveInv /\ LiveInv' /\ R /\ [Next]_vars /\ <<~fault /\ TaskStep(t)>>_vars => Below(c, n)'
  BY AtMoves DEF HelpBy
<1>3. LiveInv /\ CanStep /\ R => ENABLED <<~fault /\ TaskStep(t)>>_vars
  <2>1. LiveInv /\ R => ~fault /\ pc[t] \notin {"idle", "wait"}
    BY FrontFacts DEF At
  <2> QED BY <2>1 DEF CanStep
<1>4. SchedFairness => TaskFair(t)
  BY FairParts
<1> QED BY <1>1, <1>2, <1>3, <1>4, PTL DEF Awake, TaskFair

\* The bottom half gets its confirmation.
LEMMA ConfirmedInTheEnd ==
  ASSUME NEW c, NEW n \in Nat, NEW d \in Cmds
  PROVE  Awake => (At(c, n, 1) /\ cmds[1] = d => <>Below(c, n))
<1> DEFINE R == At(c, n, 1) /\ cmds[1] = d
<1>1. LiveInv /\ LiveInv' /\ R /\ [Next]_vars => R' \/ Below(c, n)'
  BY AtMoves
<1>2. LiveInv /\ LiveInv' /\ R /\ [Next]_vars /\ <<~fault /\ Confirm(d)>>_vars => Below(c, n)'
  BY AtMoves DEF HelpBy
<1>3. LiveInv /\ CanStep /\ R => CanConfirm(d)
  <2>1. LiveInv /\ R => ~fault /\ work # <<>> /\ Head(work) = d
    BY FrontFacts DEF At
  <2> QED BY <2>1 DEF CanStep
<1>4. AnswerFairness => ConfirmFair(d)
  BY FairParts
<1> QED BY <1>1, <1>2, <1>3, <1>4, PTL DEF Awake, ConfirmFair, CanConfirm

\* A listed command comes nearer to its answer, whoever has to take the step.
LEMMA RankGoesDown ==
  ASSUME NEW c, NEW n \in Nat
  PROVE  Awake => (LiveInv /\ Below(c, n + 1) => <>Below(c, n))
<1>1. LiveInv /\ Below(c, n + 1) =>
        \/ Below(c, n) \/ \E s \in {2, 3} : At(c, n, s)
        \/ At(c, n, 4)
        \/ \E t \in Tasks : At(c, n, 5) /\ pc[t] = "push" /\ mine[t] = cmds[1]
        \/ \E d \in Cmds : At(c, n, 1) /\ cmds[1] = d
  <2> SUFFICES ASSUME LiveInv, Listed(c), Rank(c) < n + 1, ~(Rank(c) < n)
               PROVE  \/ \E s \in {2, 3} : At(c, n, s)
                      \/ At(c, n, 4)
                      \/ \E t \in Tasks : At(c, n, 5) /\ pc[t] = "push" /\ mine[t] = cmds[1]
                      \/ \E d \in Cmds : At(c, n, 1) /\ cmds[1] = d
    BY DEF Below
  <2>1. Len(cmds) \in Nat /\ Position(c) \in 1 .. Len(cmds)
    BY LenProperties, PositionFacts DEF LiveInv, IInv, TypeOK, Listed
  <2>2. Position(c) \in Nat \ {0} /\ Stage \in 1 .. 5
    BY <2>1 DEF Stage
  <2>3. Rank(c) \in Nat
    BY <2>2, RankOrder DEF Rank
  <2>4. Rank(c) = n
    BY <2>3
  <2> QED BY <2>4, FrontFacts DEF At
<1>2. Awake => (Below(c, n) => <>Below(c, n))
  BY PTL
<1>3. Awake =>
        ((\/ Below(c, n) \/ \E s \in {2, 3} : At(c, n, s)
          \/ At(c, n, 4)
          \/ \E t \in Tasks : At(c, n, 5) /\ pc[t] = "push" /\ mine[t] = cmds[1]
          \/ \E d \in Cmds : At(c, n, 1) /\ cmds[1] = d) => <>Below(c, n))
  BY <1>2, AcknowledgedInTheEnd, AcceptedInTheEnd, PushedInTheEnd, ConfirmedInTheEnd
<1> QED BY <1>1, <1>3

Drops(c, m, n) == Below(c, m) ~> Below(c, n)

\* One step of help after another: the rank of a listed command falls again and again.
LEMMA RankDrops ==
  ASSUME NEW c, NEW m \in Nat, NEW n \in Nat, m = n + 1
  PROVE  Awake => Drops(c, m, n)
<1>1. Awake => (LiveInv /\ Below(c, m) => <>Below(c, n))
  BY RankGoesDown
<1> QED BY <1>1, PTL DEF Awake, Drops

\* The invariants the ranks are about hold at every step.
LEMMA LiveInvariance == Spec => []LiveInv
<1>1. IInv /\ ShapeInv /\ [Next]_vars => ShapeInv'
  BY ChannelNext DEF Moves
<1>2. AnswerInv => OwedInv
  BY DEF AnswerInv
<1>3. IInv /\ OwedInv /\ ShapeInv /\ HandInv => LiveInv
  BY DEF LiveInv
<1> QED BY <1>1, <1>2, <1>3, ChannelInit, HandInit, HandNext, Invariance, AnswerInvariance, PTL
     DEF Spec

\* Two falls, one after the other: the number of steps doubles each time.
DropsBy(c, m) == \A n \in Nat : Awake => Drops(c, n + m, n)

LEMMA DropsDouble ==
  ASSUME NEW c, NEW m \in Nat, DropsBy(c, m)
  PROVE  DropsBy(c, m + m)
<1> SUFFICES ASSUME NEW n \in Nat PROVE Awake => Drops(c, n + (m + m), n)
  BY DEF DropsBy
<1>1. n + m \in Nat /\ (n + m) + m = n + (m + m)
  OBVIOUS
<1>2. Awake => Drops(c, n + m, n)
  BY DEF DropsBy
<1>3. Awake => Drops(c, (n + m) + m, n + m)
  BY <1>1 DEF DropsBy
<1>4. Awake => Drops(c, (n + m) + m, n)
  BY <1>2, <1>3, PTL DEF Drops
<1> QED BY <1>1, <1>4

\* A listed command that is not too far back comes to the front and is answered.
LEMMA RankEnds ==
  ASSUME NEW c
  PROVE  Awake => Drops(c, 1 + 4096, 1)
<1>0. DropsBy(c, 1)
  BY RankDrops DEF DropsBy
<1>1. DropsBy(c, 2)
  BY <1>0, 1 + 1 = 2, DropsDouble
<1>2. DropsBy(c, 4)
  BY <1>1, 2 + 2 = 4, DropsDouble
<1>3. DropsBy(c, 8)
  BY <1>2, 4 + 4 = 8, DropsDouble
<1>4. DropsBy(c, 16)
  BY <1>3, 8 + 8 = 16, DropsDouble
<1>5. DropsBy(c, 32)
  BY <1>4, 16 + 16 = 32, DropsDouble
<1>6. DropsBy(c, 64)
  BY <1>5, 32 + 32 = 64, DropsDouble
<1>7. DropsBy(c, 128)
  BY <1>6, 64 + 64 = 128, DropsDouble
<1>8. DropsBy(c, 256)
  BY <1>7, 128 + 128 = 256, DropsDouble
<1>9. DropsBy(c, 512)
  BY <1>8, 256 + 256 = 512, DropsDouble
<1>10. DropsBy(c, 1024)
  BY <1>9, 512 + 512 = 1024, DropsDouble
<1>11. DropsBy(c, 2048)
  BY <1>10, 1024 + 1024 = 2048, DropsDouble
<1>12. DropsBy(c, 4096)
  BY <1>11, 2048 + 2048 = 4096, DropsDouble
<1> QED BY <1>12 DEF DropsBy

\* For a list far longer than the driver's (RWNX_CMD_MAX_QUEUED is 8, bl_cmds.h:72): every listed
\* command is answered before its caller's wait runs out, or a caller has timed out. The firmware
\* and the bottom half are always able to take the step that is due (CanStep), and each such
\* step brings all listed commands nearer to the front or to their own answer.
THEOREM CommandsAnswered ==
  MaxQueued <= 800 =>
    (Spec /\ []SchedFairness /\ []AnswerFairness /\ []CanStep => Answered)
<1> SUFFICES ASSUME MaxQueued <= 800
             PROVE  Spec /\ []SchedFairness /\ []AnswerFairness /\ []CanStep => Answered
  OBVIOUS
<1>1. ASSUME NEW c \in Cmds
      PROVE  Spec /\ []SchedFairness /\ []AnswerFairness /\ []CanStep
               => (c \in Queued ~> (c \notin Queued \/ state = "CRASHED"))
  <2>1. LiveInv => Below(c, 1 + 4096)
    <3> SUFFICES ASSUME LiveInv, Listed(c) PROVE Rank(c) < 1 + 4096
      BY DEF Below
    <3>1. /\ Len(cmds) \in Nat /\ Len(cmds) <= MaxQueued
          /\ Position(c) \in 1 .. Len(cmds) /\ Stage \in 1 .. 5
      BY LenProperties, PositionFacts DEF LiveInv, IInv, TypeOK, ListInv, QueueBounded, Listed, Stage
    <3> HIDE DEF Stage
    <3>2. Position(c) \in Nat /\ Position(c) <= MaxQueued
      BY <3>1, MaxQueuedAssumption
    <3>3. Stage \in Nat /\ Stage <= 5
      BY <3>1
    <3> QED BY <3>2, <3>3, MaxQueuedAssumption DEF Rank
  <2>2. LiveInv /\ Below(c, 1) => c \notin Queued \/ state = "CRASHED"
    <3> SUFFICES ASSUME LiveInv, Listed(c) PROVE ~(Rank(c) < 1)
      BY DEF Below, Listed
    <3>1. Position(c) \in Nat \ {0} /\ Stage \in 1 .. 5
      BY LenProperties, PositionFacts DEF LiveInv, IInv, TypeOK, Listed, Stage
    <3> QED BY <3>1 DEF Rank
  <2> QED BY <2>1, <2>2, LiveInvariance, RankEnds, PTL DEF Spec, Awake, Drops
<1> QED BY <1>1 DEF Answered
===============================================================================
