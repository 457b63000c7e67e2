-------------------------------- MODULE CmdMgr --------------------------------
(***************************************************************************)
(* The command manager of the BL602 Wi-Fi driver: host tasks send LMAC     *)
(* commands to the firmware through a mailbox of one message              *)
(* (bl_cmds.c, bl_send_msg in bl_msg_tx.c, the A2E half of ipc_host.c).    *)
(*                                                                         *)
(* A step is a critical section of cmd_mgr->lock, or the code between two. *)
(* A command is its heap block: bl_send_msg allocates each one, and the    *)
(* model gives every allocation an identity of its own.                    *)
(***************************************************************************)
EXTENDS Naturals, Sequences, SequencesExt

CONSTANTS Tasks,      \* host tasks that call the bl_send_* functions
          Cmds,       \* struct bl_cmd blocks, one per call of bl_send_msg
          None,       \* the NULL pointer
          Ids,        \* confirmation message ids (reqid)
          Kinds,      \* what a bl_send_* function asks of bl_send_msg
          MaxQueued   \* RWNX_CMD_MAX_QUEUED: 8 in the code

ASSUME NoneAssumption == None \notin Cmds
ASSUME KindsAssumption ==
  Kinds \subseteq [nonblock : BOOLEAN, reqcfm : BOOLEAN, reqid : Ids]
ASSUME IdsAssumption == Ids # {}
ASSUME MaxQueuedAssumption == MaxQueued \in Nat \ {0}

Flags == {"NONBLOCK", "REQ_CFM", "WAIT_PUSH", "WAIT_ACK", "WAIT_CFM", "DONE"}
Results == {"OK", "EINTR", "EPIPE", "ENOMEM", "ETIMEDOUT"}

VARIABLES
  \* struct bl_cmd_mgr
  state,       \* "DEINIT" or "CRASHED" (no code sets INITED)
  next_tkn,
  queue_sz,
  cmds,        \* the list, oldest first
  \* struct bl_cmd, by block
  heap,        \* "unused", "live" or "freed"
  flags,
  reqid,
  tkn,
  result,
  complete,    \* the blocks whose event has bit 0 set
  a2eMsg,      \* the blocks whose message buffer a2e_msg is allocated
  \* callers of bl_send_msg
  pc, mine,    \* where each task is, and the command it is sending
  \* IPC host environment and the driver's bottom half
  hostid,      \* env->msga2e_hostid
  taken,       \* the hostid ipc_host_msgack_handler holds, not yet in llind
  \* the firmware (external)
  trigger, msgBuf, ackIrq, work,
  \* history and fault
  cfmOf,       \* the command whose confirmation was given to this one
  fault        \* the heap was corrupted through a freed block

mgrVars  == <<state, next_tkn, queue_sz, cmds>>
cmdVars  == <<heap, flags, reqid, tkn, result, complete, a2eMsg>>
taskVars == <<pc, mine>>
ipcVars  == <<hostid, taken>>
fwVars   == <<trigger, msgBuf, ackIrq, work>>
ghost    == <<cfmOf, fault>>
vars == <<mgrVars, cmdVars, taskVars, ipcVars, fwVars, ghost>>

-------------------------------------------------------------------------------
Queued == {cmds[i] : i \in 1 .. Len(cmds)}

\* Mutant: only the confirmation counts.
WaitCompleteNoAck(fl) == "WAIT_CFM" \notin fl

\* RWNX_CMD_WAIT_COMPLETE
WaitComplete(fl) == fl \cap {"WAIT_ACK", "WAIT_CFM"} = {}

Position(c) == CHOOSE i \in 1 .. Len(cmds) : cmds[i] = c

Init ==
  /\ state = "DEINIT" /\ next_tkn = 0 /\ queue_sz = 0 /\ cmds = <<>>
  /\ heap = [c \in Cmds |-> "unused"]
  /\ flags = [c \in Cmds |-> {}]
  /\ reqid = [c \in Cmds |-> CHOOSE i \in Ids : TRUE]
  /\ tkn = [c \in Cmds |-> 0]
  /\ result = [c \in Cmds |-> "EINTR"]
  /\ complete = {} /\ a2eMsg = {}
  /\ pc = [t \in Tasks |-> "idle"]
  /\ mine = [t \in Tasks |-> None]
  /\ hostid = None /\ taken = None
  /\ trigger = FALSE /\ msgBuf = None /\ ackIrq = FALSE /\ work = <<>>
  /\ cfmOf = [c \in Cmds |-> None]
  /\ fault = FALSE

\* Mutants of the two tests of cmd_complete.
FreesAll(c, fl) == c \in Cmds
PostsAlways(c, fl) == "NONBLOCK" \notin fl[c]

Frees(c, fl) == "NONBLOCK" \in fl[c]
Posts(c, fl) == "NONBLOCK" \notin fl[c] /\ WaitComplete(fl[c])

(***************************************************************************)
(* cmd_complete: unlink c, mark it DONE, then free it (NONBLOCK) or, when  *)
(* nothing is awaited any more, post its event.  fl are the flags and res  *)
(* the results the caller has written before the call.                     *)
(***************************************************************************)
CmdComplete(c, fl, res) ==
  /\ queue_sz' = queue_sz - 1
  /\ cmds' = RemoveAt(cmds, Position(c))
  /\ flags' = [fl EXCEPT ![c] = @ \cup {"DONE"}]
  /\ heap' = IF Frees(c, fl) THEN [heap EXCEPT ![c] = "freed"] ELSE heap
  /\ result' = IF Posts(c, fl) THEN [res EXCEPT ![c] = "OK"] ELSE res
  /\ complete' = IF Posts(c, fl) THEN complete \cup {c} ELSE complete

\* The command stays in the list: only its flags change.
CmdKeep(fl) ==
  /\ flags' = fl
  /\ UNCHANGED <<queue_sz, cmds, heap, result, complete>>

\* ipc_host_msg_push, and the caller's os_free(a2e_msg) that follows it.
MsgPush(c) ==
  /\ hostid' = c
  /\ msgBuf' = c
  /\ trigger' = TRUE
  /\ a2eMsg' = a2eMsg \ {c}

-------------------------------------------------------------------------------
(***************************************************************************)
(* Host tasks: bl_send_msg and cmd_mgr_queue                               *)
(***************************************************************************)

\* bl_send_msg: allocate the command and fill it in.
Send(t, c, k) ==
  /\ pc[t] = "idle" /\ heap[c] = "unused"
  /\ heap' = [heap EXCEPT ![c] = "live"]
  /\ flags' = [flags EXCEPT ![c] = (IF k.nonblock THEN {"NONBLOCK"} ELSE {})
                                   \cup (IF k.reqcfm THEN {"REQ_CFM"} ELSE {})]
  /\ reqid' = [reqid EXCEPT ![c] = k.reqid]
  /\ a2eMsg' = a2eMsg \cup {c}
  /\ pc' = [pc EXCEPT ![t] = "queue"]
  /\ mine' = [mine EXCEPT ![t] = c]
  /\ UNCHANGED <<mgrVars, tkn, result, complete, ipcVars, fwVars, ghost>>

\* cmd_mgr_queue refuses: the caller returns, and only a blocking command
\* is freed on the way (bl_send_msg).
Refuse(t, err) ==
  LET c == mine[t] IN
  /\ result' = [result EXCEPT ![c] = err]
  /\ heap' = IF "NONBLOCK" \in flags[c] THEN heap ELSE [heap EXCEPT ![c] = "freed"]
  /\ pc' = [pc EXCEPT ![t] = "idle"]
  /\ mine' = [mine EXCEPT ![t] = None]
  /\ UNCHANGED <<mgrVars, flags, reqid, tkn, complete, a2eMsg, ipcVars, fwVars, ghost>>

QueueCrashed(t) ==
  /\ pc[t] = "queue"
  /\ state = "CRASHED"
  /\ Refuse(t, "EPIPE")

Full == cmds # <<>> /\ queue_sz = MaxQueued

QueueFull(t) ==
  /\ pc[t] = "queue"
  /\ state # "CRASHED"
  /\ Full
  /\ Refuse(t, "ENOMEM")

\* Mutant: a command pushed and not yet acknowledged does not defer the next.
DefersBehindUnpushed == cmds # <<>> /\ "WAIT_PUSH" \in flags[cmds[Len(cmds)]]

\* The push waits for an acknowledgement when the last command of the list
\* is not yet pushed or not yet acknowledged.
Defers == cmds # <<>> /\ flags[cmds[Len(cmds)]] \cap {"WAIT_ACK", "WAIT_PUSH"} # {}

AfterQueue(c) == IF "NONBLOCK" \in flags[c] THEN "nowait" ELSE "wait"

QueueAdd(t) ==
  LET c == mine[t] IN
  /\ pc[t] = "queue"
  /\ state # "CRASHED"
  /\ ~Full
  /\ flags' = [flags EXCEPT ![c] =
       @ \cup {"WAIT_ACK"}
         \cup (IF Defers THEN {"WAIT_PUSH"} ELSE {})
         \cup (IF "REQ_CFM" \in @ THEN {"WAIT_CFM"} ELSE {})]
  /\ tkn' = [tkn EXCEPT ![c] = next_tkn]
  /\ next_tkn' = next_tkn + 1
  /\ result' = [result EXCEPT ![c] = "EINTR"]
  /\ complete' = complete \ {c}
  /\ cmds' = Append(cmds, c)
  /\ queue_sz' = queue_sz + 1
  /\ pc' = [pc EXCEPT ![t] = IF Defers THEN AfterQueue(c) ELSE "push"]
  /\ UNCHANGED <<state, heap, reqid, a2eMsg, mine, ipcVars, fwVars, ghost>>

\* The push of a command that is not deferred: after the lock is given back.
QueuePush(t) ==
  /\ pc[t] = "push"
  /\ MsgPush(mine[t])
  /\ pc' = [pc EXCEPT ![t] = AfterQueue(mine[t])]
  /\ UNCHANGED <<mgrVars, heap, flags, reqid, tkn, result, complete, mine,
                 taken, ackIrq, work, ghost>>

\* A nonblocking caller writes and reads cmd->result without the lock, and
\* perhaps after cmd_complete has freed the block.
NoWait(t) ==
  /\ pc[t] = "nowait"
  /\ result' = [result EXCEPT ![mine[t]] = "OK"]
  /\ pc' = [pc EXCEPT ![t] = "idle"]
  /\ mine' = [mine EXCEPT ![t] = None]
  /\ UNCHANGED <<mgrVars, heap, flags, reqid, tkn, complete, a2eMsg, ipcVars,
                 fwVars, ghost>>

\* os_event_recv returns with the bit, which it clears.
Wake(t) ==
  /\ pc[t] = "wait" /\ mine[t] \in complete
  /\ complete' = complete \ {mine[t]}
  /\ pc' = [pc EXCEPT ![t] = "ret"]
  /\ UNCHANGED <<mgrVars, heap, flags, reqid, tkn, result, a2eMsg, mine,
                 ipcVars, fwVars, ghost>>

\* Mutant: the timer of a deferred command is not started.
TimeoutOfPushed(t) ==
  /\ pc[t] = "wait" /\ mine[t] \notin complete /\ mine[t] \notin a2eMsg
  /\ pc' = [pc EXCEPT ![t] = "expired"]
  /\ UNCHANGED <<mgrVars, cmdVars, mine, ipcVars, fwVars, ghost>>

\* os_event_recv times out: it returns without the bit.
Timeout(t) ==
  /\ pc[t] = "wait" /\ mine[t] \notin complete
  /\ pc' = [pc EXCEPT ![t] = "expired"]
  /\ UNCHANGED <<mgrVars, cmdVars, mine, ipcVars, fwVars, ghost>>

\* The critical section that follows a timeout.
Expire(t) ==
  LET c == mine[t] IN
  /\ pc[t] = "expired"
  /\ state' = "CRASHED"
  /\ \/ /\ "DONE" \notin flags[c]
        /\ CmdComplete(c, flags, [result EXCEPT ![c] = "ETIMEDOUT"])
     \/ /\ "DONE" \in flags[c]
        /\ CmdKeep(flags)
  /\ pc' = [pc EXCEPT ![t] = "ret"]
  /\ UNCHANGED <<next_tkn, reqid, tkn, a2eMsg, mine, ipcVars, fwVars, ghost>>

\* cmd_mgr_queue returns; bl_send_msg frees the command.
Return(t) ==
  /\ pc[t] = "ret"
  /\ heap' = [heap EXCEPT ![mine[t]] = "freed"]
  /\ pc' = [pc EXCEPT ![t] = "idle"]
  /\ mine' = [mine EXCEPT ![t] = None]
  /\ UNCHANGED <<mgrVars, flags, reqid, tkn, result, complete, a2eMsg, ipcVars,
                 fwVars, ghost>>

-------------------------------------------------------------------------------
(***************************************************************************)
(* The driver's bottom half                                                *)
(***************************************************************************)

\* ipc_host_msgack_handler up to its callback: no lock is held.
MsgAck ==
  /\ ackIrq /\ taken = None
  /\ ackIrq' = FALSE
  /\ taken' = hostid
  /\ hostid' = None
  /\ UNCHANGED <<mgrVars, cmdVars, taskVars, trigger, msgBuf, work, ghost>>

\* The scan of cmd_mgr_llind stops at the first WAIT_PUSH command that is
\* not the acknowledged one; both results are sets of at most one position.
AckedPos ==
  {i \in 1 .. Len(cmds) :
     /\ tkn[cmds[i]] = tkn[taken]
     /\ \A j \in 1 .. i - 1 : /\ tkn[cmds[j]] # tkn[taken]
                              /\ "WAIT_PUSH" \notin flags[cmds[j]]}

\* Mutants: the scan ends at the acknowledged command; it takes the last one.
NextPosNone == {}
NextPosLast ==
  {i \in (1 .. Len(cmds)) \ AckedPos :
     /\ "WAIT_PUSH" \in flags[cmds[i]]
     /\ \A j \in (i + 1 .. Len(cmds)) \ AckedPos : "WAIT_PUSH" \notin flags[cmds[j]]}

NextPos ==
  {i \in (1 .. Len(cmds)) \ AckedPos :
     /\ "WAIT_PUSH" \in flags[cmds[i]]
     /\ \A j \in (1 .. i - 1) \ AckedPos : "WAIT_PUSH" \notin flags[cmds[j]]}

\* cmd_mgr_llind, the block taken being live or freed with its token intact.
Llind ==
  LET acks == AckedPos # {}
      next == {cmds[i] : i \in NextPos}
      fl == [c \in Cmds |->
               flags[c] \ ((IF acks /\ c = taken THEN {"WAIT_ACK"} ELSE {})
                           \cup (IF c \in next THEN {"WAIT_PUSH"} ELSE {}))]
  IN
  /\ taken # None
  /\ taken' = None
  /\ IF acks /\ WaitComplete(fl[taken])
       THEN CmdComplete(taken, fl, result)
       ELSE CmdKeep(fl)
  /\ \/ /\ next = {}
        /\ UNCHANGED <<hostid, msgBuf, trigger, a2eMsg>>
     \/ \E n \in next : MsgPush(n)
  /\ UNCHANGED <<state, next_tkn, reqid, tkn, taskVars, ackIrq, work, ghost>>

\* cmd_mgr_llind on a freed block another allocation has overwritten with
\* what looks like the token of a listed command: it completes the garbage
\* and list_del writes through it.  Nothing can be said of what follows.
LlindCorrupt ==
  /\ taken # None
  /\ heap[taken] = "freed" /\ cmds # <<>>
  /\ fault' = TRUE
  /\ UNCHANGED <<mgrVars, cmdVars, taskVars, ipcVars, fwVars, cfmOf>>

\* Mutant: the youngest waiting command takes the confirmation.
TakerPosYoungest(id) ==
  LET waits(i) == reqid[cmds[i]] = id /\ "WAIT_CFM" \in flags[cmds[i]] IN
  {i \in 1 .. Len(cmds) : waits(i) /\ \A j \in i + 1 .. Len(cmds) : ~waits(j)}

\* The first listed command that waits for the confirmation id.
TakerPos(id) ==
  LET waits(i) == reqid[cmds[i]] = id /\ "WAIT_CFM" \in flags[cmds[i]] IN
  {i \in 1 .. Len(cmds) : waits(i) /\ \A j \in 1 .. i - 1 : ~waits(j)}

\* The firmware confirms a command it has accepted (in order among those of
\* one id) and cmd_mgr_msgind gives the confirmation to the first listed
\* command that waits for this id.  No handler is registered for such ids.
MsgInd(k) ==
  LET id == reqid[work[k]] IN
  /\ k \in 1 .. Len(work)
  /\ \A j \in 1 .. k - 1 : reqid[work[j]] # id
  /\ work' = RemoveAt(work, k)
  /\ \/ /\ TakerPos(id) = {}
        /\ CmdKeep(flags)
        /\ UNCHANGED cfmOf
     \/ \E i \in TakerPos(id) :
          LET c == cmds[i]
              fl == [flags EXCEPT ![c] = @ \ {"WAIT_CFM"}]
          IN /\ cfmOf' = [cfmOf EXCEPT ![c] = work[k]]
             /\ IF WaitComplete(fl[c]) THEN CmdComplete(c, fl, result)
                                       ELSE CmdKeep(fl)
  /\ UNCHANGED <<state, next_tkn, reqid, tkn, a2eMsg, taskVars, ipcVars,
                 trigger, msgBuf, ackIrq, fault>>

(***************************************************************************)
(* The firmware (external): it takes the message out of the shared buffer, *)
(* raises the acknowledgement and remembers what it has to confirm.        *)
(***************************************************************************)
FwAccept ==
  /\ trigger
  /\ trigger' = FALSE
  /\ ackIrq' = TRUE
  /\ work' = IF "REQ_CFM" \in flags[msgBuf] THEN Append(work, msgBuf) ELSE work
  /\ UNCHANGED <<mgrVars, cmdVars, taskVars, ipcVars, msgBuf, ghost>>

-------------------------------------------------------------------------------
TaskStep(t) ==
  \/ QueueCrashed(t) \/ QueueFull(t) \/ QueueAdd(t) \/ QueuePush(t)
  \/ NoWait(t) \/ Wake(t) \/ Expire(t) \/ Return(t)

DriverStep == MsgAck \/ Llind \/ \E k \in 1 .. Len(work) : MsgInd(k)

Next ==
  /\ ~fault
  /\ \/ \E t \in Tasks, c \in Cmds, k \in Kinds : Send(t, c, k)
     \/ \E t \in Tasks : TaskStep(t) \/ Timeout(t)
     \/ DriverStep
     \/ LlindCorrupt
     \/ FwAccept

Spec == Init /\ [][Next]_vars

\* The scheduler runs every ready task.
TaskFair(t) == WF_vars(~fault /\ TaskStep(t))

SchedFairness == \A t \in Tasks : TaskFair(t)

\* The kernel's timer expires.
TimerFair(t) == WF_vars(~fault /\ (TaskStep(t) \/ Timeout(t)))

TimerFairness == \A t \in Tasks : TimerFair(t)

\* The firmware answers, and its task runs the bottom half.
AcceptFair == WF_vars(~fault /\ FwAccept)

BottomFair == WF_vars(~fault /\ (MsgAck \/ Llind))

Confirm(c) == \E k \in 1 .. Len(work) : work[k] = c /\ MsgInd(k)

CanConfirm(c) == ENABLED <<~fault /\ Confirm(c)>>_vars

ConfirmFair(c) == WF_vars(~fault /\ Confirm(c))

AnswerFairness ==
  /\ AcceptFair /\ BottomFair
  /\ \A c \in Cmds : ConfirmFair(c)

FairSpec == Spec /\ SchedFairness

-------------------------------------------------------------------------------
(***************************************************************************)
(* Properties                                                              *)
(***************************************************************************)

\* The type invariant of the command manager, its callers and the mailbox.
TypeOK ==
  /\ state \in {"DEINIT", "CRASHED"}
  /\ next_tkn \in Nat /\ queue_sz \in Nat
  /\ cmds \in Seq(Cmds)
  /\ heap \in [Cmds -> {"unused", "live", "freed"}]
  /\ flags \in [Cmds -> SUBSET Flags]
  /\ reqid \in [Cmds -> Ids]
  /\ tkn \in [Cmds -> Nat]
  /\ result \in [Cmds -> Results]
  /\ complete \subseteq Cmds /\ a2eMsg \subseteq Cmds
  /\ pc \in [Tasks -> {"idle", "queue", "push", "nowait", "wait", "expired", "ret"}]
  /\ mine \in [Tasks -> Cmds \cup {None}]
  /\ \A t \in Tasks : pc[t] # "idle" => mine[t] \in Cmds
  /\ hostid \in Cmds \cup {None} /\ taken \in Cmds \cup {None}
  /\ trigger \in BOOLEAN /\ ackIrq \in BOOLEAN
  /\ msgBuf \in Cmds \cup {None} /\ (trigger => msgBuf \in Cmds)
  /\ work \in Seq(Cmds)
  /\ cfmOf \in [Cmds -> Cmds \cup {None}]
  /\ fault \in BOOLEAN

\* queue_sz counts the list and never passes the limit, whatever mixture of
\* completions, timeouts and refusals has changed it (bl_cmds.c:51, 87, 128).
QueueBounded == queue_sz = Len(cmds) /\ queue_sz <= MaxQueued

\* ASSERT_ERR(!env->msga2e_hostid) of ipc_host_msg_push (ipc_host.c:146): no
\* push ever overwrites a message the firmware has not acknowledged, neither
\* the one cmd_mgr_queue makes without the lock nor the one of cmd_mgr_llind.
MailboxFree ==
  /\ \A t \in Tasks : pc[t] = "push" => hostid = None /\ ~trigger
  /\ taken # None => hostid = None /\ ~trigger
  /\ taken # None /\ NextPos # {} => \A t \in Tasks : pc[t] # "push"

\* ASSERT_ERR(hostid) of ipc_host_msgack_handler (ipc_host.c:203): the
\* firmware acknowledges only while the mailbox names a command.  And until
\* the manager has crashed this command is listed and waits for its
\* acknowledgement, so that cmd_mgr_llind never reads a freed block.
AckFindsCommand ==
  /\ ackIrq => hostid # None
  /\ \A c \in {hostid, taken} \ {None} :
       state # "CRASHED" => c \in Queued /\ "WAIT_ACK" \in flags[c] /\ heap[c] = "live"
  /\ fault => state = "CRASHED"

\* The block of a blocking caller is freed by the caller alone: whatever the
\* driver completes meanwhile, cmd_mgr_queue reads a live block after its wait.
CallerBlockLive ==
  \A t \in Tasks : pc[t] \in {"queue", "push", "wait", "expired", "ret"}
                      => heap[mine[t]] = "live"

\* Until the manager has crashed, a confirmation completes the very command
\* it answers, although cmd_mgr_msgind only compares message ids
\* (bl_cmds.c:255) and several listed commands may wait for the same id.
MatchedCfm == state # "CRASHED" => \A c \in Cmds : cfmOf[c] \in {None, c}

(***************************************************************************)
(* The inductive invariant behind the safety properties (CmdMgrProofs)     *)
(***************************************************************************)

\* The list: no command twice, none that is done, freed or waits for nothing.
ListInv ==
  /\ QueueBounded
  /\ \A i, j \in 1 .. Len(cmds) : cmds[i] = cmds[j] => i = j
  /\ \A c \in Queued : /\ heap[c] = "live"
                       /\ "DONE" \notin flags[c]
                       /\ ~WaitComplete(flags[c])
                       /\ c \notin complete

\* The list is a run of acknowledged commands, at most one that is pushed and
\* not acknowledged, and a run of deferred ones.
ChainInv ==
  /\ \A i, j \in 1 .. Len(cmds) :
       i < j /\ "WAIT_ACK" \in flags[cmds[i]] => "WAIT_PUSH" \in flags[cmds[j]]
  /\ \A c \in Queued : "WAIT_PUSH" \in flags[c] => "WAIT_ACK" \in flags[c] /\ c \in a2eMsg

Given == {c \in Cmds : heap[c] # "unused" /\ c \notin a2eMsg}

\* Tokens name commands, although cmd_mgr_llind compares nothing else.
TokenInv ==
  /\ \A c \in Queued \cup Given : tkn[c] < next_tkn
  /\ \A c, d \in Queued \cup Given : tkn[c] = tkn[d] => c = d

\* A task and its command.
TaskInv ==
  /\ \A t, u \in Tasks : t # u /\ pc[t] # "idle" /\ pc[u] # "idle" => mine[t] # mine[u]
  /\ \A t \in Tasks :
       /\ pc[t] # "idle" => heap[mine[t]] # "unused"
       /\ pc[t] = "queue" => /\ heap[mine[t]] = "live"
                             /\ mine[t] \notin Queued
                             /\ mine[t] \in a2eMsg
                             /\ flags[mine[t]] \subseteq {"NONBLOCK", "REQ_CFM"}
       /\ pc[t] = "push" => /\ mine[t] \in Queued
                            /\ mine[t] \in a2eMsg
                            /\ "WAIT_ACK" \in flags[mine[t]]
                            /\ "WAIT_PUSH" \notin flags[mine[t]]
       /\ pc[t] \in {"wait", "expired", "ret"} => /\ heap[mine[t]] = "live"
                                                  /\ "NONBLOCK" \notin flags[mine[t]]
       /\ pc[t] \in {"wait", "expired"} => mine[t] \in Queued \/ "DONE" \in flags[mine[t]]
       /\ pc[t] = "ret" => mine[t] \notin Queued

\* The mailbox, from the push to the end of cmd_mgr_llind.
MailInv ==
  /\ trigger => hostid # None /\ msgBuf = hostid /\ ~ackIrq
  /\ ackIrq => hostid # None
  /\ hostid # None => taken = None
  /\ \A t \in Tasks : pc[t] = "push" => hostid = None /\ taken = None
  /\ \A c \in {hostid, taken} \ {None} :
       /\ c \in Given
       /\ c \in Queued => "WAIT_ACK" \in flags[c] /\ "WAIT_PUSH" \notin flags[c]
       /\ c \notin Queued => state = "CRASHED"
  /\ \A c \in Queued : "WAIT_ACK" \in flags[c] /\ "WAIT_PUSH" \notin flags[c] =>
       c = hostid \/ c = taken \/ \E t \in Tasks : pc[t] = "push" /\ mine[t] = c
  /\ fault => state = "CRASHED"

\* The whole of it: what the listed commands wait for, where the mailbox is
\* and which blocks are alive hold together at every step.
IInv == TypeOK /\ ListInv /\ ChainInv /\ TokenInv /\ TaskInv /\ MailInv

(***************************************************************************)
(* The invariant behind MatchedCfm and ResultTruth (CmdMgrProofs)          *)
(***************************************************************************)
Before(c, d) == \E i, j \in 1 .. Len(cmds) : i < j /\ cmds[i] = c /\ cmds[j] = d

Accepted(c) == c \in Given /\ ~(trigger /\ msgBuf = c)

\* What the firmware has still to confirm is listed and waits for it, in the
\* order of the list.
WorkListed ==
  /\ \A k \in 1 .. Len(work) : /\ work[k] \in Queued /\ Accepted(work[k])
                               /\ "WAIT_CFM" \in flags[work[k]]
  /\ \A i, j \in 1 .. Len(work) : i < j => Before(work[i], work[j])

\* A listed command waits for a confirmation if it asked for one, and as soon as it is
\* accepted the firmware has to give it.
ListedOwed ==
  \A c \in Queued :
    /\ "WAIT_CFM" \in flags[c] /\ Accepted(c) => \E k \in 1 .. Len(work) : work[k] = c
    /\ "WAIT_CFM" \in flags[c] => "REQ_CFM" \in flags[c]
    /\ "REQ_CFM" \in flags[c] /\ ~Accepted(c) => "WAIT_CFM" \in flags[c]
    /\ c \in a2eMsg => "WAIT_ACK" \in flags[c]

\* Until a crash the firmware owes confirmations to exactly those that wait.
OwedInv == state # "CRASHED" => WorkListed /\ ListedOwed /\ MatchedCfm

\* What a blocking command holds, from the list to the return of its caller.
ResultHeld(t) ==
  LET c == mine[t] IN
  pc[t] \in {"push", "wait", "expired", "ret"} /\ "NONBLOCK" \notin flags[c] =>
    /\ "REQ_CFM" \in flags[c] /\ "WAIT_CFM" \notin flags[c] => cfmOf[c] # None
    /\ c \in Queued => result[c] # "OK"
    /\ c \notin Queued => (result[c] = "OK" <=> WaitComplete(flags[c]))

ResultInv == \A t \in Tasks : ResultHeld(t)

AnswerInv == OwedInv /\ ResultInv

\* When a blocking caller is about to return, cmd->result says what happened:
\* 0 only if nothing is awaited and the confirmation asked for has come.
ResultTruth ==
  \A t \in Tasks : pc[t] = "ret" =>
    LET c == mine[t] IN
    (result[c] = "OK") <=> (/\ WaitComplete(flags[c])
                            /\ "REQ_CFM" \in flags[c] => cfmOf[c] # None)

\* Every call of bl_send_msg returns, even if the firmware never answers: it
\* waits with a time limit (bl_cmds.c:139).
Returns == TimerFairness => \A t \in Tasks : pc[t] # "idle" ~> (pc[t] = "idle" \/ fault)

\* Inside a call of bl_send_msg nothing but the firmware and the clock holds a
\* task up: it has a step of its own, or its wait can time out. And nothing holds
\* up the bottom half: it can take every acknowledgement and the first
\* confirmation that is due, whatever has become of their commands.
CanStep ==
  ~fault =>
    /\ \A t \in Tasks :
         /\ pc[t] # "idle" => ENABLED <<~fault /\ (TaskStep(t) \/ Timeout(t))>>_vars
         /\ pc[t] \notin {"idle", "wait"} => ENABLED <<~fault /\ TaskStep(t)>>_vars
    /\ trigger => ENABLED <<~fault /\ FwAccept>>_vars
    /\ ackIrq \/ taken # None => ENABLED <<~fault /\ (MsgAck \/ Llind)>>_vars
    /\ \A c \in Cmds : work # <<>> /\ Head(work) = c => CanConfirm(c)

\* With a firmware that answers, a listed command leaves the list without the
\* help of its timeout: no deferred push is forgotten, no wake-up lost.
Answered ==
  AnswerFairness => \A c \in Cmds : c \in Queued ~> (c \notin Queued \/ state = "CRASHED")

Waits(c) == "WAIT_PUSH" \in flags[c] \/ \E t \in Tasks : pc[t] = "push" /\ mine[t] = c

\* The listed commands behind the last one that does not wait for its push:
\* there is no other that waits.
Waiting ==
  SubSeq(cmds, Max({0} \cup {i \in 1 .. Len(cmds) : ~Waits(cmds[i])}) + 1, Len(cmds))

\* What the mailbox promises: commands are handed over one at a time, each at
\* most once, in the order in which they were queued (CmdChannel).
Channel == INSTANCE CmdChannel
  WITH open <- state # "CRASHED", waiting <- Waiting, box <- hostid, given <- Given

ImplementsChannel == Channel!Spec
===============================================================================
