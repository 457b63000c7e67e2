--------------------------------- MODULE TxPath ---------------------------------
(***************************************************************************)
(* The transmit path of the Wi-Fi driver: packets lwIP hands over          *)
(* (bl_tx.c) wait in a list for one of the descriptors shared with the     *)
(* firmware (ipc_host.c), are confirmed in the bottom half (bl_irqs.c) and *)
(* are sent again when the firmware gave up on them.                       *)
(***************************************************************************)
EXTENDS Integers, Sequences, SequencesExt

CONSTANTS Packets,    \* the pbufs lwIP sends
          Tasks,      \* the tasks lwIP sends from
          None,
          Cnt,        \* NX_TXDESC_CNT0
          HodlerLen,  \* TXHDR_HODLER_LEN
          IdxMod,     \* the width of the indices, 2^32
          MaxOther    \* bound on the interrupts that confirm nothing

ASSUME PacketsAssumption == None \notin Packets
ASSUME MasksAssumption ==
  /\ Cnt \in Nat \ {0} /\ HodlerLen \in Nat \ {0} /\ IdxMod \in Nat
  /\ Cnt < IdxMod /\ IdxMod % Cnt = 0
ASSUME OtherAssumption == MaxOther \in Nat

VARIABLES
  queue,              \* tx_list_bl
  hostId,             \* tx_host_id
  freeIdx, usedIdx,
  hodler,             \* txhdr_hodler from txhdr_pos_r up to txhdr_pos_w
  status,             \* txhdr->status: "none" is 0, "retry" has the retry bit
  refs,               \* the references the driver holds on a pbuf
  fw,                 \* the packets the firmware is sending
  fwIrq,              \* it has set a status and not yet raised TXCFM
  raw, irqOn,         \* the raw status of the interrupts, and their mask
  event,              \* what the firmware's task waits for
  bh, st,             \* where that task is in bl_main_event_handle; status
  pc,                 \* where the sending tasks are in bl_output
  others

ring == <<hostId, freeIdx, usedIdx>>
irqs == <<raw, irqOn, event>>
firmware == <<fw, fwIrq, others>>
vars == <<queue, ring, hodler, status, refs, firmware, irqs, bh, st, pc>>

-------------------------------------------------------------------------------
\* How an index goes on.
Inc(i) == (i + 1) % IdxMod

\* The distance of two indices, as unsigned arithmetic computes it.
Gap(hi, lo) == (hi - lo) % IdxMod

Desc(i) == i % Cnt

\* Mutant: the limit is passed.
FullLate == freeIdx = (usedIdx + Cnt + 1) % IdxMod

\* ipc_host_txdesc_get
Full == freeIdx = (usedIdx + Cnt) % IdxMod

\* bl_tx_push
Push(p) ==
  /\ hostId' = [hostId EXCEPT ![Desc(freeIdx)] = p]
  /\ freeIdx' = Inc(freeIdx)
  /\ fw' = fw \cup {p}
  /\ UNCHANGED <<usedIdx, fwIrq, others>>

Init ==
  /\ queue = <<>>
  /\ hostId = [i \in 0 .. Cnt - 1 |-> None]
  /\ freeIdx = 0 /\ usedIdx = 0
  /\ hodler = <<>>
  /\ status = [p \in Packets |-> "none"]
  /\ refs = [p \in Packets |-> 0]
  /\ fw = {} /\ fwIrq = FALSE /\ others = 0
  /\ raw = {} /\ irqOn = TRUE /\ event = FALSE
  /\ bh = "wait" /\ st = {}
  /\ pc = [t \in Tasks |-> "idle"]

-------------------------------------------------------------------------------
(***************************************************************************)
(* bl_output                                                               *)
(***************************************************************************)

\* What bl_irq_handler does, from an interrupt or from a task (external).
IrqHandler == irqOn' = FALSE /\ event' = TRUE

\* Take a reference and queue the packet; bl_tx_resend and bl_tx_try_flush
\* exclude it.  lwIP does not send a pbuf the driver still refers to.
Output(t, p) ==
  /\ pc[t] = "idle"
  /\ refs[p] = 0
  /\ bh \notin {"resend", "flush"}
  /\ status' = [status EXCEPT ![p] = "none"]
  /\ refs' = [refs EXCEPT ![p] = @ + 1]
  /\ queue' = Append(queue, p)
  /\ pc' = [pc EXCEPT ![t] = "queued"]
  /\ UNCHANGED <<ring, hodler, firmware, irqs, bh, st>>

\* Mutant: the firmware's task is not told.
OutputSilent(t) ==
  /\ pc[t] = "queued"
  /\ pc' = [pc EXCEPT ![t] = "idle"]
  /\ UNCHANGED <<queue, ring, hodler, status, refs, firmware, irqs, bh, st>>

OutputIrq(t) ==
  /\ pc[t] = "queued"
  /\ IrqHandler
  /\ pc' = [pc EXCEPT ![t] = "idle"]
  /\ UNCHANGED <<queue, ring, hodler, status, refs, firmware, raw, bh, st>>

-------------------------------------------------------------------------------
(***************************************************************************)
(* The firmware (external)                                                 *)
(***************************************************************************)

\* It is done with a packet, and raises the interrupt after that.
FwStatus(p, s) ==
  /\ p \in fw
  /\ fw' = fw \ {p}
  /\ status' = [status EXCEPT ![p] = s]
  /\ fwIrq' = TRUE
  /\ UNCHANGED <<queue, ring, hodler, refs, irqs, bh, st, pc, others>>

FwRaise ==
  /\ fwIrq
  /\ fwIrq' = FALSE
  /\ raw' = raw \cup {"TXCFM"}
  /\ UNCHANGED <<queue, ring, hodler, status, refs, fw, others, irqOn, event, bh, st, pc>>

\* It raises another interrupt.
FwOther ==
  /\ others < MaxOther
  /\ others' = others + 1
  /\ raw' = raw \cup {"OTHER"}
  /\ UNCHANGED <<queue, ring, hodler, status, refs, fw, fwIrq, irqOn, event, bh, st, pc>>

Isr ==
  /\ irqOn /\ raw # {}
  /\ IrqHandler
  /\ UNCHANGED <<queue, ring, hodler, status, refs, firmware, raw, bh, st, pc>>

-------------------------------------------------------------------------------
(***************************************************************************)
(* The firmware's task in bl_main_event_handle                             *)
(***************************************************************************)

Wake ==
  /\ bh = "wait" /\ event
  /\ event' = FALSE
  /\ bh' = "status"
  /\ UNCHANGED <<queue, ring, hodler, status, refs, firmware, raw, irqOn, st, pc>>

\* ipc_host_get_rawstatus, and ipc_host_irq clears what it has read.
Status ==
  /\ bh = "status"
  /\ st' = raw
  /\ raw' = {}
  /\ bh' = IF raw = {} THEN "enable" ELSE "reload"
  /\ UNCHANGED <<queue, ring, hodler, status, refs, firmware, irqOn, event, pc>>

\* It reads the status once more, as the mask leaves it.
Reload ==
  /\ bh = "reload"
  /\ st' = {}
  /\ bh' = IF "TXCFM" \in st \/ (irqOn /\ "TXCFM" \in raw) THEN "cfm" ELSE "resend"
  /\ UNCHANGED <<queue, ring, hodler, status, refs, firmware, irqs, pc>>

\* The packet of the oldest descriptor; None if there is none.
Oldest == hostId[Desc(usedIdx)]

\* ipc_host_tx_cfm_handler meets no packet, or one still being sent.
CfmEnd ==
  /\ bh = "cfm"
  /\ Oldest # None => status[Oldest] = "none"
  /\ bh' = "resend"
  /\ UNCHANGED <<queue, ring, hodler, status, refs, firmware, irqs, st, pc>>

\* The packet was sent.
CfmFree ==
  /\ bh = "cfm"
  /\ Oldest # None /\ status[Oldest] = "done"
  /\ refs' = [refs EXCEPT ![Oldest] = @ - 1]
  /\ bh' = "next"
  /\ UNCHANGED <<queue, ring, hodler, status, firmware, irqs, st, pc>>

\* Mutant: the list is taken for full while there is room.
HodlerFullSoon == Len(hodler) = HodlerLen - 2

\* One place stays empty.
HodlerFull == Len(hodler) = HodlerLen - 1

\* The firmware gave up: keep the packet to send it again.
CfmHold ==
  /\ bh = "cfm"
  /\ Oldest # None /\ status[Oldest] = "retry"
  /\ ~HodlerFull
  /\ hodler' = Append(hodler, Oldest)
  /\ bh' = "next"
  /\ UNCHANGED <<queue, ring, status, refs, firmware, irqs, st, pc>>

\* Mutant: the packet is forgotten.
CfmDropLeak ==
  /\ bh = "cfm"
  /\ Oldest # None /\ status[Oldest] = "retry"
  /\ HodlerFull
  /\ bh' = "next"
  /\ UNCHANGED <<queue, ring, hodler, status, refs, firmware, irqs, st, pc>>

\* There is no room to keep it.
CfmDrop ==
  /\ bh = "cfm"
  /\ Oldest # None /\ status[Oldest] = "retry"
  /\ HodlerFull
  /\ refs' = [refs EXCEPT ![Oldest] = @ - 1]
  /\ bh' = "next"
  /\ UNCHANGED <<queue, ring, hodler, status, firmware, irqs, st, pc>>

\* The descriptor is free.
CfmNext ==
  /\ bh = "next"
  /\ hostId' = [hostId EXCEPT ![Desc(usedIdx)] = None]
  /\ usedIdx' = Inc(usedIdx)
  /\ bh' = "cfm"
  /\ UNCHANGED <<queue, freeIdx, hodler, status, refs, firmware, irqs, st, pc>>

\* Mutant: the status the firmware left is not reset.
ResendStale ==
  /\ bh = "resend" /\ hodler # <<>> /\ ~Full
  /\ Push(Head(hodler))
  /\ hodler' = Tail(hodler)
  /\ UNCHANGED <<queue, status, refs, irqs, bh, st, pc>>

\* bl_tx_resend
Resend ==
  /\ bh = "resend" /\ hodler # <<>> /\ ~Full
  /\ status' = [status EXCEPT ![Head(hodler)] = "none"]
  /\ Push(Head(hodler))
  /\ hodler' = Tail(hodler)
  /\ UNCHANGED <<queue, refs, irqs, bh, st, pc>>

ResendEnd ==
  /\ bh = "resend"
  /\ hodler = <<>> \/ Full
  /\ bh' = "status"
  /\ UNCHANGED <<queue, ring, hodler, status, refs, firmware, irqs, st, pc>>

\* No interrupt is pending: enable them, and look again.
Enable ==
  /\ bh = "enable"
  /\ irqOn' = TRUE
  /\ bh' = "recheck"
  /\ UNCHANGED <<queue, ring, hodler, status, refs, firmware, raw, event, st, pc>>

Recheck ==
  /\ bh = "recheck"
  /\ bh' = IF raw = {} THEN "flush" ELSE "status"
  /\ UNCHANGED <<queue, ring, hodler, status, refs, firmware, irqs, st, pc>>

\* Mutant: the youngest packet is taken.
FlushLast ==
  /\ bh = "flush" /\ ~Full /\ queue # <<>>
  /\ Push(Last(queue))
  /\ queue' = Front(queue)
  /\ UNCHANGED <<hodler, status, refs, irqs, bh, st, pc>>

\* bl_tx_try_flush
Flush ==
  /\ bh = "flush" /\ ~Full /\ queue # <<>>
  /\ Push(Head(queue))
  /\ queue' = Tail(queue)
  /\ UNCHANGED <<hodler, status, refs, irqs, bh, st, pc>>

\* Mutant: one packet at a time.
FlushEndSoon ==
  /\ bh = "flush"
  /\ bh' = "wait"
  /\ UNCHANGED <<queue, ring, hodler, status, refs, firmware, irqs, st, pc>>

FlushEnd ==
  /\ bh = "flush"
  /\ Full \/ queue = <<>>
  /\ bh' = "wait"
  /\ UNCHANGED <<queue, ring, hodler, status, refs, firmware, irqs, st, pc>>

-------------------------------------------------------------------------------
BhStep ==
  \/ Wake \/ Status \/ Reload
  \/ CfmEnd \/ CfmFree \/ CfmHold \/ CfmDrop \/ CfmNext
  \/ Resend \/ ResendEnd \/ Enable \/ Recheck \/ Flush \/ FlushEnd

Next ==
  \/ \E t \in Tasks : OutputIrq(t) \/ \E p \in Packets : Output(t, p)
  \/ \E p \in Packets, s \in {"done", "retry"} : FwStatus(p, s)
  \/ FwRaise \/ FwOther \/ Isr
  \/ BhStep

Spec == Init /\ [][Next]_vars

\* The tasks and the interrupt run; the firmware answers, and sends every
\* packet it is given again and again some day.
Fairness ==
  /\ \A t \in Tasks : WF_vars(OutputIrq(t))
  /\ WF_vars(BhStep) /\ WF_vars(Isr) /\ WF_vars(FwRaise)
  /\ \A p \in Packets :
       /\ WF_vars(FwStatus(p, "done") \/ FwStatus(p, "retry"))
       /\ SF_vars(FwStatus(p, "done"))

FairSpec == Spec /\ Fairness

-------------------------------------------------------------------------------
(***************************************************************************)
(* Properties                                                              *)
(***************************************************************************)

Indices == 0 .. IdxMod - 1
BhStates == {"wait", "status", "reload", "cfm", "next", "resend", "enable", "recheck", "flush"}

\* The type invariant: a reference is given back once, and the indices wrap.
TypeOK ==
  /\ queue \in Seq(Packets)
  /\ hostId \in [0 .. Cnt - 1 -> Packets \cup {None}]
  /\ freeIdx \in Indices /\ usedIdx \in Indices
  /\ hodler \in Seq(Packets) /\ Len(hodler) < HodlerLen
  /\ status \in [Packets -> {"none", "done", "retry"}]
  /\ refs \in [Packets -> {0, 1}]
  /\ fw \subseteq Packets /\ fwIrq \in BOOLEAN
  /\ raw \subseteq {"TXCFM", "OTHER"} /\ st \subseteq {"TXCFM", "OTHER"}
  /\ irqOn \in BOOLEAN /\ event \in BOOLEAN
  /\ bh \in BhStates
  /\ pc \in [Tasks -> {"idle", "queued"}]
  /\ others \in Nat

\* The descriptors in use, and the one of them that is about to be free.
Used == {Desc(usedIdx + k) : k \in 0 .. Gap(freeIdx, usedIdx) - 1}
Leaving == IF bh = "next" THEN {Desc(usedIdx)} ELSE {}

\* The places a packet is in: the list, the descriptors, the hodler.
Places(p) ==
  {<<"queue", k>> : k \in {k \in 1 .. Len(queue) : queue[k] = p}}
  \cup {<<"ring", i>> : i \in {i \in Used \ Leaving : hostId[i] = p}}
  \cup {<<"hodler", i>> : i \in {i \in 1 .. Len(hodler) : hodler[i] = p}}

\* A packet the driver refers to is in one place, and in none when the
\* reference is given back.
OnePlace ==
  \A p \in Packets :
    IF refs[p] = 0 THEN Places(p) = {} ELSE \E x \in Places(p) : Places(p) = {x}

\* The ring never has more in use than there are descriptors (the endless
\* loop at ipc_host.c:297), and a descriptor names a packet iff it is in use.
RingSound ==
  /\ Gap(freeIdx, usedIdx) <= Cnt
  /\ \A i \in 0 .. Cnt - 1 : hostId[i] # None <=> i \in Used

\* What the firmware is sending, the driver keeps in a descriptor.
FwOwns ==
  \A p \in fw : refs[p] = 1 /\ status[p] = "none" /\ \E i \in Used \ Leaving : hostId[i] = p

\* When the firmware's task sleeps, all it has left to do will wake it.
Quiet ==
  bh = "wait" /\ ~event =>
    /\ irqOn
    /\ hodler = <<>>
    /\ queue # <<>> => Full \/ \E t \in Tasks : pc[t] = "queued"
    /\ Oldest # None /\ status[Oldest] # "none" => fwIrq \/ "TXCFM" \in raw

(***************************************************************************)
(* The inductive invariant (TxPathProofs)                                  *)
(***************************************************************************)

Distinct(s) == \A i, j \in 1 .. Len(s) : s[i] = s[j] => i = j

InQueue == {queue[k] : k \in 1 .. Len(queue)}
InHodler == {hodler[k] : k \in 1 .. Len(hodler)}
InRing == {hostId[i] : i \in Used \ Leaving}

\* No packet is twice in a list, none in two of them, and those that are in
\* one are those the driver refers to.
ListsInv ==
  /\ Distinct(queue) /\ Distinct(hodler)
  /\ \A i, j \in Used \ Leaving : hostId[i] = hostId[j] => i = j
  /\ InQueue \cap InHodler = {}
  /\ InRing \cap (InQueue \cup InHodler) = {}
  /\ \A p \in Packets : refs[p] = 1 <=> p \in InQueue \cup InRing \cup InHodler
  /\ \A p \in InQueue : status[p] = "none"
  /\ \A p \in InHodler : status[p] = "retry"
  /\ bh = "next" => Gap(freeIdx, usedIdx) > 0

\* All that is kept to be sent again finds a descriptor before the task goes
\* on: it came from one.
RoomInv ==
  /\ Len(hodler) + Gap(freeIdx, usedIdx) <= IF bh = "next" THEN Cnt + 1 ELSE Cnt
  /\ bh \notin {"cfm", "next", "resend"} => hodler = <<>>

\* What there is to do, wherever the firmware's task is.
WakeInv ==
  /\ bh \in {"wait", "recheck", "flush"} /\ ~event => irqOn
  /\ bh = "wait" /\ ~event /\ queue # <<>> => Full \/ \E t \in Tasks : pc[t] = "queued"
  /\ Oldest # None /\ status[Oldest] # "none" =>
       \/ fwIrq \/ "TXCFM" \in raw
       \/ bh = "reload" /\ "TXCFM" \in st
       \/ bh \in {"cfm", "next"}

IInv == TypeOK /\ RingSound /\ ListsInv /\ FwOwns /\ RoomInv /\ WakeInv

\* Every packet handed over is sent, also after the firmware has given it up,
\* and given back after that: none is left waiting, and none is dropped unsent.
Delivered ==
  /\ \A p \in Packets :
       /\ refs[p] = 1 ~> refs[p] = 1 /\ status[p] = "done"
       /\ refs[p] = 1 /\ status[p] = "done" ~> refs[p] = 0
  /\ [][\A p \in Packets : refs[p] = 1 /\ refs'[p] = 0 => status[p] = "done"]_vars

\* Packets are only dropped when there may be more of them than places.
Service == INSTANCE TxService
  WITH MayDrop <- HodlerLen <= Cnt,
       waiting <- queue,
       sending <- {p \in Packets : refs[p] = 1 /\ p \notin Range(queue) /\ status[p] # "done"},
       sent <- {p \in Packets : refs[p] = 1 /\ p \notin Range(queue) /\ status[p] = "done"}

ImplementsTxService == Service!Spec
===============================================================================
