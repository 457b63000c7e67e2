# bl602_iot_sdk: models, model checking and proofs

TLA+ modules for the parts of the BL602 IoT SDK in which the order of steps
matters: who may touch what, what a reset leaves behind, what a timeout may
still meet. Every definition is taken from the C sources; `PROJECT.json` names
the lines each one stands for. The modules keep the control of the code and
abstract its data: messages, images and packets are members of small sets.

Run a model with `tlc -config <cfg> <module>`, check the proofs with
`tlapm <module>.tla`.

## 1. Inventory

The repository is an SDK for a Wi-Fi and BLE chip: vendor drivers and glue
around FreeRTOS, lwIP, a BLE stack and two binary firmware libraries. Most of
its lines are third-party or generated (register headers, lwIP, the BLE host,
xz, AWS IoT). What follows is the logic of the SDK itself.

| part | state it keeps | operations | interacts with | hard behaviour | what makes it correct |
|---|---|---|---|---|---|
| Wi-Fi command manager (`bl_cmds.c`, `bl_msg_tx.c`, A2E half of `ipc_host.c`) | list of commands, counter, tokens, crashed flag, one mailbox | send, defer, push, acknowledge, confirm, time out | host tasks, the driver's bottom half, the firmware | timeouts racing completions, a push outside the lock, freed blocks named by late acknowledgements | no overwritten mailbox, no answer to the wrong command, bounded list, every call returns |
| Transmit path (`bl_tx.c`, `ipc_host.c`) | packet list, four descriptors, retry holder | output, flush, push, confirm, resend | lwIP task, firmware interrupts | interleaving of interrupt and task, holder overflow, index wrap | a packet is in one place and is released once |
| Receive and events (`bl_rx.c`, `bl_main.c`, `bl_utils.c`) | station and interface tables | translate firmware messages | firmware, connection manager | late events | tables agree with the firmware |
| Connection manager (`wifi_mgmr.c`, `stateMachine.c`) | state machine, profile, timers, pending scan, queue of ten messages | connect, disconnect, scan, AP start and stop, reconnect | application tasks, timers, driver events | events in states that do not expect them, timers that fire after leaving a state | it believes of the link what the firmware knows, keeps retrying while wanted, and no attempt hangs |
| Partition tables (`partition.c`, `bl_boot2.c`, `hal_boot2.c`) | two tables in flash, a copy in memory | choose, update | boot loader, updater | reset between erase and write | one valid table at every moment, the newer one wins |
| Boot loader (`blsp_boot2.c`, `blsp_boot_decompress.c`, `blsp_media_boot.c`) | table in memory, rollback and temporary-mode flags | select, decompress, verify, roll back, jump | flash, HBN registers, application | reset during decompression, flawed image, rollback of a rollback | it always gets to an image if one is left |
| Updater (`bl_sys_ota_cli.c`, `bl_mtd.c`) | block buffer, offsets, digest | open, erase, receive, commit | TCP, flash, tables | segmentation of the stream, loss of the connection, reset | the running image is never touched, updates are atomic |
| Event loop of the firmware (`bloop_base.c`, `looprt.c`, `loopset_led.c`, `loopset_ir.c`, `bl_ir.c`) | two bitmaps of events, the types posted for each, ordered timers, due timers | post from tasks and interrupts, register timers, handle | all tasks, the infrared receiver | posts between the copy of the bitmap and the sleep, timers linked without a lock | nothing posted is slept over or lost, timers fire in order, no event starves |
| Event loop of the applications (`yloop.c`, `local_event.c`, `device.c`, `select.c`, `vfs_uart.c`) | polled devices, delayed actions, the event device and its cache of buffers, the stream buffer of the console | post, delay, cancel, poll, dispatch | tasks of the application, the interrupt of the UART | the semaphore of a poll lives on the stack of the loop; devices signal it from elsewhere | nobody signals a poll that is over, nothing to read is slept over |
| Timers and buttons (`hal_hwtimer.c`, `hal_button.c`) | ordered list, press state | add, delete, expire | interrupt, event loop | deletion while expiring | fires once, classification is exclusive |
| Ring buffer, containers, memory pool (`ring_buffer.c`, `components/utils`) | indices, links | read, write, insert, remove | drivers | wrap-around, full against empty | first in, first out, nothing lost |
| BLE provisioning (`blsync_ble`) | sequence numbers, fragments | send, receive | BLE stack | reordering, retransmission | messages reassembled exactly |
| DHCP server, file descriptors (`dhcp_server_raw.c`, `vfs`) | leases, inode and descriptor tables | offer, release; open, close | lwIP; tasks | reuse, exhaustion | an address or a descriptor has one owner |

`PROJECT.json` lists all parts with the ones that are not modelled and why,
and under `hazards` what in the modelled parts a test would hardly reach, at
its line.

## 2. Plan

1. `CmdMgr`, implementing `CmdChannel`, with proofs: the command manager is
   what every Wi-Fi operation of the SDK goes through. Done.
2. `FwUpdate`, implementing `AtomicUpdate`, with proofs: tables, boot loader and
   updater composed, because their promise (there is always something to boot)
   is one of all three together. Done.
3. `TxPath`, implementing `TxService`, with proofs: the other way in which host
   tasks, the bottom half and the firmware share memory. Done.
4. `OtaStream`, with proofs: how the updater cuts the stream that `FwUpdate`
   takes as one file. Done.
5. `WifiMgmr`, implementing `StationLink`, with proofs: the station's state machine, fed by four tasks and two
   timers. The station is done. The access point shares its queue and its
   interface table; what a stale interface index does (`wifi_mgmr.c:548`) depends on the
   firmware library, so it needs a model of that first.
6. `Bloop`, implementing `EventService`, and `Yloop`, implementing `DispatchService`, with proofs: posting,
   priorities, timers and polling of the two event loops. Done.
7. `MgmrQueue`: the message buffer of the connection manager, with several
   writers, a full queue, and the TCP/IP thread blocked on it.
8. `HwTimer` and `Button`, `RingBuffer` implementing a bounded FIFO queue, `Transfer`
   (BLE provisioning), `DhcpLeases`, `VfsTable`, and pure modules for the containers
   (memory pool, list, red-black tree).

## 3. Modules

### CmdMgr, CmdChannel, ListLemmas, CmdMgrProofs, MCCmdMgr

`CmdMgr` is the command manager with its callers, the mailbox and the
firmware's side of it.

* A task in `pc` goes through `bl_send_msg` (`Send`, `Return`) and
  `cmd_mgr_queue` (`QueueCrashed`, `QueueFull`, `QueueAdd`, `QueuePush`, `NoWait`,
  `Wake`, `Timeout`, `Expire`). A critical section of `cmd_mgr->lock` is one step;
  what happens between two of them (the push after the lock is given back, the
  wait) is a step of its own.
* The bottom half, one task that serves the interrupt, is `MsgAck` (the
  acknowledgement up to `cmd_mgr_llind`), `Llind` and `MsgInd`.
  `cmd_complete` is the operator `CmdComplete`, used by both, with its two
  outcomes: free the block (non-blocking) or post the event (blocking).
* A command is its heap block. Every allocation has an identity of its own, so
  that a freed block is told from the next one at the same address.
  `LlindCorrupt` is what the code may do when an acknowledgement names a freed
  block that another allocation has overwritten, which happens only after a timeout
  has crashed the manager: it writes through garbage. `fault` records it, and the model
  ends there.
* The firmware is external: `FwAccept` takes the message and acknowledges; its
  confirmations of accepted commands reach `MsgInd` in any order, except that those
  of one message id keep theirs.

`QueuePush` is three things in one step, all done without the lock after the
command is in the list: the push into the mailbox, the release of the message
(`cmd->a2e_msg`), and the reading of the command's flags (`bl_cmds.c:133-137`). A
non-blocking command may be completed, and its block freed, between them, and before
`NoWait`, which writes its result. The model has that order for `NoWait`, since blocks have
identities, but records no fault for an access to a freed block there (section 6).

Left out: the early returns of `bl_send_msg` (no interface, no memory), the
contents of messages, `cmd_mgr_print` and `cmd_mgr_drain` (never called), the
wrap of the 32-bit token counter, and event messages that answer no command.
`ASSERT_ERR` expands to a print in this build, so a violated assertion goes on;
the invariants state the assertions.

`CmdChannel` is the promise to the firmware: a mailbox of one command, filled in
the order of queueing, each command at most once, closed for good when a caller
gives up. What waits there is the list of `CmdMgr` behind the last command that
does not wait for its push (`Waiting`).

### FwUpdate, AtomicUpdate, FwUpdateProofs, MCFwUpdate

`FwUpdate` composes the two tables (`tbl`, cut to their FW entry), the two regions
(`slot`), the boot loader and the application's updater. A step ends where a
reset could leave something else in flash: erase and write of a table are two
steps (`TableErase`, `TableWrite`), decompression is erase (`Inflate`), an
unfinished image (`InflateSome`) and the finished one (`InflateDone`). `Reset` may
come between any two; HBN_RSV0 survives some resets and not a power loss.

* Boot loader: `SelectNormal`, `SelectTemp`, `SelectNone` (choice of table and
  firmware, one round of the loop in `main`), `CheckRaw`, `CheckBroken`, `Inflate`
  (`BLSP_Boot2_Deal_One_FW` with the trial decompression of a build with
  rollback, which is what `bouffalo.mk` defines), `BootOk`, `BootTempFails`,
  `BootRollback`, `BootFails`.
* Updater: `OtaOpen`, `OtaReceive`, `OtaStop`, `OtaCommit`.
* An image has a kind (raw, compressed), whether all of it is there, and whether
  its hash or signature would be rejected (`Flawed`).

Left out: tables of other partitions; a second CPU (`blsp_port.c:247` returns one);
`BLSP_Boot2_Do_FW_Copy`, which needs an active index of two or more that nothing
sets; a second decompression that differs from the trial of the same bytes
(`blsp_boot2.c:217-220`); errors of the flash driver, which it does not report;
sizes of images; the ages are natural numbers (a 32-bit counter, raised by one
per update). The mfg image is raw, comes from outside and does no update.
`RequestMfg` is external: the boot loader reads a firmware name from HBN_RSV0, and
no code of the repository writes one.

`AtomicUpdate` is the promise: the release a reset starts changes in one step to
a new one, and a release that cannot be started gives way to the last that
could. The refinement maps `cur` to the region the tables choose and `safe` to
that region if it can be started, else to the other.

### TxPath, TxService, TxPathProofs, MCTxPath

`TxPath` follows a packet from `bl_output` to its release.

* A sending task takes a reference and queues the packet (`Output`, one critical
  section), then calls the interrupt handler (`OutputIrq`).
* The firmware's task runs `bl_main_event_handle`: `Wake`, `Status`, `Reload`, the
  confirmations (`CfmEnd`, `CfmFree`, `CfmHold`, `CfmDrop`, then `CfmNext`, since the
  packet is released before its descriptor is cleared), `Resend`, `Enable`,
  `Recheck`, and `Flush`, which moves queued packets to descriptors.
* The firmware is external: it sets a status in any order (`FwStatus`), and
  raises the interrupt later (`FwRaise`). `bl_irq_handler` lives in the binary
  library; the sources only show that it masks the interrupt and wakes the task.

`Status` reads the raised bits and acknowledges them in one step. In the code the
firmware may raise a bit in between; the acknowledgement takes exactly the bits that
were read, so one raised then is either acknowledged with the others, as if it had been
raised before the reading, or stays for the next.

`Output` on one side and the loops of `Resend` and `Flush` on the other exclude
each other by a critical section. lwIP does not hand over a pbuf that is still
referred to (`tcp_out.c:1436`), which is the guard of `Output`. Several
confirmation bits (one for each queue) run the same handler again and are one.
The indices are `freeIdx` and `usedIdx` modulo `IdxMod`.

`TxService` is the promise to lwIP: packets wait in order, are sent, and are
given back once; none is dropped unless there may be more of them than places.

### OtaStream, OtaStreamProofs, MCOtaStream

`OtaStream` is the loop of `ota_tcp_cmd`: each action is one `read()` of any length
that fits and all that follows it (`ReadHeader`, `HeaderDone`, `ReadPart`,
`WriteBlock`, `WriteLast`), or the end of the connection (`Stop`). A byte is its
position in the stream, so that flash shows what was written where; the digest
is the sequence of bytes that entered it. In `FwUpdate` the same loop is
`OtaReceive` and `OtaCommit`, with the whole file as one value.

### WifiMgmr, StationLink, WifiMgmrProofs

`WifiMgmr` is the station of the connection manager, with all that talks to it.

* The application's calls queue a message (`Request`, `Connect`, `IpSet`).
* The manager takes a message (`Take`) and does one transition of the tables.
  `GoTo` is `stateM_handleEvent` with the exit and entry actions; a guard that
  returns false is `Stay`; a message no table knows is `Ignore`. There is one action per
  transition, named after its guard. What a handler asks of lwIP through
  netifapi is kept in `netifapi` and done by `NetifCall`, one call a step, since
  the TCP/IP thread serves other tasks in between. So the effects of an entry action (timers, the
  current state) come before the calls of the exit action, in the code after them; the
  manager takes no message and no timer expires in between (`Timely`). A command to the firmware
  needs the bottom half and so waits until that is idle (`Command`).
* The TCP/IP thread and the timer task have higher priorities (30 and 31) than
  the manager (28), so that `netif_status_callback` (`SetAddr`) and the timer
  callbacks (`IpObtainingTimeout`, `DisconnectRetry`) are one step each. lwIP calls
  back when the address really changes, and the callback skips the empty address.
* The DHCP client binds a lease or renews it with another address (`DhcpBind`) and, if
  `LeaseEnds`, loses it: the server refuses it (`DhcpNak`; an address conflict has the
  same effect) or it expires (`DhcpExpire`). All of them may happen at any time and in any
  state of the manager. The interface starts with its link up for lwIP
  (`wifi_mgmr_ext.c:169`), so that the first `BhLinkUp` changes nothing.
* The firmware is external (`FwJoined`, `FwJoinFailed`, `FwDropped`, `FwScanDone`); the
  bottom half queues the indication first and tells lwIP afterwards (`BhLinkUp`,
  `BhLinkDown`, `BhClear`), which is where a message can overtake an address.

Left out: the access point's messages, the ones that only carry a value to the
firmware, the table of beacons, a full message queue (`MaxQueued` bounds those who
would fill it), timers that expire inside another task's handler
(`Timely`; they run for 2 and 15 seconds), and applications that call lwIP for the
station's interface themselves.

`StationLink` is what the manager makes of the firmware for an application: one
interface while a network is wanted, a request to join the wanted network only
when nothing of the last attempt is left, and every change of the link heard once, a
loss after the link it ends. Its `view` is the state of the manager (`View`); its
`ups` and `downs` are the indications that wait in the manager's queue.

### Bloop, EventService, BloopProofs, MCBloop

`Bloop` is the event loop that `looprt.c` starts, with the handlers and posters it has in
this repository: the LED triggers, the infrared receiver and the built-in dump.

* A round of `bloop_run` is `Copy` (the asynchronous bitmap and its types are moved
  to the synchronous ones), then `Sleep` and `Wake` if nothing is set, `HandleTimers` and
  `Clean` (due timers post their events; one that repeats is linked again), `Take` (the
  highest event) and its handler: `HandleLed`, `HandleIr`, `HandleSys`, of which the
  first registers the timers of new LEDs (`LedRegister`), then `Unset`. Each is a critical section, or
  what runs between two.
* Tasks trigger LEDs (`LedTrigger`, `LedPost`), ask for a dump (`Dump`) and wake the loop
  (`Give`) in two steps. `Schedule` and `Link` are `looprt_evt_schedule`,
  which searches the ordered list and links its timer later, without a lock: if the
  list has changed in any way since the search, `torn` records it and the model ends there.
  The code goes on, perhaps with a list that is out of order or whose links are torn; no
  property speaks of what comes after.
* The interrupt of the receiver masks itself (`IrInterrupt`) until `HandleIr` has read it.
* `Tick` is time: `left` of each timer goes down. A running loop may be `MaxLate` ticks
  late.

Configuring a LED's timer, which reads the clock, and putting it into the queue is one
step (`LedTrigger`). Messages (nothing sends one), statistics, the handlers of I2C and PWM, the
alarms of cron, and the test command that sets the system event without a type
(`looprt_test_cli.c:59`, a handler call with nothing to do) are left out. `EventService` is the promise to the posters: what is
posted for an event stays pending until a handler call has seen all of it, and handlers
run one at a time.

### Yloop, DispatchService, YloopProofs, MCYloop

`Yloop` is `aos_loop_run` with its two readers, the event device and the console.

* A round is `Round` (the time of the next delayed action is read), `PollEvent` and
  `PollUart` (each device is told the semaphore of this poll), `CheckUart`, `Wake`, then
  `UnpollEvent`, `UnpollUart` and `Free` (the semaphore, which is on the stack, ends), at
  most one `Timeout`, `ReadEvent` and `ReadUart`. Inside a callback (`pc` "call") the
  loop's own task may post and cancel delayed actions and post events, until `Return`.
* Other tasks write an event in three steps: `Write` takes the mutex of the device,
  `WriteNotify` signals the poll, `WriteUnlock` gives the mutex back. The UART's
  interrupt (`UartIrq`) fills the stream buffer and signals.
* A buffer that is read goes to a cache of `CacheSize`, or is freed.

The limit of a sleep is counted from the reading of the clock (`Round`, `yloop.c:239-242`);
the code counts it from `aos_sem_wait` (`select.c:54`), so that it wakes later by the time the setup
of the poll takes. `Enqueue` has a buffer whenever it needs one: an allocation that fails, where the
write is refused and nothing is queued (`device.c:85-88`), is left out. So are ending a
loop, adding and removing readers while it runs, filters, and the sending side of the UART.

`DispatchService` is the promise to the applications: callbacks one at a time, events
in the order in which they wait and each once, a delayed action once, when it is due and not
before one that is due earlier, unless it was cancelled. Neither the poll nor its semaphore
nor the mutex of the event device is seen in it; `waiting` maps the ordered list of actions
to what is left of each.

## 4. Runs

| run | question | instance and why it is enough | result |
|---|---|---|---|
| `cmdmgr_safety` | do list, mailbox, blocks and answers agree, and does a caller always have a step or a time limit, and the bottom half its next step (`CanStep`)? | 3 tasks, 3 commands of all four kinds of request the SDK makes, 2 slots: a command of each position of the chain (acknowledged, pushed, deferred), a full queue, and two commands with the same message id | all hold |
| `cmdmgr_channel` | does the manager implement `CmdChannel`, does every call return, firmware silent or not, and with an answering firmware, does every command leave the list without its timeout? | 2 tasks, 3 commands of all kinds, 3 slots: two deferred commands, so that the order of pushing shows (no symmetry: temporal) | all hold |
| `fwupdate_safety` | is there always a table and an image to start, is an update atomic, does boot2 always have a step (`Boot2CanStep`), and does every reset and update end in an application? | raw and compressed releases, good, flawed and damaged; three updates, three resets: a reset inside an update, inside the decompression it causes and inside the rollback after it | all hold |
| `fwupdate_lost` | does boot2 give up only when nothing is left, and is the source of an image never written? | also no valid table, a flawed image on delivery, compressed flawed releases | both hold |
| `fwupdate_mfg` | does the normal image start when the mfg image fails (`blsp_boot2.c:534`)? | also a stale request in the mfg partition | violated: the request is read again on every round |
| `txpath_safety` | is a packet in one place and released once, does the ring keep its bounds, and is nothing left when the task sleeps? | 3 packets, 2 tasks, 2 descriptors: a full ring, a full holder (as long as the ring, so that packets are dropped) and indices that wrap | all hold |
| `txpath_delivered` | is every packet sent and then given back (`Delivered`), and does no step give back a packet that was not sent, if the holder is longer than the ring, as in the driver? | 3 packets, 1 descriptor, holder of 2: packets are held and sent again while others wait | holds |
| `otastream_safety` | is the image written in place, and committed if and only if it is whole and right? | blocks of 3, images of 0 to 8 bytes, 0 to 8 bytes sent, every cutting: short, exact and long streams, images that end with a full and with a broken block | all hold |
| `wifimgmr_safety` | does the manager implement `StationLink`, follow the link, retry, keep its timers apart, and end every attempt, can whoever is due always take a step (`ManagerCanStep`), and does a station at rest in ConnectedIPYes without an address at least seek one (`SeeksAddress`)? | 2 networks, 1 static address, 2 leases that may end, 3 calls, 3 messages waiting: enough to connect, to disturb the attempt and to begin another | all hold |
| `wifimgmr_address` | does a connected station have an address (`wifi_mgmr.c:1066`)? | 1 call, leases that change but do not end | violated: a changed lease takes it away |
| `bloop_safety` | is nothing posted lost or slept over, does no event starve, do LEDs go on blinking, and can the loop and a task that posts go on (`LoopCanStep`)? | 2 LEDs of periods 1 and 2, a scheduled dump, a task, the receiver; the loop 1 tick late, 2 interrupts and dumps: two timers due at once, one that is due before the other is linked again, a post of every priority while another is handled | all hold |
| `yloop_safety` | does the loop implement `DispatchService`, does it sleep over anything, does anybody signal a poll that is over, is all that is posted dispatched, and can whoever is due take its step (`LoopCanStep`)? | 2 tasks, 2 events (one reused buffer, one freed), delayed actions of 1 and 2 ticks, a stream buffer of 2 characters that can be full; the loop 1 tick late, 1 urgent call | all hold, no deadlock |

Deadlock checking is off where the system stops by design: all commands of the
instance are sent, or boot2 sits in its error loop.

Bounds: `CmdMgr` bounds the number of commands by the set `Cmds`, since each
call takes a fresh block. `FwUpdate` bounds updates with `MaxAge` (no update is
begun from a table of that age) and resets with `MaxResets`.
`TxPath` scales the ring (`Cnt`, 4 in the driver), the holder (`HodlerLen`, 8) and the
width of the indices (`IdxMod`, 2^32, always a multiple of `Cnt`), and bounds
interrupts that confirm nothing with `MaxOther`. `OtaStream` scales the block (512 bytes)
and bounds the stream with `MaxSent`. `WifiMgmr` bounds the application's calls
with `MaxCalls` and, with `MaxQueued`, how many messages may wait when the application or
the DHCP server adds another; retries and indications are not bounded; `LeaseEnds` says
whether a lease may end. `Bloop`
bounds how late a loop or poster that is ready runs (`MaxLate`), how late a timer is of which nobody
has told the loop (`MaxStranded`), and interrupts and dumps (`MaxPosts`); `Yloop` has
`MaxLate` and `MaxUrgent`. Both keep time as what is left of each delay, so that it needs no bound.

Symmetry is used in `cmdmgr_safety` and `txpath_safety` (tasks, commands and
packets are interchangeable there, and neither has a liveness property); the
temporal runs of `CmdMgr` take blocks in a fixed order instead.

### Fairness

* `cmdmgr_channel` assumes weak fairness of each task's steps. `Returns` has as its
  hypothesis that the wait of a caller expires (`TimerFairness`; the event wait
  has a finite timeout) and assumes nothing of the bottom half or of the firmware.
  `Answered` has as its hypothesis that the bottom half and the firmware go on and that each
  command gets its confirmation (`AnswerFairness`), but not that a wait
  expires: the property is that nothing depends on it. Both end at `fault`.
* `fwupdate_safety` and `fwupdate_mfg` assume weak fairness of the boot loader's
  steps, a sequential program that nothing else delays, including the two flash
  operations of a table update that the application has begun; resets are bounded.
* `txpath_delivered` assumes that tasks, interrupt and firmware go on, and, with
  strong fairness, that a packet that is given to the firmware again and again is sent
  in the end. Without that the retries of one packet starve all others.
* `wifimgmr_safety` (`AttemptEnds`) assumes that the manager, the TCP/IP thread and
  the bottom half run, that the two timers expire, and that the firmware ends
  a join and a requested disconnection. It assumes no DHCP server and nothing of
  the application.
* `bloop_safety` (`Handled`, `Blinks`) assumes that the loop's task runs, that a task
  finishes a post it has begun, and that time passes; all of it until `torn`.
* `yloop_safety` (`Dispatched`) assumes that the loop runs, that a task that holds the
  mutex of the event device goes on, and that time passes.

## 5. Proofs

All theorems hold for every value of the constants that satisfies the
assumptions in the modules (`None` is not a member of the sets, bounds are
natural numbers, the kinds and files have the shape of the code's). The
invariants below were checked by TLC on the instances of section 4 before they were
proved; a run lists those that say something about the code by themselves.

**CmdMgr.** `IInv` is the type invariant and five parts, none inductive without the others:

* `ListInv`: the list has no duplicates, `queue_sz` is its length, and what is listed
  is alive and unfinished;
* `ChainInv`: the list is a run of acknowledged commands, at most one pushed and
  unacknowledged one, and a run of deferred ones;
* `TokenInv`: tokens of listed or given commands differ, which is what makes the
  comparison of tokens in `cmd_mgr_llind` mean anything;
* `TaskInv`: where a task stands says what its block may look like;
* `MailInv`: the mailbox, the acknowledgement under way and the commands marked
  as pushed are the same command, unless a timeout has crashed the manager.

The hard steps are `QueueAdd` (the new command is pushed only if nothing else is
unacknowledged, `NoDeferMeansQuiet`) and `Llind` (the acknowledged command is
the last of its run, so that the next deferred one is found behind it). From `IInv` follow
`QueueBounded`, `MailboxFree`, `AckFindsCommand` and `CallerBlockLive`. `ListLemmas`
states what removing and inserting an element does to a sequence, and how long one
without repetition can be.

`AnswerInv`, proved on top of it, says what confirmations do. `OwedInv`: until a crash, what the
firmware has still to confirm (`work`) are listed commands that wait for it, in the
order of the list, and every accepted command that waits is among them. It is
what makes the comparison of message ids in `cmd_mgr_msgind` enough: an older
command that waits for the same id and is not accepted would still wait for its
acknowledgement, so none behind it could be accepted (`DeferredBehind`), and an accepted
one is confirmed first (`TakerIsConfirmed`). `ResultInv`: a listed command of a blocking
caller has no result zero, and an unlisted one has it exactly if it waits for
nothing. `MatchedCfm` and `ResultTruth` follow.

`Refinement`: every step is one of `CmdChannel` or changes nothing it shows. The
commands that wait for their push are the end of the list behind some position
(`ShapeInv`), so that what a step does to them is what it does to that end:
`QueueAdd` appends to it (`BackAppend`), a push takes its first element (`PushGives`), a
completion in front of it moves it (`BackRemoveBefore`), a timeout within it takes one
element out (`BackRemoveBehind`). The hard step is again `Llind`, which may
remove one command and push another at once.

`CallsReturn` proves `Returns` from `CanStep`. A call stands at one of six places
(`Stages`), and every step its task or its timeout takes leads to a later one (`After`,
`CallGoesForward`); that one of them is taken in the end follows from the fairness of both and from
`CanStep`, which says that at every place one of them is enabled
(`StageEnds`). That formula is about ENABLED, which no prover here reasons about: it
is the hypothesis of the theorem, and `cmdmgr_safety` checks it.

`CommandsAnswered` proves `Answered` for every limit `MaxQueued` up to 800, a hundred times the value
the driver is built with (`RWNX_CMD_MAX_QUEUED`, `bl_cmds.h:72`), and any tasks, commands and
kinds. The command at the front of the list is at one of five stages (`Stage`): it is still to be pushed,
to be accepted by the firmware, acknowledged, taken out of the mailbox, or only its
confirmation is missing. That there are no others is `HandInv`: a command waits for
its acknowledgement, but not for its push, only while somebody is handing one over (`Busy`), and
what the firmware has taken has its acknowledgement on the way. It is inductive because `Llind` looks for the next command to push whenever
it ends a hand-over (`HandLlind`). The rank of a listed command (`Rank`) is five
times its place plus the stage of the front; no step raises it (`RankMoves`), the step that is due at the front
lowers it (`StageFalls`), and it is at most 4000. `RankEnds` chains that many leads-to steps
by doubling: if the rank falls by n from everywhere, it falls by 2n. The fairness of the tasks, the bottom half and the firmware is
stated of every suffix of the behaviour (`[]SchedFairness`, `[]AnswerFairness`), which for weak
fairness is the same thing; `CanStep` is again the hypothesis about ENABLED.

**FwUpdate.** The invariants are layered. `IInv` (types, `TableInv`: memory agrees
with flash; `RegionInv`: what runs is what the tables choose) holds whatever was delivered. It gives
`SourceKept` for every step, and `SomeTable` for a device delivered with a table.
`SafeInv` (`AlwaysStartable`, and no compressed flawed image) holds under
`SoundReleases`. `LostInv` (after a rollback the image left behind is no better
than the one chosen, and a compressed image is unpacked before it is started) gives
`HaltsOnlyLost`; `PendingInv` says what an update of a table that is
under way will choose. Together they prove `Refinement`: under
`SoundReleases` every step is a step of `AtomicUpdate` or changes nothing it shows.

`BootsInTheEnd` proves `Boots`, under `SoundReleases`, sound requests
(`SoundRequests`: no request of an mfg image that fails) and `<>[][~Reset]_vars`: resets may
come at any time and as often as one likes, but end. `MaxResets` plays no part in it. A
rank (`Rank`) combines how good what the tables name is (`Quality`: a rollback is
not undone) and the place of boot2 in its round (`Place`). Each step of boot2 lowers it (`RankFalls`),
nothing but a reset raises it, and it is at most 24. That boot2
always has a step is again a hypothesis about ENABLED, `Boot2CanStep`, checked in
`fwupdate_safety`. Without `SoundRequests` the theorem is false, which is what
`fwupdate_mfg` shows.

**OtaStream.** `IInv` adds two facts to the properties: the buffer holds the
latest bytes of the stream (`BufferInv`), and the counters agree with the stream
and the digest with flash (`CountInv`). With them `InPlace`, `CommitExact` and
`ExactInstalled` are inductive, for every block size and length.

**TxPath.** `IInv` has, besides the types and the two properties `RingSound` and `FwOwns`:

* `ListsInv`: no packet twice in a list or in two places, and exactly the placed
  ones carry the driver's reference;
* `RoomInv`: the holder and the used part of the ring together never exceed the
  ring, except between the release of a packet and the clearing of its descriptor.
  This is why a holder as long as the ring cannot overflow, and why what is held finds
  a descriptor again;
* `WakeInv`: while the task sleeps or is about to, interrupts are on or an event is
  pending, and a confirmation of the oldest packet is either announced or being read.

`OnePlace`, `RingSound`, `FwOwns` and `Quiet` follow for every ring whose length divides
the width of the indices; the arithmetic of the two indices is a handful of lemmas
about `Gap`. `Refinement` shows that each step is one of `TxService`: `Flush` sends the oldest
packet, a successful status lets it succeed, `CfmFree` and `CfmDrop` give it back, and
`RoomInv` says when the drop is excluded.

**WifiMgmr.** The queue is the difficulty: a message is handled in a state that
may be another than the one it was sent in. `Ahead` and `Once` say of two messages
which is handled first, and of one that it waits at most once; lemmas say how taking and
adding messages changes them. `IInv` is made of

* `LinkInv`: which indications may wait in which state, given the link of the
  firmware; with it `StateFollowsLink`;
* `RetryInv`: in Disconnect the timer of the retry runs or its RECONNECT waits, for
  the profile that is still wanted, and no indication waits behind one;
* `TimerInv`: a timer for the address runs only in ConnectedIPNo, and its timeout
  is ahead of any retry;
* `StaInterface` (the interface is in the firmware exactly once in the states that use it) and
  `JoinsLatest` (the firmware joins the network asked for last), which need these.

All follow for every number of networks, addresses, calls and messages. `ScanKeepsOff` is
an action property: `LinkInv` puts a joining firmware in Connecting, where the
manager scans nothing. It is proved only; no run of section 4 lists it.

`Refinement`: every step is one of `StationLink` or changes nothing it shows. A step
of the application, of lwIP or of the bottom half leaves the queue's indications alone (`OthersUnseen`).
For the rest `LinkInv` says which indications can wait: none when the manager asks the firmware to join,
at most one of each kind, the loss behind the link. `RetryInv` says that the network of a
RECONNECT is the one wanted.

`NeverStranded` is what holds without any assumption where the run `wifimgmr_address`
refutes the comment: a station at rest in ConnectedIPYes has an address,
or its DHCP client seeks one. `SeekingInv` says so of every moment in a connection at which no call of a handler
is left; `UnderwayInv` (below) gives the order of the calls, whose last one sets an address or starts DHCP,
and puts the bottom half's clearing of the address where the link is down.

`AddressUnlessLost` says how far the comment is true: in every behaviour in which
no static address is configured, and a lease is neither refused nor expires nor is
replaced by another (`Kept`), a station at rest in ConnectedIPYes has an address. These are the
ways in which the model's application and DHCP client take an address away in a connection;
the theorem excludes that the order of messages, calls and link changes is one more. It says nothing of an
application that calls lwIP itself. `NetInv` is the invariant: the bottom half's work is about the link that
there is (`NetworkInv`), what a handler has still to ask of lwIP comes in a fixed order (`CallsInv`), and
in a connection an address is announced once and is there when the manager hears of it (`AddressInv`).
`CallsAssumption` says that a static address is none of the names of these calls.

`NoAttemptHangs` proves `AttemptEnds` for any networks, addresses and calls. On top of `IInv` stands
`UnderwayInv`: in ConnectedIPNo the timer for the address runs, its timeout waits, or a disconnection
has been asked of the firmware or has happened. So in each attempt something is coming that
ends it (`CloserBy`): an indication in the queue; before it, a report that the firmware owes;
before that, the timeout in the queue, and the timer itself. How far it is off
counts the messages ahead and what lwIP and the bottom half have still to do. No step
takes it further away, and a step of whoever is due (`Due`) brings it nearer;
`AttemptDrops` chains the leads-to steps by doubling. Two hypotheses are stated of every state: `ManagerCanStep`,
which is about ENABLED and which `wifimgmr_safety` checks, and `QueueFits`: at most 112 messages
wait, which is what the 2240 bytes of the manager's message buffer hold (`wifi_mgmr.h:264`);
the model has no full queue.

**Bloop.** `TimerInv`: each timer is in one of three lists, or held by a task that searches,
and the list ascends in time; `WorkInv`: a round is entered with an event or a due timer;
`IrInv`: the receiver is masked from its interrupt to its handler; `WakeInv`: types posted stay
with an event that is set, and a loop about to sleep over one has been
notified or is about to be; `TurnInv`: how often a set event has been passed over, in each phase of
a round. `NoLostWakeup` follows from `WakeInv`, `OvertakenOnce` from `TurnInv`,
and with both `Refinement` shows `EventService`: the types of an event leave it in one step, at the
begin of its handler.

`EventsHandled` proves `Handled` for up to a hundred timers and a hundred interrupts and dumps
(`Few`). The rank has two parts. `Others` counts the handlers that may still run before that
of the awaited event: one of a lower event, and those of higher ones that are set, can
still be posted (`MaxPosts`), or are left to a scheduled timer that has not fired (`Unfired`); a LED's
timer fires again and again, but for the lowest event. `Round` is how far the loop is from its next
handler. No step raises the pair (`AtMoves`), each step of the loop lowers it, and so does
the wakeup by a task that has posted (`WakeInv` says there is one when the loop sleeps). The
leads-to steps are chained by doubling, within a round (`RoundEnds`) and over the rounds (`TurnComes`).
The fairness is stated of every suffix (`[]Fairness`), and `LoopCanStep` is the hypothesis about ENABLED.
The bound on the posts is needed for more than the chaining: receiver and dumps have
the higher priorities, and endless posts would starve the LEDs.

**Yloop.** `TimerInv` (delayed actions are listed once and in order), `LockInv` (one caller in the
event device), `HookInv` (which device is told of the poll at which point of the
round, and that a caller that notifies holds the mutex while the hook is set) and `PollInv` (what was there
before the poll has been noticed, what comes during it is noticed or about to be).
`SignalsLivePoll` follows from `HookInv`: the loop cannot pass `UnpollEvent` while a caller
holds the mutex. `NoLostWakeup` follows from `PollInv`.

`Refinement` shows `DispatchService`. An action's place in the list does not matter to the promise, only that
the list has each action once and ascends in time, so that `Timeout` calls one that no
other precedes; inserting and cancelling change `waiting` for one action and leave the others as
they are. `Write` puts the event into the list before the poll hears of it, so the notification
and the rest of the round are stutters.

`NoneStarves` proves `Dispatched`, for up to a hundred events, actions and urgent calls, delays
that fit into an int and a loop at most a hundred ticks late (`Few`). Three more invariants are needed
(`LiveInv`): an event is queued once, a poll with a time limit waits for the first action, and no
action is later than `MaxLate` or further off than its delay. The rank (`Rank`) of an event is, in
this order, the events that are read before it, urgent ones that may still come included
(`Before`), the steps to the next read (`ToEvent`, which counts a whole round more while the
event device is not marked), and the steps of callers that can come between (`Calls`). For the
console the first part is not needed. For an action it is the time left, and, while actions are
so late that time waits for them (`Late`), their number and the steps to the next call. No step raises
the rank of what is awaited (`AtMoves`), and each step of the loop or of a caller lowers it, or, for an
action while none is late, each tick. `SomebodyGoesOn` is where `PollInv` comes in: while something
waits, the loop is not asleep, or a caller is about to wake it. The leads-to steps are chained by
doubling, to 2^52. The bound on the urgent calls is needed for more than the chaining: they overtake
the other events, and without end would starve them.

What stays with TLC:

* `CanStep`, `Boot2CanStep`, `ManagerCanStep` and `LoopCanStep`, since no prover here expands
  ENABLED; the liveness theorems have them as hypotheses;
* `Delivered` and `Blinks`. The number of steps that end what the proved liveness
  properties wait for is below a constant, if a large one, so that leads-to
  steps can be chained. For `Delivered` it is not: a packet may be retried any number of times,
  and only strong fairness ends that; `Blinks` says that a timer fires again and again, and the rank
  would have to join time with the rounds of all handlers. In general an induction over the natural
  numbers inside temporal logic is not possible here, which is why the limits in `CommandsAnswered`,
  `NoAttemptHangs`, `EventsHandled` and `NoneStarves` are numbers;
* what the violated runs show.

Where a recursive definition would be needed (sums, the order of a whole list) the
invariants are stated by position instead.

## 6. Findings

* A failing mfg image whose request is in the mfg partition is tried for ever
  (`blsp_boot2.c:471`); the comment at line 534 says the normal image follows
  (`fwupdate_mfg`).
* When the lease changes while a station is connected, `netif_status_callback`
  (`wifi.c:144`) queues IP_UPDATE and IP_GOT. The first makes the manager give the new
  address up and start over, the second, already queued, makes it believe
  that it has one: it stays in the state "connected with IP address"
  (`wifi_mgmr.c:1066`) without an address until DHCP answers, and the answer
  does the same again (`wifimgmr_address`).
  The same state is refuted in a second way: when a lease is refused, expires or is in conflict
  while a station is connected, lwIP takes the address away (`dhcp.c:334`, `dhcp.c:523`), and
  `netif_status_callback` skips the empty address (`wifi.c:141`). The manager stays in
  ConnectedIPYes, without its timer of 15 s, until a server gives another address. With
  `LeaseEnds = TRUE` in `WifiMgmr_address.cfg` TLC shows this one, which is shorter; the run
  has `FALSE`, so that it shows the other. `SeeksAddress` holds in both: DHCP keeps asking.

What reading the code showed and no run is about:

* `cmd_mgr_queue` returns zero also after a timeout (`bl_cmds.c:159`); only
  `cmd->result`, which no caller reads, tells the difference.
* A non-blocking command may have been completed and freed by the bottom half when its
  caller reads its flags (`bl_cmds.c:137`), writes its result (`bl_cmds.c:156`) and reads it
  (`bl_msg_tx.c:366`). `CallerBlockLive` is about blocking callers.
* `bl_send_msg` does not free a non-blocking command that the manager refuses (`bl_msg_tx.c:363`).
* `bl_main_connect` drops the firmware's answer (`wifi_mgmr.c:738`), so that a refused
  request leaves the manager in Connecting; `AttemptEnds` is stated for accepted requests.
* A timeout for the address (`wifi_mgmr.c:937`) that is queued before the application's
  next attempt and handled after it has begun ends that attempt; only retries are protected
  (`TimeoutOfOwnConnection`).
* An IP_UPDATE of `wifi_mgmr_sta_ip_set` that is handled before the station has an address is
  lost (only ConnectedIPYes handles it, `wifi_mgmr.c:1161`): if DHCP has been started already,
  the address configured is used from the next connection or change of address on.
* AP_STOP uses the interface index of the latest AP_START that added one (`wifi_mgmr.c:548`).
* A TCP server that sends more than its header announces is not stopped: the branch
  for it (`bl_sys_ota_cli.c:269`) stands under a condition that excludes it. Nor is the size
  of an image compared with the size of its partition (`bl_sys_ota_cli.c:277`).
* `hal_boot2_update_ptable` (`hal_boot2.c:70`) changes the copy of the table in memory, which
  then names the new region as the active one: a second update before the reset would
  write the region that runs. The updater resets at once (`bl_sys_ota_cli.c:301`).
* `looprt_evt_schedule` (`looprt.c:74`) neither locks the list nor wakes the loop, and
  `bloop_handler_register`, searching a free slot, tests the same one in every round
  (`bloop_base.c:67`).
* `aos_post_delayed_action` is for the loop's own task (`yloop.h:196`); the provisioning
  calls it from the Bluetooth host's (`blsync_ble_app.c:131`).

## 7. Not modelled

See `components` in `PROJECT.json`. Third-party code, binaries, register access
and formatting are left out on principle; the parts the plan names are left for
the next extensions.
