# openPOWERLINK: TLA+ models, checks and proofs

This directory holds a verification development of the openPOWERLINK stack in
`src/stack`: TLA+ modules that model its concurrent and stateful parts, TLC
configurations that check them on small instances, and TLAPS proofs of what
matters most for every instance. Every definition is translated from the C
code; the table `map` in `PROJECT.json` names the lines.

To run it: `tlc -config <Run>.cfg <MCModule>` for a run of `PROJECT.json`,
`tlapm <Module>Proofs.tla` for the proofs.

## 1. The system

A POWERLINK network has one managing node (MN) and up to 239 controlled nodes
(CN). The MN drives a cycle: SoC, then a PReq to each CN answered by a PRes,
then SoA and one asynchronous frame. The stack is split in two halves, which
run in one process, in two processes, or in kernel and user space:

* the *kernel part* (`src/stack/src/kernel`) does what is real-time: the data
  link layer (DLL), the NMT state machine, the exchange of PDOs, the error
  counters;
* the *user part* (`src/stack/src/user`) does the rest: it answers NMT state
  changes, boots CNs, runs SDO transfers, keeps the object dictionary and
  calls the application.

The halves share memory: circular buffers carry events and asynchronous
frames, a triple buffer carries PDOs, plain structures carry error counters.

    application
      |  callbacks, oplk_execNmtCommand(), oplk_exchangeProcessImage...()
    user part      nmtu  nmtmnu/nmtcnu  sdocom/sdoseq  obd  errhndu  pdou
      |  ^         ---- user event thread, timer thread ----
     U2K K2U  circular buffers of events      PDO triple buffer, error objects
      v  |         ---- kernel event thread, receive and timer contexts ----
    kernel part    nmtk  dllk (state machine, frames, nodes)  errhndk  pdok
      |
    Ethernet driver, high resolution timers

### Inventory

| Component | State | Operations | Talks to | What is hard |
|---|---|---|---|---|
| PDO triple buffer (`pdokcal-triplebufshm.c`, `pdoucal-triplebufshm.c`) | three buffers per channel; which one is read, written, clean; `newData` | write and publish, take and read | DLL in the kernel part, application in the user part | no lock: every step of one side falls between steps of the other |
| Circular buffer (`circbuffer.c`) | ring of bytes, two offsets, free size, count | alloc, reset, write in one or two parts, read | everything that crosses the border | wrapping of data, of padding and of the size word; full and empty look alike |
| Circular buffer ports (`circbuf-*.c`) | mapping, semaphore | create, connect, lock | | connecting to a ring in use |
| NMT kernel state machine (`nmtk.c`) | state, five flags | one function per state, `nmtk_process()` | DLL in the same call, user part through K2U | events from three sources, flags that outlive a state, failure in mid-change |
| NMT user module (`nmtu.c`) | local state, timer | answer to each state change | kernel part through U2K, application callback | answers and timers that arrive late |
| Event queues and threads (`eventk*.c`, `eventu*.c`) | KInt, U2K, K2U, UInt queues, one semaphore per thread | post, dispatch, init, exit | all modules | priority of the internal queue, tokens against events, shutdown |
| User timers (`timer-xeno.c`, `timer-generic.c`) | list of timers | set, modify, delete, expiration thread | nmtu, nmtmnu, SDO | deletion against expiration |
| High resolution timers (`hrestimer-*.c`, `synctimer-openmac.c`) | slots with a callback | modify, delete | DLL | thread against caller |
| Error handler (`errhndk.c`, `errhndu.c`) | per kind of error: cumulative counter, threshold counter, threshold; errors of this cycle; one mark per CN | `errhndk_process()`, decrement at the end of a cycle, reset of a CN, access of the application | DLL reports; NMT events, node removal, history entries go out | errors and the end of a cycle are separate events; handlers that stop half-way |
| DLL state machine (`dllkstatemachine.c`) | DLL state, loss-of-SoC flags, NMT state | one function per NMT and DLL state | frames, cycle timer, NMT state changes in; error events out | losses in any combination while the NMT state changes |
| DLL frames, nodes, events (`dllkframe.c`, `dllknode.c`, `dllkevent.c`, `dllk.c`) | frame buffers, node table, cycle counters | receive, transmit, timer callbacks, add/delete node | driver, NMT, error handler | three contexts, critical sections that are empty in user space |
| DLL CAL (`dllkcal.c`, `dllucal*.c`) | asynchronous queues, requests of the CNs | send, schedule the asynchronous phase | SDO, NMT, virtual Ethernet | priorities, queue limits |
| Cyclic Ethernet (`edrvcyclic.c`) | two lists of frames | switch, start | DLL of the MN | lists changed while in use |
| PDO modules (`pdok.c`, `pdou.c`) | channel tables, mapping | configure, copy | triple buffer | mapping changed while running |
| SDO sequence layer (`sdoseq.c`) | per connection: state, two sequence numbers, history, timer, retries | init, send, receive, time out, close | SDO command layer, transports | loss, duplication, retransmission, full history |
| SDO command layer (`sdocom-std.c`) | per connection: state, transfer | read, write, segments, abort | sequence layer, object dictionary | segments, abort in mid-transfer |
| SDO transports (`sdoasnd.c`, `sdoudp.c`) | connections | send, receive | | pure I/O |
| NMT MN module (`nmtmnu.c`) | per CN: boot step, timers, flags | boot steps, commands, checks | identu, statusu, syncu, cfmu | many CNs at once, timers against answers |
| NMT CN module (`nmtcnu.c`) | node list | commands of the MN | nmtu | |
| Ident, status, sync requests (`identu.c`, `statusu.c`, `syncu.c`) | one callback per node | request, answer | DLL CAL | a second request before the answer |
| Configuration manager, object dictionary (`cfmu.c`, `obd*.c`) | objects, downloads | read, write, download | SDO, all modules | sequential |
| Stack control (`ctrlk.c`, `ctrlu.c`, `ctrlcal-*.c`) | command, status, heartbeat | start, stop, command | both halves | two processes starting |
| API, process image, LED (`user/api`, `ledu.c`) | | thin wrappers | | |
| Drivers (`edrv-*.c`), virtual Ethernet (`veth-*.c`), `src/drivers`, ports | hardware | | | not reachable by a model |

### What makes each one correct

* *Triple buffer*: a reader never sees half of one PDO and half of another;
  the newest data is not overwritten before it can be read; data does not go
  back in time.
* *Circular buffer*: a bounded first-in first-out queue of whole blocks.
* *NMT*: no reset is abandoned or left by an answer to another one; a CN is
  ready when both sides say so in the same stay in PreOp2; an MN is silent
  beside another MN; the user part ends up in the kernel part's state.
* *Error handler*: a threshold counter is a leaky bucket of its own error; a
  CN leaves the isochronous phase for its own errors and not otherwise.
* *DLL of a CN*: a lost SoC is reported, once per cycle, and only if lost.
* *SDO sequence layer*: commands arrive once and in order or the connection
  closes at both ends. *NMT MN module*: each CN has one boot procedure, and a
  mandatory CN missing keeps the MN from going on. *Stack control*: no
  command before both sides are up. *Cycle of the MN*: each frame is sent once and
  whole, each CN that does not answer is reported and no other, and the cycle
  goes on or is stopped.

`PROJECT.json` lists the places where these could go wrong as `hazards`, each
with the properties that watch it or the reason why none does yet.

## 2. The modules

| Module | Models | Kind |
|---|---|---|
| `TripleBuf` | one PDO channel, step by step | detailed model |
| `Fifo` | what the circular buffer promises | abstract specification |
| `CircBuf` | `circbuffer.c` on the bytes of the ring; refines `Fifo` | detailed model |
| `Nmt` | `nmtk.c`, `nmtu.c`, the queues and the timer between them | composition of three threads |
| `LeakyBucket` | what one threshold counter promises | abstract specification |
| `ErrHnd` | `errhndk.c`; its loss-of-SoC object refines `LeakyBucket` | detailed model |
| `DllCs` | the CN side of `dllkstatemachine.c` on a lossy bus | detailed model with environment |
| `DllMs` | the cycle of an MN: `edrvcyclic.c` and the DLL functions on both sides of it | composition of three threads |
| `SdoSeq` | `sdoseq.c` at both ends of a connection | composition of two nodes and a lossy link |
| `SdoCom` | `sdocom-std.c` on both nodes, with as much of `sdoseq.c` as it can tell | composition of a client and a server |
| `NmtMnu` | `nmtmnu.c`, `identu.c`, `statusu.c` and what they drive: the queues of the DLL CAL, the MN's state machine, the CNs | composition |
| `TripleBufProofs`, `CircBufProofs`, `NmtProofs`, `ErrHndProofs`, `DllCsProofs`, `DllMsProofs`, `SdoSeqProofs`, `NmtMnuProofs` | theorems | TLAPS |
| `MCTripleBuf`, `MCCircBuf`, `MCNmt`, `MCErrHnd`, `MCDllCs`, `MCDllMs`, `MCSdoSeq`, `MCSdoCom`, `MCNmtMnu` | instances for TLC | |

Definitions whose comment says "mutant" are variants of their successor with
a plausible bug. No specification uses them; they show that a property can
fail: with the mutant in place of the original TLC finds the property
violated (`mutants` in `PROJECT.json`).

### TripleBuf

Variables `readBuf`, `writeBuf`, `cleanBuf` and `newData` are the fields of
`tPdoBufferInfo`. `mem` is the contents of the buffers; a payload is the
number of the production it belongs to, word by word, so that a torn payload
shows. The producer is `pdokcal_writeRxPdo()` (kernel part) or the application
with `pdoucal_getTxPdoAdrs()` and `pdoucal_setTxPdo()`; the consumer is
`pdoucal_getRxPdo()` and the application, or `pdokcal_readTxPdo()`. The two
directions run the same protocol and share no state, so one channel with one
producer and one consumer stands for all. Steps: copying a word, the atomic
exchange (`OPLK_ATOMIC_EXCHANGE`), reading, setting and clearing `newData`.
Memory is sequentially consistent; caches and their flushes are not modelled.

The exchange and the write of `newData` are two steps. Two swaps overlap when
one side exchanges while the other is between its exchange and its write of
`newData`, or between its check of `newData` and the clearing of it. The
history variable `overlapped` records that. Until it happens the flag is
exact and reads only advance; once it has happened neither holds, but nothing
is ever torn and the newest production is never the buffer being overwritten.
All four are proved.

### CircBuf and Fifo

The ring is modelled byte by byte; a size word is one cell at the offset of
its first byte. All the arithmetic of the code is there: padding to four,
wrapping of data and of a block in two parts, the reset of an offset at the
end of the ring. Each call is one step because the code holds one semaphore
over the whole body. The refinement mapping keeps `queue` as a history
variable; `ret` and `out` are what the calls return, so `ImplementsFifo` says
that every caller sees a queue of whole blocks. `Fifo` allows a write to be
refused only when the queue holds something or the block can never fit.
`CircBufProofs` proves both properties for every ring and every set of blocks.

### Nmt

`Table` is the transition table of the `doState...()` functions, without the
transitions that depend on a flag, which are in `StateAfter`; `FlagsAfter` is
what they do to the five flags. `nmtk_process` is one event: the new state,
the DLL call, the state change event to the user part, with the two places
where it may fail (`InformMayFail`): the state has changed then and nobody is
told. `KernelEvent` takes from the internal queue before the U2K queue, as
the event thread does. `UserTakes` and `UserAnswers` are the two halves of
`nmtu_processEvent()`; between them the application callback runs.
`TimerExpires` and `TimerPosts` are two steps because the timer thread can be
overtaken between taking an expiration and posting its event; deleting the
timer does not recall that event. `role` is the node's role, fixed by its
node ID. The environment is bounded by `MaxEvents`: NMT commands, received
frames, errors and finished boot steps. `seen` and `left` are history: the
events taken in this stay in a state and in the one before. So is `wasOff`: a
node that had started went to GsOff.

Abstractions: the result `kErrorReject` of the application's callback and the
configuration of the DLL in GsResetConfiguration are left out.
`BootStepFinished` stands for all of `nmtmnu.c` and over-approximates it: a
boot step may finish at any time in its state. `NmtMnu` models that module by
itself, with an MN that is told of its state changes in order. Frames are not processed by
the DLL in reset states, which is why `FrameReceived` asks for a running
state; of a PRes the NMT state machine hears only up to CsPreOperational1,
so the row of `doStateCsBasicEthernet` for `DllCePres` is never used.

### ErrHnd and LeakyBucket

One error event carries several errors; the handlers run in the order of
`handleDllErrors()` and stop at the first that fails (`ok`). A history entry
fails when the K2U queue is full (`HistoryMayFail`). The code is modelled as
it is, with the counters it really writes: `handleCnCrc()` writes those of the
loss of PReq, `decrementCnCounters()` and `decrementMnCounters()` each write
one counter to another object, `handleMnCycTimeExceed()` swaps its two
counters when its history entry fails at the threshold. Nothing in the
repository reports CRC errors, so the runs do not either. `isochronous` is
the list of `dllknode.c`. Handlers are atomic: they run in the kernel event
thread; the application's only write (`ClearCumulativeCnt`) concerns a
statistic. `unheard` is history: CNs whose entry found no room.

### DllCs

`changeState` is `dllkstatemachine_changeState()` on a CN: the next state,
the error bits, the two flags of `tDllLossSocStatus` (as 0 and 1, which the
provers handle better than Booleans). The bus sends SoC, PReq, PRes, SoA,
ASnd in order, may skip PReq, PRes and ASnd, and may lose any. A lost SoC
makes a timeout `due`; the timeout comes before the next SoC, at any place
among the frames of its cycle. NMT state changes fall between any two frames.
The node is not multiplexed and poll response chaining is not compiled in.
History: `reports` and `timeouts` since the last SoC; `settled`, the node has
been in the cyclic states since a SoC it waited for; `disturbed`, a frame was
lost or the node was stopped since the last reset.

The exception for Stopped is real: a node that leaves Stopped for PreOp2
between SoC and PReq is in DLL_CS_WAIT_SOA of the Stopped table, which the
full cycle reads as "PReq already seen", and the PReq that follows in order
is reported as a loss of SoC and of SoA.

### DllMs

Three threads share the TX lists, the node id lists and a few flags without a
lock. The *timer thread* runs `timerHdlCycleCb()` on every tick, which takes the
list that was prepared; `processTxBufferList()` sends one frame per step, up to
the first with a time offset, for which it arms the slot timer
(`timerHdlSlotCb`); after a tick `cbMnSyncHandler()` follows, in two steps:
`ReportLosses` and `SwitchCycle`. The *receive
thread* takes confirmations (`RxSoa`) and PRes (`RxPres`) in the order of the
wire. The *event thread* prepares the next cycle in three steps: `Fill` writes
the frames of the other buffer and the node id list (`processSyncMn()`),
`CheckNextTxBufferList` and `CopyNextTxBufferList` are the two halves of
`edrvcyclic_setNextTxBufferList()`. A frame is its kind, its CN, the buffer it
belongs to (`off`) and whether it waits for the slot timer (`waits`).

The preparation is triggered by the SoC (`CycleFinish`), by the PRes of a
configured node or by the SoA (`Sync`), which `syncNodeId` decides. Errors go
through the threshold counter of `errhndk.c` to the cycle error that stops both
timers. A driver may refuse a frame. `SocTrig` begins a full cycle; the node id
lists and `curNodeIndex` are then as the last cycle left them.

Timing assumptions, each in a guard: at a tick the event thread has taken every
event (it may be anywhere in a preparation) and the receive thread is one frame
behind at most (`MaxEv`, `MaxRx`); a CN that has not answered when the next
SoC is sent never does; a cycle starts when nothing of the old one is pending;
`processStartReducedCycle()` comes later than the callback in which the MN left
the cycle.

A frame may be taken between any two steps of the timer thread. `Locked` is
whether `TGT_DLLK_ENTER_CRITICAL_SECTION()` takes a lock. It does in the Linux
kernel, where the functions of the DLL that are called back hold a spinlock
(`dllktgt.h:53`); then no frame is taken in the middle of the sync callback. On
all other targets the macro is empty (`dllktgt.h:70`), and timers and frames have
threads of their own (`hrestimer-posix.c:437`, `edrv-pcap_linux.c:576`); that their
callbacks exclude each other is only said in comments there (`hrestimer-posix.c:256`,
`edrv-pcap_linux.c:567`) and not assumed here. A frame's own callback is one step on
every target, which leaves out a sync callback in the middle of it; so nothing is
claimed for a target without the lock, except where it is said. The driver and
the event thread take no lock on any target.

`Separated` is a condition on the configuration: the driver waits behind the SoC
(`waitSocPreq`, object 0x1F8A/1, 1000 by default), or the next cycle is prepared at
the SoC.

History: `asked` and `answered` per buffer, `reported` CNs, and `disturbed`, the
number of sync callbacks for which a PRes that crossed a tick, or a new start,
may still matter. Left out: the ring of SoA requests, poll response chaining,
soft deletion of nodes, multiplexed nodes, launch times (`EDRV_USE_TTTX`).

### SdoSeq

One record per node is its `tSdoSeqCon`; `chan` keeps the order of the frames.
The actions are the events of `processState()` in each of the six states, the
close of a connection, and the loss of a frame. `InitNext` is the handshake,
`ConnectedFrame` the numbering (next, late, lost, repeated frames),
`deleteAckedFrameFromHistory` the loop over the ring with its early return, `Kept`
the loops that send the ring again and stop at an entry that is already released.
Sequence numbers keep their window: `SeqMod`, `Threshold` and `HistorySize`
stand for 64, 25 and 5 and are bound by `WindowAssumption`.

The lower layer may refuse a frame (`refused`), the link may lose one (`lost`), a
timer may be faster than the frames in flight (`late`), an application may close
(`closed`); `MaxFault` bounds their number. Otherwise a timer expires only when
nothing else happens, which is what its length of several seconds means.
History: what was delivered in Connected and in WaitAck (`got`, `loose`), what
was struck from a history (`ackd`), what was sent without a copy (`unkept`).

### SdoCom

Both nodes run the same handlers on a table of connection records. Of the sequence
layer there is what the command layer can tell of it: data frames have numbers, the
sender keeps a copy until it is acknowledged (`hist`), and waits for that when
`Window` copies are kept; a frame with a gap before it is asked for again
(`AskAgain`), a peer that asks is answered from the copies (`SendAgain`), the timer
repeats the oldest one `RetryCount` times and closes the connection then (`Expires`).
`Awaited` is the wait, with its peculiarities: data is delivered without its number,
so that the peer sends it a second time and the command layer hears it twice, and
a new `init` is taken for a close. The codes of the handshake, numbers that wrap and
the ring with its early return are left to `SdoSeq`. Single frames are not lost, a
cut of the connection loses all. `MaxAway` is a bound on repetition: with so many frames
on its way to a node the lower layer has no room for more of them.

`sendData` calls `FrameSent` back
inside the handler that is still running, hence the recursion. A handler is an
operator from a node's state to the next one, composed as its calls are; what it
sends and what it reports to the application is collected and takes effect
together, as the handlers run in one thread per node. Transfers are read and write of
objects with one to three segments, with buffers that are too small, data that is
too long and objects that may not be written; `next` is the transfer the
application asks for in its callback. Disturbances: the connection is cut, the
server restarted, the first frame refused, a transfer aborted with and without
one running, the connection undefined.

`slips` records two cases in which an answered transfer was not done and one in which a
transfer need not end: `"stale"`, a server in mid-transfer ignored a new connection,
`"skipped"`, its sequence layer refused a segment it had already counted, and
`"unkept"`, a frame was sent without a copy.

### NmtMnu

The record `u` is `tNmtMnuInstance` with its node infos, the callbacks of
`identu.c` and `statusu.c`, and the queues. Every handler of `nmtmnu.c` is an
operator of the same name without its prefix, from `u` to `u`. `HandleEvent`
takes from the queue of kernel events, `HandleTimer` from that of expired timers,
which waits for the other (`eventucal-linux.c:331`). `InformApplication` ends every
event of a node, as `processInternalEvent()` does. `IdentAnswer`, `StatusAnswer`
and `CommandSent` are the turns of the asynchronous phase; `Obeys`, `CnGoesOn`
and `CnFails` are the CN as far as it can be seen; `MnGoesOn` is the MN's NMT
state machine.

Disturbances, one or more of the kinds a configuration allows: a lost request,
answer or command, a refused or reset configuration, a CN that restarts or falls
back, a cycle error, a ready timeout that comes while the CN is making it
(`late`), a timer that comes while something about the node is still pending
(`slow`). Calls of the user part into the DLL take effect at once although they
are events. Timing without a disturbance: a timer expires only when nothing about
the node is pending and the CN has followed the MN; a CN stays in a state for a
cycle at least; a reset lasts until its silence has been noticed. Left out: poll
response chaining, the diagnostic node, commands asked for by the user, the
command to stop, StartNode as a broadcast, wrong device types, the timeout of
PreOp1, an application that stops the boot, full queues.


## 3. The runs

| Run | Question | Bounds, and why they are enough |
|---|---|---|
| `TripleBuf` | torn, lost or reordered payloads | two words make a torn payload visible; four productions pass once through the three buffers and on |
| `CircBuf` | does the ring implement a queue; are header and offsets consistent | a ring of 16 bytes with blocks of 8 and 12 bytes: ends exactly at the end, wraps in its data, wraps behind the size word, is full and refuses; no bound on the number of calls |
| `NmtReset` | are resets left properly, and do they end | four outside events, six commands, all frames; two resets race with a third, with a frame or with a timer |
| `NmtBoot` | do flags of an earlier stay count | six outside events: up to PreOp2, down, and up again; informing the user part may fail each time |
| `ErrHnd` | buckets and removals | three error events of any combination between any number of cycles; thresholds 8, 15, 16, 17 are reached in one, two, two and three errors, on and off a multiple of 8 |
| `ErrHndCycleEnd` (violation) | does the end of a cycle only take counters down | three errors |
| `DllCs` | which losses are reported | four lost SoCs in a row: the second is the first that both flags decide about; everything else is unbounded |
| `DllMs` | is the right frame sent, are exactly the silent CNs reported, does the cycle go on or stop | two CNs and the MN's own PRes in the list or none; triggered by the SoC or by the second CN, with and without a wait behind the SoC; two starts, one change of the nodes, one refused frame; every number of cycles; the threshold of exceeded cycles is two errors; with the lock of the Linux kernel |
| `SdoSeq` | is data delivered once and in order, does an acknowledgement swallow data, is the history the window, does waiting end | a history of two frames, so that four frames fill it twice; six numbers and a threshold of two, so that they wrap; a client that sends two frames, a server that sends four, two connections, one disturbance |
| `SdoCom` | does an answer end its own transfer, has a transfer reported finished been done, does every transfer end | two transfers of seven kinds, one after, during or in the callback of the other; two records, a window of two frames for three segments; a frame is repeated once (`RetryCount`), four frames may be on their way to a node when it is asked for or repeated (`MaxAway`); sixteen transaction ids; one disturbance |
| `NmtMnu` | is every node counted once and watched at all times, does no boot step end too early | one CN (mandatory, optional or async-only) and one disturbance of any kind; two CNs, one of them mandatory, on a quiet network |
| `NmtMnuBoot` | does the whole network become Operational | the same, with the disturbances that leave the timing alone, for an optional CN |

TLC checks for deadlock where the model has no state to rest in: a consumer
polls, a ring is read, a cycle ends, a bus goes on. In `NmtReset`, `NmtBoot`,
`NmtMnu`, `NmtMnuBoot`, `SdoSeq` and `SdoCom` a node comes to rest when the bounded
outside events are used up and everything queued is handled, and in `DllMs` when
the last cycle of the bounded starts has been stopped.

In `CircBuf`, `SdoSeq`, `SdoCom` and `NmtMnu`, `TypeOK` is a conjunct of one of their invariants; those of
`DllCs` (`TypeOK`) and `DllMs` (`Typed` of `DllMsProofs`) are proved and need no run.

### What the runs show beyond "no error"

A finding with a run of its own:

* `ErrHndCycleEnd`: `decrementMnCounters()` stores the counter of exceeded
  cycles as the threshold counter of the MN's CRC errors (`errhndk.c:366`); the
  counter of exceeded cycles itself never goes down, so that single exceeded
  cycles add up over days to a cycle error.

Met while modelling; the exceptions in the properties have their reasons here.

PDO and NMT:

* Once two swaps of the triple buffer have overlapped, `newData` can be set with
  nothing new to take, and the next read goes back to an older payload; or it is
  cleared for a payload nobody took (`pdo.h:132`).
* After a cycle error in MsPreOperational2 the flags `fTimerMsPreOp2` and
  `fAllMandatoryCNIdent` still stand, so that the MN returns to that state by the
  timer alone (`nmtk.c:1205`).
* The answers of the user part do not say which visit to a reset state they
  answer. A node switched off and on again before it was answered gets two answers
  to each reset state that follows, and the older one leads out of
  GsResetConfiguration (`nmtk.c:516`). Without GsOff this cannot happen
  (`LeavesResetWhenTold`, proved).

Error handler and CN:

* A CN whose history entry finds no room is marked as tripped but stays in the
  isochronous phase (`errhndk.c:804`); the counters of CRC errors
  (`errhndk.c:582`) are those of another object, but nothing reports such errors.
* `fLossReported` survives Stopped and PreOp1, against its comment in
  `dllk-internal.h:157`. A node that leaves Stopped for PreOp2 between SoC and
  PReq reports a loss of SoC and SoA for a PReq that is in order.

Cycle of the MN:

* If the tick falls between check and copy of `edrvcyclic_setNextTxBufferList()`
  the late list stands in the half that has become current; every later tick then
  finds a list that is not finished, until the threshold of exceeded cycles stops
  the cycle. With threshold 0 nothing does. The same holds after a refused frame:
  nothing more of the list is sent.
* The critical section of the DLL is needed on every target, though `dllktgt.h:70` says
  that all but the Linux kernel do without. There a late PRes can be taken between the
  reset of `fSyncProcessed` and the change of `curTxBufferOffsetCycle` in
  `cbMnSyncHandler()` (`dllknode.c:1221`): it is looked up in the node ids of the
  old cycle, posts a Sync event and sets the flag again. The cycle is prepared once more
  than it should be, and frames of the running list are filled anew before they are
  sent. The mutant `CalledBackUnlocked` is the code of those targets: with it TLC refutes
  `SendingIsUntouched`. With `Locked = FALSE` in `DllMs.cfg` it refutes `SlotTimerIsSound`
  and `LossesAreExact` too, also where the MN waits behind the SoC. The user space driver
  (`edrv-pcap_linux.c` with `hrestimer-posix.c`) is such a target.
* A frame that asks for the next cycle must not be taken before the sync callback
  either. Without `Separated`, `SlotTimerIsSound` and `LossesAreExact` fail even with the
  lock: in the first cycle after a start the confirmation of the SoA can be handled
  between the tick and the sync callback, a second preparation of the running buffer
  follows, and from then on `curTxBufferOffsetCycle` is not the buffer that is being
  sent.
* The first sync callback after a restart reports CNs of the aborted cycle as
  lost: `processStartReducedCycle()` leaves the node ids and `curNodeIndex`
  (`dllkevent.c:1002`, `dllknode.c:1215`).
* `edrvcyclic_stopCycle()` can be overtaken by a `processTxBufferList()` that arms
  the slot timer, and a frame is then sent in PreOperational1.
* `accFrameLenNs` never reaches the time offsets (`dllknode.c:691`).
* With `syncNodeId` a conventional CN the preparation is triggered by its PRes only
  behind the mark of the MN's own PRes, else by the SoA (`dllkframe.c:1995`).

SDO:

* A data frame in WaitAck that leads to Connected leaves the number of the peer
  as it was, and data delivered in WaitAck is in no order (`sdoseq.c:1352`). A
  frame with `rcon` 2 sent there has no copy in the history (`sdoseq.c:1572`). Two
  nodes that miss such a frame ask and repeat for ever, and no timer expires; then a
  transfer never ends, and the application is not told (`TransferEnds` excepts it).
* An acknowledgement can swallow data although no frame is lost or refused. (a) A
  peer takes data in WaitAck without its number; a timer expires early and repeats
  the oldest frame only (`sdoseq.c:1263`); an empty frame with the next number, "already
  processed" for `sdoseq.c:1198`, makes the peer skip the data of that number. It needs a
  ring of three frames; with `HistorySize = 3` TLC finds it once `PunctualMeansDelivered`
  is freed of its condition on `late`. (b) A connection is opened anew while frames of the
  old one are on the way: they acknowledge frames of the new one by the same numbers.
  If both nodes open connections, five of them do without any disturbance. Hence
  `Lossless` speaks of one connection, `PunctualMeansDelivered` of timers that are not
  early and `LosslessMeansDelivered` of peers that take no data in WaitAck.
* A frame the lower layer refuses, and one sent without a copy, has used up a
  number that is missing in the history. An acknowledgement of that number leaves
  `deleteAckedFrameFromHistory()` through its early return (`sdoseq.c:1804`) with
  `freeEntries` counted up and `ackIndex` not moved; the next one counts the same
  frames again, so that `freeEntries` exceeds the size of the ring (`TypeOK` has
  the bound). `HistoryIsWindow` excepts both.
* Refused numbers are taken up by acknowledge frames, and the receiver takes them
  for the missing frame. After `SeqMod - HistorySize` of them an old frame that
  is sent again looks like the next one; `DeliveredInOrder` speaks of fewer.
* A frame that opens the connection anew is taken for its end by a node in WaitAck
  (`sdoseq.c:1338`), which closes it; the peer has to try again.
* A connection the peer closes during the segments of a transfer is reported as
  `kSdoComTransferFinished` (`sdocom-std.c:1421`, `sdo.h:88`).
* An abort when nothing is running leaves the handle busy (`sdocom-std.c:1310`).

Boot of the CNs:

* A mandatory CN that is lost after the last CN of boot step 1 was counted and
  before `startBootStep2()` (`nmtmnu.c:1898`) is not counted any more, and the MN
  goes to ReadyToOperate without it, against `nmtmnu.c:3060`. `NoMandatoryMissing`
  excepts nodes lost since PreOp1 (`fell`); without the exception TLC finds this
  with one lost StatusResponse. `mandatorySlaveCount` then wraps below zero.
* An async-only CN that is configured in PreOp1 never gets EnableReadyToOperate:
  its answer is compared with object 0x1F8E before that is updated
  (`nmtmnu.c:3184`, `nmtmnu.c:3314`). `AllOperational` has no async-only CN.
* With a `timeoutReadyToOp` of 0 (object 0x1F89/4) nothing watches for ReadyToOperate
  (`nmtmnu.c:2973`, `nmtmnu.c:1974`): when EnableReadyToOperate is lost the CN stays
  in PreOp2 and the boot stands still. `AllOperational` speaks of a timeout that is set.
* The timer for ReadyToOperate is deleted but its expiration may be queued; it is
  then taken for the end of CheckCom (`nmtmnu.c:3207`), and the MN may start a CN
  early or stay in ReadyToOperate. `StartedTogether` excepts it (`late`).
* `NobodyIsForgotten` and `StartedTogether` hold after any one disturbance and not
  after any two (`OneDisturbance`); with `MaxFault = 2` and without that condition
  TLC refutes both. The DLL's queue keeps EnableReadyToOperate, StartNode and
  ResetNode when the MN falls back to PreOp1. Sent in the next boot, such a command
  raises its event there, which sets the state expected of the CN and its timer
  anew (`nmtmnu.c:2938`), and the CN is left Configured with no request under way.
  The same happens when the commands StartNode and ResetNode are both lost: the CN
  answers the IdentRequest in ReadyToOperate, which ends the step, and is neither
  asked again nor put back into the isochronous phase. And a ready timeout that is
  in time but still queued when the CN returns to PreOp2 starts it before the MN
  is Operational, as the late one does.
* After a cycle error a second IdentResponse resets the flags of a CN that is in
  the isochronous phase, the DLL ignores the second request to add it
  (`dllknode.c:465`), and the CN stays in PreOp2.

### Fairness

* `NmtReset`: weak fairness of the kernel event thread, of the user event thread
  and of the timer thread. Each is a loop that waits for its semaphore or signal
  and then handles one item (`eventkcal-linux.c`, `eventucal-linux.c`,
  `timer-xeno.c`), and the operating system schedules a thread that is ready. The
  kernel event thread takes internal events first, so an endless stream of them
  would starve the answers of the user part; the model has finitely many.
* `DllMs`: timers expire and the threads run; no fairness of the CNs, of the
  receive order, or of the process that starts a cycle.
* `SdoSeq`: weak fairness of all handlers together: frames that were not lost
  arrive, the command layer reacts, timers expire when nothing else happens. An
  application opens, sends and closes when it likes.
* `SdoCom`: while something can be handled, something is.
* `NmtMnuBoot`: the user event thread runs (weak fairness; strong fairness of the
  expired timers, whose queue waits until that of the kernel events is empty),
  timers expire, the asynchronous phase, the MN's state machine, the application
  and the CNs go on.

Nothing is assumed of the order of the threads.

## 4. The proofs

TLAPS proves, for every value of the constants:

| Theorem | States |
|---|---|
| `TripleBufProofs!TypeCorrect` | `TypeOK`; the buffer numbers stay in 0..2 |
| `TripleBufProofs!NeverTorn` | `NoTornRead` for any payload and any number of productions |
| `TripleBufProofs!NewestSafe` | `NewestIsKept` |
| `TripleBufProofs!FlagExact` | `FlagExactUntilOverlap` |
| `TripleBufProofs!ReadsAdvance` | `ReadsAdvanceUntilOverlap` |
| `CircBufProofs!HeaderConsistentCorrect` | `HeaderConsistent`, with `TypeOK` |
| `CircBufProofs!ImplementsFifoCorrect` | `ImplementsFifo`: the refinement of `Fifo`, for any ring size and any blocks |
| `NmtProofs!TypeCorrect` | `TypeOK` for any commands, frames and number of events |
| `NmtProofs!ReadyTogether` | `ReadyWhenBothAgree` |
| `NmtProofs!SilentMn` | `SilentNextToOtherMn` |
| `NmtProofs!NeverAbandoned` | `NotStuckInReset`, if informing the user part does not fail |
| `NmtProofs!LeavesWhenTold` | `LeavesResetWhenTold`, if informing the user part does not fail |
| `ErrHndProofs!TypeCorrect` | `TypeOK`: no decrement takes a counter below 0 |
| `ErrHndProofs!TrippedStaysRemoved` | `TrippedNodeIsRemoved` |
| `ErrHndProofs!RemovalHasACause` | `RemovedForCause` |
| `ErrHndProofs!SocImplementsBucket` | `SocIsABucket`: the refinement of `LeakyBucket`, for any set of CNs and any thresholds |
| `DllCsProofs!TypeCorrect` | `TypeOK` |
| `DllCsProofs!OnceAtMost` | `ReportedOncePerCycle` |
| `DllCsProofs!FlagIsOfThisCycle` | `FlagOfThisCycleOnceSettled` |
| `DllCsProofs!NoLossSwallowed` | `EveryLossReported` |
| `DllCsProofs!NoFalseLoss` | `NoFalseLossOfSoc`: on an undisturbed bus no loss of SoC is reported |
| `DllMsProofs!Invariant` | the invariant the next two follow from |
| `DllMsProofs!SlotTimerHasItsFrame` | `SlotTimerHasAFrame`: whenever the slot timer expires there is a frame to send |
| `DllMsProofs!ListsAreKept` | `NoListIsOverwritten`: a TX list is never written over |
| `DllMsProofs!FramesAreKept` | `SendingIsUntouched`, with the lock of the Linux kernel |
| `DllMsProofs!SlotTimerSends` | `SlotTimerIsSound`, with the lock of the Linux kernel |
| `DllMsProofs!LostAreTheSilent` | `LossesAreExact`, with the lock of the Linux kernel: for any CNs and changes of them, the CNs reported as lost are the ones asked in vain |
| `SdoSeqProofs!HistoryIsTheWindow` | `HistoryIsWindow`, with `TypeOK`, for any window sizes and any number of frames and disturbances |
| `SdoSeqProofs!DataComesInOrder` | `DeliveredInOrder`, for any window sizes and any number of frames, connections and disturbances |
| `SdoSeqProofs!NothingIsSwallowed` | `LosslessMeansDelivered`, for any window sizes and any number of frames, early timers and connections closed |
| `NmtMnuProofs!ScanIsExact` | `ScanCountIsExact`, with `TypeOK`, for any CNs, any configurations and any number of disturbances |

Assumptions: the payload has a word, the sizes of the ring, of the blocks and of
the readers' buffers are positive, the bounds are natural numbers, the
commands of `Nmt` are NMT commands and its frames are frames the DLL reports,
its three switches are Booleans, the names of the objects of `ErrHnd` are not
nodes (`NameAssumption`), the node id of the MN in `DllMs` is none of a CN,
an SDO connection has two ends, its history has two entries at least, is no larger
than the threshold, and both together fit into the sequence numbers (5, 25 and 64 in
`sdoseq.c`), there are fewer CNs than an unsigned integer counts (254 at most); the
last two theorems of `NmtProofs` ask for `InformMayFail = FALSE`, the last three of
`DllMsProofs` for `Locked`, in so many words.

*Triple buffer.* `NoTornRead` is not inductive: it speaks of a finished copy
only. `IInv` adds that the three numbers are a permutation of 0..2
(`BuffersDistinct`: nobody else touches a buffer one side owns), that the two
buffers the producer does not own hold one whole production each
(`BuffersWhole`), and that a copy in progress agrees with its buffer as far as
it got (`CopiesAgree`). The producer's exchange is the step that matters: its
buffer becomes clean just when its copy is complete. `FlagExact` and
`ReadsAdvance` follow from it and `FlagInv`: until two swaps overlap, `newData` is
1 or about to be set exactly while the newest production is in the clean buffer
and an older one in the consumer's.

*Circular buffer.* Everything is said in distances behind an offset, going round
(`Distance`, `Behind`), so that the end of the ring disappears from the argument.
The two store functions are first shown to leave the same bytes, in one stretch
or in two (`Stored`); only there does the wrapping matter, and that offsets
stay multiples of four: that is why a size word is never split and why what wraps
never reaches back to where the block began. `IInv` says that the blocks of the
queue fill the used bytes without a gap, the oldest first (`Packed`), and that
each is there whole (`Contents`). Such a list of neighbours needs no sum: a
write adds one at the far end (`PackedAppend`) and touches no other
(`StoredKeeps`), a read takes the first away (`PackedTail`).

*NMT state machine.* Lemmas about the transition table (`StepsBetweenStates`,
`ResetSteps`) say what an event that changes the state tells of the two states;
they are proved from the rows, state by state. For the flags, `KernelInv` says
that in CsPreOperational2 each of the two flags stands for an event of this
stay and that both are clear in the other states of a running CN; that a cyclic
MN has heard no other MN, and one in NotActive only with the flag set.
`NotStuckInReset` is inductive itself, because the answer to a reset state leads
out of it. For `LeavesResetWhenTold` the reset states have ranks 1 to 4, and
`OrderInv` speaks of everything on its way between the two parts, the oldest
first: the answers in the U2K queue, the state being answered, the changes in
the K2U queue. Their ranks fall, and none is below the state the kernel part is
in. So an answer that fits the present state is alone, which with
`NotStuckInReset` makes it the answer to this visit. Without `wasOff = 0` the
invariant fails: from GsOff the node climbs with nothing answered.

*Loss of SoC.* `ReportedOncePerCycle` relates two counts and holds because of
two flags. `Counters` says how: a timeout sets both flags, and a report without
a timeout is the first of its cycle and leaves one flag set. `FlagCounted`
adds, for a settled node, where the flag may be set: only in WaitSoc, and only
a SoC received there leads out of it, which clears the flag. `ResetSettles`
shows that such a SoC establishes this in any state, `SettledKept` that every
other call keeps it.

`NoFalseLossOfSoc` is the other direction and needs the bus: as long as nothing was
lost and the node was not stopped, its DLL state goes with the next frame of the
cycle (`InStep`). `Calm` adds that no timeout is due or posted, that the node is
not in Stopped, whose way back into the cycle is out of step, and that it has heard
a SoC before it enters the full cycle; `NothingShown` says that a frame then shows
no loss, `FrameKeepsStep` that it leaves the node in step.

*Error handler.* `IInv` is `TypeOK`, `TrippedNodeIsRemoved` and `SocUntouched`: the
threshold counter of a CN's CRC errors never rises, so that nothing of it can end
in the object of the loss of SoC at the end of a cycle, and an MN counts no loss of
SoC. The handlers run one after the other inside one step, so the
proof follows a state record through them: each handler is a lemma about what it
keeps, and `handleDllErrors` composes them. The refinement then takes one case
of `LeakyBucket` for each handler.

*TX lists.* Whether the slot timer has a frame depends on five variables that two
threads write. `IInv` says that an armed slot timer has a frame ahead of it and
is armed only when the timer thread has left the list (`ArmedForAFrame`), and
that a half found free stays free until it is written (`FoundFree`): a tick
clears one half and fills none, and nobody but the event thread writes. Neither
needs the lock.

*The cycle of the MN.* The rest asks for `Locked`, in so many words, and for none
of the bounds: neither `MaxRx` nor `MaxEv` is needed, and the argument is the same
for every `syncNodeId`; what it shows holds in configurations with `Separated`
(`Kept`). Its first part (`Control`) is that a cycle is prepared once.
What may lead to a Sync event (`MayAsk`), an event that asks for a preparation
(`Asks`), a preparation under way and a list that waits for the tick follow each
other and never coexist (`PrepOnce`), and all of them lie between a sync callback
and the next tick (`Inside`). The callback that posts the event sets the flag that
forbids another one. A frame may be taken before the sync callback, but none that
asks then: with a wait behind the SoC nothing but the SoC is sent before it
(`Paced`), so nothing is on its way, or the flag is still set by the cycle before
(`Quiet`). And none is taken between the reset of the flag and the switch of
the buffer; that is where the lock is needed. So a list is prepared for the
buffer that is not being sent, and the two toggles stay in step (`CycleList`,
`NextList`). A list that was written too late stands in the half of the running
cycle; by then nothing can ask for a frame of it nor for a preparation (`Late`).

The second part (`Data`) is about what the frames and the node ids say. A list and the
node ids written with it belong together (`Fits`: the PReqs are the CNs of the node
ids, in their order, each once), which rests on `Order` giving each node a place of
its own (`OrderHoldsAll`). The CNs asked are those of the frames sent so far
(`SendData`, `TickData`), the CNs reported or answered those before
`curNodeIndex` (`Counted`), and that index never passes the frame to be sent, because
a PRes in the queue was asked for (`AskData`). At the end of a cycle all of the
list was sent, so the rest of the node ids is the rest of what was asked.

*SDO history.* The ring is described by the frames it should hold, counted from the
newest: as many as are not free, at consecutive places, with consecutive sequence
numbers that end at the number sent last (`Window`). Then the loop of
`deleteAckedFrameFromHistory()` strikes a prefix of them: distances between numbers
(`Ahead`) are compared below the threshold only, which is why the window must fit
into it, and the loop stops at the number acknowledged or runs through
(`LoopStops`, `WindowReleased`). The early return cannot happen while no number
is missing. `Handles` says what any handler of `processState()` leaves behind.
Sending adds the frame behind the newest, or none when the ring is full.

*SDO order.* That data arrives once and in order is not inductive, because what the
receiver takes next depends on frames still on the way and on copies that may yet
be sent. `Ordered` gives each of both the data it stands for (also when the copy
had been released, and an old frame goes out once more without its data) and says:
if the receiver has already passed that data, or will have when the frames before
it are taken, then the number it has seen last is fewer than D numbers ahead of
that frame's own; only a distance of `SeqMod - 1` would make it the next
(`Guarded`, `OneBehind`). D is `HistorySize` plus the frames refused, because a
copy that may be sent again lies that close behind the last number given out
(`Near`, `Live`): this is where the condition of `DeliveredInOrder` comes from. A
refused frame uses up a number without taking a place in the ring; `freeEntries`
may count too many entries as free, so that the frames between the two indices are
all that may go out once it does (`Live`). Four things may happen to a line: a
frame is taken or lost (`LineTaken`), the receiver changes without one
(`LineQuiet`), a sender's handler lets frames of its ring or its last number leave
(`LineSent`), a new frame is numbered (`LineData`). The handlers are shown to do
nothing else (`ReceiveHandled`, `TimeoutSound`, `SendSound`).

*SDO acknowledgements.* That nothing acknowledged is missing takes both ends of the
connection and everything on the way. `Sided` says for each node: the states of the two
ends and the frames between them fit one step of the handshake (`Handshake`: which
codes a node in a given stage may find in front of it, and that the call that opens the
connection is alone); the frames of its ring carry their own numbers, and every number
of the peer that its record, its ring or a frame on the way acknowledges is one it knows
(`Grounded`, `Says`), that is, it has handed all data up to it to its command layer
(`Known`); and of each number it has still to hear of there is a frame on the way, in
front of any later one (`Arriving`). So the frame with the next number has the next
data (`NextIsNumbered`): without loss there is no empty frame that uses a number whose
data is not here yet. An acknowledgement strikes numbers up to a known one only
(`AckedNotBelow`, `StruckWasHeard`); this needs that the numbers do not come round. Data
taken in WaitAck is outside of this argument: the receiver's number stays behind, so
`Known` and `Arriving` claim nothing once `loose` is not empty. `Lossless` cannot be
regained, so the invariant only speaks of runs in which it still holds.

*Scan count.* The count is decremented by one handler and set anew by another,
many calls apart. Each handler clears flags and counts down the same nodes
(`Handled`); a state change of the MN marks nodes and counts them (`Entered`).
The second overwrites the count, so no flag of the step before may be left. `InStep`
says why none is: it relates the NMT state of the MN, the state changes still in the
queue, the boot events still on their way to the MN and the step the user part is
in. A queued change upwards means that the application was informed of the step
before and nothing is marked, and none precedes it (`StatesQueued`); with none in
the queue the user part is in the state of the MN (`InState`); a boot event that
can take the MN up is the one of the present step (`EventsFresh`); before PreOp1
nothing is under way (`Quiet`).

Model-checked only: everything about `SdoCom` (whose handlers call each other
recursively); of `SdoSeq` `PunctualMeansDelivered`, where the receiver's number stays behind its data
and the proof would have to count what is asked for again; of
`NmtMnu` `NobodyIsForgotten` and `StartedTogether`, which two disturbances break, so
that they are statements about one, and `NoMandatoryMissing`; all liveness, which is
outside the prover's reach.

## 5. What is not modelled, and the plan

Left out for good: drivers, ports and start-up code (hardware and operating
system), the demo applications, the object dictionary and process image
(sequential data handling), SDO transports and virtual Ethernet (pure I/O).
Uses of freed memory (timer entries, queues at shutdown) are not states of the
program, so no property can speak of them. The critical sections of the DLL are
empty outside the Linux kernel; `DllCs` takes each call as atomic. `DllMs` splits
the sync callback where the lock is missing, and takes every callback of a frame
and every access of the event thread to what it shares as atomic.

What a further development would take up, in this order:

1. `EventQueues`: posts, semaphore tokens and dispatch of both threads; a thread
   must not sleep while its queue holds an event. It would replace the queues
   inside `Nmt`.
2. The ring of SoA requests and the reduced cycle in `DllMs`, with the requests
   of CNs and the generic queues of the DLL CAL.
3. `Timer` for the list of `timer-xeno.c`, `Ctrl` for the start-up of the two
   processes. There the second process that connects to a ring of the Xenomai
   port sets its count to 0 and overwrites the first word of every page without
   the lock (`circbuf-posixshm-xeno.c:313`).
4. What `NmtMnu` leaves out, and the configuration manager behind it.
