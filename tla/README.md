# Formal models of the STM32491 "CPLR" firmware

TLA+ models of the firmware in `src/Firmware` (bootloader and application of an
STM32F4 board) and of the host client that talks to it, with TLC configurations
that check them on small instances and TLAPS proofs of what matters most.

The firmware is a set of *active objects* of the QP/C 5.3.1 framework. Each has
a FIFO queue of events, handles one event at a time to completion in a
hierarchical state machine, and posts events to the others; interrupts and the
tick post events as well. In the bootloader the kernel is QK: an event posted to
an object of higher priority is handled *before* the poster goes on. In the
application the objects are FreeRTOS tasks.

Facts about QP/C that the models use (its sources are vendored, not modelled):
an event that no active state handles is silently dropped (`QHsm_top`); a one-shot
time event disarms itself when the tick posts it; `QTimeEvt_disarm` does not
take back a timeout that is already in the queue; `QActive_recall` puts the
deferred event at the front of the queue; exit handlers are called with a
reserved event, not with the event that caused the transition.

## 1. Inventory

| Component | Source | State it keeps | Operations | Talks to |
|---|---|---|---|---|
| **FlashMgr** (bootloader) | `Bootloader/src/app/FlashMgr.c` | state, offered metadata, packet counters, flash address, list of sectors and index, retry counter, error code, 3 timers | firmware-update session; RAM test | CommMgr by events; flash driver and SDRAM tests by calls |
| **flash driver** | `Common/bsp/flash.c` | the flash itself (image area, metadata words) | sector list, erase, program with read-back, metadata words, CRC of the stored image | called by FlashMgr, CommMgr, `main` |
| **CommMgr** (bootloader) | `Bootloader/src/app/CommMgr.c` | state, the request being served, the status and payload of its reply, 2 timers | decode, acknowledge, validate, forward, wait, reply; decision to boot | every other object, client through LWIPMgr/SerialMgr |
| **SerialMgr** | `Common/bsp/serial/{SerialMgr,serial}.c` | state, DMA buffer, deferral queue, receive buffer | send a message or log by DMA, receive a line | CommMgr; DMA and UART interrupts |
| **LWIPMgr** | `Common/bsp/qpc_lwip_port/LWIPMgr.c` | connection, data being sent, deferral queue | TCP/UDP receive and send | CommMgr, lwIP callbacks |
| **I2CBusMgr** | `Common/bsp/i2c/{I2CBusMgr,i2c}.c` | bus state machine, DMA buffers, timers | start, address, read/write by byte or DMA, bus recovery | I2C1DevMgr, I2C and DMA interrupts |
| **I2C1DevMgr** | `Common/bsp/i2c/{I2C1DevMgr,i2c_dev}.c` | request, page-write plan, retry state | read and write EEPROM and I/O devices | I2CBusMgr; CommMgr, SysMgr, CPLR |
| **SysMgr and database** | `Common/sys/{SysMgr,db}.c` | element being accessed, database location | read, write, check, reset elements | I2C1DevMgr, flash, CommMgr |
| **application CommMgr** | `Application/src/app/CommMgr.c` | as the bootloader's | dispatch of requests, waits for replies | as above |
| **CPLR, FRT I2C access** | `Application/src/app/cplr/cplr.c`, `bsp/i2c/i2c_frt.c` | raw queue of the task | blocking I2C read/write from a task that suspends itself | I2C1DevMgr |
| **host client** | `Client/src/shared_lib_src` | connection, pending response | `flashFW`, `setMode`, `readI2C`, ... | the board |

What is hard in this code, and what makes each component correct:

* *Pairing of steps and events.* The state machines drive themselves with events
  they post to their own queue while timers, clients and interrupts post to the
  same queue. A step must neither be lost nor run twice.
* *Timers.* Timeouts already queued survive the disarming of their timer; the timers of inner and
  outer states nest; not every exit disarms what the entry armed. A timeout must
  be reported as one and end only what it was armed for.
* *Power loss and failing flash.* A half-erased sector, a half-written packet or
  half-written metadata must never be booted as a good image.
* *Replies.* Each reply is composed from members (`errorCode`, a payload union)
  set on many paths. It must belong to its request and be true.
* *Deferral.* SerialMgr, LWIPMgr, I2C1DevMgr and SysMgr put events aside while they are busy;
  nothing may be stranded or overtaken.
* *Anonymous answers.* Ends of transfers, answers of the bus and of I2C1DevMgr, and messages to the client
  carry no name or one that is not compared. What keeps them apart is order.
* *Buses.* I2C transactions nest time limits, retries and recovery.

`PROJECT.json` lists each hazard at its line with the properties that cover it.

## 2. What is modelled now

### FlashMgr (`FlashMgr.tla`)

One variable per thing that exists: `st` is the leaf state, `flashQ` and `commQ`
the queues of FlashMgr and (its replies only) CommMgr, `ses` the struct members
of the session, `armed` the running time events, `area` and `meta` the flash. `hw`
is the flash operation inside the handler that is running: a handler that erases
or programs is split where the code waits for the flash, since there timers fire and
power can be lost; nothing else is split.
`accepted` and `dirty` are history variables: the packets taken in the session, and
whether the area was touched since the metadata was last erased.

| Handler in `FlashMgr.c` | Action |
|---|---|
| Idle / `FLASH_OP_START_SIG`, entry of BusyFlash and PrepFlash | `IdleStart` |
| PrepFlash / `FLASH_NEXT_STEP_SIG` | `PrepRejects`, `PrepAccepts` |
| PrepFlash / `FLASH_OP_TIMEOUT_SIG` (ErasingSector inherits it) | `PrepOpTimeout` |
| ErasingSector entry: `FLASH_eraseSector` | `EraseSucceeds`, `EraseFails` |
| ErasingSector / `FLASH_NEXT_STEP_SIG` | `EraseNextSector`, `AllErased`, `RetryErase`, `GiveUpErase` |
| WaitingForFWData / `FLASH_DATA_SIG` | `DataAccepted`, `DataCorrupt`, `DataOutOfSequence` |
| WritingFlash entry: `FLASH_writeBuffer` | `ProgramSucceeds`, `ProgramFails` |
| WritingFlash / `FLASH_DONE_SIG` | `AskForNextPacket`, `StartCommit` and `CommitField` / `CommitFails`, `ImageMismatch` |
| WritingFlash / `FLASH_ERROR_SIG` | `RetryWrite`, `GiveUpWrite` |
| BusyFlash / `FLASH_TIMEOUT_SIG`, `FLASH_ERROR_SIG` | `SessionAborts` |
| BusyRam and its children | `IdleRamTest`, `RamTestPasses`, `RamTestFails`, `RamTimeout` |
| unhandled events | `Ignore` |
| exit of BusyFlash + entry of Idle | the operator `LeaveBusyFlash`, part of the actions above |

Abstractions. Flash is a row of slots of one packet each, and a CRC *is* the
content it was computed over (no collisions). A packet carries a model value.
The version and date words are one value. A failing or interrupted flash operation
leaves the old content or `Torn`. Programming a cell needs it `Blank`, `Torn`
or already holding the value, because programming only clears bits and is read
back. CommMgr is the environment: any request at any moment it can run, which under
QK is only when FlashMgr has nothing to do (`Quiescent`), with at most `CommLimit` unread
replies. This includes clients that repeat, skip, reorder or never send packets.

`FwStore.tla` is the abstract specification: a store that gives up its image
before a new one is staged and installs only a prefix of what was staged. FlashMgr
implements it with `installed` = the content the stored CRC stands for, unless the
area was touched since, and `staged` = the packets written.

### FlashMgr as CommMgr sees it (`FlashService.tla`)

The second abstract specification: what a caller can rely on, in nine actions. At most one request (`job`)
is being worked on; a session is `open` or not; a request the state does not
handle is dropped without a reply (`Unheard`); any other gets exactly one
reply; an open session may end by its timer with a reply nobody asked for (`Expired`);
and the image is `bootable` only after a session vouched for it, and no longer
after the first erase. FlashMgr implements it (`ImplementsService`), with
`job` = the request in its queue or behind its state and `bootable` = what
CommMgr computes from stored CRC, size and content.

### CommMgr of the bootloader (`BootComm.tla`)

BootComm EXTENDS FlashService: its steps are those of CommMgr, of that abstract
FlashMgr, of the timers, and of clients, I2C1DevMgr and SysMgr. `commQ` is the one
queue everything is posted to; `req`, `payload` and `union` are `basicMsg` and the payload
union; `out` is the last message sent. `mine` (where the reply to the current request is
queued) and `cut` (a request was ended before it was looked at) are history.

| Handler in `CommMgr.c` | Action |
|---|---|
| Idle / `SER_RECEIVED_SIG`, `CLI_RECEIVED_SIG` (with the entries of Busy and ValidateMsg) | `IdleSerial`, `Accept` |
| ValidateMsg / `MSG_PROCESS_SIG`, answered at once | `AnswerHere`, `AnswerUnset`, `BootAccepted`, `BootRefused` |
| the same, I2C access by polling | `StartBare`, `FinishBare` |
| the same, forwarded | `ForwardToFlash` and `FlashHasRun`, `ForwardToI2C`, `ForwardToSys` |
| WaitForRespFromFlashMgr / `FLASH_OP_DONE_SIG`, `RAM_TEST_DONE_SIG` | `FlashReplied` |
| WaitForRespFromI2C, WaitForRespFromSysMgr | `I2CReplied`, `SysReplied` |
| Busy / `COMM_MGR_TIMEOUT_SIG`, `COMM_OP_TIMEOUT_SIG` | `TimedOut` |
| Active / `BOOT_APPL_SIG` | `Boot` |
| unhandled events, such as requests while busy | `Ignore` |
| exits of the inner state and of Busy, entry of Idle | the operator `LeaveBusy` |

Two handlers are split, because much happens inside them: the post to
FlashMgr, which under QK returns only when FlashMgr has erased or written, and polled
I2C access. In both, timers fire and clients' events are queued. `FLASH_FW_DONE_SIG`
is handled by CommMgr and posted by nobody, so it has no action.

Abstractions. An error code is none, an error, the session timer's, or `JUNK`: a word
of the request that is read as an error code because the reply's payload is a member of the
same union. Requests differ by kind and first word only. `BadPayload` stands for the wrong payload of any
message. I2C1DevMgr and SysMgr answer a request later, once, or never; their answers are
published, so those to others arrive too.

### Sector list (`FlashLayout.tla`)

`FLASH_getSectorsToErase` iteration by iteration, with real addresses and the 24
sectors of the chip, for every size `FLASH_validateMetadata` accepts. The look-ups scan
pairs of neighbours and so never find the last sector; a write past the caller's array
ends the model. `EndsInsideIffFits` says for which accepted sizes the walk comes to its end, and
that is not all of them.

### The serial port (`SerialMgr.tla`)

SerialMgr copies one message at a time to the transmit buffer of a DMA stream; until
the end of the transfer is reported, or its timer expires, requests to send wait in a deferral queue, and
each return to Idle puts *one* of them at the front of the event queue. A message is
the number of its posting, so that order, loss and repetition can be stated. `wire` is what left the port
(whole, or cut short because the stream was configured anew under it). The
receive interrupt is modelled character by character (`Keep`), with three kinds of
character: it is about the limits of a buffer.

| Source | Action |
|---|---|
| Idle / send signals, entry of Busy, `Serial_DMAConfig` | `IdleSend` (`StartTransfer`) |
| Idle / `DBG_LOG_SIG`, logging disabled | `IdleSkipsLog` |
| Idle / late end of transfer or timeout | `IdleDropsEnd` |
| Busy / `UART_DMA_DONE_SIG`, `UART_DMA_TIMEOUT_SIG`, entry of Idle | `BusyEnd` (`EnterIdle`) |
| Busy / send signals | `BusyDefers` |
| `Serial_DMASendCallback`, `Serial_UART1Callback`, tick | `DMASendCallback`, `UART1Callback`, `TimerExpires` |

### The I2C stack (`I2CBus.tla`, `I2CDev.tla`, `I2CSystem.tla`)

Three modules, each extending the one before. `I2CBus` is I2CBusMgr with the peripheral, its DMA
callbacks and the EEPROM: one action per bus operation and two or three outcomes of
each. I2CBusMgr polls the peripheral by events it posts to itself, and the object
below it does not run meanwhile, so an operation that only polls is one step;
waits for a timer or the DMA are states (`bst`). `phase` is how far the peripheral
is, `held` its BUSY flag, `mem` and `ptr` the EEPROM, whose page write wraps
around in its page. `armed` says that the transmit stream holds bytes of a write that timed out: the
handler of that timeout disables the stream of the *reads* (`I2CBusMgr.c:2157`). The next transfer that makes the
peripheral a transmitter sends them before the CPU writes the internal address (`LeftoverIsSent`, `AddrIsLost`), so the
EEPROM takes data for an address and what follows for data (`Strays`); `leaked` records it. Setting the stream up
anew, a recovery of the bus or the error interrupt empties it. `I2CDev` is I2C1DevMgr: a request is a sequence of states, each
posting one operation and taking the next answer for its own, because
answers carry no name. `PagePlan` is `I2C_calcPageWriteSizes`. `I2CSystem` adds the clients: active objects,
and the CPLR task, which posts a read, suspends itself and is
resumed by I2C1DevMgr when the reply is in its raw queue; Ethernet messages enter
the same queue.

The timers follow `DC3Timeouts.h`: those of I2C1DevMgr are longer than what the bus object
needs, except for the wait for EV8 and the DMA read (0.39 s against 0.4 s and 0.6 s)
and the 10 s of a request that takes several pages. Only those may fire before the
bus answers (`OpTimerFires`, `RequestTimerFires`; `late` records it).

### Settings (`SysDB.tla`)

SysMgr and `db.c`: the checks at start-up, reads and full resets, over a queue of requests
to I2C1DevMgr (`i2cQ`) that is served in order, each once. That is what `RepliesInOrder` and
`EveryRequestAnswered` show of `I2CSystem`. Answers are published, so SysMgr sees those to CommMgr's
raw transfers as well, and the raw writes change the same EEPROM: `RawWrites` is the set of what they may leave in
the elements they reach. The EEPROM is a function of its elements: an element is the bootloader's
default, the application's, another value, or bytes of an old and of a new one (`mixed`). `BOOT` stands for the three
elements of the bootloader's version, `DBG` for the two of the debug control.

A write is programmed in pages of 8 bytes (`PageSize`), and `FirstByte` and `LastByte` are the offsets of
`SettingsDB_t`: seven pages, the address on the first two of them. A reset of the board leaves the first pages
of a write, up to any of them (`Interrupted`). A failing transfer spoils one page, and the write ends there or, where the failure was not
noticed, goes on behind it (`Spoiled`). `Restart` resets the board into either image.

Two histories say what an answer may be compared with: `held` is every content the EEPROM has had since SysMgr took up
the request it works on, `touched` the elements CommMgr has written over. `quiet` says that nothing disturbed the exchange since the
last reset of the board: no failed transfer, no timer, no answer of another requester taken for
SysMgr's own. What bytes left over in the DMA stream (`LeftoverIsSent` above) do to the settings is
behind a failed transfer, and so not in this module.

### The Ethernet port (`LWIPMgr.tla`)

LWIPMgr and the callbacks lwIP makes to it. `es` is the `echo_state` of the log and the system port,
`lwipQ` and `deferred` the queues, `remote` the address the one UDP control block is
connected to, `asking` the clients CommMgr has not answered. Every outcome of
`pbuf_new` and `tcp_write` is allowed at every call. A message lwIP did
not take stays behind as a pointer (`es.p`); the callbacks send what it points to,
which may be that message or not.

### Firmware update from end to end (`FlashFW.tla`)

FlashFW EXTENDS BootComm and replaces its arbitrary clients by `DC3_flashFW` of the host
client: ask for the boot mode, set it, send the metadata and the packets, waiting after
each for an Ack and a Done. Every message, either way, may be lost; every
wait may time out. `call` is where the client is, `queue` its queue of received
messages, which nothing clears between calls. `due` gives FlashService the
sequence numbers. So the composition reaches from the client to the flash: FlashMgr
implements FlashService, BootComm uses it, FlashFW uses both.

## 3. Runs

| Run | Instance | Shows |
|---|---|---|
| `flash_mgr` | 2 sectors x 2 packets, 2 chunks, 7 offers, 1 retry | `TypeOK`, `OneStepPending`, `AreaHoldsPackets`, `MetadataHonest`, `SuccessIsReal`, `ImplementsStore`, `ImplementsService`, `SessionEnds`, `JobEnds` |
| `boot_comm` | flash, RAM-test, boot and one polled I2C request; 2 client events queued | `NobodyForgotten`, `LateReplyDropped`, `BootsIntactImage` |
| `boot_comm_all` | one request per way to be served; SysMgr uses the I2C bus | `TypeOK`, `RequestEnds` |
| `boot_comm_boot` | boot, metadata and polled I2C requests; 3 client events | *violated* `BootIntact`: an erased image is booted |
| `flash_layout` | the chip's sectors, accepted sizes around each boundary, up to the largest | `EndsInsideIffFits`, `ErasesTheImage` |
| `flash_fw` | image of 2 packets, 2 calls, 4 tries to get the mode | `RepliesAreOwn`, `SuccessIsStored` |
| `flash_fw_status` | 1 packet, 2 tries | *violated* `OkMeansStored`: success is reported, nothing stored |
| `serial` | 4 messages, deferral queue of 2, lines of 2 characters and around | `SerialTypeOK`, `CutOnlyByTimeout`, `NoneLostOrRepeated`, `InOrder`, `LineArrives`, `DeferredIsHandledUnlessSkipped` |
| `i2c` | EEPROM of 3 pages of 2 bytes; 3 requests out of a read, a write over 3 pages, a refused write; 1 fault | `TypeOK`, `OneAnswerPending`, `OkIsReal`, `NoStrayWrite`, `RepliesInOrder`, `EveryRequestAnswered`, `TaskIsResumed` |
| `i2c_write_timeout` | the same, 1 request | *violated* `WriteTimeoutReported`: a write cut short is reported as done |
| `sys_db` | 2 requests or raw transfers, 1 mishap (failed or slow transfer, reset), EEPROM with or without a database of this version | `SysTypeOK`, `RepliesAreTrue`, `ChecksRepair`, `SettingsSurvive`, `AskedIsAnswered` |
| `lwip` | 3 log messages, 2 connections, 2 failures, 2 datagrams of 2 clients, deferral queue of 2 | `LWIPTypeOK`, `NoneLostOrRepeated`, `SendingEnds`, `AnswerGoesToAsker` |

The runs with `CHECK_DEADLOCK FALSE` bound what their clients do; when that is used up
and everything is answered, nothing is left to happen.

Why the bounds are enough. Two sectors distinguish "next sector" from "last
sector" and from the metadata sector; two packets per sector let an image end
in the middle of a sector, fill it, or cross into the next one; two chunks let
an image differ from the one before, so a stale CRC and a wrong order are
visible; one retry distinguishes first failure, retry and giving up. The offers
include an image whose packet count is smaller and one whose count is larger
than its size, and refused ones. No run bounds the number of sessions: queues
are bounded because FlashMgr posts one event per step and a timer one per
arming. In `CommLimit = 1` the one reply stands for the 30 places of CommMgr's
queue: FlashMgr never reads them.

BootComm's queue of 30 is cut at `CliLimit` for clients only; timers and replies
add at most a few more. Two queued requests let a timeout or a reply of one request
meet the next one and the one after it; the violation of `BootIntact` needs three.
`BootsIntactImage` is the part of it that does hold: only a timeout
that ends a request in ValidateMsg (`cut`) can lead to such a boot. `LateReplyDropped` has the
same condition, which this instance would not need: in the behaviour that breaks the property
without it three requests are cut short, with up to eight events queued (`CliLimit = 8`), more
than the run explores. The proof, which has no bound, found it (section 4).

The new components are bounded by what happens in a behaviour: messages
posted (`MaxMsgs`, `MaxLogs`), requests (`MaxReqs`, `MaxAsks`), calls (`MaxCalls`),
connections, faults. Three messages are the least for a recalled one to be overtaken by a later
one and to overtake another; a deferral queue of one or two overflows and still holds
an order (the code's queues take 101, 201 or 21 events: an array and one at the front). A write of four bytes from the middle of a
page has a partial first page, a whole one and a partial last one. `LeftAddrs`, the addresses bytes left
over can be taken for, has one, outside the range of the write; the proofs have any set. One fault, and the bus held or free after it as it likes, makes the two I2C objects recover, retry or lose step; the
proofs have any number. The raw write of `sys_db` begins in the middle of the magic word and ends with the address: it destroys the database,
changes the setting and leaves the bootloader's version to the checks. One mishap of
each kind suffices to make a late answer meet the next request; two requests of
each client let one be deferred behind the other. Two calls of the client let the replies of a call that gave
up meet the next; two packets have a first one that is not the last.

Fairness (`LiveSpec`). The kernel runs FlashMgr while it has events, a flash
operation returns, and an armed time event expires, because the tick interrupt keeps
counting. *Nothing* is assumed of CommMgr or the client, and of success or
failure of a flash operation: a session in which every write fails forever
ends by its 120 s timer. In BootComm the fairness of FlashMgr's steps while it has a request is
what `JobEnds` shows of the detailed FlashMgr; I2C1DevMgr and SysMgr get none.

In the other components: an object runs while its queue is not empty, and an armed timer expires.
`SerialLive` assumes nothing of the DMA: its timer is there for that. `Live` of I2CSystem adds
that the bus object leaves a wait by its operation timer, which is armed in every wait, and that the
task runs when resumed. `SysDBLive` adds that I2C1DevMgr serves its queue,
which is `EveryRequestAnswered` of the run `i2c`. `LWIPLive` assumes nothing of the network.
FlashFW has safety properties only.

### Known deviations

What the code does and a comment or a reader would not expect. Those marked with a
statement are written in the module; adding the statement to the `PROPERTY` (or
`INVARIANT`) of the configuration named makes TLC show it.

| Where | What | Statement |
|---|---|---|
| `CommMgr.c:688` | a queued timeout shifts the processing of requests; an erased image can be booted | `BootIntact`, run `boot_comm_boot` |
| `CommMgr.c:741` | after three requests were cut short that way, a late reply of FlashMgr can be taken for a later request's; the behaviour found has up to 8 events queued, of 30 | see `LateReplyDropped` |
| `I2CBusMgr.c:2144` | a DMA write that times out is reported as done | `WriteTimeoutReported`, run `i2c_write_timeout` |
| `I2CBusMgr.c:2157` | its handler disables the DMA stream of the reads; the rest of the page goes out in the next transfer, as an address or as data | `WritesStayInRange`, `I2C.cfg` |
| `ClientApi.cpp:1110` | replies of an earlier call pass for those of the next | `OkMeansStored`, run `flash_fw_status` |
| `FlashMgr.c:793` | a session that times out while writing is reported without an error ("Set the timeout error code") | `TimeoutIsAnError`, `FlashMgr.cfg` |
| `FlashMgr.c:893` | write retries are not counted ("retry %d out of %d max") | `RetriesAreCounted`, `FlashMgr.cfg` |
| `FlashMgr.c:687` | the timeout of the wait for data has no handler | `WaitForDataTimesOut`, `FlashMgr.cfg` |
| `FlashMgr.c:780` | the operation timer survives its session and ends the next one | `PrepHasItsOwnTimer`, `FlashMgr.cfg` |
| `CommMgr.c:722` | a timeout is not reported as an error to the client | `TimeoutReported`, `BootComm.cfg` |
| `CommMgr.c:998` | nor is a wrong payload | `BadPayloadReported`, `BootComm.cfg` with `Requests <- MCBadRequests` |
| `flash.c:256` | for sizes of 0x1A0000 and more, which are accepted, the walk overruns its array | `NeverOverruns`, `FlashLayout.cfg` |
| `SerialMgr.c:260` | a log message skipped in Idle strands the deferred ones until the next transfer | `DeferredIsHandled`, `SerialMgr.cfg` |
| `serial.c:390` | an empty line, or one longer than the buffer by one, spoils the line after it | see `LineArrives` |
| `SysMgr.c:684` | SysMgr takes the answer to another requester's transfer for its own | `RepliesAreOwn`, `SysDB.cfg` |
| `SysMgr.c:874` | any failed read during a check resets the whole database (`db.h:161`: "only ... if it is found to be invalid") | `ResetOnlyIfInvalid`, `SysDB.cfg` |
| `LWIPMgr.c:688` | the exit of Idle defers the exit event, not the message ("Defer the event ... and it will try again") | `FailedIsDeferred`, `LWIPMgr.cfg` |

And without a statement: `SysMgr.c:503`, an access that times out after the request was posted is answered
without an error, because `DB_read` has cleared the code; `SysMgr.c:477`, a full reset that finds SysMgr busy is
dropped without a reply;
`I2C1DevMgr.c:529` and `550`, a stale timeout in ValidateRequest or PostWriteWait is answered with no error and no
bytes; `I2C1DevMgr.c:543`, a request that finds the deferral queue full gets no reply and the
suspended task is not resumed; `i2c_frt.c:83`, the task takes whatever is first in its queue for its reply;
`i2c_dev.c:180`, the last address of a device cannot be written; `LWIPMgr.c:560`, without a
buffer a reply is lost and nobody is told; `LWIPMgr.c:1436`, once connected the UDP port hears one client only;
the application's `CommMgr.c:283` does not subscribe to the answers it waits for.

## 4. Proofs

Every safety invariant and action property below is proved for all values of the
constants. Each inductive invariant was first checked by TLC, as an invariant of the
component's run, and is laid out as a conjunction of named parts with one lemma per
handler; what several components need of queues is in `Places_proofs.tla`.

`FlashMgr_proofs.tla`

* `TypeCorrect`: `Spec => []TypeOK`, one lemma per handler.
* `MetadataStaysHonest`: `Spec => []MetadataHonest`, for every number and size
  of sectors, all offers and any retry limit. `MetadataHonest` alone is not inductive:
  it does not say why writing a packet cannot falsify it. `HonestInv` adds `Phases`:
  once erasing begins `dirty` holds until the metadata sector, the last
  of the list, is erased; from then on the metadata is blank while packets are
  written; and while it is written, field by field, the image has just been found to
  match the offered CRC and size, and each written field is the offer's.
* `StepsAreDrivenOnce`: `Spec => []OneStepPending`, inductive with `HonestInv` (`StepInv`).
* `PacketsAreInArea`: `Spec => []AreaHoldsPackets`. `AreaInv` says what each phase knows of
  the area: the sectors before `index` are blank, the slots before `addr` hold the
  packets taken, and the slot at `addr` is the only one a failed write can have
  damaged, in which case its retry is under way (`OnItsWay`).
* `SuccessIsTrue`: `Spec => SuccessIsReal`, an action property from `FullInv`.
* `StoreIsImplemented`: `Spec => ImplementsStore`. Each handler is a step of FwStore or a
  stutter: the image becomes readable in the one step that writes the last
  field of the metadata, and unreadable in the one that erases it.
* `ServiceIsImplemented`: `Spec => ImplementsService`. `ServiceInv` adds that a request is
  only ever at the head of the queue, and that the error code CommMgr takes for an
  expired session is set only while a packet is awaited.

`FlashLayout_proofs.tla`

* `WalkEndsInsideIffFits`: `Spec => []EndsInsideIffFits`, for every ascending sector map and every
  accepted size. An image that ends below the last sector is walked to its end inside the array, with
  every look-up found: `currAddr` is the base of the sector after the last one listed. One that
  reaches the last sector is never walked to its end: the walk cannot step past it.
* `ListIsRight`: `Spec => []ErasesTheImage`: a list that was finished is exactly the sectors of the image, in
  order, then the metadata sector.

`BootComm_proofs.tla`, for every set of requests and any limit on what is queued

* `CommTypeCorrect`: `Spec => []TypeOK`.
* `NobodyIsForgotten`: `Spec => []NobodyForgotten`, inductive together with the
  types: what a state ignores is never the event it waits for, and a timer that
  leaves `armed` enters the queue.
* `OnlyIntactIsBooted`: `Spec => BootsIntactImage`. The invariant, `BootInv`, is
  about the order of the queue: while no request was cut short, one `MSG_PROCESS` at
  most is queued, in ValidateMsg only, and behind any `BOOT_APPL`; so nothing reaches
  FlashMgr between the check of the image and the jump. The request that is cut
  short (`BootIntact`, run `boot_comm_boot`) leaves exactly the stray `MSG_PROCESS`
  this invariant excludes.
* `LateIsDropped`: `Spec => LateReplyDropped`. `AnswersInStep`, on top of `BootInv`: an
  answer of FlashMgr in the queue is the one to the request at hand once that was
  posted; before, it is ahead of the `MSG_PROCESS` of that request and will be ignored
  first. A stray `MSG_PROCESS` is what can get ahead of a late answer. Without
  `~cut` the property was false, although it held in the run: each request cut short leaves
  one stray `MSG_PROCESS`, and with three of them a request is posted, times out,
  and its answer meets the next one, posted by the next stray.

and, with FlashFW, for every number of packets, calls and tries, under the hypothesis
`OnlyUpdates` that the client is the one FlashFW describes (`Requests = FlashRequests`, as in the
configurations):

* `RepliesAreItsOwn`: `FlashFWSpec => []RepliesAreOwn`. `OwnStage`: the one request is on its
  way, being served, or over, and of the two messages the board sends for it no more
  are queued than the client has yet to take. The client takes two messages before it goes
  on, whatever they are; if one is lost, a wait times out and the call is over.
* `OkIsStored`: `FlashFWSpec => []SuccessIsStored`. `Truth`: as long as no timer of the board
  interfered, the second message to a request is a Done, and one that says the last packet was
  written is true, from FlashMgr's answer through CommMgr's queue to the
  client's; `Stored`: after the call returned nothing of it is left that could erase the image.

`Places_proofs.tla` holds the lemmas about sequences of events: what `Append`, `Tail` and
an insertion at the head do to the set of things held, to their being
held once (`Once`) and in order (`Ascending`). The properties that say "each message is
in one place" are stated with positions and sets (`Places.tla`) instead of
sums and filters, which the provers cannot unfold.

`SerialMgr_proofs.tla`, for every number of messages and both lengths of queue

* `SerialTypeCorrect`: `SerialSpec => []SerialTypeOK`.
* `CutsArePaidFor`: `SerialSpec => []CutOnlyByTimeout`.
* `MessagesAccountedFor`: `SerialSpec => []NoneLostOrRepeated`.
* `SentInOrder`: `SerialSpec => []InOrder`. `OrderInv` is the whole line a message stands in:
  what was sent, what the DMA sends, what is deferred, what is queued, each part
  ascending and each older than the next, except that in Idle a recalled message
  is at the head of the queue.
* `LinesReceived`: `SerialSpec => []LineArrives`; `RxInv` says what both buffers hold
  between two characters.

`LWIPMgr_proofs.tla`

* `LWIPTypeCorrect`, `AnswersReachTheirAsker` and `LogsAccountedFor`: `LWIPTypeOK`,
  `AnswerGoesToAsker` and `NoneLostOrRepeated`, the first together with `EsSound`: a connection
  that is one has a state, and only the log's is ever left with a message.

`I2C_proofs.tla`, for every EEPROM, page size, set of requests and number of faults

* `I2CTypeCorrect`: `Spec => []TypeOK`. What the EEPROM may be sent needs more than types:
  `RequestInv` says what an accepted request and its current page look like, `CmdInv` that
  the operation posted is the one the state waits for.
* `RepliesKeepOrder`: `Spec => []RepliesInOrder`, with `OrderInv`: the request being served or
  recalled, the deferred ones and the queued ones, in this order, are those not yet
  answered.
* `WritesStayInside`: `Spec => []NoStrayWrite`, with `AimInv`: where a transfer goes that the
  peripheral is ready for; a dropped or failed operation leaves it ready for none. The one exception is in the statement:
  once bytes left over in the stream of a write that timed out were sent (`leaked`), nothing is claimed, and
  `WritesStayInRange`, the statement without the exception, is false.
* `ObjectsInStep`: `Spec => []OneAnswerPending`, with `StepInv`: answers queued, operations
  under way and operations posted add up to one in each state that waits, to none in
  the others.
* `SuccessIsReal`: `Spec => []OkIsReal`, with `TruthInv`: how much of the request is
  already true of the EEPROM, state by state.

`SysDB_proofs.tla`

* `SysTypeCorrect`: `SysDBSpec => []SysTypeOK`.
* `AnswersAreTrue`: `SysDBSpec => []RepliesAreTrue`, and `SettingsKept`:
  `SysDBSpec => SettingsSurvive`, for every set of raw writes. `FlowInv`: while `quiet`, SysMgr has at most one request or answer
  of its own under way, and it is the one its command calls for (`Due`, `Fits`); CommMgr's may be queued before and
  behind it, and what it read or wrote is among the contents `held`. `AskedInv`: a full reset in any
  queue was asked for.
* `ChecksDoRepair`: `SysDBSpec => []ChecksRepair`, if `DeferMax >= 3` (the code has 21). `RoomInv`: the
  checks posted at start-up come before anything else in the queue, so
  none meets a full deferral queue; `RepairInv`: each element is right, or its check is queued, deferred or under way, or
  a raw write has reached it since. It starts from whatever pages a reset of the board left unwritten.

Assumptions: those on the constants, each named in the module that declares them and as
weak as the proofs allow (`SizesAssumption`: the sizes are positive, the model values are
distinct; `OffersAssumption`: what an offer is; `RequestsAssumption`: what a
request is; `LayoutAssumption`: the sector map ascends; and so on), `DeferMax >= 3` as one of `ChecksDoRepair`, `OnlyUpdates` as one of those of FlashFW.

Model-checked only: the liveness properties (`SessionEnds`, `JobEnds`, `RequestEnds`,
`DeferredIsHandledUnlessSkipped`, `EveryRequestAnswered`, `TaskIsResumed`, `AskedIsAnswered`,
`SendingEnds`), because liveness under fairness needs `ENABLED`, which is outside
the prover. Every invariant, action property and refinement a passing run checks
is also proved.

## 5. Plan

The update path, where a mistake costs the board its firmware, came first; the
buses and the transports followed, then the composition with the client.

| Step | Module | Composes |
|---|---|---|
| done | `FlashMgr`, `FwStore`, `FlashService`, `FlashLayout` | FlashMgr implements both abstract specifications |
| done | `BootComm` | CommMgr over FlashService |
| done | `FlashFW` | the client over BootComm |
| done | `SerialMgr`, `LWIPMgr` | each with its interrupts or callbacks |
| done | `I2CBus`, `I2CDev`, `I2CSystem` | bus, device object and clients |
| done | `SysDB` | SysMgr over an abstract I2C1DevMgr |
| next | `AppComm` | the application's CommMgr, as BootComm |

Theorems still to come: those of `AppComm`, which needs the types and `NobodyForgotten` of
BootComm once more.

## 6. Not modelled, and why

* `main.c` of both images (clock and pin set-up; the choice to boot at power-up), `nor.c`, `sdram.c`,
  `time.c`: register access in sequence. The outcome of an SDRAM test is a choice in FlashMgr.
* Console output, debug switches, message texts, the command-line client: formatting.
* The encoding of messages (protobuf, base64): generated or vendored. A
  message that decodes to nothing is an `Unknown` request in BootComm.
* The sizes of the event pools: allocation failure is an assertion in QP/C, which stops the board.
* QP/C, lwIP, FreeRTOS, Boost, CMSIS and the ST libraries: third-party code; the
  facts used are listed at the top.
* The application's CommMgr: its states and handlers are those of the bootloader's, with other messages and
  without the jump; what differs is described above.
* Handlers of signals nothing posts: `DB_SET_ELEM_SIG`, `DB_WRITE_SIG`, `DB_INTRNL_FULL_RESET_SIG`, reading and writing
  of single bytes in I2CBusMgr, `ETH_*_SEND_SIG`, `DBG_MENU_SIG`. The polled (BARE) access to devices and settings:
  sequential loops; in BootComm they are a choice of outcome, and their effect on the EEPROM beside SysMgr's is not modelled.
* The global timer of I2CBusMgr: 3.6 s, longer than the operation timers it encloses.
* Requests of the client other than `DC3_flashFW`, its file loader and its serial transport.
