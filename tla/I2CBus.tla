------------------------------- MODULE I2CBus -------------------------------
(***************************************************************************)
(* The I2C bus: the I2CBusMgr active object                                *)
(* (Common/bsp/i2c/I2CBusMgr.c), the DMA streams and interrupt handlers of *)
(* Common/bsp/i2c/i2c.c, and the EEPROM on the other end.                  *)
(*                                                                         *)
(* I2CBusMgr serves one bus operation at a time for I2C1DevMgr and ends    *)
(* each of them by posting I2C_BUS_DONE_SIG with an error code.  It polls  *)
(* the peripheral by posting an event to itself, and I2C1DevMgr, of lower  *)
(* priority, does not run while it polls: such an operation is one step    *)
(* here.  In the other states, waits for a timer or for the DMA, it does   *)
(* run, and an operation it then asks for is not handled.                  *)
(***************************************************************************)
EXTENDS Integers, Sequences, FiniteSets

CONSTANTS
    MaxAddr,     \* i2c_mem_max_addr of the EEPROM
    PageSize,    \* i2c_mem_page_size
    LeftAddrs,   \* the addresses that bytes of a write can be taken for
    MaxFaults    \* bound: bus operations that fail in a behaviour

ASSUME BusAssumption ==
    /\ MaxAddr \in Nat
    /\ PageSize \in Nat \ {0}
    /\ LeftAddrs \subseteq 0 .. MaxAddr
    /\ MaxFaults \in Nat

VARIABLES
    bst,       \* state of I2CBusMgr
    cmd,       \* the operation posted to it, or NoCmd
    errorCode, \* me->errorCode: was it ERR_NONE
    xfer,      \* nBytesExpected, and what the transmit buffer holds
    phase,     \* how far the peripheral is in a transfer
    held,      \* the BUSY flag of the peripheral
    ptr,       \* the EEPROM's address counter
    mem,       \* the EEPROM's contents
    devQ,      \* event queue of I2C1DevMgr
    armed,     \* the DMA stream holds bytes of a write that timed out
    faults,    \* history: operations that failed
    cut,       \* history: a DMA write did not finish
    leaked     \* history: bytes left in the stream were sent to the EEPROM

busVars == <<bst, cmd, errorCode, xfer, phase, held, ptr, mem, devQ, faults,
             cut, armed, leaked>>

Addrs     == 0 .. MaxAddr
WaitStates == {"WaitForBusToSettle", "WaitForDMAReadDone", "WaitForDMAWriteDone"}
Phases    == {"none", "start", "tx", "addr", "rx", "lost"}
NoCmd     == [op |-> "none"]
NoXfer    == [n |-> 0, data |-> 0]

\* Data that came from anywhere but the EEPROM.
Junk == <<"junk">>

BusInit ==
    /\ bst = "Idle" /\ cmd = NoCmd /\ errorCode = "none"
    /\ xfer = NoXfer /\ phase = "none" /\ held = FALSE
    /\ ptr = 0 /\ mem = [a \in Addrs |-> 0]
    /\ devQ = <<>> /\ faults = 0 /\ cut = FALSE
    /\ armed = FALSE /\ leaked = FALSE

-----------------------------------------------------------------------------
\* I2C_BUS_DONE_SIG, an I2CStatusEvt or, from a read, an I2CBusDataEvt.
Done(err, data) == [sig |-> "BusDone", err |-> err, data |-> data]

\* The operation ends: me->errorCode, and the exit of the wait state posts it.
Finish(err, data) ==
    /\ errorCode' = err
    /\ devQ' = Append(devQ, Done(err, data))

Takes(op) == bst = "Idle" /\ cmd.op = op /\ cmd' = NoCmd

Fault == faults < MaxFaults /\ faults' = faults + 1

\* A bus event that is polled for: the peripheral signals it, in the phases it
\* can ...
Seen(from, to) ==
    /\ phase \in from
    /\ phase' = to
    /\ held' = TRUE
    /\ Finish("none", Junk)
    /\ UNCHANGED faults

\* ... or the number of polls or the operation timer runs out.  The error
\* interrupt may reset the peripheral and its streams meanwhile
\* (I2C1_ErrorEventCallback, I2C_BusInit).
NotSeen(from) ==
    /\ IF phase \in from THEN Fault ELSE UNCHANGED faults
    /\ phase' = "none"
    /\ held' \in BOOLEAN
    /\ armed' \in {armed, FALSE}
    /\ Finish("bus", Junk)

PollFor(from, to) ==
    \/ Seen(from, to) /\ UNCHANGED armed
    \/ NotSeen(from)

\* k bytes of the transmit buffer arrive at the EEPROM and are programmed: its
\* page write wraps around in the page.
Programmed(k) ==
    LET page == (ptr \div PageSize) * PageSize
        hit  == {page + ((ptr + i) % PageSize) : i \in 0 .. k - 1}
    IN  [a \in Addrs |-> IF a \in hit THEN xfer.data ELSE mem[a]]

\* Some bytes, at an address that was none.
Strays == {Programmed(k) : k \in 0 .. PageSize}

-----------------------------------------------------------------------------
(* Idle: the operations *)

\* I2C_BUS_CHECK_FREE_SIG on a free bus.
CheckFree ==
    /\ Takes("CHECK_FREE") /\ ~ held
    /\ Finish("none", Junk)
    /\ UNCHANGED <<bst, xfer, phase, held, ptr, mem, faults, cut, armed, leaked>>

\* Mutant: the error is reported before the recovery and again after it.
RecoverBus_Answers ==
    /\ Takes("CHECK_FREE") /\ held
    /\ bst' = "WaitForBusToSettle"
    /\ Finish("bus", Junk)
    /\ phase' = "none" /\ armed' = FALSE
    /\ UNCHANGED <<xfer, held, ptr, mem, faults, cut, leaked>>

\* On a bus that is held the peripheral and its streams are reset and SCL is
\* toggled until the slave lets SDA go ...
RecoverBus ==
    /\ Takes("CHECK_FREE") /\ held
    /\ bst' = "WaitForBusToSettle"
    /\ errorCode' = "bus"
    /\ phase' = "none" /\ armed' = FALSE
    /\ UNCHANGED <<xfer, held, ptr, mem, devQ, faults, cut, leaked>>

\* ... or the number of polls runs out and the peripheral is reset again.
RecoveryFails ==
    /\ Takes("CHECK_FREE") /\ held
    /\ phase' = "none" /\ armed' = FALSE
    /\ held' \in BOOLEAN
    /\ Finish(IF held' THEN "bus" ELSE "none", Junk)
    /\ UNCHANGED <<bst, xfer, ptr, mem, faults, cut, leaked>>

GenerateStart ==
    /\ Takes("START_BIT")
    /\ PollFor(Phases, "start")
    /\ UNCHANGED <<bst, xfer, ptr, mem, cut, leaked>>

Send7BitAddrTx ==
    /\ Takes("7BIT_ADDR_TX") /\ ~ (armed /\ phase = "start")
    /\ PollFor({"start"}, "tx")
    /\ UNCHANGED <<bst, xfer, ptr, mem, cut, leaked>>

\* The peripheral asks for data as soon as it is a transmitter, and the stream
\* of a write that timed out answers before the CPU does: the EEPROM takes
\* what is left of that write for the address.  Whether the poll still finds
\* the event it waits for is a race.
LeftoverIsSent ==
    /\ Takes("7BIT_ADDR_TX") /\ armed /\ phase = "start"
    /\ \/ /\ Seen({"start"}, "lost")
          /\ ptr' \in LeftAddrs
          /\ leaked' = TRUE
          /\ UNCHANGED armed
       \/ /\ NotSeen({})
          /\ UNCHANGED <<ptr, leaked>>
    /\ UNCHANGED <<bst, xfer, mem, cut>>

Send7BitAddrRx ==
    /\ Takes("7BIT_ADDR_RX")
    /\ PollFor({"start"}, "rx")
    /\ UNCHANGED <<bst, xfer, ptr, mem, cut, leaked>>

\* One byte of address or two: the EEPROM's counter is set with the last one.
SendDevAddr ==
    /\ Takes("DEV_ADDR") /\ phase # "lost"
    /\ PollFor({"tx"}, "addr")
    /\ ptr' = IF phase' = "addr" THEN cmd.addr ELSE ptr
    /\ UNCHANGED <<bst, xfer, mem, cut, leaked>>

\* The address goes out among the bytes left over, as data, unless the last of
\* these has ended the transfer by a STOP bit (I2C1_DMAWriteCallback).
AddrIsLost ==
    /\ Takes("DEV_ADDR") /\ phase = "lost"
    /\ \/ /\ Seen({"lost"}, "lost")
          /\ armed' \in {armed, FALSE}
          /\ UNCHANGED mem
       \/ /\ NotSeen({})
          /\ mem' \in Strays
    /\ UNCHANGED <<bst, xfer, ptr, cut, leaked>>

StartDMARead ==
    /\ Takes("READ_MEM")
    /\ bst' = "WaitForDMAReadDone"
    /\ xfer' = [xfer EXCEPT !.n = cmd.n]
    /\ UNCHANGED <<errorCode, phase, held, ptr, mem, devQ, faults, cut, armed,
                   leaked>>

\* I2C_StartDMAWrite sets the stream up anew.
StartDMAWrite ==
    /\ Takes("WRITE_MEM")
    /\ bst' = "WaitForDMAWriteDone"
    /\ xfer' = [n |-> cmd.n, data |-> cmd.data]
    /\ armed' = FALSE
    /\ UNCHANGED <<errorCode, phase, held, ptr, mem, devQ, faults, cut, leaked>>

\* Busy handles none of the operations.
BusyDropsOperation ==
    /\ bst # "Idle" /\ cmd # NoCmd
    /\ cmd' = NoCmd
    /\ UNCHANGED <<bst, errorCode, xfer, phase, held, ptr, mem, devQ, faults,
                   cut, armed, leaked>>

-----------------------------------------------------------------------------
(* The waits *)

\* The settle timer, the two polls of the recovery, or its operation timer;
\* the exit of BusRecovery looks at the BUSY flag again.
BusSettles ==
    /\ bst = "WaitForBusToSettle"
    /\ bst' = "Idle"
    /\ held' \in BOOLEAN
    /\ Finish(IF held' THEN "bus" ELSE "none", Junk)
    /\ UNCHANGED <<cmd, xfer, phase, ptr, mem, faults, cut, armed, leaked>>

Stopped ==
    /\ bst' = "Idle"
    /\ phase' = "none"

\* I2C1_DMAReadCallback and I2C_BUS_DMA_DONE_SIG.
DMAReadDone ==
    /\ bst = "WaitForDMAReadDone" /\ phase = "rx"
    /\ Stopped /\ held' = FALSE
    /\ ptr' = (ptr + xfer.n) % (MaxAddr + 1)
    /\ Finish("none", [i \in 1 .. xfer.n |-> mem[(ptr + i - 1) % (MaxAddr + 1)]])
    /\ UNCHANGED <<cmd, xfer, mem, faults, cut, armed, leaked>>

\* The operation timer.  The error code is the one left by the operation
\* before, and the receive buffer holds whatever it held.
DMAReadTimeout ==
    /\ bst = "WaitForDMAReadDone"
    /\ IF phase = "rx" THEN Fault ELSE UNCHANGED faults
    /\ Stopped /\ held' \in BOOLEAN
    /\ Finish(errorCode, Junk)
    /\ UNCHANGED <<cmd, xfer, ptr, mem, cut, armed, leaked>>

\* I2C1_DMAWriteCallback and I2C_BUS_DMA_DONE_SIG.
DMAWriteDone ==
    /\ bst = "WaitForDMAWriteDone" /\ phase \in {"addr", "lost"}
    /\ Stopped /\ held' = FALSE
    /\ mem' \in IF phase = "addr" THEN {Programmed(xfer.n)} ELSE Strays
    /\ Finish("none", Junk)
    /\ UNCHANGED <<cmd, xfer, ptr, faults, cut, armed, leaked>>

\* The operation timer: the k bytes sent so far are programmed after the STOP
\* bit, and the error code is the one left by the operation before.  The stream
\* that is disabled is that of the reads: this one keeps the bytes left over,
\* unless the error interrupt has reset it.
DMAWriteTimeout ==
    /\ bst = "WaitForDMAWriteDone"
    /\ IF phase = "addr" THEN Fault ELSE UNCHANGED faults
    /\ Stopped /\ held' \in BOOLEAN
    /\ \E k \in 0 .. xfer.n :
          /\ mem' \in CASE phase = "addr" -> {Programmed(k)}
                         [] phase = "lost" -> Strays
                         [] OTHER -> {mem}
          /\ armed' \in {FALSE, k < xfer.n}
    /\ cut' = TRUE
    /\ Finish(errorCode, Junk)
    /\ UNCHANGED <<cmd, xfer, ptr, leaked>>

\* An operation that was posted is handled at once.
BusOperation ==
    \/ CheckFree \/ RecoverBus \/ RecoveryFails
    \/ GenerateStart \/ Send7BitAddrTx \/ LeftoverIsSent \/ Send7BitAddrRx
    \/ SendDevAddr \/ AddrIsLost
    \/ StartDMARead \/ StartDMAWrite
    \/ BusyDropsOperation
=============================================================================
