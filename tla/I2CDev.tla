------------------------------- MODULE I2CDev -------------------------------
(***************************************************************************)
(* Requests to the I2C devices: the I2C1DevMgr active object               *)
(* (Common/bsp/i2c/I2C1DevMgr.c, i2c_dev.c) on top of I2CBus.              *)
(*                                                                         *)
(* A request to read or write the EEPROM becomes a sequence of bus         *)
(* operations, one state each: the entry posts the operation and arms a    *)
(* timer, I2C_BUS_DONE_SIG or the timeout leaves it.  Whatever way Busy is *)
(* left, its exit replies with the error code of the moment.  A write is   *)
(* split at page boundaries.  Requests that come meanwhile are deferred.   *)
(*                                                                         *)
(* I2C_BUS_DONE_SIG does not say which operation it ends.  The states take *)
(* the next one to come for theirs.                                        *)
(***************************************************************************)
EXTENDS I2CBus

CONSTANTS
    Requests,    \* the requests the clients make: [op, addr, n]
    MaxReqs,     \* bound: requests posted in a behaviour
    DeferMax     \* events the deferral queue takes (101 in the code: the
                 \* array of 100 and the front event of the QEQueue)

ASSUME DevAssumption ==
    /\ Requests \subseteq [op : {"read", "write"}, addr : Addrs, n : Nat]
    /\ MaxReqs \in Nat /\ DeferMax \in Nat

VARIABLES
    dst,       \* leaf state of I2C1DevMgr
    defq,      \* deferredEvtQueue
    cur,       \* the request being served (the number of its posting), or 0
    devErr,    \* me->errorCode
    done,      \* the i2cReadDoneEvt or i2cWriteDoneEvt under construction
    page,      \* writeCurrPage, writeMemAddrCurr, writeSizeCurr
    timers,    \* the timers that are armed
    cplrQ,     \* CPLR_evtQueue, the raw queue of the CPLR task
    task,      \* the CPLR task: in its loop, suspended, or just resumed
    reqs,      \* history: the requests posted, in order
    replies,   \* history: the replies, in order
    dropped,   \* history: the requests that found the deferral queue full
    synced,    \* history: the bus was quiet when the request began
    late       \* history: the request timer expired, or another before its answer

devVars  == <<dst, defq, cur, devErr, done, page, timers, replies, dropped,
              synced, late>>
taskVars == <<cplrQ, task>>
vars     == <<bst, cmd, errorCode, xfer, phase, held, ptr, mem, devQ, faults,
              cut, armed, leaked, dst, defq, cur, devErr, done, page, timers,
              cplrQ, task, reqs, replies, dropped, synced, late>>

BusWaits == {"CheckingBus", "GenerateStart", "Send7BitAddrTxMode",
             "SendInternalAddr", "GenerateStart1", "Send7BitAddrRxMode",
             "ReadMem", "WriteMem"}
States   == BusWaits \cup {"Idle", "ValidateRequest", "PostWriteWait"}
Timers   == {"op", "write", "request"}
Timeout  == [op |-> "OpTimeout", write |-> "PostWriteTimer",
             request |-> "DevTimeout"]

NoneDone == [bytes |-> 0, data |-> <<>>]
NoPage   == [idx |-> 0, addr |-> 0, size |-> 0]

DevInit ==
    /\ dst = "Idle" /\ defq = <<>> /\ cur = 0 /\ devErr = "none"
    /\ done = NoneDone /\ page = NoPage /\ timers = {}
    /\ cplrQ = <<>> /\ task = "loop"
    /\ reqs = <<>> /\ replies = <<>> /\ dropped = {}
    /\ synced = TRUE /\ late = FALSE

-----------------------------------------------------------------------------
(* Requests and pages *)

Lesser(a, b) == IF a < b THEN a ELSE b

\* Mutant: the first page is a whole page wherever it starts.
PagePlan_Unaligned(addr, n) ==
    LET first == Lesser(PageSize, n)
        last  == (n - first) % PageSize
    IN  [first |-> first, last |-> last,
         total |-> IF n > first
                   THEN (n - first) \div PageSize + (IF last = 0 THEN 1 ELSE 2)
                   ELSE 1]

\* I2C_calcPageWriteSizes
PagePlan(addr, n) ==
    LET space == (addr \div PageSize + 1) * PageSize - addr
        first == Lesser(space, n)
        last  == (n - first) % PageSize
    IN  [first |-> first, last |-> last,
         total |-> IF n > first
                   THEN (n - first) \div PageSize + (IF last = 0 THEN 1 ELSE 2)
                   ELSE 1]

\* The entry of ValidateRequest; a write may not touch the last address
\* (I2C_calcPageWriteSizes).
Acceptable(r) ==
    /\ r.n # 0
    /\ r.addr + (r.n - 1) <= MaxAddr
    /\ r.op = "write" => r.addr + r.n <= MaxAddr

Req == reqs[cur]

-----------------------------------------------------------------------------
(* Transitions.  I2C1DevMgr runs when the bus object has nothing to do and *)
(* the CPLR task, of higher priority than both, is not just resumed.       *)

Event(sig) ==
    /\ cmd = NoCmd /\ task # "woken"
    /\ devQ # <<>> /\ Head(devQ).sig = sig

\* What the entry of a state posts to I2CBusMgr.
Operation(s) ==
    CASE s = "CheckingBus"        -> [op |-> "CHECK_FREE"]
      [] s \in {"GenerateStart", "GenerateStart1"} -> [op |-> "START_BIT"]
      [] s = "Send7BitAddrTxMode" -> [op |-> "7BIT_ADDR_TX"]
      [] s = "Send7BitAddrRxMode" -> [op |-> "7BIT_ADDR_RX"]
      [] s = "SendInternalAddr"   -> [op |-> "DEV_ADDR",
             addr |-> IF Req.op = "write" THEN page.addr ELSE Req.addr]
      [] s = "ReadMem"            -> [op |-> "READ_MEM", n |-> Req.n]
      [] s = "WriteMem"           -> [op |-> "WRITE_MEM", n |-> page.size,
                                      data |-> cur]

\* The entry of a state that waits for the bus.
EnterBusWait(s) ==
    /\ dst' = s
    /\ devErr' = "timeout"
    /\ timers' = (timers \ {"write"}) \cup {"op"}
    /\ cmd' = Operation(s)

\* Mutant: the oldest deferred request stays deferred.
Recall_None(q) == devQ' = q /\ UNCHANGED defq

\* Mutant: the recalled request is posted FIFO.
Recall_Fifo(q) ==
    IF defq = <<>> THEN devQ' = q /\ UNCHANGED defq
    ELSE devQ' = Append(q, Head(defq)) /\ defq' = Tail(defq)

\* The entry of Idle: the oldest deferred request is posted LIFO.
Recall(q) ==
    IF defq = <<>> THEN devQ' = q /\ UNCHANGED defq
    ELSE devQ' = <<Head(defq)>> \o q /\ defq' = Tail(defq)

\* Is what the reply says so, on the EEPROM as it is now?
Real(d) ==
    IF Req.op = "read"
    THEN d.data = [i \in 1 .. Req.n |-> mem[Req.addr + i - 1]]
    ELSE \A a \in Req.addr .. Req.addr + Req.n - 1 : mem[a] = cur

\* Mutant: a reply to the task does not resume it.
Reply_NoResume(err, d) ==
    /\ replies' = Append(replies,
           [id |-> cur, ok |-> err = "none" /\ d.bytes = Req.n /\ Req.n # 0,
            real |-> err = "none" /\ d.bytes = Req.n /\ Real(d),
            synced |-> synced, cut |-> cut])
    /\ IF Req.acc = "FRT"
       THEN /\ cplrQ' = Append(cplrQ, cur)
            /\ UNCHANGED task
       ELSE UNCHANGED taskVars

\* The exit of Busy.  A reply is ok if it reports no error and all the bytes.
Reply(err, d) ==
    /\ replies' = Append(replies,
           [id |-> cur, ok |-> err = "none" /\ d.bytes = Req.n /\ Req.n # 0,
            real |-> err = "none" /\ d.bytes = Req.n /\ Real(d),
            synced |-> synced, cut |-> cut])
    /\ IF Req.acc = "FRT"
       THEN /\ cplrQ' = Append(cplrQ, cur)
            /\ task' = IF task = "suspended" THEN "woken" ELSE task
       ELSE UNCHANGED taskVars

BackToIdle(err, d) ==
    /\ dst' = "Idle"
    /\ timers' = {}
    /\ Reply(err, d)
    /\ Recall(Tail(devQ))
    /\ devErr' = err /\ done' = NoneDone /\ page' = NoPage /\ cur' = 0

\* I2C_BUS_DONE_SIG in the state s.
Answered(s, ok) ==
    /\ dst = s /\ Event("BusDone")
    /\ IF Head(devQ).err = "none" THEN ok
       ELSE BackToIdle(Head(devQ).err, done) /\ UNCHANGED cmd
    /\ UNCHANGED <<bst, errorCode, xfer, phase, held, ptr, mem, faults, cut,
                   armed, leaked, reqs, dropped, synced, late>>

Goto(s) ==
    /\ EnterBusWait(s)
    /\ devQ' = Tail(devQ)
    /\ UNCHANGED <<defq, cur, done, page, replies, taskVars>>

-----------------------------------------------------------------------------
(* The states *)

CheckingBusDone        == Answered("CheckingBus", Goto("GenerateStart"))
GenerateStartDone      == Answered("GenerateStart", Goto("Send7BitAddrTxMode"))
Send7BitAddrTxModeDone == Answered("Send7BitAddrTxMode", Goto("SendInternalAddr"))
SendInternalAddrDone   ==
    Answered("SendInternalAddr",
             IF Req.op = "read" THEN Goto("GenerateStart1") ELSE Goto("WriteMem"))
GenerateStart1Done     == Answered("GenerateStart1", Goto("Send7BitAddrRxMode"))
Send7BitAddrRxModeDone == Answered("Send7BitAddrRxMode", Goto("ReadMem"))

\* The event is taken for an I2CBusDataEvt, which that of another operation
\* is not: its length and data are then whatever the memory behind it holds.
ReadMemDone ==
    Answered("ReadMem",
             /\ BackToIdle("none", [bytes |-> Req.n, data |-> Head(devQ).data])
             /\ UNCHANGED cmd)

WriteMemDone ==
    Answered("WriteMem",
             /\ dst' = "PostWriteWait"
             /\ devErr' = "none"
             /\ timers' = (timers \ {"op"}) \cup {"write"}
             /\ devQ' = Tail(devQ)
             /\ UNCHANGED <<cmd, defq, cur, done, page, replies, taskVars>>)

\* Mutant: the address does not move on with the page.
NextPage_SameAddr ==
    LET plan == PagePlan(Req.addr, Req.n)
        i    == page.idx + 1
    IN  [idx  |-> i,
         addr |-> page.addr,
         size |-> IF i = plan.total /\ plan.last # 0 THEN plan.last
                  ELSE PageSize]

\* The pages after the first.
NextPage ==
    LET plan == PagePlan(Req.addr, Req.n)
        i    == page.idx + 1
    IN  [idx  |-> i,
         addr |-> page.addr + page.size,
         size |-> IF i = plan.total /\ plan.last # 0 THEN plan.last
                  ELSE PageSize]

PostWriteWaitOver ==
    /\ dst = "PostWriteWait" /\ Event("PostWriteTimer")
    /\ IF NextPage.idx <= PagePlan(Req.addr, Req.n).total
       THEN /\ page' = NextPage
            /\ EnterBusWait("CheckingBus")
            /\ devQ' = Tail(devQ)
            /\ UNCHANGED <<defq, cur, done, replies, taskVars>>
       ELSE /\ BackToIdle(devErr, [bytes |-> Req.n, data |-> <<>>])
            /\ UNCHANGED cmd
    /\ UNCHANGED <<bst, errorCode, xfer, phase, held, ptr, mem, faults, cut,
                   armed, leaked, reqs, dropped, synced, late>>

\* I2C1_DEV_OP_TIMEOUT_SIG and I2C1_DEV_TIMEOUT_SIG, whatever state they find.
TimedOut ==
    /\ dst # "Idle" /\ (Event("OpTimeout") \/ Event("DevTimeout"))
    /\ BackToIdle(devErr, done)
    /\ UNCHANGED <<cmd, bst, errorCode, xfer, phase, held, ptr, mem, faults,
                   cut, armed, leaked, reqs, dropped, synced, late>>

\* Mutant: the deferral queue takes one request too many.
RoomToDefer_OffByOne == Len(defq) <= DeferMax

RoomToDefer == Len(defq) < DeferMax

DeferRequest ==
    /\ dst # "Idle" /\ Event("Request")
    /\ IF RoomToDefer
       THEN defq' = Append(defq, Head(devQ)) /\ UNCHANGED dropped
       ELSE dropped' = dropped \cup {Head(devQ).id} /\ UNCHANGED defq
    /\ devQ' = Tail(devQ)
    /\ UNCHANGED <<cmd, bst, errorCode, xfer, phase, held, ptr, mem, faults,
                   cut, armed, leaked, dst, cur, devErr, done, page, timers,
                   taskVars, reqs, replies, synced, late>>

\* An event its state does not handle.
Unhandled ==
    /\ \/ dst = "Idle" /\ \E s \in {"BusDone", "Private", "OpTimeout",
                                    "DevTimeout", "PostWriteTimer"} : Event(s)
       \/ dst \in {"ValidateRequest", "PostWriteWait"} /\ Event("BusDone")
       \/ dst \notin {"Idle", "PostWriteWait"} /\ Event("PostWriteTimer")
       \/ dst \notin {"Idle", "ValidateRequest"} /\ Event("Private")
    /\ devQ' = Tail(devQ)
    /\ UNCHANGED <<cmd, bst, errorCode, xfer, phase, held, ptr, mem, faults,
                   cut, armed, leaked, devVars, taskVars, reqs>>

\* A request is taken up and validated.
IdleRequest ==
    /\ dst = "Idle" /\ Event("Request")
    /\ cur' = Head(devQ).id
    /\ dst' = "ValidateRequest"
    /\ timers' = {"request"}
    /\ done' = NoneDone
    /\ LET r == reqs[cur'] IN
           /\ devErr' = IF Acceptable(r) THEN "none" ELSE "invalid"
           /\ page' = IF Acceptable(r) /\ r.op = "write"
                      THEN [idx |-> 1, addr |-> r.addr,
                            size |-> PagePlan(r.addr, r.n).first]
                      ELSE NoPage
    /\ devQ' = Append(Tail(devQ), [sig |-> "Private"])
    /\ UNCHANGED <<cmd, bst, errorCode, xfer, phase, held, ptr, mem, faults,
                   cut, armed, leaked, defq, taskVars, reqs, replies, dropped,
                   synced, late>>

\* The places in the queue of the answers of the bus object.
Answers  == {i \in DOMAIN devQ : devQ[i].sig = "BusDone"}
BusQuiet == bst = "Idle" /\ cmd = NoCmd /\ Answers = {}

Validated ==
    /\ dst = "ValidateRequest" /\ Event("Private")
    /\ synced' = BusQuiet
    /\ IF devErr = "none" THEN Goto("CheckingBus")
       ELSE BackToIdle(devErr, done) /\ UNCHANGED cmd
    /\ UNCHANGED <<bst, errorCode, xfer, phase, held, ptr, mem, faults, cut,
                   armed, leaked, reqs, dropped, late>>

DevHandler ==
    \/ IdleRequest \/ Validated \/ DeferRequest \/ Unhandled \/ TimedOut
    \/ CheckingBusDone \/ GenerateStartDone \/ Send7BitAddrTxModeDone
    \/ SendInternalAddrDone \/ GenerateStart1Done \/ Send7BitAddrRxModeDone
    \/ ReadMemDone \/ WriteMemDone \/ PostWriteWaitOver

-----------------------------------------------------------------------------
(* Timers *)

Fires(t) ==
    /\ t \in timers
    /\ timers' = timers \ {t}
    /\ devQ' = Append(devQ, [sig |-> Timeout[t]])
    /\ late' = (late \/ t = "request" \/ (t = "op" /\ ~ BusQuiet))
    /\ UNCHANGED <<cmd, bst, errorCode, xfer, phase, held, ptr, mem, cut,
                   armed, leaked, dst, defq, cur, devErr, done, page, taskVars,
                   reqs, replies, dropped, synced>>

PostWriteTimerFires == Fires("write") /\ UNCHANGED faults

\* The operation timers are longer than what the bus object allows itself,
\* but for the wait for EV8 (0.39 s to 0.4 s) and the read (0.39 s to 0.6 s).
OpTimerFires ==
    \/ dst \in {"SendInternalAddr", "ReadMem"} /\ Fault /\ Fires("op")
    \/ /\ \/ BusQuiet
          \/ dst = "ReadMem" /\ bst = "WaitForDMAReadDone" /\ phase # "rx"
       /\ UNCHANGED faults
       /\ Fires("op")

\* Ten seconds are a write of several pages.
RequestTimerFires == page.idx >= 2 /\ Fault /\ Fires("request")
=============================================================================
