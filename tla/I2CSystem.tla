----------------------------- MODULE I2CSystem -----------------------------
(***************************************************************************)
(* The I2C stack of the application in use: I2CBusMgr and I2C1DevMgr, the  *)
(* active objects that post requests to them, and the CPLR FreeRTOS task   *)
(* (Application/src/app/cplr/cplr.c, bsp/i2c/i2c_frt.c), which posts a     *)
(* read and suspends itself until I2C1DevMgr has put the reply into its    *)
(* raw queue and resumed it.                                               *)
(*                                                                         *)
(* LWIPMgr puts Ethernet messages into the same raw queue and resumes      *)
(* nobody.  The task takes whatever is first in the queue when it wakes    *)
(* for the reply, and in its loop drops what it does not know.             *)
(***************************************************************************)
EXTENDS I2CDev

CONSTANTS
    TaskRead,    \* what the task reads: [op, addr, n]
    MaxEth       \* bound: Ethernet messages in a behaviour

ASSUME SystemAssumption ==
    /\ TaskRead \in Requests /\ TaskRead.op = "read"
    /\ MaxEth \in Nat

VARIABLE eth     \* history: number of Ethernet messages so far

sysVars == <<vars, eth>>

\* An Ethernet message in the raw queue, where a reply is its request's number.
EthEvt == 0

Init == BusInit /\ DevInit /\ eth = 0

\* The request is in the queue of I2C1DevMgr.
Posted(r, acc) ==
    /\ Len(reqs) < MaxReqs
    /\ reqs' = Append(reqs, [op |-> r.op, addr |-> r.addr, n |-> r.n, acc |-> acc])
    /\ devQ' = Append(devQ, [sig |-> "Request", id |-> Len(reqs) + 1])

\* CommMgr or SysMgr reads or writes.
PostRequest(r) ==
    /\ Posted(r, "QPC")
    /\ UNCHANGED <<cmd, bst, errorCode, xfer, phase, held, ptr, mem, faults,
                   cut, armed, leaked, devVars, taskVars, eth>>

\* LWIPMgr receives a message for the task.
EthArrives ==
    /\ eth < MaxEth
    /\ eth' = eth + 1
    /\ cplrQ' = Append(cplrQ, EthEvt)
    /\ UNCHANGED <<busVars, devVars, task, reqs>>

\* CPLR_Task: an Ethernet message makes it read the EEPROM, in
\* I2C_readDevMemFRT.  Being of higher priority it has suspended itself
\* before I2C1DevMgr looks at the request.
TaskReads ==
    /\ task = "loop" /\ cplrQ # <<>> /\ Head(cplrQ) = EthEvt
    /\ Posted(TaskRead, "FRT")
    /\ cplrQ' = Tail(cplrQ)
    /\ task' = "suspended"
    /\ UNCHANGED <<cmd, bst, errorCode, xfer, phase, held, ptr, mem, faults,
                   cut, armed, leaked, devVars, eth>>

\* CPLR_Task drops what it does not know, late replies among it.  (At the
\* bound MaxReqs it drops Ethernet messages too.)
TaskDrops ==
    /\ task = "loop" /\ cplrQ # <<>>
    /\ Head(cplrQ) # EthEvt \/ Len(reqs) = MaxReqs
    /\ cplrQ' = Tail(cplrQ)
    /\ UNCHANGED <<busVars, devVars, task, reqs, eth>>

\* I2C_readDevMemFRT after vTaskSuspend: the head of the queue is the reply.
TaskWakes ==
    /\ task = "woken"
    /\ cplrQ' = IF cplrQ = <<>> THEN <<>> ELSE Tail(cplrQ)
    /\ task' = "loop"
    /\ UNCHANGED <<busVars, devVars, reqs, eth>>

\* A read that takes longer than I2C1DevMgr waits for it has lost it before
\* the bus object gives up.
BusGivesUpReading ==
    /\ ~ (dst = "ReadMem" /\ "op" \in timers)
    /\ DMAReadTimeout

BusWaitEnds ==
    BusSettles \/ DMAReadDone \/ BusGivesUpReading \/ DMAWriteDone \/ DMAWriteTimeout

BusStep   == (BusOperation \/ BusWaitEnds) /\ UNCHANGED <<devVars, taskVars, reqs, eth>>
DevStep   == DevHandler /\ UNCHANGED eth
TimerStep == (OpTimerFires \/ PostWriteTimerFires \/ RequestTimerFires) /\ UNCHANGED eth
TaskStep  == TaskReads \/ TaskDrops \/ TaskWakes

Next ==
    \/ \E r \in Requests : PostRequest(r)
    \/ EthArrives
    \/ BusStep \/ DevStep \/ TimerStep \/ TaskStep

Spec == Init /\ [][Next]_sysVars

\* The schedulers run an object or a task that has something to do, timers
\* that are armed expire, and the bus object leaves each wait by a timer if
\* by nothing else.
Live ==
    /\ Spec
    /\ WF_sysVars(BusStep) /\ WF_sysVars(DevStep)
    /\ WF_sysVars(TimerStep) /\ WF_sysVars(TaskStep)

-----------------------------------------------------------------------------
(* Properties *)

Ids == 1 .. Len(reqs)

\* Every variable has its type; I2C1DevMgr has a request exactly while it is
\* busy, and no timer is armed in Idle.
TypeOK ==
    /\ bst \in WaitStates \cup {"Idle"} /\ errorCode \in {"none", "bus"}
    /\ phase \in Phases /\ held \in BOOLEAN
    /\ armed \in BOOLEAN /\ cut \in BOOLEAN /\ leaked \in BOOLEAN
    /\ ptr \in Addrs /\ mem \in [Addrs -> 0 .. MaxReqs]
    /\ faults \in 0 .. MaxFaults
    /\ dst \in States /\ cur \in 0 .. Len(reqs)
    /\ dst = "Idle" <=> cur = 0
    /\ timers \subseteq Timers /\ (dst = "Idle" => timers = {})
    /\ \A i \in DOMAIN defq : defq[i].sig = "Request"
    /\ Len(defq) <= DeferMax
    /\ task \in {"loop", "suspended", "woken"}
    /\ \A i \in DOMAIN cplrQ : cplrQ[i] \in Ids \cup {EthEvt}
    /\ dropped \subseteq Ids
    /\ synced \in BOOLEAN /\ late \in BOOLEAN

\* While no timer of I2C1DevMgr has beaten the bus object, there is exactly
\* one answer to come in a state that waits for the bus, and none otherwise:
\* the two objects are in step although answers carry no name.
OneAnswerPending ==
    late \/
    Cardinality(Answers) + (IF bst = "Idle" THEN 0 ELSE 1) + (IF cmd = NoCmd THEN 0 ELSE 1)
        = IF dst \in BusWaits THEN 1 ELSE 0

\* A reply that reports success and all the bytes is true, of a read (the
\* data is what the EEPROM holds) and of a write (the EEPROM holds the data),
\* if the bus was quiet when the request began and no DMA write was cut short:
\* recoveries, retries, lost requests and late timeouts never falsify one.
OkIsReal ==
    \A i \in DOMAIN replies :
        replies[i].ok /\ replies[i].synced /\ ~ replies[i].cut => replies[i].real

\* "Set error code that will be reported if things timeout" (I2CBusMgr.c, the
\* entry of every other wait): so a write the DMA did not finish is an error.
WriteTimeoutReported ==
    \A i \in DOMAIN replies :
        replies[i].ok /\ replies[i].synced /\ reqs[replies[i].id].op = "write"
            => replies[i].real

\* The EEPROM holds nothing but what a write it accepted put there, inside the
\* range of that write: no page wraps around.
WritesStayInRange ==
    \A a \in Addrs : mem[a] # 0 =>
        LET r == reqs[mem[a]] IN
            /\ r.op = "write" /\ Acceptable(r)
            /\ a \in r.addr .. r.addr + r.n - 1

\* Whatever is lost, late or cut short, writes stay in their ranges until the
\* stream that the timeout of a DMA write leaves armed has sent its bytes.
NoStrayWrite == leaked \/ WritesStayInRange

\* Requests are answered at most once and in the order they were posted.
RepliesInOrder ==
    \A i, j \in DOMAIN replies : i < j => replies[i].id < replies[j].id

HasReply(id) == \E i \in DOMAIN replies : replies[i].id = id

\* Every request gets its reply, unless it found the deferral queue full:
\* again and again none is left over (the requests of a behaviour are bounded).
EveryRequestAnswered ==
    []<>(\A id \in Ids : HasReply(id) \/ id \in dropped)

\* The task, which suspends itself without a timeout, is resumed, unless a
\* request was dropped.
TaskIsResumed == task = "suspended" ~> (task # "suspended" \/ dropped # {})
=============================================================================
