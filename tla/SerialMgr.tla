----------------------------- MODULE SerialMgr -----------------------------
(***************************************************************************)
(* The serial port: the SerialMgr active object                            *)
(* (Common/bsp/serial/SerialMgr.c), the DMA stream that sends for it and   *)
(* the two interrupt handlers of Common/bsp/serial/serial.c.               *)
(*                                                                         *)
(* A request to send is copied to the one transmit buffer and handed to    *)
(* the DMA; until the DMA reports the end of the transfer, or a timer      *)
(* expires, further requests wait in a deferral queue, and each return to  *)
(* Idle puts the oldest of them back at the FRONT of the event queue.      *)
(* Log messages go through the same queues, and are thrown away when their *)
(* turn comes if logging to the serial port is disabled by then.           *)
(*                                                                         *)
(* Disarming the timer does not take back a timeout that is queued, and    *)
(* nothing tells the end of one transfer from the end of another: an end   *)
(* of transfer that comes late ends the transfer after it.                 *)
(***************************************************************************)
EXTENDS Integers, Sequences, FiniteSets, Places

CONSTANTS
    MaxMsgs,     \* bound: messages posted in a behaviour
    DeferMax,    \* events the deferral queue takes (201 in the code)
    MaxLine      \* DC3_MAX_MSG_LEN, size of the receive buffer

ASSUME SerialAssumption ==
    /\ MaxMsgs \in Nat
    /\ DeferMax \in Nat
    /\ MaxLine \in Nat \ {0, 1}

VARIABLES
    serialQ,     \* event queue of the active object
    deferred,    \* deferredEvtQueue
    st,          \* leaf state: Idle or Busy
    armed,       \* serialTimerEvt is armed
    dma,         \* the message the DMA stream is sending, or 0
    logOn,       \* DBG_IS_DEVICE_ENABLED(_DC3_DBG_DEV_SER)
    posted,      \* history: number of messages posted so far
    wire,        \* history: what left the port, in order
    thrown,      \* history: messages that were thrown away
    expired,     \* history: number of times the timer expired
    skipped,     \* history: a log message was thrown away in Idle while
                 \*   others were deferred
    rx,          \* bufferRX up to indexRX
    typed,       \* history: characters the peer sent since its last newline
    clean        \* history: the peer's line before was an ordinary one

tx   == <<serialQ, deferred, st, armed, dma, posted, wire, thrown, expired,
          skipped>>
recv == <<rx, typed, clean>>
vars == <<serialQ, deferred, st, armed, dma, logOn, posted, wire, thrown,
          expired, skipped, rx, typed, clean>>

-----------------------------------------------------------------------------
(* Events.  A message is the number of its posting; UART_DMA_START_SIG,    *)
(* CLI_SEND_DATA_SIG and DBG_MENU_SIG have the same handlers.              *)

SendSignals == {"UART_DMA_START", "DBG_LOG"}
Sends       == [sig : SendSignals, msg : 1 .. MaxMsgs]
EndSignals  == {"UART_DMA_DONE", "UART_DMA_TIMEOUT"}
Ends        == [sig : EndSignals]

\* What left the port of a message: all of it, or less.
Reports == [msg : 1 .. MaxMsgs, whole : BOOLEAN]

\* Characters: one ordinary, carriage return and newline.
Chars == {"x", "CR", "LF"}

SerialInit ==
    /\ serialQ = <<>> /\ deferred = <<>>
    /\ st = "Idle" /\ armed = FALSE /\ dma = 0
    /\ logOn = TRUE
    /\ posted = 0 /\ wire = <<>> /\ thrown = {}
    /\ expired = 0 /\ skipped = FALSE
    /\ rx = <<>> /\ typed = <<>> /\ clean = TRUE

-----------------------------------------------------------------------------
(* The environment *)

\* Any active object posts or publishes a message.
Post(sig) ==
    /\ posted < MaxMsgs
    /\ posted' = posted + 1
    /\ serialQ' = Append(serialQ, [sig |-> sig, msg |-> posted + 1])
    /\ UNCHANGED <<deferred, st, armed, dma, logOn, wire, thrown, expired,
                   skipped, recv>>

\* CommMgr enables or disables logging to the serial port.
SetLogging ==
    /\ logOn' = ~ logOn
    /\ UNCHANGED <<tx, recv>>

-----------------------------------------------------------------------------
(* Interrupts *)

\* Serial_DMASendCallback, the end-of-transfer interrupt.
DMASendCallback ==
    /\ dma # 0
    /\ wire' = Append(wire, [msg |-> dma, whole |-> TRUE])
    /\ dma' = 0
    /\ serialQ' = Append(serialQ, [sig |-> "UART_DMA_DONE"])
    /\ UNCHANGED <<deferred, st, armed, logOn, posted, thrown, expired,
                   skipped, recv>>

\* The clock tick finds the timer expired and posts its event.
TimerExpires ==
    /\ armed
    /\ armed' = FALSE
    /\ expired' = expired + 1
    /\ serialQ' = Append(serialQ, [sig |-> "UART_DMA_TIMEOUT"])
    /\ UNCHANGED <<deferred, st, dma, logOn, posted, wire, thrown, skipped,
                   recv>>

\* Mutant: a carriage return is stored like any other character.
Keep_CR(c) ==
    CASE c = "LF" /\ rx # <<>> -> <<>>
      [] Len(rx) >= MaxLine    -> <<>>
      [] OTHER                 -> Append(rx, IF c = "CR" THEN "x" ELSE c)

\* What a character leaves in bufferRX.
Keep(c) ==
    CASE c = "LF" /\ rx # <<>> -> <<>>
      [] c = "CR"              -> rx
      [] OTHER                 -> IF Len(rx) >= MaxLine THEN <<>>
                                  ELSE Append(rx, c)

\* Serial_UART1Callback for one character.  A newline publishes what rx holds,
\* and itself, with SER_RECEIVED_SIG.  The newline that ends a line of
\* MaxLine characters is stored one past the end of bufferRX; rx stands for
\* the buffer and that byte.
UART1Callback(c) ==
    /\ Len(typed) <= MaxLine \/ c = "LF"     \* bound on the peer's lines
    /\ rx' = Keep(c)
    /\ typed' = CASE c = "LF" -> <<>>
                  [] c = "CR" -> typed
                  [] OTHER    -> Append(typed, c)
    /\ clean' = IF c = "LF" THEN Len(typed) \in 1 .. MaxLine - 1 ELSE clean
    /\ UNCHANGED <<tx, logOn>>

-----------------------------------------------------------------------------
(* SerialMgr *)

\* Mutant: the recalled event stays in the deferral queue.
Recalled_Kept(q) ==
    IF deferred = <<>> THEN <<q, deferred>>
    ELSE <<<<Head(deferred)>> \o q, deferred>>

\* Mutant: the recalled event is posted FIFO.
Recalled_Fifo(q) ==
    IF deferred = <<>> THEN <<q, deferred>>
    ELSE <<Append(q, Head(deferred)), Tail(deferred)>>

\* Mutant: nothing is recalled.
Recalled_None(q) == <<q, deferred>>

\* QActive_recall: the oldest deferred event is posted LIFO.  The event queue
\* and the deferral queue after it, q being the event queue before.
Recalled(q) ==
    IF deferred = <<>> THEN <<q, deferred>>
    ELSE <<<<Head(deferred)>> \o q, Tail(deferred)>>

\* The exit of Busy and Q_ENTRY of Idle.
EnterIdle(rest) ==
    /\ st' = "Idle"
    /\ armed' = FALSE
    /\ serialQ' = Recalled(rest)[1]
    /\ deferred' = Recalled(rest)[2]

\* Serial_DMAConfig, then the entry of Busy.  The configuration stops a
\* transfer that is still running: what it had left to send is lost.
StartTransfer(m) ==
    /\ wire' = IF dma = 0 THEN wire
               ELSE Append(wire, [msg |-> dma, whole |-> FALSE])
    /\ dma' = m
    /\ st' = "Busy"
    /\ armed' = TRUE

ThisEvent(sigs) == serialQ # <<>> /\ Head(serialQ).sig \in sigs

IdleSend ==
    /\ st = "Idle"
    /\ \/ ThisEvent({"UART_DMA_START"})
       \/ ThisEvent({"DBG_LOG"}) /\ logOn
    /\ StartTransfer(Head(serialQ).msg)
    /\ serialQ' = Tail(serialQ)
    /\ UNCHANGED <<deferred, logOn, posted, thrown, expired, skipped, recv>>

\* The guard of DBG_LOG fails: the event is handled, Idle is not re-entered.
IdleSkipsLog ==
    /\ st = "Idle" /\ ThisEvent({"DBG_LOG"}) /\ ~ logOn
    /\ thrown' = thrown \cup {Head(serialQ).msg}
    /\ skipped' = (skipped \/ deferred # <<>>)
    /\ serialQ' = Tail(serialQ)
    /\ UNCHANGED <<deferred, st, armed, dma, logOn, posted, wire, expired, recv>>

\* Idle does not handle the end of a transfer, whatever announced it.
IdleDropsEnd ==
    /\ st = "Idle" /\ ThisEvent(EndSignals)
    /\ serialQ' = Tail(serialQ)
    /\ UNCHANGED <<deferred, st, armed, dma, logOn, posted, wire, thrown,
                   expired, skipped, recv>>

BusyEnd ==
    /\ st = "Busy" /\ ThisEvent(EndSignals)
    /\ EnterIdle(Tail(serialQ))
    /\ UNCHANGED <<dma, logOn, posted, wire, thrown, expired, skipped, recv>>

\* Mutant: Busy takes a request like Idle does.
BusyDefers_Sends ==
    /\ st = "Busy" /\ ThisEvent(SendSignals)
    /\ StartTransfer(Head(serialQ).msg)
    /\ serialQ' = Tail(serialQ)
    /\ UNCHANGED <<deferred, logOn, posted, thrown, expired, skipped, recv>>

\* Mutant: the deferral queue takes one event too many.
RoomToDefer_OffByOne == Len(deferred) <= DeferMax

RoomToDefer == Len(deferred) < DeferMax

BusyDefers ==
    /\ st = "Busy" /\ ThisEvent(SendSignals)
    /\ IF RoomToDefer
       THEN deferred' = Append(deferred, Head(serialQ)) /\ UNCHANGED thrown
       ELSE thrown' = thrown \cup {Head(serialQ).msg} /\ UNCHANGED deferred
    /\ serialQ' = Tail(serialQ)
    /\ UNCHANGED <<st, armed, dma, logOn, posted, wire, expired, skipped, recv>>

Handler == IdleSend \/ IdleSkipsLog \/ IdleDropsEnd \/ BusyEnd \/ BusyDefers

SerialNext ==
    \/ \E sig \in SendSignals : Post(sig)
    \/ SetLogging
    \/ DMASendCallback
    \/ TimerExpires
    \/ \E c \in Chars : UART1Callback(c)
    \/ Handler

SerialSpec == SerialInit /\ [][SerialNext]_vars

\* The scheduler runs the object while its queue is not empty, and an armed
\* timer expires.  Nothing makes the DMA finish: that is what the timer is for.
SerialLive == SerialSpec /\ WF_vars(Handler) /\ WF_vars(TimerExpires)

-----------------------------------------------------------------------------
(* Properties *)

\* Every variable has its type; the deferral queue holds requests only.
SerialTypeOK ==
    /\ serialQ \in Seq(Sends \cup Ends)
    /\ deferred \in Seq(Sends) /\ Len(deferred) <= DeferMax
    /\ st \in {"Idle", "Busy"} /\ armed \in BOOLEAN
    /\ dma \in 0 .. MaxMsgs /\ logOn \in BOOLEAN
    /\ posted \in 0 .. MaxMsgs
    /\ wire \in Seq(Reports)
    /\ thrown \subseteq 1 .. MaxMsgs
    /\ expired \in Nat /\ skipped \in BOOLEAN
    /\ rx \in Seq({"x", "LF"}) /\ Len(rx) <= MaxLine
    /\ typed \in Seq({"x"}) /\ clean \in BOOLEAN

Cut        == Positions(wire, [msg : 1 .. MaxMsgs, whole : {FALSE}])
EndsQueued == Positions(serialQ, Ends)

\* A message is cut short only because the timer expired, and each expiry
\* costs at most one message: however an end of transfer and a timeout race,
\* the object never falls out of step with the DMA by more than the timer
\* made it.  (An end that comes late ends the next transfer early; that
\* transfer's own end is late in turn.)
CutOnlyByTimeout == Cardinality(Cut) <= expired

\* What is left of an out-of-step end in the queue or in the DMA is counted
\* by the timer expiries that are not yet paid for with a message.
InStep ==
    Cardinality(Cut) + Cardinality(EndsQueued) + (IF dma # 0 THEN 1 ELSE 0)
        <= expired + (IF st = "Busy" THEN 1 ELSE 0)

Whereabouts ==
    <<Carried(serialQ, Sends), Carried(deferred, Sends), {dma} \ {0},
      Carried(wire, Reports), thrown>>

\* Every message posted is in exactly one place: waiting, deferred, being
\* sent, sent, or thrown away.  The two queues lose and repeat nothing.
NoneLostOrRepeated ==
    /\ EachInOnePlace(1 .. posted, Whereabouts)
    /\ OnceIn(serialQ, Sends) /\ OnceIn(deferred, Sends) /\ OnceIn(wire, Reports)

\* Messages leave in the order they were posted, although recalled ones
\* enter the queue at its front, unless a log message was skipped in Idle.
InOrder ==
    skipped \/ \A i, j \in DOMAIN wire : i < j => wire[i].msg < wire[j].msg

\* "incoming events will be deferred in this state and handled once the AO
\* goes back to Idle state" (SerialMgr.c, Busy).
DeferredIsHandled ==
    \A m \in 1 .. MaxMsgs :
        m \in Carried(deferred, Sends) ~> m \notin Carried(deferred, Sends)

\* A deferred message is taken up again, if no log message is skipped in the
\* meantime: every end of a transfer, real or not, frees the next.
DeferredIsHandledUnlessSkipped ==
    \A m \in 1 .. MaxMsgs :
        m \in Carried(deferred, Sends)
            ~> (m \notin Carried(deferred, Sends) \/ skipped)

\* A line of the peer that fits the buffer is in it as it was sent, and is so
\* published, whatever damage lines too long or empty did earlier, if the one
\* before was ordinary.  (An empty line, or one of MaxLine + 1 characters,
\* leaves a newline in the buffer that the next line is appended to.)
LineArrives == clean /\ Len(typed) < MaxLine => rx = typed
=============================================================================
