--------------------------- MODULE SerialMgr_proofs ---------------------------
(***************************************************************************)
(* The invariants of SerialMgr for every number of messages, length of the *)
(* deferral queue and size of the receive buffer: types, no message lost,  *)
(* repeated or overtaken, cuts paid for by expiries of the timer, and the  *)
(* lines of the peer.                                                      *)
(***************************************************************************)
EXTENDS SerialMgr, Places_proofs

-----------------------------------------------------------------------------
(* Events and the two queues *)

LEMMA EventsDiffer ==
    /\ \A e \in Sends : e.sig \in SendSignals /\ e.msg \in 1 .. MaxMsgs /\ e \notin Ends
    /\ \A e \in Ends : e.sig \in EndSignals /\ e \notin Sends
    /\ SendSignals \cap EndSignals = {}
BY DEF Sends, Ends, SendSignals, EndSignals

\* The event that is handled.
LEMMA HeadEvent ==
    ASSUME SerialTypeOK, NEW sigs, ThisEvent(sigs)
    PROVE  /\ serialQ \in Seq(Sends \cup Ends) /\ serialQ # <<>>
           /\ Head(serialQ) = serialQ[1] /\ Head(serialQ).sig \in sigs
           /\ Head(serialQ) \in Sends \cup Ends
           /\ sigs \subseteq SendSignals => Head(serialQ) \in Sends
           /\ sigs \subseteq EndSignals => Head(serialQ) \in Ends
           /\ Tail(serialQ) \in Seq(Sends \cup Ends)
<1>1. serialQ \in Seq(Sends \cup Ends) /\ serialQ # <<>> /\ Head(serialQ).sig \in sigs
  BY DEF SerialTypeOK, ThisEvent
<1>2. Head(serialQ) = serialQ[1] /\ Head(serialQ) \in Sends \cup Ends
      /\ Tail(serialQ) \in Seq(Sends \cup Ends)
  BY <1>1, TailPlaces
<1>. QED BY <1>1, <1>2, EventsDiffer

\* What EnterIdle does to the two queues.
LEMMA RecallPlaces ==
    ASSUME SerialTypeOK, BusyEnd
    PROVE  \/ deferred = <<>> /\ deferred' = <<>> /\ serialQ' = Tail(serialQ)
           \/ /\ deferred # <<>> /\ deferred' = Tail(deferred)
              /\ serialQ' = [serialQ EXCEPT ![1] = deferred[1]]
              /\ serialQ' \in Seq(Sends \cup Ends) /\ DOMAIN serialQ' = DOMAIN serialQ
              /\ deferred[1] \in Sends
<1>1. serialQ \in Seq(Sends \cup Ends) /\ serialQ # <<>>
  BY HeadEvent DEF BusyEnd
<1>2. CASE deferred = <<>>
  BY <1>2 DEF BusyEnd, EnterIdle, Recalled
<1>3. CASE deferred # <<>>
  <2>1. Head(deferred) = deferred[1] /\ deferred[1] \in Sends
    BY <1>3, TailPlaces DEF SerialTypeOK
  <2>2. /\ deferred' = Tail(deferred)
        /\ serialQ' = <<Head(deferred)>> \o Tail(serialQ)
    BY <1>3 DEF BusyEnd, EnterIdle, Recalled
  <2>. QED BY <1>1, <1>3, <2>1, <2>2, FrontPlaces
<1>. QED BY <1>2, <1>3

-----------------------------------------------------------------------------
(* Types *)

LEMMA InitiallyTyped == SerialInit => SerialTypeOK
<1>. SUFFICES ASSUME SerialInit PROVE SerialTypeOK
  OBVIOUS
<1>1. \A S : <<>> \in Seq(S) /\ Len(<<>>) = 0
  BY EmptySeq
<1>2. /\ 0 \in 0 .. MaxMsgs /\ 0 <= DeferMax /\ 0 <= MaxLine /\ 0 \in Nat
      /\ {} \subseteq 1 .. MaxMsgs /\ TRUE \in BOOLEAN /\ FALSE \in BOOLEAN
  BY SerialAssumption
<1>. QED BY <1>1, <1>2, Zenon DEF SerialInit, SerialTypeOK

LEMMA EnvironmentKeepsTypes ==
    ASSUME SerialTypeOK,
           \/ \E sig \in SendSignals : Post(sig)
           \/ SetLogging \/ DMASendCallback \/ TimerExpires
    PROVE  SerialTypeOK'
<1>1. ASSUME NEW sig \in SendSignals, Post(sig) PROVE SerialTypeOK'
  <2>1. posted' \in 1 .. MaxMsgs
    BY <1>1, SerialAssumption DEF Post, SerialTypeOK
  <2>2. [sig |-> sig, msg |-> posted + 1] \in Sends
    BY <1>1, <2>1 DEF Post, Sends
  <2>3. serialQ' \in Seq(Sends \cup Ends)
    BY <1>1, <2>2, AppendPlaces DEF Post, SerialTypeOK
  <2>. QED BY <1>1, <2>1, <2>3 DEF Post, recv, SerialTypeOK
<1>2. CASE SetLogging
  BY <1>2 DEF SetLogging, tx, recv, SerialTypeOK
<1>3. CASE DMASendCallback
  <2>1. [sig |-> "UART_DMA_DONE"] \in Ends
    BY DEF Ends, EndSignals
  <2>2. serialQ' \in Seq(Sends \cup Ends)
    BY <1>3, <2>1 DEF DMASendCallback, SerialTypeOK
  <2>3. wire' \in Seq(Reports)
    BY <1>3 DEF DMASendCallback, SerialTypeOK, Reports
  <2>. QED BY <1>3, <2>2, <2>3, SerialAssumption DEF DMASendCallback, recv, SerialTypeOK
<1>4. CASE TimerExpires
  <2>1. [sig |-> "UART_DMA_TIMEOUT"] \in Ends
    BY DEF Ends, EndSignals
  <2>2. serialQ' \in Seq(Sends \cup Ends)
    BY <1>4, <2>1 DEF TimerExpires, SerialTypeOK
  <2>3. expired' \in Nat
    BY <1>4 DEF TimerExpires, SerialTypeOK
  <2>. QED BY <1>4, <2>2, <2>3 DEF TimerExpires, recv, SerialTypeOK
<1>. QED BY <1>1, <1>2, <1>3, <1>4

LEMMA ReceptionKeepsTypes ==
    ASSUME SerialTypeOK, NEW c \in Chars, UART1Callback(c) PROVE SerialTypeOK'
<1>1. rx' \in Seq({"x", "LF"}) /\ Len(rx') <= MaxLine
  <2>1. <<>> \in Seq({"x", "LF"}) /\ Len(<<>>) = 0 /\ Len(rx) \in Nat
    BY EmptySeq, LenProperties DEF SerialTypeOK
  <2>2. ASSUME c # "CR"
        PROVE  /\ Append(rx, c) \in Seq({"x", "LF"})
               /\ Len(Append(rx, c)) = Len(rx) + 1
    <3>1. c \in {"x", "LF"} /\ rx \in Seq({"x", "LF"})
      BY <2>2 DEF Chars, SerialTypeOK
    <3>. QED BY <3>1, AppendProperties
  <2>. QED
    BY <2>1, <2>2, SerialAssumption DEF UART1Callback, Keep, SerialTypeOK
<1>2. typed' \in Seq({"x"})
  <2>1. <<>> \in Seq({"x"})
    OBVIOUS
  <2>. QED BY <2>1 DEF UART1Callback, Chars, SerialTypeOK
<1>3. clean' \in BOOLEAN
  <2>1. CASE c = "LF"
    <3>1. clean' = (Len(typed) \in 1 .. MaxLine - 1)
      BY <2>1 DEF UART1Callback
    <3>2. (Len(typed) \in 1 .. MaxLine - 1) \in BOOLEAN
      OBVIOUS
    <3>. QED BY <3>1, <3>2, Zenon
  <2>2. CASE c # "LF"
    <3>1. clean' = clean
      BY <2>2 DEF UART1Callback
    <3>2. clean \in BOOLEAN
      BY DEF SerialTypeOK
    <3>. QED BY <3>1, <3>2
  <2>. QED BY <2>1, <2>2
<1>. QED BY <1>1, <1>2, <1>3 DEF UART1Callback, tx, SerialTypeOK

LEMMA HandlersKeepTypes == ASSUME SerialTypeOK, Handler PROVE SerialTypeOK'
<1>1. CASE IdleSend
  <2>1. Head(serialQ) \in Sends /\ serialQ' \in Seq(Sends \cup Ends)
    BY <1>1, HeadEvent DEF IdleSend, SendSignals
  <2>2. Head(serialQ).msg \in 1 .. MaxMsgs
    BY <2>1, EventsDiffer
  <2>3. wire' \in Seq(Reports)
    <3>1. CASE dma = 0
      BY <1>1, <3>1 DEF IdleSend, StartTransfer, SerialTypeOK
    <3>2. CASE dma # 0
      <4>1. [msg |-> dma, whole |-> FALSE] \in Reports
        BY <3>2, SerialAssumption DEF SerialTypeOK, Reports
      <4>2. wire' = Append(wire, [msg |-> dma, whole |-> FALSE])
        BY <1>1, <3>2 DEF IdleSend, StartTransfer
      <4>. QED BY <4>1, <4>2, AppendProperties DEF SerialTypeOK
    <3>. QED BY <3>1, <3>2
  <2>. QED
    BY <1>1, <2>1, <2>2, <2>3 DEF IdleSend, StartTransfer, recv, SerialTypeOK
<1>2. CASE IdleSkipsLog
  <2>1. Head(serialQ) \in Sends /\ serialQ' \in Seq(Sends \cup Ends)
    BY <1>2, HeadEvent DEF IdleSkipsLog, SendSignals
  <2>2. Head(serialQ).msg \in 1 .. MaxMsgs
    BY <2>1, EventsDiffer
  <2>. QED BY <1>2, <2>1, <2>2 DEF IdleSkipsLog, recv, SerialTypeOK
<1>3. CASE IdleDropsEnd
  <2>1. serialQ' \in Seq(Sends \cup Ends)
    BY <1>3, HeadEvent DEF IdleDropsEnd
  <2>. QED BY <1>3, <2>1 DEF IdleDropsEnd, recv, SerialTypeOK
<1>4. CASE BusyEnd
  <2>1. Tail(serialQ) \in Seq(Sends \cup Ends)
    BY <1>4, HeadEvent DEF BusyEnd
  <2>2. deferred # <<>> =>
          /\ Tail(deferred) \in Seq(Sends) /\ Len(Tail(deferred)) <= DeferMax
    BY TailPlaces, LenProperties, SerialAssumption DEF SerialTypeOK
  <2>3. /\ serialQ' \in Seq(Sends \cup Ends)
        /\ deferred' \in Seq(Sends) /\ Len(deferred') <= DeferMax
    BY <1>4, <2>1, <2>2, RecallPlaces DEF SerialTypeOK
  <2>. QED BY <1>4, <2>3 DEF BusyEnd, EnterIdle, recv, SerialTypeOK
<1>5. CASE BusyDefers
  <2>1. Head(serialQ) \in Sends /\ serialQ' \in Seq(Sends \cup Ends)
    BY <1>5, HeadEvent DEF BusyDefers, SendSignals
  <2>2. Head(serialQ).msg \in 1 .. MaxMsgs
    BY <2>1, EventsDiffer
  <2>3. deferred' \in Seq(Sends) /\ Len(deferred') <= DeferMax
    <3>1. /\ deferred \in Seq(Sends) /\ Len(deferred) \in Nat
          /\ Len(deferred) <= DeferMax
      BY LenProperties DEF SerialTypeOK
    <3>2. /\ Append(deferred, Head(serialQ)) \in Seq(Sends)
          /\ Len(Append(deferred, Head(serialQ))) = Len(deferred) + 1
      BY <2>1, <3>1, AppendProperties
    <3>. QED BY <1>5, <3>1, <3>2, SerialAssumption DEF BusyDefers, RoomToDefer
  <2>. QED BY <1>5, <2>1, <2>2, <2>3 DEF BusyDefers, recv, SerialTypeOK
<1>. QED BY <1>1, <1>2, <1>3, <1>4, <1>5 DEF Handler

LEMMA StepKeepsTypes == SerialTypeOK /\ [SerialNext]_vars => SerialTypeOK'
<1>. SUFFICES ASSUME SerialTypeOK, [SerialNext]_vars PROVE SerialTypeOK'
  OBVIOUS
<1>1. CASE UNCHANGED vars
  BY <1>1 DEF vars, SerialTypeOK
<1>. QED
  BY <1>1, EnvironmentKeepsTypes, ReceptionKeepsTypes, HandlersKeepTypes
  DEF SerialNext

(***************************************************************************)
(* The state, the queues and the buffers keep their types for every bound, *)
(* and neither the deferral queue nor the receive buffer outgrows its      *)
(* length.                                                                 *)
(***************************************************************************)
THEOREM SerialTypeCorrect == SerialSpec => []SerialTypeOK
BY InitiallyTyped, StepKeepsTypes, PTL DEF SerialSpec

-----------------------------------------------------------------------------
(* Cuts and expiries *)

\* What Busy waits for is under way: the transfer runs, or an end is queued.
BusyEnds == st = "Busy" => dma # 0 \/ Cardinality(EndsQueued) >= 1

LEMMA Counted ==
    ASSUME SerialTypeOK
    PROVE  Cardinality(Cut) \in Nat /\ Cardinality(EndsQueued) \in Nat
BY PositionsFinite DEF SerialTypeOK, Cut, EndsQueued

LEMMA EnvironmentStaysInStep ==
    ASSUME SerialTypeOK, InStep, BusyEnds,
           \/ \E sig \in SendSignals : Post(sig)
           \/ SetLogging \/ DMASendCallback \/ TimerExpires
           \/ \E c \in Chars : UART1Callback(c)
    PROVE  InStep' /\ BusyEnds'
<1>0. /\ serialQ \in Seq(Sends \cup Ends) /\ expired \in Nat
      /\ wire \in Seq(Reports)
      /\ Cardinality(Cut) \in Nat /\ Cardinality(EndsQueued) \in Nat
  BY Counted DEF SerialTypeOK
<1>1. ASSUME NEW sig \in SendSignals, Post(sig) PROVE InStep' /\ BusyEnds'
  <2>1. [sig |-> sig, msg |-> posted + 1] \in Sends
    <3>1. posted + 1 \in 1 .. MaxMsgs
      BY <1>1, SerialAssumption DEF Post, SerialTypeOK
    <3>. QED BY <1>1, <3>1 DEF Sends
  <2>2. Cardinality(EndsQueued)' = Cardinality(EndsQueued)
    BY <1>0, <1>1, <2>1, CountAppend, EventsDiffer DEF Post, EndsQueued
  <2>. QED BY <1>0, <1>1, <2>2 DEF Post, InStep, BusyEnds, Cut
<1>2. CASE SetLogging \/ \E c \in Chars : UART1Callback(c)
  BY <1>2 DEF SetLogging, UART1Callback, tx, InStep, BusyEnds, Cut, EndsQueued
<1>3. CASE DMASendCallback
  <2>1. [sig |-> "UART_DMA_DONE"] \in Ends
    BY DEF Ends, EndSignals
  <2>2. Cardinality(EndsQueued)' = Cardinality(EndsQueued) + 1
    BY <1>0, <1>3, <2>1, CountAppend DEF DMASendCallback, EndsQueued
  <2>3. [msg |-> dma, whole |-> TRUE] \in Reports
    BY <1>3 DEF DMASendCallback, SerialTypeOK, Reports
  <2>4. Cardinality(Cut)' = Cardinality(Cut)
    <3>1. [msg |-> dma, whole |-> TRUE] \notin [msg : 1 .. MaxMsgs, whole : {FALSE}]
      OBVIOUS
    <3>2. wire' = Append(wire, [msg |-> dma, whole |-> TRUE])
      BY <1>3 DEF DMASendCallback
    <3>3. Cardinality(Positions(Append(wire, [msg |-> dma, whole |-> TRUE]),
                                [msg : 1 .. MaxMsgs, whole : {FALSE}]))
            = Cardinality(Cut)
      BY <1>0, <2>3, <3>1, CountAppend DEF Cut
    <3>. QED BY <3>2, <3>3 DEF Cut
  <2>. QED BY <1>0, <1>3, <2>2, <2>4 DEF DMASendCallback, InStep, BusyEnds
<1>4. CASE TimerExpires
  <2>1. [sig |-> "UART_DMA_TIMEOUT"] \in Ends
    BY DEF Ends, EndSignals
  <2>2. Cardinality(EndsQueued)' = Cardinality(EndsQueued) + 1
    BY <1>0, <1>4, <2>1, CountAppend DEF TimerExpires, EndsQueued
  <2>3. Cardinality(Cut)' = Cardinality(Cut)
    BY <1>4 DEF TimerExpires, Cut
  <2>. QED BY <1>0, <1>4, <2>2, <2>3 DEF TimerExpires, InStep, BusyEnds
<1>. QED BY <1>1, <1>2, <1>3, <1>4

LEMMA HandlersStayInStep ==
    ASSUME SerialTypeOK, InStep, BusyEnds, Handler PROVE InStep' /\ BusyEnds'
<1>0. /\ serialQ \in Seq(Sends \cup Ends) /\ expired \in Nat
      /\ wire \in Seq(Reports)
      /\ Cardinality(Cut) \in Nat /\ Cardinality(EndsQueued) \in Nat
  BY Counted DEF SerialTypeOK
<1>1. CASE IdleSend
  <2>1. serialQ # <<>> /\ Head(serialQ) \in Sends
    BY <1>1, HeadEvent DEF IdleSend, SendSignals
  <2>2. Cardinality(EndsQueued)' = Cardinality(EndsQueued)
    BY <1>0, <1>1, <2>1, CountTail, EventsDiffer DEF IdleSend, EndsQueued
  <2>3. /\ dma = 0 => Cardinality(Cut)' = Cardinality(Cut)
        /\ dma # 0 => Cardinality(Cut)' = Cardinality(Cut) + 1
    <3>1. CASE dma = 0
      BY <1>0, <1>1, <3>1 DEF IdleSend, StartTransfer, Cut
    <3>2. CASE dma # 0
      <4>1. /\ [msg |-> dma, whole |-> FALSE] \in [msg : 1 .. MaxMsgs, whole : {FALSE}]
            /\ [msg |-> dma, whole |-> FALSE] \in Reports
        BY <3>2, SerialAssumption DEF SerialTypeOK, Reports
      <4>2. wire' = Append(wire, [msg |-> dma, whole |-> FALSE])
        BY <1>1, <3>2 DEF IdleSend, StartTransfer
      <4>. DEFINE e == [msg |-> dma, whole |-> FALSE]
                  P == [msg : 1 .. MaxMsgs, whole : {FALSE}]
                  S == Reports
      <4>3. e \in S /\ e \in P /\ wire \in Seq(S)
        BY <1>0, <4>1
      <4>4. Cut = Positions(wire, P) /\ Cut' = Positions(Append(wire, e), P)
        BY <4>2 DEF Cut
      <4>. HIDE DEF e, P, S
      <4>5. Cardinality(Positions(Append(wire, e), P)) =
               Cardinality(Positions(wire, P)) + 1
        BY <4>3, CountAppend
      <4>. QED BY <3>2, <4>4, <4>5
    <3>. QED BY <3>1, <3>2
  <2>4. dma' # 0
    BY <1>1, <2>1, EventsDiffer, SerialAssumption DEF IdleSend, StartTransfer
  <2>. QED BY <1>0, <1>1, <2>2, <2>3, <2>4 DEF IdleSend, StartTransfer, InStep, BusyEnds
<1>2. CASE IdleSkipsLog
  <2>1. serialQ # <<>> /\ Head(serialQ) \in Sends
    BY <1>2, HeadEvent DEF IdleSkipsLog, SendSignals
  <2>2. Cardinality(EndsQueued)' = Cardinality(EndsQueued)
    BY <1>0, <1>2, <2>1, CountTail, EventsDiffer DEF IdleSkipsLog, EndsQueued
  <2>. QED BY <1>0, <1>2, <2>2 DEF IdleSkipsLog, InStep, BusyEnds, Cut
<1>3. CASE IdleDropsEnd
  <2>1. serialQ # <<>> /\ Head(serialQ) \in Ends
    BY <1>3, HeadEvent DEF IdleDropsEnd
  <2>2. Cardinality(EndsQueued)' = Cardinality(EndsQueued) - 1
    BY <1>0, <1>3, <2>1, CountTail DEF IdleDropsEnd, EndsQueued
  <2>. QED BY <1>0, <1>3, <2>2 DEF IdleDropsEnd, InStep, BusyEnds, Cut
<1>4. CASE BusyEnd
  <2>1. serialQ # <<>> /\ Head(serialQ) \in Ends
    BY <1>4, HeadEvent DEF BusyEnd
  <2>2. Cardinality(EndsQueued)' = Cardinality(EndsQueued) - 1
    <3>1. CASE serialQ' = Tail(serialQ)
      BY <1>0, <2>1, <3>1, CountTail DEF EndsQueued
    <3>2. CASE serialQ' = [serialQ EXCEPT ![1] = deferred[1]] /\ deferred[1] \in Sends
      <4>1. deferred[1] \in Sends \cup Ends /\ deferred[1] \notin Ends
        BY <3>2, EventsDiffer
      <4>. QED BY <1>0, <2>1, <3>2, <4>1, CountFront DEF EndsQueued
    <3>. QED BY <1>4, <3>1, <3>2, RecallPlaces
  <2>3. st = "Busy" /\ st' = "Idle" /\ dma' = dma /\ expired' = expired /\ Cut' = Cut
    BY <1>4 DEF BusyEnd, EnterIdle, Cut
  <2>. QED BY <1>0, <2>2, <2>3 DEF InStep, BusyEnds
<1>5. CASE BusyDefers
  <2>1. serialQ # <<>> /\ Head(serialQ) \in Sends
    BY <1>5, HeadEvent DEF BusyDefers, SendSignals
  <2>2. Cardinality(EndsQueued)' = Cardinality(EndsQueued)
    BY <1>0, <1>5, <2>1, CountTail, EventsDiffer DEF BusyDefers, EndsQueued
  <2>. QED BY <1>0, <1>5, <2>2 DEF BusyDefers, InStep, BusyEnds, Cut
<1>. QED BY <1>1, <1>2, <1>3, <1>4, <1>5 DEF Handler

LEMMA StepStaysInStep ==
    SerialTypeOK /\ InStep /\ BusyEnds /\ [SerialNext]_vars => InStep' /\ BusyEnds'
<1>. SUFFICES ASSUME SerialTypeOK, InStep, BusyEnds, [SerialNext]_vars
              PROVE  InStep' /\ BusyEnds'
  OBVIOUS
<1>1. CASE UNCHANGED vars
  BY <1>1 DEF vars, InStep, BusyEnds, Cut, EndsQueued
<1>. QED
  BY <1>1, EnvironmentStaysInStep, HandlersStayInStep DEF SerialNext

LEMMA InitiallyInStep == SerialInit => InStep /\ BusyEnds
<1>1. SerialInit => Cut = {} /\ EndsQueued = {}
  BY DEF SerialInit, Cut, EndsQueued, Positions
<1>2. SerialInit => dma = 0 /\ st = "Idle" /\ expired = 0
  BY DEF SerialInit
<1>. QED BY <1>1, <1>2, FS_EmptySet DEF InStep, BusyEnds

(***************************************************************************)
(* At most one message is cut short for each expiry of the timer, however  *)
(* late the ends of transfers are and for every number of messages: the    *)
(* ends that are still queued, and the transfer that is running, beyond    *)
(* the one Busy waits for, are themselves owed to expiries.                *)
(***************************************************************************)
THEOREM CutsArePaidFor == SerialSpec => []CutOnlyByTimeout
<1>1. SerialTypeOK /\ InStep /\ BusyEnds => CutOnlyByTimeout
  <2>. SUFFICES ASSUME SerialTypeOK, InStep, BusyEnds PROVE CutOnlyByTimeout
    OBVIOUS
  <2>1. /\ Cardinality(Cut) \in Nat /\ Cardinality(EndsQueued) \in Nat
        /\ expired \in Nat
    BY Counted DEF SerialTypeOK
  <2>. QED BY <2>1 DEF InStep, BusyEnds, CutOnlyByTimeout
<1>. QED
  BY <1>1, InitiallyInStep, StepStaysInStep, SerialTypeCorrect, PTL DEF SerialSpec

-----------------------------------------------------------------------------
(* Where the messages are *)

\* NoneLostOrRepeated, with the places written out.
Accounted ==
    LET queued  == Carried(serialQ, Sends)
        waiting == Carried(deferred, Sends)
        running == {dma} \ {0}
        gone    == Carried(wire, Reports)
    IN  /\ queued \cup waiting \cup running \cup gone \cup thrown = 1 .. posted
        /\ Apart(queued, waiting, running, gone, thrown)
        /\ OnceIn(serialQ, Sends) /\ OnceIn(deferred, Sends)
        /\ OnceIn(wire, Reports)

LEMMA PlacesWrittenOut == Accounted <=> NoneLostOrRepeated
<1>. DEFINE A == Carried(serialQ, Sends)
            B == Carried(deferred, Sends)
            C == {dma} \ {0}
            D == Carried(wire, Reports)
<1>1. Whereabouts = <<A, B, C, D, thrown>>
  BY DEF Whereabouts
<1>2. Accounted <=>
        /\ A \cup B \cup C \cup D \cup thrown = 1 .. posted
        /\ Apart(A, B, C, D, thrown)
        /\ OnceIn(serialQ, Sends) /\ OnceIn(deferred, Sends)
        /\ OnceIn(wire, Reports)
  BY DEF Accounted
<1>. HIDE DEF A, B, C, D
<1>3. EachInOnePlace(1 .. posted, Whereabouts) <=>
        /\ A \cup B \cup C \cup D \cup thrown = 1 .. posted
        /\ Apart(A, B, C, D, thrown)
  BY <1>1, FivePlaces
<1>. QED BY <1>2, <1>3 DEF NoneLostOrRepeated

LEMMA EnvironmentKeepsAccount ==
    ASSUME SerialTypeOK, Accounted,
           \/ \E sig \in SendSignals : Post(sig)
           \/ SetLogging \/ DMASendCallback \/ TimerExpires
           \/ \E c \in Chars : UART1Callback(c)
    PROVE  Accounted'
<1>0. /\ serialQ \in Seq(Sends \cup Ends) /\ wire \in Seq(Reports)
      /\ dma \in 0 .. MaxMsgs /\ posted \in 0 .. MaxMsgs
  BY DEF SerialTypeOK, Reports
<1>1. ASSUME NEW sig \in SendSignals, Post(sig) PROVE Accounted'
  <2>. DEFINE e == [sig |-> sig, msg |-> posted + 1]
  <2>1. e \in Sends /\ e \in Sends \cup Ends /\ e.msg = posted + 1
    <3>1. posted + 1 \in 1 .. MaxMsgs
      BY <1>0, <1>1, SerialAssumption DEF Post
    <3>. QED BY <1>1, <3>1 DEF Sends
  <2>2. serialQ' = Append(serialQ, e)
    BY <1>1 DEF Post
  <2>. HIDE DEF e
  <2>3. Carried(serialQ, Sends) \subseteq 1 .. posted /\ OnceIn(serialQ, Sends)
    BY DEF Accounted
  <2>4. e.msg \notin Carried(serialQ, Sends) /\ posted + 1 \notin 1 .. posted
        /\ 1 .. posted + 1 = 1 .. posted \cup {posted + 1}
    BY <1>0, <2>1, <2>3
  <2>5. /\ Carried(serialQ', Sends) = Carried(serialQ, Sends) \cup {posted + 1}
        /\ OnceIn(serialQ', Sends)
    BY <1>0, <2>1, <2>2, <2>3, <2>4, CarriedAppend
  <2>6. /\ UNCHANGED <<deferred, dma, wire, thrown>> /\ posted' = posted + 1
    BY <1>1 DEF Post
  <2>. QED BY <2>4, <2>5, <2>6 DEF Accounted, Apart
<1>2. CASE SetLogging \/ \E c \in Chars : UART1Callback(c)
  BY <1>2 DEF SetLogging, UART1Callback, tx, Accounted
<1>3. CASE DMASendCallback
  <2>. DEFINE e == [sig |-> "UART_DMA_DONE"]
              r == [msg |-> dma, whole |-> TRUE]
  <2>1. e \in Ends /\ e \in Sends \cup Ends /\ e \notin Sends
    BY EventsDiffer DEF Ends, EndSignals
  <2>2. r \in Reports /\ r.msg = dma /\ dma # 0
    BY <1>0, <1>3 DEF DMASendCallback, Reports
  <2>3. /\ serialQ' = Append(serialQ, e) /\ wire' = Append(wire, r) /\ dma' = 0
        /\ UNCHANGED <<deferred, thrown, posted>>
    BY <1>3 DEF DMASendCallback
  <2>. HIDE DEF e, r
  <2>4. /\ OnceIn(serialQ, Sends) /\ OnceIn(wire, Reports)
        /\ dma \notin Carried(wire, Reports)
    BY <2>2 DEF Accounted, Apart
  <2>5. /\ Carried(Append(serialQ, e), Sends) = Carried(serialQ, Sends)
        /\ OnceIn(Append(serialQ, e), Sends)
    BY <1>0, <2>1, <2>4, CarriedAppend
  <2>6. /\ Carried(wire', Reports) = Carried(wire, Reports) \cup {dma}
        /\ OnceIn(wire', Reports)
    BY <1>0, <2>2, <2>3, <2>4, CarriedAppend
  <2>. QED BY <2>2, <2>3, <2>5, <2>6 DEF Accounted, Apart
<1>4. CASE TimerExpires
  <2>. DEFINE e == [sig |-> "UART_DMA_TIMEOUT"]
  <2>1. e \in Ends /\ e \in Sends \cup Ends /\ e \notin Sends
    BY EventsDiffer DEF Ends, EndSignals
  <2>2. /\ serialQ' = Append(serialQ, e)
        /\ UNCHANGED <<deferred, dma, wire, thrown, posted>>
    BY <1>4 DEF TimerExpires
  <2>. HIDE DEF e
  <2>3. OnceIn(serialQ, Sends)
    BY DEF Accounted
  <2>4. /\ Carried(serialQ', Sends) = Carried(serialQ, Sends)
        /\ OnceIn(serialQ', Sends)
    BY <1>0, <2>1, <2>2, <2>3, CarriedAppend
  <2>. QED BY <2>2, <2>4 DEF Accounted
<1>. QED BY <1>1, <1>2, <1>3, <1>4

\* What taking the next event does to the messages in the queue.
LEMMA Taken ==
    ASSUME SerialTypeOK, Accounted, serialQ # <<>>
    PROVE  /\ OnceIn(Tail(serialQ), Sends)
           /\ Head(serialQ) \in Sends =>
                /\ Carried(Tail(serialQ), Sends) =
                      Carried(serialQ, Sends) \ {Head(serialQ).msg}
                /\ Head(serialQ).msg \in Carried(serialQ, Sends)
           /\ Head(serialQ) \notin Sends =>
                Carried(Tail(serialQ), Sends) = Carried(serialQ, Sends)
BY CarriedTail DEF SerialTypeOK, Accounted

LEMMA HandlersKeepAccount ==
    ASSUME SerialTypeOK, Accounted, Handler PROVE Accounted'
<1>0. /\ serialQ \in Seq(Sends \cup Ends) /\ wire \in Seq(Reports)
      /\ deferred \in Seq(Sends) /\ dma \in 0 .. MaxMsgs
  BY DEF SerialTypeOK, Reports
<1>1. CASE IdleSend
  <2>. DEFINE m == Head(serialQ).msg
              r == [msg |-> dma, whole |-> FALSE]
  <2>1. serialQ # <<>> /\ Head(serialQ) \in Sends /\ m # 0
    BY <1>1, HeadEvent, EventsDiffer, SerialAssumption DEF IdleSend, SendSignals
  <2>2. /\ serialQ' = Tail(serialQ) /\ dma' = m
        /\ wire' = IF dma = 0 THEN wire ELSE Append(wire, r)
        /\ UNCHANGED <<deferred, thrown, posted>>
    BY <1>1 DEF IdleSend, StartTransfer
  <2>3. /\ Carried(serialQ', Sends) = Carried(serialQ, Sends) \ {m}
        /\ m \in Carried(serialQ, Sends) /\ OnceIn(serialQ', Sends)
    BY <2>1, <2>2, Taken
  <2>4. /\ Carried(wire', Reports) = Carried(wire, Reports) \cup ({dma} \ {0})
        /\ OnceIn(wire', Reports)
    <3>1. CASE dma = 0
      BY <2>2, <3>1 DEF Accounted
    <3>2. CASE dma # 0
      <4>1. r \in Reports /\ r.msg = dma
        BY <1>0, <3>2 DEF Reports
      <4>2. wire' = Append(wire, r)
        BY <2>2, <3>2
      <4>. HIDE DEF r
      <4>3. dma \notin Carried(wire, Reports) /\ OnceIn(wire, Reports)
        BY <3>2 DEF Accounted, Apart
      <4>4. /\ Carried(wire', Reports) = Carried(wire, Reports) \cup {dma}
            /\ OnceIn(wire', Reports)
        BY <1>0, <4>1, <4>2, <4>3, CarriedAppend
      <4>. QED BY <3>2, <4>4
    <3>. QED BY <3>1, <3>2
  <2>. HIDE DEF m
  <2>5. {dma'} \ {0} = {m}
    BY <2>1, <2>2
  <2>. DEFINE A == Carried(serialQ, Sends)
              B == Carried(deferred, Sends)
              C == {dma} \ {0}
              D == Carried(wire, Reports)
  <2>6. /\ Apart(A, B, C, D, thrown) /\ m \in A
        /\ A \cup B \cup C \cup D \cup thrown = 1 .. posted
        /\ OnceIn(deferred, Sends)
    BY <2>3 DEF Accounted
  <2>7. /\ Carried(serialQ', Sends) = A \ {m} /\ Carried(deferred', Sends) = B
        /\ {dma'} \ {0} = {m} /\ Carried(wire', Reports) = D \cup C
        /\ thrown' = thrown /\ posted' = posted /\ deferred' = deferred
    BY <2>2, <2>3, <2>4, <2>5
  <2>. HIDE DEF A, B, C, D
  <2>8. /\ Apart(A \ {m}, B, {m}, D \cup C, thrown)
        /\ (A \ {m}) \cup B \cup {m} \cup (D \cup C) \cup thrown = 1 .. posted
    BY <2>6, OneLeavesOneGoes
  <2>. QED BY <2>3, <2>4, <2>6, <2>7, <2>8 DEF Accounted
<1>2. CASE IdleSkipsLog
  <2>. DEFINE m == Head(serialQ).msg
  <2>1. serialQ # <<>> /\ Head(serialQ) \in Sends
    BY <1>2, HeadEvent DEF IdleSkipsLog, SendSignals
  <2>2. /\ serialQ' = Tail(serialQ) /\ thrown' = thrown \cup {m}
        /\ UNCHANGED <<deferred, dma, wire, posted>>
    BY <1>2 DEF IdleSkipsLog
  <2>3. /\ Carried(serialQ', Sends) = Carried(serialQ, Sends) \ {m}
        /\ m \in Carried(serialQ, Sends) /\ OnceIn(serialQ', Sends)
    BY <2>1, <2>2, Taken
  <2>. HIDE DEF m
  <2>. QED BY <2>2, <2>3 DEF Accounted, Apart
<1>3. CASE IdleDropsEnd
  <2>1. serialQ # <<>> /\ Head(serialQ) \notin Sends
    BY <1>3, HeadEvent, EventsDiffer DEF IdleDropsEnd
  <2>2. serialQ' = Tail(serialQ) /\ UNCHANGED <<deferred, dma, wire, posted, thrown>>
    BY <1>3 DEF IdleDropsEnd
  <2>3. Carried(serialQ', Sends) = Carried(serialQ, Sends) /\ OnceIn(serialQ', Sends)
    BY <2>1, <2>2, Taken
  <2>. QED BY <2>2, <2>3 DEF Accounted
<1>4. CASE BusyEnd
  <2>1. serialQ # <<>> /\ Head(serialQ) \notin Sends
    BY <1>4, HeadEvent, EventsDiffer DEF BusyEnd
  <2>2. UNCHANGED <<dma, wire, posted, thrown>>
    BY <1>4 DEF BusyEnd
  <2>3. CASE deferred = <<>> /\ deferred' = <<>> /\ serialQ' = Tail(serialQ)
    <3>1. Carried(serialQ', Sends) = Carried(serialQ, Sends) /\ OnceIn(serialQ', Sends)
      BY <2>1, <2>3, Taken
    <3>2. deferred' = deferred
      BY <2>3
    <3>. QED BY <2>2, <3>1, <3>2 DEF Accounted
  <2>4. CASE /\ deferred # <<>> /\ deferred' = Tail(deferred)
             /\ serialQ' = [serialQ EXCEPT ![1] = deferred[1]]
             /\ deferred[1] \in Sends
    <3>. DEFINE m == deferred[1].msg
    <3>1. OnceIn(deferred, Sends) /\ OnceIn(serialQ, Sends)
      BY DEF Accounted
    <3>2. deferred[1] = Head(deferred)
      BY <1>0, <2>4, TailPlaces
    <3>3. /\ Carried(deferred', Sends) = Carried(deferred, Sends) \ {m}
          /\ m \in Carried(deferred, Sends) /\ OnceIn(deferred', Sends)
      BY <1>0, <2>4, <3>1, <3>2, CarriedTail
    <3>4. m \notin Carried(serialQ, Sends)
      BY <3>3 DEF Accounted, Apart
    <3>5. /\ OnceIn(serialQ', Sends)
          /\ Carried(serialQ', Sends) = Carried(serialQ, Sends) \cup {m}
      <4>1. m = deferred[1].msg /\ deferred[1] \in Sends \cup Ends
        BY <2>4
      <4>. HIDE DEF m
      <4>. QED BY <1>0, <2>1, <2>4, <3>1, <3>4, <4>1, CarriedFront
    <3>. HIDE DEF m
    <3>. QED BY <2>2, <3>3, <3>5 DEF Accounted, Apart
  <2>. QED BY <1>4, <2>3, <2>4, RecallPlaces
<1>5. CASE BusyDefers
  <2>. DEFINE m == Head(serialQ).msg
  <2>1. serialQ # <<>> /\ Head(serialQ) \in Sends
    BY <1>5, HeadEvent DEF BusyDefers, SendSignals
  <2>2. serialQ' = Tail(serialQ) /\ UNCHANGED <<dma, wire, posted>>
    BY <1>5 DEF BusyDefers
  <2>3. /\ Carried(serialQ', Sends) = Carried(serialQ, Sends) \ {m}
        /\ m \in Carried(serialQ, Sends) /\ OnceIn(serialQ', Sends)
    BY <2>1, <2>2, Taken
  <2>4. CASE deferred' = Append(deferred, Head(serialQ)) /\ thrown' = thrown
    <3>1. OnceIn(deferred, Sends) /\ m \notin Carried(deferred, Sends)
      BY <2>3 DEF Accounted, Apart
    <3>2. /\ Carried(deferred', Sends) = Carried(deferred, Sends) \cup {m}
          /\ OnceIn(deferred', Sends)
      BY <1>0, <2>1, <2>4, <3>1, CarriedAppend
    <3>. HIDE DEF m
    <3>. QED BY <2>2, <2>3, <2>4, <3>2 DEF Accounted, Apart
  <2>5. CASE deferred' = deferred /\ thrown' = thrown \cup {m}
    <3>. HIDE DEF m
    <3>. QED BY <2>2, <2>3, <2>5 DEF Accounted, Apart
  <2>. QED BY <1>5, <2>4, <2>5 DEF BusyDefers
<1>. QED BY <1>1, <1>2, <1>3, <1>4, <1>5 DEF Handler

LEMMA StepKeepsAccount == SerialTypeOK /\ Accounted /\ [SerialNext]_vars => Accounted'
<1>. SUFFICES ASSUME SerialTypeOK, Accounted, [SerialNext]_vars PROVE Accounted'
  OBVIOUS
<1>1. CASE UNCHANGED vars
  BY <1>1 DEF vars, Accounted
<1>. QED
  BY <1>1, EnvironmentKeepsAccount, HandlersKeepAccount DEF SerialNext

LEMMA InitiallyAccounted == SerialInit => Accounted
<1>. SUFFICES ASSUME SerialInit PROVE Accounted
  OBVIOUS
<1>1. \A P : Positions(<<>>, P) = {}
  BY DEF Positions
<1>2. \A P : Carried(<<>>, P) = {} /\ OnceIn(<<>>, P)
  BY <1>1 DEF Carried, OnceIn
<1>3. serialQ = <<>> /\ deferred = <<>> /\ wire = <<>> /\ dma = 0 /\ thrown = {} /\ posted = 0
  BY DEF SerialInit
<1>. QED BY <1>2, <1>3 DEF Accounted, Apart

(***************************************************************************)
(* No message is lost or repeated, for every number of messages and every  *)
(* length of the deferral queue: each is in the event queue, deferred,     *)
(* being sent, on the wire (whole or cut) or thrown away, and in one of    *)
(* them only.                                                              *)
(***************************************************************************)
THEOREM MessagesAccountedFor == SerialSpec => []NoneLostOrRepeated
BY InitiallyAccounted, StepKeepsAccount, PlacesWrittenOut, SerialTypeCorrect, PTL
DEF SerialSpec

-----------------------------------------------------------------------------
(* The order of the messages *)

\* In Busy every deferred message is older than those queued.  In Idle the
\* first event is the one that was recalled, older than the deferred ones,
\* and they are older than the rest of the queue.
Turns ==
    LET waiting == Carried(deferred, Sends)
    IN  /\ st = "Busy" => Older(waiting, Carried(serialQ, Sends))
        /\ st = "Idle" /\ deferred # <<>> =>
              /\ serialQ # <<>> /\ Head(serialQ) \in Sends
              /\ Older({Head(serialQ).msg}, waiting)
              /\ Older(waiting, Carried(Tail(serialQ), Sends))

InLine ==
    LET queued  == Carried(serialQ, Sends)
        waiting == Carried(deferred, Sends)
        running == {dma} \ {0}
    IN  /\ Ascending(wire, Reports) /\ Ascending(deferred, Sends)
        /\ Ascending(serialQ, Sends)
        /\ Older(Carried(wire, Reports), running \cup waiting \cup queued)
        /\ Older(running, waiting \cup queued)
        /\ Turns

OrderInv == skipped \/ InLine

\* A line that fits is in the buffer as typed, or the newline the line before
\* left there is ahead of it.
RxInv ==
    Len(typed) < MaxLine =>
        rx = typed \/ (~ clean /\ Len(rx) = Len(typed) + 1)

\* Messages are numbers, and every place holds messages posted.
LEMMA Numbered ==
    ASSUME SerialTypeOK, Accounted
    PROVE  /\ Carried(serialQ, Sends) \subseteq 1 .. posted
           /\ Carried(deferred, Sends) \subseteq 1 .. posted
           /\ Carried(wire, Reports) \subseteq 1 .. posted
           /\ {dma} \ {0} \subseteq 1 .. posted /\ posted \in Nat
<1>1. posted \in Nat
  BY SerialAssumption DEF SerialTypeOK
<1>2. Carried(serialQ, Sends) \cup Carried(deferred, Sends) \cup ({dma} \ {0})
         \cup Carried(wire, Reports) \cup thrown = 1 .. posted
  BY DEF Accounted
<1>. QED BY <1>1, <1>2

LEMMA TurnsAppend ==
    ASSUME SerialTypeOK, Turns, NEW e \in Sends \cup Ends,
           serialQ' = Append(serialQ, e), st' = st, deferred' = deferred,
           e \in Sends => Older(Carried(deferred, Sends), {e.msg})
    PROVE  Turns'
<1>0. serialQ \in Seq(Sends \cup Ends)
  BY DEF SerialTypeOK
<1>1. Carried(Append(serialQ, e), Sends) \subseteq
         Carried(serialQ, Sends) \cup (IF e \in Sends THEN {e.msg} ELSE {})
  BY <1>0, CarriedAppend
<1>2. CASE st = "Busy"
  <2>1. Older(Carried(deferred, Sends), Carried(Append(serialQ, e), Sends))
    BY <1>1, <1>2 DEF Turns, Older
  <2>. QED BY <1>2, <2>1 DEF Turns
<1>3. CASE st = "Idle" /\ deferred # <<>>
  <2>1. /\ serialQ # <<>> /\ Head(serialQ) \in Sends
        /\ Older({Head(serialQ).msg}, Carried(deferred, Sends))
        /\ Older(Carried(deferred, Sends), Carried(Tail(serialQ), Sends))
    BY <1>3 DEF Turns
  <2>2. Tail(serialQ) \in Seq(Sends \cup Ends)
    BY <1>0, <2>1, TailPlaces
  <2>3. /\ e \notin Sends => Carried(Append(Tail(serialQ), e), Sends)
                                = Carried(Tail(serialQ), Sends)
        /\ e \in Sends => Carried(Append(Tail(serialQ), e), Sends)
                             = Carried(Tail(serialQ), Sends) \cup {e.msg}
    <3>. DEFINE s == Tail(serialQ)
    <3>1. s \in Seq(Sends \cup Ends)
      BY <2>2
    <3>. HIDE DEF s
    <3>2. /\ e \notin Sends => Carried(Append(s, e), Sends) = Carried(s, Sends)
          /\ e \in Sends => Carried(Append(s, e), Sends) = Carried(s, Sends) \cup {e.msg}
      BY <3>1, CarriedAppend
    <3>. QED BY <3>2 DEF s
  <2>4. Older(Carried(deferred, Sends), Carried(Append(Tail(serialQ), e), Sends))
    BY <2>1, <2>3 DEF Older
  <2>5. /\ Head(serialQ') = Head(serialQ)
        /\ Tail(serialQ') = Append(Tail(serialQ), e)
    BY <1>0, <2>1, HeadTailAppend
  <2>6. serialQ' # <<>>
    BY <1>0, AppendProperties
  <2>. QED BY <1>3, <2>1, <2>4, <2>5, <2>6 DEF Turns
<1>4. CASE st # "Busy" /\ ~ (st = "Idle" /\ deferred # <<>>)
  BY <1>4 DEF Turns
<1>. QED BY <1>2, <1>3, <1>4

LEMMA EnvironmentKeepsOrder ==
    ASSUME SerialTypeOK, Accounted, InLine,
           \/ \E sig \in SendSignals : Post(sig)
           \/ SetLogging \/ DMASendCallback \/ TimerExpires
           \/ \E c \in Chars : UART1Callback(c)
    PROVE  InLine'
<1>0. /\ serialQ \in Seq(Sends \cup Ends) /\ wire \in Seq(Reports)
      /\ dma \in 0 .. MaxMsgs /\ posted \in 0 .. MaxMsgs
  BY DEF SerialTypeOK, Reports
<1>1. ASSUME NEW sig \in SendSignals, Post(sig) PROVE InLine'
  <2>. DEFINE e == [sig |-> sig, msg |-> posted + 1]
  <2>1. e \in Sends /\ e \in Sends \cup Ends /\ e.msg = posted + 1
    <3>1. posted + 1 \in 1 .. MaxMsgs
      BY <1>0, <1>1, SerialAssumption DEF Post
    <3>. QED BY <1>1, <3>1 DEF Sends
  <2>2. /\ serialQ' = Append(serialQ, e)
        /\ UNCHANGED <<deferred, st, dma, wire>>
    BY <1>1 DEF Post
  <2>. HIDE DEF e
  <2>3. \A S \in SUBSET (1 .. posted) : Older(S, {e.msg})
    BY <1>0, <2>1 DEF Older
  <2>4. /\ Older(Carried(serialQ, Sends), {e.msg})
        /\ Older(Carried(deferred, Sends), {e.msg})
        /\ Older(Carried(wire, Reports), {e.msg})
        /\ Older({dma} \ {0}, {e.msg})
    BY <2>3, Numbered
  <2>5. Ascending(Append(serialQ, e), Sends)
    BY <1>0, <2>1, <2>4, AscendingAppend DEF InLine
  <2>6. Carried(Append(serialQ, e), Sends) = Carried(serialQ, Sends) \cup {e.msg}
    BY <1>0, <2>1, CarriedAppend
  <2>7. Turns'
    BY <2>1, <2>2, <2>4, TurnsAppend DEF InLine
  <2>. QED BY <2>2, <2>4, <2>5, <2>6, <2>7 DEF InLine, Older
<1>2. CASE SetLogging \/ \E c \in Chars : UART1Callback(c)
  BY <1>2 DEF SetLogging, UART1Callback, tx, InLine, Turns
<1>3. CASE DMASendCallback
  <2>. DEFINE e == [sig |-> "UART_DMA_DONE"]
              r == [msg |-> dma, whole |-> TRUE]
  <2>1. e \in Ends /\ e \in Sends \cup Ends /\ e \notin Sends
    BY EventsDiffer DEF Ends, EndSignals
  <2>2. r \in Reports /\ r.msg = dma /\ dma # 0
    BY <1>0, <1>3 DEF DMASendCallback, Reports
  <2>3. /\ serialQ' = Append(serialQ, e) /\ wire' = Append(wire, r) /\ dma' = 0
        /\ UNCHANGED <<deferred, st>>
    BY <1>3 DEF DMASendCallback
  <2>. HIDE DEF e, r
  <2>4. /\ Ascending(wire, Reports) /\ Ascending(serialQ, Sends) /\ Turns
        /\ Older(Carried(wire, Reports), {dma})
    BY <2>2 DEF InLine, Older
  <2>5. Ascending(Append(serialQ, e), Sends)
    BY <1>0, <2>1, <2>4, AscendingAppend
  <2>6. Ascending(Append(wire, r), Reports)
    BY <1>0, <2>2, <2>4, AscendingAppend
  <2>7. /\ Carried(Append(serialQ, e), Sends) = Carried(serialQ, Sends)
        /\ Carried(Append(wire, r), Reports) = Carried(wire, Reports) \cup {dma}
    BY <1>0, <2>1, <2>2, CarriedAppend
  <2>8. Turns'
    BY <2>1, <2>3, <2>4, TurnsAppend
  <2>. QED BY <2>2, <2>3, <2>5, <2>6, <2>7, <2>8 DEF InLine, Older
<1>4. CASE TimerExpires
  <2>. DEFINE e == [sig |-> "UART_DMA_TIMEOUT"]
  <2>1. e \in Ends /\ e \in Sends \cup Ends /\ e \notin Sends
    BY EventsDiffer DEF Ends, EndSignals
  <2>2. /\ serialQ' = Append(serialQ, e)
        /\ UNCHANGED <<deferred, st, dma, wire>>
    BY <1>4 DEF TimerExpires
  <2>. HIDE DEF e
  <2>3. Ascending(Append(serialQ, e), Sends)
    BY <1>0, <2>1, AscendingAppend DEF InLine
  <2>4. Carried(Append(serialQ, e), Sends) = Carried(serialQ, Sends)
    BY <1>0, <2>1, CarriedAppend
  <2>5. Turns'
    BY <2>1, <2>2, TurnsAppend DEF InLine
  <2>. QED BY <2>2, <2>3, <2>4, <2>5 DEF InLine
<1>. QED BY <1>1, <1>2, <1>3, <1>4

\* The message at the head is the oldest of the queue.
LEMMA TakenInOrder ==
    ASSUME SerialTypeOK, Accounted, InLine, serialQ # <<>>, serialQ' = Tail(serialQ)
    PROVE  /\ Ascending(serialQ', Sends)
           /\ Carried(serialQ', Sends) \subseteq Carried(serialQ, Sends)
           /\ Head(serialQ) \in Sends =>
                /\ Head(serialQ).msg \in Carried(serialQ, Sends)
                /\ Older({Head(serialQ).msg}, Carried(serialQ', Sends))
BY Taken, AscendingTail DEF SerialTypeOK, InLine

LEMMA HandlersKeepOrder ==
    ASSUME SerialTypeOK, Accounted, InLine, Handler PROVE OrderInv'
<1>0. /\ serialQ \in Seq(Sends \cup Ends) /\ wire \in Seq(Reports)
      /\ deferred \in Seq(Sends) /\ dma \in 0 .. MaxMsgs
      /\ st \in {"Idle", "Busy"}
  BY DEF SerialTypeOK, Reports
<1>1. CASE IdleSend
  <2>. DEFINE m == Head(serialQ).msg
              r == [msg |-> dma, whole |-> FALSE]
  <2>1. /\ serialQ # <<>> /\ Head(serialQ) \in Sends /\ m # 0
        /\ serialQ' = Tail(serialQ) /\ dma' = m /\ st = "Idle" /\ st' = "Busy"
        /\ deferred' = deferred
        /\ wire' = IF dma = 0 THEN wire ELSE Append(wire, r)
    BY <1>1, HeadEvent, EventsDiffer, SerialAssumption
    DEF IdleSend, StartTransfer, SendSignals
  <2>2. /\ Ascending(serialQ', Sends) /\ m \in Carried(serialQ, Sends)
        /\ Carried(serialQ', Sends) \subseteq Carried(serialQ, Sends)
        /\ Older({m}, Carried(serialQ', Sends))
    BY <2>1, TakenInOrder
  <2>3. /\ Carried(wire', Reports) = Carried(wire, Reports) \cup ({dma} \ {0})
        /\ Ascending(wire', Reports)
    <3>1. CASE dma = 0
      BY <2>1, <3>1 DEF InLine
    <3>2. CASE dma # 0
      <4>1. r \in Reports /\ r.msg = dma
        BY <1>0, <3>2 DEF Reports
      <4>2. wire' = Append(wire, r)
        BY <2>1, <3>2
      <4>. HIDE DEF r
      <4>3. Older(Carried(wire, Reports), {dma}) /\ Ascending(wire, Reports)
        BY <3>2 DEF InLine, Older
      <4>4. Ascending(Append(wire, r), Reports)
        BY <1>0, <4>1, <4>3, AscendingAppend
      <4>5. Carried(Append(wire, r), Reports) = Carried(wire, Reports) \cup {dma}
        BY <1>0, <4>1, CarriedAppend
      <4>. QED BY <3>2, <4>2, <4>4, <4>5
    <3>. QED BY <3>1, <3>2
  <2>. HIDE DEF m
  <2>4. /\ Older(Carried(wire, Reports), {m}) /\ Older({dma} \ {0}, {m})
        /\ Older(Carried(wire, Reports), Carried(deferred, Sends))
        /\ Older(Carried(wire, Reports), Carried(serialQ', Sends))
        /\ Older({dma} \ {0}, Carried(deferred, Sends))
        /\ Older({dma} \ {0}, Carried(serialQ', Sends))
    BY <2>2 DEF InLine, Older
  <2>5. /\ Older({m}, Carried(deferred, Sends))
        /\ Older(Carried(deferred, Sends), Carried(serialQ', Sends))
    <3>1. CASE deferred = <<>>
      <4>1. Carried(deferred, Sends) = {}
        BY <3>1 DEF Carried, Positions
      <4>. QED BY <4>1 DEF Older
    <3>2. CASE deferred # <<>>
      BY <2>1, <3>2 DEF InLine, Turns, m
    <3>. QED BY <3>1, <3>2
  <2>6. Turns'
    BY <2>1, <2>5 DEF Turns
  <2>7. {dma'} \ {0} \subseteq {m}
    BY <2>1
  <2>8. /\ Ascending(deferred', Sends)
        /\ Older(Carried(wire', Reports),
                 ({dma'} \ {0}) \cup Carried(deferred', Sends) \cup Carried(serialQ', Sends))
        /\ Older({dma'} \ {0}, Carried(deferred', Sends) \cup Carried(serialQ', Sends))
    <3>. DEFINE W == Carried(wire, Reports)
                R == {dma} \ {0}
                D == Carried(deferred, Sends)
                Q == Carried(serialQ', Sends)
    <3>1. /\ Carried(wire', Reports) = W \cup R /\ {dma'} \ {0} \subseteq {m}
          /\ Carried(deferred', Sends) = D /\ Ascending(deferred', Sends)
      BY <2>1, <2>3, <2>7 DEF InLine
    <3>2. /\ Older(W, {m}) /\ Older(R, {m}) /\ Older(W, D) /\ Older(W, Q)
          /\ Older(R, D) /\ Older(R, Q) /\ Older({m}, Q) /\ Older({m}, D)
      BY <2>2, <2>4, <2>5
    <3>. HIDE DEF W, R, D
    <3>. QED BY <3>1, <3>2 DEF Older
  <2>. QED BY <2>2, <2>3, <2>6, <2>8 DEF InLine, OrderInv
<1>2. CASE IdleSkipsLog
  <2>1. /\ serialQ # <<>> /\ serialQ' = Tail(serialQ)
        /\ UNCHANGED <<deferred, dma, wire, st>> /\ st = "Idle"
        /\ deferred # <<>> => skipped'
    BY <1>2 DEF IdleSkipsLog, ThisEvent
  <2>2. CASE deferred = <<>>
    <3>1. Turns'
      BY <2>1, <2>2 DEF Turns
    <3>. QED BY <2>1, <3>1, TakenInOrder DEF InLine, Older, OrderInv
  <2>. QED BY <2>1, <2>2 DEF OrderInv
<1>3. CASE IdleDropsEnd
  <2>1. /\ serialQ # <<>> /\ serialQ' = Tail(serialQ) /\ Head(serialQ) \notin Sends
        /\ UNCHANGED <<deferred, dma, wire, st>> /\ st = "Idle"
    BY <1>3, HeadEvent, EventsDiffer DEF IdleDropsEnd
  <2>2. deferred = <<>>
    BY <2>1 DEF InLine, Turns
  <2>3. Turns'
    BY <2>1, <2>2 DEF Turns
  <2>. QED BY <2>1, <2>3, TakenInOrder DEF InLine, Older, OrderInv
<1>4. CASE BusyEnd
  <2>1. /\ serialQ # <<>> /\ Head(serialQ) \notin Sends /\ st = "Busy" /\ st' = "Idle"
        /\ UNCHANGED <<dma, wire>>
    BY <1>4, HeadEvent, EventsDiffer DEF BusyEnd, EnterIdle
  <2>2. CASE deferred = <<>> /\ deferred' = <<>> /\ serialQ' = Tail(serialQ)
    <3>1. Turns'
      BY <2>1, <2>2 DEF Turns
    <3>. QED BY <2>1, <2>2, <3>1, TakenInOrder DEF InLine, Older, OrderInv
  <2>3. CASE /\ deferred # <<>> /\ deferred' = Tail(deferred)
             /\ serialQ' = [serialQ EXCEPT ![1] = deferred[1]]
             /\ deferred[1] \in Sends
    <3>. DEFINE e == deferred[1]
    <3>1. /\ OnceIn(deferred, Sends) /\ OnceIn(serialQ, Sends)
          /\ Ascending(deferred, Sends) /\ Ascending(serialQ, Sends)
          /\ Older(Carried(deferred, Sends), Carried(serialQ, Sends))
      BY <2>1 DEF Accounted, InLine, Turns
    <3>2. e = Head(deferred)
      BY <1>0, <2>3, TailPlaces
    <3>3. /\ Carried(deferred', Sends) \subseteq Carried(deferred, Sends)
          /\ e.msg \in Carried(deferred, Sends)
          /\ Ascending(deferred', Sends)
          /\ Older({e.msg}, Carried(deferred', Sends))
      BY <1>0, <2>3, <3>1, <3>2, CarriedTail, AscendingTail
    <3>4. /\ e \in Sends /\ e \in Sends \cup Ends
          /\ serialQ' = [serialQ EXCEPT ![1] = e]
      BY <2>3
    <3>. HIDE DEF e
    <3>5. Older({e.msg}, Carried(serialQ, Sends)) /\ e.msg \notin Carried(serialQ, Sends)
      BY <3>1, <3>3, Numbered DEF Older
    <3>6. /\ Ascending([serialQ EXCEPT ![1] = e], Sends)
          /\ Carried([serialQ EXCEPT ![1] = e], Sends)
               = Carried(serialQ, Sends) \cup {e.msg}
      <4>1. Ascending([serialQ EXCEPT ![1] = e], Sends)
        BY <1>0, <2>1, <3>1, <3>4, <3>5, AscendingFront
      <4>2. Carried([serialQ EXCEPT ![1] = e], Sends)
               = Carried(serialQ, Sends) \cup {e.msg}
        <5>. DEFINE q == serialQ
        <5>1. /\ q \in Seq(Sends \cup Ends) /\ q # <<>> /\ Head(q) \notin Sends
              /\ OnceIn(q, Sends) /\ e \in Sends \cup Ends /\ e \in Sends
              /\ e.msg \notin Carried(q, Sends)
          BY <1>0, <2>1, <3>1, <3>4, <3>5
        <5>. HIDE DEF q
        <5>2. Carried([q EXCEPT ![1] = e], Sends) = Carried(q, Sends) \cup {e.msg}
          BY <5>1, CarriedFront
        <5>. QED BY <5>2 DEF q
      <4>. QED BY <4>1, <4>2
    <3>7. /\ Tail([serialQ EXCEPT ![1] = e]) = Tail(serialQ)
          /\ Head([serialQ EXCEPT ![1] = e]) = e
      BY <1>0, <2>1, <3>4, TailOfFront
    <3>8. Carried(Tail(serialQ), Sends) = Carried(serialQ, Sends)
      BY <2>1, Taken
    <3>9. serialQ' # <<>>
      BY <1>0, <2>1, <2>3, <3>4, FrontPlaces, TailPlaces
    <3>10. Turns'
      <4>1. /\ Head(serialQ') = e /\ Tail(serialQ') = Tail(serialQ)
            /\ Older({e.msg}, Carried(deferred', Sends))
            /\ Older(Carried(deferred', Sends), Carried(Tail(serialQ), Sends))
        BY <3>1, <3>3, <3>4, <3>7, <3>8 DEF Older
      <4>. QED BY <2>1, <3>4, <3>9, <4>1 DEF Turns
    <3>11. /\ Older(Carried(wire, Reports), ({dma} \ {0}) \cup Carried(deferred', Sends)
                                              \cup Carried(serialQ', Sends))
           /\ Older({dma} \ {0}, Carried(deferred', Sends) \cup Carried(serialQ', Sends))
      BY <3>3, <3>4, <3>6 DEF InLine, Older
    <3>. QED BY <2>1, <3>1, <3>3, <3>4, <3>6, <3>10, <3>11 DEF InLine, OrderInv
  <2>. QED BY <1>4, <2>2, <2>3, RecallPlaces
<1>5. CASE BusyDefers
  <2>. DEFINE e == Head(serialQ)
  <2>1. /\ serialQ # <<>> /\ e \in Sends /\ st = "Busy"
        /\ serialQ' = Tail(serialQ) /\ UNCHANGED <<dma, wire, st>>
    BY <1>5, HeadEvent DEF BusyDefers, SendSignals
  <2>2. /\ Ascending(serialQ', Sends) /\ e.msg \in Carried(serialQ, Sends)
        /\ Carried(serialQ', Sends) \subseteq Carried(serialQ, Sends)
        /\ Older({e.msg}, Carried(serialQ', Sends))
    BY <2>1, TakenInOrder
  <2>3. Older(Carried(deferred, Sends), Carried(serialQ, Sends))
    BY <2>1 DEF InLine, Turns
  <2>4. CASE deferred' = deferred
    <3>1. Turns'
      <4>1. Older(Carried(deferred', Sends), Carried(serialQ', Sends))
        BY <2>2, <2>3, <2>4 DEF Older
      <4>. QED BY <2>1, <4>1 DEF Turns
    <3>. QED BY <2>1, <2>2, <2>4, <3>1 DEF InLine, Older, OrderInv
  <2>5. CASE deferred' = Append(deferred, e)
    <3>. HIDE DEF e
    <3>1. Older(Carried(deferred, Sends), {e.msg}) /\ Ascending(deferred, Sends)
      BY <2>2, <2>3 DEF Older, InLine
    <3>2. /\ Carried(Append(deferred, e), Sends) = Carried(deferred, Sends) \cup {e.msg}
          /\ Ascending(Append(deferred, e), Sends)
      BY <1>0, <2>1, <3>1, CarriedAppend, AscendingAppend
    <3>3. Turns'
      BY <2>1, <2>2, <2>3, <2>5, <3>2 DEF Turns, Older
    <3>. QED BY <2>1, <2>2, <2>5, <3>2, <3>3 DEF InLine, Older, OrderInv
  <2>. QED BY <1>5, <2>4, <2>5 DEF BusyDefers
<1>. QED BY <1>1, <1>2, <1>3, <1>4, <1>5 DEF Handler

LEMMA StepKeepsOrder ==
    SerialTypeOK /\ Accounted /\ OrderInv /\ [SerialNext]_vars => OrderInv'
<1>. SUFFICES ASSUME SerialTypeOK, Accounted, OrderInv, [SerialNext]_vars
              PROVE  OrderInv'
  OBVIOUS
<1>1. CASE skipped
  BY <1>1 DEF OrderInv, SerialNext, vars, tx, Post, SetLogging, DMASendCallback,
     TimerExpires, UART1Callback, Handler, IdleSend, IdleSkipsLog, IdleDropsEnd,
     BusyEnd, BusyDefers
<1>2. CASE InLine
  <2>1. CASE UNCHANGED vars
    BY <1>2, <2>1 DEF vars, OrderInv, InLine, Turns
  <2>2. CASE Handler
    BY <1>2, <2>2, HandlersKeepOrder
  <2>3. CASE SerialNext /\ ~ Handler
    BY <1>2, <2>3, EnvironmentKeepsOrder DEF SerialNext, OrderInv
  <2>. QED BY <2>1, <2>2, <2>3
<1>. QED BY <1>1, <1>2 DEF OrderInv

LEMMA InitiallyInLine == SerialInit => OrderInv
<1>. SUFFICES ASSUME SerialInit PROVE InLine
  BY DEF OrderInv
<1>1. \A P : Positions(<<>>, P) = {}
  BY DEF Positions
<1>2. \A P : Carried(<<>>, P) = {} /\ Ascending(<<>>, P)
  BY <1>1 DEF Carried, Ascending
<1>3. serialQ = <<>> /\ deferred = <<>> /\ wire = <<>> /\ dma = 0
  BY DEF SerialInit
<1>. QED BY <1>2, <1>3 DEF InLine, Older, Turns

(***************************************************************************)
(* Messages reach the wire in the order of their posting, for every number *)
(* of messages and every length of the deferral queue, as long as no log   *)
(* message is skipped in Idle: recalling one event at each return to Idle, *)
(* to the front of the queue, is what keeps the deferred ones ahead of the *)
(* queued ones and behind the one that was recalled.                       *)
(***************************************************************************)
THEOREM SentInOrder == SerialSpec => []InOrder
<1>1. SerialTypeOK /\ OrderInv => InOrder
  <2>. SUFFICES ASSUME SerialTypeOK, InLine PROVE InOrder
    BY DEF OrderInv, InOrder
  <2>1. Positions(wire, Reports) = DOMAIN wire
    BY LenProperties DEF SerialTypeOK, Positions, Reports
  <2>. QED BY <2>1 DEF InLine, Ascending, InOrder
<1>. QED
  BY <1>1, InitiallyInLine, InitiallyAccounted, StepKeepsOrder, StepKeepsAccount,
     SerialTypeCorrect, PTL DEF SerialSpec

-----------------------------------------------------------------------------
(* The lines of the peer *)

LEMMA StepKeepsRx == SerialTypeOK /\ RxInv /\ [SerialNext]_vars => RxInv'
<1>. SUFFICES ASSUME SerialTypeOK, RxInv, [SerialNext]_vars PROVE RxInv'
  OBVIOUS
<1>0. /\ rx \in Seq({"x", "LF"}) /\ typed \in Seq({"x"})
      /\ Len(rx) \in Nat /\ Len(typed) \in Nat /\ MaxLine \in Nat \ {0, 1}
      /\ Len(<<>>) = 0 /\ Len(rx) = 0 <=> rx = <<>>
  BY SerialAssumption, LenProperties, EmptySeq DEF SerialTypeOK
<1>1. ASSUME NEW c \in Chars, UART1Callback(c) PROVE RxInv'
  <2>1. CASE c = "LF"
    <3>1. /\ typed' = <<>> /\ clean' = (Len(typed) \in 1 .. MaxLine - 1)
          /\ rx' = Keep(c)
      BY <1>1, <2>1 DEF UART1Callback
    <3>2. CASE rx # <<>>
      <4>1. rx' = <<>>
        BY <2>1, <3>1, <3>2 DEF Keep
      <4>. QED BY <3>1, <4>1 DEF RxInv
    <3>3. CASE rx = <<>>
      <4>1. rx' = Append(rx, "LF")
        BY <1>0, <2>1, <3>1, <3>3 DEF Keep
      <4>2. Len(rx') = Len(typed') + 1
        BY <1>0, <3>1, <3>3, <4>1, AppendProperties
      <4>3. Len(typed) \notin 1 .. MaxLine - 1
        BY <1>0, <3>3 DEF RxInv
      <4>. QED BY <3>1, <4>2, <4>3 DEF RxInv
    <3>. QED BY <3>2, <3>3
  <2>2. CASE c = "CR"
    <3>1. typed' = typed /\ clean' = clean /\ rx' = rx
      BY <1>1, <2>2 DEF UART1Callback, Keep
    <3>. QED BY <3>1 DEF RxInv
  <2>3. CASE c = "x"
    <3>1. /\ typed' = Append(typed, c) /\ clean' = clean
          /\ rx' = IF Len(rx) >= MaxLine THEN <<>> ELSE Append(rx, c)
      BY <1>1, <2>3 DEF UART1Callback, Keep
    <3>2. /\ Len(Append(typed, c)) = Len(typed) + 1
          /\ Len(Append(rx, c)) = Len(rx) + 1
      BY <1>0, <2>3, AppendProperties
    <3>3. ASSUME Len(typed') < MaxLine
          PROVE  rx' = typed' \/ (~ clean' /\ Len(rx') = Len(typed') + 1)
      <4>1. Len(typed) < MaxLine - 1
        BY <1>0, <3>1, <3>2, <3>3
      <4>2. rx = typed \/ (~ clean /\ Len(rx) = Len(typed) + 1)
        BY <1>0, <4>1 DEF RxInv
      <4>3. Len(rx) < MaxLine
        BY <1>0, <4>1, <4>2
      <4>4. rx' = Append(rx, c)
        BY <1>0, <3>1, <4>3
      <4>. QED BY <1>0, <3>1, <3>2, <4>2, <4>4
    <3>. QED BY <3>3 DEF RxInv
  <2>. QED BY <2>1, <2>2, <2>3 DEF Chars
<1>2. CASE UNCHANGED recv
  BY <1>2 DEF recv, RxInv
<1>. QED
  BY <1>1, <1>2 DEF SerialNext, vars, recv, Post, SetLogging, DMASendCallback,
     TimerExpires, Handler, IdleSend, IdleSkipsLog, IdleDropsEnd, BusyEnd, BusyDefers

(***************************************************************************)
(* A line of the peer that fits the buffer is received as it was sent, for *)
(* every length of the buffer, if the line before it was ordinary.         *)
(***************************************************************************)
THEOREM LinesReceived == SerialSpec => []LineArrives
<1>1. SerialInit => RxInv
  BY DEF SerialInit, RxInv
<1>2. RxInv => LineArrives
  BY DEF RxInv, LineArrives
<1>. QED BY <1>1, <1>2, StepKeepsRx, SerialTypeCorrect, PTL DEF SerialSpec
=============================================================================
