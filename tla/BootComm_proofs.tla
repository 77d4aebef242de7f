--------------------------- MODULE BootComm_proofs ---------------------------
(***************************************************************************)
(* Four results about CommMgr for every set of requests and any limit on   *)
(* what clients queue: its members keep their types, whoever waits can be  *)
(* woken, only an intact image is booted, and no late reply of FlashMgr is *)
(* taken for a later one. Two about a firmware update from end to end, for *)
(* every number of packets, tries and calls: what the client reads is a    *)
(* reply to its own requests, and what it reports as stored is stored.     *)
(***************************************************************************)
EXTENDS FlashFW, SequenceTheorems, TLAPS

-----------------------------------------------------------------------------
(* Types *)

\* TypeOK by parts: the queue, FlashMgr as a service, and the members.
Payloads == {"NoMsg", "Status", "BootMode", "RamTest", "I2CData", "DBData"}
Unions   == [word : Codes, dataErr : Codes]
Timers   == {"COMM_MGR_TIMEOUT", "COMM_OP_TIMEOUT"}

QueueTypes   == commQ \in Seq(Events)
ServiceTypes == job \in Jobs /\ open \in BOOLEAN /\ bootable \in BOOLEAN
MemberTypes ==
    /\ st \in {"Idle", "Booted"} \cup Busy
    /\ req \in Requests \cup {NoReq}
    /\ payload \in Payloads
    /\ union \in Unions
    /\ errorCode \in {"NONE", "FAILED"}
    /\ armed \subseteq Timers
    /\ doing \in {"none", "post", "bare"}
    /\ out \in [type : {"None", "Ack", "Done"}, kind : Kinds, err : Codes]
OthersTypes ==
    /\ i2c \subseteq {"cur", "other"} /\ db \subseteq {"cur", "other"}
    /\ mine \in Nat /\ cut \in BOOLEAN

LEMMA TypeParts ==
    /\ TypeOK <=> QueueTypes /\ ServiceTypes /\ MemberTypes /\ OthersTypes
    /\ TypeOK' <=> QueueTypes' /\ ServiceTypes' /\ MemberTypes' /\ OthersTypes'
BY DEF TypeOK, QueueTypes, ServiceTypes, MemberTypes, OthersTypes, Payloads,
       Unions, Timers

LEMMA CodesAre == Codes = {"NONE", "FAILED", "EXPIRED", "JUNK"}
BY DEF Codes, Outcomes

LEMMA RequestTypes ==
    \A r \in Requests \cup {NoReq} : r.kind \in Kinds /\ r.word \in Codes
<1>1. NoReq.kind \in Kinds /\ NoReq.word \in Codes
  BY CodesAre DEF NoReq, Kinds
<1>2. \A r \in Requests : r.kind \in Kinds /\ r.word \in Codes
  BY CodesAre, RequestsAssumption DEF RequestType
<1>. QED BY <1>1, <1>2

\* What the events of the queue carry.
LEMMA EventTypes ==
    ASSUME NEW e \in Events
    PROVE  /\ e.sig \in {"CLI_RECEIVED", "SER_RECEIVED"} => e.req \in Requests
           /\ e.sig \in {"FLASH_OP_DONE", "RAM_TEST_DONE", "I2C1_DEV_READ_DONE",
                         "I2C1_DEV_WRITE_DONE", "DB_GET_ELEM_DONE",
                         "DB_SET_ELEM_DONE"} => e.err \in Codes
BY CodesAre DEF Events, Outcomes

\* What is posted is an event.
LEMMA PostedTypes ==
    /\ MsgProcess \in Events /\ BootAppl \in Events
    /\ \A sig \in Timers : [sig |-> sig] \in Events
    /\ \A r \in Requests : CliReceived(r) \in Events /\ SerReceived(r) \in Events
    /\ \A err \in Outcomes \cup {"EXPIRED"} : OpReply(err) \in Events
    /\ \A err \in Outcomes :
          /\ RamReply(err) \in Events
          /\ \A sig \in {"I2C1_DEV_READ_DONE", "I2C1_DEV_WRITE_DONE"} :
                I2CReply(sig, err) \in Events
          /\ \A sig \in {"DB_GET_ELEM_DONE", "DB_SET_ELEM_DONE"} :
                DBReply(sig, err) \in Events
BY DEF Events, MsgProcess, BootAppl, CliReceived, SerReceived, OpReply, RamReply,
       I2CReply, DBReply, Timers

\* The event taken, and what is left of the queue.
LEMMA HeadEvent ==
    ASSUME QueueTypes, NEW sig, Take(sig)
    PROVE  /\ Head(commQ) \in Events /\ Head(commQ).sig = sig
           /\ Tail(commQ) \in Seq(Events)
<1>1. commQ \in Seq(Events) /\ commQ # <<>> /\ Head(commQ).sig = sig
  BY DEF QueueTypes, Take
<1>. QED BY <1>1, HeadTailProperties

LEMMA AppendTypes ==
    ASSUME NEW q \in Seq(Events), NEW e \in Events
    PROVE  Append(q, e) \in Seq(Events)
OBVIOUS

\* Going back to Idle keeps the types, whatever is reported.
LEMMA LeaveTypes ==
    ASSUME TypeOK, NEW p \in Payloads, NEW u \in Unions, LeaveBusy(p, u)
    PROVE  /\ MemberTypes'
           /\ i2c' \subseteq {"cur", "other"} /\ db' \subseteq {"cur", "other"}
           /\ mine' \in Nat
<1>1. Reported(p, u) \in Codes
  BY CodesAre DEF Reported, Unions
<1>2. req.kind \in Kinds
  BY RequestTypes DEF TypeOK
<1>3. out' \in [type : {"None", "Ack", "Done"}, kind : Kinds, err : Codes]
  BY <1>1, <1>2 DEF LeaveBusy, Done
<1>4. union' \in Unions
  BY CodesAre DEF LeaveBusy, Unions
<1>5. st' \in {"Idle", "Booted"} \cup Busy /\ req' \in Requests \cup {NoReq}
  BY DEF LeaveBusy
<1>6. /\ payload' \in Payloads /\ errorCode' \in {"NONE", "FAILED"}
      /\ armed' \subseteq Timers /\ doing' \in {"none", "post", "bare"}
  BY DEF LeaveBusy, TypeOK, Payloads, Timers
<1>7. /\ i2c' \subseteq {"cur", "other"} /\ db' \subseteq {"cur", "other"}
      /\ mine' \in Nat
  BY DEF LeaveBusy, TypeOK
<1>. QED BY <1>3, <1>4, <1>5, <1>6, <1>7 DEF MemberTypes

-----------------------------------------------------------------------------
(* Every action keeps the types *)

LEMMA ServiceQuiet == UNCHANGED quiet /\ TypeOK => ServiceTypes' /\ cut' \in BOOLEAN
BY DEF quiet, TypeOK, ServiceTypes

LEMMA MineMoves == MineMovesUp /\ TypeOK => mine' \in Nat
BY DEF MineMovesUp, TypeOK

\* A handler that goes back to Idle and takes its event.
LEMMA AnsweredTypes ==
    ASSUME TypeOK, NEW p \in Payloads, NEW u \in Unions, LeaveBusy(p, u),
           NEW sig, Take(sig), ServiceTypes', cut' \in BOOLEAN,
           commQ' = Tail(commQ) \/ commQ' = Append(Tail(commQ), BootAppl)
    PROVE  TypeOK'
<1>1. QueueTypes'
  BY TypeParts, HeadEvent, PostedTypes DEF QueueTypes
<1>2. MemberTypes' /\ OthersTypes'
  BY LeaveTypes DEF OthersTypes
<1>. QED BY <1>1, <1>2, TypeParts

\* Payloads and unions that handlers leave with.
LEMMA LeftWith ==
    ASSUME TypeOK
    PROVE  /\ payload \in Payloads /\ union \in Unions
           /\ \A err \in Codes : Status(err) \in Unions
           /\ \A err \in Codes : [union EXCEPT !.dataErr = err] \in Unions
BY DEF TypeOK, Payloads, Unions, Status

LEMMA IdleKeepsTypes ==
    ASSUME TypeOK, IdleSerial \/ Accept
    PROVE  TypeOK'
<1>1. CASE IdleSerial
  <2>1. Head(commQ) \in Events /\ Head(commQ).sig = "SER_RECEIVED"
        /\ Tail(commQ) \in Seq(Events)
    BY <1>1, HeadEvent, TypeParts DEF IdleSerial
  <2>2. CliReceived(Head(commQ).req) \in Events
    BY <2>1, EventTypes, PostedTypes
  <2>3. QueueTypes'
    BY <1>1, <2>1, <2>2, AppendTypes DEF IdleSerial, QueueTypes
  <2>4. MemberTypes'
    BY <1>1, TypeParts DEF IdleSerial, comm, MemberTypes
  <2>5. ServiceTypes' /\ OthersTypes'
    BY <1>1, ServiceQuiet, MineMoves, TypeParts DEF IdleSerial, OthersTypes
  <2>. QED BY <2>3, <2>4, <2>5, TypeParts
<1>2. CASE Accept
  <2>1. Head(commQ) \in Events /\ Head(commQ).sig = "CLI_RECEIVED"
        /\ Tail(commQ) \in Seq(Events)
    BY <1>2, HeadEvent, TypeParts DEF Accept
  <2>2. QueueTypes'
    BY <1>2, <2>1, PostedTypes, AppendTypes DEF Accept, QueueTypes
  <2>3. req' \in Requests
    BY <1>2, <2>1, EventTypes DEF Accept
  <2>4. out' \in [type : {"None", "Ack", "Done"}, kind : Kinds, err : Codes]
    BY <1>2, <2>3, RequestTypes, CodesAre DEF Accept, Ack
  <2>5. union' \in Unions
    BY <1>2, <2>3, RequestTypes, CodesAre DEF Accept, Unions
  <2>6. MemberTypes'
    BY <1>2, <2>3, <2>4, <2>5, TypeParts
       DEF Accept, MemberTypes, Payloads, Timers, Busy
  <2>7. ServiceTypes' /\ OthersTypes'
    BY <1>2, ServiceQuiet, TypeParts DEF Accept, OthersTypes
  <2>. QED BY <2>2, <2>6, <2>7, TypeParts
<1>. QED BY <1>1, <1>2

LEMMA AnswersKeepTypes ==
    ASSUME TypeOK,
           AnswerHere \/ AnswerUnset \/ BootAccepted \/ BootRefused
    PROVE  TypeOK'
<1>1. "NONE" \in Codes /\ "FAILED" \in Codes
      /\ "BootMode" \in Payloads /\ "Status" \in Payloads
  BY CodesAre DEF Payloads
<1>2. UNCHANGED quiet /\ Take("MSG_PROCESS")
      /\ (commQ' = Tail(commQ) \/ commQ' = Append(Tail(commQ), BootAppl))
  BY DEF AnswerHere, AnswerUnset, BootAccepted, BootRefused, Process
<1>3. \E p \in Payloads, u \in Unions : LeaveBusy(p, u)
  <2>1. CASE AnswerHere
    BY <1>1, <2>1, LeftWith DEF AnswerHere
  <2>2. CASE AnswerUnset \/ BootAccepted
    BY <1>1, <2>2, LeftWith DEF AnswerUnset, BootAccepted
  <2>3. CASE BootRefused
    BY <1>1, <2>3, LeftWith DEF BootRefused
  <2>. QED BY <2>1, <2>2, <2>3
<1>. QED BY <1>2, <1>3, ServiceQuiet, AnsweredTypes

LEMMA RepliesKeepTypes ==
    ASSUME TypeOK, FlashReplied \/ I2CReplied \/ SysReplied \/ TimedOut
    PROVE  TypeOK'
<1>1. PICK sig : Take(sig) /\ commQ' = Tail(commQ)
                 /\ (~TimedOut => sig \in {"FLASH_OP_DONE", "RAM_TEST_DONE",
                        "I2C1_DEV_READ_DONE", "I2C1_DEV_WRITE_DONE",
                        "DB_GET_ELEM_DONE", "DB_SET_ELEM_DONE"})
  BY DEF FlashReplied, I2CReplied, SysReplied, TimedOut
<1>2. ServiceTypes' /\ cut' \in BOOLEAN
  BY ServiceQuiet
     DEF FlashReplied, I2CReplied, SysReplied, TimedOut, TypeOK, ServiceTypes
<1>3. ~TimedOut => Head(commQ).err \in Codes
  BY <1>1, HeadEvent, EventTypes, TypeParts
<1>4. \E p \in Payloads, u \in Unions : LeaveBusy(p, u)
  <2>1. CASE TimedOut
    BY <2>1, LeftWith DEF TimedOut
  <2>2. CASE ~TimedOut /\ FlashReplied
    BY <1>3, <2>2, LeftWith DEF FlashReplied
  <2>3. CASE ~TimedOut /\ I2CReplied
    BY <1>3, <2>3, LeftWith DEF I2CReplied
  <2>4. CASE ~TimedOut /\ SysReplied
    <3>1. \A e \in {"NONE", "JUNK"} :
             [word |-> e, dataErr |-> Head(commQ).err] \in Unions
      BY <1>3, <2>4, CodesAre DEF Unions
    <3>. QED BY <2>4, <3>1, LeftWith DEF SysReplied
  <2>. QED BY <2>1, <2>2, <2>3, <2>4
<1>. QED BY <1>1, <1>2, <1>4, AnsweredTypes

LEMMA TakenQueue ==
    ASSUME TypeOK, NEW sig, Take(sig), commQ' = Tail(commQ)
    PROVE  QueueTypes'
BY HeadEvent, TypeParts DEF QueueTypes

LEMMA ForwardsKeepTypes ==
    ASSUME TypeOK, ForwardToFlash \/ StartBare \/ ForwardToI2C \/ ForwardToSys
    PROVE  TypeOK'
<1>1. Take("MSG_PROCESS") /\ commQ' = Tail(commQ) /\ MineMovesUp
  BY DEF ForwardToFlash, StartBare, ForwardToI2C, ForwardToSys, Process
<1>2. QueueTypes'
  BY <1>1, TakenQueue
<1>3. ServiceTypes' /\ cut' \in BOOLEAN
  <2>1. CASE ForwardToFlash
    <3>1. JobOf(req.kind) \in Jobs
      BY DEF JobOf, Jobs
    <3>. QED BY <2>1, <3>1 DEF ForwardToFlash, Post, TypeOK, ServiceTypes
  <2>2. CASE StartBare \/ ForwardToI2C \/ ForwardToSys
    BY <2>2, ServiceQuiet DEF StartBare, ForwardToI2C, ForwardToSys
  <2>. QED BY <2>1, <2>2
<1>4. MemberTypes'
  <2>1. CASE ForwardToFlash
    BY <2>1, TypeParts DEF ForwardToFlash, MemberTypes, Payloads
  <2>2. CASE StartBare
    BY <2>2, TypeParts DEF StartBare, MemberTypes, Payloads
  <2>3. CASE ForwardToI2C
    BY <2>3, TypeParts
       DEF ForwardToI2C, EnterWait, MemberTypes, Payloads, Timers, Busy, Waits
  <2>4. CASE ForwardToSys
    BY <2>4, TypeParts
       DEF ForwardToSys, EnterWait, MemberTypes, Payloads, Timers, Busy, Waits
  <2>. QED BY <2>1, <2>2, <2>3, <2>4
<1>5. OthersTypes'
  BY <1>1, <1>3, MineMoves
     DEF ForwardToFlash, StartBare, ForwardToI2C, ForwardToSys, TypeOK,
         OthersTypes
<1>. QED BY <1>2, <1>3, <1>4, <1>5, TypeParts

LEMMA FinishesKeepTypes ==
    ASSUME TypeOK, FlashHasRun \/ FinishBare
    PROVE  TypeOK'
<1>1. QueueTypes' /\ ServiceTypes'
  BY DEF FlashHasRun, FinishBare, service, TypeOK, QueueTypes, ServiceTypes
<1>2. CASE FlashHasRun
  <2>1. MemberTypes'
    BY <1>2, TypeParts
       DEF FlashHasRun, EnterWait, MemberTypes, Timers, Busy, Waits
  <2>2. OthersTypes'
    BY <1>2, TypeParts DEF FlashHasRun, OthersTypes
  <2>. QED BY <1>1, <2>1, <2>2, TypeParts
<1>3. CASE FinishBare
  <2>1. \E u \in Unions : LeaveBusy(payload, u)
    BY <1>3, LeftWith DEF FinishBare, Codes
  <2>2. MemberTypes' /\ OthersTypes'
    BY <1>3, <2>1, LeftWith, LeaveTypes DEF FinishBare, TypeOK, OthersTypes
  <2>. QED BY <1>1, <2>2, TypeParts
<1>. QED BY <1>2, <1>3

LEMMA BootAndIgnoreKeepTypes ==
    ASSUME TypeOK, Boot \/ Ignore
    PROVE  TypeOK'
<1>1. (\E sig : Take(sig)) /\ commQ' = Tail(commQ) /\ MineMovesUp
      /\ UNCHANGED quiet
  BY DEF Boot, Ignore
<1>2. QueueTypes' /\ ServiceTypes' /\ OthersTypes'
  BY <1>1, TakenQueue, ServiceQuiet, MineMoves
     DEF Boot, Ignore, TypeOK, OthersTypes
<1>3. MemberTypes'
  BY TypeParts DEF Boot, Ignore, comm, MemberTypes
<1>. QED BY <1>2, <1>3, TypeParts

\* Timers and clients: an event is queued.
LEMMA ArrivalsKeepTypes ==
    ASSUME TypeOK, Timer \/ ClientSends
    PROVE  TypeOK'
<1>1. \E e \in Events : commQ' = Append(commQ, e)
  BY PostedTypes DEF Timer, TimerFires, ClientSends, Timers
<1>2. QueueTypes'
  BY <1>1, AppendTypes, TypeParts DEF QueueTypes
<1>3. ServiceTypes' /\ OthersTypes'
  BY ServiceQuiet, TypeParts
     DEF Timer, TimerFires, ClientSends, comm, OthersTypes
<1>4. MemberTypes'
  BY TypeParts DEF Timer, TimerFires, ClientSends, comm, MemberTypes, Timers
<1>. QED BY <1>2, <1>3, <1>4, TypeParts

LEMMA FlashMgrKeepsTypes ==
    ASSUME TypeOK, FlashMgrSteps
    PROVE  TypeOK'
<1>1. commQ' = commQ \/ \E e \in Events : commQ' = Append(commQ, e)
  BY PostedTypes
     DEF FlashMgrSteps, ServiceStep, Unheard, Wipe, Opened, Refused, Vouch,
         Written, Closed, Expired, RamTested, Answer, Outcomes
<1>2. QueueTypes'
  BY <1>1, AppendTypes, TypeParts DEF QueueTypes
<1>3. ServiceTypes'
  BY DEF FlashMgrSteps, ServiceStep, Unheard, Wipe, Opened, Refused, Vouch,
         Written, Closed, Expired, RamTested, Answer, TypeOK, ServiceTypes, Jobs
<1>4. Len(commQ') \in Nat
  BY <1>2 DEF QueueTypes
<1>5. MemberTypes' /\ OthersTypes'
  BY <1>4, TypeParts DEF FlashMgrSteps, comm, MemberTypes, OthersTypes
<1>. QED BY <1>2, <1>3, <1>5, TypeParts

LEMMA OthersKeepTypes ==
    ASSUME TypeOK, I2CAnswers \/ SysAnswers \/ SysUsesI2C
    PROVE  TypeOK'
<1>1. commQ' = commQ \/ \E e \in Events : commQ' = Append(commQ, e)
  BY PostedTypes DEF I2CAnswers, SysAnswers, SysUsesI2C, Publish, service
<1>2. QueueTypes'
  BY <1>1, AppendTypes, TypeParts DEF QueueTypes
<1>3. Len(commQ') \in Nat
  BY <1>2 DEF QueueTypes
<1>4. ServiceTypes' /\ cut' \in BOOLEAN
  BY ServiceQuiet
     DEF I2CAnswers, SysAnswers, SysUsesI2C, service, TypeOK, ServiceTypes
<1>5. mine' \in Nat
  BY <1>3 DEF I2CAnswers, SysAnswers, SysUsesI2C, Publish, TypeOK
<1>6. i2c' \subseteq {"cur", "other"} /\ db' \subseteq {"cur", "other"}
  BY DEF I2CAnswers, SysAnswers, SysUsesI2C, TypeOK
<1>7. MemberTypes'
  BY TypeParts DEF I2CAnswers, SysAnswers, SysUsesI2C, comm, MemberTypes
<1>. QED BY <1>2, <1>4, <1>5, <1>6, <1>7, TypeParts DEF OthersTypes

LEMMA InitiallyTyped == Init => TypeOK
<1>. SUFFICES ASSUME Init PROVE TypeOK
  OBVIOUS
<1>1. QueueTypes /\ ServiceTypes
  <2>1. commQ = <<>> /\ <<>> \in Seq(Events)
    BY DEF Init
  <2>2. job = "none" /\ open = FALSE /\ bootable \in BOOLEAN
    BY DEF Init, ServiceInit
  <2>. QED BY <2>1, <2>2 DEF QueueTypes, ServiceTypes, Jobs
<1>2. MemberTypes
  BY CodesAre DEF Init, MemberTypes, Payloads, Unions, Silent, Kinds
<1>3. OthersTypes
  BY DEF Init, OthersTypes
<1>. QED BY <1>1, <1>2, <1>3, TypeParts

LEMMA StepKeepsTypes == TypeOK /\ [Next]_vars => TypeOK'
<1>. SUFFICES ASSUME TypeOK, [Next]_vars PROVE TypeOK'
  OBVIOUS
<1>1. CASE Dispatch
  BY <1>1, IdleKeepsTypes, AnswersKeepTypes, ForwardsKeepTypes,
     RepliesKeepTypes, BootAndIgnoreKeepTypes DEF Dispatch
<1>2. CASE FlashHasRun \/ FinishBare
  BY <1>2, FinishesKeepTypes
<1>3. CASE Timer \/ ClientSends
  BY <1>3, ArrivalsKeepTypes
<1>4. CASE FlashMgrSteps
  BY <1>4, FlashMgrKeepsTypes
<1>5. CASE I2CAnswers \/ SysAnswers \/ SysUsesI2C
  BY <1>5, OthersKeepTypes
<1>6. CASE UNCHANGED vars
  BY <1>6 DEF vars, service, comm, TypeOK
<1>. QED BY <1>1, <1>2, <1>3, <1>4, <1>5, <1>6 DEF Next, CommStep, Jumped

(***************************************************************************)
(* The members of CommMgr, its queue and the replies under way keep their  *)
(* types for every set of requests, whoever sends, answers or is late.     *)
(***************************************************************************)
THEOREM CommTypeCorrect == Spec => []TypeOK
<1>. QED BY InitiallyTyped, StepKeepsTypes, PTL DEF Spec

-----------------------------------------------------------------------------
(* Nobody is forgotten *)

\* The parts of NobodyForgotten: the event that ends ValidateMsg, the timeout
\* that ends a wait, and whom a running handler waits for.
Wakes == /\ st = "ValidateMsg" /\ doing = "none" => Queued("MSG_PROCESS")
         /\ st \in Waits =>
               "COMM_OP_TIMEOUT" \in armed \/ Queued("COMM_OP_TIMEOUT")
Turns == /\ doing = "post" \/ job = "none"
         /\ doing # "none" => st = "ValidateMsg"

\* The invariant is inductive together with the types.
ForgottenInv == TypeOK /\ NobodyForgotten

LEMMA ForgottenParts ==
    /\ NobodyForgotten <=> Wakes /\ Turns
    /\ NobodyForgotten' <=> Wakes' /\ Turns'
BY DEF NobodyForgotten, Wakes, Turns

\* An event stays queued while others are appended ...
LEMMA KeptByAppend ==
    ASSUME TypeOK, NEW e \in Events, NEW sig, Queued(sig),
           commQ' = Append(commQ, e)
    PROVE  Queued(sig)'
<1>1. PICK i \in DOMAIN commQ : commQ[i].sig = sig
  BY DEF Queued
<1>2. commQ \in Seq(Events)
  BY DEF TypeOK
<1>3. i \in DOMAIN commQ' /\ commQ'[i] = commQ[i]
  BY <1>1, <1>2, AppendProperties
<1>. QED BY <1>1, <1>3 DEF Queued

\* ... the one appended is queued ...
LEMMA QueuedByAppend ==
    ASSUME NEW q \in Seq(Events), NEW e \in Events, commQ' = Append(q, e)
    PROVE  Queued(e.sig)'
<1>1. Len(q) + 1 \in DOMAIN commQ' /\ commQ'[Len(q) + 1] = e
  BY AppendProperties
<1>. QED BY <1>1 DEF Queued

\* ... and the others stay when the first is taken.
LEMMA KeptByTail ==
    ASSUME TypeOK, NEW sig, Queued(sig), commQ # <<>>, Head(commQ).sig # sig,
           commQ' = Tail(commQ)
    PROVE  Queued(sig)'
<1>1. PICK i \in DOMAIN commQ : commQ[i].sig = sig
  BY DEF Queued
<1>2. commQ \in Seq(Events) /\ DOMAIN commQ = 1 .. Len(commQ)
      /\ Len(commQ) \in Nat
  BY DEF TypeOK
<1>3. i # 1 /\ i \in 1 .. Len(commQ)
  BY <1>1, <1>2
<1>4. i - 1 \in DOMAIN commQ' /\ commQ'[i - 1] = commQ[i]
  BY <1>2, <1>3, HeadTailProperties
<1>. QED BY <1>1, <1>4 DEF Queued

LEMMA WaitsAre == Waits = {"WaitForRespFromFlashMgr", "WaitForRespFromI2C",
                           "WaitForRespFromSysMgr"}
BY DEF Waits

\* In Idle, and once booted, nobody waits for anything.
LEMMA IdleForgetsNobody ==
    ASSUME st' \in {"Idle", "Booted"}, doing' = "none", job' = "none"
    PROVE  NobodyForgotten'
BY WaitsAre DEF NobodyForgotten

\* While events are only appended and timers at most move to the queue.
LEMMA AppendForgetsNobody ==
    ASSUME ForgottenInv, UNCHANGED <<st, doing>>, Turns',
           commQ' = commQ \/ \E e \in Events : commQ' = Append(commQ, e),
           UNCHANGED armed
    PROVE  NobodyForgotten'
<1>1. \A sig : Queued(sig) => Queued(sig)'
  BY KeptByAppend DEF ForgottenInv, Queued
<1>2. Wakes'
  BY <1>1, ForgottenParts DEF ForgottenInv, Wakes
<1>. QED BY <1>2, ForgottenParts

\* A handler ends in a state that waits: its timer has just been armed.
LEMMA EnterWaitForgetsNobody ==
    ASSUME NEW state \in Waits, EnterWait(state), job' = "none"
    PROVE  NobodyForgotten'
BY WaitsAre DEF NobodyForgotten, EnterWait

LEMMA HandlersForgetNobody ==
    ASSUME ForgottenInv, Dispatch
    PROVE  NobodyForgotten'
<1>. USE DEF ForgottenInv
<1>1. doing = "none" /\ job = "none"
  BY DEF Dispatch, IdleSerial, Accept, AnswerHere, AnswerUnset, BootAccepted,
         BootRefused, ForwardToFlash, StartBare, ForwardToI2C, ForwardToSys,
         FlashReplied, I2CReplied, SysReplied, TimedOut, Boot, Ignore, Process,
         Take
<1>2. CASE IdleSerial
  BY <1>1, <1>2, IdleForgetsNobody DEF IdleSerial, comm, quiet
<1>3. CASE Accept
  <2>1. Tail(commQ) \in Seq(Events)
    BY <1>3, HeadEvent, TypeParts DEF Accept
  <2>2. Queued("MSG_PROCESS")'
    <3>1. Queued(MsgProcess.sig)'
      BY <1>3, <2>1, PostedTypes, QueuedByAppend DEF Accept
    <3>. QED BY <3>1 DEF MsgProcess
  <2>3. st' = "ValidateMsg" /\ doing' = "none" /\ job' = "none"
    BY <1>1, <1>3 DEF Accept, quiet
  <2>. QED BY <2>2, <2>3, WaitsAre DEF NobodyForgotten
<1>4. CASE \/ AnswerHere \/ AnswerUnset \/ BootAccepted \/ BootRefused
           \/ FlashReplied \/ I2CReplied \/ SysReplied \/ TimedOut
  <2>1. st' = "Idle" /\ doing' = "none"
    BY <1>4 DEF AnswerHere, AnswerUnset, BootAccepted, BootRefused,
         FlashReplied, I2CReplied, SysReplied, TimedOut, LeaveBusy
  <2>2. job' = "none"
    BY <1>1, <1>4 DEF AnswerHere, AnswerUnset, BootAccepted, BootRefused,
         FlashReplied, I2CReplied, SysReplied, TimedOut, quiet
  <2>. QED BY <2>1, <2>2, IdleForgetsNobody
<1>5. CASE ForwardToFlash
  BY <1>5, WaitsAre DEF ForwardToFlash, Process, NobodyForgotten
<1>6. CASE StartBare
  BY <1>1, <1>6, WaitsAre DEF StartBare, Process, quiet, NobodyForgotten
<1>7. CASE ForwardToI2C \/ ForwardToSys
  <2>1. \E state \in Waits : EnterWait(state)
    BY <1>7, WaitsAre DEF ForwardToI2C, ForwardToSys
  <2>2. job' = "none"
    BY <1>1, <1>7 DEF ForwardToI2C, ForwardToSys, quiet
  <2>. QED BY <2>1, <2>2, EnterWaitForgetsNobody
<1>8. CASE Boot
  BY <1>1, <1>8, IdleForgetsNobody DEF Boot, quiet
<1>9. CASE Ignore
  <2>1. commQ # <<>> /\ commQ' = Tail(commQ) /\ UNCHANGED <<comm, quiet>>
    BY <1>9 DEF Ignore
  <2>2. ASSUME NEW sig \in Handled(st), Queued(sig)
        PROVE  Queued(sig)'
    BY <1>9, <2>1, <2>2, KeptByTail DEF Ignore
  <2>3. /\ st = "ValidateMsg" => "MSG_PROCESS" \in Handled(st)
        /\ st \in Waits => "COMM_OP_TIMEOUT" \in Handled(st)
    BY DEF Handled, Busy
  <2>4. Wakes'
    BY <2>1, <2>2, <2>3, ForgottenParts DEF Wakes, comm
  <2>5. Turns'
    BY <2>1, ForgottenParts DEF Turns, comm, quiet
  <2>. QED BY <2>4, <2>5, ForgottenParts
<1>. QED BY <1>2, <1>3, <1>4, <1>5, <1>6, <1>7, <1>8, <1>9 DEF Dispatch

LEMMA TimerForgetsNobody ==
    ASSUME ForgottenInv, NEW sig \in Timers, TimerFires(sig)
    PROVE  NobodyForgotten'
<1>. DEFINE e == [sig |-> sig]
<1>1. e \in Events /\ commQ' = Append(commQ, e) /\ commQ \in Seq(Events)
  BY PostedTypes DEF TimerFires, ForgottenInv, TypeOK
<1>2. Queued(sig)'
  <2>1. Queued(e.sig)'
    BY <1>1, QueuedByAppend
  <2>. QED BY <2>1
<1>. HIDE DEF e
<1>3. \A s : Queued(s) => Queued(s)'
  BY <1>1, KeptByAppend DEF ForgottenInv
<1>4. /\ armed' = armed \ {sig}
      /\ UNCHANGED <<st, doing, job>>
  BY DEF TimerFires, quiet
<1>5. Wakes'
  BY <1>2, <1>3, <1>4, ForgottenParts DEF ForgottenInv, Wakes
<1>6. Turns'
  BY <1>4, ForgottenParts DEF ForgottenInv, Turns
<1>. QED BY <1>5, <1>6, ForgottenParts

LEMMA SurroundingsForgetNobody ==
    ASSUME ForgottenInv,
           ClientSends \/ FlashMgrSteps \/ I2CAnswers \/ SysAnswers \/ SysUsesI2C
    PROVE  NobodyForgotten'
<1>1. UNCHANGED comm
  BY DEF ClientSends, FlashMgrSteps, I2CAnswers, SysAnswers, SysUsesI2C
<1>2. job' = job \/ job' = "none"
  BY DEF ClientSends, FlashMgrSteps, I2CAnswers, SysAnswers, SysUsesI2C, quiet,
         service, ServiceStep, Unheard, Wipe, Opened, Refused, Vouch, Written,
         Closed, Expired, RamTested, Answer
<1>3. Turns'
  BY <1>1, <1>2, ForgottenParts DEF ForgottenInv, Turns, comm
<1>4. commQ' = commQ \/ \E e \in Events : commQ' = Append(commQ, e)
  <2>1. CASE ClientSends
    BY <2>1, PostedTypes DEF ClientSends
  <2>2. CASE FlashMgrSteps
    BY <2>2, PostedTypes
       DEF FlashMgrSteps, ServiceStep, Unheard, Wipe, Opened, Refused, Vouch,
           Written, Closed, Expired, RamTested, Answer, Outcomes
  <2>3. CASE I2CAnswers \/ SysAnswers \/ SysUsesI2C
    BY <2>3, PostedTypes DEF I2CAnswers, SysAnswers, SysUsesI2C, Publish, service
  <2>. QED BY <2>1, <2>2, <2>3
<1>5. UNCHANGED <<st, doing>> /\ UNCHANGED armed
  BY <1>1 DEF comm
<1>. QED BY <1>3, <1>4, <1>5, AppendForgetsNobody

LEMMA FinishesForgetNobody ==
    ASSUME ForgottenInv, FlashHasRun \/ FinishBare
    PROVE  NobodyForgotten'
<1>1. CASE FlashHasRun
  BY <1>1, WaitsAre, EnterWaitForgetsNobody DEF FlashHasRun, service
<1>2. CASE FinishBare
  <2>1. job' = "none"
    BY <1>2 DEF FinishBare, service, ForgottenInv, NobodyForgotten
  <2>. QED BY <1>2, <2>1, IdleForgetsNobody DEF FinishBare, LeaveBusy
<1>. QED BY <1>1, <1>2

LEMMA StepForgetsNobody == ForgottenInv /\ [Next]_vars => ForgottenInv'
<1>. SUFFICES ASSUME ForgottenInv, [Next]_vars PROVE NobodyForgotten'
  BY StepKeepsTypes DEF ForgottenInv
<1>1. CASE Dispatch
  BY <1>1, HandlersForgetNobody
<1>2. CASE FlashHasRun \/ FinishBare
  BY <1>2, FinishesForgetNobody
<1>3. CASE Timer
  BY <1>3, TimerForgetsNobody DEF Timer, Timers
<1>4. CASE ClientSends \/ FlashMgrSteps \/ I2CAnswers \/ SysAnswers \/ SysUsesI2C
  BY <1>4, SurroundingsForgetNobody
<1>5. CASE UNCHANGED vars
  BY <1>5 DEF vars, comm, service, ForgottenInv, NobodyForgotten, Queued
<1>. QED BY <1>1, <1>2, <1>3, <1>4, <1>5 DEF Next, CommStep, Jumped

(***************************************************************************)
(* Whoever waits can be woken, for every set of requests and however many  *)
(* timeouts and late replies are queued: a request that was acknowledged   *)
(* has its MSG_PROCESS_SIG ahead of it, and a state that waits for another *)
(* object has its own timeout running or queued, though every timeout is   *)
(* taken out of an armed timer once and may be meant for an earlier state. *)
(***************************************************************************)
THEOREM NobodyIsForgotten == Spec => []NobodyForgotten
<1>1. Init => ForgottenInv
  <2>1. Init => NobodyForgotten
    BY WaitsAre DEF Init, ServiceInit, NobodyForgotten
  <2>. QED BY <2>1, InitiallyTyped DEF ForgottenInv
<1>2. ForgottenInv => NobodyForgotten
  BY DEF ForgottenInv
<1>. QED BY <1>1, <1>2, StepForgetsNobody, PTL DEF Spec

-----------------------------------------------------------------------------
(* Only an intact image is booted *)

Has(q, sig) == \E i \in DOMAIN q : q[i].sig = sig

\* At most one request is to be looked at, and after BOOT_APPL_SIG.
InLine(q) ==
    \A i, j \in DOMAIN q :
       q[j].sig = "MSG_PROCESS" =>
          /\ q[i].sig = "MSG_PROCESS" => i = j
          /\ q[i].sig = "BOOT_APPL" => i < j

\* As long as no request was ended before it was looked at, MSG_PROCESS_SIG is
\* queued for the request at hand only, and between the check of the image and
\* the jump no request is carried out.
BootQueue ==
    /\ InLine(commQ)
    /\ Has(commQ, "MSG_PROCESS") => st \in {"ValidateMsg", "Booted"}
                                    /\ doing = "none"
    /\ Has(commQ, "BOOT_APPL") => /\ st \notin Waits /\ doing = "none"
                                  /\ job = "none" /\ bootable

BootInv == ForgottenInv /\ (~cut => BootQueue)

LEMMA HasOfTail ==
    ASSUME NEW q \in Seq(Events), q # <<>>, NEW sig, Has(Tail(q), sig)
    PROVE  Has(q, sig)
<1>1. PICK i \in DOMAIN Tail(q) : Tail(q)[i].sig = sig
  BY DEF Has
<1>2. i + 1 \in DOMAIN q /\ q[i + 1] = Tail(q)[i]
  BY <1>1, HeadTailProperties
<1>. QED BY <1>1, <1>2 DEF Has

LEMMA HasOfAppend ==
    ASSUME NEW q \in Seq(Events), NEW e \in Events, NEW sig,
           Has(Append(q, e), sig)
    PROVE  Has(q, sig) \/ e.sig = sig
<1>1. PICK i \in DOMAIN Append(q, e) : Append(q, e)[i].sig = sig
  BY DEF Has
<1>2. CASE i = Len(q) + 1
  BY <1>1, <1>2, AppendProperties
<1>3. CASE i # Len(q) + 1
  <2>1. i \in DOMAIN q /\ Append(q, e)[i] = q[i]
    BY <1>1, <1>3, AppendProperties
  <2>. QED BY <1>1, <2>1 DEF Has
<1>. QED BY <1>2, <1>3

LEMMA InLineTail ==
    ASSUME NEW q \in Seq(Events), q # <<>>, InLine(q)
    PROVE  InLine(Tail(q))
<1>1. \A i \in DOMAIN Tail(q) :
         i \in Int /\ i + 1 \in DOMAIN q /\ q[i + 1] = Tail(q)[i]
  BY HeadTailProperties
<1>2. ASSUME NEW i \in DOMAIN Tail(q), NEW j \in DOMAIN Tail(q),
             Tail(q)[j].sig = "MSG_PROCESS"
      PROVE  /\ Tail(q)[i].sig = "MSG_PROCESS" => i = j
             /\ Tail(q)[i].sig = "BOOT_APPL" => i < j
  <2>1. /\ q[i + 1].sig = "MSG_PROCESS" => i + 1 = j + 1
        /\ q[i + 1].sig = "BOOT_APPL" => i + 1 < j + 1
    BY <1>1, <1>2 DEF InLine
  <2>. QED BY <1>1, <2>1
<1>. QED BY <1>2 DEF InLine

\* What may be appended: anything while no request is to be looked at, and
\* otherwise all but MSG_PROCESS_SIG and BOOT_APPL_SIG.
LEMMA InLineAppend ==
    ASSUME NEW q \in Seq(Events), NEW e \in Events, InLine(q),
           \/ ~Has(q, "MSG_PROCESS")
           \/ e.sig \notin {"MSG_PROCESS", "BOOT_APPL"}
    PROVE  InLine(Append(q, e))
<1>. DEFINE a == Append(q, e)
<1>1. \A i \in DOMAIN a :
         /\ i \in Int
         /\ \/ i \in DOMAIN q /\ a[i] = q[i] /\ i < Len(q) + 1
            \/ i = Len(q) + 1 /\ a[i] = e
  BY AppendProperties
<1>2. ASSUME NEW i \in DOMAIN a, NEW j \in DOMAIN a, a[j].sig = "MSG_PROCESS"
      PROVE  /\ a[i].sig = "MSG_PROCESS" => i = j
             /\ a[i].sig = "BOOT_APPL" => i < j
  <2>. HIDE DEF a
  <2>1. CASE j \in DOMAIN q /\ a[j] = q[j]
    <3>1. Has(q, "MSG_PROCESS")
      BY <1>2, <2>1 DEF Has
    <3>2. a[i].sig \in {"MSG_PROCESS", "BOOT_APPL"}
             => i \in DOMAIN q /\ a[i] = q[i]
      BY <1>1, <3>1
    <3>. QED BY <1>2, <2>1, <3>2 DEF InLine
  <2>2. CASE j = Len(q) + 1 /\ a[j] = e
    <3>1. ~Has(q, "MSG_PROCESS")
      BY <1>2, <2>2
    <3>2. i \in DOMAIN q /\ a[i] = q[i] => a[i].sig # "MSG_PROCESS"
      BY <3>1 DEF Has
    <3>3. a[i].sig = "BOOT_APPL" => i # Len(q) + 1
      BY <1>1, <1>2, <2>2
    <3>. QED BY <1>1, <2>2, <3>2, <3>3
  <2>. QED BY <1>1, <2>1, <2>2
<1>. QED BY <1>2 DEF InLine

\* The request at hand is the only one, and BOOT_APPL_SIG is not queued.
LEMMA ProcessIsAlone ==
    ASSUME TypeOK, InLine(commQ), Take("MSG_PROCESS")
    PROVE  /\ ~Has(Tail(commQ), "MSG_PROCESS")
           /\ ~Has(Tail(commQ), "BOOT_APPL")
<1>1. commQ \in Seq(Events) /\ commQ # <<>> /\ Head(commQ).sig = "MSG_PROCESS"
  BY DEF TypeOK, Take
<1>2. 1 \in DOMAIN commQ /\ commQ[1].sig = "MSG_PROCESS"
  BY <1>1
<1>3. \A i \in DOMAIN Tail(commQ) :
         i \in Nat \ {0} /\ i + 1 \in DOMAIN commQ
         /\ commQ[i + 1] = Tail(commQ)[i]
  BY <1>1, HeadTailProperties
<1>4. ASSUME NEW i \in DOMAIN Tail(commQ)
      PROVE  Tail(commQ)[i].sig \notin {"MSG_PROCESS", "BOOT_APPL"}
  <2>1. /\ commQ[i + 1].sig = "MSG_PROCESS" => i + 1 = 1
        /\ commQ[i + 1].sig = "BOOT_APPL" => i + 1 < 1
    BY <1>2, <1>3 DEF InLine
  <2>. QED BY <1>3, <2>1
<1>. QED BY <1>4 DEF Has

\* A queue with neither is in order.
LEMMA NeitherQueued ==
    ASSUME NEW q, ~Has(q, "MSG_PROCESS")
    PROVE  InLine(q)
BY DEF Has, InLine

LEMMA BootTypes ==
    BootInv => /\ TypeOK /\ commQ \in Seq(Events)
               /\ doing = "post" \/ job = "none"
               /\ doing # "none" => st = "ValidateMsg"
BY DEF BootInv, ForgottenInv, NobodyForgotten, TypeOK

\* A queue with neither keeps BootQueue whatever the state.
LEMMA NeitherIsFine ==
    ASSUME ~Has(commQ', "MSG_PROCESS"), ~Has(commQ', "BOOT_APPL")
    PROVE  BootQueue'
BY NeitherQueued DEF BootQueue

\* While the first event is taken, or others arrive, and nothing else changes.
LEMMA TailIsFine ==
    ASSUME TypeOK, BootQueue, commQ # <<>>, commQ' = Tail(commQ),
           UNCHANGED <<st, doing, job, bootable>>
    PROVE  BootQueue'
<1>1. commQ \in Seq(Events)
  BY DEF TypeOK
<1>2. InLine(commQ')
  BY <1>1, InLineTail DEF BootQueue
<1>3. \A sig : Has(commQ', sig) => Has(commQ, sig)
  BY <1>1, HasOfTail
<1>. QED BY <1>2, <1>3 DEF BootQueue

LEMMA ArrivalIsFine ==
    ASSUME TypeOK, BootQueue, NEW e \in Events,
           e.sig \notin {"MSG_PROCESS", "BOOT_APPL"},
           commQ' = Append(commQ, e), UNCHANGED <<st, doing>>,
           job' = job \/ job' = "none", bootable' = bootable \/ job # "none"
    PROVE  BootQueue'
<1>1. commQ \in Seq(Events)
  BY DEF TypeOK
<1>2. InLine(commQ')
  BY <1>1, InLineAppend DEF BootQueue
<1>3. \A sig \in {"MSG_PROCESS", "BOOT_APPL"} :
         Has(commQ', sig) => Has(commQ, sig)
  BY <1>1, HasOfAppend
<1>. QED BY <1>2, <1>3 DEF BootQueue

\* SER_RECEIVED_SIG is taken and another event appended.
LEMMA SerialIsFine ==
    ASSUME TypeOK, BootQueue, IdleSerial
    PROVE  BootQueue'
<1>. DEFINE e == CliReceived(Head(commQ).req)
<1>1. Head(commQ) \in Events /\ Head(commQ).sig = "SER_RECEIVED"
      /\ Tail(commQ) \in Seq(Events) /\ commQ \in Seq(Events) /\ commQ # <<>>
  BY HeadEvent, TypeParts DEF IdleSerial, Take, QueueTypes
<1>2. e \in Events /\ e.sig = "CLI_RECEIVED"
  <2>1. Head(commQ).req \in Requests
    BY <1>1, EventTypes
  <2>2. e \in Events
    BY <2>1, PostedTypes
  <2>. QED BY <2>2 DEF CliReceived
<1>3. commQ' = Append(Tail(commQ), e) /\ UNCHANGED <<st, doing, job, bootable>>
  BY DEF IdleSerial, comm, quiet
<1>. HIDE DEF e
<1>4. InLine(commQ')
  BY <1>1, <1>2, <1>3, InLineTail, InLineAppend DEF BootQueue
<1>5. \A sig \in {"MSG_PROCESS", "BOOT_APPL"} :
         Has(commQ', sig) => Has(commQ, sig)
  BY <1>1, <1>2, <1>3, HasOfTail, HasOfAppend
<1>. QED BY <1>3, <1>4, <1>5 DEF BootQueue

\* A request is taken in Idle: none is to be looked at, so its MSG_PROCESS_SIG
\* is the only one and behind BOOT_APPL_SIG.
LEMMA AcceptIsFine ==
    ASSUME TypeOK, BootQueue, Accept
    PROVE  BootQueue'
<1>1. commQ \in Seq(Events) /\ commQ # <<>> /\ Tail(commQ) \in Seq(Events)
  BY HeadEvent, TypeParts DEF Accept, Take, QueueTypes
<1>2. commQ' = Append(Tail(commQ), MsgProcess) /\ st = "Idle"
      /\ st' = "ValidateMsg" /\ doing = "none"
      /\ UNCHANGED <<doing, job, bootable>>
  BY DEF Accept, quiet, Take
<1>3. ~Has(Tail(commQ), "MSG_PROCESS")
  BY <1>1, <1>2, HasOfTail DEF BootQueue
<1>4. InLine(commQ')
  BY <1>1, <1>2, <1>3, InLineTail, InLineAppend, PostedTypes DEF BootQueue
<1>5. Has(commQ', "BOOT_APPL") => Has(commQ, "BOOT_APPL")
  <2>1. MsgProcess \in Events /\ MsgProcess.sig # "BOOT_APPL"
    BY PostedTypes DEF MsgProcess
  <2>. QED BY <1>1, <1>2, <2>1, HasOfTail, HasOfAppend
<1>. QED BY <1>2, <1>4, <1>5, WaitsAre DEF BootQueue

\* The handler of MSG_PROCESS_SIG leaves neither in the queue but the
\* BOOT_APPL_SIG it posts, and it posts that if the image is intact.
LEMMA ProcessIsFine ==
    ASSUME TypeOK, BootQueue,
           \/ AnswerHere \/ AnswerUnset \/ BootAccepted \/ BootRefused
           \/ ForwardToFlash \/ StartBare \/ ForwardToI2C \/ ForwardToSys
    PROVE  BootQueue'
<1>1. Take("MSG_PROCESS")
  BY DEF AnswerHere, AnswerUnset, BootAccepted, BootRefused, ForwardToFlash,
         StartBare, ForwardToI2C, ForwardToSys, Process
<1>2. /\ ~Has(Tail(commQ), "MSG_PROCESS") /\ ~Has(Tail(commQ), "BOOT_APPL")
      /\ Tail(commQ) \in Seq(Events)
  BY <1>1, ProcessIsAlone, HeadEvent, TypeParts DEF BootQueue
<1>3. CASE BootAccepted
  <2>1. commQ' = Append(Tail(commQ), BootAppl) /\ st' = "Idle"
        /\ doing' = "none" /\ job' = "none" /\ bootable'
    BY <1>1, <1>3 DEF BootAccepted, LeaveBusy, quiet, Take
  <2>2. BootAppl \in Events /\ BootAppl.sig = "BOOT_APPL"
    BY PostedTypes DEF BootAppl
  <2>3. ~Has(commQ', "MSG_PROCESS")
    BY <1>2, <2>1, <2>2, HasOfAppend
  <2>. QED BY <2>1, <2>3, NeitherQueued, WaitsAre DEF BootQueue
<1>4. CASE ~BootAccepted
  <2>1. commQ' = Tail(commQ)
    BY <1>4 DEF AnswerHere, AnswerUnset, BootRefused, ForwardToFlash,
         StartBare, ForwardToI2C, ForwardToSys
  <2>. QED BY <1>2, <2>1, NeitherIsFine
<1>. QED BY <1>3, <1>4

\* In the states that wait neither is queued.
LEMMA RepliesAreFine ==
    ASSUME TypeOK, BootQueue, ~cut',
           FlashReplied \/ I2CReplied \/ SysReplied \/ TimedOut
    PROVE  BootQueue'
<1>1. st \in Waits /\ commQ' = Tail(commQ) /\ commQ # <<>>
  BY WaitsAre
     DEF FlashReplied, I2CReplied, SysReplied, TimedOut, Take, Busy
<1>2. ~Has(commQ, "MSG_PROCESS") /\ ~Has(commQ, "BOOT_APPL")
  BY <1>1, WaitsAre DEF BootQueue
<1>3. commQ \in Seq(Events)
  BY DEF TypeOK
<1>. QED BY <1>1, <1>2, <1>3, HasOfTail, NeitherIsFine

LEMMA BootAndIgnoreAreFine ==
    ASSUME TypeOK, BootQueue, Boot \/ Ignore
    PROVE  BootQueue'
<1>1. CASE Ignore
  BY <1>1, TailIsFine DEF Ignore, comm, quiet
<1>2. CASE Boot
  <2>1. commQ \in Seq(Events) /\ commQ # <<>> /\ commQ' = Tail(commQ)
        /\ st' = "Booted" /\ doing = "none"
        /\ UNCHANGED <<doing, job, bootable>>
    BY <1>2 DEF Boot, Take, TypeOK, quiet
  <2>2. InLine(commQ')
    BY <2>1, InLineTail DEF BootQueue
  <2>3. Has(commQ', "BOOT_APPL") => Has(commQ, "BOOT_APPL")
    BY <2>1, HasOfTail
  <2>. QED BY <2>1, <2>2, <2>3, WaitsAre DEF BootQueue
<1>. QED BY <1>1, <1>2

\* A handler that is kept busy took the MSG_PROCESS_SIG: neither is queued.
LEMMA FinishesAreFine ==
    ASSUME TypeOK, BootQueue, FlashHasRun \/ FinishBare
    PROVE  BootQueue'
<1>1. doing # "none" /\ commQ' = commQ
  BY DEF FlashHasRun, FinishBare, service
<1>. QED BY <1>1, NeitherIsFine DEF BootQueue

LEMMA SurroundingsAreFine ==
    ASSUME TypeOK, BootQueue,
           \/ Timer \/ ClientSends \/ FlashMgrSteps
           \/ I2CAnswers \/ SysAnswers \/ SysUsesI2C
    PROVE  BootQueue'
<1>1. UNCHANGED <<st, doing>>
  BY DEF Timer, TimerFires, ClientSends, FlashMgrSteps, I2CAnswers, SysAnswers,
         SysUsesI2C, comm
<1>2. /\ job' = job \/ job' = "none"
      /\ bootable' = bootable \/ job # "none"
  BY DEF Timer, TimerFires, ClientSends, FlashMgrSteps, I2CAnswers, SysAnswers,
         SysUsesI2C, quiet, service, ServiceStep, Unheard, Wipe, Opened, Refused,
         Vouch, Written, Closed, Expired, RamTested, Answer
<1>3. commQ' = commQ
      \/ \E e \in Events : /\ e.sig \notin {"MSG_PROCESS", "BOOT_APPL"}
                           /\ commQ' = Append(commQ, e)
  <2>1. CASE Timer
    BY <2>1, PostedTypes DEF Timer, TimerFires, Timers
  <2>2. CASE ClientSends
    BY <2>2, PostedTypes DEF ClientSends, CliReceived, SerReceived
  <2>3. CASE FlashMgrSteps
    BY <2>3, PostedTypes
       DEF FlashMgrSteps, ServiceStep, Unheard, Wipe, Opened, Refused, Vouch,
           Written, Closed, Expired, RamTested, Answer, Outcomes, OpReply,
           RamReply
  <2>4. CASE I2CAnswers \/ SysAnswers \/ SysUsesI2C
    BY <2>4, PostedTypes
       DEF I2CAnswers, SysAnswers, SysUsesI2C, Publish, service, I2CReply,
           DBReply
  <2>. QED BY <2>1, <2>2, <2>3, <2>4
<1>4. CASE commQ' = commQ
  BY <1>1, <1>2, <1>4 DEF BootQueue
<1>. QED BY <1>1, <1>2, <1>3, <1>4, ArrivalIsFine

LEMMA StepKeepsBootQueue == BootInv /\ [Next]_vars => BootInv'
<1>. SUFFICES ASSUME BootInv, [Next]_vars, ~cut' PROVE BootQueue'
  BY StepForgetsNobody DEF BootInv
<1>1. CASE UNCHANGED vars
  <2>1. UNCHANGED <<commQ, st, doing, job, bootable, cut>>
    BY <1>1 DEF vars, service, comm
  <2>. QED BY <2>1 DEF BootInv, BootQueue
<1>2. CASE Next /\ ~UNCHANGED vars
  <2>1. ~cut
    BY <1>2 DEF Next, Jumped, CommStep, Dispatch, IdleSerial, Accept, AnswerHere,
       AnswerUnset, BootAccepted, BootRefused, ForwardToFlash, StartBare,
       ForwardToI2C, ForwardToSys, FlashReplied, I2CReplied, SysReplied,
       TimedOut, Boot, Ignore, FlashHasRun, FinishBare, Timer, TimerFires,
       FlashMgrSteps, ClientSends, I2CAnswers, SysAnswers, SysUsesI2C, quiet
  <2>2. TypeOK /\ BootQueue
    BY <2>1, BootTypes DEF BootInv
  <2>. QED BY <1>2, <2>2, SerialIsFine, AcceptIsFine, ProcessIsFine,
           RepliesAreFine, BootAndIgnoreAreFine, FinishesAreFine,
           SurroundingsAreFine
       DEF Next, Jumped, CommStep, Dispatch
<1>. QED BY <1>1, <1>2

(***************************************************************************)
(* The bootloader jumps only to an image that is intact, for every set of  *)
(* requests and however they interleave with FlashMgr, as long as no       *)
(* timeout has ended a request before its MSG_PROCESS_SIG was handled.     *)
(***************************************************************************)
THEOREM OnlyIntactIsBooted == Spec => BootsIntactImage
<1>1. Init => BootInv
  <2>1. Init => ForgottenInv
    BY InitiallyTyped, WaitsAre
       DEF Init, ServiceInit, NobodyForgotten, ForgottenInv
  <2>2. Init => BootQueue
    BY WaitsAre DEF Init, ServiceInit, BootQueue, InLine, Has
  <2>. QED BY <2>1, <2>2 DEF BootInv
<1>2. BootInv /\ [Next]_vars => [Boot /\ ~cut => bootable]_vars
  <2>. SUFFICES ASSUME BootInv, Boot, ~cut PROVE bootable
    OBVIOUS
  <2>1. commQ \in Seq(Events) /\ commQ # <<>> /\ Head(commQ).sig = "BOOT_APPL"
    BY BootTypes DEF Boot, Take
  <2>2. Has(commQ, "BOOT_APPL")
    BY <2>1 DEF Has
  <2>. QED BY <2>2 DEF BootInv, BootQueue
<1>. QED BY <1>1, <1>2, StepKeepsBootQueue, PTL DEF Spec, BootsIntactImage

-----------------------------------------------------------------------------
(* A late answer of FlashMgr ends no later request *)

FlashAnswer(e) ==
    e.sig \in {"FLASH_OP_DONE", "RAM_TEST_DONE"} /\ e.err # "EXPIRED"

\* An answer that waits in the queue is the one to the request at hand as soon
\* as that was posted; until then it is ahead of MSG_PROCESS_SIG and will be
\* ignored before.  Nobody else answers a request posted to FlashMgr.
AnswersInStep ==
    /\ \A i \in DOMAIN commQ : FlashAnswer(commQ[i]) =>
          /\ job = "none"
          /\ st \in Waits \/ doing = "post" =>
                i = mine /\ st \notin {"WaitForRespFromI2C", "WaitForRespFromSysMgr"}
          /\ st = "ValidateMsg" /\ doing = "none" =>
                \E j \in DOMAIN commQ : i < j /\ commQ[j].sig = "MSG_PROCESS"
    /\ "cur" \in i2c => st \in {"WaitForRespFromI2C", "Booted"}
    /\ "cur" \in db => st \in {"WaitForRespFromSysMgr", "Booted"}

NoAnswer(q) == \A i \in DOMAIN q : ~FlashAnswer(q[i])

LateInv == BootInv /\ (~cut => AnswersInStep)

\* Nothing answers FlashMgr's part in a queue that holds none of its answers.
LEMMA NoAnswerIsFine ==
    ASSUME NoAnswer(commQ'),
           "cur" \in i2c' => st' \in {"WaitForRespFromI2C", "Booted"},
           "cur" \in db' => st' \in {"WaitForRespFromSysMgr", "Booted"}
    PROVE  AnswersInStep'
BY DEF NoAnswer, AnswersInStep

\* Nor in the states that neither wait nor look at a request.
LEMMA IdleIsFine ==
    ASSUME st' \in {"Idle", "Booted"}, doing' = "none", job' = "none",
           "cur" \in i2c' \cup db' => st' = "Booted"
    PROVE  AnswersInStep'
BY WaitsAre DEF AnswersInStep

LEMMA TailPlaced ==
    ASSUME NEW q \in Seq(Events), q # <<>>
    PROVE  /\ DOMAIN q = 1 .. Len(q) /\ Len(q) \in Nat \ {0}
           /\ DOMAIN Tail(q) = 1 .. Len(q) - 1 /\ Tail(q) \in Seq(Events)
           /\ \A i \in 1 .. Len(q) - 1 : Tail(q)[i] = q[i + 1]
           /\ Head(q) = q[1] /\ Head(q) \in Events
BY HeadTailProperties

LEMMA AppendPlaced ==
    ASSUME NEW q \in Seq(Events), NEW e \in Events
    PROVE  /\ DOMAIN q = 1 .. Len(q) /\ Len(q) \in Nat
           /\ DOMAIN Append(q, e) = 1 .. Len(q) + 1
           /\ Append(q, e) \in Seq(Events)
           /\ \A i \in 1 .. Len(q) : Append(q, e)[i] = q[i]
           /\ Append(q, e)[Len(q) + 1] = e /\ Len(Append(q, e)) = Len(q) + 1
BY AppendProperties

\* While events are appended that are no answers of FlashMgr.
LEMMA OtherArrivalIsInStep ==
    ASSUME TypeOK, AnswersInStep, NEW e \in Events, ~FlashAnswer(e),
           commQ' = Append(commQ, e), UNCHANGED <<st, doing>>,
           job' = job \/ job' = "none", mine' = mine \/ NoAnswer(commQ),
           i2c' \subseteq i2c, db' \subseteq db
    PROVE  AnswersInStep'
<1>1. commQ \in Seq(Events)
  BY DEF TypeOK
<1>2. ASSUME NEW i \in DOMAIN commQ', FlashAnswer(commQ'[i])
      PROVE  /\ i \in DOMAIN commQ /\ FlashAnswer(commQ[i])
             /\ mine' = mine
             /\ \A j \in DOMAIN commQ : j \in DOMAIN commQ' /\ commQ'[j] = commQ[j]
  BY <1>1, <1>2, AppendPlaced DEF NoAnswer
<1>3. ASSUME NEW i \in DOMAIN commQ', FlashAnswer(commQ'[i])
      PROVE  /\ job' = "none"
             /\ st' \in Waits \/ doing' = "post" =>
                   i = mine' /\ st' \notin {"WaitForRespFromI2C", "WaitForRespFromSysMgr"}
             /\ st' = "ValidateMsg" /\ doing' = "none" =>
                   \E j \in DOMAIN commQ' : i < j /\ commQ'[j].sig = "MSG_PROCESS"
  BY <1>2, <1>3 DEF AnswersInStep
<1>. QED BY <1>3 DEF AnswersInStep

LEMMA IgnoreIsInStep ==
    ASSUME TypeOK, AnswersInStep, Ignore
    PROVE  AnswersInStep'
<1>1. commQ \in Seq(Events) /\ commQ # <<>> /\ commQ' = Tail(commQ) /\ mine \in Nat
      /\ MineMovesUp /\ UNCHANGED <<st, doing, job, i2c, db>>
      /\ Head(commQ).sig \notin Handled(st)
  BY DEF Ignore, comm, quiet, TypeOK
<1>2. ASSUME NEW i \in DOMAIN commQ', FlashAnswer(commQ'[i])
      PROVE  /\ i \in Nat \ {0} /\ i + 1 \in DOMAIN commQ /\ FlashAnswer(commQ[i + 1])
             /\ \A j \in DOMAIN commQ : j > 1 => /\ j - 1 \in DOMAIN commQ'
                                                 /\ commQ'[j - 1] = commQ[j]
  BY <1>1, <1>2, TailPlaced
<1>3. ASSUME NEW i \in DOMAIN commQ', FlashAnswer(commQ'[i])
      PROVE  /\ job' = "none"
             /\ st' \in Waits \/ doing' = "post" =>
                   i = mine' /\ st' \notin {"WaitForRespFromI2C", "WaitForRespFromSysMgr"}
             /\ st' = "ValidateMsg" /\ doing' = "none" =>
                   \E j \in DOMAIN commQ' : i < j /\ commQ'[j].sig = "MSG_PROCESS"
  <2>1. job' = "none"
    BY <1>1, <1>2, <1>3 DEF AnswersInStep
  <2>2. st' \in Waits \/ doing' = "post" =>
           i = mine' /\ st' \notin {"WaitForRespFromI2C", "WaitForRespFromSysMgr"}
    BY <1>1, <1>2, <1>3 DEF AnswersInStep, MineMovesUp
  <2>3. ASSUME st' = "ValidateMsg" /\ doing' = "none"
        PROVE  \E j \in DOMAIN commQ' : i < j /\ commQ'[j].sig = "MSG_PROCESS"
    <3>1. PICK j \in DOMAIN commQ : i + 1 < j /\ commQ[j].sig = "MSG_PROCESS"
      BY <1>1, <1>2, <1>3, <2>3 DEF AnswersInStep
    <3>2. j \in Nat /\ j > 1 /\ i < j - 1
      BY <1>1, <1>2, <1>3, <3>1, TailPlaced
    <3>. QED BY <1>2, <1>3, <3>1, <3>2
  <2>. QED BY <2>1, <2>2, <2>3
<1>. QED BY <1>1, <1>3 DEF AnswersInStep

\* A request is taken: the answers left over are ahead of its MSG_PROCESS_SIG.
LEMMA AcceptIsInStep ==
    ASSUME TypeOK, AnswersInStep, Accept
    PROVE  AnswersInStep'
<1>1. commQ \in Seq(Events) /\ commQ # <<>> /\ st = "Idle"
      /\ commQ' = Append(Tail(commQ), MsgProcess) /\ st' = "ValidateMsg"
      /\ doing' = "none" /\ job' = "none" /\ UNCHANGED <<i2c, db>>
  BY DEF Accept, Take, quiet, TypeOK
<1>2. Tail(commQ) \in Seq(Events) /\ MsgProcess \in Events
  BY <1>1, TailPlaced, PostedTypes
<1>. DEFINE n == Len(Tail(commQ)) + 1
<1>3. /\ n \in DOMAIN commQ' /\ commQ'[n].sig = "MSG_PROCESS"
      /\ \A i \in DOMAIN commQ' : FlashAnswer(commQ'[i]) => i < n
  <2>1. MsgProcess.sig = "MSG_PROCESS" /\ ~FlashAnswer(MsgProcess)
    BY DEF MsgProcess, FlashAnswer
  <2>2. /\ DOMAIN commQ' = 1 .. n /\ n \in Nat \ {0}
        /\ commQ'[n] = MsgProcess
    BY <1>1, <1>2, AppendPlaced
  <2>3. \A i \in 1 .. n : i = n \/ i < n
    BY <2>2
  <2>. HIDE DEF n
  <2>. QED BY <2>1, <2>2, <2>3
<1>. HIDE DEF n
<1>4. st' \notin Waits /\ doing' # "post"
  BY <1>1, WaitsAre
<1>5. "cur" \notin i2c' /\ "cur" \notin db'
  BY <1>1 DEF AnswersInStep
<1>. QED BY <1>1, <1>3, <1>4, <1>5 DEF AnswersInStep

\* The handler of MSG_PROCESS_SIG finds no answer behind it.
LEMMA ProcessIsInStep ==
    ASSUME TypeOK, BootQueue, AnswersInStep,
           \/ AnswerHere \/ AnswerUnset \/ BootAccepted \/ BootRefused
           \/ ForwardToFlash \/ StartBare \/ ForwardToI2C \/ ForwardToSys
    PROVE  AnswersInStep'
<1>1. Take("MSG_PROCESS") /\ st = "ValidateMsg" /\ doing = "none"
      /\ commQ \in Seq(Events) /\ commQ # <<>> /\ Head(commQ).sig = "MSG_PROCESS"
  BY DEF AnswerHere, AnswerUnset, BootAccepted, BootRefused, ForwardToFlash,
         StartBare, ForwardToI2C, ForwardToSys, Process, Take, TypeOK
<1>2. NoAnswer(Tail(commQ))
  <2>1. ASSUME NEW i \in DOMAIN Tail(commQ), FlashAnswer(Tail(commQ)[i])
        PROVE  FALSE
    <3>1. i \in Nat \ {0} /\ i + 1 \in DOMAIN commQ /\ FlashAnswer(commQ[i + 1])
      BY <1>1, <2>1, TailPlaced
    <3>2. PICK j \in DOMAIN commQ : i + 1 < j /\ commQ[j].sig = "MSG_PROCESS"
      BY <1>1, <3>1 DEF AnswersInStep
    <3>3. 1 \in DOMAIN commQ /\ commQ[1].sig = "MSG_PROCESS"
      BY <1>1, TailPlaced
    <3>4. 1 = j
      BY <3>2, <3>3 DEF BootQueue, InLine
    <3>. QED BY <3>1, <3>2, <3>4
  <2>. QED BY <2>1 DEF NoAnswer
<1>3. "cur" \notin i2c /\ "cur" \notin db
  BY <1>1 DEF AnswersInStep
<1>4. CASE AnswerHere \/ AnswerUnset \/ BootAccepted \/ BootRefused
  <2>1. /\ st' = "Idle" /\ doing' = "none" /\ job' = "none"
        /\ i2c' = i2c /\ db' = db
    BY <1>1, <1>3, <1>4 DEF AnswerHere, AnswerUnset, BootAccepted, BootRefused,
         LeaveBusy, Take, quiet
  <2>. QED BY <1>3, <2>1, IdleIsFine
<1>5. CASE ForwardToFlash \/ StartBare \/ ForwardToI2C \/ ForwardToSys
  <2>1. commQ' = Tail(commQ)
    BY <1>5 DEF ForwardToFlash, StartBare, ForwardToI2C, ForwardToSys
  <2>2. /\ "cur" \in i2c' => st' = "WaitForRespFromI2C"
        /\ "cur" \in db' => st' = "WaitForRespFromSysMgr"
    BY <1>3, <1>5 DEF ForwardToFlash, StartBare, ForwardToI2C, ForwardToSys,
         EnterWait
  <2>. QED BY <1>2, <2>1, <2>2, NoAnswerIsFine
<1>. QED BY <1>4, <1>5

\* A request ends, or a handler that was kept busy goes on.
LEMMA EndsAreInStep ==
    ASSUME ForgottenInv, AnswersInStep,
           \/ FlashReplied \/ I2CReplied \/ SysReplied \/ TimedOut \/ FinishBare
           \/ IdleSerial \/ Boot \/ FlashHasRun
    PROVE  AnswersInStep'
<1>1. CASE FlashReplied \/ I2CReplied \/ SysReplied \/ TimedOut \/ FinishBare
  <2>1. job' = "none"
    BY <1>1 DEF FlashReplied, I2CReplied, SysReplied, TimedOut, FinishBare, Take,
         quiet, service, ForgottenInv, NobodyForgotten
  <2>2. \E p, u : LeaveBusy(p, u)
    BY <1>1 DEF FlashReplied, I2CReplied, SysReplied, TimedOut, FinishBare
  <2>3. st' = "Idle" /\ doing' = "none" /\ "cur" \notin i2c' \cup db'
    BY <2>2 DEF LeaveBusy
  <2>. QED BY <2>1, <2>3, IdleIsFine
<1>2. CASE IdleSerial
  <2>1. st' = "Idle" /\ st = "Idle" /\ doing' = "none" /\ job' = "none"
        /\ UNCHANGED <<i2c, db>>
    BY <1>2 DEF IdleSerial, Take, comm, quiet
  <2>2. "cur" \notin i2c' \cup db'
    BY <2>1 DEF AnswersInStep
  <2>. QED BY <2>1, <2>2, IdleIsFine
<1>3. CASE Boot
  BY <1>3, IdleIsFine DEF Boot, Take, quiet
<1>4. CASE FlashHasRun
  <2>1. /\ UNCHANGED <<commQ, mine, i2c, db>> /\ job' = "none" /\ doing = "post"
        /\ st' = "WaitForRespFromFlashMgr" /\ doing' = "none" /\ st = "ValidateMsg"
    BY <1>4 DEF FlashHasRun, service, EnterWait, ForgottenInv, NobodyForgotten
  <2>. QED BY <2>1 DEF AnswersInStep
<1>. QED BY <1>1, <1>2, <1>3, <1>4

\* FlashMgr answers while its request is being posted, and once.
LEMMA FlashMgrIsInStep ==
    ASSUME ForgottenInv, AnswersInStep, FlashMgrSteps
    PROVE  AnswersInStep'
<1>1. /\ UNCHANGED <<st, doing, i2c, db>> /\ commQ \in Seq(Events)
      /\ mine' = IF job # "none" /\ Len(commQ') > Len(commQ)
                 THEN Len(commQ') ELSE mine
  BY DEF FlashMgrSteps, comm, ForgottenInv, TypeOK
<1>2. CASE commQ' = commQ
  <2>1. mine' = mine /\ (job' = job \/ job' = "none")
    <3>1. ~(Len(commQ) > Len(commQ))
      BY <1>1, LenProperties
    <3>2. job' = job \/ job' = "none"
      BY DEF FlashMgrSteps, ServiceStep, Unheard, Wipe, Opened, Refused, Vouch,
             Written, Closed, Expired, RamTested, Answer
    <3>. QED BY <1>1, <1>2, <3>1, <3>2
  <2>. QED BY <1>1, <1>2, <2>1 DEF AnswersInStep
<1>3. CASE Expired
  <2>1. /\ commQ' = Append(commQ, OpReply("EXPIRED")) /\ job = "none" /\ job' = "none"
        /\ OpReply("EXPIRED") \in Events /\ mine' = mine
    BY <1>1, <1>3, PostedTypes DEF Expired
  <2>2. ~FlashAnswer(OpReply("EXPIRED"))
    BY DEF FlashAnswer, OpReply
  <2>. QED BY <1>1, <2>1, <2>2, OtherArrivalIsInStep DEF ForgottenInv
<1>4. CASE commQ' # commQ /\ ~Expired
  <2>1. /\ job # "none" /\ job' = "none"
        /\ \E e \in Events : commQ' = Append(commQ, e)
    BY <1>4, PostedTypes
       DEF FlashMgrSteps, ServiceStep, Unheard, Wipe, Opened, Refused, Vouch,
           Written, Closed, RamTested, Answer, Outcomes
  <2>2. PICK e \in Events : commQ' = Append(commQ, e)
    BY <2>1
  <2>3. \A i \in DOMAIN commQ : ~FlashAnswer(commQ[i])
    BY <2>1 DEF AnswersInStep
  <2>4. mine' = Len(commQ) + 1
        /\ \A i \in DOMAIN commQ' : FlashAnswer(commQ'[i]) => i = Len(commQ) + 1
    BY <1>1, <2>1, <2>2, <2>3, AppendPlaced
  <2>5. doing' = "post" /\ st' = "ValidateMsg"
    BY <1>1, <2>1 DEF ForgottenInv, NobodyForgotten
  <2>. QED BY <1>1, <2>1, <2>4, <2>5 DEF AnswersInStep
<1>. QED BY <1>2, <1>3, <1>4

LEMMA OthersAreInStep ==
    ASSUME TypeOK, AnswersInStep,
           Timer \/ ClientSends \/ I2CAnswers \/ SysAnswers \/ SysUsesI2C
    PROVE  AnswersInStep'
<1>1. /\ UNCHANGED <<st, doing, job>> /\ commQ \in Seq(Events)
      /\ i2c' \subseteq i2c \cup {"other"} /\ db' \subseteq db /\ Running
  BY DEF Timer, TimerFires, ClientSends, I2CAnswers, SysAnswers, SysUsesI2C, comm,
         quiet, service, Publish, SysRuns, TypeOK
<1>2. CASE SysUsesI2C
  <2>1. UNCHANGED <<commQ, mine>>
    BY <1>2 DEF SysUsesI2C, service
  <2>. QED BY <1>1, <2>1 DEF AnswersInStep
<1>3. CASE Timer \/ ClientSends
  <2>1. PICK e \in Events : ~FlashAnswer(e) /\ commQ' = Append(commQ, e)
    BY <1>3, PostedTypes
       DEF Timer, TimerFires, Timers, ClientSends, CliReceived, SerReceived,
           FlashAnswer
  <2>2. UNCHANGED <<mine, i2c, db>>
    BY <1>3 DEF Timer, TimerFires, ClientSends
  <2>. QED BY <1>1, <2>1, <2>2, OtherArrivalIsInStep
<1>4. CASE I2CAnswers \/ SysAnswers
  <2>1. PICK e \in Events : ~FlashAnswer(e) /\ commQ' = Append(commQ, e)
    BY <1>4, PostedTypes
       DEF I2CAnswers, SysAnswers, Publish, I2CReply, DBReply, FlashAnswer
  <2>2. i2c' \subseteq i2c /\ db' \subseteq db
    BY <1>4 DEF I2CAnswers, SysAnswers, quiet
  <2>3. mine' = mine \/ "cur" \in i2c \cup db
    BY <1>4 DEF I2CAnswers, SysAnswers, Publish
  <2>4. "cur" \in i2c \cup db => NoAnswer(commQ)
    BY <1>1, WaitsAre DEF AnswersInStep, NoAnswer, Running
  <2>. QED BY <1>1, <2>1, <2>2, <2>3, <2>4, OtherArrivalIsInStep
<1>. QED BY <1>2, <1>3, <1>4

LEMMA StepKeepsAnswersInStep == LateInv /\ [Next]_vars => LateInv'
<1>. SUFFICES ASSUME LateInv, [Next]_vars, ~cut' PROVE AnswersInStep'
  BY StepKeepsBootQueue DEF LateInv
<1>1. CASE UNCHANGED vars
  <2>1. UNCHANGED <<commQ, st, doing, job, mine, i2c, db, cut>>
    BY <1>1 DEF vars, service, comm
  <2>. QED BY <2>1 DEF LateInv, AnswersInStep
<1>2. CASE Next /\ ~UNCHANGED vars
  <2>1. ~cut
    BY <1>2 DEF Next, Jumped, CommStep, Dispatch, IdleSerial, Accept, AnswerHere,
       AnswerUnset, BootAccepted, BootRefused, ForwardToFlash, StartBare,
       ForwardToI2C, ForwardToSys, FlashReplied, I2CReplied, SysReplied,
       TimedOut, Boot, Ignore, FlashHasRun, FinishBare, Timer, TimerFires,
       FlashMgrSteps, ClientSends, I2CAnswers, SysAnswers, SysUsesI2C, quiet
  <2>2. TypeOK /\ ForgottenInv /\ BootQueue /\ AnswersInStep
    BY <2>1, BootTypes DEF LateInv, BootInv
  <2>. QED BY <1>2, <2>2, IgnoreIsInStep, AcceptIsInStep, ProcessIsInStep,
           EndsAreInStep, FlashMgrIsInStep, OthersAreInStep
       DEF Next, Jumped, CommStep, Dispatch
<1>. QED BY <1>1, <1>2

(***************************************************************************)
(* A reply of FlashMgr that came too late for its request is not taken for *)
(* the reply to a later one, for every set of requests and however many    *)
(* are queued, as long as no timeout has ended a request before its        *)
(* MSG_PROCESS_SIG was handled: replies carry no name, and it is their     *)
(* place in the queue that tells them apart.                               *)
(***************************************************************************)
THEOREM LateIsDropped == Spec => LateReplyDropped
<1>1. Init => LateInv
  <2>1. Init => AnswersInStep
    BY DEF Init, AnswersInStep
  <2>2. Init => ForgottenInv /\ BootQueue
    <3>1. Init => NobodyForgotten
      BY WaitsAre DEF Init, ServiceInit, NobodyForgotten
    <3>2. Init => BootQueue
      BY DEF Init, BootQueue, InLine, Has
    <3>. QED BY <3>1, <3>2, InitiallyTyped DEF ForgottenInv
  <2>. QED BY <2>1, <2>2 DEF LateInv, BootInv
<1>2. LateInv /\ [Next]_vars =>
         [FlashReplied /\ ~cut /\ Head(commQ).err # "EXPIRED" => mine = 1]_vars
  <2>. SUFFICES ASSUME LateInv, FlashReplied, ~cut, Head(commQ).err # "EXPIRED"
                PROVE  mine = 1
    OBVIOUS
  <2>1. /\ commQ \in Seq(Events) /\ commQ # <<>> /\ st \in Waits
        /\ Head(commQ).sig \in {"FLASH_OP_DONE", "RAM_TEST_DONE"}
    BY WaitsAre DEF LateInv, BootInv, ForgottenInv, TypeOK, FlashReplied, Take
  <2>2. 1 \in DOMAIN commQ /\ FlashAnswer(commQ[1])
    BY <2>1, TailPlaced DEF FlashAnswer
  <2>. QED BY <2>1, <2>2 DEF LateInv, AnswersInStep
<1>. QED BY <1>1, <1>2, StepKeepsAnswersInStep, PTL DEF Spec, LateReplyDropped

-----------------------------------------------------------------------------
(* A firmware update from end to end (module FlashFW).  The client asks for *)
(* nothing but updates.                                                     *)

OnlyUpdates == Requests = FlashRequests

Message == [type : {"Ack", "Done"}, kind : Kinds, err : Codes, seq : Nat,
            bare : BOOLEAN]

ClientTypes ==
    /\ queue \in Seq(Message)
    /\ call \in [req : FlashRequests, want : {"None", "Ack", "Done"}, tries : Nat]
    /\ call.want = "None" <=> call = NoCall
    /\ result = "ok" => call = NoCall

\* What is left of CommMgr's states when only updates are asked for.
ServedTypes ==
    /\ st \in {"Idle", "ValidateMsg", "WaitForRespFromFlashMgr", "Booted"}
    /\ doing # "bare"
    /\ st \in Busy => req \in FlashRequests
    /\ doing = "post" \/ st = "WaitForRespFromFlashMgr" =>
          payload \in {"Status", "RamTest"}
    /\ job # "none" => job = JobOf(req.kind)
    /\ \A i \in DOMAIN commQ : commQ[i].sig # "SER_RECEIVED"

\* r is the one request in a queue, or there is none.
PostedAt(q, r, i) ==
    /\ i \in DOMAIN q
    /\ \A j \in DOMAIN q : q[j].sig = "CLI_RECEIVED" <=> j = i
    /\ q[i].req = r
Posted(q, r) == \E i \in DOMAIN q : PostedAt(q, r, i)
NoRequest(q) == \A j \in DOMAIN q : q[j].sig # "CLI_RECEIVED"

\* Messages the client has taken of the two its request is answered with.
Seen(c) == IF c.want = "Done" THEN 1 ELSE 0

InTime == call # NoCall /\ fresh

(***************************************************************************)
(* A call that found nothing of an earlier one: its request is on its way, *)
(* or being served, or over, and of the two messages it is answered with   *)
(* no more are queued than were sent and not taken.                        *)
(***************************************************************************)
OwnStage ==
    \/ /\ Posted(commQ, call.req)
       /\ st \notin Busy /\ queue = <<>> /\ call.want = "Ack"
    \/ /\ NoRequest(commQ)
       /\ st \in Busy /\ req = call.req /\ Len(queue) + Seen(call) <= 1
    \/ /\ NoRequest(commQ)
       /\ st \notin Busy /\ Len(queue) + Seen(call) <= 2

OwnInv == RepliesAreOwn /\ (InTime => OwnStage)

UpdateInv == ForgottenInv /\ ClientTypes /\ ServedTypes /\ OwnInv

LEMMA RequestFacts ==
    ASSUME NEW r \in FlashRequests
    PROVE  /\ r.kind \in {"GetBootMode", "SetBootLoader", "FlashMeta", "FlashData"}
           /\ r.seq \in 0 .. Packets
           /\ r.kind # "FlashData" => r.seq = 0
BY FlashFWAssumption DEF FlashRequests, GetMode, SetMode, Meta, Data

LEMMA RequestsSent ==
    /\ {GetMode, SetMode, Meta} \subseteq FlashRequests
    /\ \A n \in 1 .. Packets : Data(n) \in FlashRequests
    /\ NoCall \in [req : FlashRequests, want : {"None", "Ack", "Done"}, tries : Nat]
    /\ NoCall.want = "None"
BY DEF FlashRequests, NoCall

LEMMA BusyAre ==
    Busy = {"ValidateMsg", "WaitForRespFromFlashMgr", "WaitForRespFromI2C",
            "WaitForRespFromSysMgr"}
BY DEF Busy, Waits

\* The request in a queue others are appended to ...
LEMMA PostedAppend ==
    ASSUME NEW q \in Seq(Events), NEW e \in Events, e.sig # "CLI_RECEIVED", NEW r
    PROVE  /\ Posted(q, r) => Posted(Append(q, e), r)
           /\ NoRequest(q) => NoRequest(Append(q, e))
<1>1. ASSUME NEW i \in DOMAIN q, PostedAt(q, r, i)
      PROVE  i \in DOMAIN Append(q, e) /\ PostedAt(Append(q, e), r, i)
  <2>1. i \in 1 .. Len(q) /\ i # Len(q) + 1 /\ i \in DOMAIN Append(q, e)
        /\ Append(q, e)[i] = q[i]
    BY <1>1, AppendPlaced
  <2>2. ASSUME NEW j \in DOMAIN Append(q, e)
        PROVE  Append(q, e)[j].sig = "CLI_RECEIVED" <=> j = i
    <3>1. CASE j = Len(q) + 1
      BY <2>1, <3>1, AppendPlaced
    <3>2. CASE j # Len(q) + 1
      <4>1. j \in DOMAIN q /\ Append(q, e)[j] = q[j]
        BY <3>2, AppendPlaced
      <4>. QED BY <1>1, <4>1 DEF PostedAt
    <3>. QED BY <3>1, <3>2
  <2>. QED BY <1>1, <2>1, <2>2 DEF PostedAt
<1>2. NoRequest(q) => NoRequest(Append(q, e))
  <2>1. \A j \in DOMAIN Append(q, e) :
           \/ j \in DOMAIN q /\ Append(q, e)[j] = q[j]
           \/ Append(q, e)[j] = e
    BY AppendPlaced
  <2>. QED BY <2>1 DEF NoRequest
<1>. QED BY <1>1, <1>2 DEF Posted

\* ... from which the first event is taken ...
LEMMA PostedTail ==
    ASSUME NEW q \in Seq(Events), q # <<>>, NEW r
    PROVE  /\ Head(q).sig # "CLI_RECEIVED" /\ Posted(q, r) => Posted(Tail(q), r)
           /\ NoRequest(q) => NoRequest(Tail(q)) /\ Head(q).sig # "CLI_RECEIVED"
           /\ Head(q).sig = "CLI_RECEIVED" /\ Posted(q, r) =>
                 Head(q).req = r /\ NoRequest(Tail(q))
<1>. USE TailPlaced
<1>0. \A j \in DOMAIN Tail(q) : j \in Nat \ {0} /\ j + 1 \in DOMAIN q
                                /\ Tail(q)[j] = q[j + 1]
  OBVIOUS
<1>1. ASSUME NEW i \in DOMAIN q, PostedAt(q, r, i), Head(q).sig # "CLI_RECEIVED"
      PROVE  i - 1 \in DOMAIN Tail(q) /\ PostedAt(Tail(q), r, i - 1)
  <2>1. i # 1 /\ i \in Nat /\ i - 1 \in DOMAIN Tail(q) /\ Tail(q)[i - 1] = q[i]
    BY <1>1 DEF PostedAt
  <2>2. ASSUME NEW j \in DOMAIN Tail(q)
        PROVE  Tail(q)[j].sig = "CLI_RECEIVED" <=> j = i - 1
    <3>1. q[j + 1].sig = "CLI_RECEIVED" <=> j + 1 = i
      BY <1>0, <1>1 DEF PostedAt
    <3>2. j + 1 = i <=> j = i - 1
      BY <1>0, <2>1
    <3>. QED BY <1>0, <3>1, <3>2
  <2>. QED BY <1>1, <2>1, <2>2 DEF PostedAt
<1>2. NoRequest(q) => NoRequest(Tail(q)) /\ Head(q).sig # "CLI_RECEIVED"
  <2>1. 1 \in DOMAIN q /\ Head(q) = q[1]
    OBVIOUS
  <2>. QED BY <1>0, <2>1 DEF NoRequest
<1>3. ASSUME NEW i \in DOMAIN q, PostedAt(q, r, i), Head(q).sig = "CLI_RECEIVED"
      PROVE  Head(q).req = r /\ NoRequest(Tail(q))
  <2>1. 1 \in DOMAIN q /\ Head(q) = q[1]
    OBVIOUS
  <2>2. i = 1
    BY <1>3, <2>1 DEF PostedAt
  <2>3. \A j \in DOMAIN Tail(q) : j + 1 # 1
    BY <1>0
  <2>. QED BY <1>0, <1>3, <2>1, <2>2, <2>3 DEF PostedAt, NoRequest
<1>. QED BY <1>1, <1>2, <1>3 DEF Posted

\* ... and that it is sent to.
LEMMA RequestIsPosted ==
    ASSUME NEW q \in Seq(Events), NEW r, CliReceived(r) \in Events, NoRequest(q)
    PROVE  Posted(Append(q, CliReceived(r)), r)
<1>. DEFINE e == CliReceived(r)
            a == Append(q, e)
<1>1. e.sig = "CLI_RECEIVED" /\ e.req = r
  BY DEF CliReceived
<1>2. /\ DOMAIN q = 1 .. Len(q) /\ Len(q) \in Nat /\ DOMAIN a = 1 .. Len(q) + 1
      /\ \A i \in 1 .. Len(q) : a[i] = q[i]
      /\ a[Len(q) + 1] = e
  BY AppendPlaced
<1>. HIDE DEF e, a
<1>3. Len(q) + 1 \in DOMAIN a /\ a[Len(q) + 1].req = r
  BY <1>1, <1>2
<1>4. ASSUME NEW j \in DOMAIN a
      PROVE  a[j].sig = "CLI_RECEIVED" <=> j = Len(q) + 1
  <2>1. CASE j = Len(q) + 1
    BY <1>1, <1>2, <2>1
  <2>2. CASE j # Len(q) + 1
    <3>1. j \in DOMAIN q /\ a[j] = q[j]
      BY <1>2, <2>2
    <3>. QED BY <2>2, <3>1 DEF NoRequest
  <2>. QED BY <2>1, <2>2
<1>5. PostedAt(a, r, Len(q) + 1)
  BY <1>3, <1>4 DEF PostedAt
<1>6. Posted(a, r)
  BY <1>3, <1>5 DEF Posted
<1>. QED BY <1>6 DEF a, e

-----------------------------------------------------------------------------
(* What CommMgr does while it serves updates *)

Ends == AnswerHere \/ AnswerUnset \/ FlashReplied \/ TimedOut

LEMMA HandlersOfUpdates ==
    ASSUME ServedTypes, CommStep
    PROVE  Accept \/ Ignore \/ Boot \/ ForwardToFlash \/ FlashHasRun \/ Ends
<1>1. ~IdleSerial
  <2>1. ASSUME IdleSerial PROVE 1 \in DOMAIN commQ /\ commQ[1].sig = "SER_RECEIVED"
    BY <2>1 DEF IdleSerial, Take
  <2>. QED BY <2>1 DEF ServedTypes
<1>2. ASSUME NEW kinds, Process(kinds)
      PROVE  \E k \in kinds : k \in {"GetBootMode", "SetBootLoader", "FlashMeta",
                                     "FlashData"}
  <2>1. req \in FlashRequests /\ req.kind \in kinds
    BY <1>2, BusyAre DEF Process, ServedTypes
  <2>. QED BY <2>1, RequestFacts
<1>3. ~BootAccepted /\ ~BootRefused /\ ~StartBare /\ ~ForwardToI2C /\ ~ForwardToSys
  BY <1>2 DEF BootAccepted, BootRefused, StartBare, ForwardToI2C, ForwardToSys
<1>4. ~I2CReplied /\ ~SysReplied /\ ~FinishBare
  BY DEF I2CReplied, SysReplied, FinishBare, ServedTypes
<1>. QED BY <1>1, <1>3, <1>4 DEF CommStep, Dispatch, Ends

\* A request is taken ...
LEMMA AcceptDoes ==
    ASSUME TypeOK, Accept
    PROVE  /\ commQ \in Seq(Events) /\ commQ # <<>> /\ st = "Idle"
           /\ Head(commQ).sig = "CLI_RECEIVED" /\ Head(commQ).req \in Requests
           /\ commQ' = Append(Tail(commQ), MsgProcess) /\ Tail(commQ) \in Seq(Events)
           /\ MsgProcess \in Events /\ MsgProcess.sig = "MSG_PROCESS"
           /\ st' = "ValidateMsg" /\ req' = Head(commQ).req /\ doing' = "none"
           /\ out' = Ack(req') /\ job = "none" /\ UNCHANGED <<job, open, bootable>>
<1>1. commQ \in Seq(Events) /\ commQ # <<>> /\ Head(commQ).sig = "CLI_RECEIVED"
  BY DEF Accept, Take, TypeOK
<1>2. Head(commQ) \in Events /\ Tail(commQ) \in Seq(Events)
  BY <1>1, TailPlaced
<1>3. Head(commQ).req \in Requests
  BY <1>1, <1>2, EventTypes
<1>4. MsgProcess \in Events /\ MsgProcess.sig = "MSG_PROCESS"
  BY PostedTypes DEF MsgProcess
<1>. QED BY <1>1, <1>2, <1>3, <1>4 DEF Accept, Take, quiet

\* ... and ends with Done, without error if it has no other answer of FlashMgr's.
LEMMA EndDoes ==
    ASSUME TypeOK, ServedTypes, Ends
    PROVE  /\ commQ \in Seq(Events) /\ commQ # <<>> /\ commQ' = Tail(commQ)
           /\ Head(commQ).sig # "CLI_RECEIVED" /\ st \in Busy /\ st' = "Idle"
           /\ doing' = "none" /\ UNCHANGED <<job, open, bootable>> /\ job = "none"
           /\ out'.type = "Done" /\ out'.kind = req.kind
           /\ \/ TimedOut
              \/ req.seq = 0
              \/ FlashAnswer(Head(commQ)) /\ out'.err = Head(commQ).err
              \/ out'.err # "NONE"
<1>1. /\ commQ \in Seq(Events) /\ commQ # <<>> /\ commQ' = Tail(commQ)
      /\ Head(commQ).sig # "CLI_RECEIVED" /\ st \in Busy
      /\ UNCHANGED <<job, open, bootable>> /\ job = "none"
  BY BusyAre DEF Ends, AnswerHere, AnswerUnset, FlashReplied, TimedOut, Process,
     Take, quiet, TypeOK
<1>2. \E p, u : LeaveBusy(p, u)
  BY DEF Ends, AnswerHere, AnswerUnset, FlashReplied, TimedOut
<1>3. st' = "Idle" /\ doing' = "none" /\ out'.type = "Done" /\ out'.kind = req.kind
  BY <1>2 DEF LeaveBusy, Done
<1>4. CASE AnswerHere \/ AnswerUnset
  <2>1. req.kind # "FlashData"
    BY <1>4 DEF AnswerHere, AnswerUnset, Process
  <2>2. req \in FlashRequests
    BY <1>1 DEF ServedTypes
  <2>3. req.seq = 0
    BY <2>1, <2>2, RequestFacts
  <2>. QED BY <1>1, <1>3, <2>3
<1>5. CASE FlashReplied
  <2>1. payload \in {"Status", "RamTest"}
        /\ Head(commQ).sig \in {"FLASH_OP_DONE", "RAM_TEST_DONE"}
    BY <1>5 DEF FlashReplied, ServedTypes, Take
  <2>2. out' = Done(req, Reported(payload, Status(Head(commQ).err)))
    BY <1>5 DEF FlashReplied, LeaveBusy
  <2>3. Reported(payload, Status(Head(commQ).err)) = Head(commQ).err
    <3>1. [union EXCEPT !.word = Head(commQ).err].word = Head(commQ).err
      BY DEF TypeOK
    <3>. QED BY <2>1, <3>1 DEF Reported, Status
  <2>4. out'.err = Head(commQ).err
    BY <2>2, <2>3 DEF Done
  <2>. QED BY <1>1, <1>3, <2>1, <2>4 DEF FlashAnswer
<1>. QED BY <1>1, <1>3, <1>4, <1>5 DEF Ends

\* The other handlers send nothing.
LEMMA OtherHandlersDo ==
    ASSUME ForgottenInv, ServedTypes,
           Ignore \/ Boot \/ ForwardToFlash \/ FlashHasRun
    PROVE  /\ commQ \in Seq(Events) /\ UNCHANGED <<out, req, bootable>>
           /\ \/ commQ' = commQ
              \/ /\ commQ # <<>> /\ commQ' = Tail(commQ)
                 /\ Head(commQ).sig # "CLI_RECEIVED" \/ st \in Busy
           /\ st' \in Busy => st \in Busy
           /\ st \in Busy => st' \in Busy \/ st' = "Booted"
<1>. USE DEF ForgottenInv
<1>1. CASE Ignore
  <2>1. Head(commQ).sig # "CLI_RECEIVED" \/ st # "Idle"
    BY <1>1 DEF Ignore, Handled
  <2>2. st # "Booted"
    BY <1>1 DEF Ignore, Take
  <2>. QED BY <1>1, <2>1, <2>2, BusyAre DEF Ignore, comm, quiet, TypeOK, ServedTypes
<1>2. CASE Boot
  BY <1>2, BusyAre DEF Boot, Take, quiet, TypeOK
<1>3. CASE ForwardToFlash
  BY <1>3, BusyAre DEF ForwardToFlash, Process, Take, TypeOK
<1>4. CASE FlashHasRun
  <2>1. /\ commQ' = commQ /\ UNCHANGED <<out, req, bootable>>
        /\ st' = "WaitForRespFromFlashMgr" /\ st = "ValidateMsg"
    BY <1>4 DEF FlashHasRun, service, EnterWait, NobodyForgotten
  <2>. QED BY <2>1, BusyAre DEF TypeOK, ServedTypes
<1>. QED BY <1>1, <1>2, <1>3, <1>4

-----------------------------------------------------------------------------
(* Types of the update *)

\* The steps of FlashMgr.
LEMMA FlashMgrDoes ==
    ASSUME TypeOK, FlashMgrSteps
    PROVE  /\ UNCHANGED <<st, req, payload, doing, out>> /\ commQ \in Seq(Events)
           /\ job' = job \/ job' = "none"
           /\ \/ commQ' = commQ
              \/ \E e \in Events : /\ e.sig \in {"FLASH_OP_DONE", "RAM_TEST_DONE"}
                                   /\ commQ' = Append(commQ, e)
<1>1. UNCHANGED <<st, req, payload, doing, out>> /\ commQ \in Seq(Events)
  BY DEF FlashMgrSteps, comm, TypeOK
<1>2. /\ job' = job \/ job' = "none"
      /\ \/ commQ' = commQ
         \/ \E e \in Events : /\ e.sig \in {"FLASH_OP_DONE", "RAM_TEST_DONE"}
                              /\ commQ' = Append(commQ, e)
  BY PostedTypes
     DEF FlashMgrSteps, ServiceStep, Unheard, Wipe, Opened, Refused, Vouch, Written,
         Closed, Expired, RamTested, Answer, Outcomes, OpReply, RamReply
<1>. QED BY <1>1, <1>2

LEMMA TimerDoes ==
    ASSUME TypeOK, Timer
    PROVE  /\ UNCHANGED <<st, req, payload, doing, out, job, bootable>>
           /\ commQ \in Seq(Events)
           /\ \E e \in Events : e.sig \in Timers /\ commQ' = Append(commQ, e)
BY PostedTypes DEF Timer, TimerFires, Timers, quiet, TypeOK

\* The steps of the client: it sends a request or leaves the board alone.
LEMMA ClientDoes ==
    ASSUME OnlyUpdates, UpdateInv, ClientStep
    PROVE  \/ UNCHANGED vars
           \/ /\ UNCHANGED <<job, open, bootable, comm, i2c, db, mine, cut>>
              /\ \/ commQ' = commQ
                 \/ \E r \in FlashRequests : /\ CliReceived(r) \in Events
                                             /\ commQ' = Append(commQ, CliReceived(r))
<1>1. \A r \in FlashRequests : CliReceived(r) \in Events
  BY PostedTypes DEF OnlyUpdates
<1>2. ASSUME NEW r \in FlashRequests, NEW n, Send(r, n)
      PROVE  /\ UNCHANGED <<job, open, bootable, comm, i2c, db, mine, cut>>
             /\ \/ commQ' = commQ
                \/ \E s \in FlashRequests : /\ CliReceived(s) \in Events
                                            /\ commQ' = Append(commQ, CliReceived(s))
  BY <1>1, <1>2 DEF Send
<1>3. CASE StartCall
  BY <1>2, <1>3, RequestsSent DEF StartCall
<1>4. CASE WaitTimesOut \/ TakeAck \/ TakeError
  BY <1>4 DEF WaitTimesOut, TakeAck, TakeError
<1>5. CASE Proceed
  <2>1. CASE UNCHANGED vars
    BY <2>1
  <2>2. CASE ~UNCHANGED vars
    <3>1. PICK next, n : Send(next, n) /\ next = Following(Head(queue))
                         /\ call.req.seq < Packets
      BY <1>5, <2>2 DEF Proceed
    <3>2. call.req \in FlashRequests
      BY DEF UpdateInv, ClientTypes
    <3>3. call.req.seq + 1 \in 1 .. Packets
      BY <3>1, <3>2, RequestFacts, FlashFWAssumption
    <3>4. next \in FlashRequests
      BY <3>1, <3>3, RequestsSent DEF Following
    <3>. QED BY <1>2, <3>1, <3>4
  <2>. QED BY <2>1, <2>2
<1>. QED BY <1>3, <1>4, <1>5 DEF ClientStep

LEMMA SentForgetsNobody ==
    ASSUME OnlyUpdates, UpdateInv, ClientStep
    PROVE  ForgottenInv'
<1>. USE DEF UpdateInv, ForgottenInv
<1>1. CASE UNCHANGED vars
  BY <1>1, StepForgetsNobody
<1>2. CASE ~UNCHANGED vars
  <2>1. /\ UNCHANGED <<job, open, bootable, i2c, db, mine, cut>>
        /\ UNCHANGED <<st, req, payload, union, errorCode, armed, doing, out>>
        /\ commQ' = commQ \/ \E e \in Events : commQ' = Append(commQ, e)
    BY <1>2, ClientDoes DEF comm
  <2>2. commQ' \in Seq(Events)
    BY <2>1, AppendPlaced DEF TypeOK
  <2>3. TypeOK'
    BY <2>1, <2>2 DEF TypeOK
  <2>4. Turns'
    BY <2>1, ForgottenParts DEF Turns
  <2>5. NobodyForgotten'
    BY <2>1, <2>4, AppendForgetsNobody
  <2>. QED BY <2>3, <2>5
<1>. QED BY <1>1, <1>2

LEMMA StepForgetsNobodyOfUpdates ==
    ASSUME OnlyUpdates, UpdateInv, [FlashFWNext]_all
    PROVE  ForgottenInv'
<1>1. CASE ClientStep
  BY <1>1, SentForgetsNobody
<1>2. CASE CommRuns \/ FlashRuns \/ TimerRuns \/ UNCHANGED all
  <2>1. [Next]_vars
    BY <1>2 DEF CommRuns, FlashRuns, TimerRuns, Next, all
  <2>. QED BY <2>1, StepForgetsNobody DEF UpdateInv
<1>. QED BY <1>1, <1>2 DEF FlashFWNext

\* Nothing but CLI_RECEIVED_SIG, and what CommMgr and FlashMgr post, is queued.
LEMMA NothingSerial ==
    ASSUME ServedTypes, commQ \in Seq(Events),
           \/ commQ' = commQ
           \/ commQ # <<>> /\ commQ' = Tail(commQ)
           \/ \E e \in Events : /\ e.sig # "SER_RECEIVED"
                                /\ \/ commQ' = Append(commQ, e)
                                   \/ commQ # <<>> /\ commQ' = Append(Tail(commQ), e)
    PROVE  \A i \in DOMAIN commQ' : commQ'[i].sig # "SER_RECEIVED"
<1>1. ASSUME commQ # <<>>
      PROVE  /\ \A i \in DOMAIN Tail(commQ) : Tail(commQ)[i].sig # "SER_RECEIVED"
             /\ Tail(commQ) \in Seq(Events)
  <2>1. \A i \in DOMAIN Tail(commQ) : /\ i + 1 \in DOMAIN commQ
                                      /\ Tail(commQ)[i] = commQ[i + 1]
    BY <1>1, TailPlaced
  <2>. QED BY <1>1, <2>1, TailPlaced DEF ServedTypes
<1>2. ASSUME NEW q \in Seq(Events), NEW e \in Events, e.sig # "SER_RECEIVED",
             \A i \in DOMAIN q : q[i].sig # "SER_RECEIVED"
      PROVE  \A i \in DOMAIN Append(q, e) : Append(q, e)[i].sig # "SER_RECEIVED"
  <2>1. \A i \in DOMAIN Append(q, e) : \/ i \in DOMAIN q /\ Append(q, e)[i] = q[i]
                                       \/ Append(q, e)[i] = e
    BY AppendPlaced
  <2>. QED BY <1>2, <2>1
<1>3. \A i \in DOMAIN commQ : commQ[i].sig # "SER_RECEIVED"
  BY DEF ServedTypes
<1>4. CASE commQ' = commQ
  BY <1>3, <1>4
<1>5. CASE commQ # <<>> /\ commQ' = Tail(commQ)
  BY <1>1, <1>5
<1>6. ASSUME NEW e \in Events, e.sig # "SER_RECEIVED",
             \/ commQ' = Append(commQ, e)
             \/ commQ # <<>> /\ commQ' = Append(Tail(commQ), e)
      PROVE  \A i \in DOMAIN commQ' : commQ'[i].sig # "SER_RECEIVED"
  <2>1. PICK q \in Seq(Events) : commQ' = Append(q, e)
                /\ \A i \in DOMAIN q : q[i].sig # "SER_RECEIVED"
    BY <1>1, <1>3, <1>6
  <2>. QED BY <1>2, <1>6, <2>1
<1>. QED BY <1>4, <1>5, <1>6

LEMMA BoardKeepsServed ==
    ASSUME OnlyUpdates, UpdateInv, CommStep
    PROVE  ServedTypes'
<1>. USE DEF UpdateInv, ForgottenInv
<1>0. /\ st \in {"Idle", "ValidateMsg", "WaitForRespFromFlashMgr", "Booted"}
      /\ doing # "bare" /\ (st \in Busy => req \in FlashRequests)
      /\ doing = "post" \/ st = "WaitForRespFromFlashMgr" =>
            payload \in {"Status", "RamTest"}
      /\ job # "none" => job = JobOf(req.kind)
  BY DEF ServedTypes
<1>1. CASE Accept
  <2>1. req' \in FlashRequests
    BY <1>1, AcceptDoes DEF OnlyUpdates
  <2>2. \A i \in DOMAIN commQ' : commQ'[i].sig # "SER_RECEIVED"
    BY <1>1, AcceptDoes, NothingSerial
  <2>. QED BY <1>1, <2>1, <2>2, AcceptDoes DEF ServedTypes
<1>2. CASE Ends
  <2>1. \A i \in DOMAIN commQ' : commQ'[i].sig # "SER_RECEIVED"
    BY <1>2, EndDoes, NothingSerial
  <2>. QED BY <1>2, <2>1, EndDoes, BusyAre DEF ServedTypes
<1>3. CASE Ignore \/ Boot \/ ForwardToFlash \/ FlashHasRun
  <2>1. \A i \in DOMAIN commQ' : commQ'[i].sig # "SER_RECEIVED"
    BY <1>3, OtherHandlersDo, NothingSerial
  <2>2. req' = req /\ (st' \in Busy => req' \in FlashRequests)
    BY <1>0, <1>3, OtherHandlersDo
  <2>3. /\ st' \in {"Idle", "ValidateMsg", "WaitForRespFromFlashMgr", "Booted"}
        /\ doing' # "bare"
        /\ doing' = "post" \/ st' = "WaitForRespFromFlashMgr" =>
              payload' \in {"Status", "RamTest"}
    <3>1. CASE Ignore
      BY <1>0, <3>1 DEF Ignore, comm
    <3>2. CASE Boot
      BY <1>0, <3>2 DEF Boot, Take
    <3>3. CASE ForwardToFlash
      BY <1>0, <3>3 DEF ForwardToFlash
    <3>4. CASE FlashHasRun
      BY <1>0, <3>4 DEF FlashHasRun, EnterWait
    <3>. QED BY <1>3, <3>1, <3>2, <3>3, <3>4
  <2>4. job' # "none" => job' = JobOf(req'.kind)
    <3>1. CASE Ignore \/ Boot \/ FlashHasRun
      BY <1>0, <2>2, <3>1 DEF Ignore, Boot, FlashHasRun, quiet, service
    <3>2. CASE ForwardToFlash
      BY <2>2, <3>2 DEF ForwardToFlash, Post
    <3>. QED BY <1>3, <3>1, <3>2
  <2>. QED BY <2>1, <2>2, <2>3, <2>4 DEF ServedTypes
<1>. QED BY <1>1, <1>2, <1>3, HandlersOfUpdates

LEMMA StepKeepsServed ==
    ASSUME OnlyUpdates, UpdateInv, [FlashFWNext]_all
    PROVE  ServedTypes'
<1>. USE DEF UpdateInv, ForgottenInv
<1>1. CASE CommRuns
  BY <1>1, BoardKeepsServed DEF CommRuns
<1>2. CASE FlashRuns
  <2>1. \A i \in DOMAIN commQ' : commQ'[i].sig # "SER_RECEIVED"
    BY <1>2, FlashMgrDoes, NothingSerial DEF FlashRuns
  <2>. QED BY <1>2, <2>1, FlashMgrDoes DEF FlashRuns, ServedTypes
<1>3. CASE TimerRuns
  <2>1. \A i \in DOMAIN commQ' : commQ'[i].sig # "SER_RECEIVED"
    BY <1>3, TimerDoes, NothingSerial DEF TimerRuns, Timers
  <2>. QED BY <1>3, <2>1, TimerDoes DEF TimerRuns, ServedTypes
<1>4. CASE UNCHANGED vars
  BY <1>4 DEF vars, service, comm, ServedTypes
<1>5. CASE ClientStep /\ ~UNCHANGED vars
  <2>1. /\ UNCHANGED <<job, open, bootable, st, req, payload, doing, out>>
        /\ commQ' = commQ \/ \E r \in FlashRequests :
                                /\ CliReceived(r) \in Events
                                /\ commQ' = Append(commQ, CliReceived(r))
    BY <1>5, ClientDoes DEF comm
  <2>2. \A r \in FlashRequests : CliReceived(r).sig # "SER_RECEIVED"
    BY DEF CliReceived
  <2>3. \A i \in DOMAIN commQ' : commQ'[i].sig # "SER_RECEIVED"
    BY <2>1, <2>2, NothingSerial DEF TypeOK
  <2>. QED BY <2>1, <2>3 DEF ServedTypes
<1>. QED BY <1>1, <1>2, <1>3, <1>4, <1>5 DEF FlashFWNext, all

LEMMA MessagePlaces ==
    ASSUME NEW q \in Seq(Message)
    PROVE  /\ DOMAIN q = 1 .. Len(q) /\ Len(q) \in Nat
           /\ \A m \in Message :
                 /\ Append(q, m) \in Seq(Message) /\ Len(Append(q, m)) = Len(q) + 1
                 /\ DOMAIN Append(q, m) = 1 .. Len(q) + 1
                 /\ \A i \in 1 .. Len(q) : Append(q, m)[i] = q[i]
                 /\ Append(q, m)[Len(q) + 1] = m
           /\ q # <<>> =>
                 /\ Tail(q) \in Seq(Message) /\ Len(Tail(q)) = Len(q) - 1
                 /\ DOMAIN Tail(q) = 1 .. Len(q) - 1
                 /\ \A i \in 1 .. Len(q) - 1 : Tail(q)[i] = q[i + 1]
                 /\ Head(q) = q[1] /\ Head(q) \in Message /\ Len(q) > 0
BY AppendProperties, HeadTailProperties

\* The message sent in a step is the Ack of the request taken or the Done of
\* the one that ends.
LEMMA MessageSent ==
    ASSUME OnlyUpdates, UpdateInv, CommRuns, queue' # queue
    PROVE  \E m \in Message :
              /\ queue' = Append(queue, m) /\ m.type = out'.type
              /\ m.kind = out'.kind /\ m.err = out'.err
              /\ \/ Accept /\ m.seq = req'.seq
                 \/ Ends /\ m.seq = req.seq
<1>. USE DEF UpdateInv, ForgottenInv
<1>1. CommStep /\ out' # out /\ queue' = Append(queue, Outgoing)
  BY DEF CommRuns
<1>2. Accept \/ Ends
  BY <1>1, HandlersOfUpdates, OtherHandlersDo
<1>3. out' \in [type : {"None", "Ack", "Done"}, kind : Kinds, err : Codes]
  <2>1. TypeOK'
    BY <1>1, StepKeepsTypes DEF Next
  <2>. QED BY <2>1 DEF TypeOK
<1>. DEFINE b == TimedOut /\ payload = "NoMsg"
            s == IF out'.type = "Ack" THEN req'.seq ELSE req.seq
            m == [type |-> out'.type, kind |-> out'.kind, err |-> out'.err,
                  seq |-> s, bare |-> b]
<1>4. queue' = Append(queue, m)
  BY <1>1 DEF Outgoing
<1>5. \/ Accept /\ s = req'.seq /\ out'.type = "Ack" /\ req' \in FlashRequests
      \/ Ends /\ s = req.seq /\ out'.type = "Done" /\ req \in FlashRequests
  <2>1. CASE Accept
    BY <2>1, AcceptDoes DEF Ack, OnlyUpdates
  <2>2. CASE Ends
    BY <2>2, EndDoes DEF ServedTypes
  <2>. QED BY <1>2, <2>1, <2>2
<1>6. b \in BOOLEAN
  OBVIOUS
<1>. HIDE DEF b, s
<1>7. s \in Nat
  BY <1>5, RequestFacts, FlashFWAssumption
<1>8. m \in Message
  BY <1>3, <1>5, <1>6, <1>7 DEF Message
<1>. QED BY <1>4, <1>5, <1>8

LEMMA StepKeepsClientTypes ==
    ASSUME OnlyUpdates, UpdateInv, [FlashFWNext]_all
    PROVE  ClientTypes'
<1>. USE DEF UpdateInv
<1>0. /\ queue \in Seq(Message)
      /\ call \in [req : FlashRequests, want : {"None", "Ack", "Done"}, tries : Nat]
      /\ call.want = "None" <=> call = NoCall
      /\ result = "ok" => call = NoCall
  BY DEF ClientTypes
<1>1. CASE CommRuns
  <2>1. queue' \in Seq(Message)
    BY <1>0, <1>1, MessageSent, MessagePlaces
  <2>. QED BY <1>0, <1>1, <2>1 DEF CommRuns, ClientTypes
<1>2. CASE FlashRuns \/ TimerRuns \/ UNCHANGED all
  BY <1>0, <1>2 DEF FlashRuns, TimerRuns, all, client, ClientTypes
<1>3. CASE StartCall
  <2>1. /\ queue' = queue /\ result' = "none"
        /\ call' = [req |-> GetMode, want |-> "Ack", tries |-> 1]
    BY <1>3 DEF StartCall, Send
  <2>2. call' # NoCall
    BY <2>1, RequestsSent
  <2>. QED BY <1>0, <2>1, <2>2, RequestsSent DEF ClientTypes
<1>4. CASE WaitTimesOut \/ TakeError
  <2>1. queue' \in Seq(Message) /\ call' = NoCall
    BY <1>0, <1>4, MessagePlaces DEF WaitTimesOut, TakeError, Pop, Return
  <2>. QED BY <2>1, RequestsSent DEF ClientTypes
<1>5. CASE TakeAck
  <2>1. queue' \in Seq(Message)
    BY <1>0, <1>5, MessagePlaces DEF TakeAck, Pop
  <2>2. CASE call' = NoCall
    BY <2>1, <2>2, RequestsSent DEF ClientTypes
  <2>3. CASE call' # NoCall
    <3>1. call' = [call EXCEPT !.want = "Done"] /\ result' = result
          /\ call.want = "Ack"
      BY <1>5, <2>3 DEF TakeAck, Return
    <3>. QED BY <1>0, <2>1, <2>3, <3>1 DEF ClientTypes
  <2>. QED BY <2>2, <2>3
<1>6. CASE Proceed
  <2>1. queue' \in Seq(Message)
    BY <1>0, <1>6, MessagePlaces DEF Proceed, Pop
  <2>2. CASE call' = NoCall
    BY <2>1, <2>2, RequestsSent DEF ClientTypes
  <2>3. CASE call' # NoCall
    <3>1. PICK n : /\ call' = [req |-> Following(Head(queue)), want |-> "Ack", tries |-> n]
                   /\ n \in {call.tries, call.tries + 1} /\ call.req.seq < Packets
                   /\ result' = result /\ call.want = "Done"
      BY <1>6, <2>3 DEF Proceed, Send, Return
    <3>2. call.req.seq + 1 \in 1 .. Packets
      BY <1>0, <3>1, RequestFacts, FlashFWAssumption
    <3>3. Following(Head(queue)) \in FlashRequests
      BY <3>2, RequestsSent DEF Following
    <3>4. call # NoCall /\ n \in Nat
      BY <1>0, <3>1
    <3>. QED BY <1>0, <2>1, <2>3, <3>1, <3>3, <3>4 DEF ClientTypes
  <2>. QED BY <2>2, <2>3
<1>. QED BY <1>1, <1>2, <1>3, <1>4, <1>5, <1>6 DEF FlashFWNext, ClientStep

-----------------------------------------------------------------------------
(* The replies a call takes are its own *)

OwnMessages ==
    \A i \in DOMAIN queue :
        queue[i].kind = call.req.kind /\ queue[i].seq = call.req.seq

LEMMA OwnParts ==
    /\ OwnInv <=> (InTime => OwnMessages /\ OwnStage)
    /\ OwnInv' <=> (InTime' => OwnMessages' /\ OwnStage')
BY DEF OwnInv, RepliesAreOwn, InTime, OwnMessages

LEMMA SeenIs == ASSUME NEW c PROVE Seen(c) \in {0, 1} /\ (c.want # "Done" <=> Seen(c) = 0)
BY DEF Seen

\* CommMgr's handlers.
LEMMA BoardKeepsOwn ==
    ASSUME OnlyUpdates, UpdateInv, CommRuns
    PROVE  OwnInv'
<1>. USE DEF UpdateInv, ForgottenInv
<1>. SUFFICES ASSUME InTime' PROVE OwnMessages' /\ OwnStage'
  BY OwnParts
<1>1. /\ CommStep /\ call' = call /\ InTime /\ OwnMessages /\ OwnStage
      /\ queue \in Seq(Message) /\ Seen(call) \in {0, 1}
  BY OwnParts, SeenIs DEF CommRuns, InTime, ClientTypes
<1>2. CASE Accept
  <2>1. ~NoRequest(commQ) /\ st \notin Busy
    BY <1>2, AcceptDoes, PostedTail, BusyAre
  <2>2. Posted(commQ, call.req) /\ queue = <<>> /\ call.want = "Ack"
    BY <1>1, <2>1 DEF OwnStage
  <2>3. NoRequest(Tail(commQ)) /\ Head(commQ).req = call.req
    BY <1>2, <2>2, AcceptDoes, PostedTail
  <2>4. NoRequest(commQ') /\ st' \in Busy /\ req' = call'.req
    BY <1>1, <1>2, <2>3, AcceptDoes, PostedAppend, BusyAre
  <2>5. /\ Len(queue') + Seen(call') <= 1
        /\ OwnMessages'
    <3>1. Len(queue) = 0 /\ Seen(call') = 0
      BY <1>1, <2>2 DEF Seen
    <3>2. CASE queue' = queue
      BY <1>1, <3>1, <3>2 DEF OwnMessages
    <3>3. CASE queue' # queue
      <4>1. ~Ends
        BY <1>2, <2>1, EndDoes
      <4>2. PICK m \in Message : /\ queue' = Append(queue, m) /\ m.kind = out'.kind
                                 /\ m.seq = req'.seq
        BY <3>3, <4>1, MessageSent
      <4>3. out'.kind = req'.kind
        BY <1>2, AcceptDoes DEF Ack
      <4>. QED BY <1>1, <2>4, <3>1, <4>2, <4>3, MessagePlaces DEF OwnMessages
    <3>. QED BY <3>2, <3>3
  <2>. QED BY <2>4, <2>5 DEF OwnStage
<1>3. CASE Ends
  <2>1. NoRequest(commQ) /\ req = call.req /\ Len(queue) + Seen(call) <= 1
    BY <1>1, <1>3, EndDoes DEF OwnStage
  <2>2. NoRequest(commQ') /\ st' \notin Busy
    BY <1>3, <2>1, EndDoes, PostedTail, BusyAre
  <2>3. /\ Len(queue') + Seen(call') <= 2
        /\ OwnMessages'
    <3>1. CASE queue' = queue
      BY <1>1, <2>1, <3>1, MessagePlaces DEF OwnMessages
    <3>2. CASE queue' # queue
      <4>1. ~Accept
        BY <1>3, EndDoes DEF Accept, Take
      <4>2. PICK m \in Message : /\ queue' = Append(queue, m) /\ m.kind = out'.kind
                                 /\ m.seq = req.seq
        BY <3>2, <4>1, MessageSent
      <4>3. out'.kind = req.kind
        BY <1>3, EndDoes
      <4>4. /\ Len(queue') = Len(queue) + 1 /\ Len(queue) \in Nat
            /\ DOMAIN queue' = 1 .. Len(queue) + 1 /\ DOMAIN queue = 1 .. Len(queue)
            /\ \A i \in 1 .. Len(queue) : queue'[i] = queue[i]
            /\ queue'[Len(queue) + 1] = m
        BY <1>1, <4>2, MessagePlaces
      <4>. QED BY <1>1, <2>1, <4>2, <4>3, <4>4 DEF OwnMessages
    <3>. QED BY <3>1, <3>2
  <2>. QED BY <2>2, <2>3 DEF OwnStage
<1>4. CASE Ignore \/ Boot \/ ForwardToFlash \/ FlashHasRun
  <2>1. queue' = queue /\ UNCHANGED req
    BY <1>4, OtherHandlersDo DEF CommRuns
  <2>2. NoRequest(commQ) => NoRequest(commQ')
    BY <1>4, OtherHandlersDo, PostedTail
  <2>3. Posted(commQ, call.req) /\ st \notin Busy => Posted(commQ', call.req)
    BY <1>4, OtherHandlersDo, PostedTail
  <2>4. OwnStage'
    <3>1. CASE st \in Busy
      <4>1. st' \in Busy \/ st' = "Booted"
        BY <1>4, <3>1, OtherHandlersDo
      <4>2. NoRequest(commQ') /\ req' = call'.req /\ Len(queue') + Seen(call') <= 1
        BY <1>1, <2>1, <2>2, <3>1 DEF OwnStage
      <4>3. Len(queue') + Seen(call') <= 2
        BY <1>1, <2>1, <4>2, MessagePlaces
      <4>4. st' \in Busy \/ st' \notin Busy
        OBVIOUS
      <4>. QED BY <4>2, <4>3, <4>4 DEF OwnStage
    <3>2. CASE st \notin Busy
      <4>1. st' \notin Busy
        BY <1>4, <3>2, OtherHandlersDo
      <4>. QED BY <1>1, <2>1, <2>2, <2>3, <3>2, <4>1 DEF OwnStage
    <3>. QED BY <3>1, <3>2
  <2>. QED BY <1>1, <2>1, <2>4 DEF OwnMessages
<1>. QED BY <1>1, <1>2, <1>3, <1>4, HandlersOfUpdates

\* FlashMgr and the timers.
LEMMA ArrivalsKeepOwn ==
    ASSUME UpdateInv, FlashRuns \/ TimerRuns \/ UNCHANGED all
    PROVE  OwnInv'
<1>. USE DEF UpdateInv, ForgottenInv
<1>1. UNCHANGED <<st, req, call, queue, fresh>> /\ commQ \in Seq(Events)
  BY FlashMgrDoes, TimerDoes
     DEF FlashRuns, TimerRuns, all, client, vars, comm, TypeOK
<1>2. \/ commQ' = commQ
      \/ \E e \in Events : e.sig # "CLI_RECEIVED" /\ commQ' = Append(commQ, e)
  BY FlashMgrDoes, TimerDoes
     DEF FlashRuns, TimerRuns, all, vars, service, Timers
<1>3. /\ NoRequest(commQ) => NoRequest(commQ')
      /\ Posted(commQ, call.req) => Posted(commQ', call.req)
  BY <1>1, <1>2, PostedAppend
<1>4. OwnStage => OwnStage'
  BY <1>1, <1>3 DEF OwnStage
<1>. QED BY <1>1, <1>4, OwnParts DEF InTime, OwnMessages

\* The second message of a call in time finds the request over.
LEMMA ProceedFinds ==
    ASSUME UpdateInv, Proceed, InTime
    PROVE  /\ NoRequest(commQ) /\ st \notin Busy /\ queue' = <<>>
           /\ 1 \in DOMAIN queue /\ Head(queue) = queue[1] /\ Seen(call) = 1
<1>1. OwnStage /\ Seen(call) = 1 /\ queue # <<>> /\ queue' = Tail(queue)
      /\ queue \in Seq(Message) /\ call.want = "Done"
  BY OwnParts DEF UpdateInv, Seen, Proceed, Pop, ClientTypes
<1>2. /\ Len(queue) \in Nat /\ Len(queue) > 0 /\ Len(queue') = Len(queue) - 1
      /\ queue' \in Seq(Message) /\ DOMAIN queue = 1 .. Len(queue)
      /\ Head(queue) = queue[1]
  BY <1>1, MessagePlaces
<1>3. NoRequest(commQ) /\ st \notin Busy /\ Len(queue) + 1 <= 2
  BY <1>1, <1>2 DEF OwnStage
<1>4. queue' = <<>>
  <2>1. Len(queue') = 0
    BY <1>2, <1>3
  <2>. QED BY <1>2, <2>1
<1>. QED BY <1>1, <1>2, <1>3, <1>4

\* The client.
LEMMA ClientKeepsOwn ==
    ASSUME OnlyUpdates, UpdateInv, ClientStep
    PROVE  OwnInv'
<1>. USE DEF UpdateInv, ForgottenInv
<1>. SUFFICES ASSUME InTime' PROVE OwnMessages' /\ OwnStage'
  BY OwnParts
<1>0. /\ queue \in Seq(Message) /\ commQ \in Seq(Events) /\ call.req \in FlashRequests
      /\ call.want = "None" <=> call = NoCall
  BY DEF ClientTypes, TypeOK
<1>1. ASSUME NEW r \in FlashRequests, NEW n, Send(r, n), queue' = <<>>,
             NoRequest(commQ), st \notin Busy
      PROVE  OwnMessages' /\ OwnStage'
  <2>1. call'.req = r /\ call'.want = "Ack" /\ UNCHANGED st
    BY <1>1 DEF Send, comm
  <2>2. NoRequest(commQ') \/ Posted(commQ', r)
    <3>1. CliReceived(r) \in Events
      BY PostedTypes DEF OnlyUpdates
    <3>2. commQ' = commQ \/ commQ' = Append(commQ, CliReceived(r))
      BY <1>1 DEF Send
    <3>. QED BY <1>0, <1>1, <3>1, <3>2, RequestIsPosted
  <2>3. Len(queue') + Seen(call') <= 2
    <3>1. Len(queue') = 0 /\ Seen(call') = 0
      BY <1>1, <2>1 DEF Seen
    <3>. QED BY <3>1
  <2>4. OwnMessages'
    BY <1>1 DEF OwnMessages
  <2>. QED BY <1>1, <2>1, <2>2, <2>3, <2>4 DEF OwnStage
<1>2. CASE StartCall
  <2>1. Idle /\ queue' = <<>> /\ Send(GetMode, 1)
    BY <1>2 DEF StartCall, InTime, Idle
  <2>2. NoRequest(commQ) /\ st \notin Busy
    BY <2>1, BusyAre DEF Idle, NoRequest
  <2>. QED BY <1>1, <2>1, <2>2, RequestsSent
<1>3. CASE WaitTimesOut \/ TakeError
  BY <1>3 DEF WaitTimesOut, TakeError, Return, InTime
<1>4. CASE TakeAck
  <2>1. /\ call' = [call EXCEPT !.want = "Done"] /\ call.want = "Ack"
        /\ queue # <<>> /\ queue' = Tail(queue) /\ UNCHANGED vars /\ fresh' = fresh
    BY <1>4 DEF TakeAck, Pop, Return, InTime
  <2>2. call'.req = call.req /\ Seen(call) = 0 /\ Seen(call') = 1 /\ call # NoCall
    BY <1>0, <2>1 DEF ClientTypes, Seen
  <2>3. OwnMessages /\ OwnStage
    BY <2>1, <2>2, OwnParts DEF InTime
  <2>4. /\ Len(queue') = Len(queue) - 1 /\ Len(queue) \in Nat
        /\ \A i \in DOMAIN queue' : i + 1 \in DOMAIN queue /\ queue'[i] = queue[i + 1]
    BY <1>0, <2>1, MessagePlaces
  <2>5. OwnMessages'
    BY <2>2, <2>3, <2>4 DEF OwnMessages
  <2>6. UNCHANGED <<commQ, st, req>>
    BY <2>1 DEF vars, service, comm
  <2>7. NoRequest(commQ) /\ \/ st \in Busy /\ req = call.req /\ Len(queue) + 0 <= 1
                            \/ st \notin Busy /\ Len(queue) + 0 <= 2
    BY <2>1, <2>2, <2>3 DEF OwnStage
  <2>8. /\ Len(queue) + 0 <= 1 => Len(queue') + Seen(call') <= 1
        /\ Len(queue) + 0 <= 2 => Len(queue') + Seen(call') <= 2
    BY <2>2, <2>4
  <2>. QED BY <2>2, <2>5, <2>6, <2>7, <2>8 DEF OwnStage
<1>5. CASE Proceed
  <2>1. PICK n : /\ Send(Following(Head(queue)), n) /\ call.req.seq < Packets
                 /\ call.want = "Done" /\ queue # <<>> /\ queue' = Tail(queue)
                 /\ fresh' = fresh
    BY <1>5 DEF Proceed, Pop, Return, InTime
  <2>2. Following(Head(queue)) \in FlashRequests
    <3>1. call.req.seq + 1 \in 1 .. Packets
      BY <1>0, <2>1, RequestFacts, FlashFWAssumption
    <3>. QED BY <3>1, RequestsSent DEF Following
  <2>3. InTime
    BY <1>0, <2>1 DEF InTime
  <2>. QED BY <1>1, <1>5, <2>1, <2>2, <2>3, ProceedFinds
<1>. QED BY <1>2, <1>3, <1>4, <1>5 DEF ClientStep

LEMMA StepKeepsUpdate ==
    ASSUME OnlyUpdates
    PROVE  UpdateInv /\ [FlashFWNext]_all => UpdateInv'
<1>. SUFFICES ASSUME UpdateInv, [FlashFWNext]_all PROVE UpdateInv'
  OBVIOUS
<1>1. ForgottenInv' /\ ServedTypes' /\ ClientTypes'
  BY StepForgetsNobodyOfUpdates, StepKeepsServed, StepKeepsClientTypes
<1>2. OwnInv'
  BY BoardKeepsOwn, ArrivalsKeepOwn, ClientKeepsOwn DEF FlashFWNext
<1>. QED BY <1>1, <1>2 DEF UpdateInv

LEMMA InitiallyUpdate == FlashFWInit => UpdateInv
<1>. SUFFICES ASSUME FlashFWInit PROVE UpdateInv
  OBVIOUS
<1>1. Init /\ call = NoCall /\ queue = <<>> /\ result = "none"
  BY DEF FlashFWInit
<1>2. ForgottenInv
  <2>1. NobodyForgotten
    BY <1>1, WaitsAre DEF Init, ServiceInit, NobodyForgotten
  <2>. QED BY <1>1, <2>1, InitiallyTyped DEF ForgottenInv
<1>3. ClientTypes
  BY <1>1, RequestsSent DEF ClientTypes
<1>4. ServedTypes
  BY <1>1, BusyAre DEF Init, ServiceInit, ServedTypes
<1>5. OwnInv
  BY <1>1, OwnParts DEF InTime
<1>. QED BY <1>2, <1>3, <1>4, <1>5 DEF UpdateInv

(***************************************************************************)
(* DC3_flashFW compares no reply with its request, and takes none of       *)
(* another request for all that if nothing of an earlier call was left     *)
(* when it started: for images of any number of packets, any number of     *)
(* calls, and whichever messages are lost and waits time out.              *)
(***************************************************************************)
THEOREM RepliesAreItsOwn ==
    ASSUME OnlyUpdates PROVE FlashFWSpec => []RepliesAreOwn
<1>1. FlashFWInit => UpdateInv
  BY InitiallyUpdate
<1>2. UpdateInv /\ [FlashFWNext]_all => UpdateInv'
  BY StepKeepsUpdate
<1>3. UpdateInv => RepliesAreOwn
  BY DEF UpdateInv, OwnInv
<1>. QED BY <1>1, <1>2, <1>3, PTL DEF FlashFWSpec

-----------------------------------------------------------------------------
(* A call that returns without error has updated the board *)

\* No answer of FlashMgr's is queued behind a request.
NoneBehind(q) ==
    \A i, j \in DOMAIN q : q[i].sig = "CLI_RECEIVED" /\ i < j => ~FlashAnswer(q[j])

\* "No error" to the last packet, b being what it says.
RightAnswers(q, r, b) ==
    \A i \in DOMAIN q :
        FlashAnswer(q[i]) /\ q[i].err = "NONE" /\ r.seq = Packets => b
RightMessages(q, c, b) ==
    \A i \in DOMAIN q :
        /\ i + Seen(c) = 2 => q[i].type = "Done"
        /\ q[i].type = "Done" /\ q[i].err = "NONE" /\ q[i].seq = Packets => b

(***************************************************************************)
(* As long as no timer of the board interferes, every answer FlashMgr has  *)
(* given since the request was taken is the answer to it, the second       *)
(* message of the two is a Done, and what says that the last packet was    *)
(* written is true.                                                        *)
(***************************************************************************)
Truth ==
    /\ NoneBehind(commQ)
    /\ st = "ValidateMsg" /\ doing = "none" => NoAnswer(commQ)
    /\ job # "none" => NoAnswer(commQ)
    /\ st \in Busy => RightAnswers(commQ, req, bootable)
    /\ RightMessages(queue, call, bootable)

Stored == bootable /\ st \notin Busy /\ NoRequest(commQ)

ResultInv ==
    /\ UpdateInv
    /\ ~upset /\ InTime => Truth
    /\ ~upset /\ fresh /\ result = "ok" => Stored

LEMMA TailKeepsTruth ==
    ASSUME NEW q \in Seq(Events), q # <<>>, NEW r, NEW b
    PROVE  /\ NoneBehind(q) => NoneBehind(Tail(q))
           /\ NoAnswer(q) => NoAnswer(Tail(q))
           /\ RightAnswers(q, r, b) => RightAnswers(Tail(q), r, b)
           /\ NoneBehind(q) /\ Head(q).sig = "CLI_RECEIVED" => NoAnswer(Tail(q))
<1>1. \A i \in DOMAIN Tail(q) : i \in Nat \ {0} /\ i + 1 \in DOMAIN q
                                /\ Tail(q)[i] = q[i + 1]
  BY TailPlaced
<1>2. 1 \in DOMAIN q /\ Head(q) = q[1]
  BY TailPlaced
<1>3. ASSUME NoneBehind(q), NEW i \in DOMAIN Tail(q), NEW j \in DOMAIN Tail(q),
             Tail(q)[i].sig = "CLI_RECEIVED", i < j
      PROVE  ~FlashAnswer(Tail(q)[j])
  <2>1. i + 1 < j + 1
    BY <1>1, <1>3
  <2>. QED BY <1>1, <1>3, <2>1 DEF NoneBehind
<1>4. ASSUME NoneBehind(q), Head(q).sig = "CLI_RECEIVED", NEW j \in DOMAIN Tail(q)
      PROVE  ~FlashAnswer(Tail(q)[j])
  <2>1. 1 < j + 1
    BY <1>1
  <2>. QED BY <1>1, <1>2, <1>4, <2>1 DEF NoneBehind
<1>5. /\ NoAnswer(q) => NoAnswer(Tail(q))
      /\ RightAnswers(q, r, b) => RightAnswers(Tail(q), r, b)
  BY <1>1 DEF NoAnswer, RightAnswers
<1>. QED BY <1>3, <1>4, <1>5 DEF NoneBehind, NoAnswer

LEMMA AppendKeepsTruth ==
    ASSUME NEW q \in Seq(Events), NEW e \in Events, NEW r, NEW b
    PROVE  /\ ~FlashAnswer(e) =>
                 /\ NoneBehind(q) => NoneBehind(Append(q, e))
                 /\ NoAnswer(q) => NoAnswer(Append(q, e))
                 /\ RightAnswers(q, r, b) => RightAnswers(Append(q, e), r, b)
           /\ NoAnswer(q) /\ (e.err = "NONE" /\ r.seq = Packets => b) =>
                 RightAnswers(Append(q, e), r, b)
<1>1. \A i \in DOMAIN Append(q, e) :
         /\ i \in Nat
         /\ \/ i \in DOMAIN q /\ Append(q, e)[i] = q[i] /\ i < Len(q) + 1
            \/ i = Len(q) + 1 /\ Append(q, e)[i] = e
  BY AppendPlaced
<1>2. ASSUME ~FlashAnswer(e), NoneBehind(q),
             NEW i \in DOMAIN Append(q, e), NEW j \in DOMAIN Append(q, e),
             Append(q, e)[i].sig = "CLI_RECEIVED", i < j
      PROVE  ~FlashAnswer(Append(q, e)[j])
  <2>1. CASE Append(q, e)[j] = e
    BY <1>2, <2>1
  <2>2. CASE Append(q, e)[j] # e
    <3>1. j \in DOMAIN q /\ Append(q, e)[j] = q[j] /\ j < Len(q) + 1
      BY <1>1, <2>2
    <3>2. i # Len(q) + 1
      BY <1>1, <1>2, <3>1
    <3>3. i \in DOMAIN q /\ Append(q, e)[i] = q[i]
      BY <1>1, <3>2
    <3>. QED BY <1>2, <3>1, <3>3 DEF NoneBehind
  <2>. QED BY <2>1, <2>2
<1>3. /\ ~FlashAnswer(e) =>
            /\ NoAnswer(q) => NoAnswer(Append(q, e))
            /\ RightAnswers(q, r, b) => RightAnswers(Append(q, e), r, b)
      /\ NoAnswer(q) /\ (e.err = "NONE" /\ r.seq = Packets => b) =>
            RightAnswers(Append(q, e), r, b)
  BY <1>1 DEF NoAnswer, RightAnswers
<1>. QED BY <1>2, <1>3 DEF NoneBehind

\* Without answers, or without a request, there is nothing to say.
LEMMA NothingToSay ==
    ASSUME NEW q, NEW r, NEW b
    PROVE  /\ NoAnswer(q) => NoneBehind(q) /\ RightAnswers(q, r, b)
           /\ NoRequest(q) => NoneBehind(q)
BY DEF NoAnswer, NoneBehind, RightAnswers, NoRequest

LEMMA SentIsBehind ==
    ASSUME NEW q \in Seq(Events), NEW r, CliReceived(r) \in Events, NoRequest(q)
    PROVE  NoneBehind(Append(q, CliReceived(r)))
<1>1. ~FlashAnswer(CliReceived(r))
  BY DEF CliReceived, FlashAnswer
<1>. QED BY <1>1, NothingToSay, AppendKeepsTruth

\* CommMgr's handlers.
LEMMA BoardKeepsTruth ==
    ASSUME OnlyUpdates, ResultInv, CommRuns, ~upset', InTime
    PROVE  Truth'
<1>. USE DEF UpdateInv, ForgottenInv
<1>1. /\ UpdateInv /\ Truth /\ OwnStage /\ CommStep /\ ~TimedOut
      /\ UNCHANGED <<call, fresh>> /\ queue \in Seq(Message)
      /\ commQ \in Seq(Events)
  BY OwnParts DEF ResultInv, CommRuns, ClientTypes, TypeOK
<1>2. CASE Accept
  <2>1. ~NoRequest(commQ) /\ st \notin Busy
    BY <1>1, <1>2, AcceptDoes, PostedTail, BusyAre
  <2>2. queue = <<>> /\ call.want = "Ack"
    BY <1>1, <2>1 DEF OwnStage
  <2>3. NoAnswer(commQ')
    <3>1. NoAnswer(Tail(commQ))
      BY <1>1, <1>2, AcceptDoes, TailKeepsTruth DEF Truth
    <3>2. ~FlashAnswer(MsgProcess)
      BY DEF MsgProcess, FlashAnswer
    <3>. QED BY <1>1, <1>2, <3>1, <3>2, AcceptDoes, AppendKeepsTruth
  <2>4. RightMessages(queue', call', bootable')
    <3>1. Seen(call') = 0 /\ Len(queue) = 0
      BY <1>1, <2>2 DEF Seen
    <3>2. CASE queue' = queue
      BY <2>2, <3>2 DEF RightMessages
    <3>3. CASE queue' # queue
      <4>1. PICK m \in Message : queue' = Append(queue, m) /\ m.type = out'.type
        BY <3>3, <1>1, MessageSent
      <4>2. m.type # "Done"
        BY <1>1, <1>2, <4>1, AcceptDoes DEF Ack
      <4>3. DOMAIN queue' = 1 .. 1 /\ queue'[1] = m
        BY <1>1, <3>1, <4>1, MessagePlaces
      <4>. QED BY <3>1, <4>2, <4>3 DEF RightMessages
    <3>. QED BY <3>2, <3>3
  <2>. QED BY <2>3, <2>4, NothingToSay DEF Truth
<1>3. CASE Ends
  <2>1. NoRequest(commQ) /\ st \in Busy /\ req = call.req /\ req \in FlashRequests
        /\ commQ' = Tail(commQ) /\ commQ # <<>>
    BY <1>1, <1>3, EndDoes DEF OwnStage, ServedTypes
  <2>2. NoneBehind(commQ')
    BY <1>1, <2>1, PostedTail, NothingToSay
  <2>3. st' = "Idle" /\ job' = "none" /\ bootable' = bootable
    BY <1>1, <1>3, EndDoes
  <2>4. out'.err = "NONE" /\ req.seq = Packets => bootable
    <3>1. Packets # 0
      BY FlashFWAssumption
    <3>2. FlashAnswer(Head(commQ)) /\ Head(commQ).err = "NONE" /\ req.seq = Packets
             => bootable
      <4>1. 1 \in DOMAIN commQ /\ Head(commQ) = commQ[1]
        BY <1>1, <2>1, TailPlaced
      <4>. QED BY <1>1, <2>1, <4>1 DEF Truth, RightAnswers
    <3>. QED BY <1>1, <1>3, <3>1, <3>2, EndDoes
  <2>5. RightMessages(queue', call', bootable')
    <3>1. CASE queue' = queue
      BY <1>1, <2>3, <3>1 DEF Truth
    <3>2. CASE queue' # queue
      <4>1. ~Accept
        BY <1>1, <1>3, EndDoes, BusyAre DEF Accept
      <4>2. PICK m \in Message : /\ queue' = Append(queue, m) /\ m.type = out'.type
                                 /\ m.err = out'.err /\ m.seq = req.seq
        BY <3>2, <4>1, MessageSent, <1>1
      <4>3. m.type = "Done"
        BY <1>1, <1>3, <4>2, EndDoes
      <4>4. \A i \in DOMAIN queue' : \/ i \in DOMAIN queue /\ queue'[i] = queue[i]
                                     \/ queue'[i] = m
        BY <1>1, <4>2, MessagePlaces
      <4>5. RightMessages(queue, call, bootable)
        BY <1>1 DEF Truth
      <4>. QED BY <1>1, <2>3, <2>4, <4>2, <4>3, <4>4, <4>5 DEF RightMessages
    <3>. QED BY <3>1, <3>2
  <2>. QED BY <2>2, <2>3, <2>5, BusyAre DEF Truth
<1>4. CASE Ignore \/ Boot \/ ForwardToFlash \/ FlashHasRun
  <2>1. queue' = queue /\ UNCHANGED <<req, bootable>>
        /\ (commQ' = commQ \/ (commQ # <<>> /\ commQ' = Tail(commQ)))
        /\ (st' \in Busy => st \in Busy)
    BY <1>1, <1>4, OtherHandlersDo DEF CommRuns
  <2>2. /\ NoneBehind(commQ') /\ (NoAnswer(commQ) => NoAnswer(commQ'))
        /\ RightAnswers(commQ, req, bootable) => RightAnswers(commQ', req, bootable)
    BY <1>1, <2>1, TailKeepsTruth DEF Truth
  <2>3. /\ st' = "ValidateMsg" /\ doing' = "none" => NoAnswer(commQ')
        /\ job' # "none" => NoAnswer(commQ')
    <3>1. CASE Ignore
      BY <1>1, <2>2, <3>1 DEF Ignore, comm, quiet, Truth
    <3>2. CASE Boot
      BY <3>2 DEF Boot, Take, quiet
    <3>3. CASE ForwardToFlash
      BY <1>1, <2>2, <3>3 DEF ForwardToFlash, Process, Take, Truth
    <3>4. CASE FlashHasRun
      BY <3>4 DEF FlashHasRun, EnterWait, service
    <3>. QED BY <1>4, <3>1, <3>2, <3>3, <3>4
  <2>. QED BY <1>1, <2>1, <2>2, <2>3 DEF Truth
<1>. QED BY <1>1, <1>2, <1>3, <1>4, HandlersOfUpdates

\* FlashMgr answers "no error" to the last packet only if the image is there,
\* unless its session timer interfered.
LEMMA FlashAnswers ==
    ASSUME TypeOK, FlashRuns, ~upset'
    PROVE  /\ ~upset
           /\ \/ /\ commQ' = commQ
                 /\ bootable /\ ~bootable' => job = "start"
              \/ /\ job = "none" /\ bootable' = bootable
                 /\ commQ' = Append(commQ, OpReply("EXPIRED"))
              \/ /\ job # "none" /\ job' = "none" /\ bootable' = bootable
                 /\ \E err \in Outcomes \cup {"EXPIRED"} :
                       /\ commQ' = Append(commQ, OpReply(err))
                       /\ \/ err # "NONE" \/ bootable \/ job = "start"
                          \/ req.seq # Packets
<1>1. Expects /\ commQ \in Seq(Events)
  BY DEF FlashRuns, TypeOK
<1>2. CASE Opened /\ due' = 1 /\ UNCHANGED upset
  BY <1>2 DEF Opened, Answer, Outcomes
<1>3. CASE Vouch /\ req.seq = due /\ due = Packets /\ UNCHANGED <<due, upset>>
  BY <1>3 DEF Vouch
<1>4. CASE /\ Written /\ req.seq = due /\ due < Packets /\ due' = due + 1
           /\ UNCHANGED upset
  <2>1. req.seq # Packets
    BY <1>4, FlashFWAssumption
  <2>. QED BY <1>4, <2>1 DEF Written, Answer, Outcomes
<1>5. CASE /\ Closed \/ Refused
           /\ upset' = (upset \/ (commQ'[Len(commQ')].err = "NONE" /\ ~ bootable))
  <2>1. ~upset /\ ~(commQ'[Len(commQ')].err = "NONE" /\ ~ bootable)
    BY <1>5
  <2>2. PICK err \in Outcomes \cup {"EXPIRED"} :
           /\ commQ' = Append(commQ, OpReply(err)) /\ job # "none" /\ job' = "none"
           /\ bootable' = bootable
    BY <1>5 DEF Closed, Refused, Answer
  <2>3. commQ'[Len(commQ')].err = err
    <3>1. OpReply(err) \in Events
      BY <2>2, PostedTypes DEF Outcomes
    <3>2. commQ'[Len(commQ')] = OpReply(err)
      BY <1>1, <2>2, <3>1, AppendPlaced
    <3>. QED BY <3>2 DEF OpReply
  <2>. QED BY <2>1, <2>2, <2>3
<1>6. CASE Expired /\ due' = 0 /\ UNCHANGED upset
  BY <1>6 DEF Expired
<1>7. CASE (Unheard \/ Wipe) /\ UNCHANGED <<due, upset>>
  BY <1>7 DEF Unheard, Wipe
<1>. QED BY <1>1, <1>2, <1>3, <1>4, <1>5, <1>6, <1>7 DEF Expects

\* FlashMgr.
LEMMA FlashKeepsTruth ==
    ASSUME OnlyUpdates, ResultInv, FlashRuns, ~upset', InTime
    PROVE  Truth'
<1>1. /\ TypeOK /\ ServedTypes /\ Truth /\ OwnStage /\ OwnMessages
      /\ (doing = "post" \/ job = "none") /\ (doing # "none" => st = "ValidateMsg")
      /\ commQ \in Seq(Events) /\ ~upset
  BY OwnParts, FlashAnswers
     DEF ResultInv, UpdateInv, ForgottenInv, NobodyForgotten, TypeOK
<1>2. /\ UNCHANGED <<st, req, doing, queue, call>> /\ (job' = job \/ job' = "none")
  BY <1>1, FlashMgrDoes DEF FlashRuns, client
<1>3. ASSUME job # "none"
      PROVE  /\ st = "ValidateMsg" /\ doing = "post" /\ NoRequest(commQ)
             /\ NoAnswer(commQ) /\ req = call.req
             /\ job = "start" => req.seq # Packets
  <2>1. st = "ValidateMsg" /\ doing = "post" /\ st \in Busy
    BY <1>1, <1>3, BusyAre
  <2>2. NoRequest(commQ) /\ req = call.req /\ NoAnswer(commQ)
    BY <1>1, <1>3, <2>1 DEF OwnStage, Truth
  <2>3. job = "start" => req.seq # Packets
    <3>1. job = "start" => req.kind # "FlashData"
      BY <1>1, <1>3 DEF ServedTypes, JobOf
    <3>2. req \in FlashRequests
      BY <1>1, <2>1 DEF ServedTypes
    <3>. QED BY <3>1, <3>2, RequestFacts, FlashFWAssumption
  <2>. QED BY <2>1, <2>2, <2>3
<1>4. CASE commQ' = commQ /\ (bootable /\ ~bootable' => job = "start")
  <2>1. CASE bootable => bootable'
    <3>1. RightAnswers(commQ, req, bootable) => RightAnswers(commQ, req, bootable')
      BY <2>1 DEF RightAnswers
    <3>2. RightMessages(queue, call, bootable) => RightMessages(queue, call, bootable')
      BY <2>1 DEF RightMessages
    <3>. QED BY <1>1, <1>2, <1>4, <3>1, <3>2 DEF Truth
  <2>2. CASE ~(bootable => bootable')
    <3>1. job = "start"
      BY <1>4, <2>2
    <3>2. NoAnswer(commQ) /\ call.req.seq # Packets
      BY <1>3, <3>1
    <3>3. RightMessages(queue, call, bootable')
      BY <1>1, <3>2 DEF Truth, RightMessages, OwnMessages
    <3>. QED BY <1>2, <1>4, <3>2, <3>3, NothingToSay DEF Truth
  <2>. QED BY <2>1, <2>2
<1>5. CASE /\ job = "none" /\ bootable' = bootable
           /\ commQ' = Append(commQ, OpReply("EXPIRED"))
  <2>1. OpReply("EXPIRED") \in Events /\ ~FlashAnswer(OpReply("EXPIRED"))
    BY PostedTypes DEF OpReply, FlashAnswer
  <2>2. /\ NoneBehind(commQ) => NoneBehind(commQ')
        /\ NoAnswer(commQ) => NoAnswer(commQ')
        /\ RightAnswers(commQ, req, bootable) => RightAnswers(commQ', req, bootable)
    BY <1>1, <1>5, <2>1, AppendKeepsTruth
  <2>. QED BY <1>1, <1>2, <1>5, <2>2 DEF Truth
<1>6. ASSUME job # "none", job' = "none", bootable' = bootable,
             NEW err \in Outcomes \cup {"EXPIRED"},
             commQ' = Append(commQ, OpReply(err)),
             err # "NONE" \/ bootable \/ job = "start" \/ req.seq # Packets
      PROVE  Truth'
  <2>1. OpReply(err) \in Events /\ OpReply(err).err = err
        /\ OpReply(err).sig = "FLASH_OP_DONE"
    BY PostedTypes DEF OpReply, Outcomes
  <2>2. RightAnswers(commQ', req, bootable)
    BY <1>1, <1>3, <1>6, <2>1, AppendKeepsTruth
  <2>3. NoRequest(commQ')
    BY <1>1, <1>3, <1>6, <2>1, PostedAppend
  <2>. QED BY <1>1, <1>2, <1>3, <1>6, <2>2, <2>3, NothingToSay DEF Truth
<1>. QED BY <1>1, <1>4, <1>5, <1>6, FlashAnswers

LEMMA TimerKeepsTruth ==
    ASSUME OnlyUpdates, ResultInv, TimerRuns \/ UNCHANGED all, ~upset', InTime
    PROVE  Truth'
<1>1. TypeOK /\ Truth /\ commQ \in Seq(Events)
  BY DEF ResultInv, UpdateInv, ForgottenInv, TypeOK, TimerRuns, all
<1>2. CASE TimerRuns
  <2>1. /\ UNCHANGED <<st, req, doing, job, bootable, queue, call>>
        /\ \E e \in Events : ~FlashAnswer(e) /\ commQ' = Append(commQ, e)
    BY <1>1, <1>2, TimerDoes DEF TimerRuns, client, FlashAnswer, Timers
  <2>2. /\ NoneBehind(commQ) => NoneBehind(commQ')
        /\ NoAnswer(commQ) => NoAnswer(commQ')
        /\ RightAnswers(commQ, req, bootable) => RightAnswers(commQ', req, bootable)
    BY <1>1, <2>1, AppendKeepsTruth
  <2>. QED BY <1>1, <2>1, <2>2 DEF Truth
<1>3. CASE UNCHANGED all
  <2>1. UNCHANGED <<commQ, st, req, doing, job, bootable, queue, call>>
    BY <1>3 DEF all, vars, service, comm, client
  <2>. QED BY <1>1, <2>1 DEF Truth
<1>. QED BY <1>2, <1>3

\* The client.
LEMMA ClientKeepsTruth ==
    ASSUME OnlyUpdates, ResultInv, ClientStep, ~upset', InTime'
    PROVE  Truth'
<1>. USE DEF UpdateInv, ForgottenInv
<1>0. /\ UpdateInv /\ queue \in Seq(Message) /\ commQ \in Seq(Events)
      /\ doing = "post" \/ job = "none"
      /\ doing # "none" => st = "ValidateMsg"
      /\ call.want = "None" <=> call = NoCall
      /\ call \in [req : FlashRequests, want : {"None", "Ack", "Done"}, tries : Nat]
  BY DEF ResultInv, ClientTypes, TypeOK, NobodyForgotten
<1>1. ASSUME NEW r, NEW n, Send(r, n), queue' = <<>>, NoRequest(commQ), st \notin Busy
      PROVE  Truth'
  <2>1. st' \notin Busy /\ st' # "ValidateMsg" /\ job' = "none"
    BY <1>0, <1>1, BusyAre DEF Send, comm
  <2>2. NoneBehind(commQ')
    <3>1. CASE commQ' = commQ
      BY <1>1, <3>1, NothingToSay
    <3>2. CASE commQ' # commQ
      <4>1. \E s \in FlashRequests : /\ CliReceived(s) \in Events
                                     /\ commQ' = Append(commQ, CliReceived(s))
        BY <1>0, <3>2, ClientDoes DEF vars, service
      <4>. QED BY <1>0, <1>1, <4>1, SentIsBehind
    <3>. QED BY <3>1, <3>2
  <2>3. RightMessages(queue', call', bootable')
    BY <1>1 DEF RightMessages
  <2>. QED BY <2>1, <2>2, <2>3 DEF Truth
<1>2. CASE StartCall
  <2>1. Idle /\ queue' = <<>> /\ Send(GetMode, 1)
    BY <1>2 DEF StartCall, InTime, Idle
  <2>2. NoRequest(commQ) /\ st \notin Busy
    BY <2>1, BusyAre DEF Idle, NoRequest
  <2>. QED BY <1>1, <2>1, <2>2
<1>3. CASE WaitTimesOut \/ TakeError
  BY <1>3 DEF WaitTimesOut, TakeError, Return, InTime
<1>4. CASE TakeAck
  <2>1. /\ call' = [call EXCEPT !.want = "Done"] /\ call.want = "Ack"
        /\ queue # <<>> /\ queue' = Tail(queue) /\ UNCHANGED <<vars, upset, fresh>>
    BY <1>4 DEF TakeAck, Pop, Return, InTime
  <2>2. Seen(call) = 0 /\ Seen(call') = 1 /\ call # NoCall
    BY <1>0, <2>1 DEF Seen
  <2>3. Truth
    BY <2>1, <2>2 DEF InTime, ResultInv
  <2>4. \A i \in DOMAIN queue' : /\ i \in Nat /\ i + 1 \in DOMAIN queue
                                 /\ queue'[i] = queue[i + 1]
    BY <1>0, <2>1, MessagePlaces
  <2>5. UNCHANGED <<commQ, st, req, doing, job, bootable>>
    BY <2>1 DEF vars, service, comm
  <2>6. RightMessages(queue', call', bootable')
    <3>1. \A i \in DOMAIN queue' : i + 1 = 2 => (i + 1) + 0 = 2
      OBVIOUS
    <3>. QED BY <2>2, <2>3, <2>4, <2>5, <3>1 DEF Truth, RightMessages
  <2>. QED BY <2>3, <2>5, <2>6 DEF Truth
<1>5. CASE Proceed
  <2>1. PICK r, n : Send(r, n) /\ call.want = "Done" /\ fresh' = fresh
    BY <1>5 DEF Proceed, Return, InTime
  <2>2. InTime
    BY <1>0, <2>1 DEF InTime
  <2>. QED BY <1>0, <1>1, <1>5, <2>1, <2>2, ProceedFinds
<1>. QED BY <1>2, <1>3, <1>4, <1>5 DEF ClientStep

LEMMA StepKeepsTruth ==
    ASSUME OnlyUpdates, ResultInv, [FlashFWNext]_all, ~upset', InTime'
    PROVE  Truth'
<1>1. CASE ClientStep
  BY <1>1, ClientKeepsTruth
<1>2. CASE CommRuns \/ FlashRuns \/ TimerRuns \/ UNCHANGED all
  <2>1. InTime
    BY <1>2 DEF CommRuns, FlashRuns, TimerRuns, all, client, InTime
  <2>. QED BY <1>2, <2>1, BoardKeepsTruth, FlashKeepsTruth, TimerKeepsTruth
<1>. QED BY <1>1, <1>2 DEF FlashFWNext

\* Once the call has returned, what it found stays as it is.
LEMMA StepKeepsStored ==
    ASSUME OnlyUpdates, ResultInv, [FlashFWNext]_all,
           ~upset', fresh', result' = "ok"
    PROVE  Stored'
<1>. USE DEF UpdateInv, ForgottenInv
<1>0. /\ UpdateInv /\ TypeOK /\ commQ \in Seq(Events)
      /\ call.want = "None" <=> call = NoCall
      /\ result = "ok" => call = NoCall
      /\ doing = "post" \/ job = "none"
      /\ doing # "none" => st = "ValidateMsg"
  BY DEF ResultInv, ClientTypes, TypeOK, NobodyForgotten
<1>1. CASE CommRuns \/ FlashRuns \/ TimerRuns \/ UNCHANGED all
  <2>1. ~upset /\ fresh /\ result = "ok"
    <3>1. CASE CommRuns
      BY <3>1 DEF CommRuns
    <3>2. CASE FlashRuns
      <4>1. ~upset
        BY <1>0, <3>2, FlashAnswers
      <4>. QED BY <3>2, <4>1 DEF FlashRuns, client
    <3>3. CASE TimerRuns \/ UNCHANGED all
      <4>1. UNCHANGED <<result, fresh, upset>>
        BY <3>3 DEF TimerRuns, all, client
      <4>. QED BY <4>1
    <3>. QED BY <1>1, <3>1, <3>2, <3>3
  <2>2. bootable /\ st \notin Busy /\ NoRequest(commQ) /\ job = "none"
    BY <1>0, <2>1, BusyAre DEF ResultInv, Stored
  <2>3. CASE CommRuns
    <3>1. Ignore \/ Boot \/ ForwardToFlash \/ FlashHasRun
      <4>1. ~Accept /\ ~Ends
        BY <1>0, <2>2, AcceptDoes, EndDoes, PostedTail
      <4>. QED BY <1>0, <2>3, <4>1, HandlersOfUpdates DEF CommRuns
    <3>. QED BY <1>0, <2>2, <3>1, OtherHandlersDo, PostedTail DEF Stored
  <2>4. CASE FlashRuns
    <3>1. /\ st' = st /\ (bootable => bootable')
          /\ commQ' = commQ \/ \E e \in Events : /\ e.sig # "CLI_RECEIVED"
                                                 /\ commQ' = Append(commQ, e)
      BY <1>0, <2>2, <2>4, FlashAnswers, FlashMgrDoes DEF FlashRuns
    <3>. QED BY <1>0, <2>2, <3>1, PostedAppend DEF Stored
  <2>5. CASE TimerRuns
    <3>1. /\ st' = st /\ bootable' = bootable
          /\ \E e \in Events : e.sig # "CLI_RECEIVED" /\ commQ' = Append(commQ, e)
      BY <1>0, <2>5, TimerDoes DEF TimerRuns, Timers
    <3>. QED BY <1>0, <2>2, <3>1, PostedAppend DEF Stored
  <2>6. CASE UNCHANGED all
    BY <2>2, <2>6 DEF all, vars, service, comm, Stored
  <2>. QED BY <1>1, <2>3, <2>4, <2>5, <2>6
<1>2. CASE StartCall \/ WaitTimesOut \/ TakeError
  BY <1>2 DEF StartCall, WaitTimesOut, TakeError, Return
<1>3. CASE TakeAck
  BY <1>0, <1>3 DEF TakeAck, Return
<1>4. CASE Proceed
  <2>1. /\ ~ Refuses(Head(queue)) /\ call.req.seq = Packets /\ UNCHANGED vars
        /\ call.want = "Done" /\ ~upset /\ fresh
    BY <1>0, <1>4 DEF Proceed, Return
  <2>2. InTime
    BY <1>0, <2>1 DEF InTime
  <2>3. Truth /\ OwnMessages
    BY <1>0, <2>1, <2>2, OwnParts DEF ResultInv
  <2>4. /\ NoRequest(commQ) /\ st \notin Busy
        /\ 1 \in DOMAIN queue /\ Head(queue) = queue[1] /\ Seen(call) = 1
    BY <1>0, <1>4, <2>2, ProceedFinds
  <2>5. queue[1].type = "Done"
    BY <2>3, <2>4 DEF Truth, RightMessages
  <2>6. queue[1].err = "NONE" /\ queue[1].seq = Packets
    BY <2>1, <2>3, <2>4, <2>5 DEF Refuses, OwnMessages
  <2>7. bootable
    BY <2>3, <2>4, <2>5, <2>6 DEF Truth, RightMessages
  <2>. QED BY <2>1, <2>4, <2>7 DEF vars, service, comm, Stored
<1>. QED BY <1>1, <1>2, <1>3, <1>4 DEF FlashFWNext, ClientStep

(***************************************************************************)
(* A call of DC3_flashFW that returns without error has put the image into *)
(* flash and its metadata after it, although a Done may be lost, late, or  *)
(* taken for an Ack: for any number of packets, if nothing of an earlier   *)
(* call was left when it started and no timer of the board ended one of    *)
(* its requests.                                                           *)
(***************************************************************************)
THEOREM OkIsStored ==
    ASSUME OnlyUpdates PROVE FlashFWSpec => []SuccessIsStored
<1>1. FlashFWInit => ResultInv
  BY InitiallyUpdate DEF FlashFWInit, ResultInv, InTime
<1>2. ResultInv /\ [FlashFWNext]_all => ResultInv'
  <2>. SUFFICES ASSUME ResultInv, [FlashFWNext]_all PROVE ResultInv'
    OBVIOUS
  <2>1. UpdateInv'
    BY StepKeepsUpdate DEF ResultInv
  <2>. QED BY <2>1, StepKeepsTruth, StepKeepsStored DEF ResultInv
<1>3. ResultInv => SuccessIsStored
  BY DEF ResultInv, Stored, SuccessIsStored
<1>. QED BY <1>1, <1>2, <1>3, PTL DEF FlashFWSpec
=============================================================================
