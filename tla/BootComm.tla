------------------------------ MODULE BootComm ------------------------------
(***************************************************************************)
(* The bootloader's CommMgr active object (Bootloader/src/app/CommMgr.c):  *)
(* it takes one client request at a time, acknowledges it, carries it out  *)
(* or has FlashMgr, I2C1DevMgr or SysMgr do so, and answers with Done.     *)
(*                                                                         *)
(* FlashMgr is module FlashService.  It has the higher priority: a request *)
(* posted to it is finished, sectors erased and all, before the posting    *)
(* handler of CommMgr goes on; timers run and clients send meanwhile.  The *)
(* other two answer later or never.                                        *)
(***************************************************************************)
EXTENDS FlashService, Integers

CONSTANTS
    Requests,   \* what clients send, see RequestType
    CliLimit,   \* no client sends while that many events are queued (of 30)
    SysI2C      \* SysMgr accesses I2C devices on its own account

Kinds == {"GetBootMode", "SetBootAppl", "SetBootLoader", "SetBootOther",
          "FlashMeta", "FlashData", "RamTest", "I2CReadBare", "I2CRead",
          "I2CWriteBare", "I2CWrite", "DBGet", "DBSet", "DBReset", "Dbg",
          "BadPayload", "Unknown"}

(***************************************************************************)
(* Error codes: none (zero), an error, that of the flash session timer,    *)
(* and a word that is not zero and no error code either.  word is the      *)
(* first word of the request's payload, where the status payload of the    *)
(* reply keeps its error code: the payloads are members of a union.        *)
(***************************************************************************)
Codes == Outcomes \cup {"EXPIRED", "JUNK"}
RequestType(r) == r.kind \in Kinds /\ r.word \in {"NONE", "JUNK"}

ASSUME RequestsAssumption ==
    /\ \A r \in Requests : RequestType(r)
    /\ CliLimit \in Nat /\ SysI2C \in BOOLEAN

NoReq == [kind |-> "Unknown", word |-> "NONE"]

VARIABLES
    st,          \* leaf state; Booted once the application runs
    req,         \* basicMsg: the request being served
    payload,     \* basicMsg._msgPayload: the payload Done will announce
    union,       \* payloadMsgUnion: its first word, and the error code
                 \* of the I2C and database payloads
    errorCode,
    armed,       \* time events that are armed
    doing,       \* what keeps the running handler busy
    i2c, db,     \* whose requests I2C1DevMgr and SysMgr have not answered
    out,         \* last message sent to a client
    mine,        \* history: place in commQ of the reply to this request
    cut          \* history: a request was ended before it was looked at

comm == <<st, req, payload, union, errorCode, armed, doing, out>>
vars == <<service, comm, i2c, db, mine, cut>>

Waits == {"WaitForRespFromFlashMgr", "WaitForRespFromI2C",
          "WaitForRespFromSysMgr"}
Busy  == {"ValidateMsg"} \cup Waits

-----------------------------------------------------------------------------
(* Events and messages *)

CliReceived(r) == [sig |-> "CLI_RECEIVED", req |-> r]
SerReceived(r) == [sig |-> "SER_RECEIVED", req |-> r]
MsgProcess     == [sig |-> "MSG_PROCESS"]
BootAppl       == [sig |-> "BOOT_APPL"]
I2CReply(sig, err) == [sig |-> sig, err |-> err]
DBReply(sig, err)  == [sig |-> sig, err |-> err]

Ack(r)       == [type |-> "Ack", kind |-> r.kind, err |-> "NONE"]
Done(r, err) == [type |-> "Done", kind |-> r.kind, err |-> err]
Silent       == [type |-> "None", kind |-> "Unknown", err |-> "NONE"]

quiet == <<job, open, bootable, cut>>

\* The event the kernel dispatches next; FlashMgr has nothing to do then.
Take(sig) ==
    /\ st # "Booted" /\ doing = "none" /\ job = "none"
    /\ commQ # <<>> /\ Head(commQ).sig = sig

MineMovesUp == mine' = IF mine > 0 THEN mine - 1 ELSE 0

\* The error code a client reads from the Done message.
Reported(p, u) == IF p \in {"I2CData", "DBData"} THEN u.dataErr
                  ELSE IF p = "NoMsg" THEN "NONE" ELSE u.word

-----------------------------------------------------------------------------
(* Parts of the handlers *)

\* Exit of a state below Busy, exit of Busy, entry of Idle.  p and u are the
\* payload name and the union at that time.
LeaveBusy(p, u) ==
    /\ st' = "Idle"
    /\ out' = Done(req, Reported(p, u))
    /\ armed' = armed \ {"COMM_OP_TIMEOUT", "COMM_MGR_TIMEOUT"}
    /\ req' = NoReq /\ payload' = "NoMsg"
    /\ union' = [word |-> "NONE", dataErr |-> "NONE"]
    /\ errorCode' = "NONE"
    /\ doing' = "none"
    /\ mine' = 0
    /\ i2c' = IF "cur" \in i2c THEN {"other"} ELSE i2c
    /\ db'  = IF "cur" \in db THEN {"other"} ELSE db

\* Mutant: the timer is stopped on exit and not started on entry.
EnterWait_NoTimer(state) ==
    /\ st' = state
    /\ armed' = armed \ {"COMM_OP_TIMEOUT"}
    /\ errorCode' = "FAILED"
    /\ doing' = "none"

\* Exit of ValidateMsg and entry of a state that waits.
EnterWait(state) ==
    /\ st' = state
    /\ armed' = armed \cup {"COMM_OP_TIMEOUT"}
    /\ errorCode' = "FAILED"
    /\ doing' = "none"

Status(err) == [union EXCEPT !.word = err]

-----------------------------------------------------------------------------
(* Idle *)

\* SER_RECEIVED_SIG: decode base64, post the result to itself.
IdleSerial ==
    /\ st = "Idle" /\ Take("SER_RECEIVED")
    /\ commQ' = Append(Tail(commQ), CliReceived(Head(commQ).req))
    /\ MineMovesUp
    /\ UNCHANGED <<comm, quiet, i2c, db>>

\* Mutant: MSG_PROCESS_SIG is posted to the front of the queue.
Accept_Urgent ==
    /\ st = "Idle" /\ Take("CLI_RECEIVED")
    /\ st' = "ValidateMsg"
    /\ req' = Head(commQ).req
    /\ payload' = "NoMsg"
    /\ union' = [word |-> req'.word, dataErr |-> "NONE"]
    /\ errorCode' = "NONE"
    /\ armed' = {"COMM_OP_TIMEOUT", "COMM_MGR_TIMEOUT"}
    /\ out' = Ack(req')
    /\ commQ' = <<MsgProcess>> \o Tail(commQ)
    /\ mine' = 0
    /\ UNCHANGED <<doing, quiet, i2c, db>>

\* CLI_RECEIVED_SIG; entry of Busy sends the Ack, entry of ValidateMsg posts
\* MSG_PROCESS_SIG.
Accept ==
    /\ st = "Idle" /\ Take("CLI_RECEIVED")
    /\ st' = "ValidateMsg"
    /\ req' = Head(commQ).req
    /\ payload' = "NoMsg"
    /\ union' = [word |-> req'.word, dataErr |-> "NONE"]
    /\ errorCode' = "NONE"
    /\ armed' = {"COMM_OP_TIMEOUT", "COMM_MGR_TIMEOUT"}
    /\ out' = Ack(req')
    /\ commQ' = Append(Tail(commQ), MsgProcess)
    /\ mine' = 0
    /\ UNCHANGED <<doing, quiet, i2c, db>>

-----------------------------------------------------------------------------
(* ValidateMsg: MSG_PROCESS_SIG, one action per branch *)

Process(kinds) ==
    /\ st = "ValidateMsg" /\ Take("MSG_PROCESS")
    /\ req.kind \in kinds

\* Requests that CommMgr answers itself with the error code in place.
AnswerHere ==
    /\ Process({"GetBootMode", "Dbg", "Unknown"})
    /\ LeaveBusy(IF req.kind = "GetBootMode" THEN "BootMode" ELSE "Status",
                 Status(IF req.kind = "Unknown" THEN "FAILED" ELSE "NONE"))
    /\ commQ' = Tail(commQ)
    /\ UNCHANGED quiet

\* These set errorCode only: the status payload keeps what the request left.
\* SetBootLoader is no error, the other two are.
AnswerUnset ==
    /\ Process({"SetBootLoader", "SetBootOther", "BadPayload"})
    /\ LeaveBusy("Status", union)
    /\ commQ' = Tail(commQ)
    /\ UNCHANGED quiet

\* Mutant: the CRC over the image is not compared.
BootAccepted_Unchecked ==
    /\ Process({"SetBootAppl"})
    /\ LeaveBusy("Status", union)
    /\ commQ' = Append(Tail(commQ), BootAppl)
    /\ UNCHANGED quiet

\* The image is as its metadata says: boot after the Done.
BootAccepted ==
    /\ Process({"SetBootAppl"})
    /\ bootable
    /\ LeaveBusy("Status", union)
    /\ commQ' = Append(Tail(commQ), BootAppl)
    /\ UNCHANGED quiet

\* Only an invalid stored CRC gets into the status payload.
BootRefused ==
    /\ Process({"SetBootAppl"})
    /\ ~bootable
    /\ \E u \in {union, Status("FAILED")} : LeaveBusy("Status", u)
    /\ commQ' = Tail(commQ)
    /\ UNCHANGED quiet

JobOf(kind) == IF kind = "FlashMeta" THEN "start"
               ELSE IF kind = "FlashData" THEN "data" ELSE "ram"

\* The post preempts CommMgr.
ForwardToFlash ==
    /\ Process({"FlashMeta", "FlashData", "RamTest"})
    /\ Post(JobOf(req.kind))
    /\ doing' = "post"
    /\ payload' = IF req.kind = "RamTest" THEN "RamTest" ELSE "Status"
    /\ errorCode' = "NONE"
    /\ commQ' = Tail(commQ)
    /\ MineMovesUp
    /\ UNCHANGED <<st, req, union, armed, out, open, bootable, cut, i2c, db>>

FlashHasRun ==
    /\ doing = "post" /\ job = "none"
    /\ EnterWait("WaitForRespFromFlashMgr")
    /\ UNCHANGED <<service, req, payload, union, out, i2c, db, mine, cut>>

\* Bare access polls the bus in the handler.
StartBare ==
    /\ Process({"I2CReadBare", "I2CWriteBare"})
    /\ doing' = "bare"
    /\ payload' = IF req.kind = "I2CReadBare" THEN "I2CData" ELSE "Status"
    /\ commQ' = Tail(commQ)
    /\ MineMovesUp
    /\ UNCHANGED <<st, req, union, errorCode, armed, out, quiet, i2c, db>>

\* The result goes to the I2C payload, whichever payload the Done carries.
FinishBare ==
    /\ doing = "bare"
    /\ \E err \in Outcomes : LeaveBusy(payload, [union EXCEPT !.dataErr = err])
    /\ UNCHANGED <<service, cut>>

ForwardToI2C ==
    /\ Process({"I2CRead", "I2CWrite"})
    /\ payload' = IF req.kind = "I2CRead" THEN "I2CData" ELSE "Status"
    /\ i2c' = i2c \cup {"cur"}
    /\ EnterWait("WaitForRespFromI2C")
    /\ commQ' = Tail(commQ)
    /\ MineMovesUp
    /\ UNCHANGED <<req, union, out, quiet, db>>

\* Mutant: the name of the request's payload is not overwritten.
ForwardToSys_KeepsName ==
    /\ Process({"DBGet", "DBSet", "DBReset"})
    /\ payload' = IF req.kind = "DBReset" THEN "Status" ELSE req.kind
    /\ db' = db \cup {"cur"}
    /\ EnterWait("WaitForRespFromSysMgr")
    /\ commQ' = Tail(commQ)
    /\ MineMovesUp
    /\ UNCHANGED <<req, union, out, quiet, i2c>>

\* Setting an element posts DB_GET_ELEM_SIG as well.
ForwardToSys ==
    /\ Process({"DBGet", "DBSet", "DBReset"})
    /\ payload' = IF req.kind = "DBReset" THEN "Status" ELSE "DBData"
    /\ db' = db \cup {"cur"}
    /\ EnterWait("WaitForRespFromSysMgr")
    /\ commQ' = Tail(commQ)
    /\ MineMovesUp
    /\ UNCHANGED <<req, union, out, quiet, i2c>>

-----------------------------------------------------------------------------
(* The states that wait *)

FlashReplied ==
    /\ st = "WaitForRespFromFlashMgr"
    /\ Take("FLASH_OP_DONE") \/ Take("RAM_TEST_DONE")
    /\ LeaveBusy(payload, Status(Head(commQ).err))
    /\ commQ' = Tail(commQ)
    /\ UNCHANGED quiet

I2CReplied ==
    /\ st = "WaitForRespFromI2C"
    /\ \/ /\ Take("I2C1_DEV_READ_DONE")
          /\ LeaveBusy(payload, [union EXCEPT !.dataErr = Head(commQ).err])
       \/ /\ Take("I2C1_DEV_WRITE_DONE")
          /\ LeaveBusy(payload, Status(Head(commQ).err))
    /\ commQ' = Tail(commQ)
    /\ UNCHANGED quiet

\* The first word of the database payload is the element.
SysReplied ==
    /\ st = "WaitForRespFromSysMgr"
    /\ Take("DB_GET_ELEM_DONE") \/ Take("DB_SET_ELEM_DONE")
    /\ \E elem \in {"NONE", "JUNK"} :
          LeaveBusy(payload, [word |-> elem, dataErr |-> Head(commQ).err])
    /\ commQ' = Tail(commQ)
    /\ UNCHANGED quiet

\* Mutant: a timeout is logged and nothing else.
TimedOut_LogsOnly ==
    /\ st \in Busy
    /\ Take("COMM_MGR_TIMEOUT") \/ Take("COMM_OP_TIMEOUT")
    /\ commQ' = Tail(commQ)
    /\ MineMovesUp
    /\ UNCHANGED <<comm, i2c, db, quiet>>

\* Busy: COMM_MGR_TIMEOUT_SIG and COMM_OP_TIMEOUT_SIG.
TimedOut ==
    /\ st \in Busy
    /\ Take("COMM_MGR_TIMEOUT") \/ Take("COMM_OP_TIMEOUT")
    /\ LeaveBusy(payload, union)
    /\ commQ' = Tail(commQ)
    /\ cut' = (cut \/ st = "ValidateMsg")
    /\ UNCHANGED <<job, open, bootable>>

\* Active: jump to the application, whatever the state.
Boot ==
    /\ Take("BOOT_APPL")
    /\ st' = "Booted"
    /\ commQ' = Tail(commQ)
    /\ MineMovesUp
    /\ UNCHANGED <<req, payload, union, errorCode, armed, doing, out,
                   quiet, i2c, db>>

Handled(state) ==
    {"BOOT_APPL"} \cup
    (CASE state = "Idle"        -> {"CLI_RECEIVED", "SER_RECEIVED"}
       [] state = "ValidateMsg" -> {"MSG_PROCESS"}
       [] state = "WaitForRespFromFlashMgr" -> {"FLASH_OP_DONE", "RAM_TEST_DONE"}
       [] state = "WaitForRespFromI2C" ->
             {"I2C1_DEV_READ_DONE", "I2C1_DEV_WRITE_DONE"}
       [] state = "WaitForRespFromSysMgr" ->
             {"DB_GET_ELEM_DONE", "DB_SET_ELEM_DONE"}
       [] OTHER -> {}) \cup
    (IF state \in Busy THEN {"COMM_MGR_TIMEOUT", "COMM_OP_TIMEOUT"} ELSE {})

Ignore ==
    /\ commQ # <<>> /\ Take(Head(commQ).sig)
    /\ Head(commQ).sig \notin Handled(st)
    /\ commQ' = Tail(commQ)
    /\ MineMovesUp
    /\ UNCHANGED <<comm, quiet, i2c, db>>

-----------------------------------------------------------------------------
(* The surroundings of CommMgr *)

Running == st # "Booted"

\* LWIPMgr and SerialMgr have the higher priority: at any time.
ClientSends ==
    /\ Running /\ Len(commQ) < CliLimit
    /\ \E r \in Requests : \E event \in {CliReceived(r), SerReceived(r)} :
          commQ' = Append(commQ, event)
    /\ UNCHANGED <<comm, quiet, i2c, db, mine>>

TimerFires(sig) ==
    /\ Running /\ sig \in armed
    /\ armed' = armed \ {sig}
    /\ commQ' = Append(commQ, [sig |-> sig])
    /\ UNCHANGED <<st, req, payload, union, errorCode, doing, out,
                   quiet, i2c, db, mine>>

\* The reply to this request is the one given while it is posted.
FlashMgrSteps ==
    /\ Running
    /\ ServiceStep
    /\ mine' = IF job # "none" /\ Len(commQ') > Len(commQ)
               THEN Len(commQ') ELSE mine
    /\ UNCHANGED <<comm, i2c, db, cut>>

\* A reply is published: every subscriber gets it, CommMgr among them.
Publish(owner, event) ==
    /\ Running
    /\ commQ' = Append(commQ, event)
    /\ mine' = IF owner = "cur" THEN Len(commQ') ELSE mine

I2CAnswers ==
    /\ \E owner \in i2c, err \in Outcomes :
          /\ \E sig \in IF owner = "cur"
                        THEN IF req.kind = "I2CRead" THEN {"I2C1_DEV_READ_DONE"}
                             ELSE {"I2C1_DEV_WRITE_DONE"}
                        ELSE {"I2C1_DEV_READ_DONE", "I2C1_DEV_WRITE_DONE"} :
                Publish(owner, I2CReply(sig, err))
          /\ i2c' = i2c \ {owner}
    /\ UNCHANGED <<comm, quiet, db>>

\* SysMgr has the lowest priority; it reads and writes I2C devices itself.
SysRuns == Running /\ commQ = <<>> /\ doing = "none" /\ job = "none"

SysAnswers ==
    /\ SysRuns
    /\ \E owner \in db, err \in Outcomes :
          /\ \E sig \in IF owner = "cur"
                        THEN IF req.kind = "DBReset" THEN {"DB_SET_ELEM_DONE"}
                             ELSE {"DB_GET_ELEM_DONE"}
                        ELSE {"DB_GET_ELEM_DONE", "DB_SET_ELEM_DONE"} :
                Publish(owner, DBReply(sig, err))
          /\ db' = db \ {owner}
    /\ UNCHANGED <<comm, quiet, i2c>>

SysUsesI2C ==
    /\ SysI2C /\ SysRuns
    /\ "other" \notin i2c
    /\ i2c' = i2c \cup {"other"}
    /\ UNCHANGED <<service, comm, db, mine, cut>>

-----------------------------------------------------------------------------

Init ==
    /\ commQ = <<>> /\ ServiceInit /\ bootable \in BOOLEAN
    /\ st = "Idle" /\ req = NoReq /\ payload = "NoMsg"
    /\ union = [word |-> "NONE", dataErr |-> "NONE"]
    /\ errorCode = "NONE" /\ armed = {} /\ doing = "none"
    /\ i2c = {} /\ db = {} /\ out = Silent /\ mine = 0 /\ cut = FALSE

Dispatch ==
    \/ IdleSerial \/ Accept
    \/ AnswerHere \/ AnswerUnset \/ BootAccepted \/ BootRefused
    \/ ForwardToFlash \/ StartBare \/ ForwardToI2C \/ ForwardToSys
    \/ FlashReplied \/ I2CReplied \/ SysReplied \/ TimedOut \/ Boot \/ Ignore

CommStep == Dispatch \/ FlashHasRun \/ FinishBare

Timer == \E sig \in {"COMM_MGR_TIMEOUT", "COMM_OP_TIMEOUT"} : TimerFires(sig)

\* The application runs: CommMgr is no more.
Jumped == st = "Booted" /\ UNCHANGED vars

Next ==
    \/ CommStep \/ Timer \/ FlashMgrSteps \/ ClientSends
    \/ I2CAnswers \/ SysAnswers \/ SysUsesI2C \/ Jumped

Spec == Init /\ [][Next]_vars

(***************************************************************************)
(* Fairness: the kernel runs CommMgr while it has an event; FlashMgr gets  *)
(* done with a request (JobEnds of module FlashMgr); the tick keeps        *)
(* counting.  Nothing is assumed of clients, I2C1DevMgr and SysMgr.        *)
(***************************************************************************)
Fairness ==
    /\ WF_vars(CommStep)
    /\ WF_vars(job # "none" /\ FlashMgrSteps)
    /\ \A sig \in {"COMM_MGR_TIMEOUT", "COMM_OP_TIMEOUT"} :
          WF_vars(TimerFires(sig))

LiveSpec == Spec /\ Fairness
-----------------------------------------------------------------------------
(* Correctness *)

Events ==
    [sig : {"CLI_RECEIVED", "SER_RECEIVED"}, req : Requests]
    \cup [sig : {"MSG_PROCESS", "BOOT_APPL", "COMM_MGR_TIMEOUT",
                "COMM_OP_TIMEOUT"}]
    \cup [sig : {"FLASH_OP_DONE"}, err : Outcomes \cup {"EXPIRED"}]
    \cup [sig : {"RAM_TEST_DONE", "I2C1_DEV_READ_DONE", "I2C1_DEV_WRITE_DONE",
                "DB_GET_ELEM_DONE", "DB_SET_ELEM_DONE"}, err : Outcomes]

\* The types of the object's members and of the queue.
TypeOK ==
    /\ commQ \in Seq(Events)
    /\ job \in Jobs /\ open \in BOOLEAN /\ bootable \in BOOLEAN
    /\ st \in {"Idle", "Booted"} \cup Busy
    /\ req \in Requests \cup {NoReq}
    /\ payload \in {"NoMsg", "Status", "BootMode", "RamTest", "I2CData", "DBData"}
    /\ union \in [word : Codes, dataErr : Codes]
    /\ errorCode \in {"NONE", "FAILED"}
    /\ armed \subseteq {"COMM_MGR_TIMEOUT", "COMM_OP_TIMEOUT"}
    /\ doing \in {"none", "post", "bare"}
    /\ i2c \subseteq {"cur", "other"} /\ db \subseteq {"cur", "other"}
    /\ out \in [type : {"None", "Ack", "Done"}, kind : Kinds, err : Codes]
    /\ mine \in Nat /\ cut \in BOOLEAN

Queued(sig) == \E i \in DOMAIN commQ : commQ[i].sig = sig

\* Whoever waits can be woken: a request that was taken is looked at, and a
\* state that waits has its timeout ahead of it, though timeouts and replies
\* of earlier requests are still queued.
NobodyForgotten ==
    /\ st = "ValidateMsg" /\ doing = "none" => Queued("MSG_PROCESS")
    /\ st \in Waits =>
          "COMM_OP_TIMEOUT" \in armed \/ Queued("COMM_OP_TIMEOUT")
    /\ doing = "post" \/ job = "none"
    /\ doing # "none" => st = "ValidateMsg"

\* A late reply of FlashMgr is not taken for the reply to a later request, as
\* long as no timeout has ended a request before MSG_PROCESS_SIG was handled:
\* other than that of the session timer, the one that ends the wait is the
\* one to this request.
LateReplyDropped ==
    [][FlashReplied /\ ~cut /\ Head(commQ).err # "EXPIRED" => mine = 1]_vars

\* The bootloader jumps only to an image that is intact at that moment, as
\* long as no timeout has ended a request before MSG_PROCESS_SIG was handled.
BootsIntactImage == [][Boot /\ ~cut => bootable]_vars

\* Every request that is acknowledged gets its Done.
RequestEnds == st \in Busy ~> st \notin Busy

-----------------------------------------------------------------------------
(* What comments say and the code does not do *)

\* "no errors have been encountered and we can safely proceed to boot the
\* Application FW image": the image that is booted passes the CRC check.
BootIntact == [][Boot => bootable]_vars

\* "Set the error in case we timeout": a wait that times out is reported to
\* the client as an error.
TimeoutReported ==
    [][TimedOut /\ st \in Waits => out'.err # "NONE"]_vars

\* "Used to report a status/error by simple messages": a request with the
\* wrong payload is answered with an error.
BadPayloadReported ==
    [][AnswerUnset /\ req.kind = "BadPayload" => out'.err # "NONE"]_vars
=============================================================================
