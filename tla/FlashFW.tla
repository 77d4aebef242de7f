------------------------------ MODULE FlashFW ------------------------------
(***************************************************************************)
(* A firmware update from end to end: DC3_flashFW of the host client       *)
(* (Client/src/shared_lib_src/api/ClientApi.cpp), a network that loses     *)
(* messages, and the bootloader: its CommMgr (module BootComm) with        *)
(* FlashMgr as module FlashService, to which the sequence numbers of the   *)
(* packets are added here.                                                 *)
(*                                                                         *)
(* For each request the client waits for two messages, Ack and Done, each  *)
(* with a timeout.  It does not compare what it takes with what it waits   *)
(* for: a Done passes for an Ack, and an Ack for a Done without error.  A  *)
(* message that comes after its wait has timed out stays in the client's   *)
(* queue, and the next call takes it for the reply to its own request.     *)
(***************************************************************************)
EXTENDS BootComm

CONSTANTS
    Packets,     \* packets of the image
    MaxTries,    \* maxRetries + 1: how often the boot mode is asked for (4)
    MaxCalls     \* bound: calls of DC3_flashFW

ASSUME FlashFWAssumption ==
    {Packets, MaxTries, MaxCalls} \subseteq Nat \ {0}

VARIABLES
    call,        \* the call under way: what it has sent last, which message
                 \*   it waits for, how often it asked for the mode
    queue,       \* client: messages received and not taken
    due,         \* FlashMgr: packet an open session waits for, 0 if none
    result,      \* history: what the last call returned
    calls,       \* history: number of calls
    fresh,       \* history: nothing of an earlier call was under way or
                 \*   queued when this call started
    upset        \* history: a timer of the board ended a request since then

client == <<call, queue, result, calls, fresh>>
all    == <<vars, client, due, upset>>

-----------------------------------------------------------------------------
(* Requests.  The first word of a packet's payload is its CRC.             *)

GetMode == [kind |-> "GetBootMode", word |-> "NONE", seq |-> 0]
SetMode == [kind |-> "SetBootLoader", word |-> "NONE", seq |-> 0]
Meta    == [kind |-> "FlashMeta", word |-> "NONE", seq |-> 0]
Data(n) == [kind |-> "FlashData", word |-> "JUNK", seq |-> n]

FlashRequests == {GetMode, SetMode, Meta} \cup {Data(n) : n \in 1 .. Packets}

NoCall == [req |-> GetMode, want |-> "None", tries |-> 0]

-----------------------------------------------------------------------------
(* The client *)

\* write_some: the datagram reaches CommMgr or is lost.
Send(r, tries) ==
    /\ call' = [req |-> r, want |-> "Ack", tries |-> tries]
    /\ \/ commQ' = Append(commQ, CliReceived(r))
       \/ UNCHANGED commQ
    /\ UNCHANGED <<job, open, bootable, comm, i2c, db, mine, cut>>

Return(r) == call' = NoCall /\ result' = r

Idle == queue = <<>> /\ st = "Idle" /\ \A i \in DOMAIN commQ :
                                          commQ[i].sig # "CLI_RECEIVED"

StartCall ==
    /\ call = NoCall /\ Running
    /\ calls < MaxCalls /\ calls' = calls + 1
    /\ Send(GetMode, 1)
    /\ fresh' = Idle /\ upset' = FALSE /\ result' = "none"
    /\ UNCHANGED <<queue, due>>

\* pollForResp: a Done without payload is an error of the client.
Bad(m) == m.type = "Done" /\ m.bare

\* waitForResp finds nothing until its time is up.
WaitTimesOut ==
    /\ call.want # "None" /\ queue = <<>>
    /\ Return("failed")
    /\ UNCHANGED <<vars, queue, calls, fresh, due, upset>>

Pop == queue # <<>> /\ queue' = Tail(queue)

\* Mutant: the first message taken is the answer, no Ack is waited for.
TakeAck_None ==
    /\ call.want = "Ack" /\ queue # <<>>
    /\ call' = [call EXCEPT !.want = "Done"]
    /\ UNCHANGED <<vars, queue, result, calls, fresh, due, upset>>

\* The wait for Ack ends with any message.
TakeAck ==
    /\ call.want = "Ack" /\ Pop
    /\ IF Bad(Head(queue)) THEN Return("failed")
       ELSE call' = [call EXCEPT !.want = "Done"] /\ UNCHANGED result
    /\ UNCHANGED <<vars, calls, fresh, due, upset>>

\* Mutant: the error code in the Done is not looked at.
Refuses_Never(m) == Bad(m)

\* The call ends with this message: an error of the client or of the board.
\* The payload of an Ack is all zeros.
Refuses(m) == Bad(m) \/ (m.type = "Done" /\ m.err # "NONE")

TakeError ==
    /\ call.want = "Done" /\ Pop
    /\ Refuses(Head(queue))
    /\ Return("failed")
    /\ UNCHANGED <<vars, calls, fresh, due, upset>>

\* What the call sends after a message without error.  Only a Done to
\* GetBootMode holds a boot mode; when it was asked for often enough the
\* update goes on in any mode.
Following(m) ==
    CASE call.req = GetMode ->
            IF m.type = "Done" /\ m.kind = "GetBootMode" THEN Meta ELSE SetMode
      [] call.req = SetMode ->
            IF call.tries < MaxTries THEN GetMode ELSE Meta
      [] OTHER -> Data(call.req.seq + 1)

Proceed ==
    /\ call.want = "Done" /\ Pop
    /\ ~ Refuses(Head(queue))
    /\ \/ /\ call.req.seq < Packets
          /\ LET next == Following(Head(queue)) IN
             Send(next, IF next = GetMode THEN call.tries + 1 ELSE call.tries)
          /\ UNCHANGED result
       \/ /\ call.req.seq = Packets
          /\ Return("ok")
          /\ UNCHANGED vars
    /\ UNCHANGED <<calls, fresh, due, upset>>

ClientStep == StartCall \/ WaitTimesOut \/ TakeAck \/ TakeError \/ Proceed

-----------------------------------------------------------------------------
(* The board *)

\* The message CommMgr sends in a step that sends one: the payload name of a
\* request that was ended before it was looked at is "no message".
Outgoing ==
    [type |-> out'.type, kind |-> out'.kind, err |-> out'.err,
     seq  |-> IF out'.type = "Ack" THEN req'.seq ELSE req.seq,
     bare |-> TimedOut /\ payload = "NoMsg"]

\* A message of CommMgr reaches the client's queue or is lost.
CommRuns ==
    /\ CommStep
    /\ IF out' = out THEN UNCHANGED queue
       ELSE queue' \in {queue, Append(queue, Outgoing)}
    /\ upset' = (upset \/ TimedOut)
    /\ UNCHANGED <<call, result, calls, fresh, due>>

\* FlashMgr: a packet is taken if it is the one that is due, image and
\* metadata are complete after the last one, and "no error" is the answer
\* when something else is true only if the session timer ends the session
\* while the flash is busy (SuccessIsReal of module FlashMgr).
Expects ==
    \/ Opened /\ due' = 1 /\ UNCHANGED upset
    \/ Vouch /\ req.seq = due /\ due = Packets /\ UNCHANGED <<due, upset>>
    \/ Written /\ req.seq = due /\ due < Packets /\ due' = due + 1
       /\ UNCHANGED upset
    \/ (Closed \/ Refused) /\ due' = 0
       /\ upset' = (upset \/ (commQ'[Len(commQ')].err = "NONE" /\ ~ bootable))
    \/ Expired /\ due' = 0 /\ UNCHANGED upset
    \/ (Unheard \/ Wipe) /\ UNCHANGED <<due, upset>>

FlashRuns == FlashMgrSteps /\ Expects /\ UNCHANGED client

TimerRuns == Timer /\ UNCHANGED <<client, due, upset>>

FlashFWInit ==
    /\ Init /\ bootable = FALSE
    /\ call = NoCall /\ queue = <<>> /\ due = 0
    /\ result = "none" /\ calls = 0 /\ fresh = FALSE /\ upset = FALSE

FlashFWNext == ClientStep \/ CommRuns \/ FlashRuns \/ TimerRuns

FlashFWSpec == FlashFWInit /\ [][FlashFWNext]_all

-----------------------------------------------------------------------------
(* Properties *)

\* A call that starts when nothing of an earlier one is left takes only
\* messages that answer the request it has sent last, although it compares
\* nothing, whatever is lost and whichever wait times out: two messages are
\* taken for each request, and the board sends no more.
RepliesAreOwn ==
    call # NoCall /\ fresh =>
        \A i \in DOMAIN queue :
            queue[i].kind = call.req.kind /\ queue[i].seq = call.req.seq

\* A call that returns without error has put the image into flash and its
\* metadata after it, if nothing of an earlier call was left when it started
\* and no timer of the board ended one of its requests.
SuccessIsStored == result = "ok" /\ fresh /\ ~ upset => bootable

\* "completed with no errors. DC3 ... FW image should now be flashed"
\* (Cmds.cpp): the same of every call.
OkMeansStored == result = "ok" /\ ~ upset => bootable
=============================================================================
