---------------------------- MODULE FlashService ----------------------------
(***************************************************************************)
(* FlashMgr as CommMgr sees it: at most one request at a time is being     *)
(* worked on, a session is open or not, and replies reach CommMgr's queue. *)
(* A request that does not fit is dropped without a reply, and a session   *)
(* may end by its timer and reply although nothing was asked.              *)
(* FlashMgr implements this module, and BootComm is built on it.           *)
(***************************************************************************)
EXTENDS Sequences

VARIABLES
    commQ,      \* event queue of CommMgr
    job,        \* the request FlashMgr is working on
    open,       \* a session waits for data or writes it
    bootable    \* the stored CRC matches the image in flash

service == <<commQ, job, open, bootable>>

Jobs == {"none", "start", "data", "ram"}

OpReply(err)  == [sig |-> "FLASH_OP_DONE", err |-> err]
RamReply(err) == [sig |-> "RAM_TEST_DONE", err |-> err]

\* EXPIRED is ERR_FLASH_WAIT_FOR_DATA_TIMEOUT, which a packet out of
\* sequence is answered with, too.
Outcomes == {"NONE", "FAILED"}

ServiceInit == job = "none" /\ open = FALSE

Post(request) == job = "none" /\ job' = request

Answer(reply) == job' = "none" /\ commQ' = Append(commQ, reply)

\* FLASH_OP_START_SIG is handled in Idle only, FLASH_DATA_SIG in
\* WaitingForFWData only, RAM_TEST_START_SIG in Idle only.
Unheard ==
    /\ job \in (IF open THEN {"start", "ram"} ELSE {"data"})
    /\ job' = "none"
    /\ UNCHANGED <<commQ, open, bootable>>

\* Sectors are erased, the one with the metadata among them.
Wipe ==
    /\ job = "start" /\ ~open
    /\ bootable' = FALSE
    /\ UNCHANGED <<commQ, job, open>>

\* The flash is ready for the first packet.
Opened ==
    /\ job = "start" /\ ~open /\ ~bootable
    /\ open' = TRUE
    /\ Answer(OpReply("NONE"))
    /\ UNCHANGED bootable

\* Metadata refused, erase failed or timed out.
Refused ==
    /\ job = "start" /\ ~open
    /\ \E err \in Outcomes : Answer(OpReply(err))
    /\ UNCHANGED <<open, bootable>>

\* Size and CRC of the image just written are stored.
Vouch ==
    /\ job = "data" /\ open
    /\ bootable' = TRUE
    /\ UNCHANGED <<commQ, job, open>>

\* The packet is in flash, the next one is awaited.
Written ==
    /\ job = "data" /\ open /\ ~bootable
    /\ Answer(OpReply("NONE"))
    /\ UNCHANGED <<open, bootable>>

\* The last packet, or one that ends the session, or the session timer.
Closed ==
    /\ job = "data" /\ open
    /\ open' = FALSE
    /\ \E err \in Outcomes \cup {"EXPIRED"} : Answer(OpReply(err))
    /\ UNCHANGED bootable

\* HL_MAX_TOUT_SEC_FLASH_FW ran out while no request is worked on.
Expired ==
    /\ job = "none" /\ open
    /\ open' = FALSE
    /\ commQ' = Append(commQ, OpReply("EXPIRED"))
    /\ UNCHANGED <<job, bootable>>

RamTested ==
    /\ job = "ram" /\ ~open
    /\ \E err \in Outcomes : Answer(RamReply(err))
    /\ UNCHANGED <<open, bootable>>

ServiceStep == \/ Unheard \/ Wipe \/ Opened \/ Refused \/ Vouch \/ Written
               \/ Closed \/ Expired \/ RamTested

-----------------------------------------------------------------------------
(* CommMgr in the most general form, to compare FlashMgr with *)

Request ==
    /\ \E request \in Jobs \ {"none"} : Post(request)
    /\ UNCHANGED <<commQ, open, bootable>>

Taken == commQ # <<>> /\ commQ' = Tail(commQ) /\ UNCHANGED <<job, open, bootable>>

Reset ==
    /\ commQ' = <<>> /\ job' = "none" /\ open' = FALSE
    /\ bootable' \in {bootable, FALSE}

ServiceSpec ==
    /\ commQ = <<>> /\ ServiceInit /\ bootable = FALSE
    /\ [][ServiceStep \/ Request \/ Taken \/ Reset]_service
=============================================================================
