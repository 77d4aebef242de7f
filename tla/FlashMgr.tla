------------------------------ MODULE FlashMgr ------------------------------
(***************************************************************************)
(* The bootloader's FlashMgr active object (Bootloader/src/app/FlashMgr.c) *)
(* together with the flash it erases and programs (Common/bsp/flash.c).    *)
(*                                                                         *)
(* FlashMgr runs one firmware-update session at a time: it validates the   *)
(* metadata of the offered image, erases the sectors the image will use    *)
(* and, last of all, the sector that holds the stored metadata, then takes *)
(* numbered packets one by one, programs each of them, checks the CRC of   *)
(* the whole image in flash and only then stores the new metadata.         *)
(*                                                                         *)
(* An active object handles one event of its queue at a time and to        *)
(* completion.  The time a flash operation takes inside a handler is the   *)
(* value of hw: timers go on running, and power may be lost, while it is   *)
(* not "none".                                                             *)
(***************************************************************************)
EXTENDS Integers, Sequences

CONSTANTS
    Chunks,       \* what a data packet can carry
    Versions,     \* version and build date of an image, one value for all
    Offers,       \* the image metadata a client may send
    AppSectors,   \* number of sectors of the application area
    SectorSlots,  \* packets that fit in one sector
    MaxRetries,   \* MAX_FLASH_RETRIES
    CommLimit,    \* replies CommMgr leaves unread (its queue holds 30)
    Blank, Torn   \* erased flash; flash an operation was interrupted on

Slots == 1 .. AppSectors * SectorSlots

MetaSector == 0          \* FLASH_END_ADDR_SECTOR; 1..AppSectors are the others
MetaFields == <<"size", "crc", "maj", "min", "date">>

(***************************************************************************)
(* The metadata of an image.  A CRC is the content it was computed over: a *)
(* CRC collision is not modelled.  sane stands for the CRC and date checks *)
(* of FLASH_validateMetadata, which look at nothing else.  The number of   *)
(* packets is not checked against the size by the code; the bound          *)
(* num <= AppSectors * SectorSlots keeps the writes inside the area.       *)
(***************************************************************************)
OfferType ==
    [type : {"Application", "Bootloader"}, sane : BOOLEAN, size : Nat,
     crc : Seq(Chunks), num : Slots, ver : Versions]

ASSUME SizesAssumption ==
    /\ AppSectors \in Nat \ {0}
    /\ SectorSlots \in Nat \ {0}
    /\ MaxRetries \in Nat
    /\ Versions # {}
    /\ Blank \notin Chunks
    /\ Torn \notin Chunks
    /\ Blank # Torn
    /\ {Blank, Torn} \cap (Versions \cup {"NONE"}) = {}
    /\ Blank \notin Nat /\ Torn \notin Nat
    /\ Blank \notin Seq(Chunks) /\ Torn \notin Seq(Chunks)
    /\ CommLimit \in Nat \ {0}

ASSUME OffersAssumption == Offers \subseteq OfferType

NoOffer == [type |-> "Bootloader", sane |-> FALSE, size |-> 0, crc |-> <<>>,
            num |-> 1, ver |-> CHOOSE v \in Versions : TRUE]

VARIABLES
    flashQ,          \* event queue of FlashMgr
    commQ,           \* event queue of CommMgr, to which FlashMgr replies
    st,              \* leaf state of the state machine
    errorCode,
    ses,             \* what the object keeps about the session, see Session
    armed,           \* time events that are armed
    locked,          \* FLASH_Lock / FLASH_Unlock
    hw,              \* flash operation the current handler is waiting for
    area,            \* content of the application area, slot by slot
    meta,            \* content of the metadata words
    accepted,        \* history: packets taken in this session, in order
    dirty            \* history: the area was touched since meta was erased

flash == <<area, meta, dirty>>
vars  == <<flashQ, commQ, st, errorCode, ses, armed, locked, hw, area, meta,
           accepted, dirty>>

(***************************************************************************)
(* The members of struct FlashMgr: offer is fwFlashMetadata, addr is       *)
(* flashAddrCurr as a slot, sectors and index are flashSectorsToErase and  *)
(* its index, dataBuf is fwDataToFlash.  field is the metadata word being  *)
(* programmed while hw is "commit".                                        *)
(***************************************************************************)
Session ==
    [offer : Offers \cup {NoOffer}, packetExp : Nat, packetCurr : Nat,
     addr : Nat, retryCurr : Nat, sectors : Seq(0 .. AppSectors), index : Nat,
     dataBuf : Chunks \cup {Blank}, field : DOMAIN MetaFields]

NewSession == [offer |-> NoOffer, packetExp |-> 0, packetCurr |-> 0,
               addr |-> 0, retryCurr |-> 0, sectors |-> <<>>, index |-> 0,
               dataBuf |-> Blank, field |-> 1]

-----------------------------------------------------------------------------
(* Events *)

NextStep  == [sig |-> "FLASH_NEXT_STEP"]
FlashDone == [sig |-> "FLASH_DONE"]
FlashErr  == [sig |-> "FLASH_ERROR"]
RamStep   == [sig |-> "RAM_OP_START"]

\* FLASH_OP_DONE_SIG and RAM_TEST_DONE_SIG carry the error code to CommMgr.
OpDone(err)        == [sig |-> "FLASH_OP_DONE", err |-> err]
RamDone(err, test) == [sig |-> "RAM_TEST_DONE", err |-> err, test |-> test]

SelfSignals    == {"FLASH_NEXT_STEP", "FLASH_DONE", "FLASH_ERROR",
                   "RAM_OP_START"}
TimeoutSignals == {"FLASH_TIMEOUT", "FLASH_OP_TIMEOUT", "RAM_TIMEOUT"}

StartRequests == [sig : {"FLASH_OP_START"}, meta : Offers]
DataRequests  == [sig : {"FLASH_DATA"}, seq : Slots, chunk : Chunks,
                  crcOk : BOOLEAN]
RamRequests   == [sig : {"RAM_TEST_START"}]
Requests      == StartRequests \cup DataRequests \cup RamRequests

Events == [sig : SelfSignals \cup TimeoutSignals] \cup Requests

BusyFlash == {"PrepFlash", "ErasingSector", "WaitingForFWData", "WritingFlash"}
BusyRam   == {"DataBusTest", "AddrBusTest", "DeviceTest"}

ErrorCodes ==
    {"NONE", "INVALID_META", "ERASE_TIMEOUT", "FLASH_HW", "WRITE_TIMEOUT",
     "WAIT_FOR_DATA_TIMEOUT", "INVALID_FW_PACKET_CRC",
     "INVALID_IMAGE_CRC_AFTER_FLASH", "RAM_TIMEOUT", "RAM_FAILED"}

-----------------------------------------------------------------------------
(* flash.c *)

\* Mutant: the size of the image is not compared with the area.
ValidateMetadata_AnySize(o) ==
    IF o.sane /\ o.type = "Application" /\ o.size > 0
    THEN "NONE" ELSE "INVALID_META"

\* FLASH_validateMetadata.  A size the area cannot hold is refused; that the
\* code's MAX_APPL_FWIMAGE_SIZE reaches into the last sector is the subject of
\* module FlashLayout.
ValidateMetadata(o) ==
    IF /\ o.sane
       /\ o.type = "Application"
       /\ o.size > 0
       /\ o.size < AppSectors * SectorSlots
    THEN "NONE" ELSE "INVALID_META"

\* Mutant: the metadata sector is left out.
SectorsToErase_NoMeta(size) ==
    [i \in 1 .. size \div SectorSlots + 1 |-> i]

\* FLASH_getSectorsToErase: every sector up to the one that holds the address
\* just after the image, and the metadata sector after them.
SectorsToErase(size) ==
    LET n == size \div SectorSlots + 1
    IN  [i \in 1 .. n + 1 |-> IF i <= n THEN i ELSE MetaSector]

SlotsOf(sector) == {s \in Slots : (s - 1) \div SectorSlots = sector - 1}

\* Programming only clears bits: a word that holds another value fails the
\* read-back check of FLASH_writeBuffer and FLASH_writeUint32.
CanProgram(old, new) == old \in {Blank, Torn, new}

FieldOf(o, f) == IF f = "size" THEN o.size
                 ELSE IF f = "crc" THEN o.crc ELSE o.ver

\* CRC32_Calc over the first n bytes of the area.
Content(n) == [i \in 1 .. n |-> area[i]]

HasMetadata == {meta["size"], meta["crc"]} \cap {Blank, Torn} = {}

CurrSector == ses.sectors[ses.index + 1]
CurrField  == MetaFields[ses.field]

(***************************************************************************)
(* What an operation that does not complete leaves behind, on an error the *)
(* flash controller reports and on a loss of power alike.                  *)
(***************************************************************************)
HalfErased ==
    \/ UNCHANGED <<area, meta>>
    \/ /\ area' = [s \in Slots |->
                      IF s \in SlotsOf(CurrSector) THEN Torn ELSE area[s]]
       /\ meta' = IF CurrSector = MetaSector
                  THEN [f \in DOMAIN meta |-> Torn] ELSE meta

HalfProgrammed ==
    /\ \E c \in {area[ses.addr], Torn} : area' = [area EXCEPT ![ses.addr] = c]
    /\ UNCHANGED meta

HalfCommitted ==
    /\ \E c \in {meta[CurrField], Torn} : meta' = [meta EXCEPT ![CurrField] = c]
    /\ UNCHANGED area

-----------------------------------------------------------------------------
(* Parts of the handlers *)

\* The event the framework dispatches next.
Take(sig) == hw = "none" /\ flashQ # <<>> /\ Head(flashQ).sig = sig
Drop      == flashQ' = Tail(flashQ)

\* Exits of the leaf states: only these two disarm the operation timer.
ArmedOnExit == IF st \in {"ErasingSector", "WaitingForFWData"}
               THEN armed \ {"FLASH_OP_TIMEOUT"} ELSE armed

\* Exit of BusyFlash and entry of Idle: the reply carries the error code.
LeaveBusyFlash(err) ==
    /\ st' = "Idle"
    /\ commQ' = Append(commQ, OpDone(err))
    /\ errorCode' = "NONE"
    /\ ses' = [ses EXCEPT !.offer = NoOffer, !.field = 1]
    /\ armed' = ArmedOnExit \ {"FLASH_TIMEOUT"}
    /\ locked' = TRUE
    /\ hw' = "none"
    /\ UNCHANGED accepted

\* Entry of ErasingSector: arm the timer, start FLASH_eraseSector.
EnterErasingSector ==
    /\ st' = "ErasingSector"
    /\ armed' = armed \cup {"FLASH_OP_TIMEOUT"}
    /\ hw' = "erase"

\* Entry of WaitingForFWData: ask for a packet.
EnterWaitingForFWData ==
    /\ st' = "WaitingForFWData"
    /\ commQ' = Append(commQ, OpDone(errorCode))
    /\ errorCode' = "WAIT_FOR_DATA_TIMEOUT"
    /\ armed' = armed \cup {"FLASH_OP_TIMEOUT"}

\* Entry of WritingFlash: arm the timer, start FLASH_writeBuffer.
EnterWritingFlash ==
    /\ st' = "WritingFlash"
    /\ errorCode' = "WRITE_TIMEOUT"
    /\ armed' = armed \cup {"FLASH_OP_TIMEOUT"}
    /\ hw' = "program"

-----------------------------------------------------------------------------
(* Idle and PrepFlash *)

\* Mutant: the session timer is not armed.
IdleStart_NoTimer ==
    /\ st = "Idle" /\ Take("FLASH_OP_START")
    /\ st' = "PrepFlash"
    /\ ses' = [ses EXCEPT !.offer = Head(flashQ).meta, !.sectors = <<>>,
                          !.index = 0, !.packetCurr = 0, !.packetExp = 0,
                          !.retryCurr = 0]
    /\ locked' = FALSE
    /\ accepted' = <<>>
    /\ flashQ' = Append(Tail(flashQ), NextStep)
    /\ UNCHANGED <<commQ, errorCode, armed, hw, flash>>

\* Mutant: the packet counter of the last session is kept.
IdleStart_KeepsCounter ==
    /\ st = "Idle" /\ Take("FLASH_OP_START")
    /\ st' = "PrepFlash"
    /\ ses' = [ses EXCEPT !.offer = Head(flashQ).meta, !.sectors = <<>>,
                          !.index = 0, !.packetExp = 0, !.retryCurr = 0]
    /\ armed' = armed \cup {"FLASH_TIMEOUT"}
    /\ locked' = FALSE
    /\ accepted' = <<>>
    /\ flashQ' = Append(Tail(flashQ), NextStep)
    /\ UNCHANGED <<commQ, errorCode, hw, flash>>

IdleStart ==
    /\ st = "Idle" /\ Take("FLASH_OP_START")
    /\ st' = "PrepFlash"
    /\ ses' = [ses EXCEPT !.offer = Head(flashQ).meta, !.sectors = <<>>,
                          !.index = 0, !.packetCurr = 0, !.packetExp = 0,
                          !.retryCurr = 0]
    /\ armed' = armed \cup {"FLASH_TIMEOUT"}
    /\ locked' = FALSE
    /\ accepted' = <<>>
    /\ flashQ' = Append(Tail(flashQ), NextStep)
    /\ UNCHANGED <<commQ, errorCode, hw, flash>>

PrepRejects ==
    /\ st = "PrepFlash" /\ Take("FLASH_NEXT_STEP")
    /\ ValidateMetadata(ses.offer) # "NONE"
    /\ LeaveBusyFlash(ValidateMetadata(ses.offer))
    /\ Drop
    /\ UNCHANGED flash

PrepAccepts ==
    /\ st = "PrepFlash" /\ Take("FLASH_NEXT_STEP")
    /\ ValidateMetadata(ses.offer) = "NONE"
    /\ errorCode' = "NONE"
    /\ ses' = [ses EXCEPT !.sectors = SectorsToErase(ses.offer.size),
                          !.addr = 1, !.packetExp = ses.offer.num]
    /\ EnterErasingSector
    /\ dirty' = TRUE
    /\ Drop
    /\ UNCHANGED <<commQ, locked, area, meta, accepted>>

\* PrepFlash handles it for ErasingSector too.
PrepOpTimeout ==
    /\ st \in {"PrepFlash", "ErasingSector"} /\ Take("FLASH_OP_TIMEOUT")
    /\ LeaveBusyFlash("ERASE_TIMEOUT")
    /\ Drop
    /\ UNCHANGED flash

-----------------------------------------------------------------------------
(* ErasingSector *)

\* FLASH_eraseSector returns with the sector erased.
EraseSucceeds ==
    /\ hw = "erase"
    /\ hw' = "none"
    /\ errorCode' = "NONE"
    /\ area' = [s \in Slots |->
                  IF s \in SlotsOf(CurrSector) THEN Blank ELSE area[s]]
    /\ meta' = IF CurrSector = MetaSector
               THEN [f \in DOMAIN meta |-> Blank] ELSE meta
    /\ dirty' = (dirty /\ CurrSector # MetaSector)
    /\ flashQ' = Append(flashQ, NextStep)
    /\ UNCHANGED <<commQ, st, ses, armed, locked, accepted>>

EraseFails ==
    /\ hw = "erase"
    /\ hw' = "none"
    /\ errorCode' = "FLASH_HW"
    /\ HalfErased
    /\ flashQ' = Append(flashQ, NextStep)
    /\ UNCHANGED <<commQ, st, ses, armed, locked, dirty, accepted>>

EraseNextSector ==
    /\ st = "ErasingSector" /\ Take("FLASH_NEXT_STEP")
    /\ errorCode = "NONE"
    /\ ses.index + 1 < Len(ses.sectors)
    /\ ses' = [ses EXCEPT !.index = @ + 1]
    /\ EnterErasingSector
    /\ Drop
    /\ UNCHANGED <<commQ, errorCode, locked, flash, accepted>>

AllErased ==
    /\ st = "ErasingSector" /\ Take("FLASH_NEXT_STEP")
    /\ errorCode = "NONE"
    /\ ses.index + 1 >= Len(ses.sectors)
    /\ ses' = [ses EXCEPT !.index = @ + 1]
    /\ EnterWaitingForFWData
    /\ Drop
    /\ UNCHANGED <<locked, hw, flash, accepted>>

RetryErase ==
    /\ st = "ErasingSector" /\ Take("FLASH_NEXT_STEP")
    /\ errorCode # "NONE"
    /\ ses.retryCurr < MaxRetries
    /\ ses' = [ses EXCEPT !.retryCurr = @ + 1]
    /\ EnterErasingSector
    /\ Drop
    /\ UNCHANGED <<commQ, errorCode, locked, flash, accepted>>

GiveUpErase ==
    /\ st = "ErasingSector" /\ Take("FLASH_NEXT_STEP")
    /\ errorCode # "NONE"
    /\ ses.retryCurr >= MaxRetries
    /\ LeaveBusyFlash(errorCode)
    /\ Drop
    /\ UNCHANGED flash

-----------------------------------------------------------------------------
(* WaitingForFWData *)

PacketInSequence == ses.packetCurr + 1 = Head(flashQ).seq

DataAccepted ==
    /\ st = "WaitingForFWData" /\ Take("FLASH_DATA")
    /\ PacketInSequence
    /\ Head(flashQ).crcOk
    /\ ses' = [ses EXCEPT !.dataBuf = Head(flashQ).chunk]
    /\ accepted' = Append(accepted, Head(flashQ).chunk)
    /\ EnterWritingFlash
    /\ Drop
    /\ UNCHANGED <<commQ, locked, flash>>

DataCorrupt ==
    /\ st = "WaitingForFWData" /\ Take("FLASH_DATA")
    /\ PacketInSequence
    /\ ~Head(flashQ).crcOk
    /\ LeaveBusyFlash("INVALID_FW_PACKET_CRC")
    /\ Drop
    /\ UNCHANGED flash

\* The error code is still the one the entry of WaitingForFWData set.
DataOutOfSequence ==
    /\ st = "WaitingForFWData" /\ Take("FLASH_DATA")
    /\ ~PacketInSequence
    /\ LeaveBusyFlash(errorCode)
    /\ Drop
    /\ UNCHANGED flash

-----------------------------------------------------------------------------
(* WritingFlash *)

\* FLASH_writeBuffer programs and verifies every byte.
ProgramSucceeds ==
    /\ hw = "program"
    /\ CanProgram(area[ses.addr], ses.dataBuf)
    /\ hw' = "none"
    /\ area' = [area EXCEPT ![ses.addr] = ses.dataBuf]
    /\ ses' = [ses EXCEPT !.addr = @ + 1, !.packetCurr = @ + 1]
    /\ errorCode' = "NONE"
    /\ flashQ' = Append(flashQ, FlashDone)
    /\ UNCHANGED <<commQ, st, armed, locked, meta, dirty, accepted>>

\* Mutant: the write position moves on although the write failed.
ProgramFails_MovesOn ==
    /\ hw = "program"
    /\ hw' = "none"
    /\ HalfProgrammed
    /\ ses' = [ses EXCEPT !.addr = @ + 1]
    /\ errorCode' = "FLASH_HW"
    /\ flashQ' = Append(flashQ, FlashErr)
    /\ UNCHANGED <<commQ, st, armed, locked, dirty, accepted>>

ProgramFails ==
    /\ hw = "program"
    /\ hw' = "none"
    /\ HalfProgrammed
    /\ errorCode' = "FLASH_HW"
    /\ flashQ' = Append(flashQ, FlashErr)
    /\ UNCHANGED <<commQ, st, ses, armed, locked, dirty, accepted>>

AskForNextPacket ==
    /\ st = "WritingFlash" /\ Take("FLASH_DONE")
    /\ ses.packetCurr # ses.packetExp
    /\ EnterWaitingForFWData
    /\ Drop
    /\ UNCHANGED <<ses, locked, hw, flash, accepted>>

\* Mutant: the image is not checked.
ImageMatches_Always == TRUE

\* All packets are in: the CRC of the image in flash decides.
ImageMatches == ses.offer.crc = Content(ses.offer.size)

StartCommit ==
    /\ st = "WritingFlash" /\ Take("FLASH_DONE")
    /\ ses.packetCurr = ses.packetExp
    /\ ImageMatches
    /\ hw' = "commit"
    /\ Drop
    /\ UNCHANGED <<commQ, st, errorCode, ses, armed, locked, flash, accepted>>

ImageMismatch ==
    /\ st = "WritingFlash" /\ Take("FLASH_DONE")
    /\ ses.packetCurr = ses.packetExp
    /\ ~ImageMatches
    /\ LeaveBusyFlash("INVALID_IMAGE_CRC_AFTER_FLASH")
    /\ Drop
    /\ UNCHANGED flash

\* FLASH_writeApplSize .. FLASH_writeApplBuildDatetime, in the code's order.
CommitField ==
    /\ hw = "commit"
    /\ CanProgram(meta[CurrField], FieldOf(ses.offer, CurrField))
    /\ meta' = [meta EXCEPT ![CurrField] = FieldOf(ses.offer, CurrField)]
    /\ UNCHANGED <<flashQ, area, dirty>>
    /\ IF ses.field < Len(MetaFields)
       THEN /\ ses' = [ses EXCEPT !.field = @ + 1]
            /\ errorCode' = "NONE"
            /\ UNCHANGED <<commQ, st, armed, locked, hw, accepted>>
       ELSE LeaveBusyFlash("NONE")

CommitFails ==
    /\ hw = "commit"
    /\ HalfCommitted
    /\ LeaveBusyFlash("FLASH_HW")
    /\ UNCHANGED <<flashQ, dirty>>

\* FLASH_ERROR_SIG: the retry counter is compared and never incremented.
RetryWrite ==
    /\ st = "WritingFlash" /\ Take("FLASH_ERROR")
    /\ ses.retryCurr < MaxRetries
    /\ EnterWritingFlash
    /\ Drop
    /\ UNCHANGED <<commQ, ses, locked, flash, accepted>>

GiveUpWrite ==
    /\ st = "WritingFlash" /\ Take("FLASH_ERROR")
    /\ ses.retryCurr >= MaxRetries
    /\ LeaveBusyFlash(errorCode)
    /\ Drop
    /\ UNCHANGED flash

-----------------------------------------------------------------------------
(* BusyFlash, inherited by its children *)

\* FLASH_TIMEOUT_SIG, and FLASH_ERROR_SIG except in WritingFlash.
SessionAborts ==
    /\ st \in BusyFlash
    /\ \E sig \in {"FLASH_TIMEOUT", "FLASH_ERROR"} :
           Take(sig) /\ (st = "WritingFlash" => sig = "FLASH_TIMEOUT")
    /\ LeaveBusyFlash(errorCode)
    /\ Drop
    /\ UNCHANGED flash

-----------------------------------------------------------------------------
(* BusyRam *)

ramUnchanged == <<locked, hw, flash, accepted>>

\* Entries of DataBusTest, AddrBusTest and DeviceTest.
EnterRamTest(test) ==
    /\ st' = test
    /\ errorCode' = "RAM_TIMEOUT"
    /\ flashQ' = Append(Tail(flashQ), RamStep)
    /\ UNCHANGED <<commQ, ses>>

\* Exit of BusyRam and entry of Idle.
LeaveBusyRam(err) ==
    /\ st' = "Idle"
    /\ commQ' = Append(commQ, RamDone(err, st))
    /\ errorCode' = "NONE"
    /\ ses' = [ses EXCEPT !.offer = NoOffer]
    /\ armed' = armed \ {"RAM_TIMEOUT"}
    /\ Drop

IdleRamTest ==
    /\ st = "Idle" /\ Take("RAM_TEST_START")
    /\ EnterRamTest("DataBusTest")
    /\ armed' = armed \cup {"RAM_TIMEOUT"}
    /\ UNCHANGED ramUnchanged

RamTestPasses ==
    /\ st \in BusyRam /\ Take("RAM_OP_START")
    /\ IF st = "DeviceTest"
       THEN LeaveBusyRam("NONE")
       ELSE /\ EnterRamTest(IF st = "DataBusTest" THEN "AddrBusTest"
                            ELSE "DeviceTest")
            /\ UNCHANGED armed
    /\ UNCHANGED ramUnchanged

RamTestFails ==
    /\ st \in BusyRam /\ Take("RAM_OP_START")
    /\ LeaveBusyRam("RAM_FAILED")
    /\ UNCHANGED ramUnchanged

RamTimeout ==
    /\ st \in BusyRam /\ Take("RAM_TIMEOUT")
    /\ LeaveBusyRam(errorCode)
    /\ UNCHANGED ramUnchanged

-----------------------------------------------------------------------------
(* Events that no active state handles reach QHsm_top, which ignores them. *)

Handled(state) ==
    CASE state = "Idle"             -> {"FLASH_OP_START", "RAM_TEST_START"}
      [] state = "PrepFlash"        -> {"FLASH_NEXT_STEP", "FLASH_OP_TIMEOUT",
                                        "FLASH_TIMEOUT", "FLASH_ERROR"}
      [] state = "ErasingSector"    -> {"FLASH_NEXT_STEP", "FLASH_OP_TIMEOUT",
                                        "FLASH_TIMEOUT", "FLASH_ERROR"}
      [] state = "WaitingForFWData" -> {"FLASH_DATA", "FLASH_TIMEOUT",
                                        "FLASH_ERROR"}
      [] state = "WritingFlash"     -> {"FLASH_DONE", "FLASH_ERROR",
                                        "FLASH_TIMEOUT"}
      [] state \in BusyRam          -> {"RAM_OP_START", "RAM_TIMEOUT"}

Ignore ==
    /\ hw = "none" /\ flashQ # <<>>
    /\ Head(flashQ).sig \notin Handled(st)
    /\ Drop
    /\ UNCHANGED <<commQ, st, errorCode, ses, armed, locked, hw, flash, accepted>>

-----------------------------------------------------------------------------
(* A time event: the tick interrupt posts it and disarms it, at any time. *)

TimerFires(sig) ==
    /\ sig \in armed
    /\ flashQ' = Append(flashQ, [sig |-> sig])
    /\ armed' = armed \ {sig}
    /\ UNCHANGED <<commQ, st, errorCode, ses, locked, hw, flash, accepted>>

(***************************************************************************)
(* Power is lost: the flash keeps what the interrupted operation left, the *)
(* rest starts again from its initial values.                              *)
(***************************************************************************)
PowerLoss ==
    /\ CASE hw = "erase"   -> HalfErased
         [] hw = "program" -> HalfProgrammed
         [] hw = "commit"  -> HalfCommitted
         [] hw = "none"    -> UNCHANGED <<area, meta>>
    /\ flashQ' = <<>> /\ commQ' = <<>>
    /\ st' = "Idle" /\ errorCode' = "NONE" /\ ses' = NewSession
    /\ armed' = {} /\ locked' = TRUE /\ hw' = "none"
    /\ accepted' = <<>>
    /\ UNCHANGED dirty

-----------------------------------------------------------------------------
(***************************************************************************)
(* CommMgr is the only poster of requests and has a lower priority than    *)
(* FlashMgr under the preemptive kernel, so it runs only when FlashMgr has *)
(* nothing left to do; it takes its replies at its own pace.               *)
(***************************************************************************)
\* Mutant: CommMgr has the higher priority.
Quiescent_Preempted == hw = "none" /\ Len(flashQ) < 2

Quiescent == hw = "none" /\ flashQ = <<>>

EnvPost(r) ==
    /\ Quiescent /\ Len(commQ) < CommLimit
    /\ flashQ' = Append(flashQ, r)
    /\ UNCHANGED <<commQ, st, errorCode, ses, armed, locked, hw, flash, accepted>>

EnvTake ==
    /\ Quiescent /\ commQ # <<>>
    /\ commQ' = Tail(commQ)
    /\ UNCHANGED <<flashQ, st, errorCode, ses, armed, locked, hw, flash, accepted>>

-----------------------------------------------------------------------------

Init ==
    /\ flashQ = <<>> /\ commQ = <<>>
    /\ st = "Idle" /\ errorCode = "NONE" /\ ses = NewSession
    /\ armed = {} /\ locked = TRUE /\ hw = "none"
    /\ area = [s \in Slots |-> Blank]
    /\ meta = [f \in {MetaFields[i] : i \in DOMAIN MetaFields} |-> Blank]
    /\ accepted = <<>> /\ dirty = FALSE

Operation == \/ EraseSucceeds \/ EraseFails \/ ProgramSucceeds \/ ProgramFails
             \/ CommitField \/ CommitFails

Dispatch ==
    \/ IdleStart \/ PrepRejects \/ PrepAccepts \/ PrepOpTimeout
    \/ EraseNextSector \/ AllErased \/ RetryErase \/ GiveUpErase
    \/ DataAccepted \/ DataCorrupt \/ DataOutOfSequence
    \/ AskForNextPacket \/ StartCommit \/ ImageMismatch
    \/ RetryWrite \/ GiveUpWrite \/ SessionAborts
    \/ IdleRamTest \/ RamTestPasses \/ RamTestFails \/ RamTimeout
    \/ Ignore

FlashMgrStep == Dispatch \/ Operation

Timer == \E sig \in TimeoutSignals : TimerFires(sig)

Next ==
    \/ FlashMgrStep
    \/ Timer
    \/ PowerLoss
    \/ EnvTake
    \/ \E r \in Requests : EnvPost(r)

Spec == Init /\ [][Next]_vars

(***************************************************************************)
(* Fairness: the kernel runs FlashMgr while it has an event, a flash       *)
(* operation ends, and an armed time event fires because the tick          *)
(* interrupt keeps counting.  Nothing is assumed of CommMgr.               *)
(***************************************************************************)
Fairness == /\ WF_vars(FlashMgrStep)
            /\ \A sig \in TimeoutSignals : WF_vars(TimerFires(sig))

LiveSpec == Spec /\ Fairness
-----------------------------------------------------------------------------
(* Correctness *)

MetaNames == {MetaFields[i] : i \in DOMAIN MetaFields}
Cells     == Chunks \cup {Blank, Torn}
Replies   == [sig : {"FLASH_OP_DONE"}, err : ErrorCodes]
                \cup [sig : {"RAM_TEST_DONE"}, err : ErrorCodes, test : BusyRam]

\* The types of the object's members, of its queues and of the flash.
TypeOK ==
    /\ flashQ \in Seq(Events)
    /\ commQ \in Seq(Replies)
    /\ st \in {"Idle"} \cup BusyFlash \cup BusyRam
    /\ errorCode \in ErrorCodes
    /\ ses \in Session
    /\ armed \subseteq TimeoutSignals
    /\ locked \in BOOLEAN
    /\ hw \in {"none", "erase", "program", "commit"}
    /\ area \in [Slots -> Cells]
    /\ meta = [f \in MetaNames |-> meta[f]]
    /\ meta["size"] \in {Blank, Torn} \/ meta["size"] \in Nat
    /\ meta["crc"] \in {Blank, Torn} \/ meta["crc"] \in Seq(Chunks)
    /\ \A f \in {"maj", "min", "date"} : meta[f] \in Versions \cup {Blank, Torn}
    /\ accepted \in Seq(Chunks)
    /\ dirty \in BOOLEAN

Queued(sigs) == \E i \in DOMAIN flashQ : flashQ[i].sig \in sigs

(***************************************************************************)
(* A session never stalls on itself and never runs a step twice: outside   *)
(* Idle and WaitingForFWData exactly one thing drives the machine on, the  *)
(* running flash operation or one event FlashMgr posted to itself.  A      *)
(* second FLASH_NEXT_STEP_SIG would skip a sector, a second                *)
(* FLASH_DONE_SIG a packet; none at all leaves the session to its 120 s    *)
(* timer.                                                                  *)
(***************************************************************************)
OneStepPending ==
    /\ \A i, j \in DOMAIN flashQ :
           {flashQ[i].sig, flashQ[j].sig} \cap TimeoutSignals = {} => i = j
    /\ hw # "none" => ~Queued({e.sig : e \in Events} \ TimeoutSignals)
    /\ st = "PrepFlash" => Queued({"FLASH_NEXT_STEP"})
    /\ st = "ErasingSector" => hw = "erase" \/ Queued({"FLASH_NEXT_STEP"})
    /\ st = "WaitingForFWData" => ~Queued(SelfSignals)
    /\ st = "WritingFlash" =>
          hw \in {"program", "commit"} \/ Queued({"FLASH_DONE", "FLASH_ERROR"})
    /\ st \in BusyRam => Queued({"RAM_OP_START"})

(***************************************************************************)
(* While a session takes data, the area holds exactly the packets taken so *)
(* far, in order and each once, and erased flash wherever the next packets *)
(* of the image will go, whatever was retried on the way.                  *)
(***************************************************************************)
AreaHoldsPackets ==
    st \in {"WaitingForFWData", "WritingFlash"} =>
        /\ ses.packetCurr <= Len(accepted)
        /\ \A i \in 1 .. ses.packetCurr : area[i] = accepted[i]
        /\ \A s \in Slots :
              s > Len(accepted) /\ s <= ses.offer.size => area[s] = Blank

(***************************************************************************)
(* Metadata never vouches for another content than the one in flash, also  *)
(* after a loss of power, except while a session is erasing the old image: *)
(* the metadata sector is erased last, and what such a session leaves      *)
(* behind must be rejected by computing the CRC again.                     *)
(***************************************************************************)
MetadataHonest ==
    HasMetadata /\ ~dirty => meta["crc"] = Content(meta["size"])

Reports(err) == commQ' = Append(commQ, OpDone(err))

ReadyForPacket ==
    /\ \A f \in MetaNames : meta'[f] = Blank
    /\ Len(accepted) = ses'.packetCurr
    /\ ses'.packetCurr < ses'.offer.num

ImageInstalled ==
    /\ \A f \in MetaNames : meta'[f] = FieldOf(ses.offer, f)
    /\ ~dirty'
    /\ ses.offer.crc = [i \in 1 .. ses.offer.size |-> accepted[i]]

TrueReport ==
    Reports("NONE") /\ ~Take("FLASH_TIMEOUT") =>
        IF st' = "WaitingForFWData" THEN ReadyForPacket ELSE ImageInstalled

\* A FLASH_OP_DONE_SIG without error, other than one the session timeout
\* sends, means what CommMgr reports to the client: the flash is ready for
\* the first packet, or holds the packet, or holds image and metadata.
SuccessIsReal == [][TrueReport]_vars

\* Every session and every RAM test comes to an end, and with it a reply to
\* CommMgr, whatever the flash does and even if no packet ever comes.
SessionEnds == (st # "Idle") ~> (st = "Idle")

\* The store that the flash and the session amount to.
installed == IF HasMetadata /\ ~dirty THEN meta["crc"] ELSE Blank
staged    == IF st \in {"WaitingForFWData", "WritingFlash"}
             THEN Content(ses.packetCurr) ELSE <<>>
Store == INSTANCE FwStore WITH None <- Blank

\* FlashMgr implements the abstract update store.
ImplementsStore == Store!Spec

\* The request FlashMgr works on: in its queue, or behind its state.
CurrentJob ==
    IF Queued({"FLASH_OP_START"}) \/ st \in {"PrepFlash", "ErasingSector"}
    THEN "start"
    ELSE IF Queued({"FLASH_DATA"}) \/ st = "WritingFlash" THEN "data"
    ELSE IF Queued({"RAM_TEST_START"}) \/ st \in BusyRam THEN "ram"
    ELSE "none"

Outcome(reply) ==
    [sig |-> reply.sig,
     err |-> CASE reply.err = "NONE"                  -> "NONE"
               [] reply.err = "WAIT_FOR_DATA_TIMEOUT" -> "EXPIRED"
               [] OTHER                               -> "FAILED"]

\* Whatever the flash does, FlashMgr gets done with every request.
JobEnds == CurrentJob # "none" ~> CurrentJob = "none"

open     == st \in {"WaitingForFWData", "WritingFlash"}
bootable == HasMetadata /\ meta["crc"] = Content(meta["size"])
outcomes == [i \in DOMAIN commQ |-> Outcome(commQ[i])]
Service  == INSTANCE FlashService WITH commQ <- outcomes, job <- CurrentJob

\* FlashMgr behaves towards CommMgr as the service CommMgr is modelled with:
\* one reply to a request it can take, none to others, and one that nobody
\* asked for when the session timer ends the wait for data.
ImplementsService == Service!ServiceSpec

-----------------------------------------------------------------------------
(* What the comments of FlashMgr.c say and the code does not do *)

\* "Set the timeout error code": a session that times out while a packet is
\* written is reported to CommMgr as an error.
TimeoutIsAnError ==
    [][st = "WritingFlash" /\ Take("FLASH_TIMEOUT") => ~Reports("NONE")]_vars

\* "retry %d out of %d max": writing a packet again counts as a retry.
RetriesAreCounted ==
    [][st = "WritingFlash" /\ Take("FLASH_ERROR") /\ hw' = "program" =>
          ses'.retryCurr = ses.retryCurr + 1]_vars

\* "Waiting (with a timeout) to receive the packet": the timeout of the wait
\* for a packet ends the wait.
WaitForDataTimesOut ==
    [][st = "WaitingForFWData" /\ Take("FLASH_OP_TIMEOUT") /\ Drop =>
          st' # "WaitingForFWData"]_vars

\* "Timed out while preparing flash for FW update": the operation timer ends
\* the preparation only when it was started for it.
PrepHasItsOwnTimer ==
    [][st = "PrepFlash" /\ Take("FLASH_OP_TIMEOUT") => ~Drop]_vars
=============================================================================
