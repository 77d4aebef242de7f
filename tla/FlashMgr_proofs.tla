--------------------------- MODULE FlashMgr_proofs ---------------------------
(***************************************************************************)
(* FlashMgr for every number and size of sectors, every set of images,     *)
(* chunks and versions and every retry limit: its members and the flash    *)
(* keep their types, stored metadata never vouches for another content     *)
(* than the one in flash, one step at a time drives a session, the area    *)
(* holds the packets taken, a reply without error is true, and FlashMgr    *)
(* implements the abstract store and the service CommMgr is built on.      *)
(*                                                                         *)
(* Each inductive invariant contains the one before: HonestInv, StepInv,   *)
(* FullInv and, for the service, ServiceInv.                               *)
(***************************************************************************)
EXTENDS FlashMgr, SequenceTheorems, TLAPS

-----------------------------------------------------------------------------
(* Facts about the constants *)

LEMMA MetaFieldsAre ==
    /\ MetaNames = {"size", "crc", "maj", "min", "date"}
    /\ DOMAIN MetaFields = 1 .. 5 /\ Len(MetaFields) = 5
    /\ MetaFields[1] = "size" /\ MetaFields[2] = "crc" /\ MetaFields[3] = "maj"
    /\ MetaFields[4] = "min" /\ MetaFields[5] = "date"
<1>1. /\ DOMAIN MetaFields = 1 .. 5 /\ Len(MetaFields) = 5
      /\ MetaFields[1] = "size" /\ MetaFields[2] = "crc" /\ MetaFields[3] = "maj"
      /\ MetaFields[4] = "min" /\ MetaFields[5] = "date"
  BY DEF MetaFields
<1>2. \A i \in 1 .. 5 : i \in {1, 2, 3, 4, 5}
  OBVIOUS
<1>. QED BY <1>1, <1>2 DEF MetaNames

LEMMA OfferTypes == Offers \cup {NoOffer} \subseteq OfferType
<1>1. 1 \in Slots
  <2>1. AppSectors \in Nat \ {0} /\ SectorSlots \in Nat \ {0}
    BY SizesAssumption
  <2>2. AppSectors * SectorSlots \in Nat /\ AppSectors * SectorSlots >= 1
    BY <2>1
  <2>. QED BY <2>2 DEF Slots
<1>2. (CHOOSE v \in Versions : TRUE) \in Versions
  BY SizesAssumption
<1>3. <<>> \in Seq(Chunks)
  OBVIOUS
<1>4. NoOffer \in OfferType
  <2>1. 0 \in Nat
    OBVIOUS
  <2>. QED BY <1>1, <1>2, <1>3, <2>1, Zenon DEF NoOffer, OfferType
<1>. QED BY <1>4, OffersAssumption

\* The list of sectors names sectors of the area, and the metadata sector
\* last and only there.
LEMMA SectorList ==
    ASSUME NEW n \in Nat, n < AppSectors * SectorSlots
    PROVE  /\ SectorsToErase(n) \in Seq(0 .. AppSectors)
           /\ Len(SectorsToErase(n)) \in Nat \ {0}
           /\ \A i \in 1 .. Len(SectorsToErase(n)) :
                 SectorsToErase(n)[i] = MetaSector
                    <=> i = Len(SectorsToErase(n))
<1>. DEFINE q == n \div SectorSlots
<1>1. AppSectors \in Nat \ {0} /\ SectorSlots \in Nat \ {0}
  BY SizesAssumption
<1>2. q \in Nat /\ q * SectorSlots <= n
  BY <1>1
<1>. HIDE DEF q
<1>3. q < AppSectors
  <2>1. SUFFICES ASSUME q >= AppSectors PROVE FALSE
    BY <1>1, <1>2
  <2>2. q * SectorSlots >= AppSectors * SectorSlots
    BY <1>1, <1>2, <2>1
  <2>3. AppSectors * SectorSlots \in Nat /\ q * SectorSlots \in Nat
    BY <1>1, <1>2
  <2>. QED BY <1>2, <2>2, <2>3
<1>4. SectorsToErase(n) = [i \in 1 .. q + 2 |-> IF i <= q + 1 THEN i ELSE 0]
  BY <1>2 DEF SectorsToErase, q, MetaSector
<1>5. SectorsToErase(n) \in Seq(0 .. AppSectors)
  BY <1>1, <1>2, <1>3, <1>4
<1>6. Len(SectorsToErase(n)) = q + 2
  BY <1>2, <1>4
<1>. QED BY <1>2, <1>4, <1>5, <1>6 DEF MetaSector

-----------------------------------------------------------------------------
(* Types *)

\* TypeOK by parts: the queues, the object's members and the flash.
QueueTypes == flashQ \in Seq(Events) /\ commQ \in Seq(Replies)
ObjectTypes ==
    /\ st \in {"Idle"} \cup BusyFlash \cup BusyRam
    /\ errorCode \in ErrorCodes
    /\ ses \in Session
    /\ armed \subseteq TimeoutSignals
    /\ locked \in BOOLEAN
    /\ hw \in {"none", "erase", "program", "commit"}
    /\ accepted \in Seq(Chunks)
MetaTypes(m) ==
    /\ m = [f \in MetaNames |-> m[f]]
    /\ m["size"] \in {Blank, Torn} \/ m["size"] \in Nat
    /\ m["crc"] \in {Blank, Torn} \/ m["crc"] \in Seq(Chunks)
    /\ \A f \in {"maj", "min", "date"} : m[f] \in Versions \cup {Blank, Torn}
FlashTypes == area \in [Slots -> Cells] /\ MetaTypes(meta) /\ dirty \in BOOLEAN

LEMMA TypeParts == TypeOK <=> QueueTypes /\ ObjectTypes /\ FlashTypes
BY DEF TypeOK, QueueTypes, ObjectTypes, FlashTypes, MetaTypes

LEMMA TypePartsNext == TypeOK' <=> QueueTypes' /\ ObjectTypes' /\ FlashTypes'
BY DEF TypeOK, QueueTypes, ObjectTypes, FlashTypes, MetaTypes

\* The event at the head of the queue, and what is left of the queue.
LEMMA HeadEvent ==
    ASSUME TypeOK, NEW sig, Take(sig)
    PROVE  /\ Head(flashQ) \in Events /\ Head(flashQ).sig = sig
           /\ Tail(flashQ) \in Seq(Events)
           /\ Drop => flashQ' \in Seq(Events)
<1>1. flashQ \in Seq(Events) /\ flashQ # <<>> /\ Head(flashQ).sig = sig
  BY DEF TypeOK, Take
<1>2. Head(flashQ) \in Events /\ Tail(flashQ) \in Seq(Events)
  BY <1>1, HeadTailProperties
<1>. QED BY <1>1, <1>2 DEF Drop

LEMMA EventTypes ==
    ASSUME NEW e \in Events
    PROVE  /\ e.sig = "FLASH_OP_START" => e.meta \in Offers
           /\ e.sig = "FLASH_DATA" => e.chunk \in Chunks
<1>1. CASE e \in [sig : SelfSignals \cup TimeoutSignals]
  <2>1. e.sig \in SelfSignals \cup TimeoutSignals
    BY <1>1
  <2>. QED BY <2>1 DEF SelfSignals, TimeoutSignals
<1>2. CASE e \in StartRequests
  BY <1>2 DEF StartRequests
<1>3. CASE e \in DataRequests
  BY <1>3 DEF DataRequests
<1>4. CASE e \in RamRequests
  BY <1>4 DEF RamRequests
<1>. QED BY <1>1, <1>2, <1>3, <1>4 DEF Events, Requests

\* What FlashMgr and the tick interrupt post is an event.
LEMMA PostedTypes ==
    /\ {NextStep, FlashDone, FlashErr, RamStep} \subseteq Events
    /\ \A sig \in TimeoutSignals : [sig |-> sig] \in Events
BY DEF Events, NextStep, FlashDone, FlashErr, RamStep, SelfSignals, TimeoutSignals

LEMMA ReplyTypes ==
    ASSUME NEW err \in ErrorCodes
    PROVE  OpDone(err) \in Replies
           /\ \A t \in BusyRam : RamDone(err, t) \in Replies
BY DEF OpDone, RamDone, Replies

\* Leaving BusyFlash for Idle keeps the types, with any error code.
LEMMA LeaveTypes ==
    ASSUME TypeOK, NEW err \in ErrorCodes, LeaveBusyFlash(err)
    PROVE  ObjectTypes' /\ commQ' \in Seq(Replies)
<1>1. commQ' \in Seq(Replies)
  BY ReplyTypes DEF LeaveBusyFlash, TypeOK
<1>2. ses' \in Session
  <2>1. 1 \in DOMAIN MetaFields
    BY MetaFieldsAre
  <2>. QED BY <2>1 DEF LeaveBusyFlash, TypeOK, Session
<1>3. armed' \subseteq TimeoutSignals
  BY DEF LeaveBusyFlash, ArmedOnExit, TypeOK
<1>4. errorCode' \in ErrorCodes
  BY DEF LeaveBusyFlash, ErrorCodes
<1>. QED BY <1>1, <1>2, <1>3, <1>4 DEF LeaveBusyFlash, ObjectTypes, TypeOK

LEMMA EndOfSessionTypes ==
    ASSUME TypeOK, NEW sig, Take(sig), NEW err \in ErrorCodes,
           LeaveBusyFlash(err), Drop, UNCHANGED flash
    PROVE  TypeOK'
<1>1. ObjectTypes' /\ commQ' \in Seq(Replies)
  BY LeaveTypes
<1>2. flashQ' \in Seq(Events)
  BY HeadEvent
<1>3. FlashTypes'
  BY DEF flash, TypeOK, FlashTypes, MetaTypes
<1>. QED BY <1>1, <1>2, <1>3, TypePartsNext DEF QueueTypes

\* The handlers that end a session in one step.
LEMMA EndsKeepTypes ==
    ASSUME TypeOK,
           \/ PrepRejects \/ PrepOpTimeout \/ GiveUpErase \/ DataCorrupt
           \/ DataOutOfSequence \/ ImageMismatch \/ GiveUpWrite \/ SessionAborts
    PROVE  TypeOK'
<1>0. errorCode \in ErrorCodes
      /\ {"INVALID_META", "ERASE_TIMEOUT", "INVALID_FW_PACKET_CRC",
          "INVALID_IMAGE_CRC_AFTER_FLASH"} \subseteq ErrorCodes
  BY DEF TypeOK, ErrorCodes
<1>1. CASE PrepRejects
  <2>1. ValidateMetadata(ses.offer) = "INVALID_META"
    BY <1>1 DEF PrepRejects, ValidateMetadata
  <2>. QED BY <1>0, <1>1, <2>1, EndOfSessionTypes DEF PrepRejects
<1>2. CASE PrepOpTimeout
  BY <1>0, <1>2, EndOfSessionTypes DEF PrepOpTimeout
<1>3. CASE GiveUpErase
  BY <1>0, <1>3, EndOfSessionTypes DEF GiveUpErase
<1>4. CASE DataCorrupt
  BY <1>0, <1>4, EndOfSessionTypes DEF DataCorrupt
<1>5. CASE DataOutOfSequence
  BY <1>0, <1>5, EndOfSessionTypes DEF DataOutOfSequence
<1>6. CASE ImageMismatch
  BY <1>0, <1>6, EndOfSessionTypes DEF ImageMismatch
<1>7. CASE GiveUpWrite
  BY <1>0, <1>7, EndOfSessionTypes DEF GiveUpWrite
<1>8. CASE SessionAborts
  BY <1>0, <1>8, EndOfSessionTypes DEF SessionAborts
<1>. QED BY <1>1, <1>2, <1>3, <1>4, <1>5, <1>6, <1>7, <1>8

\* The handlers that start a flash operation or ask for a packet.
LEMMA HandlersKeepTypes ==
    ASSUME TypeOK,
           \/ PrepAccepts \/ EraseNextSector \/ AllErased \/ RetryErase
           \/ DataAccepted \/ AskForNextPacket \/ StartCommit \/ RetryWrite
    PROVE  TypeOK'
<1>0. /\ armed \cup {"FLASH_OP_TIMEOUT"} \subseteq TimeoutSignals
      /\ {"NONE", "WAIT_FOR_DATA_TIMEOUT", "WRITE_TIMEOUT"} \subseteq ErrorCodes
      /\ {"ErasingSector", "WaitingForFWData", "WritingFlash"} \subseteq BusyFlash
  BY DEF TypeOK, TimeoutSignals, ErrorCodes, BusyFlash
<1>1. CASE PrepAccepts
  <2>1. flashQ' \in Seq(Events)
    BY <1>1, HeadEvent DEF PrepAccepts
  <2>2. ses' \in Session
    <3>1. ses.offer \in OfferType
      BY OfferTypes DEF TypeOK, Session
    <3>2. ses.offer.size \in Nat /\ ses.offer.num \in Nat
      BY <3>1, SizesAssumption DEF OfferType, Slots
    <3>3. ses.offer.size < AppSectors * SectorSlots
      BY <1>1 DEF PrepAccepts, ValidateMetadata
    <3>4. SectorsToErase(ses.offer.size) \in Seq(0 .. AppSectors)
      BY <3>2, <3>3, SectorList
    <3>. QED BY <1>1, <3>2, <3>4 DEF PrepAccepts, TypeOK, Session
  <2>. QED
    BY <1>0, <1>1, <2>1, <2>2
    DEF PrepAccepts, EnterErasingSector, TypeOK, MetaTypes
<1>2. CASE EraseNextSector
  <2>1. flashQ' \in Seq(Events)
    BY <1>2, HeadEvent DEF EraseNextSector
  <2>2. ses' \in Session
    <3>1. ses.index + 1 \in Nat
      BY DEF TypeOK, Session
    <3>. QED BY <1>2, <3>1 DEF EraseNextSector, TypeOK, Session
  <2>. QED
    BY <1>0, <1>2, <2>1, <2>2 DEF EraseNextSector, EnterErasingSector, flash, TypeOK
<1>3. CASE AllErased
  <2>1. flashQ' \in Seq(Events)
    BY <1>3, HeadEvent DEF AllErased
  <2>2. ses' \in Session
    <3>1. ses.index + 1 \in Nat
      BY DEF TypeOK, Session
    <3>. QED BY <1>3, <3>1 DEF AllErased, TypeOK, Session
  <2>3. commQ' \in Seq(Replies)
    BY <1>3, ReplyTypes DEF AllErased, EnterWaitingForFWData, TypeOK
  <2>. QED
    BY <1>0, <1>3, <2>1, <2>2, <2>3
    DEF AllErased, EnterWaitingForFWData, flash, TypeOK
<1>4. CASE RetryErase
  <2>1. flashQ' \in Seq(Events)
    BY <1>4, HeadEvent DEF RetryErase
  <2>2. ses' \in Session
    <3>1. ses.retryCurr + 1 \in Nat
      BY DEF TypeOK, Session
    <3>. QED BY <1>4, <3>1 DEF RetryErase, TypeOK, Session
  <2>. QED
    BY <1>0, <1>4, <2>1, <2>2 DEF RetryErase, EnterErasingSector, flash, TypeOK
<1>5. CASE DataAccepted
  <2>1. flashQ' \in Seq(Events) /\ Head(flashQ).chunk \in Chunks
    BY <1>5, HeadEvent, EventTypes DEF DataAccepted
  <2>2. ses' \in Session
    BY <1>5, <2>1 DEF DataAccepted, TypeOK, Session
  <2>3. accepted' \in Seq(Chunks)
    BY <1>5, <2>1 DEF DataAccepted, TypeOK
  <2>. QED
    BY <1>0, <1>5, <2>1, <2>2, <2>3
    DEF DataAccepted, EnterWritingFlash, flash, TypeOK
<1>6. CASE AskForNextPacket
  <2>1. flashQ' \in Seq(Events)
    BY <1>6, HeadEvent DEF AskForNextPacket
  <2>2. commQ' \in Seq(Replies)
    BY <1>6, ReplyTypes DEF AskForNextPacket, EnterWaitingForFWData, TypeOK
  <2>. QED
    BY <1>0, <1>6, <2>1, <2>2
    DEF AskForNextPacket, EnterWaitingForFWData, flash, TypeOK
<1>7. CASE StartCommit
  <2>1. flashQ' \in Seq(Events)
    BY <1>7, HeadEvent DEF StartCommit
  <2>. QED BY <1>7, <2>1 DEF StartCommit, flash, TypeOK
<1>8. CASE RetryWrite
  <2>1. flashQ' \in Seq(Events)
    BY <1>8, HeadEvent DEF RetryWrite
  <2>. QED BY <1>0, <1>8, <2>1 DEF RetryWrite, EnterWritingFlash, flash, TypeOK
<1>. QED BY <1>1, <1>2, <1>3, <1>4, <1>5, <1>6, <1>7, <1>8

LEMMA IdleStartKeepsTypes == ASSUME TypeOK, IdleStart PROVE TypeOK'
<1>1. /\ Head(flashQ).meta \in Offers /\ Tail(flashQ) \in Seq(Events)
      /\ NextStep \in Events
  BY HeadEvent, EventTypes, PostedTypes DEF IdleStart
<1>2. flashQ' \in Seq(Events)
  BY <1>1 DEF IdleStart
<1>3. ses' \in Session
  <2>1. 0 \in Nat /\ <<>> \in Seq(0 .. AppSectors)
    OBVIOUS
  <2>. QED BY <1>1, <2>1, Zenon DEF IdleStart, TypeOK, Session
<1>4. armed' \subseteq TimeoutSignals
  BY DEF IdleStart, TypeOK, TimeoutSignals
<1>5. st' \in BusyFlash /\ accepted' \in Seq(Chunks)
  BY DEF IdleStart, BusyFlash
<1>. QED BY <1>2, <1>3, <1>4, <1>5 DEF IdleStart, flash, TypeOK

\* An erase or a programming operation that does not complete.
LEMMA HalfDoneTypes ==
    ASSUME TypeOK, HalfErased \/ HalfProgrammed \/ HalfCommitted
    PROVE  area' \in [Slots -> Cells] /\ MetaTypes(meta)'
<1>0. /\ area \in [Slots -> Cells] /\ MetaTypes(meta) /\ Torn \in Cells
      /\ DOMAIN meta = MetaNames
  BY DEF TypeOK, MetaTypes, Cells
<1>1. CASE HalfErased
  <2>1. area' \in [Slots -> Cells]
    BY <1>0, <1>1 DEF HalfErased
  <2>2. ASSUME meta' = meta PROVE MetaTypes(meta)'
    BY <1>0, <2>2 DEF MetaTypes
  <2>3. ASSUME meta' = [f \in DOMAIN meta |-> Torn] PROVE MetaTypes(meta)'
    <3>1. meta' = [f \in MetaNames |-> Torn]
      BY <1>0, <2>3
    <3>. QED BY <3>1, MetaFieldsAre DEF MetaTypes
  <2>. QED BY <1>1, <2>1, <2>2, <2>3 DEF HalfErased
<1>2. CASE HalfProgrammed
  <2>1. PICK c \in {area[ses.addr], Torn} : area' = [area EXCEPT ![ses.addr] = c]
    BY <1>2 DEF HalfProgrammed
  <2>2. area' \in [Slots -> Cells]
    BY <1>0, <2>1
  <2>. QED BY <1>0, <1>2, <2>2 DEF HalfProgrammed, MetaTypes
<1>3. CASE HalfCommitted
  <2>1. PICK c \in {meta[CurrField], Torn} : meta' = [meta EXCEPT ![CurrField] = c]
    BY <1>3 DEF HalfCommitted
  <2>2. area' \in [Slots -> Cells]
    BY <1>0, <1>3 DEF HalfCommitted
  <2>3. CurrField \in MetaNames
    BY DEF CurrField, MetaNames, TypeOK, Session
  <2>4. \A f \in MetaNames : meta'[f] \in {meta[f], Torn}
    BY <1>0, <2>1, <2>3
  <2>5. meta' = [f \in MetaNames |-> meta'[f]]
    BY <1>0, <2>1
  <2>. QED BY <1>0, <2>2, <2>4, <2>5, MetaFieldsAre DEF MetaTypes
<1>. QED BY <1>1, <1>2, <1>3

LEMMA OperationsKeepTypes == ASSUME TypeOK, Operation PROVE TypeOK'
<1>0. /\ {"NONE", "FLASH_HW"} \subseteq ErrorCodes
      /\ {NextStep, FlashDone, FlashErr} \subseteq Events
      /\ Blank \in Cells /\ DOMAIN meta = MetaNames
  BY PostedTypes DEF ErrorCodes, Cells, TypeOK
<1>1. CASE EraseSucceeds
  <2>1. area' \in [Slots -> Cells]
    BY <1>0, <1>1 DEF EraseSucceeds, TypeOK
  <2>2. MetaTypes(meta)'
    <3>1. CASE meta' = [f \in DOMAIN meta |-> Blank]
      <4>1. meta' = [f \in MetaNames |-> Blank]
        BY <1>0, <3>1
      <4>. QED BY <4>1, MetaFieldsAre DEF MetaTypes
    <3>2. CASE meta' = meta
      BY <3>2 DEF TypeOK, MetaTypes
    <3>. QED BY <1>1, <3>1, <3>2 DEF EraseSucceeds
  <2>3. dirty' \in BOOLEAN
    BY <1>1 DEF EraseSucceeds
  <2>4. flashQ' \in Seq(Events)
    BY <1>0, <1>1 DEF EraseSucceeds, TypeOK
  <2>. QED
    BY <1>0, <1>1, <2>1, <2>2, <2>3, <2>4, TypePartsNext
    DEF EraseSucceeds, TypeOK, QueueTypes, ObjectTypes, FlashTypes
<1>2. CASE EraseFails
  <2>1. flashQ' \in Seq(Events)
    BY <1>0, <1>2 DEF EraseFails, TypeOK
  <2>. QED
    BY <1>0, <1>2, <2>1, HalfDoneTypes, TypePartsNext
    DEF EraseFails, TypeOK, QueueTypes, ObjectTypes, FlashTypes
<1>3. CASE ProgramSucceeds
  <2>1. area' \in [Slots -> Cells]
    BY <1>3 DEF ProgramSucceeds, TypeOK, Session, Cells
  <2>2. ses' \in Session
    <3>1. ses.addr + 1 \in Nat /\ ses.packetCurr + 1 \in Nat
      BY DEF TypeOK, Session
    <3>. QED BY <1>3, <3>1 DEF ProgramSucceeds, TypeOK, Session
  <2>3. flashQ' \in Seq(Events)
    BY <1>0, <1>3 DEF ProgramSucceeds, TypeOK
  <2>. QED BY <1>0, <1>3, <2>1, <2>2, <2>3 DEF ProgramSucceeds, TypeOK
<1>4. CASE ProgramFails
  <2>1. flashQ' \in Seq(Events)
    BY <1>0, <1>4 DEF ProgramFails, TypeOK
  <2>. QED
    BY <1>0, <1>4, <2>1, HalfDoneTypes, TypePartsNext
    DEF ProgramFails, TypeOK, QueueTypes, ObjectTypes, FlashTypes
<1>5. CASE CommitField
  <2>1. /\ ses.offer.size \in Nat /\ ses.offer.crc \in Seq(Chunks)
        /\ ses.offer.ver \in Versions
    BY OfferTypes DEF TypeOK, Session, OfferType
  <2>2. CurrField \in MetaNames
    BY DEF CurrField, MetaNames, TypeOK, Session
  <2>3. /\ meta' = [f \in MetaNames |-> meta'[f]]
        /\ \A f \in MetaNames : meta'[f] \in {meta[f], FieldOf(ses.offer, f)}
    BY <1>0, <1>5, <2>2 DEF CommitField, TypeOK
  <2>4. MetaTypes(meta)'
    BY <2>1, <2>3, MetaFieldsAre DEF MetaTypes, FieldOf, TypeOK
  <2>5. ObjectTypes' /\ commQ' \in Seq(Replies)
    <3>1. CASE ses.field < Len(MetaFields)
      <4>1. ses.field + 1 \in DOMAIN MetaFields
        BY <3>1, MetaFieldsAre DEF TypeOK, Session
      <4>2. ses' \in Session
        BY <1>5, <3>1, <4>1 DEF CommitField, TypeOK, Session
      <4>. QED
        BY <1>0, <1>5, <3>1, <4>2 DEF CommitField, TypeOK, ObjectTypes
    <3>2. CASE ~(ses.field < Len(MetaFields))
      BY <1>0, <1>5, <3>2, LeaveTypes DEF CommitField
    <3>. QED BY <3>1, <3>2
  <2>. QED
    BY <1>5, <2>4, <2>5, TypePartsNext
    DEF CommitField, TypeOK, QueueTypes, FlashTypes
<1>6. CASE CommitFails
  <2>1. ObjectTypes' /\ commQ' \in Seq(Replies)
    BY <1>0, <1>6, LeaveTypes DEF CommitFails
  <2>. QED
    BY <1>6, <2>1, HalfDoneTypes, TypePartsNext
    DEF CommitFails, TypeOK, QueueTypes, FlashTypes
<1>. QED BY <1>1, <1>2, <1>3, <1>4, <1>5, <1>6 DEF Operation

\* The RAM test leaves the flash and the update session alone.
LEMMA RamKeepsTypes ==
    ASSUME TypeOK, IdleRamTest \/ RamTestPasses \/ RamTestFails \/ RamTimeout
    PROVE  TypeOK'
<1>0. /\ errorCode \in ErrorCodes
      /\ {"NONE", "RAM_TIMEOUT", "RAM_FAILED"} \subseteq ErrorCodes
      /\ RamStep \in Events /\ "RAM_TIMEOUT" \in TimeoutSignals
      /\ {"DataBusTest", "AddrBusTest", "DeviceTest"} = BusyRam
  BY PostedTypes DEF TypeOK, ErrorCodes, TimeoutSignals, BusyRam
<1>1. ASSUME NEW t \in BusyRam, NEW sig, Take(sig), EnterRamTest(t),
             ramUnchanged' = ramUnchanged, armed' \subseteq TimeoutSignals
      PROVE  TypeOK'
  <2>1. flashQ' \in Seq(Events)
    BY <1>0, <1>1, HeadEvent DEF EnterRamTest
  <2>. QED BY <1>0, <1>1, <2>1 DEF EnterRamTest, ramUnchanged, flash, TypeOK
<1>2. ASSUME NEW sig, Take(sig), NEW err \in ErrorCodes, st \in BusyRam,
             LeaveBusyRam(err), ramUnchanged' = ramUnchanged
      PROVE  TypeOK'
  <2>1. flashQ' \in Seq(Events)
    BY <1>2, HeadEvent DEF LeaveBusyRam
  <2>2. ses' \in Session
    BY <1>2 DEF LeaveBusyRam, TypeOK, Session
  <2>3. commQ' \in Seq(Replies)
    BY <1>2, ReplyTypes DEF LeaveBusyRam, TypeOK
  <2>. QED
    BY <1>0, <1>2, <2>1, <2>2, <2>3 DEF LeaveBusyRam, ramUnchanged, flash, TypeOK
<1>3. CASE IdleRamTest
  BY <1>0, <1>1, <1>3 DEF IdleRamTest, ramUnchanged, TypeOK
<1>4. CASE RamTestPasses
  BY <1>0, <1>1, <1>2, <1>4 DEF RamTestPasses, ramUnchanged, TypeOK
<1>5. CASE RamTestFails
  BY <1>0, <1>2, <1>5 DEF RamTestFails, ramUnchanged
<1>6. CASE RamTimeout
  BY <1>0, <1>2, <1>6 DEF RamTimeout, ramUnchanged
<1>. QED BY <1>3, <1>4, <1>5, <1>6

\* What happens around FlashMgr: time, power and CommMgr.
LEMMA EnvironmentKeepsTypes ==
    ASSUME TypeOK,
           \/ Ignore \/ Timer \/ PowerLoss \/ EnvTake
           \/ \E r \in Requests : EnvPost(r)
    PROVE  TypeOK'
<1>1. CASE Ignore
  <2>1. Tail(flashQ) \in Seq(Events)
    BY <1>1, HeadTailProperties DEF Ignore, TypeOK
  <2>. QED BY <1>1, <2>1 DEF Ignore, Drop, flash, TypeOK
<1>2. CASE Timer
  <2>1. PICK sig \in TimeoutSignals : TimerFires(sig)
    BY <1>2 DEF Timer
  <2>2. flashQ' \in Seq(Events)
    BY <2>1, PostedTypes DEF TimerFires, TypeOK
  <2>. QED BY <2>1, <2>2 DEF TimerFires, flash, TypeOK
<1>3. CASE PowerLoss
  <2>1. area' \in [Slots -> Cells] /\ MetaTypes(meta)'
    <3>1. HalfErased \/ HalfProgrammed \/ HalfCommitted \/ UNCHANGED <<area, meta>>
      BY <1>3 DEF PowerLoss, TypeOK
    <3>2. ASSUME UNCHANGED <<area, meta>>
          PROVE  area' \in [Slots -> Cells] /\ MetaTypes(meta)'
      BY <3>2 DEF TypeOK, MetaTypes
    <3>. QED BY <3>1, <3>2, HalfDoneTypes
  <2>2. ses' \in Session
    <3>1. 0 \in Nat /\ <<>> \in Seq(0 .. AppSectors) /\ 1 \in DOMAIN MetaFields
      BY MetaFieldsAre
    <3>2. NewSession \in Session
      BY <3>1, Zenon DEF NewSession, Session
    <3>. QED BY <1>3, <3>2 DEF PowerLoss
  <2>3. /\ flashQ' \in Seq(Events) /\ commQ' \in Seq(Replies)
        /\ accepted' \in Seq(Chunks) /\ "NONE" \in ErrorCodes
    BY <1>3 DEF PowerLoss, ErrorCodes
  <2>. QED
    BY <1>3, <2>1, <2>2, <2>3, TypePartsNext
    DEF PowerLoss, TypeOK, QueueTypes, ObjectTypes, FlashTypes
<1>4. CASE EnvTake
  <2>1. Tail(commQ) \in Seq(Replies)
    BY <1>4, HeadTailProperties DEF EnvTake, TypeOK
  <2>. QED BY <1>4, <2>1 DEF EnvTake, flash, TypeOK
<1>5. CASE \E r \in Requests : EnvPost(r)
  <2>1. PICK r \in Requests : EnvPost(r)
    BY <1>5
  <2>2. flashQ' \in Seq(Events)
    <3>1. r \in Events
      BY DEF Events
    <3>. QED BY <2>1, <3>1 DEF EnvPost, TypeOK
  <2>. QED BY <2>1, <2>2 DEF EnvPost, flash, TypeOK
<1>. QED BY <1>1, <1>2, <1>3, <1>4, <1>5

LEMMA InitiallyTyped == Init => TypeOK
<1>. SUFFICES ASSUME Init PROVE TypeOK
  OBVIOUS
<1>1. ses \in Session
  <2>1. 0 \in Nat /\ <<>> \in Seq(0 .. AppSectors) /\ 1 \in DOMAIN MetaFields
    BY MetaFieldsAre
  <2>. QED BY <2>1, Zenon DEF Init, NewSession, Session
<1>2. /\ flashQ \in Seq(Events) /\ commQ \in Seq(Replies)
      /\ accepted \in Seq(Chunks) /\ "NONE" \in ErrorCodes
  BY DEF Init, ErrorCodes
<1>3. area \in [Slots -> Cells]
  BY DEF Init, Cells
<1>4. MetaTypes(meta)
  <2>1. meta = [f \in MetaNames |-> Blank]
    BY Zenon DEF Init, MetaNames
  <2>. QED BY <2>1, MetaFieldsAre DEF MetaTypes
<1>. QED
  BY <1>1, <1>2, <1>3, <1>4, TypeParts
  DEF Init, QueueTypes, ObjectTypes, FlashTypes

LEMMA StepKeepsTypes == TypeOK /\ [Next]_vars => TypeOK'
<1>. SUFFICES ASSUME TypeOK, [Next]_vars PROVE TypeOK'
  OBVIOUS
<1>1. CASE Dispatch
  BY <1>1, EndsKeepTypes, HandlersKeepTypes, IdleStartKeepsTypes,
     RamKeepsTypes, EnvironmentKeepsTypes DEF Dispatch
<1>2. CASE Operation
  BY <1>2, OperationsKeepTypes
<1>3. CASE Timer \/ PowerLoss \/ EnvTake \/ \E r \in Requests : EnvPost(r)
  BY <1>3, EnvironmentKeepsTypes
<1>4. CASE UNCHANGED vars
  BY <1>4 DEF vars, TypeOK
<1>. QED BY <1>1, <1>2, <1>3, <1>4 DEF Next, FlashMgrStep

(***************************************************************************)
(* The members of the object, the queues and the flash keep their types,   *)
(* whatever is posted, whenever a timer fires and wherever power is lost.  *)
(* The list of sectors to erase stays within the application area.         *)
(***************************************************************************)
THEOREM TypeCorrect == Spec => []TypeOK
<1>. QED BY InitiallyTyped, StepKeepsTypes, PTL DEF Spec

-----------------------------------------------------------------------------
(* Metadata *)

Clean == \A f \in MetaNames : meta[f] = Blank

\* The code goes on from erasing to data only when nothing is left to erase.
LastErased == /\ hw = "none" /\ errorCode = "NONE"
              /\ ses.index + 1 = Len(ses.sectors)

(***************************************************************************)
(* What each phase of a session knows about the metadata: it is given up   *)
(* (dirty) while sectors are erased, blank while packets are written, and  *)
(* written field by field under a content that matches the offer.          *)
(***************************************************************************)
Phases ==
    /\ hw = "erase" => st = "ErasingSector"
    /\ hw \in {"program", "commit"} => st = "WritingFlash"
    /\ hw # "commit" => ses.field = 1
    /\ st = "PrepFlash" => ses.index = 0
    /\ st = "ErasingSector" =>
          /\ ses.sectors = SectorsToErase(ses.offer.size)
          /\ ses.offer.size < AppSectors * SectorSlots
          /\ ses.index < Len(ses.sectors)
          /\ IF LastErased THEN Clean /\ ~dirty ELSE dirty
    /\ st \in {"WaitingForFWData", "WritingFlash"} => ~dirty
    /\ st \in {"WaitingForFWData", "WritingFlash"} /\ hw # "commit" => Clean
    /\ hw = "commit" =>
          /\ ImageMatches
          /\ meta["size"] = IF ses.field > 1 THEN ses.offer.size ELSE Blank
          /\ meta["crc"]  = IF ses.field > 2 THEN ses.offer.crc ELSE Blank

HonestInv == TypeOK /\ Phases /\ MetadataHonest

LEMMA BlankIsNoMetadata ==
    (meta["size"] \in {Blank, Torn} \/ meta["crc"] \in {Blank, Torn})
        => ~HasMetadata
BY DEF HasMetadata

LEMMA CleanIsNoMetadata == Clean => ~HasMetadata
BY BlankIsNoMetadata, MetaFieldsAre DEF Clean

LEMMA SameFlashStaysHonest ==
    ASSUME MetadataHonest, UNCHANGED flash
    PROVE  MetadataHonest' /\ (Clean => Clean')
BY DEF MetadataHonest, HasMetadata, Content, Clean, flash

\* Back in Idle with no operation running, no phase is left to describe.
LEMMA IdlePhase ==
    ASSUME st' = "Idle", hw' = "none", ses'.field = 1 PROVE Phases'
BY DEF Phases

LEMMA LeaveIsIdle ==
    ASSUME TypeOK, NEW err, LeaveBusyFlash(err)
    PROVE  st' = "Idle" /\ hw' = "none" /\ ses'.field = 1
BY DEF LeaveBusyFlash, TypeOK, Session

LEMMA EndsKeepHonest ==
    ASSUME HonestInv,
           \/ PrepRejects \/ PrepOpTimeout \/ GiveUpErase \/ DataCorrupt
           \/ DataOutOfSequence \/ ImageMismatch \/ GiveUpWrite \/ SessionAborts
    PROVE  Phases' /\ MetadataHonest'
<1>1. UNCHANGED flash /\ \E err : LeaveBusyFlash(err)
  BY DEF PrepRejects, PrepOpTimeout, GiveUpErase, DataCorrupt,
         DataOutOfSequence, ImageMismatch, GiveUpWrite, SessionAborts
<1>. QED
  BY <1>1, LeaveIsIdle, IdlePhase, SameFlashStaysHonest DEF HonestInv

LEMMA HandlersKeepHonest ==
    ASSUME HonestInv,
           \/ PrepAccepts \/ EraseNextSector \/ AllErased \/ RetryErase
           \/ DataAccepted \/ AskForNextPacket \/ StartCommit \/ RetryWrite
    PROVE  Phases' /\ MetadataHonest'
<1>0. TypeOK /\ Phases /\ MetadataHonest
  BY DEF HonestInv
<1>1. CASE PrepAccepts
  <2>1. MetadataHonest' /\ dirty'
    BY <1>1 DEF PrepAccepts, MetadataHonest
  <2>2. /\ st' = "ErasingSector" /\ hw' = "erase"
        /\ ses'.sectors = SectorsToErase(ses.offer.size)
        /\ ses'.offer = ses.offer /\ ses'.field = ses.field
        /\ ses'.index = ses.index
    BY <1>0, <1>1 DEF PrepAccepts, EnterErasingSector, TypeOK, Session
  <2>3. /\ ses.index = 0 /\ ses.field = 1
        /\ ses.offer.size \in Nat /\ ses.offer.size < AppSectors * SectorSlots
    BY <1>0, <1>1, OfferTypes
    DEF PrepAccepts, ValidateMetadata, Phases, Take, TypeOK, Session, OfferType
  <2>4. Len(SectorsToErase(ses.offer.size)) > 0
    BY <2>3, SectorList
  <2>. QED BY <2>1, <2>2, <2>3, <2>4 DEF Phases, LastErased
<1>2. CASE EraseNextSector
  <2>1. MetadataHonest' /\ dirty' = dirty
    BY <1>0, <1>2, SameFlashStaysHonest DEF EraseNextSector, flash
  <2>2. /\ st' = "ErasingSector" /\ hw' = "erase"
        /\ ses'.sectors = ses.sectors /\ ses'.offer = ses.offer
        /\ ses'.field = ses.field /\ ses'.index = ses.index + 1
    BY <1>0, <1>2 DEF EraseNextSector, EnterErasingSector, TypeOK, Session
  <2>3. ~LastErased /\ ses.field = 1 /\ ses'.index < Len(ses.sectors)
    BY <1>0, <1>2, <2>2 DEF EraseNextSector, Phases, LastErased, Take
  <2>. QED
    BY <1>0, <1>2, <2>1, <2>2, <2>3 DEF Phases, LastErased, EraseNextSector
<1>3. CASE AllErased
  <2>1. MetadataHonest' /\ dirty' = dirty /\ (Clean => Clean')
    BY <1>0, <1>3, SameFlashStaysHonest DEF AllErased, flash
  <2>2. st' = "WaitingForFWData" /\ hw' = "none" /\ ses'.field = ses.field
    BY <1>0, <1>3 DEF AllErased, EnterWaitingForFWData, Take, TypeOK, Session
  <2>3. LastErased
    <3>1. Len(ses.sectors) \in Nat /\ ses.index \in Nat
      BY <1>0 DEF TypeOK, Session
    <3>. QED BY <1>0, <1>3, <3>1 DEF AllErased, Phases, LastErased, Take
  <2>. QED BY <1>0, <1>3, <2>1, <2>2, <2>3 DEF Phases, AllErased, Take
<1>4. CASE RetryErase
  <2>1. MetadataHonest' /\ dirty' = dirty
    BY <1>0, <1>4, SameFlashStaysHonest DEF RetryErase, flash
  <2>2. /\ st' = "ErasingSector" /\ hw' = "erase"
        /\ ses'.sectors = ses.sectors /\ ses'.offer = ses.offer
        /\ ses'.field = ses.field /\ ses'.index = ses.index
    BY <1>0, <1>4 DEF RetryErase, EnterErasingSector, TypeOK, Session
  <2>. QED
    BY <1>0, <1>4, <2>1, <2>2 DEF Phases, LastErased, RetryErase, Take
<1>5. CASE DataAccepted
  <2>1. MetadataHonest' /\ dirty' = dirty /\ (Clean => Clean')
    BY <1>0, <1>5, SameFlashStaysHonest DEF DataAccepted, flash
  <2>2. st' = "WritingFlash" /\ hw' = "program" /\ ses'.field = ses.field
    BY <1>0, <1>5 DEF DataAccepted, EnterWritingFlash, TypeOK, Session
  <2>. QED BY <1>0, <1>5, <2>1, <2>2 DEF Phases, DataAccepted, Take
<1>6. CASE AskForNextPacket
  <2>1. MetadataHonest' /\ dirty' = dirty /\ (Clean => Clean')
    BY <1>0, <1>6, SameFlashStaysHonest DEF AskForNextPacket, flash
  <2>2. st' = "WaitingForFWData" /\ hw' = "none" /\ ses' = ses
    BY <1>6 DEF AskForNextPacket, EnterWaitingForFWData, Take
  <2>. QED BY <1>0, <1>6, <2>1, <2>2 DEF Phases, AskForNextPacket, Take
<1>7. CASE StartCommit
  <2>1. MetadataHonest' /\ dirty' = dirty
    BY <1>0, <1>7, SameFlashStaysHonest DEF StartCommit, flash
  <2>2. /\ st' = "WritingFlash" /\ hw' = "commit" /\ ses' = ses
        /\ ImageMatches' /\ meta' = meta
    BY <1>7 DEF StartCommit, ImageMatches, Content, flash
  <2>3. meta["size"] = Blank /\ meta["crc"] = Blank /\ ses.field = 1
    BY <1>0, <1>7, MetaFieldsAre DEF StartCommit, Phases, Take, Clean
  <2>. QED BY <1>0, <1>7, <2>1, <2>2, <2>3 DEF Phases, StartCommit, Take
<1>8. CASE RetryWrite
  <2>1. MetadataHonest' /\ dirty' = dirty /\ (Clean => Clean')
    BY <1>0, <1>8, SameFlashStaysHonest DEF RetryWrite, flash
  <2>2. st' = "WritingFlash" /\ hw' = "program" /\ ses' = ses
    BY <1>8 DEF RetryWrite, EnterWritingFlash
  <2>. QED BY <1>0, <1>8, <2>1, <2>2 DEF Phases, RetryWrite, Take
<1>. QED BY <1>1, <1>2, <1>3, <1>4, <1>5, <1>6, <1>7, <1>8

LEMMA IdleStartKeepsHonest ==
    ASSUME HonestInv, IdleStart PROVE Phases' /\ MetadataHonest'
<1>1. MetadataHonest'
  BY SameFlashStaysHonest DEF IdleStart, HonestInv
<1>2. /\ st' = "PrepFlash" /\ hw' = "none"
      /\ ses'.index = 0 /\ ses'.field = ses.field
  BY DEF IdleStart, Take, HonestInv, TypeOK, Session
<1>. QED BY <1>1, <1>2 DEF Phases, HonestInv, IdleStart, Take

\* While metadata is committed, an interrupted operation leaves it honest.
LEMMA HalfDoneStaysHonest ==
    ASSUME HonestInv, hw # "none", UNCHANGED dirty,
           \/ hw = "erase" /\ HalfErased
           \/ hw = "program" /\ HalfProgrammed
           \/ hw = "commit" /\ HalfCommitted
    PROVE  MetadataHonest'
<1>0. TypeOK /\ Phases /\ MetadataHonest
  BY DEF HonestInv
<1>1. CASE hw = "erase"
  BY <1>0, <1>1 DEF Phases, LastErased, MetadataHonest
<1>2. CASE hw = "program" /\ HalfProgrammed
  <2>1. Clean'
    BY <1>0, <1>2 DEF Phases, HalfProgrammed, Clean
  <2>2. ~HasMetadata'
    BY <2>1, MetaFieldsAre DEF Clean, HasMetadata
  <2>. QED BY <2>2 DEF MetadataHonest
<1>3. CASE hw = "commit" /\ HalfCommitted
  <2>1. PICK c \in {meta[CurrField], Torn} : meta' = [meta EXCEPT ![CurrField] = c]
    BY <1>3 DEF HalfCommitted
  <2>2. /\ \A f \in MetaNames : meta'[f] \in {meta[f], Torn}
        /\ area' = area /\ dirty' = dirty
    BY <1>0, <1>3, <2>1 DEF TypeOK, HalfCommitted
  <2>3. ASSUME HasMetadata', ~dirty'
        PROVE  meta'["crc"] = [i \in 1 .. meta'["size"] |-> area'[i]]
    <3>1. meta'["crc"] = meta["crc"] /\ meta'["size"] = meta["size"]
      BY <2>2, <2>3, MetaFieldsAre DEF HasMetadata
    <3>2. HasMetadata /\ ~dirty
      BY <2>2, <2>3, <3>1 DEF HasMetadata
    <3>. QED BY <1>0, <2>2, <3>1, <3>2 DEF MetadataHonest, Content
  <2>. QED BY <2>3 DEF MetadataHonest, Content
<1>. QED BY <1>1, <1>2, <1>3

LEMMA OperationsKeepHonest ==
    ASSUME HonestInv, Operation PROVE Phases' /\ MetadataHonest'
<1>0. TypeOK /\ Phases /\ MetadataHonest /\ DOMAIN meta = MetaNames
  BY DEF HonestInv, TypeOK
<1>1. CASE EraseSucceeds
  <2>1. /\ st = "ErasingSector" /\ dirty /\ ses.field = 1
        /\ ses.sectors = SectorsToErase(ses.offer.size)
        /\ ses.index < Len(ses.sectors) /\ ses.index \in Nat
        /\ ses.offer.size \in Nat /\ ses.offer.size < AppSectors * SectorSlots
    BY <1>0, <1>1, OfferTypes
    DEF EraseSucceeds, Phases, LastErased, TypeOK, Session, OfferType
  <2>2. /\ Len(ses.sectors) \in Nat
        /\ CurrSector = MetaSector <=> ses.index + 1 = Len(ses.sectors)
    BY <2>1, SectorList DEF CurrSector
  <2>3. /\ st' = "ErasingSector" /\ hw' = "none" /\ ses' = ses
        /\ LastErased' <=> CurrSector = MetaSector
        /\ dirty' = (CurrSector # MetaSector)
    BY <1>1, <2>1, <2>2 DEF EraseSucceeds, LastErased
  <2>4. CurrSector = MetaSector => Clean' /\ ~HasMetadata'
    <3>1. SUFFICES ASSUME CurrSector = MetaSector PROVE Clean' /\ ~HasMetadata'
      OBVIOUS
    <3>2. meta' = [f \in MetaNames |-> Blank]
      BY <1>0, <1>1, <3>1 DEF EraseSucceeds
    <3>. QED BY <3>2, MetaFieldsAre DEF Clean, HasMetadata
  <2>. QED BY <2>1, <2>3, <2>4 DEF Phases, MetadataHonest
<1>2. CASE EraseFails
  <2>1. MetadataHonest'
    BY <1>0, <1>2, HalfDoneStaysHonest DEF EraseFails, HonestInv
  <2>2. st = "ErasingSector" /\ dirty
    BY <1>0, <1>2 DEF EraseFails, Phases, LastErased
  <2>. QED
    BY <1>0, <1>2, <2>1, <2>2 DEF EraseFails, Phases, LastErased
<1>3. CASE ProgramSucceeds
  <2>1. st = "WritingFlash" /\ ~dirty /\ Clean
    BY <1>0, <1>3 DEF ProgramSucceeds, Phases
  <2>2. Clean' /\ ~HasMetadata'
    BY <1>3, <2>1, MetaFieldsAre DEF ProgramSucceeds, Clean, HasMetadata
  <2>3. ses'.field = ses.field
    BY <1>0, <1>3 DEF ProgramSucceeds, TypeOK, Session
  <2>. QED
    BY <1>0, <1>3, <2>1, <2>2, <2>3 DEF ProgramSucceeds, Phases, MetadataHonest
<1>4. CASE ProgramFails
  <2>1. MetadataHonest'
    BY <1>0, <1>4, HalfDoneStaysHonest DEF ProgramFails, HonestInv
  <2>2. Clean' /\ st = "WritingFlash" /\ ~dirty
    BY <1>0, <1>4 DEF ProgramFails, HalfProgrammed, Clean, Phases
  <2>. QED BY <1>0, <1>4, <2>1, <2>2 DEF ProgramFails, Phases
<1>5. CASE CommitField
  <2>1. /\ st = "WritingFlash" /\ ~dirty /\ ImageMatches /\ ses.field \in 1 .. 5
        /\ meta["size"] = IF ses.field > 1 THEN ses.offer.size ELSE Blank
        /\ meta["crc"]  = IF ses.field > 2 THEN ses.offer.crc ELSE Blank
    BY <1>0, <1>5, MetaFieldsAre DEF CommitField, Phases, TypeOK, Session
  <2>2. /\ meta'["size"] = ses.offer.size
        /\ meta'["crc"] = IF ses.field > 1 THEN ses.offer.crc ELSE Blank
    BY <1>0, <1>5, <2>1, MetaFieldsAre DEF CommitField, CurrField, FieldOf
  <2>3. MetadataHonest'
    BY <1>5, <2>1, <2>2
    DEF CommitField, MetadataHonest, HasMetadata, ImageMatches, Content
  <2>4. CASE ses.field < Len(MetaFields)
    <3>1. /\ st' = st /\ hw' = hw /\ dirty' = dirty /\ area' = area
          /\ ses'.field = ses.field + 1 /\ ses'.offer = ses.offer
      BY <1>0, <1>5, <2>4 DEF CommitField, TypeOK, Session
    <3>2. ImageMatches'
      BY <2>1, <3>1 DEF ImageMatches, Content
    <3>. QED BY <1>5, <2>1, <2>2, <2>3, <3>1, <3>2 DEF Phases, CommitField
  <2>5. CASE ~(ses.field < Len(MetaFields))
    BY <1>0, <1>5, <2>3, <2>5, LeaveIsIdle, IdlePhase DEF CommitField
  <2>. QED BY <2>4, <2>5
<1>6. CASE CommitFails
  <2>1. MetadataHonest'
    BY <1>0, <1>6, HalfDoneStaysHonest DEF CommitFails, HonestInv
  <2>. QED BY <1>0, <1>6, <2>1, LeaveIsIdle, IdlePhase DEF CommitFails
<1>. QED BY <1>1, <1>2, <1>3, <1>4, <1>5, <1>6 DEF Operation

\* The RAM test, time and CommMgr leave the session and the flash alone.
LEMMA QuietStepsKeepHonest ==
    ASSUME HonestInv,
           \/ IdleRamTest \/ RamTestPasses \/ RamTestFails \/ RamTimeout
           \/ Ignore \/ Timer \/ EnvTake
           \/ \E r \in Requests : EnvPost(r)
    PROVE  Phases' /\ MetadataHonest'
<1>0. TypeOK /\ Phases /\ MetadataHonest
  BY DEF HonestInv
<1>1. CASE IdleRamTest \/ RamTestPasses \/ RamTestFails \/ RamTimeout
  <2>1. UNCHANGED flash /\ hw' = hw
    BY <1>1 DEF IdleRamTest, RamTestPasses, RamTestFails, RamTimeout, ramUnchanged
  <2>2. ses'.field = ses.field /\ hw = "none"
    BY <1>0, <1>1
    DEF IdleRamTest, RamTestPasses, RamTestFails, RamTimeout, EnterRamTest,
        LeaveBusyRam, Take, TypeOK, Session
  <2>3. st' \in {"Idle"} \cup BusyRam
    BY <1>0, <1>1
    DEF IdleRamTest, RamTestPasses, RamTestFails, RamTimeout, EnterRamTest,
        LeaveBusyRam, BusyRam
  <2>. QED
    BY <1>0, <2>1, <2>2, <2>3, SameFlashStaysHonest DEF Phases, BusyRam
<1>2. CASE Ignore \/ Timer \/ EnvTake \/ \E r \in Requests : EnvPost(r)
  <2>1. UNCHANGED flash /\ UNCHANGED <<hw, st, ses, errorCode>>
    BY <1>2 DEF Ignore, Timer, TimerFires, EnvTake, EnvPost
  <2>2. (Clean => Clean') /\ (ImageMatches => ImageMatches') /\ LastErased' = LastErased
    BY <2>1 DEF flash, Clean, ImageMatches, Content, LastErased
  <2>. QED
    BY <1>0, <2>1, <2>2, SameFlashStaysHonest DEF Phases, flash
<1>. QED BY <1>1, <1>2

LEMMA PowerLossKeepsHonest ==
    ASSUME HonestInv, PowerLoss PROVE Phases' /\ MetadataHonest'
<1>1. Phases'
  <2>1. st' = "Idle" /\ hw' = "none" /\ ses'.field = 1
    BY DEF PowerLoss, NewSession
  <2>. QED BY <2>1, IdlePhase
<1>2. CASE hw = "none"
  BY <1>1, <1>2, SameFlashStaysHonest DEF PowerLoss, flash, HonestInv
<1>3. CASE hw # "none"
  BY <1>1, <1>3, HalfDoneStaysHonest DEF PowerLoss, HonestInv, TypeOK
<1>. QED BY <1>2, <1>3

LEMMA InitiallyHonest == Init => HonestInv
<1>. SUFFICES ASSUME Init PROVE HonestInv
  OBVIOUS
<1>1. Phases
  BY DEF Init, NewSession, Phases
<1>2. Clean
  BY DEF Init, Clean, MetaNames
<1>. QED
  BY <1>1, <1>2, CleanIsNoMetadata, InitiallyTyped DEF HonestInv, MetadataHonest

LEMMA StepKeepsHonest == HonestInv /\ [Next]_vars => HonestInv'
<1>. SUFFICES ASSUME HonestInv, [Next]_vars PROVE HonestInv'
  OBVIOUS
<1>0. TypeOK'
  BY StepKeepsTypes DEF HonestInv
<1>1. CASE Dispatch
  BY <1>1, EndsKeepHonest, HandlersKeepHonest, IdleStartKeepsHonest,
     QuietStepsKeepHonest, <1>0 DEF Dispatch, HonestInv
<1>2. CASE Operation
  BY <1>0, <1>2, OperationsKeepHonest DEF HonestInv
<1>3. CASE Timer \/ EnvTake \/ \E r \in Requests : EnvPost(r)
  BY <1>0, <1>3, QuietStepsKeepHonest DEF HonestInv
<1>4. CASE PowerLoss
  BY <1>0, <1>4, PowerLossKeepsHonest DEF HonestInv
<1>5. CASE UNCHANGED vars
  <2>1. /\ (Clean => Clean') /\ (ImageMatches => ImageMatches')
        /\ LastErased' = LastErased /\ UNCHANGED flash
    BY <1>5 DEF vars, flash, Clean, ImageMatches, Content, LastErased
  <2>. QED
    BY <1>0, <1>5, <2>1, SameFlashStaysHonest DEF HonestInv, Phases, vars
<1>. QED BY <1>1, <1>2, <1>3, <1>4, <1>5 DEF Next, FlashMgrStep

(***************************************************************************)
(* Stored metadata vouches for exactly the content in flash, for every     *)
(* number of sectors and slots and with every flash failure and loss of    *)
(* power: the sector of the metadata is erased after all others and the    *)
(* metadata written after the CRC of the flash content has been checked.   *)
(***************************************************************************)
THEOREM MetadataStaysHonest == Spec => []MetadataHonest
<1>1. HonestInv => MetadataHonest
  BY DEF HonestInv
<1>. QED BY <1>1, InitiallyHonest, StepKeepsHonest, PTL DEF Spec

-----------------------------------------------------------------------------
(* The queue: one step at a time *)

OnlyTimeouts(q) == \A i \in DOMAIN q : q[i].sig \in TimeoutSignals
Holds(q, sigs)  == \E i \in DOMAIN q : q[i].sig \in sigs

\* At most one event of the queue is not a timeout.
OneStep(q) ==
    \A i, j \in DOMAIN q :
        {q[i].sig, q[j].sig} \cap TimeoutSignals = {} => i = j

LEMMA OneStepAppend ==
    ASSUME NEW q \in Seq(Events), NEW e \in Events, OneStep(q),
           e.sig \in TimeoutSignals \/ OnlyTimeouts(q)
    PROVE  /\ OneStep(Append(q, e))
           /\ \A sigs : Holds(Append(q, e), sigs)
                           <=> Holds(q, sigs) \/ e.sig \in sigs
           /\ OnlyTimeouts(Append(q, e))
                 <=> OnlyTimeouts(q) /\ e.sig \in TimeoutSignals
<1>1. /\ Len(q) \in Nat /\ DOMAIN q = 1 .. Len(q)
      /\ DOMAIN Append(q, e) = 1 .. Len(q) + 1
      /\ \A i \in 1 .. Len(q) : Append(q, e)[i] = q[i]
      /\ Append(q, e)[Len(q) + 1] = e
  OBVIOUS
<1>2. OneStep(Append(q, e))
  BY <1>1 DEF OneStep, OnlyTimeouts
<1>3. ASSUME NEW sigs
      PROVE  Holds(Append(q, e), sigs) <=> Holds(q, sigs) \/ e.sig \in sigs
  <2>1. Len(q) + 1 \in 1 .. Len(q) + 1
    BY <1>1
  <2>2. \A i \in 1 .. Len(q) + 1 : i \in 1 .. Len(q) \/ i = Len(q) + 1
    BY <1>1
  <2>3. \A i \in 1 .. Len(q) : i \in 1 .. Len(q) + 1
    BY <1>1
  <2>. QED BY <1>1, <2>1, <2>2, <2>3 DEF Holds
<1>4. OnlyTimeouts(Append(q, e))
        <=> OnlyTimeouts(q) /\ e.sig \in TimeoutSignals
  BY <1>1 DEF OnlyTimeouts
<1>. QED BY <1>2, <1>3, <1>4

LEMMA OneStepTail ==
    ASSUME NEW q \in Seq(Events), q # <<>>, OneStep(q)
    PROVE  /\ OneStep(Tail(q))
           /\ Head(q).sig \notin TimeoutSignals => OnlyTimeouts(Tail(q))
           /\ OnlyTimeouts(q) => OnlyTimeouts(Tail(q))
           /\ \A sigs : Holds(Tail(q), sigs) => Holds(q, sigs)
           /\ \A sigs : Holds(q, sigs) /\ Head(q).sig \notin sigs
                           => Holds(Tail(q), sigs)
<1>1. /\ Len(q) \in Nat \ {0} /\ DOMAIN q = 1 .. Len(q)
      /\ DOMAIN Tail(q) = 1 .. Len(q) - 1
      /\ \A i \in 1 .. Len(q) - 1 : Tail(q)[i] = q[i + 1]
      /\ Head(q) = q[1]
  OBVIOUS
<1>2. \A i \in 1 .. Len(q) - 1 : i + 1 \in 1 .. Len(q) /\ i + 1 # 1
  BY <1>1
<1>3. OneStep(Tail(q)) /\ (OnlyTimeouts(q) => OnlyTimeouts(Tail(q)))
  BY <1>1, <1>2 DEF OneStep, OnlyTimeouts
<1>4. ASSUME Head(q).sig \notin TimeoutSignals PROVE OnlyTimeouts(Tail(q))
  <2>1. 1 \in DOMAIN q
    BY <1>1
  <2>2. ASSUME NEW i \in DOMAIN Tail(q), Tail(q)[i].sig \notin TimeoutSignals
        PROVE  FALSE
    <3>1. i + 1 \in DOMAIN q /\ i + 1 # 1 /\ q[i + 1].sig \notin TimeoutSignals
      BY <1>1, <1>2, <2>2
    <3>. QED BY <1>1, <1>4, <2>1, <3>1 DEF OneStep
  <2>. QED BY <2>2 DEF OnlyTimeouts
<1>5. ASSUME NEW sigs, Holds(Tail(q), sigs) PROVE Holds(q, sigs)
  BY <1>1, <1>2, <1>5 DEF Holds
<1>6. ASSUME NEW sigs, Holds(q, sigs), Head(q).sig \notin sigs
      PROVE  Holds(Tail(q), sigs)
  <2>1. PICK i \in 1 .. Len(q) : q[i].sig \in sigs
    BY <1>1, <1>6 DEF Holds
  <2>2. i - 1 \in 1 .. Len(q) - 1 /\ Tail(q)[i - 1] = q[i]
    <3>1. i # 1
      BY <1>1, <1>6, <2>1
    <3>. QED BY <1>1, <3>1
  <2>. QED BY <1>1, <2>1, <2>2 DEF Holds
<1>. QED BY <1>3, <1>4, <1>5, <1>6

\* OneStepPending, said of the queue q, the operation op and the state s.
Paired(q, op, s) ==
    /\ OneStep(q)
    /\ op # "none" => OnlyTimeouts(q)
    /\ s = "PrepFlash" => Holds(q, {"FLASH_NEXT_STEP"})
    /\ s = "ErasingSector" => op = "erase" \/ Holds(q, {"FLASH_NEXT_STEP"})
    /\ s = "WaitingForFWData" => ~Holds(q, SelfSignals)
    /\ s = "WritingFlash" => \/ op \in {"program", "commit"}
                             \/ Holds(q, {"FLASH_DONE", "FLASH_ERROR"})
    /\ s \in BusyRam => Holds(q, {"RAM_OP_START"})

\* What is queued is an event, so a queue without other signals than timeouts
\* is a queue of timeouts.
LEMMA TimeoutsOnly ==
    ASSUME NEW q \in Seq(Events)
    PROVE  OnlyTimeouts(q)
              <=> ~Holds(q, {e.sig : e \in Events} \ TimeoutSignals)
<1>1. \A i \in DOMAIN q : q[i] \in Events
  OBVIOUS
<1>. QED BY <1>1 DEF OnlyTimeouts, Holds

LEMMA PairedIs == TypeOK => (OneStepPending <=> Paired(flashQ, hw, st))
<1>. SUFFICES ASSUME TypeOK PROVE OneStepPending <=> Paired(flashQ, hw, st)
  OBVIOUS
<1>1. \A sigs : Queued(sigs) <=> Holds(flashQ, sigs)
  BY DEF Queued, Holds
<1>2. OnlyTimeouts(flashQ) <=> ~Queued({e.sig : e \in Events} \ TimeoutSignals)
  BY <1>1, TimeoutsOnly DEF TypeOK
<1>. QED BY <1>1, <1>2, Zenon DEF OneStepPending, Paired, OneStep

LEMMA PairedIsNext ==
    TypeOK' => (OneStepPending' <=> Paired(flashQ', hw', st'))
<1>. SUFFICES ASSUME TypeOK'
     PROVE  OneStepPending' <=> Paired(flashQ', hw', st')
  OBVIOUS
<1>1. \A sigs : Queued(sigs)' <=> Holds(flashQ', sigs)
  BY DEF Queued, Holds
<1>2. OnlyTimeouts(flashQ')
        <=> ~Queued({e.sig : e \in Events} \ TimeoutSignals)'
  BY <1>1, TimeoutsOnly DEF TypeOK
<1>. QED BY <1>1, <1>2, Zenon DEF OneStepPending, Paired, OneStep

StepInv == HonestInv /\ OneStepPending

LEMMA NoOwnSteps == ASSUME NEW q, OnlyTimeouts(q) PROVE ~Holds(q, SelfSignals)
BY DEF OnlyTimeouts, Holds, SelfSignals, TimeoutSignals

LEMMA IdlePaired == ASSUME NEW q, OneStep(q) PROVE Paired(q, "none", "Idle")
BY DEF Paired, BusyRam

\* The queue once its head is taken.
LEMMA Taken ==
    ASSUME StepInv, NEW sig, Take(sig)
    PROVE  /\ hw = "none" /\ OneStep(Tail(flashQ))
           /\ sig \notin TimeoutSignals => OnlyTimeouts(Tail(flashQ))
           /\ Tail(flashQ) \in Seq(Events)
<1>1. flashQ \in Seq(Events) /\ flashQ # <<>> /\ Head(flashQ).sig = sig
      /\ hw = "none"
  BY DEF Take, StepInv, HonestInv, TypeOK
<1>2. OneStep(flashQ)
  BY PairedIs DEF StepInv, HonestInv, Paired
<1>3. Tail(flashQ) \in Seq(Events)
  BY <1>1, HeadTailProperties
<1>. QED BY <1>1, <1>2, <1>3, OneStepTail

\* The signals FlashMgr posts to itself and the requests are no timeouts.
LEMMA NoTimeouts ==
    /\ \A e \in {NextStep, FlashDone, FlashErr, RamStep} :
          e \in Events /\ e.sig \notin TimeoutSignals
    /\ \A r \in Requests : r \in Events /\ r.sig \notin SelfSignals
                              /\ r.sig \notin TimeoutSignals
    /\ {"FLASH_OP_START", "FLASH_DATA", "RAM_TEST_START", "FLASH_NEXT_STEP",
        "FLASH_DONE", "FLASH_ERROR", "RAM_OP_START"} \cap TimeoutSignals = {}
<1>1. \A e \in {NextStep, FlashDone, FlashErr, RamStep} :
          e \in Events /\ e.sig \notin TimeoutSignals
  BY PostedTypes DEF NextStep, FlashDone, FlashErr, RamStep, TimeoutSignals
<1>2. ASSUME NEW r \in Requests
      PROVE  /\ r \in Events /\ r.sig \notin SelfSignals
             /\ r.sig \notin TimeoutSignals
  <2>1. r.sig \in {"FLASH_OP_START", "FLASH_DATA", "RAM_TEST_START"}
    BY DEF Requests, StartRequests, DataRequests, RamRequests
  <2>. QED BY <2>1 DEF Events, SelfSignals, TimeoutSignals
<1>3. {"FLASH_OP_START", "FLASH_DATA", "RAM_TEST_START", "FLASH_NEXT_STEP",
       "FLASH_DONE", "FLASH_ERROR", "RAM_OP_START"} \cap TimeoutSignals = {}
  BY DEF TimeoutSignals
<1>. QED BY <1>1, <1>2, <1>3

LEMMA EndsKeepPairs ==
    ASSUME StepInv,
           \/ PrepRejects \/ PrepOpTimeout \/ GiveUpErase \/ DataCorrupt
           \/ DataOutOfSequence \/ ImageMismatch \/ GiveUpWrite \/ SessionAborts
    PROVE  Paired(flashQ', hw', st')
<1>1. PICK sig, err : Take(sig) /\ LeaveBusyFlash(err) /\ Drop
  BY DEF PrepRejects, PrepOpTimeout, GiveUpErase, DataCorrupt,
         DataOutOfSequence, ImageMismatch, GiveUpWrite, SessionAborts
<1>2. st' = "Idle" /\ hw' = "none" /\ flashQ' = Tail(flashQ)
  BY <1>1 DEF LeaveBusyFlash, Drop
<1>. QED BY <1>1, <1>2, Taken, IdlePaired

LEMMA HandlersKeepPairs ==
    ASSUME StepInv,
           \/ PrepAccepts \/ EraseNextSector \/ AllErased \/ RetryErase
           \/ DataAccepted \/ AskForNextPacket \/ StartCommit \/ RetryWrite
    PROVE  Paired(flashQ', hw', st')
<1>1. ASSUME NEW sig \in {"FLASH_NEXT_STEP", "FLASH_DATA", "FLASH_DONE",
                          "FLASH_ERROR"}, Take(sig), Drop,
             \/ st' = "ErasingSector" /\ hw' = "erase"
             \/ st' = "WaitingForFWData" /\ hw' = "none"
             \/ st' = "WritingFlash" /\ hw' \in {"program", "commit"}
      PROVE  Paired(flashQ', hw', st')
  <2>1. OneStep(flashQ') /\ OnlyTimeouts(flashQ')
    <3>1. sig \notin TimeoutSignals
      BY NoTimeouts
    <3>. QED BY <1>1, <3>1, Taken DEF Drop
  <2>. QED BY <1>1, <2>1, NoOwnSteps DEF Paired, BusyRam
<1>2. hw = "none"
  BY DEF PrepAccepts, EraseNextSector, AllErased, RetryErase, DataAccepted,
         AskForNextPacket, StartCommit, RetryWrite, Take
<1>3. CASE PrepAccepts \/ EraseNextSector \/ RetryErase
  BY <1>1, <1>3 DEF PrepAccepts, EraseNextSector, RetryErase, EnterErasingSector
<1>4. CASE AllErased \/ AskForNextPacket
  BY <1>1, <1>2, <1>4 DEF AllErased, AskForNextPacket, EnterWaitingForFWData
<1>5. CASE DataAccepted \/ RetryWrite
  BY <1>1, <1>5 DEF DataAccepted, RetryWrite, EnterWritingFlash
<1>6. CASE StartCommit
  BY <1>1, <1>6 DEF StartCommit
<1>. QED BY <1>3, <1>4, <1>5, <1>6

LEMMA StartsKeepPairs ==
    ASSUME StepInv,
           IdleStart \/ IdleRamTest \/ RamTestPasses \/ RamTestFails \/ RamTimeout
    PROVE  Paired(flashQ', hw', st')
<1>1. ASSUME NEW sig, Take(sig), sig \notin TimeoutSignals,
             NEW e \in {NextStep, RamStep}, flashQ' = Append(Tail(flashQ), e),
             hw' = "none"
      PROVE  /\ OneStep(flashQ')
             /\ Holds(flashQ', {e.sig})
  <2>1. OneStep(Tail(flashQ)) /\ OnlyTimeouts(Tail(flashQ))
        /\ Tail(flashQ) \in Seq(Events) /\ e \in Events
    BY <1>1, Taken, NoTimeouts
  <2>. QED BY <1>1, <2>1, OneStepAppend
<1>2. CASE IdleStart
  <2>1. OneStep(flashQ') /\ Holds(flashQ', {"FLASH_NEXT_STEP"})
    BY <1>1, <1>2, NoTimeouts DEF IdleStart, NextStep, Take
  <2>. QED BY <1>2, <2>1 DEF IdleStart, Take, Paired, BusyRam
<1>3. ASSUME NEW t \in BusyRam, EnterRamTest(t), NEW sig, Take(sig),
             sig \notin TimeoutSignals, hw' = hw
      PROVE  Paired(flashQ', hw', st')
  <2>1. OneStep(flashQ') /\ Holds(flashQ', {"RAM_OP_START"})
    BY <1>1, <1>3 DEF EnterRamTest, RamStep, Take
  <2>. QED BY <1>3, <2>1 DEF EnterRamTest, Take, Paired, BusyRam
<1>4. ASSUME NEW sig, Take(sig), NEW err, LeaveBusyRam(err), hw' = hw
      PROVE  Paired(flashQ', hw', st')
  <2>1. st' = "Idle" /\ hw' = "none" /\ flashQ' = Tail(flashQ)
    BY <1>4 DEF LeaveBusyRam, Drop, Take
  <2>. QED BY <1>4, <2>1, Taken, IdlePaired
<1>5. CASE IdleRamTest
  <2>1. "DataBusTest" \in BusyRam
    BY DEF BusyRam
  <2>. QED BY <1>3, <1>5, <2>1, NoTimeouts DEF IdleRamTest, ramUnchanged
<1>6. CASE RamTestPasses
  <2>1. {"AddrBusTest", "DeviceTest"} \subseteq BusyRam
    BY DEF BusyRam
  <2>. QED BY <1>3, <1>4, <1>6, <2>1, NoTimeouts DEF RamTestPasses, ramUnchanged
<1>7. CASE RamTestFails \/ RamTimeout
  BY <1>4, <1>7 DEF RamTestFails, RamTimeout, ramUnchanged
<1>. QED BY <1>2, <1>5, <1>6, <1>7

LEMMA OperationsKeepPairs ==
    ASSUME StepInv, Operation PROVE Paired(flashQ', hw', st')
<1>0. /\ OneStep(flashQ) /\ OnlyTimeouts(flashQ) /\ flashQ \in Seq(Events)
      /\ hw = "erase" => st = "ErasingSector"
      /\ hw = "program" => st = "WritingFlash"
      /\ hw = "commit" => st = "WritingFlash"
  <2>1. hw # "none"
    BY DEF Operation, EraseSucceeds, EraseFails, ProgramSucceeds, ProgramFails,
           CommitField, CommitFails
  <2>. QED BY <2>1, PairedIs DEF StepInv, HonestInv, TypeOK, Phases, Paired
<1>1. ASSUME NEW e \in {NextStep, FlashDone, FlashErr},
             flashQ' = Append(flashQ, e)
      PROVE  OneStep(flashQ') /\ \A sigs : e.sig \in sigs => Holds(flashQ', sigs)
  BY <1>0, <1>1, OneStepAppend, NoTimeouts
<1>2. CASE EraseSucceeds \/ EraseFails
  <2>1. OneStep(flashQ') /\ Holds(flashQ', {"FLASH_NEXT_STEP"})
    BY <1>1, <1>2 DEF EraseSucceeds, EraseFails, NextStep
  <2>. QED
    BY <1>0, <1>2, <2>1 DEF EraseSucceeds, EraseFails, Paired, BusyRam
<1>3. CASE ProgramSucceeds \/ ProgramFails
  <2>1. OneStep(flashQ') /\ Holds(flashQ', {"FLASH_DONE", "FLASH_ERROR"})
    BY <1>1, <1>3 DEF ProgramSucceeds, ProgramFails, FlashDone, FlashErr
  <2>. QED
    BY <1>0, <1>3, <2>1 DEF ProgramSucceeds, ProgramFails, Paired, BusyRam
<1>4. CASE CommitField /\ ses.field < Len(MetaFields)
  BY <1>0, <1>4 DEF CommitField, Paired, BusyRam
<1>5. CASE CommitFails \/ (CommitField /\ ~(ses.field < Len(MetaFields)))
  <2>1. flashQ' = flashQ /\ st' = "Idle" /\ hw' = "none"
    BY <1>5 DEF CommitField, CommitFails, LeaveBusyFlash
  <2>. QED BY <1>0, <2>1, IdlePaired
<1>. QED BY <1>2, <1>3, <1>4, <1>5 DEF Operation

LEMMA EnvironmentKeepsPairs ==
    ASSUME StepInv,
           \/ Ignore \/ Timer \/ PowerLoss \/ EnvTake
           \/ \E r \in Requests : EnvPost(r)
    PROVE  Paired(flashQ', hw', st')
<1>0. Paired(flashQ, hw, st) /\ OneStep(flashQ) /\ flashQ \in Seq(Events)
  BY PairedIs DEF StepInv, HonestInv, TypeOK, Paired
<1>1. CASE Ignore
  <2>1. /\ flashQ # <<>> /\ flashQ' = Tail(flashQ) /\ hw' = "none" /\ st' = st
        /\ Head(flashQ).sig \notin Handled(st) /\ hw = "none"
    BY <1>1 DEF Ignore, Drop
  <2>2. OneStep(Tail(flashQ))
        /\ \A sigs : (Holds(Tail(flashQ), sigs) => Holds(flashQ, sigs))
              /\ (Holds(flashQ, sigs) /\ Head(flashQ).sig \notin sigs
                     => Holds(Tail(flashQ), sigs))
    BY <1>0, <2>1, OneStepTail
  <2>3. CASE st \in {"PrepFlash", "ErasingSector"}
    BY <1>0, <2>1, <2>2, <2>3 DEF Handled, Paired, BusyRam
  <2>4. CASE st = "WritingFlash"
    BY <1>0, <2>1, <2>2, <2>4 DEF Handled, Paired, BusyRam
  <2>5. CASE st \in BusyRam
    BY <1>0, <2>1, <2>2, <2>5 DEF Handled, Paired, BusyRam
  <2>6. CASE st \in {"Idle", "WaitingForFWData"}
    BY <1>0, <2>1, <2>2, <2>6 DEF Paired, BusyRam
  <2>. QED
    BY <2>3, <2>4, <2>5, <2>6 DEF StepInv, HonestInv, TypeOK, BusyFlash
<1>2. CASE Timer
  <2>1. PICK sig \in TimeoutSignals : TimerFires(sig)
    BY <1>2 DEF Timer
  <2>2. [sig |-> sig] \in Events /\ [sig |-> sig].sig = sig
        /\ sig \notin SelfSignals
    BY PostedTypes DEF SelfSignals, TimeoutSignals
  <2>3. /\ OneStep(flashQ') /\ (OnlyTimeouts(flashQ) => OnlyTimeouts(flashQ'))
        /\ \A sigs : Holds(flashQ', sigs) <=> Holds(flashQ, sigs) \/ sig \in sigs
    BY <1>0, <2>1, <2>2, OneStepAppend DEF TimerFires
  <2>4. hw' = hw /\ st' = st
    BY <2>1 DEF TimerFires
  <2>. QED BY <1>0, <2>2, <2>3, <2>4 DEF Paired
<1>3. CASE PowerLoss
  BY <1>3, IdlePaired DEF PowerLoss, OneStep
<1>4. CASE EnvTake
  BY <1>0, <1>4 DEF EnvTake
<1>5. CASE \E r \in Requests : EnvPost(r)
  <2>1. PICK r \in Requests : EnvPost(r)
    BY <1>5
  <2>2. r \in Events /\ r.sig \notin SelfSignals
    BY NoTimeouts
  <2>3. OnlyTimeouts(flashQ)
    BY <2>1 DEF EnvPost, Quiescent, OnlyTimeouts
  <2>4. /\ OneStep(flashQ')
        /\ \A sigs : Holds(flashQ', sigs) <=> Holds(flashQ, sigs) \/ r.sig \in sigs
    BY <1>0, <2>1, <2>2, <2>3, OneStepAppend DEF EnvPost
  <2>5. hw' = "none" /\ hw = "none" /\ st' = st
    BY <2>1 DEF EnvPost, Quiescent
  <2>. QED BY <1>0, <2>2, <2>4, <2>5 DEF Paired
<1>. QED BY <1>1, <1>2, <1>3, <1>4, <1>5

LEMMA InitiallyPaired == Init => StepInv
<1>. SUFFICES ASSUME Init PROVE StepInv
  OBVIOUS
<1>1. Paired(flashQ, hw, st)
  BY IdlePaired DEF Init, OneStep
<1>. QED BY <1>1, InitiallyHonest, PairedIs DEF StepInv, HonestInv

LEMMA StepKeepsPairs == StepInv /\ [Next]_vars => StepInv'
<1>. SUFFICES ASSUME StepInv, [Next]_vars PROVE StepInv'
  OBVIOUS
<1>0. HonestInv' /\ TypeOK'
  BY StepKeepsHonest DEF StepInv, HonestInv
<1>1. CASE Dispatch
  BY <1>1, EndsKeepPairs, HandlersKeepPairs, StartsKeepPairs,
     EnvironmentKeepsPairs, <1>0, PairedIsNext DEF Dispatch, StepInv
<1>2. CASE Operation
  BY <1>0, <1>2, OperationsKeepPairs, PairedIsNext DEF StepInv
<1>3. CASE Timer \/ PowerLoss \/ EnvTake \/ \E r \in Requests : EnvPost(r)
  BY <1>0, <1>3, EnvironmentKeepsPairs, PairedIsNext DEF StepInv
<1>4. CASE UNCHANGED vars
  <2>1. Paired(flashQ', hw', st')
    BY <1>4, PairedIs DEF vars, StepInv, HonestInv
  <2>. QED BY <1>0, <2>1, PairedIsNext DEF StepInv
<1>. QED BY <1>1, <1>2, <1>3, <1>4 DEF Next, FlashMgrStep

(***************************************************************************)
(* A session never stalls on itself and never runs a step twice, for every *)
(* instance, whichever timeouts are queued in between and wherever they    *)
(* expire.  The state decides what drives it on; hw and the state go       *)
(* together as Phases says, and a request is only posted to an empty       *)
(* queue, so that no step of the object meets a second one.                *)
(***************************************************************************)
THEOREM StepsAreDrivenOnce == Spec => []OneStepPending
<1>1. StepInv => OneStepPending
  BY DEF StepInv
<1>. QED BY <1>1, InitiallyPaired, StepKeepsPairs, PTL DEF Spec

-----------------------------------------------------------------------------
(* The area *)

\* Sectors of the list that are erased: those before the current one, and the
\* current one when FLASH_eraseSector has returned without an error.
SectorDone(i) ==
    i <= ses.index \/ (i = ses.index + 1 /\ hw = "none" /\ errorCode = "NONE")

\* Nothing taken yet.
NothingTaken == accepted = <<>> /\ ses.packetCurr = 0

\* A packet that is taken is on its way into flash until FLASH_DONE_SIG is
\* posted: being written, or to be written again.
OnItsWay == hw = "program" \/ Queued({"FLASH_ERROR"})

(***************************************************************************)
(* What each phase of a session knows about the area: the erased sectors   *)
(* are blank, the slots before flashAddrCurr hold the packets taken, and   *)
(* the one at flashAddrCurr is the only one a write can have damaged.      *)
(***************************************************************************)
AreaInv ==
    /\ st = "PrepFlash" => NothingTaken
    /\ st = "ErasingSector" =>
          /\ NothingTaken /\ ses.addr = 1 /\ ses.packetExp = ses.offer.num
          /\ \A s \in Slots, i \in 1 .. Len(ses.sectors) :
                s \in SlotsOf(ses.sectors[i]) /\ SectorDone(i) => area[s] = Blank
    /\ st \in {"ErasingSector", "WaitingForFWData", "WritingFlash"} =>
          /\ ses.offer.size \in 1 .. AppSectors * SectorSlots - 1
    /\ st \in {"WaitingForFWData", "WritingFlash"} =>
          /\ ses.packetExp = ses.offer.num /\ ses.addr = ses.packetCurr + 1
          /\ \A i \in 1 .. ses.packetCurr : area[i] = accepted[i]
          /\ \A s \in Slots :
                s > Len(accepted) /\ s <= ses.offer.size => area[s] = Blank
    /\ st = "WaitingForFWData" =>
          /\ Len(accepted) = ses.packetCurr /\ ses.packetCurr < ses.packetExp
          /\ errorCode = "WAIT_FOR_DATA_TIMEOUT"
    /\ st = "WritingFlash" /\ OnItsWay =>
          /\ Len(accepted) = ses.packetCurr + 1
          /\ ses.dataBuf = accepted[Len(accepted)]
          /\ ses.packetCurr < ses.packetExp
    /\ st = "WritingFlash" /\ ~OnItsWay =>
          /\ Len(accepted) = ses.packetCurr /\ ses.packetCurr <= ses.packetExp
          /\ ses.packetCurr > 0
    /\ st = "WritingFlash" /\ Queued({"FLASH_ERROR"}) => errorCode = "FLASH_HW"
    /\ hw = "commit" =>
          /\ \A i \in 1 .. 5 :
                meta[MetaFields[i]] = IF i < ses.field
                                      THEN FieldOf(ses.offer, MetaFields[i])
                                      ELSE Blank

FullInv == StepInv /\ AreaInv

\* The facts about an offer, the slots and the types the steps below use.
LEMMA AreaTypes ==
    ASSUME TypeOK
    PROVE  /\ AppSectors * SectorSlots \in Nat /\ SectorSlots \in Nat \ {0}
           /\ Slots = 1 .. AppSectors * SectorSlots
           /\ ses.packetCurr \in Nat /\ ses.packetExp \in Nat /\ ses.index \in Nat
           /\ ses.addr \in Nat /\ ses.field \in 1 .. 5
           /\ ses.offer.size \in Nat /\ ses.offer.num \in Slots
           /\ ses.offer.crc \in Seq(Chunks)
           /\ accepted \in Seq(Chunks) /\ Len(accepted) \in Nat
           /\ area \in [Slots -> Cells] /\ DOMAIN meta = MetaNames
<1>1. AppSectors \in Nat \ {0} /\ SectorSlots \in Nat \ {0}
  BY SizesAssumption
<1>2. AppSectors * SectorSlots \in Nat
  BY <1>1
<1>3. ses.offer \in OfferType
  BY OfferTypes DEF TypeOK, Session
<1>4. ses \in Session /\ accepted \in Seq(Chunks) /\ area \in [Slots -> Cells]
      /\ DOMAIN meta = MetaNames
  BY DEF TypeOK
<1>5. /\ ses.packetCurr \in Nat /\ ses.packetExp \in Nat /\ ses.index \in Nat
      /\ ses.addr \in Nat /\ ses.field \in 1 .. 5
  BY <1>4, MetaFieldsAre DEF Session
<1>6. /\ ses.offer.size \in Nat /\ ses.offer.num \in Slots
      /\ ses.offer.crc \in Seq(Chunks)
  BY <1>3 DEF OfferType
<1>. QED BY <1>1, <1>2, <1>4, <1>5, <1>6 DEF Slots

LEMMA NothingOnItsWay ==
    ASSUME OnlyTimeouts(flashQ') PROVE ~Queued({"FLASH_ERROR"})'
BY DEF OnlyTimeouts, Queued, TimeoutSignals

\* With no session going on, there is nothing to say.
LEMMA IdleArea ==
    ASSUME st' \in {"Idle"} \cup BusyRam, hw' = "none" PROVE AreaInv'
BY DEF AreaInv, BusyRam

\* Nor do steps that only concern the queues change anything.
LEMMA SameArea ==
    ASSUME AreaInv, UNCHANGED <<st, ses, hw, errorCode, area, meta, accepted>>,
           st = "WritingFlash" =>
              (Queued({"FLASH_ERROR"})' <=> Queued({"FLASH_ERROR"}))
    PROVE  AreaInv'
BY DEF AreaInv, NothingTaken, SectorDone, OnItsWay

LEMMA EndsKeepArea ==
    ASSUME FullInv,
           \/ PrepRejects \/ PrepOpTimeout \/ GiveUpErase \/ DataCorrupt
           \/ DataOutOfSequence \/ ImageMismatch \/ GiveUpWrite \/ SessionAborts
    PROVE  AreaInv'
<1>1. \E err : LeaveBusyFlash(err)
  BY DEF PrepRejects, PrepOpTimeout, GiveUpErase, DataCorrupt,
         DataOutOfSequence, ImageMismatch, GiveUpWrite, SessionAborts
<1>. QED BY <1>1, IdleArea DEF LeaveBusyFlash

LEMMA RamKeepsArea ==
    ASSUME FullInv, IdleRamTest \/ RamTestPasses \/ RamTestFails \/ RamTimeout
    PROVE  AreaInv'
<1>1. hw' = "none"
  BY DEF IdleRamTest, RamTestPasses, RamTestFails, RamTimeout, ramUnchanged, Take
<1>2. st' \in {"Idle"} \cup BusyRam
  BY DEF IdleRamTest, RamTestPasses, RamTestFails, RamTimeout, EnterRamTest,
         LeaveBusyRam, BusyRam
<1>. QED BY <1>1, <1>2, IdleArea

LEMMA EnvironmentKeepsArea ==
    ASSUME FullInv,
           \/ Ignore \/ Timer \/ PowerLoss \/ EnvTake
           \/ \E r \in Requests : EnvPost(r)
    PROVE  AreaInv'
<1>0. /\ AreaInv /\ OneStep(flashQ) /\ flashQ \in Seq(Events)
      /\ \A q : (\E i \in DOMAIN q : q[i].sig \in {"FLASH_ERROR"})
                   <=> Holds(q, {"FLASH_ERROR"})
  BY PairedIs DEF FullInv, StepInv, HonestInv, TypeOK, Paired, Holds
<1>1. CASE PowerLoss
  BY <1>1, IdleArea DEF PowerLoss
<1>2. CASE Ignore \/ Timer \/ EnvTake \/ \E r \in Requests : EnvPost(r)
  <2>1. UNCHANGED <<st, ses, hw, errorCode, area, meta, accepted>>
    BY <1>2 DEF Ignore, Timer, TimerFires, EnvTake, EnvPost, flash
  <2>2. CASE Ignore
    <3>1. flashQ # <<>> /\ flashQ' = Tail(flashQ)
          /\ (st = "WritingFlash" => Head(flashQ).sig \notin {"FLASH_ERROR"})
      BY <2>2 DEF Ignore, Drop, Handled, BusyRam
    <3>. QED BY <1>0, <2>1, <3>1, OneStepTail, SameArea DEF Queued
  <2>3. CASE Timer
    <3>1. PICK sig \in TimeoutSignals : TimerFires(sig)
      BY <2>3 DEF Timer
    <3>2. [sig |-> sig] \in Events /\ [sig |-> sig].sig = sig
          /\ sig \notin {"FLASH_ERROR"} /\ flashQ' = Append(flashQ, [sig |-> sig])
      BY <3>1, PostedTypes DEF TimeoutSignals, TimerFires
    <3>3. Holds(flashQ', {"FLASH_ERROR"}) <=> Holds(flashQ, {"FLASH_ERROR"})
      BY <1>0, <3>2, OneStepAppend
    <3>. QED BY <1>0, <2>1, <3>3, SameArea DEF Queued
  <2>4. CASE EnvTake
    BY <1>0, <2>1, <2>4, SameArea DEF EnvTake, Queued
  <2>5. CASE \E r \in Requests : EnvPost(r)
    <3>1. PICK r \in Requests : EnvPost(r)
      BY <2>5
    <3>2. r \in Events /\ r.sig \notin {"FLASH_ERROR"}
          /\ flashQ' = Append(flashQ, r) /\ OnlyTimeouts(flashQ)
      BY <3>1, NoTimeouts DEF SelfSignals, EnvPost, Quiescent, OnlyTimeouts
    <3>3. Holds(flashQ', {"FLASH_ERROR"}) <=> Holds(flashQ, {"FLASH_ERROR"})
      BY <1>0, <3>2, OneStepAppend
    <3>. QED BY <1>0, <2>1, <3>3, SameArea DEF Queued
  <2>. QED BY <1>2, <2>2, <2>3, <2>4, <2>5
<1>. QED BY <1>1, <1>2

LEMMA PrepKeepsArea ==
    ASSUME FullInv, IdleStart \/ PrepAccepts PROVE AreaInv'
<1>0. AreaInv /\ TypeOK /\ Phases
  BY DEF FullInv, StepInv, HonestInv
<1>1. CASE IdleStart
  <2>1. /\ st' = "PrepFlash" /\ hw' = "none" /\ accepted' = <<>>
        /\ ses'.packetCurr = 0
    BY <1>0, <1>1 DEF IdleStart, Take, TypeOK, Session
  <2>. QED BY <2>1 DEF AreaInv, NothingTaken
<1>2. CASE PrepAccepts
  <2>1. /\ st' = "ErasingSector" /\ hw' = "erase"
        /\ accepted' = accepted /\ ses'.packetCurr = ses.packetCurr
        /\ ses'.addr = 1 /\ ses'.packetExp = ses.offer.num
        /\ ses'.offer = ses.offer /\ ses'.index = ses.index
        /\ ses'.sectors = SectorsToErase(ses.offer.size)
    BY <1>0, <1>2 DEF PrepAccepts, EnterErasingSector, TypeOK, Session
  <2>2. NothingTaken /\ ses.index = 0
    BY <1>0, <1>2 DEF AreaInv, Phases, PrepAccepts
  <2>3. ses.offer.size \in 1 .. AppSectors * SectorSlots - 1
    BY <1>0, <1>2, AreaTypes DEF PrepAccepts, ValidateMetadata
  <2>4. Len(SectorsToErase(ses.offer.size)) \in Nat
    BY <2>3, AreaTypes, SectorList, <1>0
  <2>5. \A i \in 1 .. Len(ses'.sectors) : ~SectorDone(i)'
    BY <2>1, <2>2, <2>4 DEF SectorDone
  <2>. QED BY <2>1, <2>2, <2>3, <2>5 DEF AreaInv, NothingTaken
<1>. QED BY <1>1, <1>2

\* Every slot of the image is in one sector of the list, and in no other.
LEMMA SlotsAndSectors ==
    ASSUME NEW n \in Nat, n < AppSectors * SectorSlots, NEW s \in Slots
    PROVE  /\ s <= n => \E i \in 1 .. Len(SectorsToErase(n)) :
                              s \in SlotsOf(SectorsToErase(n)[i])
           /\ \A i, j \in 1 .. Len(SectorsToErase(n)) :
                 /\ s \in SlotsOf(SectorsToErase(n)[i])
                 /\ s \in SlotsOf(SectorsToErase(n)[j])
                 => i = j
<1>. DEFINE q == n \div SectorSlots
            p == (s - 1) \div SectorSlots
            L == SectorsToErase(n)
<1>1. AppSectors \in Nat \ {0} /\ SectorSlots \in Nat \ {0}
  BY SizesAssumption
<1>2. AppSectors * SectorSlots \in Nat
  BY <1>1
<1>3. s \in Nat \ {0}
  BY <1>2 DEF Slots
<1>4. /\ q \in Nat /\ p \in Nat
      /\ p * SectorSlots <= s - 1 /\ s - 1 < (p + 1) * SectorSlots
      /\ q * SectorSlots <= n /\ n < (q + 1) * SectorSlots
  BY <1>1, <1>3
<1>5. L = [i \in 1 .. q + 2 |-> IF i <= q + 1 THEN i ELSE 0] /\ Len(L) = q + 2
  <2>1. L = [i \in 1 .. q + 2 |-> IF i <= q + 1 THEN i ELSE 0]
    BY <1>4 DEF SectorsToErase, MetaSector
  <2>2. q + 2 \in Nat
    BY <1>4
  <2>. HIDE DEF q, L
  <2>. QED BY <2>1, <2>2
<1>6. \A k : s \in SlotsOf(k) <=> p = k - 1
  BY DEF SlotsOf
<1>. HIDE DEF q, p, L
<1>7. s <= n => p <= q
  <2>1. SUFFICES ASSUME s <= n, p >= q + 1 PROVE FALSE
    BY <1>4
  <2>2. p * SectorSlots >= (q + 1) * SectorSlots
    BY <1>1, <1>4, <2>1
  <2>3. p * SectorSlots \in Nat /\ (q + 1) * SectorSlots \in Nat
    BY <1>1, <1>4
  <2>. QED BY <1>3, <1>4, <2>1, <2>2, <2>3
<1>8. \A i \in 1 .. q + 2 : s \in SlotsOf(L[i]) <=> i = p + 1 /\ i <= q + 1
  BY <1>4, <1>5, <1>6
<1>9. s <= n => \E i \in 1 .. Len(L) : s \in SlotsOf(L[i])
  <2>1. SUFFICES ASSUME s <= n PROVE \E i \in 1 .. Len(L) : s \in SlotsOf(L[i])
    OBVIOUS
  <2>2. p + 1 \in 1 .. q + 2 /\ p + 1 <= q + 1
    BY <1>4, <1>7, <2>1
  <2>. QED BY <1>5, <1>8, <2>2
<1>10. \A i, j \in 1 .. Len(L) : s \in SlotsOf(L[i]) /\ s \in SlotsOf(L[j]) => i = j
  <2>1. Len(L) = q + 2
    BY <1>5
  <2>2. SUFFICES ASSUME NEW i \in 1 .. q + 2, NEW j \in 1 .. q + 2,
                        s \in SlotsOf(L[i]), s \in SlotsOf(L[j])
                 PROVE  i = j
    BY <2>1
  <2>3. i = p + 1 /\ j = p + 1
    BY <1>8, <2>2
  <2>. QED BY <2>3
<1>. QED BY <1>9, <1>10 DEF L

LEMMA ErasingKeepsArea ==
    ASSUME FullInv,
           EraseNextSector \/ RetryErase \/ AllErased \/ EraseSucceeds \/ EraseFails
    PROVE  AreaInv'
<1>0. AreaInv /\ TypeOK /\ Phases
  BY DEF FullInv, StepInv, HonestInv
<1>1. st = "ErasingSector"
  BY <1>0 DEF EraseNextSector, RetryErase, AllErased, EraseSucceeds, EraseFails,
              Phases
<1>2. /\ NothingTaken /\ ses.addr = 1 /\ ses.packetExp = ses.offer.num
      /\ \A s \in Slots, i \in 1 .. Len(ses.sectors) :
            s \in SlotsOf(ses.sectors[i]) /\ SectorDone(i) => area[s] = Blank
      /\ ses.offer.size \in 1 .. AppSectors * SectorSlots - 1
      /\ ses.sectors = SectorsToErase(ses.offer.size)
      /\ ses.index < Len(ses.sectors) /\ ses.index \in Nat
      /\ Len(ses.sectors) \in Nat
  BY <1>0, <1>1, AreaTypes DEF AreaInv, Phases, TypeOK, Session
<1>3. ses.offer.size \in Nat /\ ses.offer.size < AppSectors * SectorSlots
  BY <1>0, <1>2, AreaTypes
\* Going on erasing.
<1>4. ASSUME /\ st' = "ErasingSector" /\ hw' # "commit"
             /\ accepted' = accepted
             /\ ses'.packetCurr = ses.packetCurr /\ ses'.addr = ses.addr
             /\ ses'.packetExp = ses.packetExp /\ ses'.offer = ses.offer
             /\ ses'.sectors = ses.sectors,
             \A s \in Slots, i \in 1 .. Len(ses.sectors) :
                s \in SlotsOf(ses.sectors[i]) /\ SectorDone(i)' => area'[s] = Blank
      PROVE  AreaInv'
  BY <1>2, <1>4 DEF AreaInv, NothingTaken
<1>5. CASE EraseNextSector \/ RetryErase
  <2>1. /\ st' = "ErasingSector" /\ hw' = "erase" /\ accepted' = accepted
        /\ ses'.packetCurr = ses.packetCurr /\ ses'.addr = ses.addr
        /\ ses'.packetExp = ses.packetExp /\ ses'.offer = ses.offer
        /\ ses'.sectors = ses.sectors /\ area' = area
    BY <1>0, <1>5
    DEF EraseNextSector, RetryErase, EnterErasingSector, flash, TypeOK, Session
  <2>2. \A i \in 1 .. Len(ses.sectors) : SectorDone(i)' => SectorDone(i)
    <3>1. CASE EraseNextSector
      <4>1. /\ ses'.index = ses.index + 1 /\ hw = "none" /\ errorCode = "NONE"
        BY <1>0, <3>1 DEF EraseNextSector, Take, TypeOK, Session
      <4>. QED BY <1>2, <2>1, <4>1 DEF SectorDone
    <3>2. CASE RetryErase
      <4>1. ses'.index = ses.index
        BY <1>0, <3>2 DEF RetryErase, TypeOK, Session
      <4>. QED BY <1>2, <2>1, <4>1 DEF SectorDone
    <3>. QED BY <1>5, <3>1, <3>2
  <2>. QED BY <1>2, <1>4, <2>1, <2>2
<1>6. CASE AllErased
  <2>1. /\ st' = "WaitingForFWData" /\ hw' = "none" /\ accepted' = <<>>
        /\ ses'.packetCurr = 0 /\ ses'.addr = 1 /\ ses'.packetExp = ses.offer.num
        /\ ses'.offer = ses.offer /\ area' = area
        /\ errorCode' = "WAIT_FOR_DATA_TIMEOUT"
    BY <1>0, <1>2, <1>6
    DEF AllErased, EnterWaitingForFWData, Take, flash, TypeOK, Session, NothingTaken
  <2>2. \A i \in 1 .. Len(ses.sectors) : SectorDone(i)
    BY <1>2, <1>6 DEF AllErased, Take, SectorDone
  <2>3. \A s \in Slots : s <= ses.offer.size => area[s] = Blank
    BY <1>2, <1>3, <2>2, SlotsAndSectors
  <2>4. ses.offer.num \in Nat \ {0}
    BY <1>0, AreaTypes
  <2>. QED BY <1>2, <2>1, <2>3, <2>4 DEF AreaInv
<1>7. CASE EraseSucceeds
  <2>1. /\ st' = "ErasingSector" /\ hw' = "none" /\ accepted' = accepted
        /\ ses' = ses
        /\ area' = [s \in Slots |->
                      IF s \in SlotsOf(CurrSector) THEN Blank ELSE area[s]]
    BY <1>1, <1>7 DEF EraseSucceeds
  <2>2. ASSUME NEW s \in Slots, NEW i \in 1 .. Len(ses.sectors),
               s \in SlotsOf(ses.sectors[i]), SectorDone(i)'
        PROVE  area'[s] = Blank
    <3>1. i <= ses.index \/ i = ses.index + 1
      BY <2>1, <2>2 DEF SectorDone
    <3>2. CASE i <= ses.index
      BY <1>2, <2>1, <2>2, <3>2 DEF SectorDone
    <3>3. CASE i = ses.index + 1
      BY <2>1, <2>2, <3>3 DEF CurrSector
    <3>. QED BY <3>1, <3>2, <3>3
  <2>. QED BY <1>4, <2>1, <2>2
<1>8. CASE EraseFails
  <2>1. /\ st' = "ErasingSector" /\ hw' = "none" /\ errorCode' # "NONE"
        /\ accepted' = accepted /\ ses' = ses
        /\ \A s \in Slots : area'[s] = area[s] \/ s \in SlotsOf(CurrSector)
    BY <1>1, <1>8 DEF EraseFails, HalfErased
  <2>2. ASSUME NEW s \in Slots, NEW i \in 1 .. Len(ses.sectors),
               s \in SlotsOf(ses.sectors[i]), SectorDone(i)'
        PROVE  area'[s] = Blank
    <3>1. i <= ses.index
      BY <2>1, <2>2 DEF SectorDone
    <3>2. ses.index + 1 \in 1 .. Len(ses.sectors) /\ i # ses.index + 1
      BY <1>2, <3>1
    <3>3. s \notin SlotsOf(CurrSector)
      BY <1>2, <1>3, <2>2, <3>2, SlotsAndSectors DEF CurrSector
    <3>. QED BY <1>2, <2>1, <2>2, <3>1, <3>3 DEF SectorDone
  <2>. QED BY <1>4, <2>1, <2>2
<1>. QED BY <1>5, <1>6, <1>7, <1>8

\* What the code between two packets knows.
DataPhase(n, acc, ar, s) ==
    /\ s.offer.size \in 1 .. AppSectors * SectorSlots - 1
    /\ s.packetExp = s.offer.num /\ s.addr = s.packetCurr + 1
    /\ \A i \in 1 .. s.packetCurr : ar[i] = acc[i]
    /\ \A k \in Slots : k > Len(acc) /\ k <= s.offer.size => ar[k] = Blank
    /\ Len(acc) = s.packetCurr + n

\* AreaInv by cases of the state, for the steps that take packets.
LEMMA DataParts ==
    ASSUME AreaInv
    PROVE  /\ st = "WaitingForFWData" =>
                 /\ DataPhase(0, accepted, area, ses)
                 /\ ses.packetCurr < ses.packetExp
                 /\ errorCode = "WAIT_FOR_DATA_TIMEOUT"
           /\ st = "WritingFlash" /\ OnItsWay =>
                 /\ DataPhase(1, accepted, area, ses)
                 /\ ses.dataBuf = accepted[Len(accepted)]
                 /\ ses.packetCurr < ses.packetExp
           /\ st = "WritingFlash" /\ ~OnItsWay =>
                 /\ DataPhase(0, accepted, area, ses)
                 /\ ses.packetCurr <= ses.packetExp /\ ses.packetCurr > 0
<1>1. CASE st = "WaitingForFWData"
  BY <1>1 DEF AreaInv, DataPhase
<1>2. CASE st = "WritingFlash"
  BY <1>2 DEF AreaInv, DataPhase
<1>. QED BY <1>1, <1>2

LEMMA WaitingParts ==
    ASSUME st' = "WaitingForFWData", hw' = "none",
           DataPhase(0, accepted', area', ses'),
           ses'.packetCurr < ses'.packetExp,
           errorCode' = "WAIT_FOR_DATA_TIMEOUT", TypeOK'
    PROVE  AreaInv'
<1>1. ses'.packetCurr \in Nat
  BY DEF TypeOK, Session
<1>. QED BY <1>1 DEF AreaInv, DataPhase

LEMMA OnItsWayParts ==
    ASSUME st' = "WritingFlash", OnItsWay', hw' # "commit",
           DataPhase(1, accepted', area', ses'),
           ses'.dataBuf = accepted'[Len(accepted')],
           ses'.packetCurr < ses'.packetExp,
           Queued({"FLASH_ERROR"})' => errorCode' = "FLASH_HW"
    PROVE  AreaInv'
BY DEF AreaInv, DataPhase

LEMMA InFlashParts ==
    ASSUME st' = "WritingFlash", hw' # "program", ~Queued({"FLASH_ERROR"})',
           DataPhase(0, accepted', area', ses'),
           ses'.packetCurr <= ses'.packetExp, ses'.packetCurr > 0, TypeOK',
           hw' = "commit" =>
              \A i \in 1 .. 5 :
                 meta'[MetaFields[i]] = IF i < ses'.field
                                        THEN FieldOf(ses'.offer, MetaFields[i])
                                        ELSE Blank
    PROVE  AreaInv'
<1>1. ~OnItsWay' /\ ses'.packetCurr \in Nat
  BY DEF OnItsWay, TypeOK, Session
<1>. QED BY <1>1 DEF AreaInv, DataPhase

LEMMA PacketsKeepArea ==
    ASSUME FullInv, TypeOK',
           \/ DataAccepted \/ AskForNextPacket \/ StartCommit \/ RetryWrite
           \/ ProgramSucceeds \/ ProgramFails
    PROVE  AreaInv'
<1>0. AreaInv /\ TypeOK /\ Phases /\ StepInv
  BY DEF FullInv, StepInv, HonestInv
<1>1. ASSUME NEW sig \in {"FLASH_DATA", "FLASH_DONE", "FLASH_ERROR"}, Take(sig),
             Drop
      PROVE  hw = "none" /\ ~Queued({"FLASH_ERROR"})'
  <2>1. OnlyTimeouts(flashQ') /\ hw = "none"
    BY <1>0, <1>1, Taken, NoTimeouts DEF Drop
  <2>. QED BY <2>1, NothingOnItsWay
<1>2. ASSUME st = "WritingFlash", Take("FLASH_DONE") PROVE ~OnItsWay
  <2>1. /\ flashQ # <<>> /\ flashQ \in Seq(Events) /\ hw = "none"
        /\ OneStep(flashQ) /\ Head(flashQ).sig = "FLASH_DONE"
    BY <1>0, <1>2, PairedIs DEF Take, StepInv, TypeOK, Paired
  <2>2. 1 \in DOMAIN flashQ /\ flashQ[1].sig = "FLASH_DONE"
    BY <2>1
  <2>. QED BY <2>1, <2>2 DEF OneStep, OnItsWay, Queued, TimeoutSignals
<1>3. ASSUME st = "WritingFlash", Take("FLASH_ERROR") PROVE OnItsWay
  <2>1. /\ flashQ # <<>> /\ flashQ \in Seq(Events)
        /\ Head(flashQ).sig = "FLASH_ERROR"
    BY <1>0, <1>3 DEF Take, TypeOK
  <2>2. 1 \in DOMAIN flashQ /\ flashQ[1].sig = "FLASH_ERROR"
    BY <2>1
  <2>. QED BY <2>2 DEF OnItsWay, Queued
<1>4. CASE DataAccepted
  <2>1. /\ st' = "WritingFlash" /\ hw' = "program" /\ OnItsWay'
        /\ ~Queued({"FLASH_ERROR"})' /\ area' = area
        /\ accepted' = Append(accepted, Head(flashQ).chunk)
        /\ Head(flashQ).chunk \in Chunks
    BY <1>0, <1>1, <1>4, HeadEvent, EventTypes
    DEF DataAccepted, EnterWritingFlash, OnItsWay, flash
  <2>2. /\ ses'.packetCurr = ses.packetCurr /\ ses'.packetExp = ses.packetExp
        /\ ses'.offer = ses.offer /\ ses'.addr = ses.addr
        /\ ses'.dataBuf = Head(flashQ).chunk
    BY <1>0, <1>4 DEF DataAccepted, TypeOK, Session
  <2>3. /\ DataPhase(0, accepted, area, ses) /\ ses.packetCurr < ses.packetExp
    BY <1>0, <1>4, DataParts DEF DataAccepted
  <2>4. /\ Len(accepted') = Len(accepted) + 1
        /\ accepted'[Len(accepted')] = Head(flashQ).chunk
        /\ \A i \in 1 .. Len(accepted) : accepted'[i] = accepted[i]
    BY <1>0, <2>1 DEF TypeOK
  <2>5. DataPhase(1, accepted', area', ses')
    BY <1>0, <2>1, <2>2, <2>3, <2>4, AreaTypes DEF DataPhase
  <2>. QED BY <2>1, <2>2, <2>3, <2>4, <2>5, OnItsWayParts
<1>5. CASE AskForNextPacket
  <2>1. /\ st' = "WaitingForFWData" /\ hw' = "none" /\ area' = area
        /\ accepted' = accepted /\ ses' = ses
        /\ errorCode' = "WAIT_FOR_DATA_TIMEOUT"
    BY <1>5 DEF AskForNextPacket, EnterWaitingForFWData, Take, flash
  <2>2. DataPhase(0, accepted, area, ses) /\ ses.packetCurr < ses.packetExp
    BY <1>0, <1>2, <1>5, DataParts, AreaTypes DEF AskForNextPacket
  <2>. QED BY <2>1, <2>2, WaitingParts
<1>6. CASE StartCommit
  <2>1. /\ st' = "WritingFlash" /\ hw' = "commit" /\ area' = area
        /\ accepted' = accepted /\ ses' = ses /\ meta' = meta
        /\ ~Queued({"FLASH_ERROR"})'
    BY <1>1, <1>6 DEF StartCommit, flash
  <2>2. /\ DataPhase(0, accepted, area, ses) /\ ses.packetCurr <= ses.packetExp
        /\ ses.packetCurr > 0
    BY <1>0, <1>2, <1>6, DataParts DEF StartCommit
  <2>3. ses.field = 1 /\ \A i \in 1 .. 5 : meta[MetaFields[i]] = Blank
    BY <1>0, <1>6, MetaFieldsAre DEF StartCommit, Phases, Take, Clean
  <2>4. \A i \in 1 .. 5 : ~(i < 1)
    OBVIOUS
  <2>. QED BY <2>1, <2>2, <2>3, <2>4, InFlashParts
<1>7. CASE RetryWrite
  <2>1. /\ st' = "WritingFlash" /\ hw' = "program" /\ area' = area /\ OnItsWay'
        /\ accepted' = accepted /\ ses' = ses /\ ~Queued({"FLASH_ERROR"})'
    BY <1>1, <1>7 DEF RetryWrite, EnterWritingFlash, OnItsWay, flash
  <2>2. /\ DataPhase(1, accepted, area, ses) /\ ses.packetCurr < ses.packetExp
        /\ ses.dataBuf = accepted[Len(accepted)]
    BY <1>0, <1>3, <1>7, DataParts DEF RetryWrite
  <2>. QED BY <2>1, <2>2, OnItsWayParts
<1>8. ASSUME hw = "program"
      PROVE  /\ st = "WritingFlash" /\ OnItsWay /\ OnlyTimeouts(flashQ)
             /\ DataPhase(1, accepted, area, ses)
             /\ ses.packetCurr < ses.packetExp
             /\ ses.dataBuf = accepted[Len(accepted)]
             /\ flashQ \in Seq(Events) /\ OneStep(flashQ)
  <2>1. st = "WritingFlash" /\ OnItsWay
    BY <1>0, <1>8 DEF Phases, OnItsWay
  <2>2. OnlyTimeouts(flashQ) /\ flashQ \in Seq(Events) /\ OneStep(flashQ)
    BY <1>0, <1>8, PairedIs DEF StepInv, TypeOK, Paired
  <2>. QED BY <1>0, <2>1, <2>2, DataParts
<1>9. CASE ProgramSucceeds
  <2>1. /\ st' = "WritingFlash" /\ hw' = "none" /\ accepted' = accepted
        /\ area' = [area EXCEPT ![ses.addr] = ses.dataBuf]
        /\ flashQ' = Append(flashQ, FlashDone)
    BY <1>8, <1>9 DEF ProgramSucceeds
  <2>2. /\ ses'.packetCurr = ses.packetCurr + 1 /\ ses'.packetExp = ses.packetExp
        /\ ses'.offer = ses.offer /\ ses'.addr = ses.addr + 1
    BY <1>0, <1>9 DEF ProgramSucceeds, TypeOK, Session
  <2>3. ~Queued({"FLASH_ERROR"})'
    <3>1. ~Holds(flashQ', {"FLASH_ERROR"})
      BY <1>8, <1>9, <2>1, OneStepAppend, NoTimeouts
      DEF ProgramSucceeds, FlashDone, Holds, OnlyTimeouts, TimeoutSignals
    <3>. QED BY <3>1 DEF Queued, Holds
  <2>4. DataPhase(0, accepted', area', ses')
    <3>1. /\ Len(accepted) = ses.packetCurr + 1 /\ ses.addr = ses.packetCurr + 1
          /\ ses.packetCurr \in Nat /\ area \in [Slots -> Cells]
          /\ ses.addr \in Slots
      BY <1>0, <1>8, <1>9, AreaTypes DEF ProgramSucceeds, DataPhase
    <3>2. /\ area'[ses.addr] = ses.dataBuf
          /\ \A k \in Slots : k # ses.addr => area'[k] = area[k]
      BY <2>1, <3>1
    <3>3. /\ \A i \in 1 .. ses.packetCurr : i \in Slots /\ i # ses.addr
      BY <1>0, <3>1, AreaTypes
    <3>4. \A i \in 1 .. ses'.packetCurr : area'[i] = accepted'[i]
      BY <1>8, <1>9, <2>1, <2>2, <3>1, <3>2, <3>3 DEF ProgramSucceeds, DataPhase
    <3>5. \A k \in Slots : k > Len(accepted) => k # ses.addr
      BY <1>0, <3>1, AreaTypes
    <3>. QED
      BY <1>8, <1>9, <2>1, <2>2, <3>1, <3>2, <3>4, <3>5
      DEF ProgramSucceeds, DataPhase
  <2>5. ses'.packetCurr <= ses'.packetExp /\ ses'.packetCurr > 0
    BY <1>0, <1>8, <1>9, <2>2, AreaTypes DEF ProgramSucceeds
  <2>. QED BY <2>1, <2>3, <2>4, <2>5, InFlashParts
<1>10. CASE ProgramFails
  <2>1. /\ st' = "WritingFlash" /\ hw' = "none" /\ accepted' = accepted
        /\ ses' = ses /\ errorCode' = "FLASH_HW"
        /\ flashQ' = Append(flashQ, FlashErr)
    BY <1>8, <1>10 DEF ProgramFails
  <2>2. OnItsWay'
    <3>1. Holds(flashQ', {"FLASH_ERROR"})
      BY <1>8, <1>10, <2>1, OneStepAppend, NoTimeouts DEF ProgramFails, FlashErr
    <3>. QED BY <3>1 DEF OnItsWay, Queued, Holds
  <2>3. DataPhase(1, accepted', area', ses')
    <3>1. /\ Len(accepted) = ses.packetCurr + 1 /\ ses.addr = ses.packetCurr + 1
          /\ ses.packetCurr \in Nat /\ area \in [Slots -> Cells]
          /\ ses.addr \in Slots
      BY <1>0, <1>8, <1>10, AreaTypes DEF ProgramFails, DataPhase
    <3>2. \A k \in Slots : k # ses.addr => area'[k] = area[k]
      BY <1>10, <3>1 DEF ProgramFails, HalfProgrammed
    <3>3. /\ \A i \in 1 .. ses.packetCurr : i \in Slots /\ i # ses.addr
          /\ \A k \in Slots : k > Len(accepted) => k # ses.addr
      BY <1>0, <3>1, AreaTypes
    <3>. QED
      BY <1>8, <1>10, <2>1, <3>1, <3>2, <3>3 DEF ProgramFails, DataPhase
  <2>. QED BY <1>8, <1>10, <2>1, <2>2, <2>3, OnItsWayParts DEF ProgramFails
<1>. QED BY <1>4, <1>5, <1>6, <1>7, <1>9, <1>10

LEMMA CommitKeepsArea ==
    ASSUME FullInv, TypeOK', CommitField \/ CommitFails PROVE AreaInv'
<1>0. AreaInv /\ TypeOK /\ Phases
  BY DEF FullInv, StepInv, HonestInv
<1>1. CASE CommitFails \/ ~(ses.field < Len(MetaFields))
  BY <1>1, IdleArea DEF CommitFails, CommitField, LeaveBusyFlash
<1>2. CASE CommitField /\ ses.field < Len(MetaFields)
  <2>1. /\ hw = "commit" /\ hw' = "commit" /\ st = "WritingFlash" /\ st' = st
        /\ area' = area /\ accepted' = accepted /\ flashQ' = flashQ
        /\ meta' = [meta EXCEPT ![CurrField] = FieldOf(ses.offer, CurrField)]
    BY <1>0, <1>2 DEF CommitField, Phases
  <2>2. /\ ses'.packetCurr = ses.packetCurr /\ ses'.packetExp = ses.packetExp
        /\ ses'.offer = ses.offer /\ ses'.addr = ses.addr
        /\ ses'.field = ses.field + 1
    BY <1>0, <1>2 DEF CommitField, TypeOK, Session
  <2>3. ~Queued({"FLASH_ERROR"}) /\ ~Queued({"FLASH_ERROR"})' /\ ~OnItsWay
    <3>1. OnlyTimeouts(flashQ)
      BY <1>0, <2>1, PairedIs DEF FullInv, StepInv, Paired
    <3>2. ~Queued({"FLASH_ERROR"})
      BY <3>1 DEF OnlyTimeouts, Queued, TimeoutSignals
    <3>. QED BY <2>1, <3>2 DEF Queued, OnItsWay
  <2>4. /\ DataPhase(0, accepted, area, ses) /\ ses.packetCurr <= ses.packetExp
        /\ ses.packetCurr > 0
    BY <1>0, <2>1, <2>3, DataParts
  <2>5. DataPhase(0, accepted', area', ses')
    BY <2>1, <2>2, <2>4 DEF DataPhase
  <2>6. \A i \in 1 .. 5 :
           meta'[MetaFields[i]] = IF i < ses'.field
                                  THEN FieldOf(ses'.offer, MetaFields[i])
                                  ELSE Blank
    <3>1. /\ \A i \in 1 .. 5 :
                meta[MetaFields[i]] = IF i < ses.field
                                      THEN FieldOf(ses.offer, MetaFields[i])
                                      ELSE Blank
          /\ ses.field \in 1 .. 5 /\ DOMAIN meta = MetaNames
      BY <1>0, <2>1, AreaTypes DEF AreaInv
    <3>2. \A i \in 1 .. 5 : /\ MetaFields[i] \in MetaNames
                            /\ MetaFields[i] = CurrField <=> i = ses.field
      BY <3>1, MetaFieldsAre DEF CurrField
    <3>3. /\ meta'[CurrField] = FieldOf(ses.offer, CurrField)
          /\ \A f \in MetaNames : f # CurrField => meta'[f] = meta[f]
      BY <2>1, <3>1, <3>2
    <3>4. ASSUME NEW i \in 1 .. 5
          PROVE  meta'[MetaFields[i]] = IF i < ses.field + 1
                                        THEN FieldOf(ses.offer, MetaFields[i])
                                        ELSE Blank
      <4>1. CASE i = ses.field
        BY <3>1, <3>2, <3>3, <4>1
      <4>2. CASE i # ses.field
        BY <3>1, <3>2, <3>3, <4>2
      <4>. QED BY <4>1, <4>2
    <3>. QED BY <2>2, <3>4
  <2>. QED BY <2>1, <2>2, <2>3, <2>4, <2>5, <2>6, InFlashParts
<1>. QED BY <1>1, <1>2

LEMMA InitiallyFull == Init => FullInv
<1>. SUFFICES ASSUME Init PROVE FullInv
  OBVIOUS
<1>1. AreaInv
  BY DEF Init, AreaInv
<1>. QED BY <1>1, InitiallyPaired DEF FullInv

LEMMA StepKeepsFull == FullInv /\ [Next]_vars => FullInv'
<1>. SUFFICES ASSUME FullInv, [Next]_vars PROVE FullInv'
  OBVIOUS
<1>0. StepInv' /\ TypeOK'
  BY StepKeepsPairs DEF FullInv, StepInv, HonestInv
<1>1. CASE Dispatch
  <2>1. AreaInv'
    BY <1>0, <1>1, EndsKeepArea, RamKeepsArea, EnvironmentKeepsArea,
       PrepKeepsArea, ErasingKeepsArea, PacketsKeepArea DEF Dispatch
  <2>. QED BY <1>0, <2>1 DEF FullInv
<1>2. CASE Operation
  BY <1>0, <1>2, ErasingKeepsArea, PacketsKeepArea, CommitKeepsArea
  DEF Operation, FullInv
<1>3. CASE Timer \/ PowerLoss \/ EnvTake \/ \E r \in Requests : EnvPost(r)
  BY <1>0, <1>3, EnvironmentKeepsArea DEF FullInv
<1>4. CASE UNCHANGED vars
  BY <1>0, <1>4, SameArea DEF vars, Queued, FullInv
<1>. QED BY <1>1, <1>2, <1>3, <1>4 DEF Next, FlashMgrStep

(***************************************************************************)
(* While a session takes data, the area holds the packets taken, each once *)
(* and in order, and is erased where the next ones go, for every sector    *)
(* map, image and retry limit.  It needs what erasing leaves behind (every *)
(* slot of the image is in a sector of the list, SlotsAndSectors) and that *)
(* a packet is on its way exactly until FLASH_DONE_SIG is posted, which is *)
(* where OneStepPending comes in.                                          *)
(***************************************************************************)
THEOREM PacketsAreInArea == Spec => []AreaHoldsPackets
<1>1. FullInv => AreaHoldsPackets
  <2>1. SUFFICES ASSUME FullInv, st \in {"WaitingForFWData", "WritingFlash"}
                 PROVE  /\ ses.packetCurr <= Len(accepted)
                        /\ \A i \in 1 .. ses.packetCurr : area[i] = accepted[i]
                        /\ \A s \in Slots :
                              s > Len(accepted) /\ s <= ses.offer.size
                                 => area[s] = Blank
    BY DEF AreaHoldsPackets
  <2>2. ses.packetCurr \in Nat /\ AreaInv
    BY <2>1, AreaTypes DEF FullInv, StepInv, HonestInv
  <2>3. \E n \in {0, 1} : DataPhase(n, accepted, area, ses)
    BY <2>1, <2>2, DataParts
  <2>. QED BY <2>2, <2>3 DEF DataPhase
<1>. QED BY <1>1, InitiallyFull, StepKeepsFull, PTL DEF Spec

-----------------------------------------------------------------------------
(* Replies *)

LEMMA AppendChanges ==
    ASSUME NEW S, NEW q \in Seq(S), NEW e \in S
    PROVE  /\ Append(q, e) # q
           /\ Append(q, e) # <<>>
           /\ q # <<>> => Append(q, e) # Tail(q)
           /\ \A f \in S : Append(q, f) = Append(q, e) => f = e
<1>1. /\ Len(q) \in Nat /\ Len(Append(q, e)) = Len(q) + 1
      /\ q # <<>> => Len(Tail(q)) = Len(q) - 1
  OBVIOUS
<1>2. \A f \in S : Append(q, f)[Len(q) + 1] = f
  OBVIOUS
<1>3. Append(q, e) # q /\ Append(q, e) # <<>>
      /\ (q # <<>> => Append(q, e) # Tail(q))
  BY <1>1
<1>4. \A f \in S : Append(q, f) = Append(q, e) => f = e
  BY <1>2
<1>. QED BY <1>3, <1>4

\* A reply is sent by the steps that end a session and by those that ask for
\* a packet; nothing else sends one without error.
LEMMA OtherReport ==
    ASSUME TypeOK,
           \/ commQ' = commQ \/ commQ' = <<>> \/ EnvTake
           \/ \E err \in ErrorCodes \ {"NONE"} : commQ' = Append(commQ, OpDone(err))
           \/ \E err \in ErrorCodes, t \in BusyRam :
                 commQ' = Append(commQ, RamDone(err, t))
    PROVE  ~Reports("NONE")
<1>1. commQ \in Seq(Replies) /\ OpDone("NONE") \in Replies
  BY ReplyTypes DEF TypeOK, ErrorCodes
<1>2. CASE commQ' = commQ \/ commQ' = <<>> \/ EnvTake
  BY <1>1, <1>2, AppendChanges DEF Reports, EnvTake
<1>3. CASE \E err \in ErrorCodes \ {"NONE"} : commQ' = Append(commQ, OpDone(err))
  <2>1. PICK err \in ErrorCodes \ {"NONE"} : commQ' = Append(commQ, OpDone(err))
    BY <1>3
  <2>2. OpDone(err) \in Replies /\ OpDone(err) # OpDone("NONE")
    <3>1. OpDone(err).err = err /\ OpDone("NONE").err = "NONE"
      BY DEF OpDone
    <3>. QED BY <3>1, ReplyTypes
  <2>. QED BY <1>1, <2>1, <2>2, AppendChanges DEF Reports
<1>4. CASE \E err \in ErrorCodes, t \in BusyRam :
              commQ' = Append(commQ, RamDone(err, t))
  <2>1. PICK err \in ErrorCodes, t \in BusyRam :
                commQ' = Append(commQ, RamDone(err, t))
    BY <1>4
  <2>2. RamDone(err, t) \in Replies /\ RamDone(err, t) # OpDone("NONE")
    <3>1. RamDone(err, t).sig = "RAM_TEST_DONE"
          /\ OpDone("NONE").sig = "FLASH_OP_DONE"
      BY DEF RamDone, OpDone
    <3>. QED BY <3>1, ReplyTypes
  <2>. QED BY <1>1, <2>1, <2>2, AppendChanges DEF Reports
<1>. QED BY <1>2, <1>3, <1>4

LEMMA EndsReportTruth ==
    ASSUME FullInv,
           \/ PrepRejects \/ PrepOpTimeout \/ GiveUpErase \/ DataCorrupt
           \/ DataOutOfSequence \/ ImageMismatch \/ GiveUpWrite \/ SessionAborts
    PROVE  TrueReport
<1>0. AreaInv /\ TypeOK /\ StepInv /\ errorCode \in ErrorCodes
  BY DEF FullInv, StepInv, HonestInv, TypeOK
<1>1. ASSUME NEW err \in ErrorCodes \ {"NONE"}, LeaveBusyFlash(err)
      PROVE  TrueReport
  BY <1>0, <1>1, OtherReport DEF LeaveBusyFlash, TrueReport
<1>2. {"INVALID_META", "ERASE_TIMEOUT", "INVALID_FW_PACKET_CRC",
       "INVALID_IMAGE_CRC_AFTER_FLASH", "FLASH_HW", "WAIT_FOR_DATA_TIMEOUT"}
         \subseteq ErrorCodes \ {"NONE"}
  BY DEF ErrorCodes
<1>3. ASSUME Take("FLASH_ERROR"), st \in BusyFlash
      PROVE  st = "WritingFlash" /\ errorCode = "FLASH_HW"
  <2>1. /\ flashQ # <<>> /\ flashQ \in Seq(Events) /\ hw = "none"
        /\ Head(flashQ).sig = "FLASH_ERROR" /\ Paired(flashQ, hw, st)
    BY <1>0, <1>3, PairedIs DEF Take, StepInv, TypeOK
  <2>2. 1 \in DOMAIN flashQ /\ flashQ[1].sig = "FLASH_ERROR"
    BY <2>1
  <2>3. Queued({"FLASH_ERROR"})
    BY <2>2 DEF Queued
  <2>4. ~Holds(flashQ, {"FLASH_NEXT_STEP"})
    BY <2>1, <2>2 DEF Paired, OneStep, Holds, TimeoutSignals
  <2>5. Holds(flashQ, SelfSignals)
    BY <2>2 DEF Holds, SelfSignals
  <2>6. st = "WritingFlash"
    BY <1>3, <2>1, <2>4, <2>5 DEF Paired, BusyFlash
  <2>. QED BY <1>0, <2>3, <2>6 DEF AreaInv
<1>4. CASE PrepRejects
  <2>1. ValidateMetadata(ses.offer) = "INVALID_META"
    BY <1>4 DEF PrepRejects, ValidateMetadata
  <2>. QED BY <1>1, <1>2, <1>4, <2>1 DEF PrepRejects
<1>5. CASE PrepOpTimeout \/ DataCorrupt \/ ImageMismatch
  BY <1>1, <1>2, <1>5 DEF PrepOpTimeout, DataCorrupt, ImageMismatch
<1>6. CASE GiveUpErase
  BY <1>0, <1>1, <1>6 DEF GiveUpErase
<1>7. CASE DataOutOfSequence
  BY <1>0, <1>1, <1>2, <1>7 DEF DataOutOfSequence, AreaInv
<1>8. CASE GiveUpWrite
  BY <1>1, <1>2, <1>3, <1>8 DEF GiveUpWrite, BusyFlash
<1>9. CASE SessionAborts
  <2>1. CASE Take("FLASH_TIMEOUT")
    BY <2>1 DEF TrueReport
  <2>2. CASE Take("FLASH_ERROR") /\ st # "WritingFlash"
    BY <1>3, <1>9, <2>2 DEF SessionAborts
  <2>. QED BY <1>9, <2>1, <2>2 DEF SessionAborts
<1>. QED BY <1>4, <1>5, <1>6, <1>7, <1>8, <1>9

\* The last field is written: image and metadata are both in flash.
LEMMA InstalledIsReal ==
    ASSUME FullInv, CommitField, ~(ses.field < Len(MetaFields))
    PROVE  ImageInstalled
<1>0. AreaInv /\ TypeOK /\ Phases
  BY DEF FullInv, StepInv, HonestInv
<1>1. /\ st = "WritingFlash" /\ ~dirty /\ ImageMatches /\ ses.field = 5
      /\ hw = "commit" /\ DOMAIN meta = MetaNames
  BY <1>0, MetaFieldsAre, AreaTypes DEF CommitField, Phases
<1>2. ~dirty'
  BY <1>1 DEF CommitField
<1>3. \A f \in MetaNames : meta'[f] = FieldOf(ses.offer, f)
  <2>1. \A i \in 1 .. 4 : meta[MetaFields[i]] = FieldOf(ses.offer, MetaFields[i])
    BY <1>0, <1>1 DEF AreaInv
  <2>2. meta' = [meta EXCEPT !["date"] = FieldOf(ses.offer, "date")]
    BY <1>1, MetaFieldsAre DEF CommitField, CurrField
  <2>3. /\ meta["size"] = FieldOf(ses.offer, "size")
        /\ meta["crc"] = FieldOf(ses.offer, "crc")
        /\ meta["maj"] = FieldOf(ses.offer, "maj")
        /\ meta["min"] = FieldOf(ses.offer, "min")
    BY <2>1, MetaFieldsAre
  <2>. QED BY <1>1, <2>2, <2>3, MetaFieldsAre
<1>4. ses.offer.crc = [i \in 1 .. ses.offer.size |-> accepted[i]]
  <2>1. ~Queued({"FLASH_ERROR"}) /\ ~OnItsWay
    <3>1. OnlyTimeouts(flashQ)
      BY <1>0, <1>1, PairedIs DEF FullInv, StepInv, Paired
    <3>. QED BY <1>1, <3>1 DEF OnlyTimeouts, Queued, TimeoutSignals, OnItsWay
  <2>2. DataPhase(0, accepted, area, ses)
    BY <1>0, <1>1, <2>1, DataParts
  <2>3. /\ ses.offer.crc = [i \in 1 .. ses.offer.size |-> area[i]]
        /\ ses.offer.crc \in Seq(Chunks) /\ ses.offer.size \in Nat
    BY <1>0, <1>1, AreaTypes DEF ImageMatches, Content
  <2>4. \A i \in 1 .. ses.offer.size : area[i] \in Chunks
    BY <2>3
  <2>5. ASSUME NEW i \in 1 .. ses.offer.size PROVE area[i] = accepted[i]
    <3>1. i \in Slots
      BY <1>0, <2>2, AreaTypes DEF DataPhase
    <3>2. area[i] # Blank
      BY <2>4, SizesAssumption
    <3>3. ~(i > Len(accepted))
      BY <2>2, <3>1, <3>2 DEF DataPhase
    <3>4. i \in 1 .. ses.packetCurr
      BY <1>0, <2>2, <2>3, <3>3, AreaTypes DEF DataPhase
    <3>. QED BY <2>2, <3>4 DEF DataPhase
  <2>. QED BY <2>3, <2>5
<1>. QED BY <1>2, <1>3, <1>4 DEF ImageInstalled

LEMMA StepsReportTruth == FullInv /\ [Next]_vars => [TrueReport]_vars
<1>. SUFFICES ASSUME FullInv, Next PROVE TrueReport
  BY DEF TrueReport
<1>0. AreaInv /\ TypeOK /\ Phases /\ StepInv
      /\ {"RAM_FAILED", "NONE", "FLASH_HW"} \subseteq ErrorCodes
      /\ errorCode \in ErrorCodes
  BY DEF FullInv, StepInv, HonestInv, ErrorCodes, TypeOK
<1>1. FullInv'
  BY StepKeepsFull
<1>2. CASE AllErased \/ AskForNextPacket
  <2>1. st' = "WaitingForFWData" /\ hw' = "none" /\ accepted' = accepted
    BY <1>2 DEF AllErased, AskForNextPacket, EnterWaitingForFWData, Take
  <2>2. AreaInv' /\ Phases' /\ TypeOK'
    BY <1>1 DEF FullInv, StepInv, HonestInv
  <2>3. \A f \in MetaNames : meta'[f] = Blank
    BY <2>1, <2>2 DEF Phases, Clean
  <2>4. /\ Len(accepted) = ses'.packetCurr /\ ses'.packetCurr < ses'.offer.num
    BY <2>1, <2>2 DEF AreaInv
  <2>. QED BY <2>1, <2>3, <2>4 DEF TrueReport, ReadyForPacket
<1>3. CASE CommitField
  <2>1. CASE ses.field < Len(MetaFields)
    BY <1>0, <1>3, <2>1, OtherReport DEF CommitField, TrueReport
  <2>2. CASE ~(ses.field < Len(MetaFields))
    BY <1>3, <2>2, InstalledIsReal DEF CommitField, LeaveBusyFlash, TrueReport
  <2>. QED BY <2>1, <2>2
<1>4. CASE CommitFails
  BY <1>0, <1>4, OtherReport DEF CommitFails, LeaveBusyFlash, TrueReport
<1>5. CASE IdleRamTest \/ RamTestPasses \/ RamTestFails \/ RamTimeout
  <2>1. commQ' = commQ \/ \E err \in ErrorCodes, t \in BusyRam :
                             commQ' = Append(commQ, RamDone(err, t))
    BY <1>0, <1>5
    DEF IdleRamTest, RamTestPasses, RamTestFails, RamTimeout, EnterRamTest,
        LeaveBusyRam
  <2>. QED BY <1>0, <2>1, OtherReport DEF TrueReport
<1>6. CASE \/ IdleStart \/ PrepAccepts \/ EraseNextSector \/ RetryErase
           \/ DataAccepted \/ StartCommit \/ RetryWrite
           \/ EraseSucceeds \/ EraseFails \/ ProgramSucceeds \/ ProgramFails
           \/ Ignore \/ Timer \/ PowerLoss \/ \E r \in Requests : EnvPost(r)
  <2>1. commQ' = commQ \/ commQ' = <<>>
    BY <1>6
    DEF IdleStart, PrepAccepts, EraseNextSector, RetryErase, DataAccepted,
        StartCommit, RetryWrite, EraseSucceeds, EraseFails, ProgramSucceeds,
        ProgramFails, Ignore, Timer, TimerFires, PowerLoss, EnvPost
  <2>. QED BY <1>0, <2>1, OtherReport DEF TrueReport
<1>7. CASE EnvTake
  BY <1>0, <1>7, OtherReport DEF TrueReport
<1>. QED
  BY <1>2, <1>3, <1>4, <1>5, <1>6, <1>7, EndsReportTruth
  DEF Next, FlashMgrStep, Dispatch, Operation

(***************************************************************************)
(* A reply without error, other than one the session timer sends, is true: *)
(* the flash is ready for the next packet, or image and metadata are in    *)
(* flash and the image is made of the packets taken.  No error code of an  *)
(* earlier step is ever left in errorCode to be reported as a success.     *)
(***************************************************************************)
THEOREM SuccessIsTrue == Spec => SuccessIsReal
<1>. QED
  BY InitiallyFull, StepKeepsFull, StepsReportTruth, PTL DEF Spec, SuccessIsReal

-----------------------------------------------------------------------------
(* The abstract store *)

LEMMA NothingInstalled ==
    /\ dirty \/ Clean \/ meta["crc"] = Blank \/ meta["size"] = Blank
          => installed = Blank
    /\ dirty' \/ Clean' \/ meta'["crc"] = Blank \/ meta'["size"] = Blank
          => installed' = Blank
BY MetaFieldsAre DEF installed, Clean, HasMetadata

LEMMA SameInstalled ==
    ASSUME dirty' = dirty, meta'["size"] = meta["size"], meta'["crc"] = meta["crc"]
    PROVE  installed' = installed
BY DEF installed, HasMetadata

LEMMA NothingStaged ==
    /\ st \notin {"WaitingForFWData", "WritingFlash"} => staged = <<>>
    /\ st' \notin {"WaitingForFWData", "WritingFlash"} => staged' = <<>>
BY DEF staged

LEMMA StagedContent ==
    ASSUME st \in {"WaitingForFWData", "WritingFlash"}, ses.packetCurr \in Nat
    PROVE  /\ staged = [i \in 1 .. ses.packetCurr |-> area[i]]
           /\ ses.packetCurr = 0 => staged = <<>>
BY DEF staged, Content

LEMMA StagedContentNext ==
    ASSUME st' \in {"WaitingForFWData", "WritingFlash"}, ses'.packetCurr \in Nat
    PROVE  /\ staged' = [i \in 1 .. ses'.packetCurr |-> area'[i]]
           /\ ses'.packetCurr = 0 => staged' = <<>>
BY DEF staged, Content

\* A session that ends gives up what it has staged, unless it is installed.
LEMMA Discarded ==
    ASSUME installed' = installed,
           st' \notin {"WaitingForFWData", "WritingFlash"}
    PROVE  Store!Next
<1>1. staged' = <<>>
  BY NothingStaged
<1>. QED BY <1>1 DEF Store!Next, Store!Discard

\* An operation that does not complete changes no image that is vouched for.
LEMMA HalfDoneInstallsNothing ==
    ASSUME HonestInv, hw # "none", UNCHANGED dirty,
           \/ hw = "erase" /\ HalfErased
           \/ hw = "program" /\ HalfProgrammed
           \/ hw = "commit" /\ HalfCommitted
    PROVE  installed' = installed
<1>0. TypeOK /\ Phases
  BY DEF HonestInv
<1>1. CASE hw = "erase"
  <2>1. dirty /\ dirty'
    BY <1>0, <1>1 DEF Phases, LastErased
  <2>. QED BY <2>1, NothingInstalled
<1>2. CASE hw = "program" /\ HalfProgrammed
  BY <1>2, SameInstalled DEF HalfProgrammed
<1>3. CASE hw = "commit" /\ HalfCommitted
  <2>1. PICK c \in {meta[CurrField], Torn} : meta' = [meta EXCEPT ![CurrField] = c]
    BY <1>3 DEF HalfCommitted
  <2>2. ses.field \in 1 .. 5 /\ DOMAIN meta = MetaNames
    BY <1>0, AreaTypes
  <2>3. CASE ses.field > 2
    <3>1. CurrField \notin {"size", "crc"}
      BY <2>2, <2>3, MetaFieldsAre DEF CurrField
    <3>. QED BY <2>1, <3>1, SameInstalled
  <2>4. CASE ~(ses.field > 2)
    <3>1. meta["crc"] = Blank /\ dirty' = dirty
      BY <1>0, <1>3, <2>4 DEF Phases
    <3>2. meta'["crc"] \in {Blank, Torn}
      BY <2>1, <2>2, <3>1, MetaFieldsAre
    <3>3. installed' = Blank
      BY <3>2 DEF installed, HasMetadata
    <3>. QED BY <3>1, <3>3, NothingInstalled
  <2>. QED BY <2>3, <2>4
<1>. QED BY <1>1, <1>2, <1>3

LEMMA SessionStepsRefine ==
    ASSUME FullInv,
           \/ IdleStart \/ PrepAccepts \/ EraseNextSector \/ RetryErase
           \/ AllErased \/ DataAccepted \/ AskForNextPacket \/ StartCommit
           \/ RetryWrite
    PROVE  Store!Next \/ UNCHANGED <<installed, staged>>
<1>0. AreaInv /\ TypeOK /\ Phases /\ ses.packetCurr \in Nat
  BY AreaTypes DEF FullInv, StepInv, HonestInv
<1>1. CASE PrepAccepts
  <2>1. dirty' /\ st' = "ErasingSector"
    BY <1>1 DEF PrepAccepts, EnterErasingSector
  <2>2. installed' = Blank /\ staged' = <<>>
    BY <2>1, NothingInstalled, NothingStaged
  <2>. QED BY <2>2 DEF Store!Next, Store!Wipe
<1>2. CASE \/ IdleStart \/ EraseNextSector \/ RetryErase \/ AllErased
           \/ DataAccepted \/ AskForNextPacket \/ StartCommit \/ RetryWrite
  <2>1. installed' = installed /\ area' = area
    BY <1>2, SameInstalled
    DEF IdleStart, EraseNextSector, RetryErase, AllErased, DataAccepted,
        AskForNextPacket, StartCommit, RetryWrite, flash
  <2>2. CASE IdleStart \/ EraseNextSector \/ RetryErase
    <3>1. /\ st \notin {"WaitingForFWData", "WritingFlash"}
          /\ st' \notin {"WaitingForFWData", "WritingFlash"}
      BY <2>2 DEF IdleStart, EraseNextSector, RetryErase, EnterErasingSector
    <3>. QED BY <2>1, <3>1, NothingStaged
  <2>3. CASE AllErased
    <3>1. /\ st = "ErasingSector" /\ st' = "WaitingForFWData"
          /\ ses'.packetCurr = 0
      BY <1>0, <2>3
      DEF AllErased, EnterWaitingForFWData, AreaInv, NothingTaken, TypeOK, Session
    <3>2. staged = <<>> /\ staged' = <<>>
      BY <3>1, NothingStaged, StagedContentNext
    <3>. QED BY <2>1, <3>2
  <2>4. CASE DataAccepted \/ AskForNextPacket \/ StartCommit \/ RetryWrite
    <3>1. /\ st \in {"WaitingForFWData", "WritingFlash"}
          /\ st' \in {"WaitingForFWData", "WritingFlash"}
          /\ ses'.packetCurr = ses.packetCurr
      BY <1>0, <2>4
      DEF DataAccepted, AskForNextPacket, StartCommit, RetryWrite,
          EnterWaitingForFWData, EnterWritingFlash, TypeOK, Session
    <3>2. staged' = staged
      BY <1>0, <2>1, <3>1, StagedContent, StagedContentNext
    <3>. QED BY <2>1, <3>2
  <2>. QED BY <1>2, <2>2, <2>3, <2>4
<1>. QED BY <1>1, <1>2

LEMMA FlashOperationsRefine ==
    ASSUME FullInv, EraseSucceeds \/ EraseFails \/ ProgramSucceeds \/ ProgramFails
    PROVE  Store!Next \/ UNCHANGED <<installed, staged>>
<1>0. /\ AreaInv /\ TypeOK /\ Phases /\ HonestInv /\ ses.packetCurr \in Nat
      /\ DOMAIN meta = MetaNames /\ area \in [Slots -> Cells]
      /\ Slots = 1 .. AppSectors * SectorSlots /\ AppSectors * SectorSlots \in Nat
  BY AreaTypes DEF FullInv, StepInv, HonestInv
<1>1. CASE EraseSucceeds
  <2>1. st = "ErasingSector" /\ st' = st /\ dirty
    BY <1>0, <1>1 DEF EraseSucceeds, Phases, LastErased
  <2>2. dirty' \/ Clean'
    BY <1>0, <1>1, <2>1, MetaFieldsAre DEF EraseSucceeds, Clean
  <2>. QED BY <2>1, <2>2, NothingInstalled, NothingStaged
<1>2. CASE EraseFails
  <2>1. st = "ErasingSector" /\ st' = st /\ installed' = installed
    BY <1>0, <1>2, HalfDoneInstallsNothing DEF EraseFails, Phases
  <2>. QED BY <2>1, NothingStaged
<1>3. ASSUME hw = "program", st' = st,
             \A k \in Slots : k # ses.addr => area'[k] = area[k]
      PROVE  /\ st = "WritingFlash" /\ Clean
             /\ ses.addr = ses.packetCurr + 1
             /\ \A i \in 1 .. ses.packetCurr : area'[i] = area[i]
             /\ ses.addr \in Slots
  <2>1. st = "WritingFlash" /\ Clean /\ OnItsWay
    BY <1>0, <1>3 DEF Phases, OnItsWay
  <2>2. DataPhase(1, accepted, area, ses) /\ ses.packetCurr < ses.packetExp
    BY <1>0, <2>1, DataParts
  <2>3. ses.addr = ses.packetCurr + 1 /\ ses.addr \in Slots
    BY <1>0, <2>2, AreaTypes DEF DataPhase
  <2>. QED BY <1>0, <1>3, <2>1, <2>3
<1>4. CASE ProgramSucceeds
  <2>1. /\ hw = "program" /\ st' = st /\ meta' = meta
        /\ area' = [area EXCEPT ![ses.addr] = ses.dataBuf]
    BY <1>4 DEF ProgramSucceeds
  <2>2. /\ st = "WritingFlash" /\ Clean /\ ses.addr = ses.packetCurr + 1
        /\ \A i \in 1 .. ses.packetCurr : area'[i] = area[i]
        /\ ses.addr \in Slots
    BY <1>0, <1>3, <2>1
  <2>3. ses'.packetCurr = ses.packetCurr + 1
    BY <1>0, <1>4 DEF ProgramSucceeds, TypeOK, Session
  <2>4. ses.dataBuf \in Chunks /\ area'[ses.packetCurr + 1] = ses.dataBuf
    <3>1. OnItsWay
      BY <2>1 DEF OnItsWay
    <3>2. DataPhase(1, accepted, area, ses) /\ ses.dataBuf = accepted[Len(accepted)]
      BY <1>0, <2>2, <3>1, DataParts
    <3>3. Len(accepted) \in 1 .. Len(accepted) /\ accepted \in Seq(Chunks)
      BY <1>0, <3>2, AreaTypes DEF DataPhase
    <3>. QED BY <1>0, <2>1, <2>2, <3>2, <3>3
  <2>5. staged' = Append(staged, ses.dataBuf)
    <3>1. /\ staged = [i \in 1 .. ses.packetCurr |-> area[i]]
          /\ staged' = [i \in 1 .. ses.packetCurr + 1 |-> area'[i]]
      BY <1>0, <2>1, <2>2, <2>3, StagedContent, StagedContentNext
    <3>2. Len(staged) = ses.packetCurr
      BY <1>0, <3>1
    <3>. QED BY <1>0, <2>2, <2>4, <3>1, <3>2
  <2>6. installed = Blank /\ installed' = installed
    BY <2>1, <2>2, <1>4, NothingInstalled, SameInstalled DEF ProgramSucceeds
  <2>. QED BY <2>4, <2>5, <2>6 DEF Store!Next, Store!Stage
<1>5. CASE ProgramFails
  <2>1. hw = "program" /\ st' = st /\ ses' = ses /\ HalfProgrammed
    BY <1>5 DEF ProgramFails
  <2>2. \A k \in Slots : k # ses.addr => area'[k] = area[k]
    BY <1>0, <2>1 DEF HalfProgrammed
  <2>3. /\ st = "WritingFlash"
        /\ \A i \in 1 .. ses.packetCurr : area'[i] = area[i]
    BY <1>0, <1>3, <2>1, <2>2
  <2>4. staged' = staged
    BY <1>0, <2>1, <2>3, StagedContent, StagedContentNext
  <2>5. installed' = installed
    BY <1>0, <1>5, HalfDoneInstallsNothing DEF ProgramFails
  <2>. QED BY <2>4, <2>5
<1>. QED BY <1>1, <1>2, <1>4, <1>5

\* While metadata is committed, the image lies within what is staged.
LEMMA ImageIsStaged ==
    ASSUME FullInv, hw = "commit"
    PROVE  /\ ses.offer.size \in 1 .. ses.packetCurr
           /\ st = "WritingFlash" /\ ~dirty
           /\ ses.offer.crc = [i \in 1 .. ses.offer.size |-> area[i]]
           /\ staged = [i \in 1 .. ses.packetCurr |-> area[i]]
           /\ \A i \in 1 .. ses.packetCurr : area[i] \in Chunks
<1>0. AreaInv /\ TypeOK /\ Phases
  BY DEF FullInv, StepInv, HonestInv
<1>1. st = "WritingFlash" /\ ~dirty /\ ImageMatches
  BY <1>0 DEF Phases
<1>2. ~OnItsWay
  <2>1. OnlyTimeouts(flashQ)
    BY <1>0, PairedIs DEF FullInv, StepInv, Paired
  <2>. QED BY <2>1 DEF OnlyTimeouts, Queued, TimeoutSignals, OnItsWay
<1>3. DataPhase(0, accepted, area, ses)
  BY <1>0, <1>1, <1>2, DataParts
<1>4. /\ ses.offer.crc = [i \in 1 .. ses.offer.size |-> area[i]]
      /\ ses.offer.crc \in Seq(Chunks) /\ ses.offer.size \in Nat \ {0}
      /\ ses.packetCurr \in Nat
  BY <1>0, <1>1, <1>3, AreaTypes DEF ImageMatches, Content, DataPhase
<1>5. ses.offer.size \in 1 .. ses.packetCurr
  <2>1. area[ses.offer.size] \in Chunks
    BY <1>4
  <2>2. ses.offer.size \in Slots
    BY <1>0, <1>3, AreaTypes DEF DataPhase
  <2>3. ~(ses.offer.size > Len(accepted))
    BY <1>3, <2>1, <2>2, SizesAssumption DEF DataPhase
  <2>. QED BY <1>0, <1>3, <1>4, <2>3, AreaTypes DEF DataPhase
<1>6. \A i \in 1 .. ses.packetCurr : area[i] \in Chunks
  BY <1>0, <1>3, AreaTypes DEF DataPhase
<1>. QED BY <1>1, <1>4, <1>5, <1>6, StagedContent

\* Storing the CRC installs the image; the other fields change nothing.
LEMMA CommitRefines ==
    ASSUME FullInv, CommitField \/ CommitFails
    PROVE  Store!Next \/ UNCHANGED <<installed, staged>>
<1>0. /\ AreaInv /\ TypeOK /\ Phases /\ HonestInv /\ DOMAIN meta = MetaNames
      /\ ses.packetCurr \in Nat /\ ses.field \in 1 .. 5 /\ hw = "commit"
  BY AreaTypes DEF FullInv, StepInv, HonestInv, CommitField, CommitFails
<1>1. CASE CommitFails
  <2>1. installed' = installed /\ st' = "Idle"
    BY <1>0, <1>1, HalfDoneInstallsNothing DEF CommitFails, LeaveBusyFlash
  <2>. QED BY <2>1, Discarded
<1>2. CASE CommitField
  <2>1. /\ meta' = [meta EXCEPT ![CurrField] = FieldOf(ses.offer, CurrField)]
        /\ area' = area /\ dirty' = dirty
    BY <1>2 DEF CommitField
  <2>2. ses.field # 2 => installed' = installed
    <3>1. CASE ses.field = 1
      <4>1. meta["crc"] = Blank /\ meta'["crc"] = Blank
        BY <1>0, <2>1, <3>1, MetaFieldsAre DEF Phases, CurrField
      <4>. QED BY <4>1, NothingInstalled
    <3>2. CASE ses.field > 2
      <4>1. CurrField \notin {"size", "crc"}
        BY <1>0, <3>2, MetaFieldsAre DEF CurrField
      <4>. QED BY <2>1, <4>1, SameInstalled
    <3>. QED BY <1>0, <3>1, <3>2
  <2>3. CASE ses.field = 5
    <3>1. st' = "Idle"
      BY <1>2, <2>3, MetaFieldsAre DEF CommitField, LeaveBusyFlash
    <3>. QED BY <2>2, <2>3, <3>1, Discarded
  <2>4. CASE ses.field < 5
    <3>1. st = "WritingFlash" /\ st' = st /\ ses'.packetCurr = ses.packetCurr
      BY <1>0, <1>2, <2>4, MetaFieldsAre DEF CommitField, Phases, TypeOK, Session
    <3>2. staged' = staged
      BY <1>0, <2>1, <3>1, StagedContent, StagedContentNext
    <3>3. CASE ses.field = 2
      <4>1. /\ meta'["crc"] = ses.offer.crc /\ meta'["size"] = ses.offer.size
            /\ meta["crc"] = Blank
        BY <1>0, <2>1, <3>3, MetaFieldsAre DEF Phases, CurrField, FieldOf
      <4>2. /\ ses.offer.size \in 1 .. ses.packetCurr /\ ~dirty
            /\ ses.offer.crc = [i \in 1 .. ses.offer.size |-> area[i]]
            /\ staged = [i \in 1 .. ses.packetCurr |-> area[i]]
            /\ \A i \in 1 .. ses.packetCurr : area[i] \in Chunks
        BY <1>0, ImageIsStaged
      <4>3. installed = Blank /\ installed' = ses.offer.crc
        <5>1. HasMetadata'
          <6>1. ses.offer.crc \in Seq(Chunks) /\ ses.offer.size \in Nat
            BY <1>0, AreaTypes
          <6>. QED BY <4>1, <6>1, SizesAssumption DEF HasMetadata
        <5>. QED BY <2>1, <4>1, <4>2, <5>1, NothingInstalled DEF installed
      <4>4. /\ staged \in Seq(Chunks) /\ Len(staged) = ses.packetCurr
            /\ \A i \in 1 .. ses.packetCurr : staged[i] = area[i]
        BY <1>0, <4>2
      <4>5. ses.offer.crc = SubSeq(staged, 1, ses.offer.size)
        <5>. DEFINE sub == SubSeq(staged, 1, ses.offer.size)
        <5>1. /\ sub \in Seq(Chunks) /\ Len(sub) = ses.offer.size
              /\ \A i \in 1 .. ses.offer.size : sub[i] = staged[i]
          BY <1>0, <4>2, <4>4, SubSeqProperties
        <5>. HIDE DEF sub
        <5>2. /\ ses.offer.crc \in Seq(Chunks) /\ Len(ses.offer.crc) = ses.offer.size
          BY <1>0, <4>2, AreaTypes
        <5>3. \A i \in 1 .. ses.offer.size : ses.offer.crc[i] = sub[i]
          <6>1. ASSUME NEW i \in 1 .. ses.offer.size
                PROVE  ses.offer.crc[i] = area[i] /\ i \in 1 .. ses.packetCurr
            BY <1>0, <4>2
          <6>2. ASSUME NEW i \in 1 .. ses.offer.size PROVE sub[i] = area[i]
            BY <4>4, <5>1, <6>1
          <6>. QED BY <6>1, <6>2
        <5>4. ses.offer.crc = sub
          BY <5>1, <5>2, <5>3, SeqEqual
        <5>. QED BY <5>4 DEF sub
      <4>6. ses.offer.size \in 1 .. Len(staged)
        BY <4>2, <4>4
      <4>. QED BY <3>2, <4>3, <4>5, <4>6 DEF Store!Next, Store!Install
    <3>. QED BY <2>2, <3>2, <3>3
  <2>. QED BY <1>0, <2>3, <2>4
<1>. QED BY <1>1, <1>2

LEMMA InitiallyEmptyStore == Init => Store!Init
<1>. SUFFICES ASSUME Init PROVE Store!Init
  OBVIOUS
<1>1. Clean
  BY DEF Init, Clean, MetaNames
<1>2. st = "Idle"
  BY DEF Init
<1>. QED BY <1>1, <1>2, NothingInstalled, NothingStaged DEF Store!Init

LEMMA StepsRefineStore ==
    FullInv /\ [Next]_vars => [Store!Next]_<<installed, staged>>
<1>. SUFFICES ASSUME FullInv, [Next]_vars
              PROVE  Store!Next \/ UNCHANGED <<installed, staged>>
  OBVIOUS
<1>0. AreaInv /\ TypeOK /\ Phases /\ HonestInv /\ ses.packetCurr \in Nat
  BY AreaTypes DEF FullInv, StepInv, HonestInv
<1>1. CASE \/ PrepRejects \/ PrepOpTimeout \/ GiveUpErase \/ DataCorrupt
           \/ DataOutOfSequence \/ ImageMismatch \/ GiveUpWrite \/ SessionAborts
  <2>1. UNCHANGED flash /\ st' = "Idle"
    BY <1>1
    DEF PrepRejects, PrepOpTimeout, GiveUpErase, DataCorrupt, DataOutOfSequence,
        ImageMismatch, GiveUpWrite, SessionAborts, LeaveBusyFlash
  <2>. QED BY <2>1, SameInstalled, Discarded DEF flash
<1>2. CASE PowerLoss
  <2>1. st' = "Idle" /\ dirty' = dirty
    BY <1>2 DEF PowerLoss
  <2>2. CASE hw = "none"
    BY <1>2, <2>1, <2>2, SameInstalled, Discarded DEF PowerLoss
  <2>3. CASE hw # "none"
    <3>1. installed' = installed
      BY <1>0, <1>2, <2>3, HalfDoneInstallsNothing DEF PowerLoss, TypeOK
    <3>. QED BY <2>1, <3>1, Discarded
  <2>. QED BY <2>2, <2>3
<1>3. CASE \/ IdleRamTest \/ RamTestPasses \/ RamTestFails \/ RamTimeout
           \/ Ignore \/ Timer \/ EnvTake \/ \E r \in Requests : EnvPost(r)
           \/ UNCHANGED vars
  <2>1. UNCHANGED flash
    BY <1>3
    DEF IdleRamTest, RamTestPasses, RamTestFails, RamTimeout, ramUnchanged,
        Ignore, Timer, TimerFires, EnvTake, EnvPost, vars, flash
  <2>2. installed' = installed
    BY <2>1, SameInstalled DEF flash
  <2>3. CASE IdleRamTest \/ RamTestPasses \/ RamTestFails \/ RamTimeout
    <3>1. /\ st \notin {"WaitingForFWData", "WritingFlash"}
          /\ st' \notin {"WaitingForFWData", "WritingFlash"}
      BY <2>3
      DEF IdleRamTest, RamTestPasses, RamTestFails, RamTimeout, EnterRamTest,
          LeaveBusyRam, BusyRam
    <3>. QED BY <2>2, <3>1, NothingStaged
  <2>4. CASE \/ Ignore \/ Timer \/ EnvTake \/ \E r \in Requests : EnvPost(r)
             \/ UNCHANGED vars
    <3>1. st' = st /\ ses' = ses /\ area' = area
      BY <2>4 DEF Ignore, Timer, TimerFires, EnvTake, EnvPost, vars, flash
    <3>2. staged' = staged
      BY <3>1 DEF staged, Content
    <3>. QED BY <2>2, <3>2
  <2>. QED BY <1>3, <2>3, <2>4
<1>. QED
  BY <1>1, <1>2, <1>3, SessionStepsRefine, FlashOperationsRefine, CommitRefines
  DEF Next, FlashMgrStep, Dispatch, Operation

(***************************************************************************)
(* FlashMgr implements the abstract store for every instance: giving up    *)
(* the old image, staging packets in order, and installing a prefix of     *)
(* what is staged are single steps (of PrepAccepts, of a programming that  *)
(* succeeds, of the one that stores the CRC); all else is a stutter or     *)
(* gives up what was staged.  No failure or loss of power in between shows *)
(* in the store.                                                           *)
(***************************************************************************)
THEOREM StoreIsImplemented == Spec => ImplementsStore
<1>. QED
  BY InitiallyFull, StepKeepsFull, InitiallyEmptyStore, StepsRefineStore, PTL
  DEF Spec, ImplementsStore, Store!Spec

-----------------------------------------------------------------------------
(* The service to CommMgr *)

RequestSignals == {"FLASH_OP_START", "FLASH_DATA", "RAM_TEST_START"}

NoRequests(q) == \A i \in DOMAIN q : q[i].sig \notin RequestSignals

(***************************************************************************)
(* What the refinement needs besides: a request is posted to an empty      *)
(* queue, so it is only ever found at its head; the error code that        *)
(* CommMgr takes for an expired session is only set while a packet is      *)
(* awaited, and a packet that is in flash has left no error; and the size  *)
(* the metadata states lies in the area.                                   *)
(***************************************************************************)
ServiceInv ==
    /\ FullInv
    /\ \A i \in DOMAIN flashQ : flashQ[i].sig \in RequestSignals => i = 1
    /\ st # "WaitingForFWData" => errorCode # "WAIT_FOR_DATA_TIMEOUT"
    /\ st = "WritingFlash" /\ Queued({"FLASH_DONE"}) => errorCode = "NONE"
    /\ meta["size"] \in {Blank, Torn} \/ meta["size"] \in Slots

\* How a step changes the queue.
LEMMA QueueSteps ==
    ASSUME TypeOK, [Next]_vars
    PROVE  \/ flashQ' = flashQ \/ flashQ' = <<>>
           \/ flashQ # <<>> /\ flashQ' = Tail(flashQ)
           \/ /\ flashQ # <<>>
              /\ \E e \in {NextStep, RamStep} : flashQ' = Append(Tail(flashQ), e)
           \/ \E e \in {NextStep, FlashDone, FlashErr} \cup [sig : TimeoutSignals] :
                 flashQ' = Append(flashQ, e)
           \/ flashQ = <<>> /\ \E r \in Requests : flashQ' = Append(flashQ, r)
<1>1. CASE \/ PrepRejects \/ PrepOpTimeout \/ GiveUpErase \/ DataCorrupt
           \/ DataOutOfSequence \/ ImageMismatch \/ GiveUpWrite \/ SessionAborts
           \/ PrepAccepts \/ EraseNextSector \/ AllErased \/ RetryErase
           \/ DataAccepted \/ AskForNextPacket \/ StartCommit \/ RetryWrite
           \/ Ignore
  BY <1>1
  DEF PrepRejects, PrepOpTimeout, GiveUpErase, DataCorrupt, DataOutOfSequence,
      ImageMismatch, GiveUpWrite, SessionAborts, PrepAccepts, EraseNextSector,
      AllErased, RetryErase, DataAccepted, AskForNextPacket, StartCommit,
      RetryWrite, Ignore, Take, Drop
<1>2. CASE IdleStart \/ IdleRamTest \/ RamTestPasses \/ RamTestFails \/ RamTimeout
  BY <1>2
  DEF IdleStart, IdleRamTest, RamTestPasses, RamTestFails, RamTimeout,
      EnterRamTest, LeaveBusyRam, Take, Drop
<1>3. CASE Operation
  BY <1>3
  DEF Operation, EraseSucceeds, EraseFails, ProgramSucceeds, ProgramFails,
      CommitField, CommitFails
<1>4. CASE Timer
  <2>1. PICK sig \in TimeoutSignals : TimerFires(sig)
    BY <1>4 DEF Timer
  <2>. QED BY <2>1 DEF TimerFires
<1>5. CASE PowerLoss \/ EnvTake \/ (\E r \in Requests : EnvPost(r)) \/ UNCHANGED vars
  BY <1>5 DEF PowerLoss, EnvTake, EnvPost, Quiescent, vars
<1>. QED BY <1>1, <1>2, <1>3, <1>4, <1>5 DEF Next, FlashMgrStep, Dispatch

LEMMA RequestsStayFirst ==
    ASSUME TypeOK, [Next]_vars,
           \A i \in DOMAIN flashQ : flashQ[i].sig \in RequestSignals => i = 1
    PROVE  \A i \in DOMAIN flashQ' : flashQ'[i].sig \in RequestSignals => i = 1
<1>0. flashQ \in Seq(Events)
  BY DEF TypeOK
<1>1. \A e \in {NextStep, RamStep, FlashDone, FlashErr} \cup [sig : TimeoutSignals] :
         e \in Events /\ e.sig \notin RequestSignals
  BY PostedTypes
  DEF NextStep, RamStep, FlashDone, FlashErr, RequestSignals, TimeoutSignals,
      Events
<1>2. ASSUME flashQ # <<>>
      PROVE  NoRequests(Tail(flashQ)) /\ Tail(flashQ) \in Seq(Events)
  <2>1. /\ Len(flashQ) \in Nat \ {0} /\ DOMAIN flashQ = 1 .. Len(flashQ)
        /\ Tail(flashQ) \in Seq(Events)
        /\ DOMAIN Tail(flashQ) = 1 .. Len(flashQ) - 1
        /\ \A i \in 1 .. Len(flashQ) - 1 : Tail(flashQ)[i] = flashQ[i + 1]
    BY <1>0, <1>2, HeadTailProperties
  <2>2. \A i \in 1 .. Len(flashQ) - 1 : i + 1 \in 1 .. Len(flashQ) /\ i + 1 # 1
    BY <2>1
  <2>. QED BY <2>1, <2>2 DEF NoRequests
<1>3. ASSUME NEW q \in Seq(Events), NEW e \in Events,
             \A i \in DOMAIN q : q[i].sig \in RequestSignals => i = 1,
             e.sig \notin RequestSignals \/ q = <<>>
      PROVE  \A i \in DOMAIN Append(q, e) :
                Append(q, e)[i].sig \in RequestSignals => i = 1
  BY <1>3
<1>4. CASE flashQ' = flashQ \/ flashQ' = <<>>
  BY <1>4
<1>5. CASE flashQ # <<>> /\ flashQ' = Tail(flashQ)
  BY <1>2, <1>5 DEF NoRequests
<1>6. CASE /\ flashQ # <<>>
           /\ \E e \in {NextStep, RamStep} : flashQ' = Append(Tail(flashQ), e)
  BY <1>1, <1>2, <1>3, <1>6 DEF NoRequests
<1>7. CASE \E e \in {NextStep, FlashDone, FlashErr} \cup [sig : TimeoutSignals] :
              flashQ' = Append(flashQ, e)
  BY <1>0, <1>1, <1>3, <1>7
<1>8. CASE flashQ = <<>> /\ \E r \in Requests : flashQ' = Append(flashQ, r)
  BY <1>0, <1>3, <1>8, NoTimeouts
<1>. QED BY <1>4, <1>5, <1>6, <1>7, <1>8, QueueSteps

LEMMA WaitCodeOnlyWaiting ==
    ASSUME TypeOK, [Next]_vars,
           st # "WaitingForFWData" => errorCode # "WAIT_FOR_DATA_TIMEOUT"
    PROVE  st' # "WaitingForFWData" => errorCode' # "WAIT_FOR_DATA_TIMEOUT"
<1>1. CASE \/ PrepRejects \/ PrepOpTimeout \/ GiveUpErase \/ DataCorrupt
           \/ DataOutOfSequence \/ ImageMismatch \/ GiveUpWrite \/ SessionAborts
           \/ CommitFails \/ PowerLoss
  BY <1>1
  DEF PrepRejects, PrepOpTimeout, GiveUpErase, DataCorrupt, DataOutOfSequence,
      ImageMismatch, GiveUpWrite, SessionAborts, CommitFails, PowerLoss,
      LeaveBusyFlash
<1>2. CASE PrepAccepts \/ EraseNextSector \/ AllErased \/ RetryErase
  BY <1>2
  DEF PrepAccepts, EraseNextSector, AllErased, RetryErase, EnterErasingSector,
      EnterWaitingForFWData
<1>3. CASE DataAccepted \/ AskForNextPacket \/ StartCommit \/ RetryWrite
  BY <1>3
  DEF DataAccepted, AskForNextPacket, StartCommit, RetryWrite,
      EnterWaitingForFWData, EnterWritingFlash
<1>4. CASE IdleStart \/ IdleRamTest \/ RamTestPasses \/ RamTestFails \/ RamTimeout
  BY <1>4
  DEF IdleStart, IdleRamTest, RamTestPasses, RamTestFails, RamTimeout,
      EnterRamTest, LeaveBusyRam
<1>5. CASE EraseSucceeds \/ EraseFails \/ ProgramSucceeds \/ ProgramFails
  BY <1>5 DEF EraseSucceeds, EraseFails, ProgramSucceeds, ProgramFails
<1>6. CASE CommitField
  BY <1>6 DEF CommitField, LeaveBusyFlash
<1>7. CASE \/ Ignore \/ Timer \/ EnvTake \/ (\E r \in Requests : EnvPost(r))
           \/ UNCHANGED vars
  BY <1>7 DEF Ignore, Timer, TimerFires, EnvTake, EnvPost, vars
<1>. QED
  BY <1>1, <1>2, <1>3, <1>4, <1>5, <1>6, <1>7
  DEF Next, FlashMgrStep, Dispatch, Operation

LEMMA SizeStaysInArea ==
    ASSUME FullInv, [Next]_vars, meta["size"] \in {Blank, Torn} \/ meta["size"] \in Slots
    PROVE  meta'["size"] \in {Blank, Torn} \/ meta'["size"] \in Slots
<1>0. AreaInv /\ TypeOK /\ Phases /\ DOMAIN meta = MetaNames /\ "size" \in MetaNames
  BY AreaTypes, MetaFieldsAre DEF FullInv, StepInv, HonestInv
<1>1. ASSUME HalfErased \/ HalfProgrammed \/ HalfCommitted
      PROVE  meta'["size"] \in {meta["size"], Torn}
  BY <1>0, <1>1 DEF HalfErased, HalfProgrammed, HalfCommitted
<1>2. CASE EraseSucceeds
  BY <1>0, <1>2 DEF EraseSucceeds
<1>3. CASE EraseFails \/ ProgramFails \/ CommitFails
  BY <1>1, <1>3 DEF EraseFails, ProgramFails, CommitFails
<1>4. CASE PowerLoss
  <2>1. HalfErased \/ HalfProgrammed \/ HalfCommitted \/ meta' = meta
    BY <1>0, <1>4 DEF PowerLoss, TypeOK
  <2>. QED BY <1>1, <2>1
<1>5. CASE CommitField
  <2>1. ses.offer.size \in Slots
    <3>1. ses.offer.size \in 1 .. AppSectors * SectorSlots - 1
      BY <1>0, <1>5 DEF CommitField, Phases, AreaInv
    <3>. QED BY <1>0, <3>1, AreaTypes
  <2>2. meta' = [meta EXCEPT ![CurrField] = FieldOf(ses.offer, CurrField)]
    BY <1>5 DEF CommitField
  <2>. QED BY <1>0, <2>1, <2>2 DEF FieldOf
<1>6. CASE Dispatch
  <2>1. meta' = meta
    BY <1>6
    DEF Dispatch, PrepRejects, PrepOpTimeout, GiveUpErase, DataCorrupt,
        DataOutOfSequence, ImageMismatch, GiveUpWrite, SessionAborts, PrepAccepts,
        EraseNextSector, AllErased, RetryErase, DataAccepted, AskForNextPacket,
        StartCommit, RetryWrite, IdleStart, IdleRamTest, RamTestPasses,
        RamTestFails, RamTimeout, ramUnchanged, Ignore, flash
  <2>. QED BY <2>1
<1>7. CASE \/ ProgramSucceeds \/ Timer \/ EnvTake
           \/ (\E r \in Requests : EnvPost(r)) \/ UNCHANGED vars
  <2>1. meta' = meta
    BY <1>7 DEF ProgramSucceeds, Timer, TimerFires, EnvTake, EnvPost, flash, vars
  <2>. QED BY <2>1
<1>. QED
  BY <1>2, <1>3, <1>4, <1>5, <1>6, <1>7 DEF Next, FlashMgrStep, Operation

LEMMA DoneLeavesNoError ==
    ASSUME FullInv, [Next]_vars,
           st = "WritingFlash" /\ Queued({"FLASH_DONE"}) => errorCode = "NONE"
    PROVE  st' = "WritingFlash" /\ Queued({"FLASH_DONE"})' => errorCode' = "NONE"
<1>. SUFFICES ASSUME st' = "WritingFlash", Queued({"FLASH_DONE"})'
              PROVE  errorCode' = "NONE"
  OBVIOUS
<1>0. /\ TypeOK /\ Phases /\ StepInv /\ flashQ \in Seq(Events)
      /\ Paired(flashQ, hw, st) /\ OneStep(flashQ) /\ Holds(flashQ', {"FLASH_DONE"})
  BY PairedIs DEF FullInv, StepInv, HonestInv, TypeOK, Paired, Queued, Holds
<1>1. ASSUME OnlyTimeouts(flashQ') PROVE FALSE
  BY <1>0, <1>1 DEF OnlyTimeouts, Holds, TimeoutSignals
<1>2. CASE DataAccepted \/ StartCommit \/ RetryWrite
  <2>1. PICK sig \in {"FLASH_DATA", "FLASH_DONE", "FLASH_ERROR"} : Take(sig) /\ Drop
    BY <1>2 DEF DataAccepted, StartCommit, RetryWrite
  <2>2. sig \notin TimeoutSignals
    BY DEF TimeoutSignals
  <2>. QED BY <1>0, <1>1, <2>1, <2>2, Taken DEF Drop
<1>3. CASE ProgramSucceeds
  BY <1>3 DEF ProgramSucceeds
<1>4. CASE ProgramFails
  <2>1. OnlyTimeouts(flashQ) /\ flashQ' = Append(flashQ, FlashErr)
    BY <1>0, <1>4 DEF ProgramFails, Paired
  <2>2. Holds(flashQ, {"FLASH_DONE"})
    BY <1>0, <2>1, OneStepAppend, NoTimeouts DEF FlashErr
  <2>. QED BY <2>1, <2>2 DEF OnlyTimeouts, Holds, TimeoutSignals
<1>5. CASE CommitField
  BY <1>0, <1>1, <1>5 DEF CommitField, Paired
<1>6. CASE \/ Ignore \/ Timer \/ EnvTake \/ (\E r \in Requests : EnvPost(r))
           \/ UNCHANGED vars
  <2>1. st' = st /\ errorCode' = errorCode
    BY <1>6 DEF Ignore, Timer, TimerFires, EnvTake, EnvPost, vars
  <2>2. Holds(flashQ, {"FLASH_DONE"})
    <3>1. CASE Ignore
      BY <1>0, <3>1, OneStepTail DEF Ignore, Drop
    <3>2. CASE Timer
      <4>1. PICK sig \in TimeoutSignals : flashQ' = Append(flashQ, [sig |-> sig])
        BY <3>2 DEF Timer, TimerFires
      <4>2. [sig |-> sig] \in Events /\ [sig |-> sig].sig = sig
        BY PostedTypes
      <4>3. sig \notin {"FLASH_DONE"}
        BY DEF TimeoutSignals
      <4>. QED BY <1>0, <4>1, <4>2, <4>3, OneStepAppend
    <3>3. CASE EnvTake \/ UNCHANGED vars
      BY <1>0, <3>3 DEF EnvTake, vars
    <3>4. CASE \E r \in Requests : EnvPost(r)
      <4>1. PICK r \in Requests : flashQ' = Append(flashQ, r) /\ flashQ = <<>>
        BY <3>4 DEF EnvPost, Quiescent
      <4>2. r \in Events /\ r.sig \notin {"FLASH_DONE"} /\ OnlyTimeouts(flashQ)
        BY <4>1, NoTimeouts DEF SelfSignals, OnlyTimeouts
      <4>. QED BY <1>0, <4>1, <4>2, OneStepAppend
    <3>. QED BY <1>6, <3>1, <3>2, <3>3, <3>4
  <2>3. Queued({"FLASH_DONE"})
    BY <2>2 DEF Queued, Holds
  <2>. QED BY <2>1, <2>3
<1>7. CASE \/ PrepRejects \/ PrepOpTimeout \/ GiveUpErase \/ DataCorrupt
           \/ DataOutOfSequence \/ ImageMismatch \/ GiveUpWrite \/ SessionAborts
           \/ CommitFails \/ PowerLoss
  BY <1>7
  DEF PrepRejects, PrepOpTimeout, GiveUpErase, DataCorrupt, DataOutOfSequence,
      ImageMismatch, GiveUpWrite, SessionAborts, CommitFails, PowerLoss,
      LeaveBusyFlash
<1>8. CASE \/ PrepAccepts \/ EraseNextSector \/ AllErased \/ RetryErase
           \/ AskForNextPacket \/ IdleStart \/ IdleRamTest \/ RamTestPasses
           \/ RamTestFails \/ RamTimeout \/ EraseSucceeds \/ EraseFails
  BY <1>0, <1>8
  DEF PrepAccepts, EraseNextSector, AllErased, RetryErase, EnterErasingSector,
      EnterWaitingForFWData, AskForNextPacket, IdleStart, IdleRamTest,
      RamTestPasses, RamTestFails, RamTimeout, EnterRamTest, LeaveBusyRam,
      EraseSucceeds, EraseFails, Phases
<1>. QED
  BY <1>2, <1>3, <1>4, <1>5, <1>6, <1>7, <1>8
  DEF Next, FlashMgrStep, Dispatch, Operation

LEMMA StepKeepsService == ServiceInv /\ [Next]_vars => ServiceInv'
<1>. SUFFICES ASSUME ServiceInv, [Next]_vars PROVE ServiceInv'
  OBVIOUS
<1>1. FullInv' /\ TypeOK
  BY StepKeepsFull DEF ServiceInv, FullInv, StepInv, HonestInv
<1>. QED
  BY <1>1, RequestsStayFirst, WaitCodeOnlyWaiting, SizeStaysInArea,
     DoneLeavesNoError DEF ServiceInv

LEMMA InitiallyServing == Init => ServiceInv
<1>. SUFFICES ASSUME Init PROVE ServiceInv
  OBVIOUS
<1>1. meta["size"] = Blank
  BY MetaFieldsAre DEF Init, MetaNames
<1>. QED BY <1>1, InitiallyFull DEF ServiceInv, Init

\* The job while no request is queued is the one behind the state.
LEMMA QuietJob ==
    ASSUME NoRequests(flashQ)
    PROVE  /\ st \in {"PrepFlash", "ErasingSector"} => CurrentJob = "start"
           /\ st = "WritingFlash" => CurrentJob = "data"
           /\ st \in BusyRam => CurrentJob = "ram"
           /\ st \in {"Idle", "WaitingForFWData"} => CurrentJob = "none"
BY DEF NoRequests, RequestSignals, CurrentJob, Queued, BusyRam

LEMMA QuietJobNext ==
    ASSUME NoRequests(flashQ')
    PROVE  /\ st' \in {"PrepFlash", "ErasingSector"} => CurrentJob' = "start"
           /\ st' = "WritingFlash" => CurrentJob' = "data"
           /\ st' \in BusyRam => CurrentJob' = "ram"
           /\ st' \in {"Idle", "WaitingForFWData"} => CurrentJob' = "none"
BY DEF NoRequests, RequestSignals, CurrentJob, Queued, BusyRam

\* While FlashMgr is busy with a request, no other one is queued.
LEMMA BusyIsQuiet ==
    ASSUME ServiceInv, st \notin {"Idle", "WaitingForFWData"}
    PROVE  NoRequests(flashQ)
<1>0. /\ Paired(flashQ, hw, st) /\ st \in {"Idle"} \cup BusyFlash \cup BusyRam
  BY PairedIs DEF ServiceInv, FullInv, StepInv, HonestInv, TypeOK
<1>1. ASSUME NEW i \in DOMAIN flashQ, flashQ[i].sig \in RequestSignals PROVE FALSE
  <2>1. hw = "none"
    BY <1>0, <1>1 DEF Paired, OnlyTimeouts, RequestSignals, TimeoutSignals
  <2>2. Holds(flashQ, {"FLASH_NEXT_STEP", "FLASH_DONE", "FLASH_ERROR", "RAM_OP_START"})
    BY <1>0, <2>1 DEF Paired, Holds, BusyFlash
  <2>. QED BY <1>0, <1>1, <2>2
       DEF Paired, OneStep, Holds, RequestSignals, TimeoutSignals
<1>. QED BY <1>1 DEF NoRequests

\* An event that is taken leaves no request behind, and one that is no request
\* was not queued together with one.
LEMMA TakenIsQuiet ==
    ASSUME ServiceInv, NEW sig, Take(sig)
    PROVE  /\ NoRequests(Tail(flashQ)) /\ Tail(flashQ) \in Seq(Events)
           /\ sig \notin RequestSignals => NoRequests(flashQ)
<1>1. /\ flashQ # <<>> /\ flashQ \in Seq(Events) /\ Head(flashQ).sig = sig
  BY DEF Take, ServiceInv, FullInv, StepInv, HonestInv, TypeOK
<1>2. /\ Len(flashQ) \in Nat \ {0} /\ DOMAIN flashQ = 1 .. Len(flashQ)
      /\ Tail(flashQ) \in Seq(Events) /\ Head(flashQ) = flashQ[1]
      /\ DOMAIN Tail(flashQ) = 1 .. Len(flashQ) - 1
      /\ \A i \in 1 .. Len(flashQ) - 1 : Tail(flashQ)[i] = flashQ[i + 1]
  BY <1>1, HeadTailProperties
<1>3. \A i \in 1 .. Len(flashQ) - 1 : i + 1 \in 1 .. Len(flashQ) /\ i + 1 # 1
  BY <1>2
<1>4. NoRequests(Tail(flashQ))
  BY <1>2, <1>3 DEF NoRequests, ServiceInv
<1>5. sig \notin RequestSignals => NoRequests(flashQ)
  BY <1>1, <1>2 DEF NoRequests, ServiceInv
<1>. QED BY <1>2, <1>4, <1>5

LEMMA QuietAppend ==
    ASSUME NEW q \in Seq(Events), NoRequests(q), NEW e \in Events,
           e.sig \notin RequestSignals
    PROVE  NoRequests(Append(q, e))
<1>1. /\ Len(q) \in Nat /\ DOMAIN q = 1 .. Len(q)
      /\ DOMAIN Append(q, e) = 1 .. Len(q) + 1
      /\ \A i \in 1 .. Len(q) : Append(q, e)[i] = q[i]
      /\ Append(q, e)[Len(q) + 1] = e
  OBVIOUS
<1>. QED BY <1>1 DEF NoRequests

\* A request at the head of the queue is the job.
LEMMA HeadRequest ==
    ASSUME ServiceInv, NEW sig \in RequestSignals, flashQ # <<>>,
           Head(flashQ).sig = sig
    PROVE  /\ st \in {"Idle", "WaitingForFWData"}
           /\ sig = "FLASH_OP_START" => CurrentJob = "start"
           /\ sig = "FLASH_DATA" => CurrentJob = "data"
           /\ sig = "RAM_TEST_START" => CurrentJob = "ram"
<1>1. flashQ \in Seq(Events)
  BY DEF ServiceInv, FullInv, StepInv, HonestInv, TypeOK
<1>2. 1 \in DOMAIN flashQ /\ flashQ[1].sig = sig
  BY <1>1
<1>3. st \in {"Idle", "WaitingForFWData"}
  BY <1>2, BusyIsQuiet DEF NoRequests
<1>4. \A s \in RequestSignals : Queued({s}) <=> s = sig
  BY <1>2 DEF Queued, ServiceInv
<1>. QED BY <1>3, <1>4, Zenon DEF CurrentJob, RequestSignals

\* What CommMgr can tell a reply by.
Seen == [sig : {"FLASH_OP_DONE", "RAM_TEST_DONE"}, err : {"NONE", "EXPIRED", "FAILED"}]

LEMMA OutcomeTypes == ASSUME NEW r \in Replies PROVE Outcome(r) \in Seen
<1>1. r.sig \in {"FLASH_OP_DONE", "RAM_TEST_DONE"}
  BY DEF Replies
<1>2. (CASE r.err = "NONE"                  -> "NONE"
         [] r.err = "WAIT_FOR_DATA_TIMEOUT" -> "EXPIRED"
         [] OTHER                           -> "FAILED")
         \in {"NONE", "EXPIRED", "FAILED"}
  OBVIOUS
<1>. QED BY <1>1, <1>2 DEF Outcome, Seen

LEMMA OutcomesAre ==
    ASSUME NEW q \in Seq(Replies)
    PROVE  /\ [i \in DOMAIN q |-> Outcome(q[i])] \in Seq(Seen)
           /\ Len([i \in DOMAIN q |-> Outcome(q[i])]) = Len(q)
<1>1. DOMAIN q = 1 .. Len(q) /\ Len(q) \in Nat
  OBVIOUS
<1>2. \A i \in 1 .. Len(q) : Outcome(q[i]) \in Seen
  BY <1>1, OutcomeTypes
<1>. QED BY <1>1, <1>2

LEMMA OutcomesAppend ==
    ASSUME NEW q \in Seq(Replies), NEW r \in Replies
    PROVE  [i \in DOMAIN Append(q, r) |-> Outcome(Append(q, r)[i])]
              = Append([i \in DOMAIN q |-> Outcome(q[i])], Outcome(r))
<1>. DEFINE old == [i \in DOMAIN q |-> Outcome(q[i])]
            new == [i \in DOMAIN Append(q, r) |-> Outcome(Append(q, r)[i])]
<1>1. /\ Append(q, r) \in Seq(Replies) /\ Len(q) \in Nat
      /\ Len(Append(q, r)) = Len(q) + 1 /\ Outcome(r) \in Seen
      /\ DOMAIN q = 1 .. Len(q) /\ DOMAIN Append(q, r) = 1 .. Len(q) + 1
      /\ \A i \in 1 .. Len(q) : Append(q, r)[i] = q[i]
      /\ Append(q, r)[Len(q) + 1] = r
  BY OutcomeTypes
<1>2. /\ old \in Seq(Seen) /\ Len(old) = Len(q)
      /\ new \in Seq(Seen) /\ Len(new) = Len(q) + 1
  BY <1>1, OutcomesAre
<1>3. /\ \A i \in 1 .. Len(q) : old[i] = Outcome(q[i])
      /\ \A i \in 1 .. Len(q) + 1 : new[i] = Outcome(Append(q, r)[i])
  BY <1>1
<1>. HIDE DEF old, new
<1>4. new = Append(old, Outcome(r))
  <2>1. /\ Append(old, Outcome(r)) \in Seq(Seen)
        /\ Len(Append(old, Outcome(r))) = Len(q) + 1
        /\ \A i \in 1 .. Len(q) : Append(old, Outcome(r))[i] = old[i]
        /\ Append(old, Outcome(r))[Len(q) + 1] = Outcome(r)
    BY <1>1, <1>2
  <2>2. \A i \in 1 .. Len(q) + 1 : Append(old, Outcome(r))[i] = new[i]
    BY <1>1, <1>3, <2>1
  <2>. QED BY <1>2, <2>1, <2>2, SeqEqual
<1>. QED BY <1>4 DEF old, new

LEMMA OutcomesTail ==
    ASSUME NEW q \in Seq(Replies), q # <<>>
    PROVE  /\ [i \in DOMAIN q |-> Outcome(q[i])] # <<>>
           /\ [i \in DOMAIN Tail(q) |-> Outcome(Tail(q)[i])]
                 = Tail([i \in DOMAIN q |-> Outcome(q[i])])
<1>. DEFINE old == [i \in DOMAIN q |-> Outcome(q[i])]
            new == [i \in DOMAIN Tail(q) |-> Outcome(Tail(q)[i])]
<1>1. /\ Tail(q) \in Seq(Replies) /\ Len(q) \in Nat \ {0}
      /\ Len(Tail(q)) = Len(q) - 1
      /\ DOMAIN q = 1 .. Len(q) /\ DOMAIN Tail(q) = 1 .. Len(q) - 1
      /\ \A i \in 1 .. Len(q) - 1 : Tail(q)[i] = q[i + 1]
  BY HeadTailProperties
<1>2. /\ old \in Seq(Seen) /\ Len(old) = Len(q)
      /\ new \in Seq(Seen) /\ Len(new) = Len(q) - 1
  BY <1>1, OutcomesAre
<1>3. /\ \A i \in 1 .. Len(q) : old[i] = Outcome(q[i])
      /\ \A i \in 1 .. Len(q) - 1 : new[i] = Outcome(Tail(q)[i])
  BY <1>1
<1>. HIDE DEF old, new
<1>4. old # <<>> /\ new = Tail(old)
  <2>1. old # <<>>
    BY <1>1, <1>2
  <2>2. /\ Tail(old) \in Seq(Seen) /\ Len(Tail(old)) = Len(q) - 1
        /\ \A i \in 1 .. Len(q) - 1 : Tail(old)[i] = old[i + 1]
    BY <1>1, <1>2, <2>1, HeadTailProperties
  <2>3. \A i \in 1 .. Len(q) - 1 : i + 1 \in 1 .. Len(q)
    BY <1>1
  <2>4. \A i \in 1 .. Len(q) - 1 : Tail(old)[i] = new[i]
    BY <1>1, <1>3, <2>2, <2>3
  <2>5. new = Tail(old)
    BY <1>2, <2>2, <2>4, SeqEqual
  <2>. QED BY <2>1, <2>5
<1>. QED BY <1>4 DEF old, new

LEMMA RepliesSeen ==
    ASSUME TypeOK
    PROVE  /\ \A r \in Replies : commQ' = Append(commQ, r)
                                   => outcomes' = Append(outcomes, Outcome(r))
           /\ commQ # <<>> /\ commQ' = Tail(commQ)
                 => outcomes # <<>> /\ outcomes' = Tail(outcomes)
           /\ commQ' = <<>> => outcomes' = <<>>
           /\ commQ' = commQ => outcomes' = outcomes
<1>0. commQ \in Seq(Replies)
  BY DEF TypeOK
<1>1. ASSUME NEW r \in Replies, commQ' = Append(commQ, r)
      PROVE  outcomes' = Append(outcomes, Outcome(r))
  BY <1>0, <1>1, OutcomesAppend DEF outcomes
<1>2. ASSUME commQ # <<>>, commQ' = Tail(commQ)
      PROVE  outcomes # <<>> /\ outcomes' = Tail(outcomes)
  BY <1>0, <1>2, OutcomesTail DEF outcomes
<1>3. commQ' = <<>> => outcomes' = <<>>
  BY DEF outcomes
<1>4. commQ' = commQ => outcomes' = outcomes
  BY DEF outcomes
<1>. QED BY <1>1, <1>2, <1>3, <1>4

LEMMA OutcomeOf ==
    /\ Outcome(OpDone("NONE")) = Service!OpReply("NONE")
    /\ Outcome(OpDone("WAIT_FOR_DATA_TIMEOUT")) = Service!OpReply("EXPIRED")
    /\ \A err \in ErrorCodes \ {"WAIT_FOR_DATA_TIMEOUT"} :
          \E out \in Service!Outcomes : Outcome(OpDone(err)) = Service!OpReply(out)
    /\ \A err \in ErrorCodes \ {"WAIT_FOR_DATA_TIMEOUT"}, t \in BusyRam :
          \E out \in Service!Outcomes : Outcome(RamDone(err, t)) = Service!RamReply(out)
BY DEF Outcome, OpDone, RamDone, Service!OpReply, Service!RamReply, Service!Outcomes

LEMMA BootableKept ==
    ASSUME area' = area, meta' = meta PROVE bootable' = bootable
BY DEF bootable, HasMetadata, Content

LEMMA CleanIsNotBootable ==
    /\ Clean \/ meta["size"] = Blank \/ meta["crc"] = Blank => bootable = FALSE
    /\ Clean' \/ meta'["size"] = Blank \/ meta'["crc"] = Blank => bootable' = FALSE
BY MetaFieldsAre DEF bootable, Clean, HasMetadata

\* Erasing, and an operation that does not complete, can only lose an image.
LEMMA BootableOnlyLost ==
    ASSUME ServiceInv,
           \A s \in Slots : area'[s] \in {area[s], Blank, Torn},
           \A f \in {"size", "crc"} : meta'[f] \in {meta[f], Blank, Torn}
    PROVE  bootable' \in {bootable, FALSE}
<1>0. /\ Slots = 1 .. AppSectors * SectorSlots /\ AppSectors * SectorSlots \in Nat
      /\ meta["crc"] \in {Blank, Torn} \/ meta["crc"] \in Seq(Chunks)
  BY AreaTypes DEF ServiceInv, FullInv, StepInv, HonestInv, TypeOK
<1>1. bootable \in BOOLEAN /\ bootable' \in BOOLEAN
  BY DEF bootable
<1>2. ASSUME bootable' PROVE bootable
  <2>1. /\ meta'["size"] \notin {Blank, Torn} /\ meta'["crc"] \notin {Blank, Torn}
        /\ meta'["crc"] = [i \in 1 .. meta'["size"] |-> area'[i]]
    BY <1>2 DEF bootable, HasMetadata, Content
  <2>2. meta'["size"] = meta["size"] /\ meta'["crc"] = meta["crc"]
    BY <2>1
  <2>3. meta["size"] \in Slots /\ meta["crc"] \in Seq(Chunks)
    BY <1>0, <2>1, <2>2 DEF ServiceInv
  <2>. DEFINE n == meta["size"]
  <2>4. n \in Nat /\ \A i \in 1 .. n : i \in Slots
    BY <1>0, <2>3
  <2>5. \A i \in 1 .. n : area'[i] \in Chunks
    BY <2>1, <2>2, <2>3, <2>4
  <2>6. \A i \in 1 .. n : area'[i] = area[i]
    BY <2>4, <2>5, SizesAssumption
  <2>. QED BY <2>1, <2>2, <2>6 DEF bootable, HasMetadata, Content
<1>. QED BY <1>1, <1>2

\* The reply that ends a session or a RAM test is the one to the job.
LEMMA EndingReplies ==
    ASSUME ServiceInv, NoRequests(flashQ'), NEW err \in ErrorCodes
    PROVE  /\ LeaveBusyFlash(err) => /\ outcomes' = Append(outcomes, Outcome(OpDone(err)))
                                     /\ CurrentJob' = "none" /\ open' = FALSE
           /\ st \in BusyRam /\ LeaveBusyRam(err) =>
                 /\ outcomes' = Append(outcomes, Outcome(RamDone(err, st)))
                 /\ CurrentJob' = "none" /\ open' = FALSE
<1>1. TypeOK /\ OpDone(err) \in Replies
      /\ \A t \in BusyRam : RamDone(err, t) \in Replies
  BY ReplyTypes DEF ServiceInv, FullInv, StepInv, HonestInv
<1>2. ASSUME LeaveBusyFlash(err)
      PROVE  /\ outcomes' = Append(outcomes, Outcome(OpDone(err)))
             /\ CurrentJob' = "none" /\ open' = FALSE
  BY <1>1, <1>2, RepliesSeen, QuietJobNext DEF LeaveBusyFlash, open
<1>3. ASSUME st \in BusyRam, LeaveBusyRam(err)
      PROVE  /\ outcomes' = Append(outcomes, Outcome(RamDone(err, st)))
             /\ CurrentJob' = "none" /\ open' = FALSE
  BY <1>1, <1>3, RepliesSeen, QuietJobNext DEF LeaveBusyRam, open
<1>. QED BY <1>2, <1>3

LEMMA EndsServe ==
    ASSUME ServiceInv,
           \/ PrepRejects \/ PrepOpTimeout \/ GiveUpErase \/ DataCorrupt
           \/ DataOutOfSequence \/ ImageMismatch \/ GiveUpWrite \/ SessionAborts
    PROVE  Service!ServiceStep
<1>0. /\ AreaInv /\ TypeOK /\ StepInv /\ errorCode \in ErrorCodes
      /\ st # "WaitingForFWData" => errorCode # "WAIT_FOR_DATA_TIMEOUT"
      /\ st = "WaitingForFWData" => errorCode = "WAIT_FOR_DATA_TIMEOUT"
  BY DEF ServiceInv, FullInv, StepInv, HonestInv, TypeOK, AreaInv
<1>1. {"INVALID_META", "ERASE_TIMEOUT", "INVALID_FW_PACKET_CRC",
       "INVALID_IMAGE_CRC_AFTER_FLASH"} \subseteq ErrorCodes \ {"WAIT_FOR_DATA_TIMEOUT"}
      /\ "WAIT_FOR_DATA_TIMEOUT" \in ErrorCodes
  BY DEF ErrorCodes
<1>2. /\ NoRequests(flashQ')
      /\ bootable' = bootable
      /\ \A sig : Take(sig) /\ sig \notin RequestSignals => NoRequests(flashQ)
  <2>1. \E sig : Take(sig) /\ Drop
    BY DEF PrepRejects, PrepOpTimeout, GiveUpErase, DataCorrupt,
           DataOutOfSequence, ImageMismatch, GiveUpWrite, SessionAborts
  <2>2. area' = area /\ meta' = meta
    BY DEF PrepRejects, PrepOpTimeout, GiveUpErase, DataCorrupt,
           DataOutOfSequence, ImageMismatch, GiveUpWrite, SessionAborts, flash
  <2>. QED BY <2>1, <2>2, TakenIsQuiet, BootableKept DEF Drop
\* Before the first packet: the session is refused.
<1>3. ASSUME NEW err \in ErrorCodes \ {"WAIT_FOR_DATA_TIMEOUT"}, LeaveBusyFlash(err),
             st \in {"PrepFlash", "ErasingSector"}
      PROVE  Service!Refused
  <2>1. CurrentJob = "start" /\ open = FALSE
    BY <1>3, BusyIsQuiet, QuietJob DEF open
  <2>2. PICK out \in Service!Outcomes : Outcome(OpDone(err)) = Service!OpReply(out)
    BY OutcomeOf
  <2>3. /\ outcomes' = Append(outcomes, Service!OpReply(out))
        /\ CurrentJob' = "none" /\ open' = FALSE
    BY <1>2, <1>3, <2>2, EndingReplies
  <2>. QED BY <1>2, <2>1, <2>3 DEF Service!Refused, Service!Answer
\* With a packet: the session is closed.
<1>4. ASSUME NEW err \in ErrorCodes, LeaveBusyFlash(err), open, CurrentJob = "data"
      PROVE  Service!Closed
  <2>1. \E out \in Service!Outcomes \cup {"EXPIRED"} :
           Outcome(OpDone(err)) = Service!OpReply(out)
    BY OutcomeOf
  <2>2. PICK out \in Service!Outcomes \cup {"EXPIRED"} :
           Outcome(OpDone(err)) = Service!OpReply(out)
    BY <2>1
  <2>3. /\ outcomes' = Append(outcomes, Service!OpReply(out))
        /\ CurrentJob' = "none" /\ open' = FALSE
    BY <1>2, <1>4, <2>2, EndingReplies
  <2>. QED BY <1>2, <1>4, <2>3 DEF Service!Closed, Service!Answer
<1>5. ASSUME st = "WritingFlash" PROVE open /\ CurrentJob = "data"
  BY <1>5, BusyIsQuiet, QuietJob DEF open
<1>6. ASSUME st = "WaitingForFWData", Take("FLASH_DATA")
      PROVE  open /\ CurrentJob = "data"
  BY <1>6, HeadRequest DEF open, Take, RequestSignals
<1>7. CASE PrepRejects
  <2>1. ValidateMetadata(ses.offer) = "INVALID_META"
    BY <1>7 DEF PrepRejects, ValidateMetadata
  <2>. QED BY <1>1, <1>3, <1>7, <2>1 DEF PrepRejects, Service!ServiceStep
<1>8. CASE PrepOpTimeout \/ GiveUpErase
  <2>1. \E err \in ErrorCodes \ {"WAIT_FOR_DATA_TIMEOUT"} : LeaveBusyFlash(err)
    BY <1>0, <1>1, <1>8 DEF PrepOpTimeout, GiveUpErase
  <2>2. st \in {"PrepFlash", "ErasingSector"}
    BY <1>8 DEF PrepOpTimeout, GiveUpErase
  <2>. QED BY <1>3, <2>1, <2>2 DEF Service!ServiceStep
<1>9. CASE DataCorrupt \/ DataOutOfSequence
  <2>1. \E err \in ErrorCodes : LeaveBusyFlash(err)
    BY <1>0, <1>1, <1>9 DEF DataCorrupt, DataOutOfSequence
  <2>2. open /\ CurrentJob = "data"
    BY <1>6, <1>9 DEF DataCorrupt, DataOutOfSequence
  <2>. QED BY <1>4, <2>1, <2>2 DEF Service!ServiceStep
<1>10. CASE ImageMismatch \/ GiveUpWrite
  <2>1. \E err \in ErrorCodes : LeaveBusyFlash(err)
    BY <1>0, <1>1, <1>10 DEF ImageMismatch, GiveUpWrite
  <2>2. open /\ CurrentJob = "data"
    BY <1>5, <1>10 DEF ImageMismatch, GiveUpWrite
  <2>. QED BY <1>4, <2>1, <2>2 DEF Service!ServiceStep
<1>11. CASE SessionAborts
  <2>1. st \in BusyFlash /\ LeaveBusyFlash(errorCode)
    BY <1>11 DEF SessionAborts
  <2>2. CASE st \in {"PrepFlash", "ErasingSector"}
    <3>1. errorCode \in ErrorCodes \ {"WAIT_FOR_DATA_TIMEOUT"}
      BY <1>0, <2>2
    <3>. QED BY <1>3, <2>1, <2>2, <3>1 DEF Service!ServiceStep
  <2>3. CASE st = "WritingFlash"
    BY <1>0, <1>4, <1>5, <2>1, <2>3 DEF Service!ServiceStep
  <2>4. CASE st = "WaitingForFWData"
    <3>1. PICK sig \in {"FLASH_TIMEOUT", "FLASH_ERROR"} : Take(sig)
      BY <1>11 DEF SessionAborts
    <3>2. CurrentJob = "none" /\ open
      BY <1>2, <2>4, <3>1, QuietJob DEF RequestSignals, open
    <3>3. /\ outcomes' = Append(outcomes, Service!OpReply("EXPIRED"))
          /\ CurrentJob' = "none" /\ open' = FALSE
      BY <1>0, <1>1, <1>2, <2>1, <2>4, EndingReplies, OutcomeOf
    <3>. QED BY <1>2, <3>2, <3>3 DEF Service!Expired, Service!ServiceStep
  <2>. QED BY <2>1, <2>2, <2>3, <2>4 DEF BusyFlash
<1>. QED BY <1>7, <1>8, <1>9, <1>10, <1>11

LEMMA RamTestsServe ==
    ASSUME ServiceInv, IdleRamTest \/ RamTestPasses \/ RamTestFails \/ RamTimeout
    PROVE  Service!ServiceStep \/ UNCHANGED Service!service
<1>0. /\ TypeOK /\ errorCode \in ErrorCodes
      /\ st # "WaitingForFWData" => errorCode # "WAIT_FOR_DATA_TIMEOUT"
      /\ {"NONE", "RAM_FAILED"} \subseteq ErrorCodes \ {"WAIT_FOR_DATA_TIMEOUT"}
  BY DEF ServiceInv, FullInv, StepInv, HonestInv, TypeOK, ErrorCodes
<1>1. bootable' = bootable
  BY BootableKept
  DEF IdleRamTest, RamTestPasses, RamTestFails, RamTimeout, ramUnchanged, flash
<1>2. ASSUME NEW err \in ErrorCodes \ {"WAIT_FOR_DATA_TIMEOUT"}, LeaveBusyRam(err),
             st \in BusyRam, NEW sig, Take(sig)
      PROVE  Service!RamTested
  <2>1. CurrentJob = "ram" /\ open = FALSE
    BY <1>2, BusyIsQuiet, QuietJob DEF open, BusyRam
  <2>2. NoRequests(flashQ')
    BY <1>2, TakenIsQuiet DEF LeaveBusyRam, Drop
  <2>3. PICK out \in Service!Outcomes :
                Outcome(RamDone(err, st)) = Service!RamReply(out)
    BY <1>2, OutcomeOf
  <2>4. /\ outcomes' = Append(outcomes, Service!RamReply(out))
        /\ CurrentJob' = "none" /\ open' = FALSE
    BY <1>2, <2>2, <2>3, EndingReplies
  <2>. QED BY <1>1, <2>1, <2>4 DEF Service!RamTested, Service!Answer
<1>3. ASSUME NEW test \in BusyRam, EnterRamTest(test), NEW sig, Take(sig),
             st \in BusyRam \/ sig = "RAM_TEST_START"
      PROVE  UNCHANGED Service!service
  <2>1. RamStep \in Events /\ RamStep.sig \notin RequestSignals
    BY PostedTypes DEF RamStep, RequestSignals
  <2>2. NoRequests(flashQ')
    BY <1>3, <2>1, TakenIsQuiet, QuietAppend DEF EnterRamTest
  <2>3. CurrentJob' = "ram" /\ open' = FALSE /\ outcomes' = outcomes
    BY <1>0, <1>3, <2>2, QuietJobNext, RepliesSeen DEF EnterRamTest, open, BusyRam
  <2>4. CurrentJob = "ram" /\ (st = "Idle" \/ st \in BusyRam => open = FALSE)
    BY <1>3, BusyIsQuiet, QuietJob, HeadRequest DEF open, BusyRam, RequestSignals, Take
  <2>5. open = FALSE
    BY <1>3, <2>4 DEF IdleRamTest, RamTestPasses, RamTestFails, RamTimeout
  <2>. QED BY <1>1, <2>3, <2>4, <2>5 DEF Service!service
<1>4. CASE IdleRamTest
  BY <1>3, <1>4 DEF IdleRamTest, BusyRam
<1>5. CASE RamTestPasses
  <2>1. CASE st = "DeviceTest"
    BY <1>0, <1>2, <1>5, <2>1 DEF RamTestPasses, Service!ServiceStep
  <2>2. CASE st # "DeviceTest"
    BY <1>3, <1>5, <2>2 DEF RamTestPasses, BusyRam
  <2>. QED BY <2>1, <2>2
<1>6. CASE RamTestFails \/ RamTimeout
  <2>1. \E err \in ErrorCodes \ {"WAIT_FOR_DATA_TIMEOUT"} : LeaveBusyRam(err)
    BY <1>0, <1>6 DEF RamTestFails, RamTimeout, BusyRam
  <2>2. st \in BusyRam /\ \E sig : Take(sig)
    BY <1>6 DEF RamTestFails, RamTimeout
  <2>. QED BY <1>2, <2>1, <2>2 DEF Service!ServiceStep
<1>. QED BY <1>4, <1>5, <1>6

LEMMA SessionStepsServe ==
    ASSUME ServiceInv,
           \/ IdleStart \/ PrepAccepts \/ EraseNextSector \/ RetryErase
           \/ AllErased \/ DataAccepted \/ AskForNextPacket \/ StartCommit
           \/ RetryWrite
    PROVE  Service!ServiceStep \/ UNCHANGED Service!service
<1>0. /\ TypeOK /\ Phases /\ errorCode \in ErrorCodes
      /\ OpDone("NONE") \in Replies
      /\ NextStep \in Events /\ NextStep.sig \notin RequestSignals
  BY PostedTypes, ReplyTypes
  DEF ServiceInv, FullInv, StepInv, HonestInv, TypeOK, ErrorCodes, NextStep,
      RequestSignals
<1>1. bootable' = bootable
  BY BootableKept
  DEF IdleStart, PrepAccepts, EraseNextSector, RetryErase, AllErased,
      DataAccepted, AskForNextPacket, StartCommit, RetryWrite, flash
<1>2. ASSUME NEW sig, Take(sig), Drop PROVE NoRequests(flashQ')
  BY <1>2, TakenIsQuiet DEF Drop
<1>3. CASE IdleStart
  <2>1. NoRequests(flashQ')
    BY <1>0, <1>3, TakenIsQuiet, QuietAppend DEF IdleStart
  <2>2. /\ CurrentJob' = "start" /\ open' = FALSE /\ open = FALSE
        /\ outcomes' = outcomes
    BY <1>0, <1>3, <2>1, QuietJobNext, RepliesSeen DEF IdleStart, open
  <2>3. CurrentJob = "start"
    BY <1>3, HeadRequest DEF IdleStart, Take, RequestSignals
  <2>. QED BY <1>1, <2>2, <2>3 DEF Service!service
<1>4. CASE PrepAccepts \/ EraseNextSector \/ RetryErase
  <2>1. /\ st \in {"PrepFlash", "ErasingSector"} /\ st' = "ErasingSector"
        /\ commQ' = commQ /\ \E sig : Take(sig) /\ Drop
    BY <1>4 DEF PrepAccepts, EraseNextSector, RetryErase, EnterErasingSector
  <2>2. /\ CurrentJob = "start" /\ CurrentJob' = "start"
        /\ open = FALSE /\ open' = FALSE /\ outcomes' = outcomes
    BY <1>0, <1>2, <2>1, BusyIsQuiet, QuietJob, QuietJobNext, RepliesSeen DEF open
  <2>. QED BY <1>1, <2>2 DEF Service!service
<1>5. CASE AllErased
  <2>1. /\ st = "ErasingSector" /\ st' = "WaitingForFWData" /\ NoRequests(flashQ')
        /\ commQ' = Append(commQ, OpDone("NONE")) /\ hw = "none" /\ errorCode = "NONE"
    BY <1>2, <1>5 DEF AllErased, EnterWaitingForFWData, Take
  <2>2. LastErased
    <3>1. /\ ses.index + 1 >= Len(ses.sectors) /\ ses.index < Len(ses.sectors)
      BY <1>0, <1>5, <2>1 DEF AllErased, Phases
    <3>2. ses.index \in Nat /\ Len(ses.sectors) \in Nat
      BY <1>0 DEF TypeOK, Session
    <3>. QED BY <2>1, <3>1, <3>2 DEF LastErased
  <2>3. bootable = FALSE
    BY <1>0, <2>1, <2>2, CleanIsNotBootable DEF Phases
  <2>4. /\ CurrentJob = "start" /\ CurrentJob' = "none"
        /\ open = FALSE /\ open' = TRUE
        /\ outcomes' = Append(outcomes, Service!OpReply("NONE"))
    BY <1>0, <2>1, BusyIsQuiet, QuietJob, QuietJobNext, RepliesSeen, OutcomeOf
    DEF open
  <2>. QED BY <1>1, <2>3, <2>4
       DEF Service!ServiceStep, Service!Opened, Service!Answer
<1>6. CASE AskForNextPacket
  <2>1. /\ st = "WritingFlash" /\ st' = "WaitingForFWData" /\ NoRequests(flashQ')
        /\ commQ' = Append(commQ, OpDone(errorCode)) /\ Take("FLASH_DONE")
    BY <1>2, <1>6 DEF AskForNextPacket, EnterWaitingForFWData
  <2>2. hw = "none" /\ errorCode = "NONE"
    <3>1. flashQ # <<>> /\ flashQ \in Seq(Events) /\ Head(flashQ).sig = "FLASH_DONE"
      BY <1>0, <2>1 DEF Take, TypeOK
    <3>2. 1 \in DOMAIN flashQ /\ flashQ[1].sig = "FLASH_DONE"
      BY <3>1
    <3>. QED BY <2>1, <3>2 DEF ServiceInv, Queued, Take
  <2>3. bootable = FALSE
    BY <1>0, <2>1, <2>2, CleanIsNotBootable DEF Phases
  <2>4. /\ CurrentJob = "data" /\ CurrentJob' = "none"
        /\ open = TRUE /\ open' = TRUE
        /\ outcomes' = Append(outcomes, Service!OpReply("NONE"))
    BY <1>0, <2>1, <2>2, BusyIsQuiet, QuietJob, QuietJobNext, RepliesSeen, OutcomeOf
    DEF open
  <2>. QED BY <1>1, <2>3, <2>4
       DEF Service!ServiceStep, Service!Written, Service!Answer
<1>7. CASE DataAccepted
  <2>1. /\ st = "WaitingForFWData" /\ st' = "WritingFlash" /\ NoRequests(flashQ')
        /\ commQ' = commQ /\ Take("FLASH_DATA")
    BY <1>2, <1>7 DEF DataAccepted, EnterWritingFlash
  <2>2. CurrentJob = "data"
    BY <2>1, HeadRequest DEF Take, RequestSignals
  <2>3. CurrentJob' = "data" /\ open = TRUE /\ open' = TRUE /\ outcomes' = outcomes
    BY <1>0, <2>1, QuietJobNext, RepliesSeen DEF open
  <2>. QED BY <1>1, <2>2, <2>3 DEF Service!service
<1>8. CASE StartCommit \/ RetryWrite
  <2>1. /\ st = "WritingFlash" /\ st' = "WritingFlash" /\ commQ' = commQ
        /\ \E sig : Take(sig) /\ Drop
    BY <1>8 DEF StartCommit, RetryWrite, EnterWritingFlash
  <2>2. /\ CurrentJob = "data" /\ CurrentJob' = "data"
        /\ open = TRUE /\ open' = TRUE /\ outcomes' = outcomes
    BY <1>0, <1>2, <2>1, BusyIsQuiet, QuietJob, QuietJobNext, RepliesSeen DEF open
  <2>. QED BY <1>1, <2>2 DEF Service!service
<1>. QED BY <1>3, <1>4, <1>5, <1>6, <1>7, <1>8

\* While an operation runs, the queue stays without requests, and the only
\* changes are to the flash.
LEMMA OperationsQuiet ==
    ASSUME ServiceInv, Operation
    PROVE  /\ NoRequests(flashQ) /\ NoRequests(flashQ')
           /\ hw = "erase" => st = "ErasingSector"
           /\ hw \in {"program", "commit"} => st = "WritingFlash"
           /\ hw \in {"erase", "program", "commit"}
<1>0. /\ TypeOK /\ Phases /\ flashQ \in Seq(Events)
      /\ \A e \in {NextStep, FlashDone, FlashErr} :
            e \in Events /\ e.sig \notin RequestSignals
  BY PostedTypes
  DEF ServiceInv, FullInv, StepInv, HonestInv, TypeOK, NextStep, FlashDone,
      FlashErr, RequestSignals
<1>1. hw \in {"erase", "program", "commit"}
  BY DEF Operation, EraseSucceeds, EraseFails, ProgramSucceeds, ProgramFails,
         CommitField, CommitFails
<1>2. /\ hw = "erase" => st = "ErasingSector"
      /\ hw \in {"program", "commit"} => st = "WritingFlash"
  BY <1>0 DEF Phases
<1>3. NoRequests(flashQ)
  BY <1>1, <1>2, BusyIsQuiet
<1>4. \/ flashQ' = flashQ
      \/ \E e \in {NextStep, FlashDone, FlashErr} : flashQ' = Append(flashQ, e)
  BY DEF Operation, EraseSucceeds, EraseFails, ProgramSucceeds, ProgramFails,
         CommitField, CommitFails
<1>5. NoRequests(flashQ')
  BY <1>0, <1>3, <1>4, QuietAppend
<1>. QED BY <1>1, <1>2, <1>3, <1>5

\* What an operation that does not complete does to each slot and field.
LEMMA HalfDoneCells ==
    ASSUME TypeOK, HalfErased \/ HalfProgrammed \/ HalfCommitted
    PROVE  /\ \A s \in Slots : area'[s] \in {area[s], Torn}
           /\ \A f \in {"size", "crc"} : meta'[f] \in {meta[f], Torn}
<1>0. DOMAIN area = Slots /\ DOMAIN meta = MetaNames /\ {"size", "crc"} \subseteq MetaNames
  BY MetaFieldsAre DEF TypeOK
<1>1. CASE HalfErased
  BY <1>0, <1>1 DEF HalfErased
<1>2. CASE HalfProgrammed
  BY <1>0, <1>2 DEF HalfProgrammed
<1>3. CASE HalfCommitted
  BY <1>0, <1>3 DEF HalfCommitted
<1>. QED BY <1>1, <1>2, <1>3

\* What storing a field, or failing to, does to the image that is vouched for.
LEMMA CommitVouches ==
    ASSUME ServiceInv, CommitField \/ CommitFails
    PROVE  /\ bootable' \in BOOLEAN
           /\ CommitFails \/ ses.field # 2 => bootable' = bootable
           /\ CommitField /\ ses.field = 2 => bootable' = TRUE
<1>0. /\ TypeOK /\ Phases /\ DOMAIN meta = MetaNames /\ hw = "commit"
      /\ ses.field \in 1 .. 5 /\ ses.offer.size \in Nat
      /\ ses.offer.crc \in Seq(Chunks)
  BY AreaTypes
  DEF ServiceInv, FullInv, StepInv, HonestInv, CommitField, CommitFails
<1>1. /\ area' = area
      /\ \E c : meta' = [meta EXCEPT ![CurrField] = c]
      /\ CommitFails => \E c \in {meta[CurrField], Torn} :
                           meta' = [meta EXCEPT ![CurrField] = c]
      /\ CommitField => meta' = [meta EXCEPT ![CurrField] = FieldOf(ses.offer, CurrField)]
  BY DEF CommitField, CommitFails, HalfCommitted
<1>2. bootable \in BOOLEAN /\ bootable' \in BOOLEAN
  BY DEF bootable
<1>3. ASSUME ses.field = 1 PROVE bootable' = bootable
  <2>1. meta["crc"] = Blank /\ meta'["crc"] = Blank
    BY <1>0, <1>1, <1>3, MetaFieldsAre DEF Phases, CurrField
  <2>. QED BY <2>1, CleanIsNotBootable
<1>4. ASSUME ses.field > 2 PROVE bootable' = bootable
  <2>1. CurrField \notin {"size", "crc"}
    BY <1>0, <1>4, MetaFieldsAre DEF CurrField
  <2>2. meta'["size"] = meta["size"] /\ meta'["crc"] = meta["crc"]
    BY <1>0, <1>1, <2>1, MetaFieldsAre
  <2>. QED BY <1>1, <2>2 DEF bootable, HasMetadata, Content
<1>5. ASSUME ses.field = 2, CommitFails PROVE bootable' = bootable
  <2>1. meta["crc"] = Blank /\ meta'["crc"] \in {Blank, Torn}
    BY <1>0, <1>1, <1>5, MetaFieldsAre DEF Phases, CurrField
  <2>2. bootable = FALSE
    BY <2>1, CleanIsNotBootable
  <2>3. ~HasMetadata'
    BY <2>1 DEF HasMetadata
  <2>. QED BY <1>2, <2>2, <2>3 DEF bootable
<1>6. ASSUME ses.field = 2, CommitField PROVE bootable' = TRUE
  <2>1. meta'["crc"] = ses.offer.crc /\ meta'["size"] = ses.offer.size
    BY <1>0, <1>1, <1>6, MetaFieldsAre DEF Phases, CurrField, FieldOf
  <2>2. ses.offer.crc = [i \in 1 .. ses.offer.size |-> area'[i]]
    BY <1>0, <1>1 DEF Phases, ImageMatches, Content
  <2>3. HasMetadata'
    BY <1>0, <2>1, SizesAssumption DEF HasMetadata
  <2>. QED BY <2>1, <2>2, <2>3 DEF bootable, Content
<1>7. ses.field = 1 \/ ses.field = 2 \/ ses.field > 2
  BY <1>0
<1>. QED BY <1>2, <1>3, <1>4, <1>5, <1>6, <1>7, Zenon

LEMMA OperationsServe ==
    ASSUME ServiceInv, Operation
    PROVE  Service!ServiceStep \/ UNCHANGED Service!service
<1>0. /\ TypeOK /\ Phases /\ DOMAIN meta = MetaNames /\ DOMAIN area = Slots
      /\ ses.field \in 1 .. 5
  BY AreaTypes DEF ServiceInv, FullInv, StepInv, HonestInv, TypeOK
<1>1. /\ NoRequests(flashQ) /\ NoRequests(flashQ')
      /\ hw = "erase" => st = "ErasingSector"
      /\ hw \in {"program", "commit"} => st = "WritingFlash"
  BY OperationsQuiet
<1>2. CASE EraseSucceeds \/ EraseFails
  <2>1. /\ \A s \in Slots : area'[s] \in {area[s], Blank, Torn}
        /\ \A f \in {"size", "crc"} : meta'[f] \in {meta[f], Blank, Torn}
    <3>1. CASE EraseSucceeds
      BY <1>0, <3>1, MetaFieldsAre DEF EraseSucceeds
    <3>2. CASE EraseFails
      BY <1>0, <3>2, HalfDoneCells DEF EraseFails
    <3>. QED BY <1>2, <3>1, <3>2
  <2>2. bootable' \in {bootable, FALSE}
    BY <2>1, BootableOnlyLost
  <2>3. st = "ErasingSector" /\ st' = st /\ commQ' = commQ
    BY <1>1, <1>2 DEF EraseSucceeds, EraseFails
  <2>4. /\ CurrentJob = "start" /\ CurrentJob' = "start" /\ outcomes' = outcomes
        /\ open = FALSE /\ open' = FALSE
    BY <1>0, <1>1, <2>3, QuietJob, QuietJobNext, RepliesSeen DEF open
  <2>5. CASE bootable' = FALSE
    BY <2>4, <2>5 DEF Service!ServiceStep, Service!Wipe
  <2>6. CASE bootable' = bootable
    BY <2>4, <2>6 DEF Service!service
  <2>. QED BY <2>2, <2>5, <2>6
<1>3. CASE ProgramSucceeds \/ ProgramFails
  <2>1. st = "WritingFlash" /\ st' = st /\ commQ' = commQ /\ meta' = meta
        /\ hw = "program"
    BY <1>1, <1>3 DEF ProgramSucceeds, ProgramFails, HalfProgrammed
  <2>2. Clean /\ Clean'
    BY <1>0, <2>1 DEF Phases, Clean
  <2>3. bootable = FALSE /\ bootable' = FALSE
    BY <2>2, CleanIsNotBootable
  <2>4. /\ CurrentJob = "data" /\ CurrentJob' = "data" /\ outcomes' = outcomes
        /\ open = TRUE /\ open' = TRUE
    BY <1>0, <1>1, <2>1, QuietJob, QuietJobNext, RepliesSeen DEF open
  <2>. QED BY <2>3, <2>4 DEF Service!service
<1>4. CASE CommitField \/ CommitFails
  <2>1. st = "WritingFlash" /\ CurrentJob = "data" /\ open = TRUE
    BY <1>1, <1>4, QuietJob DEF CommitField, CommitFails, open
  <2>2. ASSUME NEW err \in {"NONE", "FLASH_HW"}, LeaveBusyFlash(err),
               bootable' = bootable
        PROVE  Service!Closed
    <3>1. err \in ErrorCodes /\ err \in ErrorCodes \ {"WAIT_FOR_DATA_TIMEOUT"}
      BY DEF ErrorCodes
    <3>2. PICK out \in Service!Outcomes : Outcome(OpDone(err)) = Service!OpReply(out)
      BY <3>1, OutcomeOf
    <3>3. /\ outcomes' = Append(outcomes, Service!OpReply(out))
          /\ CurrentJob' = "none" /\ open' = FALSE
      BY <1>1, <2>2, <3>1, <3>2, EndingReplies
    <3>4. out \in Service!Outcomes \cup {"EXPIRED"}
      OBVIOUS
    <3>. QED BY <2>1, <2>2, <3>3, <3>4 DEF Service!Closed, Service!Answer
  <2>3. CASE CommitFails
    <3>1. bootable' = bootable /\ LeaveBusyFlash("FLASH_HW")
      BY <2>3, CommitVouches DEF CommitFails
    <3>. QED BY <2>2, <3>1 DEF Service!ServiceStep
  <2>4. CASE CommitField /\ ses.field = 5
    <3>1. bootable' = bootable /\ LeaveBusyFlash("NONE")
      BY <2>4, CommitVouches, MetaFieldsAre DEF CommitField
    <3>. QED BY <2>2, <3>1 DEF Service!ServiceStep
  <2>5. CASE CommitField /\ ses.field < 5
    <3>1. st' = st /\ commQ' = commQ
      BY <2>5, MetaFieldsAre DEF CommitField
    <3>2. CurrentJob' = "data" /\ outcomes' = outcomes /\ open' = TRUE
      BY <1>0, <1>1, <2>1, <3>1, QuietJobNext, RepliesSeen DEF open
    <3>3. CASE ses.field = 2
      <4>1. bootable' = TRUE
        BY <2>5, <3>3, CommitVouches
      <4>. QED BY <2>1, <3>2, <4>1 DEF Service!ServiceStep, Service!Vouch
    <3>4. CASE ses.field # 2
      <4>1. bootable' = bootable
        BY <2>5, <3>4, CommitVouches
      <4>. QED BY <2>1, <3>2, <4>1 DEF Service!service
    <3>. QED BY <3>3, <3>4
  <2>. QED BY <1>0, <1>4, <2>3, <2>4, <2>5
<1>. QED BY <1>2, <1>3, <1>4 DEF Operation

LEMMA EnvironmentServes ==
    ASSUME ServiceInv,
           Ignore \/ Timer \/ EnvTake \/ (\E r \in Requests : EnvPost(r))
           \/ UNCHANGED vars
    PROVE  \/ Service!ServiceStep \/ Service!Request \/ Service!Taken
           \/ UNCHANGED Service!service
<1>0. /\ TypeOK /\ flashQ \in Seq(Events)
      /\ st \in {"Idle"} \cup BusyFlash \cup BusyRam
  BY DEF ServiceInv, FullInv, StepInv, HonestInv, TypeOK
<1>1. open' = open /\ bootable' = bootable /\ st' = st
  <2>1. st' = st /\ area' = area /\ meta' = meta
    BY DEF Ignore, Timer, TimerFires, EnvTake, EnvPost, flash, vars
  <2>. QED BY <2>1, BootableKept DEF open
<1>2. CASE EnvTake
  <2>1. CurrentJob' = CurrentJob
    BY <1>2 DEF EnvTake, CurrentJob, Queued
  <2>2. outcomes # <<>> /\ outcomes' = Tail(outcomes)
    BY <1>0, <1>2, RepliesSeen DEF EnvTake
  <2>. QED BY <1>1, <2>1, <2>2 DEF Service!Taken
<1>3. CASE \E r \in Requests : EnvPost(r)
  <2>1. PICK r \in Requests : EnvPost(r)
    BY <1>3
  <2>2. /\ flashQ = <<>> /\ flashQ' = <<r>> /\ hw = "none" /\ commQ' = commQ
    BY <2>1 DEF EnvPost, Quiescent
  <2>3. st \in {"Idle", "WaitingForFWData"}
    BY <1>0, <2>2, PairedIs
    DEF ServiceInv, FullInv, StepInv, Paired, Holds, BusyFlash
  <2>4. CurrentJob = "none"
    BY <2>2, <2>3, QuietJob DEF NoRequests
  <2>5. r.sig \in RequestSignals
    BY DEF Requests, StartRequests, DataRequests, RamRequests, RequestSignals
  <2>6. CurrentJob' \in {"start", "data", "ram"}
    <3>1. 1 \in DOMAIN flashQ' /\ flashQ'[1].sig = r.sig
      BY <2>2
    <3>2. Queued({r.sig})'
      BY <3>1 DEF Queued
    <3>. QED BY <2>5, <3>2 DEF CurrentJob, RequestSignals
  <2>7. outcomes' = outcomes
    BY <1>0, <2>2, RepliesSeen
  <2>. QED BY <1>1, <2>4, <2>6, <2>7
       DEF Service!Request, Service!Post, Service!Jobs
<1>4. CASE Timer
  <2>1. PICK sig \in TimeoutSignals : TimerFires(sig)
    BY <1>4 DEF Timer
  <2>. DEFINE e == [sig |-> sig]
  <2>2. e \in Events /\ e.sig \notin RequestSignals /\ flashQ' = Append(flashQ, e)
        /\ commQ' = commQ
    BY <2>1, PostedTypes DEF TimerFires, TimeoutSignals, RequestSignals
  <2>. HIDE DEF e
  <2>3. ASSUME NEW s \in RequestSignals PROVE Queued({s})' <=> Queued({s})
    <3>1. /\ Len(flashQ) \in Nat /\ DOMAIN flashQ = 1 .. Len(flashQ)
          /\ DOMAIN flashQ' = 1 .. Len(flashQ) + 1
          /\ \A i \in 1 .. Len(flashQ) : flashQ'[i] = flashQ[i]
          /\ flashQ'[Len(flashQ) + 1] = e
      BY <1>0, <2>2
    <3>2. \A i \in 1 .. Len(flashQ) + 1 : i \in 1 .. Len(flashQ) \/ i = Len(flashQ) + 1
      BY <3>1
    <3>3. \A i \in 1 .. Len(flashQ) : i \in 1 .. Len(flashQ) + 1
      BY <3>1
    <3>. QED BY <2>2, <2>3, <3>1, <3>2, <3>3 DEF Queued
  <2>4. CurrentJob' = CurrentJob
    <3>1. /\ Queued({"FLASH_OP_START"})' <=> Queued({"FLASH_OP_START"})
          /\ Queued({"FLASH_DATA"})' <=> Queued({"FLASH_DATA"})
          /\ Queued({"RAM_TEST_START"})' <=> Queued({"RAM_TEST_START"})
      BY <2>3, Zenon DEF RequestSignals
    <3>. QED BY <1>1, <3>1 DEF CurrentJob
  <2>5. outcomes' = outcomes
    BY <1>0, <2>2, RepliesSeen
  <2>. QED BY <1>1, <2>4, <2>5 DEF Service!service
<1>5. CASE Ignore
  <2>1. /\ flashQ # <<>> /\ hw = "none" /\ Take(Head(flashQ).sig)
        /\ flashQ' = Tail(flashQ) /\ commQ' = commQ
        /\ Head(flashQ).sig \notin Handled(st)
    BY <1>5 DEF Ignore, Take, Drop
  <2>2. outcomes' = outcomes /\ NoRequests(flashQ')
    BY <1>0, <2>1, RepliesSeen, TakenIsQuiet
  <2>3. CASE Head(flashQ).sig \notin RequestSignals
    <3>1. NoRequests(flashQ)
      BY <2>1, <2>3, TakenIsQuiet
    <3>2. CurrentJob' = CurrentJob
      BY <1>0, <1>1, <2>2, <3>1, QuietJob, QuietJobNext DEF BusyFlash
    <3>. QED BY <1>1, <2>2, <3>2 DEF Service!service
  <2>4. CASE Head(flashQ).sig \in RequestSignals
    <3>1. st \in {"Idle", "WaitingForFWData"}
      BY <2>1, <2>4, HeadRequest
    <3>2. CASE st = "Idle"
      <4>1. Head(flashQ).sig = "FLASH_DATA"
        BY <2>1, <2>4, <3>2 DEF Handled, RequestSignals, BusyRam
      <4>2. CurrentJob = "data" /\ CurrentJob' = "none" /\ open = FALSE
        BY <1>1, <2>1, <2>2, <2>4, <3>2, <4>1, HeadRequest, QuietJobNext DEF open
      <4>. QED BY <1>1, <2>2, <4>2 DEF Service!ServiceStep, Service!Unheard
    <3>3. CASE st = "WaitingForFWData"
      <4>1. Head(flashQ).sig \in {"FLASH_OP_START", "RAM_TEST_START"}
        BY <2>1, <2>4, <3>3 DEF Handled, RequestSignals, BusyRam
      <4>2. CurrentJob \in {"start", "ram"} /\ CurrentJob' = "none" /\ open = TRUE
        BY <1>1, <2>1, <2>2, <2>4, <3>3, <4>1, HeadRequest, QuietJobNext DEF open
      <4>. QED BY <1>1, <2>2, <4>2 DEF Service!ServiceStep, Service!Unheard
    <3>. QED BY <3>1, <3>2, <3>3
  <2>. QED BY <2>3, <2>4
<1>6. CASE UNCHANGED vars
  <2>1. CurrentJob' = CurrentJob /\ outcomes' = outcomes
    BY <1>6 DEF vars, CurrentJob, Queued, outcomes
  <2>. QED BY <1>1, <2>1 DEF Service!service
<1>. QED BY <1>2, <1>3, <1>4, <1>5, <1>6

LEMMA PowerLossServes == ASSUME ServiceInv, PowerLoss PROVE Service!Reset
<1>0. TypeOK /\ hw \in {"none", "erase", "program", "commit"}
  BY DEF ServiceInv, FullInv, StepInv, HonestInv, TypeOK
<1>1. HalfErased \/ HalfProgrammed \/ HalfCommitted \/ UNCHANGED <<area, meta>>
  BY <1>0 DEF PowerLoss
<1>2. /\ \A s \in Slots : area'[s] \in {area[s], Blank, Torn}
      /\ \A f \in {"size", "crc"} : meta'[f] \in {meta[f], Blank, Torn}
  BY <1>0, <1>1, HalfDoneCells
<1>3. bootable' \in {bootable, FALSE}
  BY <1>2, BootableOnlyLost
<1>4. flashQ' = <<>> /\ commQ' = <<>> /\ st' = "Idle"
  BY DEF PowerLoss
<1>5. outcomes' = <<>> /\ CurrentJob' = "none" /\ open' = FALSE
  BY <1>0, <1>4, RepliesSeen, QuietJobNext DEF NoRequests, open
<1>. QED BY <1>3, <1>5 DEF Service!Reset

LEMMA StepsServe ==
    ServiceInv /\ [Next]_vars
        => [\/ Service!ServiceStep \/ Service!Request \/ Service!Taken
            \/ Service!Reset]_Service!service
<1>. SUFFICES ASSUME ServiceInv, [Next]_vars
              PROVE  \/ Service!ServiceStep \/ Service!Request \/ Service!Taken
                     \/ Service!Reset \/ UNCHANGED Service!service
  OBVIOUS
<1>. QED
  BY EndsServe, RamTestsServe, SessionStepsServe, OperationsServe,
     EnvironmentServes, PowerLossServes
  DEF Next, FlashMgrStep, Dispatch

LEMMA InitiallyServed ==
    Init => outcomes = <<>> /\ Service!ServiceInit /\ bootable = FALSE
<1>. SUFFICES ASSUME Init
              PROVE  outcomes = <<>> /\ Service!ServiceInit /\ bootable = FALSE
  OBVIOUS
<1>1. Clean
  BY DEF Init, Clean, MetaNames
<1>2. NoRequests(flashQ) /\ st = "Idle" /\ commQ = <<>>
  BY DEF Init, NoRequests
<1>3. CurrentJob = "none" /\ open = FALSE
  BY <1>2, QuietJob DEF open
<1>4. outcomes = <<>>
  BY <1>2 DEF outcomes
<1>. QED BY <1>1, <1>3, <1>4, CleanIsNotBootable DEF Service!ServiceInit

(***************************************************************************)
(* FlashMgr is, for every instance, the service that BootComm is built on: *)
(* every handler and every operation is one of its steps or a stutter.  A  *)
(* request is answered once, or not at all when it does not fit the state; *)
(* a session that ends by its timer while no packet is worked on is the    *)
(* only reply nobody asked for; and an image that can be booted appears in *)
(* no other way than while a packet of a session is worked on.             *)
(***************************************************************************)
THEOREM ServiceIsImplemented == Spec => ImplementsService
<1>. QED
  BY InitiallyServing, StepKeepsService, InitiallyServed, StepsServe, PTL
  DEF Spec, ImplementsService, Service!ServiceSpec
=============================================================================
