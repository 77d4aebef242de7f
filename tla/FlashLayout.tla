---------------------------- MODULE FlashLayout ----------------------------
(***************************************************************************)
(* FLASH_getSectorsToErase of Common/bsp/flash.c, iteration by iteration   *)
(* and on real addresses: which flash sectors an update of the application *)
(* erases.  Its callers pass sizes FLASH_validateMetadata has accepted, and*)
(* an image of type Application only.                                      *)
(***************************************************************************)
EXTENDS Integers, Sequences

CONSTANTS
    NumSectors,     \* ADDR_FLASH_SECTORS
    sectorArray,    \* base addresses, indexed from 0
    ApplSector,     \* index of the sector at FLASH_APPL_START_ADDR
    MaxImageSize,   \* MAX_APPL_FWIMAGE_SIZE
    Sizes           \* image sizes offered

ASSUME LayoutAssumption ==
    /\ NumSectors \in Nat
    /\ sectorArray \in [0 .. NumSectors - 1 -> Nat]
    /\ \A i, j \in 0 .. NumSectors - 1 : i < j => sectorArray[i] < sectorArray[j]
    /\ ApplSector \in 1 .. NumSectors - 2
    /\ MaxImageSize \in Nat
    /\ Sizes \subseteq Nat

Indices   == 0 .. NumSectors - 1
ApplStart == sectorArray[ApplSector]          \* FLASH_APPL_START_ADDR
EndSector == sectorArray[NumSectors - 1]      \* FLASH_END_ADDR_SECTOR

\* FLASH_validateMetadata, the part about the size of an application image.
ValidSize(n) == n > 0 /\ n < MaxImageSize

\* Mutant: the bounds of the comparison are swapped.
Enclosing_Swapped(addr) ==
    {i \in 1 .. NumSectors - 1 : addr > sectorArray[i - 1] /\ addr <= sectorArray[i]}

\* Both look-ups scan pairs of neighbours, so neither finds the last sector.
Enclosing(addr) ==
    {i \in 1 .. NumSectors - 1 : addr >= sectorArray[i - 1] /\ addr < sectorArray[i]}

\* FLASH_addrToSectorAddr
AddrToSectorAddr(addr) ==
    IF Enclosing(addr) = {} THEN 0
    ELSE sectorArray[(CHOOSE i \in Enclosing(addr) : TRUE) - 1]

\* FLASH_getNextSectorAddr
GetNextSectorAddr(addr) ==
    IF Enclosing(addr) = {} THEN 0
    ELSE sectorArray[CHOOSE i \in Enclosing(addr) : TRUE]

VARIABLES
    size,       \* flashImageSize
    currAddr,
    status,
    list,       \* sectorArrayLoc[0 .. *nSectors - 1]
    pc

vars == <<size, currAddr, status, list, pc>>

Init ==
    /\ size \in {n \in Sizes : ValidSize(n)}
    /\ currAddr = ApplStart
    /\ status = "NONE"
    /\ list = <<>>
    /\ pc = "loop"

\* sectorArrayLoc[(*nSectors)++] = addr.  The caller's array holds NumSectors
\* addresses; a write past it is undefined and ends the model.
Store(addr, next) ==
    IF Len(list) < NumSectors
    THEN list' = Append(list, addr) /\ pc' = next
    ELSE pc' = "overrun" /\ UNCHANGED list

\* Mutant: the last byte of the image is forgotten.
More_OneLess == currAddr < ApplStart + size - 1

More == currAddr <= ApplStart + size

\* One iteration: the address of an unknown sector is reported and stored.
Iterate ==
    /\ pc = "loop" /\ More
    /\ status' = IF AddrToSectorAddr(currAddr) = 0
                 THEN "SECTOR_ADDR_NOT_FOUND" ELSE status
    /\ Store(AddrToSectorAddr(currAddr), "loop")
    /\ currAddr' = GetNextSectorAddr(AddrToSectorAddr(currAddr))
    /\ UNCHANGED size

\* After the loop: the sector with the metadata comes last.
AddEndSector ==
    /\ pc = "loop" /\ ~More
    /\ Store(EndSector, "done")
    /\ UNCHANGED <<size, currAddr, status>>

Finished == pc \in {"done", "overrun"} /\ UNCHANGED vars

Next == Iterate \/ AddEndSector \/ Finished

Spec == Init /\ [][Next]_vars

-----------------------------------------------------------------------------

TypeOK ==
    /\ size \in Nat
    /\ currAddr \in Nat
    /\ status \in {"NONE", "SECTOR_ADDR_NOT_FOUND"}
    /\ list \in Seq(Nat)
    /\ pc \in {"loop", "done", "overrun"}

\* The list never outgrows the array of the caller, and no look-up fails: what
\* the check of the buffer's length in flash.c:232 is there for.
NeverOverruns == pc # "overrun" /\ status = "NONE"

\* The image ends below the sector with the metadata.
EndsBeforeLastSector == ApplStart + size < EndSector

\* Which accepted sizes the walk over the sectors is right for: an image that
\* ends below the last sector is walked to its end inside the caller's array
\* and every look-up succeeds; one that reaches the last sector never gets to
\* the end of the walk, for it cannot step past a sector no look-up finds.
EndsInsideIffFits ==
    /\ EndsBeforeLastSector => NeverOverruns
    /\ pc = "done" => EndsBeforeLastSector

\* Every sector that holds a byte of the image is erased, none of them twice;
\* the sector with the metadata follows them all; the bootloader is spared.
ErasesTheImage ==
    pc = "done" =>
        /\ \A i \in 0 .. NumSectors - 2 :
              sectorArray[i] < ApplStart + size /\ sectorArray[i + 1] > ApplStart
                 => \E k \in 1 .. Len(list) - 1 : list[k] = sectorArray[i]
        /\ list[Len(list)] = EndSector
        /\ \A k \in 1 .. Len(list) - 1 : list[k] >= ApplStart /\ list[k] < list[k + 1]
=============================================================================
