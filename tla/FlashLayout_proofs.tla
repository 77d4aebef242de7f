------------------------- MODULE FlashLayout_proofs -------------------------
(***************************************************************************)
(* For every layout of increasing sector addresses and every set of sizes: *)
(* the walk over the sectors is right for the images that end before the   *)
(* last sector and comes to no end for the others, which the size limit of *)
(* flash.h lets in (NeverOverruns without the condition).                  *)
(***************************************************************************)
EXTENDS FlashLayout, TLAPS

\* What has been stored so far: the sectors from ApplSector on, in order.
Prefix(n) == \A k \in 1 .. n : list[k] = sectorArray[ApplSector + k - 1]

(***************************************************************************)
(* The walk of an image that ends before the last sector: it visits sector *)
(* after sector, so that while it goes on its position is the next sector, *)
(* inside the array.                                                       *)
(***************************************************************************)
FitInv ==
    /\ NeverOverruns
    /\ pc = "loop" =>
          /\ ApplSector + Len(list) < NumSectors
          /\ currAddr = sectorArray[ApplSector + Len(list)]
          /\ Prefix(Len(list))
    /\ pc = "done" =>
          /\ Len(list) > 0
          /\ ApplSector + Len(list) - 1 < NumSectors
          /\ sectorArray[ApplSector + Len(list) - 1] > ApplStart + size
          /\ Prefix(Len(list) - 1)
          /\ list[Len(list)] = EndSector
          /\ Len(list) > 1 =>
                sectorArray[ApplSector + Len(list) - 2] <= ApplStart + size
    /\ Len(list) > 0 /\ pc = "loop" => list[Len(list)] <= ApplStart + size

\* The walk of an image that reaches the last sector: no look-up ever takes it
\* past that sector, so its loop does not end.
StuckInv == pc # "done" /\ currAddr <= EndSector

(***************************************************************************)
(* The inductive invariant.                                                *)
(***************************************************************************)
IInv ==
    /\ TypeOK
    /\ EndsBeforeLastSector => FitInv
    /\ ~EndsBeforeLastSector => StuckInv

\* The address of a sector other than the last lies in exactly that sector,
\* and FLASH_getNextSectorAddr finds its successor.
LEMMA LookUp ==
    ASSUME NEW i \in 0 .. NumSectors - 2
    PROVE  /\ AddrToSectorAddr(sectorArray[i]) = sectorArray[i]
           /\ GetNextSectorAddr(sectorArray[i]) = sectorArray[i + 1]
<1>1. sectorArray[i] \in Nat /\ sectorArray[i + 1] \in Nat
      /\ sectorArray[i] < sectorArray[i + 1]
  BY LayoutAssumption
<1>2. i + 1 \in Enclosing(sectorArray[i])
  BY <1>1, LayoutAssumption DEF Enclosing
<1>3. ASSUME NEW j \in Enclosing(sectorArray[i])
      PROVE  j = i + 1
  <2>1. /\ j \in 1 .. NumSectors - 1
        /\ sectorArray[i] >= sectorArray[j - 1] /\ sectorArray[i] < sectorArray[j]
    BY DEF Enclosing
  <2>2. sectorArray[j] \in Nat /\ sectorArray[j - 1] \in Nat
    BY <2>1, LayoutAssumption
  <2>3. ~(j < i + 1)
    <3>1. SUFFICES ASSUME j < i + 1 PROVE FALSE
      OBVIOUS
    <3>2. j = i \/ sectorArray[j] < sectorArray[i]
      BY <2>1, <3>1, LayoutAssumption
    <3>. QED BY <1>1, <2>1, <2>2, <3>2
  <2>4. ~(j > i + 1)
    <3>1. SUFFICES ASSUME j > i + 1 PROVE FALSE
      OBVIOUS
    <3>2. sectorArray[i] < sectorArray[j - 1]
      BY <2>1, <3>1, LayoutAssumption
    <3>. QED BY <1>1, <2>1, <2>2, <3>2
  <2>. QED BY <2>1, <2>3, <2>4, LayoutAssumption
<1>. DEFINE c == CHOOSE j \in Enclosing(sectorArray[i]) : TRUE
<1>4. c = i + 1
  BY <1>2, <1>3
<1>5. /\ AddrToSectorAddr(sectorArray[i]) = sectorArray[c - 1]
      /\ GetNextSectorAddr(sectorArray[i]) = sectorArray[c]
  BY <1>2 DEF AddrToSectorAddr, GetNextSectorAddr
<1>. HIDE DEF c
<1>6. i \in Int /\ c - 1 = i
  BY <1>4, LayoutAssumption
<1>. QED BY <1>4, <1>5, <1>6

LEMMA Initially == Init => IInv
<1>. SUFFICES ASSUME Init PROVE IInv
  OBVIOUS
<1>1. ApplStart \in Nat /\ size \in Nat /\ ApplStart < EndSector
  BY LayoutAssumption DEF Init, ApplStart, EndSector
<1>2. TypeOK /\ FitInv
  BY <1>1, LayoutAssumption
  DEF Init, TypeOK, FitInv, NeverOverruns, Prefix, ApplStart
<1>3. EndSector \in Nat
  BY LayoutAssumption DEF EndSector
<1>4. StuckInv
  BY <1>1, <1>3 DEF Init, StuckInv
<1>. QED BY <1>2, <1>4 DEF IInv

\* A look-up yields 0 or the address of a sector.
LEMMA LookUpRange ==
    ASSUME NEW a \in Nat
    PROVE  /\ AddrToSectorAddr(a) \in Nat
           /\ GetNextSectorAddr(a) \in Nat /\ GetNextSectorAddr(a) <= EndSector
<1>. DEFINE c == CHOOSE i \in Enclosing(a) : TRUE
<1>1. EndSector \in Nat
  BY LayoutAssumption DEF EndSector
<1>2. CASE Enclosing(a) = {}
  BY <1>1, <1>2 DEF AddrToSectorAddr, GetNextSectorAddr
<1>3. CASE Enclosing(a) # {}
  <2>1. c \in 1 .. NumSectors - 1
    BY <1>3 DEF Enclosing
  <2>2. /\ AddrToSectorAddr(a) = sectorArray[c - 1]
        /\ GetNextSectorAddr(a) = sectorArray[c]
    BY <1>3 DEF AddrToSectorAddr, GetNextSectorAddr
  <2>. HIDE DEF c
  <2>3. sectorArray[c - 1] \in Nat /\ sectorArray[c] \in Nat
    BY <2>1, LayoutAssumption
  <2>4. sectorArray[c] <= EndSector
    <3>1. c = NumSectors - 1 \/ sectorArray[c] < sectorArray[NumSectors - 1]
      BY <2>1, LayoutAssumption
    <3>. QED BY <1>1, <2>3, <3>1 DEF EndSector
  <2>. QED BY <2>2, <2>3, <2>4
<1>. QED BY <1>2, <1>3

LEMMA TypeKept == ASSUME TypeOK, Iterate \/ AddEndSector PROVE TypeOK'
<1>1. EndSector \in Nat
  BY LayoutAssumption DEF EndSector
<1>2. CASE Iterate
  <2>1. AddrToSectorAddr(currAddr) \in Nat
    BY LookUpRange DEF TypeOK
  <2>2. GetNextSectorAddr(AddrToSectorAddr(currAddr)) \in Nat
    BY <2>1, LookUpRange
  <2>. QED BY <1>2, <2>1, <2>2 DEF Iterate, Store, TypeOK
<1>3. CASE AddEndSector
  BY <1>1, <1>3 DEF AddEndSector, Store, TypeOK
<1>. QED BY <1>2, <1>3

\* An image that reaches the last sector stays in the loop.
LEMMA StuckKept ==
    ASSUME TypeOK, StuckInv, ~EndsBeforeLastSector, Iterate \/ AddEndSector
    PROVE  StuckInv'
<1>1. EndSector' = EndSector
  BY DEF EndSector
<1>2. /\ ApplStart \in Nat /\ EndSector \in Nat /\ size \in Nat /\ currAddr \in Nat
  BY LayoutAssumption DEF TypeOK, ApplStart, EndSector
<1>3. CASE Iterate
  <2>1. AddrToSectorAddr(currAddr) \in Nat
    BY <1>2, LookUpRange
  <2>2. GetNextSectorAddr(AddrToSectorAddr(currAddr)) <= EndSector
    BY <2>1, LookUpRange
  <2>. QED BY <1>1, <1>3, <2>2 DEF Iterate, Store, StuckInv
<1>4. CASE AddEndSector
  BY <1>2, <1>4 DEF AddEndSector, More, StuckInv, EndsBeforeLastSector
<1>. QED BY <1>3, <1>4

LEMMA IterateKeeps ==
    ASSUME TypeOK, FitInv, EndsBeforeLastSector, Iterate PROVE FitInv'
<1>. DEFINE n == ApplSector + Len(list)
<1>1. /\ pc = "loop" /\ currAddr <= ApplStart + size
      /\ n < NumSectors /\ currAddr = sectorArray[n] /\ Prefix(Len(list))
      /\ Len(list) \in Nat /\ size \in Nat /\ list \in Seq(Nat)
  BY DEF Iterate, More, FitInv, TypeOK
<1>2. /\ ApplStart + size < EndSector
      /\ ApplStart \in Nat /\ EndSector \in Nat
  BY LayoutAssumption DEF EndsBeforeLastSector, ApplStart, EndSector
<1>3. n \in 0 .. NumSectors - 2
  <2>1. n \in 0 .. NumSectors - 1
    BY <1>1, LayoutAssumption
  <2>2. n # NumSectors - 1
    BY <1>1, <1>2 DEF EndSector
  <2>. QED BY <2>1, <2>2, LayoutAssumption
<1>4. /\ AddrToSectorAddr(currAddr) = sectorArray[n]
      /\ GetNextSectorAddr(sectorArray[n]) = sectorArray[n + 1]
  BY <1>1, <1>3, LookUp
<1>5. sectorArray[n] \in Nat /\ sectorArray[n + 1] \in Nat /\ sectorArray[n] # 0
  <2>1. n > 0 /\ n \in 0 .. NumSectors - 1 /\ n + 1 \in 0 .. NumSectors - 1
        /\ 0 \in 0 .. NumSectors - 1
    BY <1>1, <1>3, LayoutAssumption
  <2>2. sectorArray[0] < sectorArray[n] /\ sectorArray[0] \in Nat
    BY <2>1, LayoutAssumption
  <2>. QED BY <2>1, <2>2, LayoutAssumption
<1>6. Len(list) < NumSectors
  BY <1>1, <1>3, LayoutAssumption
<1>7. /\ status' = status /\ size' = size
      /\ list' = Append(list, sectorArray[n]) /\ pc' = "loop"
      /\ currAddr' = sectorArray[n + 1]
  BY <1>4, <1>5, <1>6 DEF Iterate, Store
<1>8. Len(list') = Len(list) + 1 /\ list'[Len(list')] = sectorArray[n]
      /\ list' \in Seq(Nat)
  BY <1>1, <1>5, <1>7
<1>9. ASSUME NEW k \in 1 .. Len(list')
      PROVE  list'[k] = sectorArray[ApplSector + k - 1]
  <2>1. CASE k = Len(list')
    BY <1>1, <1>8, <2>1, LayoutAssumption
  <2>2. CASE k # Len(list')
    <3>1. k \in 1 .. Len(list)
      BY <1>1, <1>8, <2>2
    <3>2. list'[k] = list[k]
      BY <1>1, <1>7, <3>1
    <3>. QED BY <1>1, <3>1, <3>2 DEF Prefix
  <2>. QED BY <2>1, <2>2
<1>10. n + 1 < NumSectors /\ n + 1 = ApplSector + Len(list')
  BY <1>1, <1>3, <1>8, LayoutAssumption
<1>11. NeverOverruns'
  BY <1>7 DEF FitInv, NeverOverruns
<1>12. ApplStart' = ApplStart
  BY DEF ApplStart
<1>. QED
  BY <1>1, <1>5, <1>7, <1>8, <1>9, <1>10, <1>11, <1>12 DEF FitInv, Prefix

LEMMA AddEndSectorKeeps == ASSUME TypeOK, FitInv, AddEndSector PROVE FitInv'
<1>. DEFINE n == ApplSector + Len(list)
<1>1. /\ pc = "loop" /\ ~(currAddr <= ApplStart + size)
      /\ n < NumSectors /\ currAddr = sectorArray[n] /\ Prefix(Len(list))
      /\ Len(list) \in Nat /\ size \in Nat /\ list \in Seq(Nat) /\ currAddr \in Nat
  BY DEF AddEndSector, More, FitInv, TypeOK
<1>2. ApplStart \in Nat /\ EndSector \in Nat
  BY LayoutAssumption DEF ApplStart, EndSector
<1>3. Len(list) < NumSectors
  BY <1>1, LayoutAssumption
<1>4. /\ status' = status /\ size' = size /\ currAddr' = currAddr
      /\ list' = Append(list, EndSector) /\ pc' = "done"
  BY <1>3 DEF AddEndSector, Store
<1>5. /\ Len(list') = Len(list) + 1 /\ list'[Len(list')] = EndSector
      /\ list' \in Seq(Nat)
      /\ \A k \in 1 .. Len(list) : list'[k] = list[k]
  BY <1>1, <1>2, <1>4
<1>6. NeverOverruns'
  BY <1>4 DEF FitInv, NeverOverruns
<1>8. ASSUME Len(list') > 1
      PROVE  sectorArray[ApplSector + Len(list') - 2] <= ApplStart + size
  <2>1. Len(list) > 0 /\ Len(list) \in 1 .. Len(list)
    BY <1>1, <1>5, <1>8
  <2>2. list[Len(list)] <= ApplStart + size
    BY <1>1, <2>1 DEF FitInv
  <2>3. list[Len(list)] = sectorArray[ApplSector + Len(list) - 1]
    BY <1>1, <2>1 DEF Prefix
  <2>. QED BY <1>1, <1>5, <2>2, <2>3, LayoutAssumption
<1>9. ApplStart' = ApplStart /\ EndSector' = EndSector
  BY DEF ApplStart, EndSector
<1>10. ASSUME NEW k \in 1 .. Len(list') - 1
       PROVE  list'[k] = sectorArray[ApplSector + k - 1]
  BY <1>1, <1>5 DEF Prefix
<1>11. /\ ApplSector + Len(list') - 1 < NumSectors
       /\ sectorArray[ApplSector + Len(list') - 1] > ApplStart + size
  <2>1. ApplSector + Len(list') - 1 = n
    BY <1>1, <1>5, LayoutAssumption
  <2>. QED BY <1>1, <1>2, <2>1
<1>. QED
  BY <1>1, <1>4, <1>5, <1>6, <1>8, <1>9, <1>10, <1>11 DEF FitInv, Prefix

LEMMA NextKeeps == IInv /\ [Next]_vars => IInv'
<1>. SUFFICES ASSUME IInv, [Next]_vars PROVE IInv'
  OBVIOUS
<1>1. CASE Iterate \/ AddEndSector
  <2>1. EndsBeforeLastSector' = EndsBeforeLastSector
    BY <1>1 DEF Iterate, AddEndSector, EndsBeforeLastSector, ApplStart, EndSector
  <2>2. TypeOK'
    BY <1>1, TypeKept DEF IInv
  <2>3. CASE EndsBeforeLastSector
    <3>1. FitInv'
      BY <1>1, <2>3, IterateKeeps, AddEndSectorKeeps DEF IInv
    <3>. QED BY <2>1, <2>2, <2>3, <3>1 DEF IInv
  <2>4. CASE ~EndsBeforeLastSector
    <3>1. StuckInv'
      BY <1>1, <2>4, StuckKept DEF IInv
    <3>. QED BY <2>1, <2>2, <2>4, <3>1 DEF IInv
  <2>. QED BY <2>3, <2>4
<1>2. CASE UNCHANGED vars
  BY <1>2 DEF vars, IInv, TypeOK, FitInv, StuckInv, EndsBeforeLastSector,
              NeverOverruns, Prefix, ApplStart, EndSector
<1>. QED BY <1>1, <1>2 DEF Next, Finished

(***************************************************************************)
(* For every set of image sizes: the list of sectors stays inside the      *)
(* caller's array and every look-up succeeds when the image ends before    *)
(* the last sector, and only then is the walk ever done.                   *)
(***************************************************************************)
THEOREM WalkEndsInsideIffFits == Spec => []EndsInsideIffFits
<1>1. Init => IInv
  BY Initially
<1>2. IInv /\ [Next]_vars => IInv'
  BY NextKeeps
<1>3. IInv => EndsInsideIffFits
  BY DEF IInv, FitInv, StuckInv, EndsInsideIffFits
<1>. QED BY <1>1, <1>2, <1>3, PTL DEF Spec

\* The sector map never descends.
LEMMA Ascends ==
  ASSUME NEW i \in Indices, NEW j \in Indices, i <= j
  PROVE  sectorArray[i] <= sectorArray[j]
<1>1. sectorArray[i] \in Nat /\ sectorArray[j] \in Nat /\ i \in Int /\ j \in Int
  BY LayoutAssumption DEF Indices
<1>2. CASE i = j
  BY <1>1, <1>2
<1>3. CASE i < j
  <2>1. sectorArray[i] < sectorArray[j]
    BY <1>3, LayoutAssumption DEF Indices
  <2>. QED BY <1>1, <2>1
<1>. QED BY <1>1, <1>2, <1>3

\* What the invariant says of the finished list.
LEMMA DoneIsRight == ASSUME IInv PROVE ErasesTheImage
<1>. SUFFICES ASSUME pc = "done" PROVE ErasesTheImage
  BY DEF ErasesTheImage
<1>. TypeOK /\ FitInv
  BY DEF IInv, StuckInv
<1>. DEFINE m == Len(list) - 1
<1>1. /\ m \in Nat /\ ApplSector + m < NumSectors
      /\ sectorArray[ApplSector + m] > ApplStart + size
      /\ \A k \in 1 .. m : list[k] = sectorArray[ApplSector + k - 1]
      /\ list[m + 1] = EndSector /\ Len(list) = m + 1
      /\ size \in Nat
  BY DEF FitInv, TypeOK, Prefix
<1>. HIDE DEF m
<1>2. ApplStart \in Nat /\ EndSector \in Nat
  BY LayoutAssumption DEF ApplStart, EndSector
<1>3. ASSUME NEW i \in 0 .. NumSectors - 2,
             sectorArray[i] < ApplStart + size, sectorArray[i + 1] > ApplStart
      PROVE  \E k \in 1 .. m : list[k] = sectorArray[i]
  <2>1. sectorArray[i] \in Nat /\ sectorArray[i + 1] \in Nat
        /\ ApplSector + m \in 0 .. NumSectors - 1
        /\ sectorArray[ApplSector + m] \in Nat
    BY <1>1, LayoutAssumption
  <2>2. i >= ApplSector
    <3>1. SUFFICES ASSUME i < ApplSector PROVE FALSE
      BY LayoutAssumption
    <3>2. i + 1 = ApplSector \/ sectorArray[i + 1] < ApplStart
      BY <3>1, LayoutAssumption DEF ApplStart
    <3>. QED BY <1>2, <1>3, <2>1, <3>2 DEF ApplStart
  <2>3. i < ApplSector + m
    <3>1. SUFFICES ASSUME i >= ApplSector + m PROVE FALSE
      BY <2>1, LayoutAssumption
    <3>2. i \in Indices /\ ApplSector + m \in Indices /\ ApplSector + m <= i
      BY <2>1, <3>1, LayoutAssumption DEF Indices
    <3>3. sectorArray[ApplSector + m] <= sectorArray[i]
      BY <3>2, Ascends
    <3>. QED BY <1>1, <1>2, <1>3, <2>1, <3>3
  <2>4. i - ApplSector + 1 \in 1 .. m
        /\ ApplSector + (i - ApplSector + 1) - 1 = i
    BY <1>1, <2>2, <2>3, LayoutAssumption
  <2>. QED BY <1>1, <2>4
<1>4. ASSUME NEW k \in 1 .. m
      PROVE  list[k] >= ApplStart /\ list[k] < list[k + 1]
  <2>1. /\ ApplSector + k - 1 \in 0 .. NumSectors - 2
        /\ list[k] = sectorArray[ApplSector + k - 1]
        /\ ApplSector + k - 1 >= ApplSector
    BY <1>1, LayoutAssumption
  <2>2. list[k] >= ApplStart
    BY <2>1, LayoutAssumption DEF ApplStart
  <2>3. CASE k = m
    <3>1. sectorArray[ApplSector + k - 1] < sectorArray[NumSectors - 1]
      BY <2>1, LayoutAssumption
    <3>2. list[k + 1] = sectorArray[NumSectors - 1]
      BY <1>1, <2>3 DEF EndSector
    <3>. QED BY <2>1, <2>2, <3>1, <3>2
  <2>4. CASE k # m
    <3>1. k + 1 \in 1 .. m /\ ApplSector + (k + 1) - 1 = ApplSector + k
          /\ ApplSector + k \in 0 .. NumSectors - 1
      BY <1>1, <2>1, <2>4, LayoutAssumption
    <3>2. list[k + 1] = sectorArray[ApplSector + k]
      BY <1>1, <3>1
    <3>. QED BY <2>1, <2>2, <3>1, <3>2, LayoutAssumption
  <2>. QED BY <2>2, <2>3, <2>4
<1>. QED BY <1>1, <1>3, <1>4 DEF ErasesTheImage

(***************************************************************************)
(* The finished list holds every sector of the image once, in order, never *)
(* one of the bootloader, and the sector with the metadata at its end.     *)
(***************************************************************************)
THEOREM ListIsRight == Spec => []ErasesTheImage
<1>1. Init => IInv
  BY Initially
<1>2. IInv /\ [Next]_vars => IInv'
  BY NextKeeps
<1>3. IInv => ErasesTheImage
  BY DoneIsRight
<1>. QED BY <1>1, <1>2, <1>3, PTL DEF Spec
=============================================================================
