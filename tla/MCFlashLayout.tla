--------------------------- MODULE MCFlashLayout ---------------------------
(* FlashLayout with the sectors of the STM32F42x (flash.h). *)
EXTENDS FlashLayout

KB == 1024
Base == 134217728   \* 0x08000000

\* Two banks of 4 x 16 KB, 64 KB, 7 x 128 KB.
BankOffset == <<0, 16, 32, 48, 64, 128, 256, 384, 512, 640, 768, 896>>
MCSectorArray ==
    [i \in 0 .. 23 |-> Base + KB * (1024 * (i \div 12) + BankOffset[(i % 12) + 1])]

MCMaxImageSize == 1769471   \* 0x1AFFFF

\* Sizes around every sector boundary, and around 112-byte packets.
Around(n) == {n - 112, n - 1, n, n + 1, n + 112}
Boundaries == {MCSectorArray[i] - MCSectorArray[6] : i \in 7 .. 23}
MCFitting == {n \in {1, 112} \cup UNION {Around(b) : b \in Boundaries} :
                 n < MCSectorArray[23] - MCSectorArray[6]}

\* Every size class the validation lets through.
MCAccepted == MCFitting \cup Around(MCSectorArray[23] - MCSectorArray[6])
                        \cup {MCMaxImageSize - 1, MCMaxImageSize}
=============================================================================
