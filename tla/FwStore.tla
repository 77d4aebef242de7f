------------------------------ MODULE FwStore ------------------------------
(***************************************************************************)
(* What the firmware-update path of the bootloader promises, without       *)
(* sectors, retries, timers or events: a store that vouches for at most    *)
(* one image.  installed is the image the stored metadata stands for, or   *)
(* None; staged is what the running session has written so far.            *)
(***************************************************************************)
EXTENDS Naturals, Sequences

CONSTANTS Chunks, None

VARIABLES installed, staged

Init == installed = None /\ staged = <<>>

\* The old image is given up before the first packet of a new one.
Wipe == installed' = None /\ staged' = <<>>

\* Packets are written in order, and never under an image that is vouched for.
Stage(c) ==
    /\ installed = None
    /\ staged' = Append(staged, c)
    /\ UNCHANGED installed

\* Only what has just been written can become the installed image.
Install(n) ==
    /\ installed = None
    /\ installed' = SubSeq(staged, 1, n)
    /\ UNCHANGED staged

Discard == staged' = <<>> /\ UNCHANGED installed

Next ==
    \/ Wipe
    \/ \E c \in Chunks : Stage(c)
    \/ \E n \in 1 .. Len(staged) : Install(n)
    \/ Discard

Spec == Init /\ [][Next]_<<installed, staged>>
=============================================================================
