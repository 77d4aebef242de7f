----------------------------- MODULE MCFlashFW -----------------------------
(* A small instance of FlashFW: an image of two packets and two calls, the *)
(* second of which may start before the board is done with the first.      *)
EXTENDS FlashFW
=============================================================================
