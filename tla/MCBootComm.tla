----------------------------- MODULE MCBootComm -----------------------------
(* Small instances of BootComm. *)
EXTENDS BootComm

Of(kinds, words) == [kind : kinds, word : words]

\* What concerns the flash, and a request that keeps CommMgr busy for long.
MCFlashRequests ==
    Of({"SetBootAppl", "FlashMeta", "FlashData", "RamTest", "I2CWriteBare"},
       {"NONE"})

\* The requests that lead to a jump into an image that is gone.
MCBootRequests == Of({"SetBootAppl", "FlashMeta", "I2CReadBare"}, {"NONE"})

\* One request of each way to be served, with a first word that is no error
\* code where it matters.
MCAllRequests ==
    Of({"GetBootMode", "FlashMeta", "FlashData"}, {"NONE"}) \cup
    Of({"SetBootLoader", "I2CRead", "I2CWrite", "DBGet"}, {"JUNK"})

\* Requests with a wrong payload.
MCBadRequests == Of({"BadPayload", "GetBootMode"}, {"NONE", "JUNK"})
=============================================================================
