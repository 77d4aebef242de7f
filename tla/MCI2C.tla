------------------------------- MODULE MCI2C -------------------------------
(* A small instance of I2CSystem: an EEPROM of six bytes in pages of two,  *)
(* a read, a write that touches all three pages, the middle one whole, and *)
(* one the validation refuses.                                             *)
EXTENDS I2CSystem

MCTaskRead == [op |-> "read", addr |-> 0, n |-> 2]
MCRequests ==
    {MCTaskRead,
     [op |-> "write", addr |-> 1, n |-> 4],
     [op |-> "write", addr |-> 5, n |-> 1]}
=============================================================================
