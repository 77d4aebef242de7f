------------------------------ MODULE MCSysDB ------------------------------
(* A small instance of SysDB.  The deferral queue holds the start-up       *)
(* checks that wait behind the first and no request more, so that it       *)
(* overflows while they run.  The raw write begins in the middle of the    *)
(* magic word and ends with the address.                                   *)
EXTENDS SysDB

MCRawWrites == {[e \in {"MAGIC", "VERSION", "IP"} |->
                    CASE e = "MAGIC" -> "mixed"
                      [] e = "VERSION" -> "other"
                      [] OTHER -> "zero"]}
=============================================================================
