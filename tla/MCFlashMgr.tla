---------------------------- MODULE MCFlashMgr ----------------------------
(* A small instance of FlashMgr: two sectors of two packets each. *)
EXTENDS FlashMgr

CONSTANTS c1, c2, v1

Offer(type, sane, crc, size, num) ==
    [type |-> type, sane |-> sane, size |-> size, crc |-> crc, num |-> num,
     ver |-> v1]

\* Consistent images of one and two packets, an image whose last packet is
\* padding, one announced larger than its packets, and two refused ones.
MCOffers ==
    {Offer("Application", TRUE, <<c1>>, 1, 1),
     Offer("Application", TRUE, <<c2, c1>>, 2, 2),
     Offer("Application", TRUE, <<c1, c1>>, 2, 1),
     Offer("Application", TRUE, <<c1>>, 1, 2),
     Offer("Application", FALSE, <<c1>>, 1, 1),
     Offer("Application", TRUE, <<c1>>, 4, 1),
     Offer("Bootloader", TRUE, <<c1>>, 1, 1)}

\* For the runs that look for one thing: one sector of three
\* packets and one kind of packet.
MCFewOffers ==
    {Offer("Application", TRUE, <<c1, c1>>, 2, 2),
     Offer("Application", TRUE, <<c1, c1>>, 2, 1),
     Offer("Application", FALSE, <<c1>>, 1, 1)}
=============================================================================
