------------------------------- MODULE SysDB -------------------------------
(***************************************************************************)
(* The settings database: the SysMgr active object                         *)
(* (Common/sys/SysMgr.c) with the functions of Common/sys/db.c it calls.   *)
(*                                                                         *)
(* SysMgr serves one request at a time, deferring those that come while it *)
(* is busy, and at start-up checks some elements against the compiled-in   *)
(* defaults before anything else.  It reaches the EEPROM by posting to     *)
(* I2C1DevMgr, which is a queue of requests here: module I2CSystem shows   *)
(* that it answers each of them once and in order.  The answers are        *)
(* published: SysMgr also sees those to CommMgr's raw transfers, and       *)
(* nothing in an answer names the request it belongs to.                   *)
(*                                                                         *)
(* CommMgr is reduced to what it asks: of SysMgr, and of I2C1DevMgr, where *)
(* its raw transfers may read and write the settings themselves.  It may   *)
(* ask again before an answer, having given up waiting: always, in the     *)
(* application's image, which does not subscribe CommMgr to the answers.   *)
(***************************************************************************)
EXTENDS Integers, Sequences

CONSTANTS
    DeferMax,      \* events the deferral queue takes (21 in the code)
    RawWrites,     \* what CommMgr's raw writes leave in the elements they
                   \*   reach; they may reach none
    MaxAsks,       \* bound: requests of CommMgr in a behaviour
    MaxMishaps     \* bound: I2C transfers that fail or that a timer does not
                   \*   wait for, and resets of the board


VARIABLES
    build,         \* the image that runs
    eeprom,        \* what the EEPROM holds
    sysQ,          \* event queue of SysMgr
    deferred,      \* deferredEvtQueue
    st,            \* leaf state of SysMgr
    cmd,           \* dbCmd
    elem,          \* dbElem
    err,           \* errorCode # ERR_NONE
    data,          \* dataBuf
    sysArmed,      \* sysTimerEvt is armed
    dbArmed,       \* dbTimerEvt is armed
    i2cQ,          \* requests I2C1DevMgr has not answered
    asks,          \* history: number of requests of CommMgr
    mishaps,       \* history: number of failed or slow transfers and resets
    current,       \* history: the request SysMgr works on, or 0
    replied,       \* history: requests answered
    lost,          \* history: requests dropped, or swept away by a reset
    reply,         \* history: the last answer SysMgr gave
    resetAsked,    \* history: CommMgr asked for a full reset
    held,          \* history: what the EEPROM has held since SysMgr took up
                   \*   the request it works on
    touched,       \* history: elements CommMgr wrote raw since the last reset
    quiet          \* history: since the last reset no transfer failed, no
                   \*   timer of SysMgr expired, and SysMgr took no answer
                   \*   that was for CommMgr

mgr  == <<st, cmd, elem, err, data, sysArmed, dbArmed, current>>
hist == <<replied, lost, reply>>
seen == <<held, touched>>
env  == <<build, asks, mishaps, resetAsked>>
vars == <<build, eeprom, sysQ, deferred, st, cmd, elem, err, data, sysArmed,
          dbArmed, i2cQ, asks, mishaps, current, replied, lost,
          reply, resetAsked, held, touched, quiet>>

-----------------------------------------------------------------------------
(* The elements.  BOOT stands for the three that describe the bootloader,  *)
(* DBG for the two of the debug control, APPL for the three in the         *)
(* application's flash image.  A value is the bootloader's default, the    *)
(* empty version the application's build has for BOOT, another, or bytes   *)
(* of an old and of a new one.                                             *)

Elems  == {"MAGIC", "VERSION", "IP", "BOOT", "DBG"}
Values == {"dflt", "zero", "other", "mixed"}

ASSUME SysDBAssumption ==
    /\ DeferMax \in Nat /\ MaxAsks \in Nat /\ MaxMishaps \in Nat
    /\ RawWrites \subseteq UNION {[S -> Values] : S \in SUBSET Elems}

\* Mutant: the two builds have each other's version.
Default_Swapped(b) ==
    [e \in Elems |-> IF e = "BOOT" /\ b = "Boot" THEN "zero" ELSE "dflt"]

\* DB_defaultEepromSettings of an image.
Default(b) ==
    [e \in Elems |-> IF e = "BOOT" /\ b = "App" THEN "zero" ELSE "dflt"]

\* SettingsDB_t: the first and the last byte of an element, and the pages of
\* the EEPROM they are on.
FirstByte == [MAGIC |-> 0, VERSION |-> 4, IP |-> 6, BOOT |-> 10, DBG |-> 44]
LastByte  == [MAGIC |-> 3, VERSION |-> 5, IP |-> 9, BOOT |-> 25, DBG |-> 48]
PageSize  == 8
PagesOf(e) == FirstByte[e] \div PageSize .. LastByte[e] \div PageSize
Pages      == 0 .. LastByte["DBG"] \div PageSize

StartUpChecks(b) ==
    IF b = "Boot" THEN <<"MAGIC", "VERSION", "BOOT", "DBG">> ELSE <<"DBG">>

(* Events *)

Check(e)       == [sig |-> "DB_INTRNL_CHK_ELEM", elem |-> e]
Get(e, a, n)   == [sig |-> "DB_GET_ELEM", elem |-> e, access |-> a, ask |-> n]
FullReset(n)   == [sig |-> "DB_FULL_RESET", ask |-> n]
Simple(s)      == [sig |-> s]
\* The answer of I2C1DevMgr.  "by", whose transfer it was, is history.
Answer(op, ok, of, v, by) ==
    [sig |-> op, ok |-> ok, of |-> of, value |-> v, by |-> by]

\* The answer is good, and not longer than MAX_DB_ELEM_SIZE.
Usable(e) == e.ok /\ e.value # "long"

NoData == [of |-> "none", value |-> "none"]
NoReplyYet == [op |-> "none", ok |-> FALSE, true |-> FALSE]
Waiting == {"DB_GET_ELEM", "DB_INTRNL_CHK_ELEM"}
Timeouts == {"SYS_MGR_TIMEOUT", "DB_ACCESS_TIMEOUT"}

Request(op, e, v, by) == [op |-> op, elem |-> e, value |-> v, by |-> by]

\* SysMgr_initial.
StartQueue(b) == [i \in DOMAIN StartUpChecks(b) |-> Check(StartUpChecks(b)[i])]

SysDBInit ==
    /\ build = "Boot"
    /\ eeprom \in {f \in [Elems -> {"dflt", "other"}] :
                      f["IP"] = "other" /\ f["DBG"] = "other"}
    /\ sysQ = StartQueue(build) /\ deferred = <<>>
    /\ st = "Idle" /\ cmd = "NONE" /\ elem = "none" /\ err = FALSE
    /\ data = NoData /\ sysArmed = FALSE /\ dbArmed = FALSE
    /\ i2cQ = <<>>
    /\ asks = 0 /\ mishaps = 0
    /\ current = 0 /\ replied = {} /\ lost = {} /\ reply = NoReplyYet
    /\ resetAsked = FALSE /\ quiet = TRUE
    /\ held = {} /\ touched = {}

-----------------------------------------------------------------------------
(* SysMgr: one action handles the event at the head of its queue *)

Event     == Head(sysQ)
Rest      == Tail(sysQ)
Takes(sigs) == sysQ # <<>> /\ Event.sig \in sigs
Busy      == st # "Idle"

\* Mutant: nothing is recalled on entry to Idle.
Recall_None(q) == sysQ' = q /\ UNCHANGED deferred

\* QActive_recall: the oldest deferred event goes to the FRONT of the queue.
Recall(q) ==
    IF deferred = <<>> THEN sysQ' = q /\ UNCHANGED deferred
    ELSE sysQ' = <<Head(deferred)>> \o q /\ deferred' = Tail(deferred)

\* History: what an answer without error tells CommMgr was so at some moment
\* while SysMgr worked on the request.  A read answers with the element asked
\* for as the EEPROM had it, a full reset with a database that was the default.
True(d) ==
    IF cmd = "WRITE" THEN Default(build) \in held
    ELSE d.of = elem /\ (elem \in Elems => \E f \in held : d.value = f[elem])

\* Exit of AccessingDB: the answer to the request, by its command.
Reply(failed, d) ==
    /\ cmd \in {"READ", "WRITE"}
    /\ reply' = [op |-> cmd, ok |-> ~ failed, true |-> True(d)]
    /\ replied' = replied \cup {current}

NoneGiven == cmd = "INTERNAL" /\ UNCHANGED <<reply, replied>>

\* The exit of the Busy states, with the errorCode and dataBuf they leave,
\* and the entry of Idle.
GoIdle(failed, d) ==
    /\ Reply(failed, d) \/ NoneGiven
    /\ st' = "Idle" /\ cmd' = "NONE" /\ elem' = "none"
    /\ err' = FALSE /\ data' = NoData
    /\ sysArmed' = FALSE /\ dbArmed' = FALSE /\ current' = 0
    /\ Recall(Rest)
    /\ held' = {}
    /\ UNCHANGED <<build, eeprom, i2cQ, asks, mishaps, lost,
                   resetAsked, touched>>

\* The entry of Busy and of one of its leaf states.
GoBusy(state, command, e, ask) ==
    /\ st' = state /\ cmd' = command /\ elem' = e /\ current' = ask
    /\ sysArmed' = TRUE /\ dbArmed' = TRUE
    /\ held' = {eeprom}
    /\ UNCHANGED <<deferred, data, eeprom, hist, env, touched, quiet>>

\* DB_GET_ELEM: the event becomes DB_READ and is posted again.
IdleGet ==
    /\ ~ Busy /\ Takes({"DB_GET_ELEM"})
    /\ GoBusy("AccessingDB", "READ", Event.elem, Event.ask)
    /\ err' = TRUE
    /\ sysQ' = Append(Rest, [Event EXCEPT !.sig = "DB_READ"])
    /\ UNCHANGED i2cQ

\* Mutant: only the magic word is written.
InitToDefault_MagicOnly == Append(i2cQ, Request("write", "MAGIC", "dflt", "Sys"))

\* DB_initToDefault: one I2C write of the whole structure.
InitToDefault == Append(i2cQ, Request("reset", "MAGIC", "none", "Sys"))

IdleFullReset ==
    /\ ~ Busy /\ Takes({"DB_FULL_RESET"})
    /\ GoBusy("DBFullReset", "WRITE", "MAGIC", Event.ask)
    /\ err' = FALSE /\ i2cQ' = InitToDefault
    /\ sysQ' = Rest

IdleCheck ==
    /\ ~ Busy /\ Takes({"DB_INTRNL_CHK_ELEM"})
    /\ GoBusy("DBCheckAndSetElem", "INTERNAL", Event.elem, 0)
    /\ err' = FALSE
    /\ i2cQ' = Append(i2cQ, Request("read", Event.elem, "none", "Sys"))
    /\ sysQ' = Rest

\* Idle handles nothing that belongs to a request that is over.
IdleDrops ==
    /\ ~ Busy /\ sysQ # <<>>
    /\ ~ Takes(Waiting \cup {"DB_FULL_RESET"})
    /\ sysQ' = Rest
    /\ UNCHANGED <<deferred, mgr, eeprom, i2cQ, hist, env, seen, quiet>>

\* Mutant: the deferral queue takes one event too many.
RoomToDefer_OffByOne == Len(deferred) <= DeferMax

RoomToDefer == Len(deferred) < DeferMax

\* Busy: requests are deferred while there is room.
BusyDefers ==
    /\ Busy /\ Takes(Waiting)
    /\ sysQ' = Rest
    /\ IF RoomToDefer
       THEN deferred' = Append(deferred, Event) /\ UNCHANGED lost
       ELSE /\ lost' = lost \cup (IF Event.sig = "DB_GET_ELEM"
                                  THEN {Event.ask} ELSE {})
            /\ UNCHANGED deferred
    /\ UNCHANGED <<mgr, eeprom, i2cQ, replied, reply, env, seen, quiet>>

\* Busy: a full reset is neither deferred nor answered.
BusyIgnoresReset ==
    /\ Busy /\ Takes({"DB_FULL_RESET"})
    /\ sysQ' = Rest
    /\ lost' = lost \cup {Event.ask}
    /\ UNCHANGED <<deferred, mgr, eeprom, i2cQ, replied, reply, env, seen,
                   quiet>>

BusyTimesOut ==
    /\ Busy /\ Takes(Timeouts)
    /\ GoIdle(err, data)
    /\ UNCHANGED quiet

OpDone ==
    /\ Busy /\ Takes({"DB_OP_DONE"})
    /\ GoIdle(err, data)
    /\ UNCHANGED quiet

\* DB_READ, DB_read: a bare access is refused for want of a buffer, and then
\* only the timeout ends the request; an element in flash is read at once; for
\* any other, which the event and not dbElem names, I2C1DevMgr is asked.
DBRead ==
    /\ Busy /\ Takes({"DB_READ"})
    /\ CASE Event.access = "BARE" ->
                err' = TRUE /\ sysQ' = Rest /\ UNCHANGED i2cQ
         [] Event.access # "BARE" /\ Event.elem = "APPL" ->
                /\ err' = FALSE
                /\ sysQ' = Append(Rest, Simple("DB_FLASH_READ_DONE"))
                /\ UNCHANGED i2cQ
         [] OTHER ->
                /\ err' = FALSE /\ sysQ' = Rest
                /\ i2cQ' = Append(i2cQ,
                              Request("read", Event.elem, "none", "Sys"))
    /\ UNCHANGED <<deferred, st, cmd, elem, data, sysArmed, dbArmed, current,
                   eeprom, hist, env, seen, quiet>>

\* AccessingDB: what an answer leaves in errorCode and dataBuf.  Any answer of
\* I2C1DevMgr will do.
AccessDone ==
    /\ Busy
    /\ \/ /\ Takes({"I2C1_DEV_READ_DONE"}) /\ st # "DBCheckAndSetElem"
          /\ err' = ~ Usable(Event)
          /\ data' = IF Usable(Event)
                     THEN [of |-> Event.of, value |-> Event.value] ELSE data
          /\ quiet' = (quiet /\ Event.by = "Sys")
       \/ /\ Takes({"I2C1_DEV_WRITE_DONE"})
          /\ err' = ~ Event.ok
          /\ quiet' = (quiet /\ Event.by = "Sys")
          /\ UNCHANGED data
       \/ /\ Takes({"DB_FLASH_READ_DONE"})
          /\ err' = FALSE
          /\ data' = [of |-> "APPL", value |-> "dflt"]
          /\ UNCHANGED quiet
    /\ sysQ' = Append(Rest, Simple("DB_OP_DONE"))
    /\ UNCHANGED <<deferred, st, cmd, elem, sysArmed, dbArmed, current,
                   eeprom, i2cQ, hist, env, seen>>

-----------------------------------------------------------------------------
(* DBCheckAndSetElem: I2C1_DEV_READ_DONE *)

\* DB_chkElem for the element under check: what was read, for whomever it
\* was read, is its default.
Matches(e) == e.of = elem /\ e.value = Default(build)[elem]

\* The check is over: the element is as it should be.
CheckMatches ==
    /\ st = "DBCheckAndSetElem" /\ Takes({"I2C1_DEV_READ_DONE"})
    /\ Usable(Event) /\ Matches(Event)
    /\ quiet' = (quiet /\ Event.by = "Sys")
    /\ GoIdle(FALSE, data)

\* Mutant: a version that does not match is taken for a missing database.
NeedsReset_NotVersion == elem = "BOOT"

\* ERR_DB_VER_MISMATCH, ERR_DB_CHK_ELEM_NEEDS_RESET.
NeedsReset == elem \in {"VERSION", "BOOT"}

\* The mismatching element: written anew, taken as it is (the debug settings,
\* which are then the EEPROM's), or the whole database is set to its default,
\* as it is whenever the read failed.
CheckMismatches ==
    /\ st = "DBCheckAndSetElem" /\ Takes({"I2C1_DEV_READ_DONE"})
    /\ ~ (Usable(Event) /\ Matches(Event))
    /\ quiet' = (quiet /\ Event.by = "Sys")
    /\ CASE Usable(Event) /\ NeedsReset ->
                /\ i2cQ' = Append(i2cQ, Request("write", elem,
                                            Default(build)[elem], "Sys"))
                /\ err' = FALSE /\ sysQ' = Rest
         [] Usable(Event) /\ elem = "DBG" ->
                /\ sysQ' = Append(Rest, Simple("DB_OP_DONE"))
                /\ err' = TRUE /\ UNCHANGED i2cQ
         [] OTHER ->
                /\ i2cQ' = InitToDefault
                /\ err' = FALSE /\ sysQ' = Rest
    /\ UNCHANGED <<deferred, st, cmd, elem, data, sysArmed, dbArmed, current,
                   eeprom, hist, env, seen>>

Handler ==
    \/ IdleGet \/ IdleFullReset \/ IdleCheck \/ IdleDrops
    \/ BusyDefers \/ BusyIgnoresReset \/ BusyTimesOut \/ OpDone
    \/ DBRead \/ AccessDone \/ CheckMatches \/ CheckMismatches

-----------------------------------------------------------------------------
(* Timers.  Both are armed in one step and for the same time, sysTimerEvt  *)
(* first: a tick finds both expired, or, if it came between the two, finds *)
(* sysTimerEvt expired alone.                                              *)

TimersExpire ==
    /\ sysArmed \/ dbArmed
    /\ IF i2cQ = <<>> /\ sysQ = <<>> THEN UNCHANGED mishaps
       ELSE mishaps < MaxMishaps /\ mishaps' = mishaps + 1
    /\ \/ /\ sysArmed /\ dbArmed
          /\ \/ sysQ' = sysQ \o <<Simple("SYS_MGR_TIMEOUT"),
                                  Simple("DB_ACCESS_TIMEOUT")>>
             \/ sysQ' = sysQ \o <<Simple("DB_ACCESS_TIMEOUT"),
                                  Simple("SYS_MGR_TIMEOUT")>>
          /\ sysArmed' = FALSE /\ dbArmed' = FALSE
       \/ /\ sysArmed /\ dbArmed
          /\ sysQ' = Append(sysQ, Simple("SYS_MGR_TIMEOUT"))
          /\ sysArmed' = FALSE /\ UNCHANGED dbArmed
       \/ /\ ~ sysArmed
          /\ sysQ' = Append(sysQ, Simple("DB_ACCESS_TIMEOUT"))
          /\ dbArmed' = FALSE /\ UNCHANGED sysArmed
    /\ quiet' = FALSE
    /\ UNCHANGED <<build, eeprom, deferred, st, cmd, elem, err, data, i2cQ,
                   asks, current, hist, resetAsked, seen>>

-----------------------------------------------------------------------------
(* I2C1DevMgr and the EEPROM *)

\* What the EEPROM holds after request r, carried out in full.
Programmed(r) ==
    CASE r.op = "reset" -> Default(build)
      [] r.op = "write" -> [eeprom EXCEPT ![r.elem] = r.value]
      [] r.op = "rawwrite" ->
             [e \in Elems |-> IF e \in DOMAIN r.value THEN r.value[e]
                              ELSE eeprom[e]]
      [] OTHER          -> eeprom

\* What the EEPROM may hold when r has programmed the pages in "done" and
\* perhaps bytes of the pages in "cut": an element that is not on those in
\* "done" alone has its old value, its new one, or some of both.
Partly(r, done, cut) ==
    LET new  == Programmed(r)
        half == {e \in Elems : /\ new[e] # eeprom[e]
                               /\ ~ (PagesOf(e) \subseteq done)
                               /\ PagesOf(e) \cap (done \cup cut) # {}}
    IN  {[e \in Elems |-> IF e \in half THEN f[e]
                          ELSE IF PagesOf(e) \subseteq done THEN new[e]
                          ELSE eeprom[e]] :
             f \in {g \in [half -> Values] : \A e \in half :
                       g[e] \in {eeprom[e], new[e], "mixed"}}}

\* A reset of the board finds a request before one of its pages, or done.
Interrupted(r) ==
    {Programmed(r)}
        \cup (UNION {Partly(r, {p \in Pages : p < n}, {}) : n \in Pages})

\* The transfer of a page fails.  The request ends there, or goes on with the
\* next page: a write that timed out is taken for done.
Spoiled(r) ==
    UNION {Partly(r, {p \in Pages : p < n}, {n})
               \cup Partly(r, Pages \ {n}, {n}) : n \in Pages}

\* The request writes, or began to write, the elements of a raw write.
Touches(r) == touched' = touched \cup (IF r.op = "rawwrite" THEN DOMAIN r.value
                                       ELSE {})

\* The EEPROM's new contents are one SysMgr's request has seen.
Sees == held' = IF Busy THEN held \cup {eeprom'} ELSE held

Sig(r) == IF r.op \in {"read", "raw"} THEN "I2C1_DEV_READ_DONE"
          ELSE "I2C1_DEV_WRITE_DONE"

\* What the answer to a read carries.
Read(r) == CASE r.op = "read" -> eeprom[r.elem]
             [] r.op = "raw"  -> r.value
             [] OTHER         -> "none"

\* The answer is published, to SysMgr among others.
Publish(r, ok) ==
    /\ sysQ' = Append(sysQ, Answer(Sig(r), ok, r.elem, Read(r), r.by))
    /\ i2cQ' = Tail(i2cQ)
    /\ Touches(r) /\ Sees
    /\ UNCHANGED <<build, deferred, mgr, asks, hist, resetAsked>>

I2CServes ==
    /\ i2cQ # <<>>
    /\ eeprom' = Programmed(Head(i2cQ))
    /\ Publish(Head(i2cQ), TRUE)
    /\ UNCHANGED <<mishaps, quiet>>

\* A transfer fails; a write that timed out is reported as done.
I2CFails ==
    /\ i2cQ # <<>> /\ mishaps < MaxMishaps
    /\ eeprom' \in Spoiled(Head(i2cQ))
    /\ \E ok \in {Sig(Head(i2cQ)) = "I2C1_DEV_WRITE_DONE", FALSE} :
           Publish(Head(i2cQ), ok)
    /\ mishaps' = mishaps + 1 /\ quiet' = FALSE

-----------------------------------------------------------------------------
(* CommMgr *)

\* It asks SysMgr (a client's request to SET an element is posted as
\* DB_GET_ELEM too), or, from the bootloader's image only, for a full reset.
CommAsks ==
    /\ asks < MaxAsks
    /\ asks' = asks + 1
    /\ \/ /\ \E e \in {"IP", "APPL"}, a \in {"QPC", "BARE"} :
                 sysQ' = Append(sysQ, Get(e, a, asks + 1))
          /\ UNCHANGED <<i2cQ, resetAsked, lost>>
       \/ /\ build = "Boot"
          /\ sysQ' = Append(sysQ, FullReset(asks + 1))
          /\ resetAsked' = TRUE
          /\ UNCHANGED <<i2cQ, lost>>
       \/ /\ \/ \E v \in {"short", "long"} :
                    i2cQ' = Append(i2cQ, Request("raw", "RAW", v, "Comm"))
             \/ \E f \in RawWrites :
                    i2cQ' = Append(i2cQ, Request("rawwrite", "RAW", f, "Comm"))
          /\ lost' = lost \cup {asks + 1}      \* not a request to SysMgr
          /\ UNCHANGED <<sysQ, resetAsked>>
    /\ UNCHANGED <<build, eeprom, deferred, mgr, mishaps, replied,
                   reply, seen, quiet>>

\* The board is reset, into either image.  A write under way is torn.
Restart ==
    /\ mishaps < MaxMishaps /\ mishaps' = mishaps + 1
    /\ build' \in {"Boot", "App"}
    /\ eeprom' \in IF i2cQ = <<>> THEN {eeprom} ELSE Interrupted(Head(i2cQ))
    /\ sysQ' = StartQueue(build') /\ deferred' = <<>>
    /\ st' = "Idle" /\ cmd' = "NONE" /\ elem' = "none" /\ err' = FALSE
    /\ data' = NoData /\ sysArmed' = FALSE /\ dbArmed' = FALSE
    /\ i2cQ' = <<>> /\ current' = 0
    /\ lost' = lost \cup (1 .. asks \ replied)
    /\ quiet' = TRUE /\ resetAsked' = FALSE
    /\ reply' = NoReplyYet /\ held' = {} /\ touched' = {}
    /\ UNCHANGED <<asks, replied>>

SysDBNext ==
    \/ Handler \/ TimersExpire \/ I2CServes \/ I2CFails
    \/ CommAsks \/ Restart

SysDBSpec == SysDBInit /\ [][SysDBNext]_vars

\* SysMgr runs while its queue is not empty, its timers expire, and
\* I2C1DevMgr answers (EveryRequestAnswered of I2CSystem).
SysDBLive ==
    /\ SysDBSpec
    /\ WF_vars(Handler) /\ WF_vars(TimersExpire) /\ WF_vars(I2CServes)

-----------------------------------------------------------------------------
(* Properties *)

Asked == 1 .. asks
Events ==
    {Check(e) : e \in Elems}
    \cup {Get(e, a, n) : e \in {"IP", "APPL"}, a \in {"QPC", "BARE"}, n \in Asked}
    \cup {[Get(e, a, n) EXCEPT !.sig = "DB_READ"] :
              e \in {"IP", "APPL"}, a \in {"QPC", "BARE"}, n \in Asked}
    \cup {FullReset(n) : n \in Asked}
    \cup {Simple(s) : s \in Timeouts \cup {"DB_OP_DONE", "DB_FLASH_READ_DONE"}}
    \cup [sig : {"I2C1_DEV_READ_DONE", "I2C1_DEV_WRITE_DONE"}, ok : BOOLEAN,
          of : Elems \cup {"RAW"}, value : Values \cup {"none", "short", "long"},
          by : {"Sys", "Comm"}]

\* Every variable has its type; only what Busy defers is in the deferral
\* queue, and the timers run in the busy states only.
SysTypeOK ==
    /\ build \in {"Boot", "App"} /\ eeprom \in [Elems -> Values]
    /\ sysQ \in Seq(Events)
    /\ deferred \in Seq({e \in Events : e.sig \in Waiting})
    /\ Len(deferred) <= DeferMax
    /\ st \in {"Idle", "AccessingDB", "DBFullReset", "DBCheckAndSetElem"}
    /\ cmd \in {"NONE", "READ", "WRITE", "INTERNAL"} /\ Busy = (cmd # "NONE")
    /\ (dbArmed => Busy) /\ (sysArmed => dbArmed)
    /\ held \subseteq [Elems -> Values] /\ touched \subseteq Elems
    /\ asks <= MaxAsks /\ mishaps <= MaxMishaps /\ replied \subseteq Asked

\* An answer without error is true, while nothing disturbs the exchange with
\* I2C1DevMgr: it carries the element that was asked for, as the EEPROM had
\* it while SysMgr worked on the request, or follows a database that really
\* was set to its default, whatever CommMgr's raw writes change meanwhile.
RepliesAreTrue == quiet /\ reply # NoReplyYet /\ reply.ok => reply.true

\* "Once the read is complete, an event will be posted that signifies the
\* competion of the read and the data will be contained within those events"
\* (SysMgr.c, DB_READ), which the code does not do: SysMgr takes the answer to
\* one of CommMgr's raw transfers, published like its own, for that event.
RepliesAreOwn ==
    mishaps = 0 /\ reply.op = "READ" /\ reply.ok => reply.true

Checking ==
    \/ st = "DBCheckAndSetElem"
    \/ \E i \in DOMAIN sysQ : sysQ[i].sig = "DB_INTRNL_CHK_ELEM"
    \/ \E i \in DOMAIN deferred : deferred[i].sig = "DB_INTRNL_CHK_ELEM"

\* Whatever the EEPROM held and at whichever page a reset of the board tore a
\* write, the bootloader's start-up checks leave a database that is there, of
\* this version and with this bootloader's own version, if no transfer fails:
\* all but what CommMgr has written over since.
ChecksRepair ==
    build = "Boot" /\ quiet /\ ~ Checking =>
        \A e \in {"MAGIC", "VERSION", "BOOT"} \ touched : eeprom[e] = "dflt"

\* A raw write of CommMgr's that reaches the address is served.
WrittenByComm ==
    /\ i2cQ # <<>> /\ Head(i2cQ).op = "rawwrite"
    /\ "IP" \in DOMAIN Head(i2cQ).value

\* The user's address changes, in full or in part, only by a raw write of
\* CommMgr's that reaches it, or when SysMgr found no database, CommMgr asked
\* for the default, or something had disturbed the exchange with I2C1DevMgr.
SettingsSurvive ==
    [][eeprom'["IP"] # eeprom["IP"]
           => \/ WrittenByComm \/ resetAsked \/ ~ quiet
              \/ \E f \in held : f["MAGIC"] # "dflt"]_vars

\* Every request SysMgr took is answered ("used for DB access to guarantee a
\* reply", SysMgr.c, dbCmd), by its timer if by nothing else: all but those
\* that found the deferral queue full, and full resets that found SysMgr busy.
\* Again and again none is left over (the requests of a behaviour are bounded).
AskedIsAnswered ==
    []<>(Asked \subseteq lost \cup replied)

\* "This should only happen if it is found to be invalid by DB_isValid()"
\* (db.h, of DB_initToDefault), which the code does not do: SysMgr sets the
\* whole database to its default only if the magic word or the version is not
\* as expected, or as asked.  The code does so after any read that failed, and
\* after one that CommMgr's was taken for.
ResetOnlyIfInvalid ==
    [][Len(i2cQ') > Len(i2cQ) /\ i2cQ'[Len(i2cQ')].op = "reset"
           => resetAsked \/ eeprom["MAGIC"] # "dflt" \/ eeprom["VERSION"] # "dflt"
      ]_vars
=============================================================================
