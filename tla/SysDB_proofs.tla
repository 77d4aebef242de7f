---------------------------- MODULE SysDB_proofs ----------------------------
(***************************************************************************)
(* The settings database for every length of the deferral queue, any       *)
(* number of requests and of transfers that fail: the types, what an       *)
(* answer is worth, what the start-up checks repair, and what becomes of   *)
(* the user's settings.                                                    *)
(***************************************************************************)
EXTENDS SysDB, Places_proofs

-----------------------------------------------------------------------------
(* Types *)

ReadElems == {"IP", "APPL"}
Answers   == {"I2C1_DEV_READ_DONE", "I2C1_DEV_WRITE_DONE"}
Texts     == Values \cup {"none", "short", "long"}

\* With n requests of CommMgr so far.
GetEvents(n)   == [sig : {"DB_GET_ELEM"}, elem : ReadElems, access : {"QPC", "BARE"},
                   ask : 1 .. n]
ReadEvents(n)  == [sig : {"DB_READ"}, elem : ReadElems, access : {"QPC", "BARE"},
                   ask : 1 .. n]
ResetEvents(n) == [sig : {"DB_FULL_RESET"}, ask : 1 .. n]
CheckEvents    == [sig : {"DB_INTRNL_CHK_ELEM"}, elem : Elems]
StepEvents     == [sig : {"DB_OP_DONE", "DB_FLASH_READ_DONE"}]
TimeoutEvents  == [sig : Timeouts]
AnswerEvents   == [sig : Answers, ok : BOOLEAN, of : Elems \cup {"RAW"}, value : Texts,
                   by : {"Sys", "Comm"}]

EventTypes(n) == GetEvents(n) \cup ReadEvents(n) \cup ResetEvents(n) \cup CheckEvents
                 \cup StepEvents \cup TimeoutEvents \cup AnswerEvents
WaitingTypes(n) == GetEvents(n) \cup CheckEvents

RequestTypes ==
    [op : {"read"}, elem : Elems, value : {"none"}, by : {"Sys"}]
    \cup [op : {"write"}, elem : Elems, value : Values, by : {"Sys"}]
    \cup [op : {"reset"}, elem : {"MAGIC"}, value : {"none"}, by : {"Sys"}]
    \cup [op : {"raw"}, elem : {"RAW"}, value : {"short", "long"}, by : {"Comm"}]
    \cup [op : {"rawwrite"}, elem : {"RAW"}, value : RawWrites, by : {"Comm"}]

\* The command of each state.
CommandFits ==
    \/ st = "Idle" /\ cmd = "NONE"
    \/ st = "AccessingDB" /\ cmd = "READ"
    \/ st = "DBFullReset" /\ cmd = "WRITE"
    \/ st = "DBCheckAndSetElem" /\ cmd = "INTERNAL"

QueueTypes ==
    /\ asks \in Nat /\ asks <= MaxAsks
    /\ sysQ \in Seq(EventTypes(asks))
    /\ deferred \in Seq(WaitingTypes(asks)) /\ Len(deferred) <= DeferMax
    /\ i2cQ \in Seq(RequestTypes)

MgrTypes ==
    /\ build \in {"Boot", "App"} /\ eeprom \in [Elems -> Values]
    /\ CommandFits
    /\ cmd = "READ" => elem \in ReadElems
    /\ cmd = "INTERNAL" => elem \in Elems
    /\ cmd \in {"READ", "WRITE"} => current \in 1 .. asks
    /\ err \in BOOLEAN /\ sysArmed \in BOOLEAN /\ dbArmed \in BOOLEAN
    /\ (dbArmed => Busy) /\ (sysArmed => dbArmed)
    /\ mishaps \in Nat /\ mishaps <= MaxMishaps /\ replied \subseteq 1 .. asks
    /\ quiet \in BOOLEAN /\ resetAsked \in BOOLEAN

TypesInv == QueueTypes /\ MgrTypes

SeenTypes == held \subseteq [Elems -> Values] /\ touched \subseteq Elems

-----------------------------------------------------------------------------
(* The exchange with I2C1DevMgr *)

Held(q) == {q[i] : i \in DOMAIN q}

Single(q, P) == \A i, j \in Positions(q, P) : i = j
None(q, P)   == Positions(q, P) = {}

\* What takes the request being served on: an event of SysMgr's own, or a
\* request to I2C1DevMgr.
OwnReads   == [sig : {"DB_READ"}, elem : ReadElems, access : {"QPC", "BARE"}, ask : Nat]
OwnAnswers == [sig : Answers, ok : BOOLEAN, of : Elems \cup {"RAW"}, value : Texts,
               by : {"Sys"}]
OwnEvents  == OwnReads \cup StepEvents \cup OwnAnswers
OwnRequests == {r \in RequestTypes : r.by = "Sys"}

\* The value is one the element has had since the request was taken up.
Seen(v) == \E f \in held : v = f[elem]

\* The element asked for is the one the buffer holds.
DataIsRight == data.of = elem /\ (elem \in Elems => Seen(data.value))

Repaired == elem = "DBG" \/ elem \in touched \/ eeprom[elem] = Default(build)[elem]

\* The event is one of the request being served, and what it says is so.
Fits(e) ==
    /\ e.sig = "DB_READ" => cmd = "READ" /\ e.elem = elem
    /\ e.sig = "DB_FLASH_READ_DONE" => cmd = "READ" /\ elem = "APPL"
    /\ e.sig = "I2C1_DEV_READ_DONE" =>
          /\ cmd \in {"READ", "INTERNAL"} /\ elem \in Elems
          /\ e.ok /\ e.of = elem /\ e.value \in Values /\ Seen(e.value)
          /\ elem \in touched \/ e.value = eeprom[elem]
    /\ e.sig = "I2C1_DEV_WRITE_DONE" =>
          /\ cmd = "WRITE" => Default(build) \in held
          /\ cmd = "INTERNAL" => Repaired
          /\ cmd # "READ"
    /\ e.sig = "DB_OP_DONE" =>
          /\ cmd = "READ" => err \/ DataIsRight
          /\ cmd = "WRITE" => err \/ Default(build) \in held
          /\ cmd = "INTERNAL" => Repaired

\* The request to I2C1DevMgr is that of the request being served.
Due(r) ==
    /\ r.op = "read" => cmd \in {"READ", "INTERNAL"} /\ r.elem = elem
    /\ r.op = "write" =>
          /\ cmd = "INTERNAL" /\ r.elem = elem /\ elem # "IP"
          /\ r.value = Default(build)[elem]
    /\ r.op = "reset" =>
          /\ cmd \in {"WRITE", "INTERNAL"}
          /\ cmd = "WRITE" => resetAsked
          /\ cmd = "INTERNAL" => \E f \in held : f["MAGIC"] # "dflt"

OneAtATime ==
    /\ Single(sysQ, OwnEvents) /\ Single(i2cQ, OwnRequests)
    /\ None(sysQ, OwnEvents) \/ None(i2cQ, OwnRequests)
    /\ ~ Busy => None(sysQ, OwnEvents) /\ None(i2cQ, OwnRequests)

FlowInv ==
    quiet =>
        /\ None(sysQ, TimeoutEvents)
        /\ OneAtATime
        /\ \A e \in Held(sysQ) : e \in OwnEvents => Fits(e)
        /\ \A r \in Held(i2cQ) : r \in OwnRequests => Due(r)

\* Full resets that were asked for, and checks of what the start-up checks.
AskedInv ==
    /\ \A e \in Held(sysQ) : e.sig = "DB_FULL_RESET" => resetAsked
    /\ cmd = "WRITE" => resetAsked
    /\ \A e \in Held(sysQ) \cup Held(deferred) :
          e \in CheckEvents => e.elem # "IP"
    /\ cmd = "INTERNAL" => elem # "IP"

-----------------------------------------------------------------------------
(* The start-up checks *)

\* The queue behind the event Idle takes next.
Behind == IF Busy \/ sysQ = <<>> THEN sysQ ELSE Tail(sysQ)

\* The checks of a queue come before anything else in it, and with n events
\* deferred there is room to defer them, too.
Room(q, n) ==
    \A i \in DOMAIN q :
        q[i] \in CheckEvents => /\ i + n <= 3
                               /\ \A j \in 1 .. i : q[j] \in CheckEvents

RoomInv == Room(Behind, Len(deferred))

Repairs == {"MAGIC", "VERSION", "BOOT"}

\* An element is right, written over by CommMgr, or its check is still to
\* come or under way.
RepairInv ==
    build = "Boot" /\ quiet =>
        \A x \in Repairs :
            \/ eeprom[x] = "dflt" \/ x \in touched
            \/ Check(x) \in Held(sysQ) \cup Held(deferred)
            \/ cmd = "INTERNAL" /\ elem = x

-----------------------------------------------------------------------------
(* Queues *)

LEMMA AppendHeld ==
    ASSUME NEW S, NEW q \in Seq(S), NEW e \in S, NEW P
    PROVE  /\ Append(q, e) \in Seq(S)
           /\ Held(Append(q, e)) = Held(q) \cup {e}
           /\ e \notin P /\ None(q, P) => None(Append(q, e), P)
           /\ e \notin P /\ Single(q, P) => Single(Append(q, e), P)
           /\ None(q, P) => Single(Append(q, e), P)
<1>. DEFINE t == Append(q, e)
            n == Len(q) + 1
<1>1. /\ t \in Seq(S) /\ DOMAIN t = DOMAIN q \cup {n} /\ t[n] = e
      /\ \A i \in DOMAIN q : t[i] = q[i]
      /\ Positions(t, P) = Positions(q, P) \cup (IF e \in P THEN {n} ELSE {})
  BY AppendPlaces
<1>. HIDE DEF t, n
<1>2. Held(t) = Held(q) \cup {e}
  BY <1>1 DEF Held
<1>3. e \notin P => Positions(t, P) = Positions(q, P)
  BY <1>1
<1>4. None(q, P) => Single(t, P)
  BY <1>1 DEF None, Single
<1>. QED BY <1>1, <1>2, <1>3, <1>4 DEF None, Single, t

LEMMA TailHeld ==
    ASSUME NEW S, NEW q \in Seq(S), q # <<>>, NEW P
    PROVE  /\ Tail(q) \in Seq(S) /\ Head(q) \in S /\ Head(q) \in Held(q)
           /\ Held(Tail(q)) \subseteq Held(q)
           /\ \A e \in Held(q) : e = Head(q) \/ e \in Held(Tail(q))
           /\ None(q, P) => None(Tail(q), P) /\ Head(q) \notin P
           /\ Single(q, P) => Single(Tail(q), P)
           /\ Single(q, P) /\ Head(q) \in P => None(Tail(q), P)
<1>. DEFINE t == Tail(q)
            h == Head(q)
<1>1. /\ t \in Seq(S) /\ h = q[1] /\ q[1] \in S /\ 1 \in DOMAIN q
      /\ \A i \in DOMAIN t : i \in Nat \ {0} /\ i + 1 \in DOMAIN q /\ t[i] = q[i + 1]
      /\ \A i \in DOMAIN q \ {1} :
            i \in Nat /\ i - 1 \in DOMAIN t /\ t[i - 1] = q[i]
  BY TailPlaces
<1>. HIDE DEF t, h
<1>2. Held(t) \subseteq Held(q) /\ h \in Held(q)
  BY <1>1 DEF Held
<1>3. \A e \in Held(q) : e = h \/ e \in Held(t)
  <2>1. SUFFICES ASSUME NEW i \in DOMAIN q PROVE q[i] = h \/ q[i] \in Held(t)
    BY DEF Held
  <2>2. i # 1 => i - 1 \in DOMAIN t /\ t[i - 1] = q[i]
    BY <1>1
  <2>3. i # 1 => q[i] \in Held(t)
    BY <2>2, Zenon DEF Held
  <2>. QED BY <1>1, <2>3
<1>4. \A i \in Positions(t, P) : i \in Nat \ {0} /\ i + 1 \in Positions(q, P)
  BY <1>1 DEF Positions
<1>5. h \in P <=> 1 \in Positions(q, P)
  BY <1>1 DEF Positions
<1>6. None(q, P) => None(t, P) /\ h \notin P
  BY <1>4, <1>5 DEF None
<1>7. Single(q, P) => Single(t, P)
  <2>1. SUFFICES ASSUME Single(q, P), NEW i \in Positions(t, P), NEW j \in Positions(t, P)
                 PROVE  i = j
    BY DEF Single
  <2>2. i + 1 = j + 1 /\ i \in Nat /\ j \in Nat
    BY <1>4, <2>1 DEF Single
  <2>. QED BY <2>2
<1>8. Single(q, P) /\ h \in P => None(t, P)
  <2>1. SUFFICES ASSUME Single(q, P), 1 \in Positions(q, P), NEW i \in Positions(t, P)
                 PROVE  FALSE
    BY <1>5 DEF None
  <2>2. i + 1 = 1 /\ i \in Nat \ {0}
    BY <1>4, <2>1 DEF Single
  <2>. QED BY <2>2
<1>. QED BY <1>1, <1>2, <1>3, <1>6, <1>7, <1>8 DEF t, h

LEMMA FrontHeld ==
    ASSUME NEW S, NEW q \in Seq(S), q # <<>>, NEW e \in S, NEW P, e \notin P
    PROVE  /\ <<e>> \o Tail(q) \in Seq(S) /\ <<e>> \o Tail(q) # <<>>
           /\ Held(<<e>> \o Tail(q)) = Held(Tail(q)) \cup {e}
           /\ Head(<<e>> \o Tail(q)) = e /\ Tail(<<e>> \o Tail(q)) = Tail(q)
           /\ None(Tail(q), P) => None(<<e>> \o Tail(q), P)
           /\ Single(Tail(q), P) => Single(<<e>> \o Tail(q), P)
<1>. DEFINE t == Tail(q)
            f == <<e>> \o t
<1>1. /\ f \in Seq(S) /\ f = [q EXCEPT ![1] = e]
      /\ DOMAIN f = DOMAIN q /\ 1 \in DOMAIN q /\ q \in [DOMAIN q -> S]
  BY FrontPlaces, TailPlaces, LenProperties
<1>2. f # <<>> /\ Head(f) = e /\ Tail(f) = t
  <2>1. f # <<>>
    BY <1>1
  <2>. QED BY <1>1, <2>1, TailOfFront
<1>3. /\ f[1] = e /\ 1 \in DOMAIN f
      /\ \A i \in DOMAIN t : i \in Nat \ {0} /\ i + 1 \in DOMAIN f /\ t[i] = f[i + 1]
      /\ \A i \in DOMAIN f \ {1} :
            i \in Nat /\ i - 1 \in DOMAIN t /\ t[i - 1] = f[i]
  BY <1>1, <1>2, TailPlaces
<1>. HIDE DEF f, t
<1>4. Held(f) = Held(t) \cup {e}
  BY <1>3 DEF Held
<1>5. \A i \in Positions(f, P) : i \in Nat /\ i - 1 \in Positions(t, P)
  BY <1>3 DEF Positions
<1>6. None(t, P) => None(f, P)
  BY <1>5 DEF None
<1>7. Single(t, P) => Single(f, P)
  <2>1. SUFFICES ASSUME Single(t, P), NEW i \in Positions(f, P), NEW j \in Positions(f, P)
                 PROVE  i = j
    BY DEF Single
  <2>2. i - 1 = j - 1 /\ i \in Nat /\ j \in Nat
    BY <1>5, <2>1 DEF Single
  <2>. QED BY <2>2
<1>. QED BY <1>1, <1>2, <1>4, <1>6, <1>7 DEF f, t

LEMMA SeqGrows ==
    ASSUME NEW S, NEW T, S \subseteq T, NEW q \in Seq(S)
    PROVE  q \in Seq(T)
OBVIOUS

-----------------------------------------------------------------------------
(* What a step finds at the head of the queue and may leave behind it *)

LEMMA HeadTypes ==
    ASSUME NEW n \in Nat, NEW e \in EventTypes(n)
    PROVE  /\ e.sig = "DB_GET_ELEM" => e \in GetEvents(n)
           /\ e.sig = "DB_READ" => e \in ReadEvents(n)
           /\ e.sig = "DB_FULL_RESET" => e \in ResetEvents(n)
           /\ e.sig = "DB_INTRNL_CHK_ELEM" => e \in CheckEvents
           /\ e.sig \in {"DB_OP_DONE", "DB_FLASH_READ_DONE"} => e \in StepEvents
           /\ e.sig \in Timeouts => e \in TimeoutEvents
           /\ e.sig \in Answers => e \in AnswerEvents
BY DEF EventTypes, GetEvents, ReadEvents, ResetEvents, CheckEvents, StepEvents,
       TimeoutEvents, AnswerEvents, Answers, Timeouts

LEMMA EventsGrow ==
    ASSUME NEW n \in Nat
    PROVE  /\ EventTypes(n) \subseteq EventTypes(n + 1)
           /\ WaitingTypes(n) \subseteq WaitingTypes(n + 1)
           /\ WaitingTypes(n) \subseteq EventTypes(n)
<1>1. 1 .. n \subseteq 1 .. n + 1
  OBVIOUS
<1>2. /\ GetEvents(n) \subseteq GetEvents(n + 1)
      /\ ReadEvents(n) \subseteq ReadEvents(n + 1)
      /\ ResetEvents(n) \subseteq ResetEvents(n + 1)
  BY <1>1 DEF GetEvents, ReadEvents, ResetEvents
<1>. QED BY <1>2 DEF EventTypes, WaitingTypes

LEMMA NewEvents ==
    ASSUME NEW n \in Nat
    PROVE  /\ Simple("DB_OP_DONE") \in StepEvents
           /\ Simple("DB_FLASH_READ_DONE") \in StepEvents
           /\ Simple("SYS_MGR_TIMEOUT") \in TimeoutEvents
           /\ Simple("DB_ACCESS_TIMEOUT") \in TimeoutEvents
           /\ \A e \in GetEvents(n) : [e EXCEPT !.sig = "DB_READ"] \in ReadEvents(n)
           /\ \A e \in ReadElems, a \in {"QPC", "BARE"}, k \in 1 .. n :
                 Get(e, a, k) \in GetEvents(n)
           /\ \A k \in 1 .. n : FullReset(k) \in ResetEvents(n)
           /\ \A e \in Elems : Check(e) \in CheckEvents
BY DEF Simple, StepEvents, TimeoutEvents, Timeouts, GetEvents, ReadEvents, Get,
       FullReset, ResetEvents, Check, CheckEvents

LEMMA NewRequests ==
    /\ \A e \in Elems : Request("read", e, "none", "Sys") \in RequestTypes
    /\ \A e \in Elems, v \in Values : Request("write", e, v, "Sys") \in RequestTypes
    /\ Request("reset", "MAGIC", "none", "Sys") \in RequestTypes
    /\ \A v \in {"short", "long"} : Request("raw", "RAW", v, "Comm") \in RequestTypes
    /\ \A f \in RawWrites : Request("rawwrite", "RAW", f, "Comm") \in RequestTypes
BY DEF Request, RequestTypes

LEMMA DefaultTypes ==
    ASSUME build \in {"Boot", "App"}
    PROVE  /\ Default(build) \in [Elems -> Values]
           /\ Default(build)["MAGIC"] = "dflt"
           /\ build = "Boot" => \A e \in Elems : Default(build)[e] = "dflt"
BY DEF Default, Elems, Values

LEMMA StartTypes ==
    ASSUME NEW b \in {"Boot", "App"}
    PROVE  /\ StartQueue(b) \in Seq(CheckEvents)
           /\ StartQueue(b) # <<>> /\ Len(StartQueue(b)) \in {1, 4}
           /\ \A e \in Held(StartQueue(b)) : e \in CheckEvents /\ e.elem # "IP"
           /\ b = "Boot" => \A x \in Repairs : Check(x) \in Held(StartQueue(b))
<1>1. CASE b = "Boot"
  <2>1. StartUpChecks(b) = <<"MAGIC", "VERSION", "BOOT", "DBG">>
    BY <1>1 DEF StartUpChecks
  <2>2. StartQueue(b) = <<Check("MAGIC"), Check("VERSION"), Check("BOOT"), Check("DBG")>>
    BY <2>1 DEF StartQueue
  <2>3. \A e \in {"MAGIC", "VERSION", "BOOT", "DBG"} : Check(e) \in CheckEvents
    BY DEF Check, CheckEvents, Elems
  <2>4. StartQueue(b) \in Seq(CheckEvents) /\ Len(StartQueue(b)) = 4
    BY <2>2, <2>3
  <2>7. StartQueue(b) # <<>>
    BY <2>2
  <2>5. Held(StartQueue(b)) =
          {Check("MAGIC"), Check("VERSION"), Check("BOOT"), Check("DBG")}
    <3>1. Held(<<Check("MAGIC"), Check("VERSION"), Check("BOOT"), Check("DBG")>>) =
            {Check("MAGIC"), Check("VERSION"), Check("BOOT"), Check("DBG")}
      BY DEF Held
    <3>. QED BY <2>2, <3>1
  <2>6. \A e \in {"MAGIC", "VERSION", "BOOT", "DBG"} : Check(e).elem = e
    BY DEF Check
  <2>8. \A e \in Held(StartQueue(b)) : e \in CheckEvents /\ e.elem # "IP"
    BY <2>3, <2>5, <2>6
  <2>9. \A x \in Repairs : Check(x) \in Held(StartQueue(b))
    BY <2>5 DEF Repairs
  <2>. QED BY <2>4, <2>7, <2>8, <2>9
<1>2. CASE b = "App"
  <2>1. StartUpChecks(b) = <<"DBG">>
    BY <1>2 DEF StartUpChecks
  <2>2. StartQueue(b) = <<Check("DBG")>>
    BY <2>1 DEF StartQueue
  <2>3. Check("DBG") \in CheckEvents /\ Check("DBG").elem = "DBG"
    BY DEF Check, CheckEvents, Elems
  <2>4. StartQueue(b) \in Seq(CheckEvents) /\ Len(StartQueue(b)) = 1
    BY <2>2, <2>3
  <2>5. StartQueue(b) # <<>>
    BY <2>2
  <2>6. Held(StartQueue(b)) = {Check("DBG")}
    <3>1. Held(<<Check("DBG")>>) = {Check("DBG")}
      BY DEF Held
    <3>. QED BY <2>2, <3>1
  <2>. QED BY <1>2, <2>3, <2>4, <2>5, <2>6
<1>. QED BY <1>1, <1>2

LEMMA Taken ==
    ASSUME QueueTypes, sysQ # <<>>
    PROVE  /\ Event \in EventTypes(asks) /\ Rest \in Seq(EventTypes(asks))
           /\ asks \in Nat /\ Event \in Held(sysQ)
<1>1. sysQ \in Seq(EventTypes(asks)) /\ asks \in Nat
  BY DEF QueueTypes
<1>. QED BY <1>1, TailHeld DEF Event, Rest

LEMMA RecallTypes ==
    ASSUME QueueTypes, NEW q \in Seq(EventTypes(asks)), Recall(q)
    PROVE  /\ sysQ' \in Seq(EventTypes(asks))
           /\ deferred' \in Seq(WaitingTypes(asks)) /\ Len(deferred') <= DeferMax
<1>1. /\ deferred \in Seq(WaitingTypes(asks)) /\ Len(deferred) <= DeferMax
      /\ WaitingTypes(asks) \subseteq EventTypes(asks)
  BY EventsGrow DEF QueueTypes
<1>2. CASE deferred = <<>>
  BY <1>1, <1>2 DEF Recall
<1>3. CASE deferred # <<>>
  <2>1. sysQ' = <<Head(deferred)>> \o q /\ deferred' = Tail(deferred)
    BY <1>3 DEF Recall
  <2>2. /\ Head(deferred) \in WaitingTypes(asks)
        /\ Tail(deferred) \in Seq(WaitingTypes(asks))
        /\ Len(Tail(deferred)) = Len(deferred) - 1 /\ Len(deferred) \in Nat
    BY <1>1, <1>3, TailPlaces, LenProperties
  <2>3. <<Head(deferred)>> \o q \in Seq(EventTypes(asks))
    <3>1. <<Head(deferred)>> \in Seq(EventTypes(asks))
      BY <1>1, <2>2
    <3>. QED BY <3>1, ConcatProperties
  <2>4. Len(Tail(deferred)) <= DeferMax
    BY <1>1, <2>2, SysDBAssumption
  <2>. QED BY <2>1, <2>2, <2>3, <2>4
<1>. QED BY <1>2, <1>3

\* A write cut short changes nothing that it would not change.
LEMMA PartlyPlaces ==
    ASSUME NEW r, eeprom \in [Elems -> Values], Programmed(r) \in [Elems -> Values],
           NEW done, NEW cut, NEW f \in Partly(r, done, cut)
    PROVE  /\ f \in [Elems -> Values]
           /\ \A e \in Elems : f[e] # eeprom[e] => Programmed(r)[e] # eeprom[e]
<1>. DEFINE new  == Programmed(r)
            half == {e \in Elems : /\ new[e] # eeprom[e]
                                   /\ ~ (PagesOf(e) \subseteq done)
                                   /\ PagesOf(e) \cap (done \cup cut) # {}}
<1>1. PICK g \in [half -> Values] :
         f = [e \in Elems |-> IF e \in half THEN g[e]
                              ELSE IF PagesOf(e) \subseteq done THEN new[e]
                              ELSE eeprom[e]]
  BY DEF Partly
<1>2. half \subseteq Elems /\ \A e \in half : new[e] # eeprom[e]
  OBVIOUS
<1>3. new \in [Elems -> Values]
  OBVIOUS
<1>. HIDE DEF half, new
<1>4. f \in [Elems -> Values]
  BY <1>1, <1>2, <1>3
<1>5. ASSUME NEW e \in Elems, f[e] # eeprom[e]
      PROVE  new[e] # eeprom[e]
  BY <1>1, <1>2, <1>5
<1>. QED BY <1>4, <1>5 DEF new

\* What a request that is cut short, or one of whose pages fails, may leave.
LEMMA CutPlaces ==
    ASSUME NEW r, eeprom \in [Elems -> Values], Programmed(r) \in [Elems -> Values],
           NEW f \in Interrupted(r) \cup Spoiled(r) \cup {Programmed(r)}
    PROVE  /\ f \in [Elems -> Values]
           /\ \A e \in Elems : f[e] # eeprom[e] => Programmed(r)[e] # eeprom[e]
<1>1. f = Programmed(r) \/ \E done, cut : f \in Partly(r, done, cut)
  BY DEF Interrupted, Spoiled
<1>. QED BY <1>1, PartlyPlaces

LEMMA ServedTypes ==
    ASSUME build \in {"Boot", "App"}, eeprom \in [Elems -> Values], NEW r \in RequestTypes
    PROVE  /\ Programmed(r) \in [Elems -> Values]
           /\ Interrupted(r) \cup Spoiled(r) \subseteq [Elems -> Values]
<1>1. Default(build) \in [Elems -> Values]
  BY DefaultTypes
<1>2. Programmed(r) \in [Elems -> Values]
  <2>1. CASE r.op = "reset"
    BY <1>1, <2>1 DEF Programmed
  <2>2. CASE r.op = "write"
    <3>1. r.elem \in Elems /\ r.value \in Values
      BY <2>2 DEF RequestTypes
    <3>. QED BY <2>2, <3>1 DEF Programmed
  <2>3. CASE r.op = "rawwrite"
    <3>1. PICK S \in SUBSET Elems : r.value \in [S -> Values]
      BY <2>3, SysDBAssumption DEF RequestTypes
    <3>2. \A e \in DOMAIN r.value : r.value[e] \in Values
      BY <3>1
    <3>. QED BY <2>3, <3>2 DEF Programmed
  <2>4. CASE r.op \notin {"reset", "write", "rawwrite"}
    BY <2>4 DEF Programmed
  <2>. QED BY <2>1, <2>2, <2>3, <2>4
<1>. QED BY <1>2, CutPlaces

LEMMA AnswerTypes ==
    ASSUME eeprom \in [Elems -> Values], NEW r \in RequestTypes, NEW ok \in BOOLEAN
    PROVE  Answer(Sig(r), ok, r.elem, Read(r), r.by) \in AnswerEvents
<1>. DEFINE v == Read(r)
<1>1. r.elem \in Elems \cup {"RAW"} /\ r.by \in {"Sys", "Comm"}
  BY DEF RequestTypes, Elems
<1>2. v \in Texts
  <2>1. CASE r.op = "read"
    <3>1. r.elem \in Elems
      BY <2>1 DEF RequestTypes
    <3>. QED BY <2>1, <3>1 DEF Read, Texts
  <2>2. CASE r.op = "raw"
    BY <2>2 DEF Read, RequestTypes, Texts
  <2>3. CASE r.op \notin {"read", "raw"}
    BY <2>3 DEF Read, Texts
  <2>. QED BY <2>1, <2>2, <2>3
<1>3. Sig(r) \in Answers
  BY DEF Sig, Answers
<1>. HIDE DEF v
<1>. QED BY <1>1, <1>2, <1>3 DEF Answer, AnswerEvents, v

-----------------------------------------------------------------------------
(* The types are invariant *)

LEMMA TypesInit == SysDBInit => TypesInv
<1>. SUFFICES ASSUME SysDBInit PROVE TypesInv
  OBVIOUS
<1>1. /\ StartQueue("Boot") \in Seq(CheckEvents)
      /\ CheckEvents \subseteq EventTypes(0)
  BY StartTypes DEF EventTypes
<1>2. QueueTypes
  <2>1. asks = 0 /\ sysQ = StartQueue("Boot") /\ deferred = <<>> /\ i2cQ = <<>>
    BY DEF SysDBInit
  <2>2. sysQ \in Seq(EventTypes(0))
    BY <1>1, <2>1, SeqGrows
  <2>3. Len(deferred) <= DeferMax /\ asks <= MaxAsks /\ asks \in Nat
    BY <2>1, SysDBAssumption
  <2>. QED BY <2>1, <2>2, <2>3 DEF QueueTypes
<1>3. MgrTypes
  <2>1. eeprom \in [Elems -> Values]
    BY DEF SysDBInit, Values
  <2>2. mishaps \in Nat /\ mishaps <= MaxMishaps
    BY SysDBAssumption DEF SysDBInit
  <2>. QED BY <2>1, <2>2 DEF SysDBInit, MgrTypes, CommandFits, Busy
<1>. QED BY <1>2, <1>3 DEF TypesInv

\* What every step that only takes an event from the queue, or adds some, has
\* to show of the queues.
LEMMA IdleTypes ==
    ASSUME TypesInv, NEW failed \in BOOLEAN, NEW d, sysQ # <<>>, GoIdle(failed, d),
           quiet' \in BOOLEAN
    PROVE  TypesInv'
<1>1. QueueTypes'
  <2>1. Rest \in Seq(EventTypes(asks)) /\ QueueTypes
    BY Taken DEF TypesInv
  <2>2. /\ sysQ' \in Seq(EventTypes(asks))
        /\ deferred' \in Seq(WaitingTypes(asks)) /\ Len(deferred') <= DeferMax
    BY <2>1, RecallTypes DEF GoIdle
  <2>. QED BY <2>1, <2>2 DEF QueueTypes, GoIdle
<1>2. MgrTypes'
  <2>1. replied' \subseteq 1 .. asks
    BY DEF GoIdle, Reply, NoneGiven, TypesInv, MgrTypes
  <2>2. /\ build' = build /\ eeprom' = eeprom /\ st' = "Idle" /\ cmd' = "NONE"
        /\ err' = FALSE /\ sysArmed' = FALSE /\ dbArmed' = FALSE
        /\ mishaps' = mishaps /\ resetAsked' = resetAsked /\ asks' = asks
    BY DEF GoIdle
  <2>3. MgrTypes
    BY DEF TypesInv
  <2>. QED BY <2>1, <2>2, <2>3 DEF MgrTypes, CommandFits, Busy
<1>. QED BY <1>1, <1>2 DEF TypesInv

LEMMA BusyTypes ==
    ASSUME TypesInv, NEW state, NEW command, NEW e, NEW ask \in 0 .. asks, sysQ # <<>>,
           GoBusy(state, command, e, ask), err' \in BOOLEAN,
           \/ /\ state = "AccessingDB" /\ command = "READ"
              /\ e \in ReadElems /\ ask # 0
           \/ state = "DBFullReset" /\ command = "WRITE" /\ ask # 0
           \/ /\ state = "DBCheckAndSetElem" /\ command = "INTERNAL"
              /\ e \in Elems,
           sysQ' \in Seq(EventTypes(asks)), i2cQ' \in Seq(RequestTypes)
    PROVE  TypesInv'
<1>1. QueueTypes'
  BY DEF QueueTypes, GoBusy, env, TypesInv
<1>2. MgrTypes'
  <2>1. /\ build' = build /\ eeprom' = eeprom /\ st' = state /\ cmd' = command
        /\ elem' = e /\ current' = ask /\ sysArmed' = TRUE /\ dbArmed' = TRUE
        /\ mishaps' = mishaps /\ resetAsked' = resetAsked /\ asks' = asks
        /\ replied' = replied /\ quiet' = quiet
    BY DEF GoBusy, env, hist
  <2>2. MgrTypes /\ asks \in Nat
    BY DEF TypesInv, QueueTypes
  <2>3. ask # 0 => ask \in 1 .. asks
    BY <2>2
  <2>. QED BY <2>1, <2>2, <2>3 DEF MgrTypes, CommandFits, Busy
<1>. QED BY <1>1, <1>2 DEF TypesInv

LEMMA RestTypes ==
    ASSUME TypesInv, sysQ # <<>>
    PROVE  /\ Rest \in Seq(EventTypes(asks))
           /\ \A e \in EventTypes(asks) : Append(Rest, e) \in Seq(EventTypes(asks))
           /\ i2cQ \in Seq(RequestTypes)
           /\ \A r \in RequestTypes : Append(i2cQ, r) \in Seq(RequestTypes)
<1>1. Rest \in Seq(EventTypes(asks)) /\ i2cQ \in Seq(RequestTypes)
  BY Taken DEF TypesInv, QueueTypes
<1>. QED BY <1>1, AppendProperties

LEMMA IdleStepTypes ==
    ASSUME TypesInv, IdleGet \/ IdleFullReset \/ IdleCheck \/ IdleDrops
    PROVE  TypesInv'
<1>. DEFINE n == asks
<1>1. /\ sysQ # <<>> /\ Event \in EventTypes(n) /\ n \in Nat
      /\ Rest \in Seq(EventTypes(n)) /\ i2cQ \in Seq(RequestTypes)
      /\ \A e \in EventTypes(n) : Append(Rest, e) \in Seq(EventTypes(n))
      /\ \A r \in RequestTypes : Append(i2cQ, r) \in Seq(RequestTypes)
  BY Taken, RestTypes DEF IdleGet, IdleFullReset, IdleCheck, IdleDrops, Takes, TypesInv
<1>2. CASE IdleGet
  <2>1. Event \in GetEvents(n)
    BY <1>1, <1>2, HeadTypes DEF IdleGet, Takes
  <2>2. /\ Event.elem \in ReadElems /\ Event.ask \in 1 .. n
        /\ [Event EXCEPT !.sig = "DB_READ"] \in EventTypes(n)
    BY <1>1, <2>1, NewEvents DEF GetEvents, EventTypes
  <2>3. Event.ask \in 0 .. n /\ Event.ask # 0
    BY <1>1, <2>2
  <2>4. sysQ' \in Seq(EventTypes(n)) /\ i2cQ' \in Seq(RequestTypes) /\ err' = TRUE
        /\ GoBusy("AccessingDB", "READ", Event.elem, Event.ask)
    BY <1>1, <1>2, <2>2 DEF IdleGet
  <2>. QED BY <1>1, <2>2, <2>3, <2>4, BusyTypes
<1>3. CASE IdleFullReset
  <2>1. Event \in ResetEvents(n)
    BY <1>1, <1>3, HeadTypes DEF IdleFullReset, Takes
  <2>2. Event.ask \in 1 .. n
    BY <2>1 DEF ResetEvents
  <2>3. Event.ask \in 0 .. n /\ Event.ask # 0
    BY <1>1, <2>2
  <2>4. sysQ' \in Seq(EventTypes(n)) /\ i2cQ' \in Seq(RequestTypes) /\ err' = FALSE
        /\ GoBusy("DBFullReset", "WRITE", "MAGIC", Event.ask)
    BY <1>1, <1>3, NewRequests DEF IdleFullReset, InitToDefault
  <2>. QED BY <1>1, <2>3, <2>4, BusyTypes
<1>4. CASE IdleCheck
  <2>1. Event \in CheckEvents
    BY <1>1, <1>4, HeadTypes DEF IdleCheck, Takes
  <2>2. Event.elem \in Elems /\ 0 \in 0 .. n
    BY <1>1, <2>1 DEF CheckEvents
  <2>3. Request("read", Event.elem, "none", "Sys") \in RequestTypes
    BY <2>2, NewRequests
  <2>4. sysQ' \in Seq(EventTypes(n)) /\ i2cQ' \in Seq(RequestTypes) /\ err' = FALSE
        /\ GoBusy("DBCheckAndSetElem", "INTERNAL", Event.elem, 0)
    BY <1>1, <1>4, <2>3 DEF IdleCheck
  <2>. QED BY <1>1, <2>2, <2>4, BusyTypes
<1>5. CASE IdleDrops
  <2>1. QueueTypes'
    BY <1>1, <1>5 DEF IdleDrops, QueueTypes, TypesInv, env
  <2>2. MgrTypes'
    BY <1>5 DEF IdleDrops, MgrTypes, TypesInv, env, mgr, hist, CommandFits, Busy
  <2>. QED BY <2>1, <2>2 DEF TypesInv
<1>. QED BY <1>2, <1>3, <1>4, <1>5

LEMMA BusyStepTypes ==
    ASSUME TypesInv, BusyDefers \/ BusyIgnoresReset \/ DBRead \/ AccessDone
    PROVE  TypesInv'
<1>. DEFINE n == asks
<1>1. /\ sysQ # <<>> /\ Event \in EventTypes(n) /\ n \in Nat
      /\ Rest \in Seq(EventTypes(n)) /\ i2cQ \in Seq(RequestTypes)
      /\ \A e \in EventTypes(n) : Append(Rest, e) \in Seq(EventTypes(n))
      /\ \A r \in RequestTypes : Append(i2cQ, r) \in Seq(RequestTypes)
      /\ MgrTypes /\ QueueTypes
  BY Taken, RestTypes DEF BusyDefers, BusyIgnoresReset, DBRead, AccessDone, Takes, TypesInv
<1>2. CASE BusyDefers
  <2>1. Event \in WaitingTypes(n)
    BY <1>1, <1>2, HeadTypes DEF BusyDefers, Takes, Waiting, WaitingTypes
  <2>2. deferred' \in Seq(WaitingTypes(n)) /\ Len(deferred') <= DeferMax
    <3>1. deferred \in Seq(WaitingTypes(n)) /\ Len(deferred) \in Nat
          /\ Len(deferred) <= DeferMax
      BY <1>1 DEF QueueTypes
    <3>2. CASE RoomToDefer
      <4>1. deferred' = Append(deferred, Event) /\ Len(deferred) < DeferMax
        BY <1>2, <3>2 DEF BusyDefers, RoomToDefer
      <4>2. Append(deferred, Event) \in Seq(WaitingTypes(n))
            /\ Len(Append(deferred, Event)) = Len(deferred) + 1
        BY <2>1, <3>1, AppendProperties
      <4>. QED BY <3>1, <4>1, <4>2, SysDBAssumption
    <3>3. CASE ~ RoomToDefer
      BY <1>2, <3>1, <3>3 DEF BusyDefers
    <3>. QED BY <3>2, <3>3
  <2>3. QueueTypes'
    BY <1>1, <1>2, <2>2 DEF BusyDefers, QueueTypes, env
  <2>4. MgrTypes'
    BY <1>1, <1>2 DEF BusyDefers, MgrTypes, env, mgr, CommandFits, Busy
  <2>. QED BY <2>3, <2>4 DEF TypesInv
<1>3. CASE BusyIgnoresReset
  <2>1. QueueTypes'
    BY <1>1, <1>3 DEF BusyIgnoresReset, QueueTypes, env
  <2>2. MgrTypes'
    BY <1>1, <1>3 DEF BusyIgnoresReset, MgrTypes, env, mgr, CommandFits, Busy
  <2>. QED BY <2>1, <2>2 DEF TypesInv
<1>4. CASE DBRead
  <2>1. Event.elem \in ReadElems /\ ReadElems \ {"APPL"} \subseteq Elems
    <3>1. Event \in ReadEvents(n)
      BY <1>1, <1>4, HeadTypes DEF DBRead, Takes
    <3>. QED BY <3>1 DEF ReadEvents, ReadElems, Elems
  <2>2. Simple("DB_FLASH_READ_DONE") \in EventTypes(n)
    BY <1>1, NewEvents DEF EventTypes
  <2>3. sysQ' \in Seq(EventTypes(n)) /\ i2cQ' \in Seq(RequestTypes) /\ err' \in BOOLEAN
    <3>1. CASE Event.access = "BARE"
      BY <1>1, <1>4, <3>1 DEF DBRead
    <3>2. CASE Event.access # "BARE" /\ Event.elem = "APPL"
      BY <1>1, <1>4, <2>2, <3>2 DEF DBRead
    <3>3. CASE Event.access # "BARE" /\ Event.elem # "APPL"
      <4>1. Request("read", Event.elem, "none", "Sys") \in RequestTypes
        BY <2>1, <3>3, NewRequests
      <4>. QED BY <1>1, <1>4, <3>3, <4>1 DEF DBRead
    <3>. QED BY <3>1, <3>2, <3>3
  <2>4. QueueTypes'
    BY <1>1, <1>4, <2>3 DEF DBRead, QueueTypes, env
  <2>5. MgrTypes'
    BY <1>1, <1>4, <2>3 DEF DBRead, MgrTypes, env, hist, CommandFits, Busy
  <2>. QED BY <2>4, <2>5 DEF TypesInv
<1>5. CASE AccessDone
  <2>1. Simple("DB_OP_DONE") \in EventTypes(n)
    BY <1>1, NewEvents DEF EventTypes
  <2>2. err' \in BOOLEAN /\ quiet' \in BOOLEAN
    <3>1. Event.sig \in Answers => Event.ok \in BOOLEAN
      BY <1>1, HeadTypes DEF AnswerEvents
    <3>. QED BY <1>1, <1>5, <3>1 DEF AccessDone, Takes, Answers, Usable, MgrTypes
  <2>3. /\ sysQ' \in Seq(EventTypes(n))
        /\ UNCHANGED <<deferred, st, cmd, elem, sysArmed, dbArmed, current, eeprom, i2cQ,
                       hist, env>>
    BY <1>1, <1>5, <2>1 DEF AccessDone
  <2>4. QueueTypes'
    BY <1>1, <2>3 DEF QueueTypes, env
  <2>5. MgrTypes'
    BY <1>1, <2>2, <2>3 DEF MgrTypes, env, hist, CommandFits, Busy
  <2>. QED BY <2>4, <2>5 DEF TypesInv
<1>. QED BY <1>2, <1>3, <1>4, <1>5

LEMMA EndStepTypes ==
    ASSUME TypesInv, BusyTimesOut \/ OpDone \/ CheckMatches \/ CheckMismatches
    PROVE  TypesInv'
<1>. DEFINE n == asks
<1>1. /\ sysQ # <<>> /\ Event \in EventTypes(n) /\ n \in Nat
      /\ Rest \in Seq(EventTypes(n)) /\ i2cQ \in Seq(RequestTypes)
      /\ \A e \in EventTypes(n) : Append(Rest, e) \in Seq(EventTypes(n))
      /\ \A r \in RequestTypes : Append(i2cQ, r) \in Seq(RequestTypes)
      /\ MgrTypes /\ QueueTypes
  BY Taken, RestTypes DEF BusyTimesOut, OpDone, CheckMatches, CheckMismatches, Takes, TypesInv
<1>2. CASE BusyTimesOut \/ OpDone
  <2>1. GoIdle(err, data) /\ quiet' = quiet
    BY <1>2 DEF BusyTimesOut, OpDone
  <2>2. err \in BOOLEAN /\ quiet \in BOOLEAN
    BY <1>1 DEF MgrTypes
  <2>. QED BY <1>1, <2>1, <2>2, IdleTypes
<1>3. CASE CheckMatches
  <2>1. GoIdle(FALSE, data) /\ quiet' \in BOOLEAN
    BY <1>1, <1>3 DEF CheckMatches, MgrTypes
  <2>. QED BY <1>1, <2>1, IdleTypes
<1>4. CASE CheckMismatches
  <2>1. /\ st = "DBCheckAndSetElem" /\ quiet' \in BOOLEAN
        /\ UNCHANGED <<deferred, st, cmd, elem, data, sysArmed, dbArmed, current, eeprom,
                       hist, env>>
    BY <1>1, <1>4 DEF CheckMismatches, MgrTypes
  <2>2. elem \in Elems /\ Default(build) \in [Elems -> Values]
    BY <1>1, <2>1, DefaultTypes DEF MgrTypes, CommandFits
  <2>3. Simple("DB_OP_DONE") \in EventTypes(n)
    BY <1>1, NewEvents DEF EventTypes
  <2>4. /\ Request("write", elem, Default(build)[elem], "Sys") \in RequestTypes
        /\ Request("reset", "MAGIC", "none", "Sys") \in RequestTypes
    BY <2>2, NewRequests
  <2>5. sysQ' \in Seq(EventTypes(n)) /\ i2cQ' \in Seq(RequestTypes) /\ err' \in BOOLEAN
    <3>1. CASE Usable(Event) /\ NeedsReset
      BY <1>1, <1>4, <2>4, <3>1 DEF CheckMismatches, NeedsReset
    <3>2. CASE ~ (Usable(Event) /\ NeedsReset) /\ Usable(Event) /\ elem = "DBG"
      BY <1>1, <1>4, <2>3, <3>2 DEF CheckMismatches
    <3>3. CASE ~ (Usable(Event) /\ NeedsReset) /\ ~ (Usable(Event) /\ elem = "DBG")
      BY <1>1, <1>4, <2>4, <3>3 DEF CheckMismatches, InitToDefault
    <3>. QED BY <3>1, <3>2, <3>3
  <2>6. QueueTypes'
    BY <1>1, <2>1, <2>5 DEF QueueTypes, env
  <2>7. MgrTypes'
    BY <1>1, <2>1, <2>5 DEF MgrTypes, env, hist, CommandFits, Busy
  <2>. QED BY <2>6, <2>7 DEF TypesInv
<1>. QED BY <1>2, <1>3, <1>4

LEMMA PublishTypes ==
    ASSUME TypesInv, i2cQ # <<>>, NEW ok \in BOOLEAN, Publish(Head(i2cQ), ok),
           eeprom' \in [Elems -> Values], quiet' \in BOOLEAN,
           mishaps' \in Nat, mishaps' <= MaxMishaps
    PROVE  TypesInv'
<1>. DEFINE r == Head(i2cQ)
            e == Answer(Sig(r), ok, r.elem, Read(r), r.by)
<1>1. r \in RequestTypes /\ Tail(i2cQ) \in Seq(RequestTypes)
  BY TailHeld DEF TypesInv, QueueTypes
<1>2. e \in EventTypes(asks)
  <2>1. e \in AnswerEvents
    BY <1>1, AnswerTypes DEF TypesInv, MgrTypes
  <2>. QED BY <2>1 DEF EventTypes
<1>3. /\ sysQ' = Append(sysQ, e) /\ i2cQ' = Tail(i2cQ)
      /\ UNCHANGED <<build, deferred, mgr, asks, hist, resetAsked>>
  BY DEF Publish
<1>. HIDE DEF e, r
<1>4. QueueTypes'
  <2>1. Append(sysQ, e) \in Seq(EventTypes(asks))
    BY <1>2, AppendProperties DEF TypesInv, QueueTypes
  <2>. QED BY <1>1, <1>3, <2>1 DEF QueueTypes, TypesInv
<1>5. MgrTypes'
  BY <1>3 DEF MgrTypes, TypesInv, mgr, hist, CommandFits, Busy
<1>. QED BY <1>4, <1>5 DEF TypesInv

LEMMA OutsideTypes ==
    ASSUME TypesInv, TimersExpire \/ I2CServes \/ I2CFails
    PROVE  TypesInv'
<1>1. QueueTypes /\ MgrTypes /\ asks \in Nat /\ sysQ \in Seq(EventTypes(asks))
  BY DEF TypesInv, QueueTypes
<1>2. CASE TimersExpire
  <2>1. /\ Simple("SYS_MGR_TIMEOUT") \in EventTypes(asks)
        /\ Simple("DB_ACCESS_TIMEOUT") \in EventTypes(asks)
    BY <1>1, NewEvents DEF EventTypes
  <2>2. \A a, b \in EventTypes(asks) :
           Append(sysQ, a) \in Seq(EventTypes(asks))
           /\ sysQ \o <<a, b>> \in Seq(EventTypes(asks))
    <3>1. ASSUME NEW a \in EventTypes(asks), NEW b \in EventTypes(asks)
          PROVE  sysQ \o <<a, b>> \in Seq(EventTypes(asks))
      <4>1. <<a, b>> \in Seq(EventTypes(asks))
        OBVIOUS
      <4>. QED BY <1>1, <4>1, ConcatProperties
    <3>. QED BY <1>1, <3>1, AppendProperties
  <2>3. sysQ' \in Seq(EventTypes(asks))
    BY <1>2, <2>1, <2>2 DEF TimersExpire
  <2>4. mishaps' \in Nat /\ mishaps' <= MaxMishaps
    <3>1. mishaps' = mishaps \/ (mishaps < MaxMishaps /\ mishaps' = mishaps + 1)
      BY <1>2 DEF TimersExpire
    <3>2. mishaps \in Nat /\ mishaps <= MaxMishaps
      BY <1>1 DEF MgrTypes
    <3>. QED BY <3>1, <3>2, SysDBAssumption
  <2>5. QueueTypes'
    BY <1>1, <1>2, <2>3 DEF QueueTypes, TimersExpire
  <2>6. MgrTypes'
    <3>1. (sysArmed' \in BOOLEAN /\ dbArmed' \in BOOLEAN)
          /\ (sysArmed' => dbArmed') /\ (dbArmed' => dbArmed)
      <4>1. sysArmed \in BOOLEAN /\ dbArmed \in BOOLEAN /\ (sysArmed => dbArmed)
        BY <1>1 DEF MgrTypes
      <4>2. \/ dbArmed /\ sysArmed' = FALSE /\ dbArmed' = FALSE
            \/ dbArmed /\ sysArmed' = FALSE /\ dbArmed' = dbArmed
            \/ ~ sysArmed /\ dbArmed' = FALSE /\ sysArmed' = sysArmed
        BY <1>2, Zenon DEF TimersExpire
      <4>3. CASE dbArmed /\ sysArmed' = FALSE /\ dbArmed' = FALSE
        BY <4>3, Zenon
      <4>4. CASE dbArmed /\ sysArmed' = FALSE /\ dbArmed' = dbArmed
        BY <4>1, <4>4, Zenon
      <4>5. CASE ~ sysArmed /\ dbArmed' = FALSE /\ sysArmed' = sysArmed
        BY <4>1, <4>5, Zenon
      <4>. QED BY <4>2, <4>3, <4>4, <4>5
    <3>2. UNCHANGED <<build, eeprom, deferred, st, cmd, elem, err, data, i2cQ, asks, current,
                      hist, resetAsked>> /\ quiet' = FALSE
      BY <1>2 DEF TimersExpire
    <3>. QED BY <1>1, <2>4, <3>1, <3>2 DEF MgrTypes, hist, CommandFits, Busy
  <2>. QED BY <2>5, <2>6 DEF TypesInv
<1>3. CASE I2CServes \/ I2CFails
  <2>1. i2cQ # <<>> /\ Head(i2cQ) \in RequestTypes
    BY <1>1, <1>3, TailHeld DEF I2CServes, I2CFails, QueueTypes
  <2>2. PICK ok \in BOOLEAN : Publish(Head(i2cQ), ok)
    BY <1>3 DEF I2CServes, I2CFails
  <2>3. eeprom' \in [Elems -> Values]
    <3>1. /\ Programmed(Head(i2cQ)) \in [Elems -> Values]
          /\ Spoiled(Head(i2cQ)) \subseteq [Elems -> Values]
      BY <1>1, <2>1, ServedTypes DEF MgrTypes
    <3>. QED BY <1>3, <3>1 DEF I2CServes, I2CFails
  <2>4. mishaps' \in Nat /\ mishaps' <= MaxMishaps
    <3>1. mishaps' = mishaps \/ (mishaps < MaxMishaps /\ mishaps' = mishaps + 1)
      BY <1>3 DEF I2CServes, I2CFails
    <3>2. mishaps \in Nat /\ mishaps <= MaxMishaps
      BY <1>1 DEF MgrTypes
    <3>. QED BY <3>1, <3>2, SysDBAssumption
  <2>5. quiet' \in BOOLEAN
    BY <1>1, <1>3 DEF I2CServes, I2CFails, MgrTypes
  <2>. QED BY <2>1, <2>2, <2>3, <2>4, <2>5, PublishTypes
<1>. QED BY <1>2, <1>3

LEMMA CommTypes ==
    ASSUME TypesInv, CommAsks
    PROVE  TypesInv'
<1>. DEFINE n == asks
<1>1. /\ QueueTypes /\ MgrTypes /\ n \in Nat /\ n < MaxAsks /\ asks' = n + 1
      /\ UNCHANGED <<build, eeprom, deferred, mgr, mishaps, replied, reply, quiet>>
      /\ n + 1 \in Nat /\ 1 .. n \subseteq 1 .. n + 1 /\ n + 1 \in 1 .. n + 1
  BY DEF TypesInv, QueueTypes, CommAsks
<1>2. /\ sysQ \in Seq(EventTypes(n + 1)) /\ deferred \in Seq(WaitingTypes(n + 1))
      /\ i2cQ \in Seq(RequestTypes) /\ Len(deferred) <= DeferMax
  <2>1. /\ EventTypes(n) \subseteq EventTypes(n + 1)
        /\ WaitingTypes(n) \subseteq WaitingTypes(n + 1)
    BY <1>1, EventsGrow
  <2>2. sysQ \in Seq(EventTypes(n)) /\ deferred \in Seq(WaitingTypes(n))
    BY <1>1 DEF QueueTypes
  <2>3. i2cQ \in Seq(RequestTypes) /\ Len(deferred) <= DeferMax
    BY <1>1 DEF QueueTypes
  <2>. QED BY <2>1, <2>2, <2>3, SeqGrows
<1>3. sysQ' \in Seq(EventTypes(n + 1)) /\ i2cQ' \in Seq(RequestTypes)
      /\ resetAsked' \in BOOLEAN
  <2>1. \A e \in ReadElems, a \in {"QPC", "BARE"} : Get(e, a, n + 1) \in EventTypes(n + 1)
    BY <1>1, NewEvents DEF EventTypes
  <2>2. FullReset(n + 1) \in EventTypes(n + 1)
    BY <1>1, NewEvents DEF EventTypes
  <2>3. /\ \A v \in {"short", "long"} : Request("raw", "RAW", v, "Comm") \in RequestTypes
        /\ \A f \in RawWrites : Request("rawwrite", "RAW", f, "Comm") \in RequestTypes
    BY NewRequests
  <2>4. /\ \A e \in EventTypes(n + 1) : Append(sysQ, e) \in Seq(EventTypes(n + 1))
        /\ \A r \in RequestTypes : Append(i2cQ, r) \in Seq(RequestTypes)
    BY <1>2, AppendProperties
  <2>5. resetAsked \in BOOLEAN
    BY <1>1 DEF MgrTypes
  <2>6. \/ /\ \E e \in ReadElems, a \in {"QPC", "BARE"} : sysQ' = Append(sysQ, Get(e, a, n + 1))
           /\ UNCHANGED <<i2cQ, resetAsked>>
        \/ sysQ' = Append(sysQ, FullReset(n + 1)) /\ resetAsked' = TRUE /\ UNCHANGED i2cQ
        \/ /\ \/ \E v \in {"short", "long"} :
                    i2cQ' = Append(i2cQ, Request("raw", "RAW", v, "Comm"))
              \/ \E f \in RawWrites :
                    i2cQ' = Append(i2cQ, Request("rawwrite", "RAW", f, "Comm"))
           /\ UNCHANGED <<sysQ, resetAsked>>
    BY DEF CommAsks, ReadElems
  <2>. QED BY <1>2, <2>1, <2>2, <2>3, <2>4, <2>5, <2>6
<1>4. QueueTypes'
  <2>1. asks' \in Nat /\ asks' <= MaxAsks
    BY <1>1, SysDBAssumption
  <2>. QED BY <1>1, <1>2, <1>3, <2>1 DEF QueueTypes
<1>5. MgrTypes'
  BY <1>1, <1>3 DEF MgrTypes, mgr, CommandFits, Busy
<1>. QED BY <1>4, <1>5 DEF TypesInv

LEMMA RestartTypes ==
    ASSUME TypesInv, Restart
    PROVE  TypesInv'
<1>1. QueueTypes /\ MgrTypes /\ asks \in Nat /\ asks' = asks
  BY DEF TypesInv, QueueTypes, Restart
<1>2. QueueTypes'
  <2>1. StartQueue(build') \in Seq(CheckEvents)
    BY StartTypes DEF Restart
  <2>2. CheckEvents \subseteq EventTypes(asks)
    BY DEF EventTypes
  <2>3. sysQ' \in Seq(EventTypes(asks))
    BY <2>1, <2>2, SeqGrows DEF Restart
  <2>4. deferred' = <<>> /\ i2cQ' = <<>>
    BY DEF Restart
  <2>5. deferred' \in Seq(WaitingTypes(asks)) /\ i2cQ' \in Seq(RequestTypes)
        /\ Len(deferred') <= DeferMax
    BY <2>4, SysDBAssumption
  <2>. QED BY <1>1, <2>3, <2>5 DEF QueueTypes
<1>3. MgrTypes'
  <2>1. eeprom' \in [Elems -> Values]
    <3>1. CASE i2cQ = <<>>
      BY <1>1, <3>1 DEF Restart, MgrTypes
    <3>2. CASE i2cQ # <<>>
      <4>1. Interrupted(Head(i2cQ)) \subseteq [Elems -> Values]
        BY <1>1, <3>2, TailHeld, ServedTypes DEF QueueTypes, MgrTypes
      <4>. QED BY <3>2, <4>1 DEF Restart
    <3>. QED BY <3>1, <3>2
  <2>2. mishaps' \in Nat /\ mishaps' <= MaxMishaps
    BY <1>1, SysDBAssumption DEF Restart, MgrTypes
  <2>3. replied' \subseteq 1 .. asks
    BY <1>1 DEF Restart, MgrTypes
  <2>. QED BY <1>1, <2>1, <2>2, <2>3 DEF Restart, MgrTypes, CommandFits, Busy
<1>. QED BY <1>2, <1>3 DEF TypesInv

LEMMA TypesNext ==
    ASSUME TypesInv, [SysDBNext]_vars
    PROVE  TypesInv'
<1>1. CASE Handler
  BY <1>1, IdleStepTypes, BusyStepTypes, EndStepTypes DEF Handler
<1>2. CASE TimersExpire \/ I2CServes \/ I2CFails
  BY <1>2, OutsideTypes
<1>3. CASE CommAsks
  BY <1>3, CommTypes
<1>4. CASE Restart
  BY <1>4, RestartTypes
<1>5. CASE UNCHANGED vars
  BY <1>5 DEF vars, TypesInv, QueueTypes, MgrTypes, CommandFits, Busy
<1>. QED BY <1>1, <1>2, <1>3, <1>4, <1>5 DEF SysDBNext

\* What the history keeps of the EEPROM has its type, too.
LEMMA SeenNext ==
    ASSUME TypesInv, SeenTypes, [SysDBNext]_vars
    PROVE  SeenTypes'
<1>1. eeprom \in [Elems -> Values] /\ eeprom' \in [Elems -> Values]
  <2>1. MgrTypes /\ MgrTypes'
    BY TypesNext DEF TypesInv
  <2>. QED BY <2>1 DEF MgrTypes
<1>2. held' \in {held, {}, {eeprom}, held \cup {eeprom'}}
  BY DEF SysDBNext, Handler, IdleGet, IdleFullReset, IdleCheck, IdleDrops, BusyDefers,
         BusyIgnoresReset, BusyTimesOut, OpDone, DBRead, AccessDone, CheckMatches,
         CheckMismatches, GoIdle, GoBusy, TimersExpire, I2CServes, I2CFails, Publish, Sees,
         CommAsks, Restart, seen, vars
<1>3. CASE I2CServes \/ I2CFails
  <2>1. i2cQ # <<>> /\ Head(i2cQ) \in RequestTypes /\ Touches(Head(i2cQ))
    BY <1>3, TailHeld DEF I2CServes, I2CFails, Publish, TypesInv, QueueTypes
  <2>2. PICK r \in RequestTypes : Touches(r)
    BY <2>1
  <2>3. r.op = "rawwrite" => DOMAIN r.value \subseteq Elems
    BY SysDBAssumption DEF RequestTypes
  <2>4. touched' \subseteq Elems
    BY <2>2, <2>3 DEF Touches, SeenTypes
  <2>. QED BY <1>1, <1>2, <2>4 DEF SeenTypes
<1>4. CASE ~ (I2CServes \/ I2CFails)
  <2>1. touched' \in {touched, {}}
    BY <1>4 DEF SysDBNext, Handler, IdleGet, IdleFullReset, IdleCheck, IdleDrops, BusyDefers,
           BusyIgnoresReset, BusyTimesOut, OpDone, DBRead, AccessDone, CheckMatches,
           CheckMismatches, GoIdle, GoBusy, TimersExpire, CommAsks, Restart, seen, vars
  <2>. QED BY <1>1, <1>2, <2>1 DEF SeenTypes
<1>. QED BY <1>3, <1>4

LEMMA TypesInvariant == SysDBSpec => [](TypesInv /\ SeenTypes)
<1>1. TypesInv /\ SeenTypes /\ [SysDBNext]_vars => (TypesInv /\ SeenTypes)'
  BY TypesNext, SeenNext
<1>2. SysDBInit => SeenTypes
  BY DEF SysDBInit, SeenTypes
<1>. QED BY <1>1, <1>2, TypesInit, PTL DEF SysDBSpec

LEMMA EventsAreTyped ==
    ASSUME asks \in Nat
    PROVE  /\ EventTypes(asks) \subseteq Events
           /\ WaitingTypes(asks) \subseteq {e \in Events : e.sig \in Waiting}
<1>1. GetEvents(asks) \subseteq {e \in Events : e.sig \in Waiting}
  <2>1. SUFFICES ASSUME NEW e \in GetEvents(asks)
                 PROVE  e \in Events /\ e.sig = "DB_GET_ELEM"
    BY DEF Waiting
  <2>2. e = Get(e.elem, e.access, e.ask)
    BY DEF GetEvents, Get
  <2>3. e.elem \in {"IP", "APPL"} /\ e.access \in {"QPC", "BARE"} /\ e.ask \in Asked
    BY DEF GetEvents, ReadElems, Asked
  <2>4. e \in Events
    BY <2>2, <2>3 DEF Events
  <2>. QED BY <2>4 DEF GetEvents
<1>2. CheckEvents \subseteq {e \in Events : e.sig \in Waiting}
  <2>1. SUFFICES ASSUME NEW e \in CheckEvents
                 PROVE  e \in Events /\ e.sig = "DB_INTRNL_CHK_ELEM"
    BY DEF Waiting
  <2>2. e = Check(e.elem) /\ e.elem \in Elems /\ e.sig = "DB_INTRNL_CHK_ELEM"
    BY DEF CheckEvents, Check
  <2>. QED BY <2>2 DEF Events
<1>3. ReadEvents(asks) \subseteq Events
  <2>1. SUFFICES ASSUME NEW e \in ReadEvents(asks) PROVE e \in Events
    OBVIOUS
  <2>2. e = [Get(e.elem, e.access, e.ask) EXCEPT !.sig = "DB_READ"]
    BY DEF ReadEvents, Get
  <2>3. e.elem \in {"IP", "APPL"} /\ e.access \in {"QPC", "BARE"} /\ e.ask \in Asked
    BY DEF ReadEvents, ReadElems, Asked
  <2>. QED BY <2>2, <2>3 DEF Events
<1>4. ResetEvents(asks) \subseteq Events
  <2>1. SUFFICES ASSUME NEW e \in ResetEvents(asks) PROVE e \in Events
    OBVIOUS
  <2>2. e = FullReset(e.ask) /\ e.ask \in Asked
    BY DEF ResetEvents, FullReset, Asked
  <2>. QED BY <2>2 DEF Events
<1>5. StepEvents \cup TimeoutEvents \subseteq Events
  <2>1. SUFFICES ASSUME NEW e \in StepEvents \cup TimeoutEvents PROVE e \in Events
    OBVIOUS
  <2>2. e = Simple(e.sig) /\ e.sig \in Timeouts \cup {"DB_OP_DONE", "DB_FLASH_READ_DONE"}
    BY DEF StepEvents, TimeoutEvents, Simple
  <2>. QED BY <2>2 DEF Events
<1>6. AnswerEvents \subseteq Events
  BY DEF AnswerEvents, Events, Answers, Texts
<1>. QED BY <1>1, <1>2, <1>3, <1>4, <1>5, <1>6 DEF EventTypes, WaitingTypes

\* Every variable of SysMgr and of the database has its type; only what Busy
\* defers is in the deferral queue, and the timers run in the busy states only.
THEOREM SysTypeCorrect == SysDBSpec => []SysTypeOK
<1>1. TypesInv /\ SeenTypes => SysTypeOK
  <2>. SUFFICES ASSUME TypesInv, SeenTypes PROVE SysTypeOK
    OBVIOUS
  <2>1. sysQ \in Seq(Events) /\ deferred \in Seq({e \in Events : e.sig \in Waiting})
    BY EventsAreTyped, SeqGrows DEF TypesInv, QueueTypes
  <2>2. Busy = (cmd # "NONE")
    BY DEF TypesInv, MgrTypes, CommandFits, Busy
  <2>. QED BY <2>1, <2>2
             DEF TypesInv, QueueTypes, MgrTypes, SeenTypes, CommandFits, SysTypeOK, Asked
<1>. QED BY <1>1, TypesInvariant, PTL

-----------------------------------------------------------------------------
(* One step of the exchange at a time *)

LEMMA OwnBySig ==
    ASSUME NEW n \in Nat, NEW e \in EventTypes(n)
    PROVE  /\ e.sig \in {"DB_READ", "DB_OP_DONE", "DB_FLASH_READ_DONE"} => e \in OwnEvents
           /\ e.sig \in Answers /\ e.by = "Sys" => e \in OwnEvents
           /\ e.sig \in Answers /\ e.by # "Sys" => e \notin OwnEvents
           /\ e.sig \in Waiting \cup {"DB_FULL_RESET"} => e \notin OwnEvents
           /\ e.sig \in Timeouts <=> e \in TimeoutEvents
           /\ e \in OwnEvents => e \notin TimeoutEvents
<1>1. e.sig = "DB_READ" => e \in OwnReads
  BY HeadTypes DEF ReadEvents, OwnReads
<1>2. e.sig \in {"DB_OP_DONE", "DB_FLASH_READ_DONE"} => e \in StepEvents
  BY HeadTypes
<1>3. e.sig \in Answers => e \in AnswerEvents
  BY HeadTypes
<1>4. e \in AnswerEvents /\ e.by = "Sys" => e \in OwnAnswers
  BY DEF AnswerEvents, OwnAnswers
<1>5. e \in OwnEvents =>
         \/ e.sig \in {"DB_READ", "DB_OP_DONE", "DB_FLASH_READ_DONE"}
         \/ e.sig \in Answers /\ e.by = "Sys"
  BY DEF OwnEvents, OwnReads, StepEvents, OwnAnswers
<1>6. e.sig \in Timeouts <=> e \in TimeoutEvents
  BY HeadTypes DEF TimeoutEvents
<1>7. e \in OwnEvents => e.sig \notin Timeouts
  BY <1>5 DEF Timeouts, Answers
<1>8. e.sig \in Waiting \cup {"DB_FULL_RESET"} => e \notin OwnEvents
  BY <1>5 DEF Waiting, Answers
<1>9. e.sig \in Answers /\ e.by # "Sys" => e \notin OwnEvents
  BY <1>5 DEF Answers
<1>. QED BY <1>1, <1>2, <1>3, <1>4, <1>6, <1>7, <1>8, <1>9 DEF OwnEvents

\* The event SysMgr takes is the only thing left of the request.
LEMMA OneOwn ==
    ASSUME TypesInv, OneAtATime, sysQ # <<>>, Event \in OwnEvents
    PROVE  None(Rest, OwnEvents) /\ None(i2cQ, OwnRequests)
<1>1. sysQ \in Seq(EventTypes(asks))
  BY DEF TypesInv, QueueTypes
<1>2. /\ None(sysQ, OwnEvents) => Event \notin OwnEvents
      /\ Single(sysQ, OwnEvents) /\ Event \in OwnEvents => None(Rest, OwnEvents)
  BY <1>1, TailHeld DEF Event, Rest
<1>. QED BY <1>2 DEF OneAtATime

LEMMA NoneHeld ==
    ASSUME NEW q, NEW P
    PROVE  None(q, P) <=> \A e \in Held(q) : e \notin P
BY DEF None, Held, Positions

\* How the invariant is restored: nothing of the request is left ...
LEMMA FlowSettled ==
    ASSUME None(sysQ', TimeoutEvents), None(sysQ', OwnEvents), None(i2cQ', OwnRequests)
    PROVE  FlowInv'
<1>1. /\ \A e \in Held(sysQ') : e \notin OwnEvents
      /\ \A r \in Held(i2cQ') : r \notin OwnRequests
  BY NoneHeld
<1>2. Single(sysQ', OwnEvents) /\ Single(i2cQ', OwnRequests)
  BY DEF None, Single
<1>. QED BY <1>1, <1>2 DEF FlowInv, OneAtATime

\* ... an event takes it on ...
LEMMA FlowEvent ==
    ASSUME NEW S, NEW q \in Seq(S), NEW e \in S, sysQ' = Append(q, e),
           None(q, TimeoutEvents), None(q, OwnEvents), None(i2cQ', OwnRequests),
           e \in OwnEvents, e \notin TimeoutEvents, Busy', Fits(e)'
    PROVE  FlowInv'
<1>1. /\ Held(sysQ') = Held(q) \cup {e}
      /\ None(sysQ', TimeoutEvents) /\ Single(sysQ', OwnEvents)
  BY AppendHeld
<1>2. /\ \A x \in Held(q) : x \notin OwnEvents
      /\ \A r \in Held(i2cQ') : r \notin OwnRequests
  BY NoneHeld
<1>3. Single(i2cQ', OwnRequests)
  BY DEF None, Single
<1>4. \A x \in Held(sysQ') : x \in OwnEvents => Fits(x)'
  BY <1>1, <1>2
<1>. QED BY <1>1, <1>2, <1>3, <1>4 DEF FlowInv, OneAtATime

\* ... or a request to I2C1DevMgr does ...
LEMMA FlowRequest ==
    ASSUME NEW r, r \in OwnRequests, i2cQ \in Seq(RequestTypes), i2cQ' = Append(i2cQ, r),
           None(i2cQ, OwnRequests), None(sysQ', TimeoutEvents), None(sysQ', OwnEvents),
           Busy', Due(r)'
    PROVE  FlowInv'
<1>1. r \in RequestTypes
  BY DEF OwnRequests
<1>2. Held(i2cQ') = Held(i2cQ) \cup {r} /\ Single(i2cQ', OwnRequests)
  BY <1>1, AppendHeld
<1>3. /\ \A e \in Held(sysQ') : e \notin OwnEvents
      /\ \A x \in Held(i2cQ) : x \notin OwnRequests
  BY NoneHeld
<1>4. Single(sysQ', OwnEvents)
  BY DEF None, Single
<1>5. \A x \in Held(i2cQ') : x \in OwnRequests => Due(x)'
  BY <1>2, <1>3
<1>. QED BY <1>2, <1>3, <1>4, <1>5 DEF FlowInv, OneAtATime

\* ... or the step is not about it.
LEMMA FlowSame ==
    ASSUME FlowInv, quiet' => quiet,
           None(sysQ, TimeoutEvents) => None(sysQ', TimeoutEvents),
           Single(sysQ, OwnEvents) => Single(sysQ', OwnEvents),
           None(sysQ, OwnEvents) => None(sysQ', OwnEvents),
           Single(i2cQ, OwnRequests) => Single(i2cQ', OwnRequests),
           None(i2cQ, OwnRequests) => None(i2cQ', OwnRequests),
           \A e \in Held(sysQ') : e \in OwnEvents => e \in Held(sysQ),
           \A r \in Held(i2cQ') : r \in OwnRequests => r \in Held(i2cQ),
           UNCHANGED <<st, cmd, elem, err, data, build>>, TypesInv,
           \A e \in Elems : eeprom'[e] = eeprom[e] \/ e \in touched',
           held \subseteq held', touched \subseteq touched',
           resetAsked => resetAsked'
    PROVE  FlowInv'
<1>1. SUFFICES ASSUME quiet, quiet'
               PROVE  FlowInv'
  BY DEF FlowInv
<1>2. OneAtATime'
  BY <1>1 DEF FlowInv, OneAtATime, Busy
<1>3. ASSUME NEW e, Fits(e) PROVE Fits(e)'
  <2>1. \A v : Seen(v) => Seen(v)'
    BY DEF Seen
  <2>2. cmd = "INTERNAL" => elem \in Elems
    BY DEF TypesInv, MgrTypes
  <2>3. cmd = "INTERNAL" /\ Repaired => Repaired'
    BY <2>2 DEF Repaired
  <2>4. DataIsRight => DataIsRight'
    BY <2>1 DEF DataIsRight
  <2>5. Default(build) \in held => (Default(build) \in held)'
    BY DEF Default
  <2>. QED BY <1>3, <2>1, <2>3, <2>4, <2>5 DEF Fits
<1>4. \A r \in Held(i2cQ) : Due(r) => Due(r)'
  BY DEF Due
<1>5. None(sysQ', TimeoutEvents)
  BY <1>1 DEF FlowInv
<1>6. \A e \in Held(sysQ') : e \in OwnEvents => Fits(e)'
  BY <1>1, <1>3 DEF FlowInv
<1>7. \A r \in Held(i2cQ') : r \in OwnRequests => Due(r)'
  BY <1>1, <1>4 DEF FlowInv
<1>. QED BY <1>2, <1>5, <1>6, <1>7 DEF FlowInv

LEMMA RestHeld ==
    ASSUME TypesInv, sysQ # <<>>, NEW P
    PROVE  /\ Held(Rest) \subseteq Held(sysQ)
           /\ None(sysQ, P) => None(Rest, P) /\ Event \notin P
           /\ Single(sysQ, P) => Single(Rest, P)
BY TailHeld DEF TypesInv, QueueTypes, Event, Rest

LEMMA RecallHeld ==
    ASSUME TypesInv, sysQ # <<>>, Recall(Rest)
    PROVE  /\ None(Rest, OwnEvents) => None(sysQ', OwnEvents)
           /\ None(Rest, TimeoutEvents) => None(sysQ', TimeoutEvents)
           /\ Held(sysQ') \subseteq Held(Rest) \cup Held(deferred)
           /\ Held(deferred') \subseteq Held(deferred)
           /\ Held(Rest) \subseteq Held(sysQ')
           /\ Held(deferred) \subseteq Held(sysQ') \cup Held(deferred')
<1>1. CASE deferred = <<>>
  BY <1>1 DEF Recall
<1>2. CASE deferred # <<>>
  <2>. DEFINE d == Head(deferred)
  <2>1. /\ d \in WaitingTypes(asks) /\ d \in Held(deferred)
        /\ Held(Tail(deferred)) \subseteq Held(deferred)
        /\ \A e \in Held(deferred) : e = d \/ e \in Held(Tail(deferred))
    BY <1>2, TailHeld DEF TypesInv, QueueTypes
  <2>2. /\ d \in EventTypes(asks) /\ d \notin OwnEvents /\ d \notin TimeoutEvents
        /\ sysQ \in Seq(EventTypes(asks))
    <3>1. d \in EventTypes(asks) /\ asks \in Nat
      BY <2>1, EventsGrow DEF TypesInv, QueueTypes
    <3>2. d.sig \in Waiting
      BY <2>1 DEF WaitingTypes, GetEvents, CheckEvents, Waiting
    <3>3. d.sig \notin Timeouts
      BY <3>2 DEF Waiting, Timeouts
    <3>. QED BY <3>1, <3>2, <3>3, OwnBySig DEF TypesInv, QueueTypes
  <2>3. sysQ' = <<d>> \o Tail(sysQ) /\ deferred' = Tail(deferred)
    BY <1>2 DEF Recall, Rest
  <2>. HIDE DEF d
  <2>4. /\ Held(sysQ') = Held(Rest) \cup {d}
        /\ None(Rest, OwnEvents) => None(sysQ', OwnEvents)
        /\ None(Rest, TimeoutEvents) => None(sysQ', TimeoutEvents)
    BY <2>2, <2>3, FrontHeld DEF Rest
  <2>. QED BY <2>1, <2>3, <2>4
<1>. QED BY <1>1, <1>2

LEMMA FlowIdle ==
    ASSUME TypesInv, AskedInv, FlowInv, IdleGet \/ IdleFullReset \/ IdleCheck \/ IdleDrops
    PROVE  FlowInv'
<1>1. /\ sysQ # <<>> /\ ~ Busy /\ quiet' = quiet
      /\ i2cQ \in Seq(RequestTypes) /\ asks \in Nat
      /\ Event \in EventTypes(asks) /\ Rest \in Seq(EventTypes(asks)) /\ Event \in Held(sysQ)
  BY Taken DEF IdleGet, IdleFullReset, IdleCheck, IdleDrops, Takes, GoBusy, TypesInv, QueueTypes
<1>2. SUFFICES ASSUME quiet PROVE FlowInv'
  BY <1>1 DEF FlowInv
<1>3. None(sysQ, OwnEvents) /\ None(sysQ, TimeoutEvents) /\ None(i2cQ, OwnRequests)
  BY <1>1, <1>2 DEF FlowInv, OneAtATime
<1>4. None(Rest, OwnEvents) /\ None(Rest, TimeoutEvents)
  BY <1>1, <1>3, RestHeld
<1>5. CASE IdleGet
  <2>0. PICK e : e = [Event EXCEPT !.sig = "DB_READ"]
    OBVIOUS
  <2>1. Event \in GetEvents(asks)
    BY <1>1, <1>5, HeadTypes DEF IdleGet, Takes
  <2>2. e \in ReadEvents(asks) /\ e.sig = "DB_READ" /\ e.elem = Event.elem
    BY <1>1, <2>0, <2>1, NewEvents DEF GetEvents
  <2>3. e \in EventTypes(asks)
    BY <2>2 DEF EventTypes
  <2>4. sysQ' = Append(Rest, e) /\ i2cQ' = i2cQ
        /\ st' = "AccessingDB" /\ cmd' = "READ" /\ elem' = Event.elem
    BY <1>5, <2>0 DEF IdleGet, GoBusy
  <2>5. e \in OwnEvents /\ e \notin TimeoutEvents
    BY <1>1, <2>2, <2>3, OwnBySig
  <2>6. Busy' /\ Fits(e)'
    BY <2>2, <2>4 DEF Busy, Fits
  <2>7. None(i2cQ', OwnRequests)
    BY <1>3, <2>4
  <2>. QED BY <1>1, <1>4, <2>3, <2>4, <2>5, <2>6, <2>7, FlowEvent
<1>6. CASE IdleFullReset
  <2>. DEFINE r == Request("reset", "MAGIC", "none", "Sys")
  <2>1. r \in OwnRequests /\ r.op = "reset"
    BY NewRequests DEF OwnRequests, Request
  <2>2. sysQ' = Rest /\ i2cQ' = Append(i2cQ, r) /\ Event.sig = "DB_FULL_RESET"
        /\ st' = "DBFullReset" /\ cmd' = "WRITE" /\ resetAsked' = resetAsked
    BY <1>6 DEF IdleFullReset, GoBusy, env, Takes, InitToDefault
  <2>3. resetAsked
    BY <1>1, <2>2 DEF AskedInv
  <2>. HIDE DEF r
  <2>4. Busy' /\ Due(r)'
    BY <2>1, <2>2, <2>3 DEF Busy, Due
  <2>5. None(sysQ', TimeoutEvents) /\ None(sysQ', OwnEvents)
    BY <1>4, <2>2
  <2>. QED BY <1>1, <1>3, <2>1, <2>2, <2>4, <2>5, FlowRequest
<1>7. CASE IdleCheck
  <2>0. PICK r : r = Request("read", Event.elem, "none", "Sys")
    OBVIOUS
  <2>1. Event \in CheckEvents
    BY <1>1, <1>7, HeadTypes DEF IdleCheck, Takes
  <2>2. r \in OwnRequests /\ r.op = "read" /\ r.elem = Event.elem
    BY <2>0, <2>1, NewRequests DEF OwnRequests, Request, CheckEvents
  <2>3. sysQ' = Rest /\ i2cQ' = Append(i2cQ, r) /\ elem' = Event.elem
        /\ st' = "DBCheckAndSetElem" /\ cmd' = "INTERNAL"
    BY <1>7, <2>0 DEF IdleCheck, GoBusy
  <2>4. Busy' /\ Due(r)'
    BY <2>2, <2>3 DEF Busy, Due
  <2>5. None(sysQ', TimeoutEvents) /\ None(sysQ', OwnEvents)
    BY <1>4, <2>3
  <2>. QED BY <1>1, <1>3, <2>2, <2>3, <2>4, <2>5, FlowRequest
<1>8. CASE IdleDrops
  <2>1. sysQ' = Rest /\ i2cQ' = i2cQ
    BY <1>8 DEF IdleDrops
  <2>2. None(sysQ', TimeoutEvents) /\ None(sysQ', OwnEvents) /\ None(i2cQ', OwnRequests)
    BY <1>3, <1>4, <2>1
  <2>. QED BY <2>2, FlowSettled
<1>. QED BY <1>5, <1>6, <1>7, <1>8

\* An answer of I2C1DevMgr to SysMgr that went well can be used.
LEMMA OwnAnswer ==
    ASSUME TypesInv, FlowInv, quiet, Busy, sysQ # <<>>,
           Event.sig \in Answers, Event.by = "Sys"
    PROVE  /\ Event \in OwnEvents /\ Fits(Event)
           /\ Event.sig = "I2C1_DEV_READ_DONE" => Usable(Event)
<1>1. Event \in EventTypes(asks) /\ asks \in Nat /\ Event \in Held(sysQ)
  BY Taken DEF TypesInv
<1>2. Event \in OwnEvents
  BY <1>1, OwnBySig
<1>3. Fits(Event)
  BY <1>1, <1>2 DEF FlowInv
<1>4. Event.sig = "I2C1_DEV_READ_DONE" => Event.ok /\ Event.value \in Values
  BY <1>3 DEF Fits, TypesInv, MgrTypes
<1>. QED BY <1>2, <1>3, <1>4 DEF Usable, Values

LEMMA FlowBusy ==
    ASSUME TypesInv, FlowInv, BusyDefers \/ BusyIgnoresReset
    PROVE  FlowInv'
<1>1. /\ sysQ # <<>> /\ sysQ' = Rest
      /\ UNCHANGED <<mgr, eeprom, i2cQ, env, held, touched, quiet>>
  BY DEF BusyDefers, BusyIgnoresReset, Takes, seen
<1>2. /\ None(sysQ, TimeoutEvents) => None(sysQ', TimeoutEvents)
      /\ Single(sysQ, OwnEvents) => Single(sysQ', OwnEvents)
      /\ None(sysQ, OwnEvents) => None(sysQ', OwnEvents)
      /\ Held(sysQ') \subseteq Held(sysQ)
  BY <1>1, RestHeld
<1>. QED BY <1>1, <1>2, FlowSame DEF mgr, env

LEMMA FlowRead ==
    ASSUME TypesInv, FlowInv, DBRead
    PROVE  FlowInv'
<1>1. /\ sysQ # <<>> /\ Busy /\ Event.sig = "DB_READ"
      /\ UNCHANGED <<deferred, st, cmd, elem, data, sysArmed, dbArmed, current, eeprom,
                     hist, env, quiet>>
  BY DEF DBRead, Takes
<1>2. SUFFICES ASSUME quiet PROVE FlowInv'
  BY <1>1 DEF FlowInv
<1>3. /\ Event \in EventTypes(asks) /\ asks \in Nat /\ Event \in Held(sysQ)
      /\ Rest \in Seq(EventTypes(asks)) /\ i2cQ \in Seq(RequestTypes)
  BY <1>1, Taken DEF TypesInv, QueueTypes
<1>4. Event \in OwnEvents /\ cmd = "READ" /\ Event.elem = elem
  <2>1. Event \in OwnEvents
    BY <1>1, <1>3, OwnBySig
  <2>. QED BY <1>1, <1>2, <1>3, <2>1 DEF FlowInv, Fits
<1>5. None(Rest, OwnEvents) /\ None(Rest, TimeoutEvents) /\ None(i2cQ, OwnRequests)
  BY <1>1, <1>2, <1>4, OneOwn, RestHeld DEF FlowInv
<1>6. elem \in ReadElems /\ Busy'
  BY <1>1, <1>4 DEF TypesInv, MgrTypes, Busy
<1>7. CASE Event.access = "BARE"
  <2>1. sysQ' = Rest /\ i2cQ' = i2cQ
    BY <1>7 DEF DBRead
  <2>. QED BY <1>5, <2>1, FlowSettled
<1>8. CASE Event.access # "BARE" /\ Event.elem = "APPL"
  <2>. DEFINE e == Simple("DB_FLASH_READ_DONE")
  <2>1. sysQ' = Append(Rest, e) /\ i2cQ' = i2cQ
    BY <1>8 DEF DBRead
  <2>2. e \in EventTypes(asks) /\ e \in OwnEvents /\ e \notin TimeoutEvents
    <3>1. e \in EventTypes(asks) /\ e.sig = "DB_FLASH_READ_DONE"
      BY NewEvents, <1>3 DEF EventTypes, Simple
    <3>. QED BY <1>3, <3>1, OwnBySig
  <2>3. Fits(e)'
    BY <1>1, <1>4, <1>8 DEF Fits, Simple
  <2>. HIDE DEF e
  <2>4. None(i2cQ', OwnRequests)
    BY <1>5, <2>1
  <2>. QED BY <1>3, <1>5, <1>6, <2>1, <2>2, <2>3, <2>4, FlowEvent
<1>9. CASE Event.access # "BARE" /\ Event.elem # "APPL"
  <2>0. PICK r : r = Request("read", Event.elem, "none", "Sys")
    OBVIOUS
  <2>1. Event.elem \in Elems
    BY <1>4, <1>6, <1>9 DEF ReadElems, Elems
  <2>2. r \in OwnRequests /\ r.op = "read" /\ r.elem = elem
    BY <1>4, <2>0, <2>1, NewRequests DEF OwnRequests, Request
  <2>3. sysQ' = Rest /\ i2cQ' = Append(i2cQ, r)
    BY <1>9, <2>0 DEF DBRead
  <2>4. Due(r)'
    BY <1>1, <1>4, <2>2 DEF Due
  <2>5. None(sysQ', TimeoutEvents) /\ None(sysQ', OwnEvents)
    BY <1>5, <2>3
  <2>. QED BY <1>3, <1>5, <1>6, <2>2, <2>3, <2>4, <2>5, FlowRequest
<1>. QED BY <1>7, <1>8, <1>9

LEMMA FlowAccess ==
    ASSUME TypesInv, FlowInv, AccessDone
    PROVE  FlowInv'
<1>1. /\ sysQ # <<>> /\ Busy /\ sysQ' = Append(Rest, Simple("DB_OP_DONE"))
      /\ UNCHANGED <<deferred, st, cmd, elem, sysArmed, dbArmed, current, eeprom, i2cQ, hist,
                     env, held, touched>>
  BY DEF AccessDone, Takes, seen
<1>2. SUFFICES ASSUME quiet, quiet' PROVE FlowInv'
  BY DEF FlowInv, AccessDone
<1>3. /\ Event \in EventTypes(asks) /\ asks \in Nat /\ Event \in Held(sysQ)
      /\ Rest \in Seq(EventTypes(asks))
  BY <1>1, Taken DEF TypesInv
<1>4. Event \in OwnEvents /\ Fits(Event)
  <2>1. Event \in OwnEvents
    BY <1>1, <1>2, <1>3, OwnBySig DEF AccessDone, Takes, Answers
  <2>. QED BY <1>2, <1>3, <2>1 DEF FlowInv
<1>5. None(Rest, OwnEvents) /\ None(Rest, TimeoutEvents) /\ None(i2cQ, OwnRequests)
  BY <1>1, <1>2, <1>4, OneOwn, RestHeld DEF FlowInv
<1>. DEFINE e == Simple("DB_OP_DONE")
<1>6. e \in EventTypes(asks) /\ e \in OwnEvents /\ e \notin TimeoutEvents
  <2>1. e \in EventTypes(asks) /\ e.sig = "DB_OP_DONE"
    BY NewEvents, <1>3 DEF EventTypes, Simple
  <2>. QED BY <1>3, <2>1, OwnBySig
<1>7. /\ cmd = "READ" => err' \/ DataIsRight'
      /\ cmd = "WRITE" => Default(build) \in held
      /\ cmd = "INTERNAL" => Repaired
  <2>1. CASE Takes({"I2C1_DEV_READ_DONE"}) /\ st # "DBCheckAndSetElem"
    <3>1. Event.sig = "I2C1_DEV_READ_DONE"
      BY <2>1 DEF Takes
    <3>2. cmd = "READ"
      BY <1>4, <2>1, <3>1 DEF Fits, TypesInv, MgrTypes, CommandFits
    <3>3. Usable(Event) /\ Event.of = elem /\ Seen(Event.value) /\ elem \in Elems
      <4>1. Event.by = "Sys"
        BY <1>2, <3>1 DEF AccessDone, Takes
      <4>2. Usable(Event)
        BY <1>1, <1>2, <3>1, <4>1, OwnAnswer DEF Answers
      <4>. QED BY <1>4, <3>1, <4>2 DEF Fits
    <3>4. data' = [of |-> Event.of, value |-> Event.value]
      BY <3>1, <3>3 DEF AccessDone, Takes
    <3>5. DataIsRight'
      BY <1>1, <3>3, <3>4 DEF DataIsRight, Seen
    <3>. QED BY <3>2, <3>5
  <2>2. CASE Takes({"I2C1_DEV_WRITE_DONE"})
    BY <1>4, <2>2 DEF Fits, Takes
  <2>3. CASE Takes({"DB_FLASH_READ_DONE"})
    <3>1. cmd = "READ" /\ elem = "APPL"
      BY <1>4, <2>3 DEF Fits, Takes
    <3>2. data' = [of |-> "APPL", value |-> "dflt"]
      BY <2>3 DEF AccessDone, Takes
    <3>3. DataIsRight'
      BY <1>1, <3>1, <3>2 DEF DataIsRight, Elems
    <3>. QED BY <3>1, <3>3
  <2>. QED BY <2>1, <2>2, <2>3 DEF AccessDone
<1>8. Fits(e)'
  <2>1. Repaired => Repaired'
    BY <1>1 DEF Repaired, env
  <2>2. Default(build) \in held => (Default(build) \in held)'
    BY <1>1 DEF env
  <2>. QED BY <1>1, <1>7, <2>1, <2>2 DEF Fits, Simple
<1>. HIDE DEF e
<1>9. Busy' /\ None(i2cQ', OwnRequests) /\ sysQ' = Append(Rest, e)
  BY <1>1, <1>5 DEF Busy, e
<1>. QED BY <1>3, <1>5, <1>6, <1>8, <1>9, FlowEvent

\* The request is over.
LEMMA FlowEnd ==
    ASSUME TypesInv, FlowInv, BusyTimesOut \/ OpDone \/ CheckMatches
    PROVE  /\ FlowInv'
           /\ quiet' => OpDone \/ CheckMatches
           /\ quiet' /\ OpDone => Event \in OwnEvents /\ Fits(Event)
<1>1. /\ sysQ # <<>> /\ Recall(Rest) /\ i2cQ' = i2cQ /\ (quiet' => quiet) /\ Busy
      /\ Event \in EventTypes(asks) /\ asks \in Nat /\ Event \in Held(sysQ)
  <2>1. sysQ # <<>> /\ Busy
    BY DEF BusyTimesOut, OpDone, CheckMatches, Takes, Busy
  <2>2. GoIdle(err, data) \/ GoIdle(FALSE, data)
    BY DEF BusyTimesOut, OpDone, CheckMatches
  <2>4. quiet' => quiet
    BY Zenon DEF BusyTimesOut, OpDone, CheckMatches
  <2>3. Recall(Rest) /\ i2cQ' = i2cQ
    BY <2>2 DEF GoIdle
  <2>. QED BY <2>1, <2>3, <2>4, Taken DEF TypesInv
<1>2. CASE ~ quiet'
  BY <1>2 DEF FlowInv
<1>3. CASE quiet'
  <2>1. quiet /\ None(sysQ, TimeoutEvents) /\ OneAtATime
    BY <1>1, <1>3 DEF FlowInv
  <2>2. ~ BusyTimesOut
    <3>1. Event \notin TimeoutEvents
      BY <1>1, <2>1, RestHeld
    <3>. QED BY <1>1, <3>1, OwnBySig DEF BusyTimesOut, Takes
  <2>3. Event \in OwnEvents
    <3>1. CASE OpDone
      BY <1>1, <3>1, OwnBySig DEF OpDone, Takes
    <3>2. CASE CheckMatches
      BY <1>1, <1>3, <3>2, OwnBySig DEF CheckMatches, Takes, Answers
    <3>. QED BY <2>2, <3>1, <3>2
  <2>4. None(Rest, OwnEvents) /\ None(Rest, TimeoutEvents) /\ None(i2cQ, OwnRequests)
    BY <1>1, <2>1, <2>3, OneOwn, RestHeld
  <2>5. /\ None(sysQ', OwnEvents) /\ None(sysQ', TimeoutEvents)
        /\ None(i2cQ', OwnRequests)
    BY <1>1, <2>4, RecallHeld
  <2>6. FlowInv'
    BY <2>5, FlowSettled
  <2>7. Fits(Event)
    BY <1>1, <2>1, <2>3 DEF FlowInv
  <2>. QED BY <2>2, <2>3, <2>6, <2>7
<1>. QED BY <1>2, <1>3

\* What an undisturbed check that finds a mismatch does next.
LEMMA Mismatch ==
    ASSUME TypesInv, AskedInv, FlowInv, CheckMismatches, quiet'
    PROVE  /\ quiet /\ Event \in OwnEvents /\ cmd = "INTERNAL"
           /\ \E f \in held : f[elem] # Default(build)[elem]
           /\ \/ /\ elem \in {"VERSION", "BOOT"} /\ sysQ' = Rest
                 /\ i2cQ' = Append(i2cQ,
                              Request("write", elem, Default(build)[elem], "Sys"))
              \/ /\ elem = "DBG" /\ sysQ' = Append(Rest, Simple("DB_OP_DONE"))
                 /\ i2cQ' = i2cQ
              \/ /\ elem = "MAGIC" /\ sysQ' = Rest
                 /\ i2cQ' = Append(i2cQ, Request("reset", "MAGIC", "none", "Sys"))
<1>1. /\ sysQ # <<>> /\ Busy /\ quiet /\ Event.by = "Sys" /\ cmd = "INTERNAL"
      /\ Event.sig = "I2C1_DEV_READ_DONE"
  <2>1. st = "DBCheckAndSetElem" /\ Takes({"I2C1_DEV_READ_DONE"})
        /\ quiet /\ Event.by = "Sys"
    BY DEF CheckMismatches
  <2>2. CommandFits
    BY DEF TypesInv, MgrTypes
  <2>. QED BY <2>1, <2>2 DEF Takes, Busy, CommandFits
<1>2. Event \in OwnEvents /\ Fits(Event) /\ Usable(Event)
  BY <1>1, OwnAnswer DEF Answers
<1>3. Event.of = elem /\ Seen(Event.value)
  BY <1>1, <1>2 DEF Fits
<1>4. \E f \in held : f[elem] # Default(build)[elem]
  BY <1>2, <1>3 DEF CheckMismatches, Matches, Seen
<1>5. elem \in {"MAGIC", "VERSION", "BOOT", "DBG"}
  BY <1>1 DEF TypesInv, MgrTypes, AskedInv, Elems
<1>6. CASE elem \in {"VERSION", "BOOT"}
  BY <1>1, <1>2, <1>4, <1>6 DEF CheckMismatches, NeedsReset
<1>7. CASE elem = "DBG"
  BY <1>1, <1>2, <1>4, <1>7 DEF CheckMismatches, NeedsReset
<1>8. CASE elem = "MAGIC"
  BY <1>1, <1>2, <1>4, <1>8 DEF CheckMismatches, NeedsReset, InitToDefault
<1>. QED BY <1>5, <1>6, <1>7, <1>8

LEMMA FlowMismatch ==
    ASSUME TypesInv, AskedInv, FlowInv, CheckMismatches
    PROVE  FlowInv'
<1>1. SUFFICES ASSUME quiet' PROVE FlowInv'
  BY DEF FlowInv
<1>2. /\ sysQ # <<>>
      /\ UNCHANGED <<deferred, st, cmd, elem, data, sysArmed, dbArmed, current, eeprom, hist,
                     env, held, touched>>
      /\ Busy' /\ build \in {"Boot", "App"} /\ i2cQ \in Seq(RequestTypes)
      /\ Rest \in Seq(EventTypes(asks)) /\ asks \in Nat
  BY Taken DEF CheckMismatches, Takes, Busy, TypesInv, MgrTypes, QueueTypes, seen
<1>3. /\ quiet /\ Event \in OwnEvents /\ cmd = "INTERNAL"
      /\ \E f \in held : f[elem] # Default(build)[elem]
  BY <1>1, Mismatch
<1>4. None(Rest, OwnEvents) /\ None(Rest, TimeoutEvents) /\ None(i2cQ, OwnRequests)
  BY <1>2, <1>3, OneOwn, RestHeld DEF FlowInv
<1>5. elem \in Elems /\ Default(build) \in [Elems -> Values]
      /\ Default(build)["MAGIC"] = "dflt"
  BY <1>2, <1>3, DefaultTypes DEF TypesInv, MgrTypes
<1>6. CASE elem \in {"VERSION", "BOOT"} /\ sysQ' = Rest
           /\ i2cQ' = Append(i2cQ, Request("write", elem, Default(build)[elem], "Sys"))
  <2>0. PICK r : r = Request("write", elem, Default(build)[elem], "Sys")
    OBVIOUS
  <2>1. r \in OwnRequests /\ r.op = "write" /\ r.elem = elem /\ r.value = Default(build)[elem]
    BY <1>5, <2>0, NewRequests DEF OwnRequests, Request
  <2>2. Due(r)'
    BY <1>2, <1>3, <1>6, <2>1 DEF Due, env
  <2>3. None(sysQ', TimeoutEvents) /\ None(sysQ', OwnEvents) /\ i2cQ' = Append(i2cQ, r)
    BY <1>4, <1>6, <2>0
  <2>. QED BY <1>2, <1>4, <2>1, <2>2, <2>3, FlowRequest
<1>7. CASE elem = "DBG" /\ sysQ' = Append(Rest, Simple("DB_OP_DONE")) /\ i2cQ' = i2cQ
  <2>. DEFINE e == Simple("DB_OP_DONE")
  <2>1. e \in EventTypes(asks) /\ e \in OwnEvents /\ e \notin TimeoutEvents
    <3>1. e \in EventTypes(asks) /\ e.sig = "DB_OP_DONE"
      BY NewEvents, <1>2 DEF EventTypes, Simple
    <3>. QED BY <1>2, <3>1, OwnBySig
  <2>2. Fits(e)'
    BY <1>2, <1>3, <1>7 DEF Fits, Simple, Repaired
  <2>. HIDE DEF e
  <2>3. None(i2cQ', OwnRequests) /\ sysQ' = Append(Rest, e)
    BY <1>4, <1>7 DEF e
  <2>. QED BY <1>2, <1>4, <2>1, <2>2, <2>3, FlowEvent
<1>8. CASE elem = "MAGIC" /\ sysQ' = Rest
           /\ i2cQ' = Append(i2cQ, Request("reset", "MAGIC", "none", "Sys"))
  <2>. DEFINE r == Request("reset", "MAGIC", "none", "Sys")
  <2>1. r \in OwnRequests /\ r.op = "reset"
    BY NewRequests DEF OwnRequests, Request
  <2>2. i2cQ' = Append(i2cQ, r)
    BY <1>8
  <2>. HIDE DEF r
  <2>3. Due(r)'
    BY <1>2, <1>3, <1>5, <1>8, <2>1 DEF Due
  <2>4. None(sysQ', TimeoutEvents) /\ None(sysQ', OwnEvents)
    BY <1>4, <1>8
  <2>. QED BY <1>2, <1>4, <2>1, <2>2, <2>3, <2>4, FlowRequest
<1>. QED BY <1>1, <1>6, <1>7, <1>8, Mismatch

\* What the EEPROM holds after an undisturbed request of SysMgr.
LEMMA ServedDue ==
    ASSUME TypesInv, NEW r \in RequestTypes, Due(r), eeprom' = Programmed(r),
           UNCHANGED <<build, cmd, elem>>
    PROVE  /\ r.op \in {"read", "raw"} => eeprom' = eeprom
           /\ r.op = "reset" => eeprom' = Default(build)
           /\ r.op \in {"write", "reset"} /\ cmd = "INTERNAL" => Repaired'
           /\ r.op = "write" =>
                 eeprom' = [eeprom EXCEPT ![elem] = Default(build)[elem]]
<1>1. r.op \in {"read", "raw"} => eeprom' = eeprom
  BY DEF Programmed
<1>2. r.op = "reset" => eeprom' = Default(build)
  BY DEF Programmed
<1>3. r.op = "write" =>
         /\ cmd = "INTERNAL" /\ r.elem = elem
         /\ eeprom' = [eeprom EXCEPT ![elem] = Default(build)[elem]]
  BY DEF Programmed, Due
<1>4. cmd = "INTERNAL" => elem \in Elems /\ eeprom \in [Elems -> Values]
  BY DEF TypesInv, MgrTypes
<1>5. r.op = "write" => Repaired'
  BY <1>3, <1>4 DEF Repaired, Default
<1>6. r.op = "reset" => Repaired'
  BY <1>2 DEF Repaired, Default
<1>. QED BY <1>1, <1>2, <1>3, <1>5, <1>6

LEMMA FlowServes ==
    ASSUME TypesInv, FlowInv, I2CServes
    PROVE  FlowInv'
<1>1. SUFFICES ASSUME quiet PROVE FlowInv'
  BY DEF FlowInv, I2CServes
<1>2. PICK r : r = Head(i2cQ)
  OBVIOUS
<1>3. PICK e : e = Answer(Sig(r), TRUE, r.elem, Read(r), r.by)
  OBVIOUS
<1>4. /\ i2cQ # <<>> /\ sysQ' = Append(sysQ, e) /\ i2cQ' = Tail(i2cQ)
      /\ UNCHANGED <<build, deferred, mgr, asks, hist, resetAsked>>
      /\ eeprom' = Programmed(r) /\ Touches(r) /\ Sees
  BY <1>2, <1>3 DEF I2CServes, Publish
<1>11. held \subseteq held' /\ touched \subseteq touched' /\ (Busy => eeprom' \in held')
  BY <1>4 DEF Touches, Sees
<1>5. /\ i2cQ \in Seq(RequestTypes) /\ asks \in Nat /\ sysQ \in Seq(EventTypes(asks))
      /\ eeprom \in [Elems -> Values] /\ OneAtATime /\ None(sysQ, TimeoutEvents)
  BY <1>1 DEF TypesInv, QueueTypes, MgrTypes, FlowInv
<1>6. /\ r \in RequestTypes /\ r \in Held(i2cQ)
      /\ Held(Tail(i2cQ)) \subseteq Held(i2cQ)
      /\ Single(i2cQ, OwnRequests) => Single(Tail(i2cQ), OwnRequests)
      /\ Single(i2cQ, OwnRequests) /\ r \in OwnRequests => None(Tail(i2cQ), OwnRequests)
      /\ None(i2cQ, OwnRequests) => None(Tail(i2cQ), OwnRequests) /\ r \notin OwnRequests
  BY <1>2, <1>4, <1>5, TailHeld
<1>7. e \in EventTypes(asks) /\ e.sig = Sig(r) /\ e.by = r.by /\ e.ok /\ e.of = r.elem
      /\ (r.op = "read" => e.value = eeprom[r.elem])
  <2>1. e \in AnswerEvents
    BY <1>3, <1>5, <1>6, AnswerTypes
  <2>. QED BY <1>3, <2>1 DEF EventTypes, Answer, Read
<1>8. r.op \in {"read", "write", "reset", "raw", "rawwrite"} /\ Sig(r) \in Answers
  BY <1>6 DEF RequestTypes, Sig, Answers
<1>9. CASE r \in OwnRequests
  <2>1. Due(r) /\ Busy
    BY <1>1, <1>5, <1>6, <1>9 DEF FlowInv, OneAtATime
  <2>2. None(sysQ, OwnEvents) /\ None(i2cQ', OwnRequests)
    BY <1>4, <1>5, <1>6, <1>9 DEF OneAtATime
  <2>3. e \in OwnEvents /\ e \notin TimeoutEvents
    <3>1. e.by = "Sys"
      BY <1>7, <1>9 DEF OwnRequests
    <3>. QED BY <1>5, <1>7, <1>8, <3>1, OwnBySig
  <2>4. cmd' = cmd /\ elem' = elem /\ build' = build /\ err' = err /\ Busy'
    BY <1>4, <2>1 DEF mgr, Busy
  <2>5. /\ r.op \in {"read", "raw"} => eeprom' = eeprom
        /\ r.op = "reset" => eeprom' = Default(build)
        /\ r.op \in {"write", "reset"} /\ cmd = "INTERNAL" => Repaired'
    BY <1>4, <1>6, <2>1, <2>4, ServedDue
  <2>6. Fits(e)'
    <3>1. CASE r.op = "read"
      <4>1. e.sig = "I2C1_DEV_READ_DONE"
        BY <1>7, <3>1 DEF Sig
      <4>2. r.elem \in Elems /\ cmd \in {"READ", "INTERNAL"} /\ r.elem = elem
        BY <1>6, <2>1, <3>1 DEF Due, RequestTypes
      <4>3. e.value = eeprom'[elem'] /\ eeprom' \in held' /\ e.value \in Values
            /\ e.ok /\ e.of = elem'
        BY <1>5, <1>7, <1>11, <2>1, <2>4, <2>5, <3>1, <4>2
      <4>. QED BY <2>4, <4>1, <4>2, <4>3 DEF Fits, Seen
    <3>2. CASE r.op = "write"
      <4>1. e.sig = "I2C1_DEV_WRITE_DONE"
        BY <1>7, <3>2 DEF Sig
      <4>2. cmd = "INTERNAL"
        BY <2>1, <3>2 DEF Due
      <4>. QED BY <2>4, <2>5, <3>2, <4>1, <4>2 DEF Fits
    <3>3. CASE r.op = "reset"
      <4>1. e.sig = "I2C1_DEV_WRITE_DONE"
        BY <1>7, <3>3 DEF Sig
      <4>2. cmd \in {"WRITE", "INTERNAL"}
        BY <2>1, <3>3 DEF Due
      <4>3. (Default(build) \in held)'
        <5>1. Default(build)' = Default(build)
          BY <2>4 DEF Default
        <5>. QED BY <1>11, <2>1, <2>5, <3>3, <5>1
      <4>. QED BY <2>4, <2>5, <3>3, <4>1, <4>2, <4>3 DEF Fits
    <3>4. r.op \notin {"raw", "rawwrite"}
      BY <1>9 DEF OwnRequests, RequestTypes
    <3>. QED BY <1>8, <3>1, <3>2, <3>3, <3>4
  <2>. QED BY <1>4, <1>5, <1>7, <2>2, <2>3, <2>4, <2>6, FlowEvent
<1>10. CASE r \notin OwnRequests
  <2>1. r.op \in {"raw", "rawwrite"} /\ r.by = "Comm"
    BY <1>6, <1>10 DEF OwnRequests, RequestTypes
  <2>2. e \notin OwnEvents /\ e \notin TimeoutEvents
    <3>1. e.sig \notin Timeouts
      BY <1>7, <1>8 DEF Answers, Timeouts
    <3>. QED BY <1>5, <1>7, <1>8, <2>1, <3>1, OwnBySig
  <2>3. /\ Held(sysQ') = Held(sysQ) \cup {e}
        /\ None(sysQ, TimeoutEvents) => None(sysQ', TimeoutEvents)
        /\ None(sysQ, OwnEvents) => None(sysQ', OwnEvents)
        /\ Single(sysQ, OwnEvents) => Single(sysQ', OwnEvents)
    BY <1>4, <1>5, <1>7, <2>2, AppendHeld
  <2>4. \A x \in Elems : eeprom'[x] = eeprom[x] \/ x \in touched'
    BY <1>4, <2>1 DEF Programmed, Touches
  <2>5. UNCHANGED <<st, cmd, elem, err, data, build, resetAsked>> /\ quiet' = quiet
    BY <1>4 DEF mgr, I2CServes
  <2>6. /\ \A x \in Held(sysQ') : x \in OwnEvents => x \in Held(sysQ)
        /\ \A x \in Held(i2cQ') : x \in OwnRequests => x \in Held(i2cQ)
    BY <1>4, <1>6, <2>2, <2>3
  <2>. QED BY <1>4, <1>6, <1>11, <2>3, <2>4, <2>5, <2>6, FlowSame
<1>. QED BY <1>9, <1>10

LEMMA FlowComm ==
    ASSUME TypesInv, FlowInv, CommAsks
    PROVE  FlowInv'
<1>1. /\ UNCHANGED <<build, eeprom, deferred, mgr, mishaps, replied, reply, held, touched,
                     quiet>>
      /\ i2cQ \in Seq(RequestTypes) /\ asks \in Nat /\ asks + 1 \in Nat
      /\ asks + 1 \in 1 .. asks + 1
      /\ sysQ \in Seq(EventTypes(asks + 1))
  <2>1. sysQ \in Seq(EventTypes(asks)) /\ asks \in Nat /\ i2cQ \in Seq(RequestTypes)
    BY DEF TypesInv, QueueTypes
  <2>2. sysQ \in Seq(EventTypes(asks + 1))
    BY <2>1, EventsGrow, SeqGrows
  <2>. QED BY <2>1, <2>2 DEF CommAsks, seen
<1>. DEFINE n == asks + 1
<1>2. \/ \E e \in EventTypes(n) : /\ e.sig \in {"DB_GET_ELEM", "DB_FULL_RESET"}
                                  /\ sysQ' = Append(sysQ, e) /\ i2cQ' = i2cQ
                                  /\ (resetAsked => resetAsked')
      \/ /\ \E r \in RequestTypes : r \notin OwnRequests /\ i2cQ' = Append(i2cQ, r)
         /\ sysQ' = sysQ /\ resetAsked' = resetAsked
  <2>1. ASSUME NEW e \in ReadElems, NEW a \in {"QPC", "BARE"}
        PROVE  Get(e, a, n) \in EventTypes(n) /\ Get(e, a, n).sig = "DB_GET_ELEM"
    BY <1>1, NewEvents DEF EventTypes, Get
  <2>2. FullReset(n) \in EventTypes(n) /\ FullReset(n).sig = "DB_FULL_RESET"
    BY <1>1, NewEvents DEF EventTypes, FullReset
  <2>3. ASSUME NEW v \in {"short", "long"}
        PROVE  /\ Request("raw", "RAW", v, "Comm") \in RequestTypes
               /\ Request("raw", "RAW", v, "Comm") \notin OwnRequests
    BY NewRequests DEF OwnRequests, Request
  <2>5. ASSUME NEW f \in RawWrites
        PROVE  /\ Request("rawwrite", "RAW", f, "Comm") \in RequestTypes
               /\ Request("rawwrite", "RAW", f, "Comm") \notin OwnRequests
    BY NewRequests DEF OwnRequests, Request
  <2>4. \/ /\ \E e \in ReadElems, a \in {"QPC", "BARE"} : sysQ' = Append(sysQ, Get(e, a, n))
           /\ UNCHANGED <<i2cQ, resetAsked>>
        \/ sysQ' = Append(sysQ, FullReset(n)) /\ resetAsked' = TRUE /\ UNCHANGED i2cQ
        \/ /\ \/ \E v \in {"short", "long"} :
                    i2cQ' = Append(i2cQ, Request("raw", "RAW", v, "Comm"))
              \/ \E f \in RawWrites :
                    i2cQ' = Append(i2cQ, Request("rawwrite", "RAW", f, "Comm"))
           /\ UNCHANGED <<sysQ, resetAsked>>
    BY DEF CommAsks, ReadElems
  <2>. HIDE DEF n
  <2>. QED BY <2>1, <2>2, <2>3, <2>4, <2>5
<1>3. CASE \E e \in EventTypes(n) : /\ e.sig \in {"DB_GET_ELEM", "DB_FULL_RESET"}
                                    /\ sysQ' = Append(sysQ, e) /\ i2cQ' = i2cQ
                                    /\ (resetAsked => resetAsked')
  <2>1. PICK e \in EventTypes(n) : /\ e.sig \in {"DB_GET_ELEM", "DB_FULL_RESET"}
                                   /\ sysQ' = Append(sysQ, e) /\ i2cQ' = i2cQ
                                   /\ (resetAsked => resetAsked')
    BY <1>3
  <2>2. e \notin OwnEvents /\ e \notin TimeoutEvents
    <3>1. e.sig \notin Timeouts /\ e.sig \in Waiting \cup {"DB_FULL_RESET"}
      BY <2>1 DEF Waiting, Timeouts
    <3>. QED BY <1>1, <3>1, OwnBySig
  <2>3. /\ Held(sysQ') = Held(sysQ) \cup {e}
        /\ None(sysQ, TimeoutEvents) => None(sysQ', TimeoutEvents)
        /\ None(sysQ, OwnEvents) => None(sysQ', OwnEvents)
        /\ Single(sysQ, OwnEvents) => Single(sysQ', OwnEvents)
    BY <1>1, <2>1, <2>2, AppendHeld
  <2>. QED BY <1>1, <2>1, <2>2, <2>3, FlowSame DEF mgr
<1>4. CASE /\ \E r \in RequestTypes : r \notin OwnRequests /\ i2cQ' = Append(i2cQ, r)
           /\ sysQ' = sysQ /\ resetAsked' = resetAsked
  <2>1. PICK r \in RequestTypes : r \notin OwnRequests /\ i2cQ' = Append(i2cQ, r)
    BY <1>4
  <2>2. /\ Held(i2cQ') = Held(i2cQ) \cup {r}
        /\ None(i2cQ, OwnRequests) => None(i2cQ', OwnRequests)
        /\ Single(i2cQ, OwnRequests) => Single(i2cQ', OwnRequests)
    BY <1>1, <2>1, AppendHeld
  <2>. QED BY <1>1, <1>4, <2>1, <2>2, FlowSame DEF mgr
<1>. QED BY <1>2, <1>3, <1>4

LEMMA FlowRestart ==
    ASSUME Restart
    PROVE  FlowInv'
<1>1. sysQ' = StartQueue(build') /\ build' \in {"Boot", "App"} /\ i2cQ' = <<>>
  BY DEF Restart
<1>2. \A e \in Held(sysQ') : e \notin OwnEvents /\ e \notin TimeoutEvents
  <2>1. \A e \in Held(sysQ') : e \in CheckEvents
    BY <1>1, StartTypes
  <2>2. \A e \in CheckEvents : e.sig = "DB_INTRNL_CHK_ELEM"
    BY DEF CheckEvents
  <2>3. \A e \in OwnEvents \cup TimeoutEvents : e.sig # "DB_INTRNL_CHK_ELEM"
    BY DEF OwnEvents, OwnReads, StepEvents, OwnAnswers, Answers, TimeoutEvents, Timeouts
  <2>. QED BY <2>1, <2>2, <2>3
<1>3. None(i2cQ', OwnRequests)
  BY <1>1 DEF None, Positions
<1>4. None(sysQ', OwnEvents) /\ None(sysQ', TimeoutEvents)
  BY <1>2, NoneHeld
<1>. QED BY <1>3, <1>4, FlowSettled

-----------------------------------------------------------------------------
(* Where the checks and the full resets in the queues come from *)

\* e is a check or a full reset that is in a queue.
Waits(e) == e.sig \in {"DB_FULL_RESET", "DB_INTRNL_CHK_ELEM"}
            /\ e \in Held(sysQ) \cup Held(deferred)

LEMMA AppendWaits ==
    ASSUME TypesInv, sysQ # <<>>, NEW e \in EventTypes(asks), sysQ' = Append(Rest, e),
           e.sig \notin {"DB_FULL_RESET", "DB_INTRNL_CHK_ELEM"}, deferred' = deferred
    PROVE  \A x : Waits(x)' => Waits(x)
<1>1. Rest \in Seq(EventTypes(asks))
  BY Taken DEF TypesInv
<1>2. Held(sysQ') = Held(Rest) \cup {e}
  BY <1>1, AppendHeld
<1>3. Held(Rest) \subseteq Held(sysQ)
  BY RestHeld
<1>. QED BY <1>2, <1>3 DEF Waits

LEMMA RestWaits ==
    ASSUME TypesInv, sysQ # <<>>, sysQ' = Rest, deferred' = deferred
    PROVE  \A x : Waits(x)' => Waits(x)
<1>1. Held(Rest) \subseteq Held(sysQ)
  BY RestHeld
<1>. QED BY <1>1 DEF Waits

LEMMA HandlerWaits ==
    ASSUME TypesInv, Handler
    PROVE  \A x : Waits(x)' => Waits(x)
<1>1. /\ sysQ # <<>> /\ asks \in Nat /\ Event \in EventTypes(asks) /\ Event \in Held(sysQ)
      /\ Held(Rest) \subseteq Held(sysQ)
  <2>1. sysQ # <<>>
    BY DEF Handler, IdleGet, IdleFullReset, IdleCheck, IdleDrops, BusyDefers,
           BusyIgnoresReset, BusyTimesOut, OpDone, DBRead, AccessDone, CheckMatches,
           CheckMismatches, Takes
  <2>. QED BY <2>1, Taken, RestHeld DEF TypesInv
<1>2. CASE IdleGet
  <2>1. PICK e : e = [Event EXCEPT !.sig = "DB_READ"]
    OBVIOUS
  <2>2. e \in EventTypes(asks) /\ e.sig = "DB_READ"
    <3>1. Event \in GetEvents(asks)
      BY <1>1, <1>2, HeadTypes DEF IdleGet, Takes
    <3>. QED BY <1>1, <2>1, <3>1, NewEvents DEF EventTypes, GetEvents
  <2>. QED BY <1>1, <1>2, <2>1, <2>2, AppendWaits DEF IdleGet, GoBusy
<1>3. CASE IdleFullReset \/ IdleCheck \/ IdleDrops \/ BusyIgnoresReset
  <2>1. sysQ' = Rest /\ deferred' = deferred
    BY <1>3 DEF IdleFullReset, IdleCheck, IdleDrops, BusyIgnoresReset, GoBusy
  <2>. QED BY <1>1, <2>1, RestWaits
<1>4. CASE BusyDefers
  <2>1. Event \in WaitingTypes(asks) /\ deferred \in Seq(WaitingTypes(asks))
    BY <1>1, <1>4, HeadTypes
       DEF BusyDefers, Takes, Waiting, WaitingTypes, TypesInv, QueueTypes
  <2>2. Held(Append(deferred, Event)) = Held(deferred) \cup {Event}
    BY <2>1, AppendHeld
  <2>3. sysQ' = Rest /\ (deferred' = deferred \/ deferred' = Append(deferred, Event))
    BY <1>4 DEF BusyDefers
  <2>. QED BY <1>1, <2>2, <2>3 DEF Waits
<1>5. CASE BusyTimesOut \/ OpDone \/ CheckMatches
  <2>1. GoIdle(err, data) \/ GoIdle(FALSE, data)
    BY <1>5 DEF BusyTimesOut, OpDone, CheckMatches
  <2>2. Recall(Rest)
    BY <2>1 DEF GoIdle
  <2>3. /\ Held(sysQ') \subseteq Held(Rest) \cup Held(deferred)
        /\ Held(deferred') \subseteq Held(deferred)
    BY <1>1, <2>2, RecallHeld
  <2>. QED BY <1>1, <2>3 DEF Waits
<1>. DEFINE flash == Simple("DB_FLASH_READ_DONE")
            done  == Simple("DB_OP_DONE")
<1>6. /\ flash \in EventTypes(asks) /\ flash.sig = "DB_FLASH_READ_DONE"
      /\ done \in EventTypes(asks) /\ done.sig = "DB_OP_DONE"
  BY <1>1, NewEvents DEF EventTypes, Simple
<1>7. CASE DBRead \/ AccessDone \/ CheckMismatches
  <2>1. /\ deferred' = deferred
        /\ sysQ' = Rest \/ sysQ' = Append(Rest, flash) \/ sysQ' = Append(Rest, done)
    BY <1>7 DEF DBRead, AccessDone, CheckMismatches
  <2>. HIDE DEF flash, done
  <2>. QED BY <1>1, <1>6, <2>1, RestWaits, AppendWaits
<1>. QED BY <1>2, <1>3, <1>4, <1>5, <1>7 DEF Handler

\* Only CommMgr adds a full reset, and then it has asked for one.
LEMMA OutsideWaits ==
    ASSUME TypesInv, TimersExpire \/ I2CServes \/ I2CFails \/ CommAsks
    PROVE  /\ \A x : Waits(x)' => Waits(x) \/ (x.sig = "DB_FULL_RESET" /\ resetAsked')
           /\ deferred' = deferred /\ UNCHANGED <<st, cmd, elem>>
           /\ resetAsked => resetAsked'
<1>0. asks \in Nat /\ sysQ \in Seq(EventTypes(asks)) /\ asks + 1 \in Nat
      /\ asks + 1 \in 1 .. asks + 1
  BY DEF TypesInv, QueueTypes
<1>1. CASE TimersExpire
  <2>. DEFINE a == Simple("SYS_MGR_TIMEOUT")
              b == Simple("DB_ACCESS_TIMEOUT")
  <2>1. /\ a \in EventTypes(asks) /\ a.sig = "SYS_MGR_TIMEOUT"
        /\ b \in EventTypes(asks) /\ b.sig = "DB_ACCESS_TIMEOUT"
    BY <1>0, NewEvents DEF EventTypes, Simple
  <2>2. \/ sysQ' = sysQ \o <<a, b>> \/ sysQ' = sysQ \o <<b, a>>
        \/ sysQ' = Append(sysQ, a) \/ sysQ' = Append(sysQ, b)
    BY <1>1 DEF TimersExpire
  <2>. HIDE DEF a, b
  <2>3. \A x, y \in EventTypes(asks) :
           /\ Held(Append(sysQ, x)) = Held(sysQ) \cup {x}
           /\ Held(sysQ \o <<x, y>>) = Held(sysQ) \cup {x, y}
    <3>1. ASSUME NEW x \in EventTypes(asks), NEW y \in EventTypes(asks)
          PROVE  /\ Held(Append(sysQ, x)) = Held(sysQ) \cup {x}
                 /\ Held(sysQ \o <<x, y>>) = Held(sysQ) \cup {x, y}
      <4>0. PICK t : t = Append(sysQ, x)
        OBVIOUS
      <4>1. t \in Seq(EventTypes(asks)) /\ Held(t) = Held(sysQ) \cup {x}
        BY <1>0, <4>0, AppendHeld
      <4>2. Held(Append(t, y)) = Held(t) \cup {y}
        BY <4>1, AppendHeld
      <4>3. sysQ \o <<x, y>> = Append(t, y)
        BY <1>0, <4>0
      <4>. QED BY <4>0, <4>1, <4>2, <4>3
    <3>. QED BY <3>1
  <2>4. Held(sysQ') \subseteq Held(sysQ) \cup {a, b}
    <3>1. /\ Held(Append(sysQ, a)) = Held(sysQ) \cup {a}
          /\ Held(Append(sysQ, b)) = Held(sysQ) \cup {b}
          /\ Held(sysQ \o <<a, b>>) = Held(sysQ) \cup {a, b}
          /\ Held(sysQ \o <<b, a>>) = Held(sysQ) \cup {a, b}
      BY <2>1, <2>3
    <3>. QED BY <2>2, <3>1
  <2>. QED BY <1>1, <2>1, <2>4 DEF TimersExpire, Waits
<1>2. CASE I2CServes \/ I2CFails
  <2>1. i2cQ # <<>> /\ Head(i2cQ) \in RequestTypes /\ eeprom \in [Elems -> Values]
    BY <1>2, TailHeld DEF I2CServes, I2CFails, TypesInv, QueueTypes, MgrTypes
  <2>2. PICK ok \in BOOLEAN : Publish(Head(i2cQ), ok)
    BY <1>2 DEF I2CServes, I2CFails
  <2>3. PICK e : e = Answer(Sig(Head(i2cQ)), ok, Head(i2cQ).elem,
                            Read(Head(i2cQ)), Head(i2cQ).by)
    OBVIOUS
  <2>4. e \in AnswerEvents
    BY <2>1, <2>3, AnswerTypes
  <2>5. e \in EventTypes(asks) /\ e.sig \in Answers
    BY <2>4 DEF EventTypes, AnswerEvents
  <2>6. sysQ' = Append(sysQ, e) /\ deferred' = deferred
        /\ UNCHANGED <<st, cmd, elem, resetAsked>>
    BY <2>2, <2>3 DEF Publish, mgr
  <2>7. Held(sysQ') = Held(sysQ) \cup {e}
    BY <1>0, <2>5, <2>6, AppendHeld
  <2>. QED BY <2>5, <2>6, <2>7 DEF Waits, Answers
<1>3. CASE CommAsks
  <2>1. sysQ \in Seq(EventTypes(asks + 1))
    BY <1>0, EventsGrow, SeqGrows
  <2>2. \/ \E e \in ReadElems, a \in {"QPC", "BARE"} :
              sysQ' = Append(sysQ, Get(e, a, asks + 1)) /\ resetAsked' = resetAsked
        \/ sysQ' = Append(sysQ, FullReset(asks + 1)) /\ resetAsked' = TRUE
        \/ sysQ' = sysQ /\ resetAsked' = resetAsked
    BY <1>3 DEF CommAsks, ReadElems
  <2>3. ASSUME NEW e \in ReadElems, NEW a \in {"QPC", "BARE"},
               sysQ' = Append(sysQ, Get(e, a, asks + 1)), resetAsked' = resetAsked
        PROVE  \A x : Waits(x)' => Waits(x)
    <3>1. PICK x : x = Get(e, a, asks + 1)
      OBVIOUS
    <3>2. x \in EventTypes(asks + 1) /\ x.sig = "DB_GET_ELEM"
      BY <1>0, <3>1, NewEvents DEF EventTypes, Get
    <3>3. Held(sysQ') = Held(sysQ) \cup {x}
      BY <2>1, <2>3, <3>1, <3>2, AppendHeld
    <3>. QED BY <1>3, <3>2, <3>3 DEF Waits, CommAsks
  <2>4. CASE sysQ' = Append(sysQ, FullReset(asks + 1)) /\ resetAsked' = TRUE
    <3>1. PICK x : x = FullReset(asks + 1)
      OBVIOUS
    <3>2. x \in EventTypes(asks + 1) /\ x.sig = "DB_FULL_RESET"
      BY <1>0, <3>1, NewEvents DEF EventTypes, FullReset
    <3>3. Held(sysQ') = Held(sysQ) \cup {x}
      BY <2>1, <2>4, <3>1, <3>2, AppendHeld
    <3>. QED BY <1>3, <2>4, <3>2, <3>3 DEF Waits, CommAsks, mgr
  <2>5. CASE sysQ' = sysQ /\ resetAsked' = resetAsked
    BY <1>3, <2>5 DEF Waits, CommAsks, mgr
  <2>6. UNCHANGED <<deferred, st, cmd, elem>>
    BY <1>3 DEF CommAsks, mgr
  <2>7. resetAsked => resetAsked'
    BY <2>2
  <2>8. \A x : Waits(x)' => Waits(x) \/ (x.sig = "DB_FULL_RESET" /\ resetAsked')
    BY <2>2, <2>3, <2>4, <2>5
  <2>. QED BY <2>6, <2>7, <2>8
<1>. QED BY <1>1, <1>2, <1>3

LEMMA AskedKept ==
    ASSUME TypesInv, AskedInv, resetAsked => resetAsked',
           \A x : Waits(x)' => Waits(x) \/ (x.sig = "DB_FULL_RESET" /\ resetAsked'),
           cmd' = "WRITE" => resetAsked', cmd' = "INTERNAL" => elem' # "IP"
    PROVE  AskedInv'
<1>1. \A x \in CheckEvents : x.sig = "DB_INTRNL_CHK_ELEM"
  BY DEF CheckEvents
<1>2. \A x \in Held(deferred) : x.sig # "DB_FULL_RESET"
  <2>1. \A x \in WaitingTypes(asks) : x.sig # "DB_FULL_RESET"
    BY DEF WaitingTypes, GetEvents, CheckEvents
  <2>2. deferred \in Seq(WaitingTypes(asks))
    BY DEF TypesInv, QueueTypes
  <2>3. \A x \in Held(deferred) : x \in WaitingTypes(asks)
    BY <2>2 DEF Held
  <2>. QED BY <2>1, <2>3
<1>3. \A x \in Held(sysQ') : x.sig = "DB_FULL_RESET" => resetAsked'
  BY <1>2 DEF AskedInv, Waits
<1>4. \A x \in Held(sysQ') \cup Held(deferred') : x \in CheckEvents => x.elem # "IP"
  BY <1>1 DEF AskedInv, Waits
<1>. QED BY <1>3, <1>4 DEF AskedInv

LEMMA AskedNext ==
    ASSUME TypesInv, AskedInv, [SysDBNext]_vars
    PROVE  AskedInv'
<1>1. CASE Handler
  <2>1. resetAsked' = resetAsked
    BY <1>1 DEF Handler, IdleGet, IdleFullReset, IdleCheck, IdleDrops, BusyDefers,
                BusyIgnoresReset, BusyTimesOut, OpDone, DBRead, AccessDone, CheckMatches,
                CheckMismatches, GoIdle, GoBusy, env
  <2>2. \/ UNCHANGED <<cmd, elem>> \/ cmd' = "NONE" \/ IdleGet \/ IdleFullReset \/ IdleCheck
    BY <1>1 DEF Handler, IdleDrops, BusyDefers, BusyIgnoresReset, BusyTimesOut, OpDone,
                DBRead, AccessDone, CheckMatches, CheckMismatches, GoIdle, mgr
  <2>3. IdleGet => cmd' = "READ"
    BY DEF IdleGet, GoBusy
  <2>4. IdleFullReset => cmd' = "WRITE" /\ resetAsked
    BY Taken DEF IdleFullReset, GoBusy, Takes, TypesInv, AskedInv
  <2>5. IdleCheck => cmd' = "INTERNAL" /\ elem' # "IP"
    <3>1. SUFFICES ASSUME IdleCheck PROVE cmd' = "INTERNAL" /\ elem' # "IP"
      OBVIOUS
    <3>2. /\ sysQ # <<>> /\ Event.sig = "DB_INTRNL_CHK_ELEM"
          /\ cmd' = "INTERNAL" /\ elem' = Event.elem
      BY <3>1 DEF IdleCheck, Takes, GoBusy
    <3>3. Event \in CheckEvents /\ Event \in Held(sysQ)
      BY <3>2, Taken, HeadTypes DEF TypesInv
    <3>. QED BY <3>2, <3>3 DEF AskedInv
  <2>6. cmd' = "WRITE" => resetAsked'
    BY <2>1, <2>2, <2>3, <2>4, <2>5 DEF AskedInv
  <2>7. cmd' = "INTERNAL" => elem' # "IP"
    BY <2>2, <2>3, <2>4, <2>5 DEF AskedInv
  <2>. QED BY <1>1, <2>1, <2>6, <2>7, HandlerWaits, AskedKept
<1>2. CASE TimersExpire \/ I2CServes \/ I2CFails \/ CommAsks
  <2>1. /\ \A x : Waits(x)' => Waits(x) \/ (x.sig = "DB_FULL_RESET" /\ resetAsked')
        /\ UNCHANGED <<st, cmd, elem>> /\ (resetAsked => resetAsked')
    BY <1>2, OutsideWaits
  <2>2. (cmd' = "WRITE" => resetAsked') /\ (cmd' = "INTERNAL" => elem' # "IP")
    BY <2>1 DEF AskedInv
  <2>. QED BY <2>1, <2>2, AskedKept
<1>3. CASE Restart
  <2>1. sysQ' = StartQueue(build') /\ build' \in {"Boot", "App"}
        /\ deferred' = <<>> /\ cmd' = "NONE"
    BY <1>3 DEF Restart
  <2>2. \A e \in Held(sysQ') : e \in CheckEvents /\ e.elem # "IP"
    BY <2>1, StartTypes
  <2>3. \A e \in CheckEvents : e.sig = "DB_INTRNL_CHK_ELEM"
    BY DEF CheckEvents
  <2>4. Held(deferred') = {}
    BY <2>1 DEF Held
  <2>. QED BY <2>1, <2>2, <2>3, <2>4 DEF AskedInv
<1>4. CASE UNCHANGED vars
  BY <1>4 DEF vars, AskedInv
<1>. QED BY <1>1, <1>2, <1>3, <1>4 DEF SysDBNext

LEMMA FlowNext ==
    ASSUME TypesInv, AskedInv, FlowInv, [SysDBNext]_vars
    PROVE  FlowInv'
<1>1. CASE Handler
  BY <1>1, FlowIdle, FlowBusy, FlowRead, FlowAccess, FlowEnd, FlowMismatch DEF Handler
<1>2. CASE TimersExpire \/ I2CFails
  BY <1>2 DEF TimersExpire, I2CFails, FlowInv
<1>3. CASE I2CServes \/ CommAsks \/ Restart
  BY <1>3, FlowServes, FlowComm, FlowRestart
<1>4. CASE UNCHANGED vars
  <2>1. UNCHANGED <<sysQ, i2cQ, st, cmd, elem, err, data, eeprom, build, resetAsked, held,
                    touched, quiet>>
    BY <1>4 DEF vars
  <2>. QED BY <2>1, FlowSame
<1>. QED BY <1>1, <1>2, <1>3, <1>4 DEF SysDBNext

LEMMA FlowInit == SysDBInit => FlowInv /\ AskedInv
<1>. SUFFICES ASSUME SysDBInit PROVE FlowInv /\ AskedInv
  OBVIOUS
<1>1. /\ sysQ = StartQueue("Boot") /\ deferred = <<>> /\ i2cQ = <<>> /\ cmd = "NONE"
  BY DEF SysDBInit
<1>2. \A e \in Held(sysQ) : e \in CheckEvents /\ e.elem # "IP"
  BY <1>1, StartTypes
<1>3. \A e \in CheckEvents : e.sig = "DB_INTRNL_CHK_ELEM"
  BY DEF CheckEvents
<1>4. Held(deferred) = {} /\ Held(i2cQ) = {}
  BY <1>1 DEF Held
<1>5. AskedInv
  BY <1>1, <1>2, <1>3, <1>4 DEF AskedInv
<1>6. \A e \in OwnEvents \cup TimeoutEvents : e.sig # "DB_INTRNL_CHK_ELEM"
  BY DEF OwnEvents, OwnReads, StepEvents, OwnAnswers, Answers, TimeoutEvents, Timeouts
<1>7. None(sysQ, OwnEvents) /\ None(sysQ, TimeoutEvents) /\ None(i2cQ, OwnRequests)
  BY <1>2, <1>3, <1>4, <1>6, NoneHeld
<1>8. Single(sysQ, OwnEvents) /\ Single(i2cQ, OwnRequests)
  BY <1>7 DEF None, Single
<1>9. FlowInv
  BY <1>2, <1>3, <1>4, <1>6, <1>7, <1>8 DEF FlowInv, OneAtATime
<1>. QED BY <1>5, <1>9

\* What holds of the exchange in every state.
DataInv == TypesInv /\ AskedInv /\ FlowInv /\ RepliesAreTrue

LEMMA RepliesNext ==
    ASSUME TypesInv, FlowInv, RepliesAreTrue, [SysDBNext]_vars
    PROVE  RepliesAreTrue'
<1>1. CASE BusyTimesOut \/ OpDone \/ CheckMatches
  <2>1. SUFFICES ASSUME quiet' PROVE RepliesAreTrue'
    BY DEF RepliesAreTrue
  <2>2. (quiet' => quiet) /\ (OpDone \/ CheckMatches)
        /\ (OpDone => Event \in OwnEvents /\ Fits(Event))
    BY <1>1, <2>1, FlowEnd DEF OpDone, CheckMatches
  <2>3. CASE reply' = reply
    BY <2>1, <2>2, <2>3 DEF RepliesAreTrue
  <2>4. CASE reply' # reply
    <3>1. OpDone
      <4>1. CheckMatches => cmd = "INTERNAL"
        BY DEF CheckMatches, TypesInv, MgrTypes, CommandFits
      <4>. QED BY <2>2, <2>4, <4>1 DEF CheckMatches, GoIdle, Reply, NoneGiven
    <3>2. /\ cmd \in {"READ", "WRITE"}
          /\ reply' = [op |-> cmd, ok |-> ~ err, true |-> True(data)]
      BY <2>4, <3>1 DEF OpDone, GoIdle, Reply, NoneGiven
    <3>3. err \/ True(data)
      <4>1. Event.sig = "DB_OP_DONE" /\ Fits(Event)
        BY <2>2, <3>1 DEF OpDone, Takes
      <4>. QED BY <3>2, <4>1 DEF Fits, DataIsRight, Seen, True
    <3>. QED BY <3>2, <3>3 DEF RepliesAreTrue
  <2>. QED BY <2>3, <2>4
<1>2. CASE reply' = reply /\ (quiet' => quiet)
  BY <1>2 DEF RepliesAreTrue
<1>3. CASE Restart
  BY <1>3 DEF Restart, RepliesAreTrue
<1>4. \/ BusyTimesOut \/ OpDone \/ CheckMatches \/ Restart
      \/ reply' = reply /\ (quiet' => quiet)
  <2>1. ASSUME Handler PROVE \/ BusyTimesOut \/ OpDone \/ CheckMatches
                             \/ reply' = reply /\ (quiet' => quiet)
    <3>1. AccessDone \/ CheckMismatches => reply' = reply /\ (quiet' => quiet)
      <4>1. AccessDone \/ CheckMismatches => quiet' = quiet
                                            \/ quiet' = (quiet /\ Event.by = "Sys")
        BY DEF AccessDone, CheckMismatches
      <4>2. AccessDone \/ CheckMismatches => reply' = reply
        BY DEF AccessDone, CheckMismatches, hist
      <4>. QED BY <4>1, <4>2, Zenon
    <3>2. IdleGet \/ IdleFullReset \/ IdleCheck \/ IdleDrops \/ BusyDefers
          \/ BusyIgnoresReset \/ DBRead => reply' = reply /\ quiet' = quiet
      BY DEF IdleGet, IdleFullReset, IdleCheck, IdleDrops, BusyDefers,
             BusyIgnoresReset, DBRead, GoBusy, hist
    <3>. QED BY <2>1, <3>1, <3>2 DEF Handler
  <2>2. ASSUME TimersExpire \/ I2CServes \/ I2CFails \/ CommAsks
        PROVE  reply' = reply /\ (quiet' => quiet)
    <3>1. reply' = reply
      BY <2>2 DEF TimersExpire, I2CServes, I2CFails, Publish, CommAsks, hist
    <3>2. TimersExpire \/ I2CFails => ~ quiet'
      BY DEF TimersExpire, I2CFails
    <3>3. I2CServes \/ CommAsks => quiet' = quiet
      BY DEF I2CServes, CommAsks
    <3>. QED BY <2>2, <3>1, <3>2, <3>3
  <2>3. UNCHANGED vars => reply' = reply /\ (quiet' => quiet)
    BY DEF vars
  <2>. QED BY <2>1, <2>2, <2>3 DEF SysDBNext
<1>. QED BY <1>1, <1>2, <1>3, <1>4

LEMMA DataInvariant == SysDBSpec => []DataInv
<1>1. SysDBInit => DataInv
  <2>1. SysDBInit => RepliesAreTrue
    BY DEF SysDBInit, RepliesAreTrue
  <2>. QED BY <2>1, TypesInit, FlowInit DEF DataInv
<1>2. DataInv /\ [SysDBNext]_vars => DataInv'
  BY TypesNext, AskedNext, FlowNext, RepliesNext DEF DataInv
<1>. QED BY <1>1, <1>2, PTL DEF SysDBSpec

\* An answer of SysMgr without error is true while nothing disturbs the
\* exchange with I2C1DevMgr: SysMgr.c keeps the element asked for and one
\* buffer, and has one request of its own under way, in every interleaving.
THEOREM AnswersAreTrue == SysDBSpec => []RepliesAreTrue
<1>1. DataInv => RepliesAreTrue
  BY DEF DataInv
<1>. QED BY <1>1, DataInvariant, PTL

NoDatabase == \E f \in held : f["MAGIC"] # "dflt"

\* Only a reset of the database or a raw write, whole or cut short, touches
\* the settings.
LEMMA SettingsTouched ==
    ASSUME TypesInv, FlowInv, quiet, i2cQ # <<>>, NEW f,
           f \in Interrupted(Head(i2cQ)) \cup Spoiled(Head(i2cQ)) \cup {Programmed(Head(i2cQ))},
           f["IP"] # eeprom["IP"]
    PROVE  WrittenByComm \/ resetAsked \/ NoDatabase
<1>1. PICK r : r = Head(i2cQ)
  OBVIOUS
<1>2. r \in RequestTypes /\ r \in Held(i2cQ) /\ eeprom \in [Elems -> Values]
      /\ build \in {"Boot", "App"}
  BY <1>1, TailHeld DEF TypesInv, QueueTypes, MgrTypes
<1>3. Programmed(r)["IP"] # eeprom["IP"]
  BY <1>1, <1>2, ServedTypes, CutPlaces DEF Elems
<1>7. CASE r.op = "rawwrite"
  <2>1. "IP" \in DOMAIN r.value
    BY <1>2, <1>3, <1>7 DEF Programmed, Elems
  <2>. QED BY <1>1, <1>7, <2>1 DEF WrittenByComm
<1>8. SUFFICES ASSUME r.op # "rawwrite" PROVE resetAsked \/ NoDatabase
  BY <1>7
<1>4. r.op \in {"write", "reset"} /\ r \in OwnRequests
  BY <1>2, <1>3, <1>8 DEF Programmed, RequestTypes, OwnRequests
<1>5. Due(r)
  BY <1>2, <1>4 DEF FlowInv
<1>6. r.op # "write"
  <2>1. ASSUME r.op = "write" PROVE FALSE
    <3>1. r.elem # "IP" /\ Programmed(r) = [eeprom EXCEPT ![r.elem] = r.value]
      BY <1>5, <2>1 DEF Due, Programmed
    <3>2. "IP" \in Elems
      BY DEF Elems
    <3>. QED BY <1>2, <1>3, <3>1, <3>2
  <2>. QED BY <2>1
<1>. QED BY <1>4, <1>5, <1>6 DEF Due, NoDatabase

\* Nothing but a raw write of CommMgr's that reaches it, a reset of the
\* database that its magic word called for, or one that CommMgr asked for,
\* changes the user's address, at whichever page a failed transfer or a reset
\* of the board cuts the write.
THEOREM SettingsKept == SysDBSpec => SettingsSurvive
<1>1. ASSUME DataInv, [SysDBNext]_vars, eeprom'["IP"] # eeprom["IP"]
      PROVE  WrittenByComm \/ resetAsked \/ ~ quiet \/ NoDatabase
  <2>1. SUFFICES ASSUME quiet PROVE WrittenByComm \/ resetAsked \/ NoDatabase
    OBVIOUS
  <2>2. I2CServes \/ I2CFails \/ Restart
    <3>1. Handler => eeprom' = eeprom
      BY DEF Handler, IdleGet, IdleFullReset, IdleCheck, IdleDrops, BusyDefers,
             BusyIgnoresReset, BusyTimesOut, OpDone, DBRead, AccessDone, CheckMatches,
             CheckMismatches, GoIdle, GoBusy
    <3>2. TimersExpire \/ CommAsks \/ UNCHANGED vars => eeprom' = eeprom
      BY DEF TimersExpire, CommAsks, vars
    <3>. QED BY <1>1, <3>1, <3>2 DEF SysDBNext
  <2>3. /\ i2cQ # <<>>
        /\ eeprom' \in Interrupted(Head(i2cQ)) \cup Spoiled(Head(i2cQ))
                        \cup {Programmed(Head(i2cQ))}
    BY <1>1, <2>2 DEF I2CServes, I2CFails, Restart
  <2>. QED BY <1>1, <2>1, <2>3, SettingsTouched DEF DataInv
<1>2. DataInv /\ [SysDBNext]_vars =>
         [eeprom'["IP"] # eeprom["IP"]
              => \/ WrittenByComm \/ resetAsked \/ ~ quiet
                 \/ \E f \in held : f["MAGIC"] # "dflt"]_vars
  BY <1>1 DEF NoDatabase
<1>. QED BY <1>2, DataInvariant, PTL DEF SysDBSpec, SettingsSurvive

-----------------------------------------------------------------------------
(* There is room to defer the checks *)

LEMMA RoomTail ==
    ASSUME NEW S, NEW q \in Seq(S), q # <<>>, NEW n \in Nat, Room(q, n)
    PROVE  /\ Room(Tail(q), n) /\ Room(Tail(q), n + 1)
           /\ Head(q) \notin CheckEvents => \A m : Room(Tail(q), m)
<1>. DEFINE t == Tail(q)
<1>1. /\ Len(t) = Len(q) - 1 /\ DOMAIN q = 1 .. Len(q) /\ DOMAIN t = 1 .. Len(t)
      /\ Len(t) \in Nat /\ Head(q) = q[1]
      /\ \A i \in DOMAIN t : i \in Nat \ {0} /\ i + 1 \in DOMAIN q /\ t[i] = q[i + 1]
  BY TailPlaces, LenProperties
<1>. HIDE DEF t
<1>2. ASSUME NEW i \in DOMAIN t, t[i] \in CheckEvents
      PROVE  /\ i + 1 + n <= 3 /\ Head(q) \in CheckEvents
             /\ \A j \in 1 .. i : t[j] \in CheckEvents
  <2>1. /\ i \in Nat \ {0} /\ i <= Len(t) /\ i + 1 \in DOMAIN q
        /\ q[i + 1] \in CheckEvents
    BY <1>1, <1>2
  <2>2. i + 1 + n <= 3 /\ \A j \in 1 .. i + 1 : q[j] \in CheckEvents
    BY <2>1 DEF Room
  <2>3. Head(q) \in CheckEvents
    BY <1>1, <2>1, <2>2
  <2>4. ASSUME NEW j \in 1 .. i PROVE t[j] \in CheckEvents
    <3>1. j \in DOMAIN t /\ j + 1 \in 1 .. i + 1
      BY <1>1, <2>1
    <3>. QED BY <1>1, <2>2, <3>1
  <2>. QED BY <2>2, <2>3, <2>4
<1>3. \A i \in DOMAIN t : i \in Nat
  BY <1>1
<1>4. Room(t, n)
  <2>1. ASSUME NEW i \in DOMAIN t, t[i] \in CheckEvents PROVE i + n <= 3
    BY <1>2, <1>3, <2>1
  <2>. QED BY <1>2, <2>1 DEF Room
<1>5. Room(t, n + 1)
  <2>1. ASSUME NEW i \in DOMAIN t, t[i] \in CheckEvents PROVE i + (n + 1) <= 3
    BY <1>2, <1>3, <2>1
  <2>. QED BY <1>2, <2>1 DEF Room
<1>6. Head(q) \notin CheckEvents => \A m : Room(t, m)
  BY <1>2 DEF Room
<1>. QED BY <1>4, <1>5, <1>6 DEF t

LEMMA RoomAppend ==
    ASSUME NEW S, NEW q \in Seq(S), NEW e \in S, e \notin CheckEvents, NEW n, Room(q, n)
    PROVE  Room(Append(q, e), n)
<1>. DEFINE t == Append(q, e)
<1>1. /\ DOMAIN t = DOMAIN q \cup {Len(q) + 1} /\ t[Len(q) + 1] = e
      /\ \A i \in DOMAIN q : t[i] = q[i]
      /\ DOMAIN q = 1 .. Len(q) /\ Len(q) \in Nat
  BY AppendPlaces, LenProperties
<1>. HIDE DEF t
<1>2. ASSUME NEW i \in DOMAIN t, t[i] \in CheckEvents
      PROVE  i + n <= 3 /\ \A j \in 1 .. i : t[j] \in CheckEvents
  <2>1. i \in DOMAIN q /\ q[i] \in CheckEvents
    BY <1>1, <1>2
  <2>2. i + n <= 3 /\ \A j \in 1 .. i : q[j] \in CheckEvents
    BY <2>1 DEF Room
  <2>3. \A j \in 1 .. i : j \in DOMAIN q
    BY <1>1, <2>1
  <2>. QED BY <1>1, <2>2, <2>3
<1>. QED BY <1>2 DEF Room, t

LEMMA RoomEmpty == ASSUME NEW n PROVE Room(<<>>, n)
BY DEF Room

\* While SysMgr is busy all of the queue waits; the first event is no check,
\* or there is room for it.
LEMMA RoomBusy ==
    ASSUME TypesInv, RoomInv, Busy, sysQ # <<>>
    PROVE  /\ Room(Rest, Len(deferred)) /\ Room(Rest, Len(deferred) + 1)
           /\ Event \notin CheckEvents => \A m : Room(Rest, m)
           /\ Event \in CheckEvents => Len(deferred) < 3
<1>1. /\ sysQ \in Seq(EventTypes(asks)) /\ Len(deferred) \in Nat
      /\ Room(sysQ, Len(deferred))
  BY LenProperties DEF TypesInv, QueueTypes, RoomInv, Behind
<1>2. Event \in CheckEvents => 1 + Len(deferred) <= 3
  <2>1. Event = sysQ[1] /\ 1 \in DOMAIN sysQ
    BY <1>1, TailPlaces DEF Event
  <2>. QED BY <1>1, <2>1 DEF Room
<1>3. Event \in CheckEvents => Len(deferred) < 3
  BY <1>1, <1>2
<1>. QED BY <1>1, <1>3, RoomTail DEF Event, Rest

LEMMA RoomIdle ==
    ASSUME TypesInv, RoomInv, ~ Busy, sysQ # <<>>
    PROVE  Room(Rest, Len(deferred))
BY DEF RoomInv, Behind, Rest

\* An event that is no check is added to the queue.
LEMMA RoomOutside ==
    ASSUME NEW S, NEW q \in Seq(S), NEW e \in S, e \notin CheckEvents, NEW n, NEW busy,
           Room(IF busy \/ q = <<>> THEN q ELSE Tail(q), n)
    PROVE  /\ Append(q, e) \in Seq(S)
           /\ Room(IF busy \/ Append(q, e) = <<>> THEN Append(q, e)
                   ELSE Tail(Append(q, e)), n)
<1>1. Append(q, e) \in Seq(S) /\ Append(q, e) # <<>>
  BY AppendProperties
<1>2. CASE busy
  BY <1>1, <1>2, RoomAppend
<1>3. CASE ~ busy /\ q = <<>>
  <2>1. Tail(Append(q, e)) = <<>>
    BY <1>3
  <2>. QED BY <1>1, <1>3, <2>1, RoomEmpty
<1>4. CASE ~ busy /\ q # <<>>
  <2>1. Tail(Append(q, e)) = Append(Tail(q), e) /\ Tail(q) \in Seq(S)
    BY <1>4
  <2>2. Room(Append(Tail(q), e), n)
    BY <1>4, <2>1, RoomAppend
  <2>. QED BY <1>1, <1>4, <2>1, <2>2
<1>. QED BY <1>2, <1>3, <1>4

LEMMA RoomStart ==
    ASSUME NEW b \in {"Boot", "App"}
    PROVE  /\ StartQueue(b) # <<>>
           /\ Room(Tail(StartQueue(b)), Len(<<>>))
<1>. DEFINE q == StartQueue(b)
            t == Tail(q)
<1>1. q \in Seq(CheckEvents) /\ q # <<>> /\ Len(q) \in {1, 4}
  BY StartTypes
<1>2. t \in Seq(CheckEvents) /\ Len(t) \in {0, 3}
  BY <1>1, TailPlaces
<1>. HIDE DEF q, t
<1>3. ASSUME NEW i \in DOMAIN t
      PROVE  i + 0 <= 3 /\ \A j \in 1 .. i : t[j] \in CheckEvents
  BY <1>2
<1>4. Len(<<>>) = 0
  OBVIOUS
<1>. QED BY <1>1, <1>3, <1>4 DEF Room, q, t

LEMMA RoomHandler ==
    ASSUME TypesInv, RoomInv, Handler
    PROVE  RoomInv'
<1>. DEFINE n == Len(deferred)
<1>1. /\ sysQ # <<>> /\ asks \in Nat /\ Event \in EventTypes(asks) /\ n \in Nat
      /\ Rest \in Seq(EventTypes(asks)) /\ deferred \in Seq(WaitingTypes(asks))
  <2>1. sysQ # <<>>
    BY DEF Handler, IdleGet, IdleFullReset, IdleCheck, IdleDrops, BusyDefers,
           BusyIgnoresReset, BusyTimesOut, OpDone, DBRead, AccessDone, CheckMatches,
           CheckMismatches, Takes
  <2>. QED BY <2>1, Taken, LenProperties DEF TypesInv, QueueTypes
<1>2. \A e \in CheckEvents : e.sig = "DB_INTRNL_CHK_ELEM"
  BY DEF CheckEvents
<1>3. CASE IdleGet \/ IdleFullReset \/ IdleCheck
  <2>1. Room(Rest, n)
    BY <1>1, <1>3, RoomIdle DEF IdleGet, IdleFullReset, IdleCheck
  <2>2. PICK e : e = [Event EXCEPT !.sig = "DB_READ"]
    OBVIOUS
  <2>3. Event.sig = "DB_GET_ELEM" => e \in EventTypes(asks) /\ e.sig = "DB_READ"
    <3>1. Event.sig = "DB_GET_ELEM" => Event \in GetEvents(asks)
      BY <1>1, HeadTypes
    <3>. QED BY <1>1, <2>2, <3>1, NewEvents DEF EventTypes, GetEvents
  <2>4. sysQ' = Rest \/ (sysQ' = Append(Rest, e) /\ Event.sig = "DB_GET_ELEM")
    BY <1>3, <2>2 DEF IdleGet, IdleFullReset, IdleCheck, Takes
  <2>5. Room(sysQ', n)
    BY <1>1, <1>2, <2>1, <2>3, <2>4, RoomAppend
  <2>6. Busy' /\ deferred' = deferred
    BY <1>3 DEF IdleGet, IdleFullReset, IdleCheck, GoBusy, Busy
  <2>. QED BY <2>5, <2>6 DEF RoomInv, Behind
<1>4. CASE IdleDrops
  <2>1. Room(Rest, n)
    BY <1>1, <1>4, RoomIdle DEF IdleDrops
  <2>2. Rest # <<>> => Room(Tail(Rest), n)
    BY <1>1, <2>1, RoomTail
  <2>3. sysQ' = Rest /\ deferred' = deferred
    BY <1>4 DEF IdleDrops
  <2>. QED BY <2>1, <2>2, <2>3 DEF RoomInv, Behind
<1>5. CASE BusyDefers
  <2>1. /\ Room(Rest, n) /\ Room(Rest, n + 1)
        /\ Event \notin CheckEvents => \A m : Room(Rest, m)
    BY <1>1, <1>5, RoomBusy DEF BusyDefers
  <2>2. Event \in WaitingTypes(asks)
    BY <1>1, <1>5, HeadTypes DEF BusyDefers, Takes, Waiting, WaitingTypes
  <2>3. Len(Append(deferred, Event)) = n + 1
    BY <1>1, <2>2, AppendProperties
  <2>4. sysQ' = Rest /\ Busy' /\ (deferred' = deferred \/ deferred' = Append(deferred, Event))
    BY <1>5 DEF BusyDefers, mgr, Busy
  <2>. QED BY <2>1, <2>3, <2>4 DEF RoomInv, Behind
<1>6. CASE BusyIgnoresReset \/ DBRead \/ AccessDone \/ CheckMismatches
  <2>1. Busy
    BY <1>6 DEF BusyIgnoresReset, DBRead, AccessDone, CheckMismatches, Busy
  <2>2. Room(Rest, n)
    BY <1>1, <2>1, RoomBusy
  <2>. DEFINE flash == Simple("DB_FLASH_READ_DONE")
              done  == Simple("DB_OP_DONE")
  <2>3. /\ flash \in EventTypes(asks) /\ flash.sig = "DB_FLASH_READ_DONE"
        /\ done \in EventTypes(asks) /\ done.sig = "DB_OP_DONE"
    BY <1>1, NewEvents DEF EventTypes, Simple
  <2>4. /\ deferred' = deferred /\ Busy'
        /\ sysQ' = Rest \/ sysQ' = Append(Rest, flash) \/ sysQ' = Append(Rest, done)
    BY <1>6, <2>1 DEF BusyIgnoresReset, DBRead, AccessDone, CheckMismatches, mgr, Busy
  <2>. HIDE DEF flash, done
  <2>5. Room(Append(Rest, flash), n) /\ Room(Append(Rest, done), n)
    <3>1. flash \notin CheckEvents /\ done \notin CheckEvents
      BY <1>2, <2>3
    <3>. QED BY <1>1, <2>2, <2>3, <3>1, RoomAppend
  <2>. QED BY <2>2, <2>4, <2>5 DEF RoomInv, Behind
<1>7. CASE BusyTimesOut \/ OpDone \/ CheckMatches
  <2>1. Busy /\ Event.sig # "DB_INTRNL_CHK_ELEM"
    BY <1>7 DEF BusyTimesOut, OpDone, CheckMatches, Takes, Timeouts, Busy
  <2>2. \A m : Room(Rest, m)
    BY <1>1, <1>2, <2>1, RoomBusy
  <2>3. GoIdle(err, data) \/ GoIdle(FALSE, data)
    BY <1>7 DEF BusyTimesOut, OpDone, CheckMatches
  <2>4. Recall(Rest) /\ ~ Busy'
    BY <2>3 DEF GoIdle, Busy
  <2>5. CASE deferred = <<>>
    <3>1. sysQ' = Rest
      BY <2>4, <2>5 DEF Recall
    <3>2. Rest # <<>> => \A m \in Nat : Room(Tail(Rest), m)
      BY <1>1, <2>2, RoomTail
    <3>3. deferred' = deferred
      BY <2>4, <2>5 DEF Recall
    <3>. QED BY <1>1, <2>2, <2>4, <3>1, <3>2, <3>3 DEF RoomInv, Behind
  <2>6. CASE deferred # <<>>
    <3>1. PICK d : d = Head(deferred)
      OBVIOUS
    <3>2. d \in EventTypes(asks) /\ sysQ \in Seq(EventTypes(asks))
      BY <1>1, <2>6, <3>1, TailHeld, EventsGrow DEF TypesInv, QueueTypes
    <3>3. sysQ' = <<d>> \o Tail(sysQ)
      BY <2>4, <2>6, <3>1 DEF Recall, Rest
    <3>4. sysQ' # <<>> /\ Tail(sysQ') = Rest
      <4>1. sysQ' = [sysQ EXCEPT ![1] = d] /\ 1 \in DOMAIN sysQ'
        BY <1>1, <3>2, <3>3, FrontPlaces, TailPlaces
      <4>2. Tail(sysQ') = Rest
        BY <1>1, <3>2, <4>1, TailOfFront DEF Rest
      <4>. QED BY <4>1, <4>2
    <3>. QED BY <2>2, <2>4, <3>4 DEF RoomInv, Behind
  <2>. QED BY <2>5, <2>6
<1>. QED BY <1>3, <1>4, <1>5, <1>6, <1>7 DEF Handler

LEMMA RoomNext ==
    ASSUME TypesInv, RoomInv, [SysDBNext]_vars
    PROVE  RoomInv'
<1>. DEFINE n == Len(deferred)
            R(q) == Room(IF Busy \/ q = <<>> THEN q ELSE Tail(q), n)
<1>0. /\ R(sysQ) /\ asks \in Nat /\ asks + 1 \in Nat /\ sysQ \in Seq(EventTypes(asks))
      /\ sysQ \in Seq(EventTypes(asks + 1)) /\ asks + 1 \in 1 .. asks + 1
  <2>1. R(sysQ)
    BY DEF RoomInv, Behind
  <2>2. asks \in Nat /\ asks + 1 \in Nat /\ sysQ \in Seq(EventTypes(asks))
        /\ asks + 1 \in 1 .. asks + 1
    BY DEF TypesInv, QueueTypes
  <2>3. sysQ \in Seq(EventTypes(asks + 1))
    BY <2>2, EventsGrow, SeqGrows
  <2>. QED BY <2>1, <2>2, <2>3
<1>1. ASSUME NEW S, NEW q \in Seq(S), NEW e \in S, e.sig # "DB_INTRNL_CHK_ELEM", R(q)
      PROVE  Append(q, e) \in Seq(S) /\ R(Append(q, e))
  <2>1. e \notin CheckEvents
    BY <1>1 DEF CheckEvents
  <2>. QED BY <1>1, <2>1, RoomOutside
<1>2. ASSUME R(sysQ'), st' = st, deferred' = deferred
      PROVE  RoomInv'
  BY <1>2 DEF RoomInv, Behind, Busy
<1>. HIDE DEF R
<1>3. CASE Handler
  BY <1>3, RoomHandler
<1>4. CASE TimersExpire
  <2>. DEFINE a == Simple("SYS_MGR_TIMEOUT")
              b == Simple("DB_ACCESS_TIMEOUT")
  <2>1. /\ a \in EventTypes(asks) /\ a.sig = "SYS_MGR_TIMEOUT"
        /\ b \in EventTypes(asks) /\ b.sig = "DB_ACCESS_TIMEOUT"
    BY <1>0, NewEvents DEF EventTypes, Simple
  <2>2. /\ \/ sysQ' = sysQ \o <<a, b>> \/ sysQ' = sysQ \o <<b, a>>
           \/ sysQ' = Append(sysQ, a) \/ sysQ' = Append(sysQ, b)
        /\ st' = st /\ deferred' = deferred
    BY <1>4 DEF TimersExpire
  <2>. HIDE DEF a, b
  <2>3. /\ Append(sysQ, a) \in Seq(EventTypes(asks)) /\ R(Append(sysQ, a))
        /\ Append(sysQ, b) \in Seq(EventTypes(asks)) /\ R(Append(sysQ, b))
    BY <1>0, <1>1, <2>1
  <2>4. R(Append(Append(sysQ, a), b)) /\ R(Append(Append(sysQ, b), a))
    BY <1>1, <2>1, <2>3
  <2>5. /\ sysQ \o <<a, b>> = Append(Append(sysQ, a), b)
        /\ sysQ \o <<b, a>> = Append(Append(sysQ, b), a)
    BY <1>0
  <2>6. R(sysQ')
    BY <2>2, <2>3, <2>4, <2>5
  <2>. QED BY <1>2, <2>2, <2>6
<1>5. CASE I2CServes \/ I2CFails
  <2>1. i2cQ # <<>> /\ Head(i2cQ) \in RequestTypes /\ eeprom \in [Elems -> Values]
    BY <1>5, TailHeld DEF I2CServes, I2CFails, TypesInv, QueueTypes, MgrTypes
  <2>2. PICK ok \in BOOLEAN : Publish(Head(i2cQ), ok)
    BY <1>5 DEF I2CServes, I2CFails
  <2>3. PICK e : e = Answer(Sig(Head(i2cQ)), ok, Head(i2cQ).elem,
                            Read(Head(i2cQ)), Head(i2cQ).by)
    OBVIOUS
  <2>4. e \in AnswerEvents
    BY <2>1, <2>3, AnswerTypes
  <2>5. e \in EventTypes(asks) /\ e.sig # "DB_INTRNL_CHK_ELEM"
    BY <2>4 DEF EventTypes, AnswerEvents, Answers
  <2>6. sysQ' = Append(sysQ, e) /\ deferred' = deferred /\ st' = st
    BY <2>2, <2>3 DEF Publish, mgr
  <2>7. R(sysQ')
    BY <1>0, <1>1, <2>5, <2>6
  <2>. QED BY <1>2, <2>6, <2>7
<1>6. CASE CommAsks
  <2>1. \/ \E e \in ReadElems, a \in {"QPC", "BARE"} : sysQ' = Append(sysQ, Get(e, a, asks + 1))
        \/ sysQ' = Append(sysQ, FullReset(asks + 1))
        \/ sysQ' = sysQ
    BY <1>6 DEF CommAsks, ReadElems
  <2>2. \/ \E x \in EventTypes(asks + 1) : /\ x.sig # "DB_INTRNL_CHK_ELEM"
                                           /\ sysQ' = Append(sysQ, x)
        \/ sysQ' = sysQ
    <3>1. ASSUME NEW e \in ReadElems, NEW a \in {"QPC", "BARE"}
          PROVE  /\ Get(e, a, asks + 1) \in EventTypes(asks + 1)
                 /\ Get(e, a, asks + 1).sig = "DB_GET_ELEM"
      BY <1>0, NewEvents DEF EventTypes, Get
    <3>2. /\ FullReset(asks + 1) \in EventTypes(asks + 1)
          /\ FullReset(asks + 1).sig = "DB_FULL_RESET"
      BY <1>0, NewEvents DEF EventTypes, FullReset
    <3>. QED BY <2>1, <3>1, <3>2
  <2>3. R(sysQ')
    BY <1>0, <1>1, <2>2
  <2>4. st' = st /\ deferred' = deferred
    BY <1>6 DEF CommAsks, mgr
  <2>. QED BY <1>2, <2>3, <2>4
<1>7. CASE Restart
  <2>1. sysQ' = StartQueue(build') /\ build' \in {"Boot", "App"} /\ ~ Busy' /\ deferred' = <<>>
    BY <1>7 DEF Restart, Busy
  <2>. QED BY <2>1, RoomStart DEF RoomInv, Behind
<1>8. CASE UNCHANGED vars
  BY <1>8 DEF vars, RoomInv, Behind, Busy
<1>. QED BY <1>3, <1>4, <1>5, <1>6, <1>7, <1>8 DEF SysDBNext

LEMMA RoomInvariant == SysDBSpec => []RoomInv
<1>1. SysDBInit => RoomInv
  BY RoomStart DEF SysDBInit, RoomInv, Behind, Busy
<1>2. TypesInv /\ RoomInv /\ [SysDBNext]_vars => RoomInv'
  BY RoomNext
<1>. QED BY <1>1, <1>2, TypesInvariant, PTL DEF SysDBSpec

-----------------------------------------------------------------------------
(* The start-up checks repair the database *)

\* The check of x is to come or under way.
ToCheck(x) ==
    \/ Check(x) \in Held(sysQ) \cup Held(deferred)
    \/ cmd = "INTERNAL" /\ elem = x

\* It is right, or CommMgr has written it.
IsRight(x) == eeprom[x] = "dflt" \/ x \in touched

LEMMA RepairKept ==
    ASSUME RepairInv, build' = build, quiet' => quiet,
           \A x \in Repairs : build = "Boot" /\ quiet' =>
               /\ IsRight(x) => IsRight(x)'
               /\ ToCheck(x) => ToCheck(x)' \/ IsRight(x)'
    PROVE  RepairInv'
<1>1. ASSUME NEW x \in Repairs, build = "Boot", quiet'
      PROVE  IsRight(x)' \/ ToCheck(x)'
  <2>1. IsRight(x) \/ ToCheck(x)
    BY <1>1 DEF RepairInv, IsRight, ToCheck
  <2>. QED BY <1>1, <2>1
<1>2. \A x \in Repairs : Check(x)' = Check(x)
  BY DEF Check
<1>. QED BY <1>1, <1>2 DEF RepairInv, IsRight, ToCheck

\* Taking an event that is no check loses no check.
LEMMA ChecksStay ==
    ASSUME TypesInv, sysQ # <<>>, Event.sig # "DB_INTRNL_CHK_ELEM", NEW x,
           Check(x) \in Held(sysQ)
    PROVE  Check(x) \in Held(Rest)
<1>1. Check(x) # Event
  BY DEF Check
<1>2. sysQ \in Seq(EventTypes(asks))
  BY DEF TypesInv, QueueTypes
<1>. QED BY <1>1, <1>2, TailHeld DEF Event, Rest

LEMMA RepairHandler ==
    ASSUME 3 <= DeferMax, DataInv, RoomInv, RepairInv, Handler
    PROVE  RepairInv'
<1>1. /\ sysQ # <<>> /\ asks \in Nat /\ Event \in EventTypes(asks)
      /\ Rest \in Seq(EventTypes(asks)) /\ sysQ \in Seq(EventTypes(asks))
      /\ deferred \in Seq(WaitingTypes(asks)) /\ build \in {"Boot", "App"} /\ TypesInv
  <2>1. sysQ # <<>>
    BY DEF Handler, IdleGet, IdleFullReset, IdleCheck, IdleDrops, BusyDefers,
           BusyIgnoresReset, BusyTimesOut, OpDone, DBRead, AccessDone, CheckMatches,
           CheckMismatches, Takes
  <2>. QED BY <2>1, Taken DEF TypesInv, QueueTypes, MgrTypes, DataInv
<1>2. build' = build /\ eeprom' = eeprom /\ touched' = touched
  BY DEF Handler, IdleGet, IdleFullReset, IdleCheck, IdleDrops, BusyDefers,
         BusyIgnoresReset, BusyTimesOut, OpDone, DBRead, AccessDone, CheckMatches,
         CheckMismatches, GoIdle, GoBusy, env, seen
<1>3. quiet' => quiet
  <2>1. AccessDone \/ CheckMatches \/ CheckMismatches =>
           quiet' = quiet \/ quiet' = (quiet /\ Event.by = "Sys")
    BY DEF AccessDone, CheckMatches, CheckMismatches
  <2>2. AccessDone \/ CheckMatches \/ CheckMismatches => (quiet' => quiet)
    BY <2>1, Zenon
  <2>3. IdleGet \/ IdleFullReset \/ IdleCheck \/ IdleDrops \/ BusyDefers
        \/ BusyIgnoresReset \/ BusyTimesOut \/ OpDone \/ DBRead => quiet' = quiet
    BY DEF IdleGet, IdleFullReset, IdleCheck, IdleDrops, BusyDefers, BusyIgnoresReset,
           BusyTimesOut, OpDone, DBRead, GoBusy
  <2>. QED BY <2>2, <2>3 DEF Handler
<1>4. SUFFICES ASSUME NEW x \in Repairs, build = "Boot", quiet', ToCheck(x)
               PROVE  ToCheck(x)' \/ IsRight(x)
  BY <1>2, <1>3, RepairKept DEF IsRight
<1>5. Event.sig # "DB_INTRNL_CHK_ELEM" => (Check(x) \in Held(sysQ) => Check(x) \in Held(Rest))
  BY <1>1, ChecksStay
<1>6. Check(x)' = Check(x)
  BY DEF Check
<1>7. CASE IdleGet \/ IdleFullReset \/ IdleDrops
  <2>1. Event.sig # "DB_INTRNL_CHK_ELEM" /\ cmd = "NONE"
    BY <1>1, <1>7 DEF IdleGet, IdleFullReset, IdleDrops, Takes, Waiting, Busy, MgrTypes,
                      TypesInv, CommandFits
  <2>2. PICK e : e = [Event EXCEPT !.sig = "DB_READ"]
    OBVIOUS
  <2>3. Event.sig = "DB_GET_ELEM" => e \in EventTypes(asks)
    <3>1. Event.sig = "DB_GET_ELEM" => Event \in GetEvents(asks)
      BY <1>1, HeadTypes
    <3>. QED BY <1>1, <2>2, <3>1, NewEvents DEF EventTypes, GetEvents
  <2>4. /\ sysQ' = Rest \/ (sysQ' = Append(Rest, e) /\ Event.sig = "DB_GET_ELEM")
        /\ deferred' = deferred
    BY <1>7, <2>2 DEF IdleGet, IdleFullReset, IdleDrops, Takes, GoBusy
  <2>5. Held(Rest) \subseteq Held(sysQ')
    BY <1>1, <2>3, <2>4, AppendHeld
  <2>. QED BY <1>4, <1>5, <2>1, <2>4, <2>5 DEF ToCheck
<1>8. CASE IdleCheck
  <2>1. /\ sysQ' = Rest /\ deferred' = deferred
        /\ cmd' = "INTERNAL" /\ elem' = Event.elem
    BY <1>8 DEF IdleCheck, GoBusy
  <2>4. cmd = "NONE"
    BY <1>1, <1>8 DEF IdleCheck, Busy, MgrTypes, TypesInv, CommandFits
  <2>2. Check(x) \in Held(sysQ) => Check(x) = Event \/ Check(x) \in Held(Rest)
    BY <1>1, TailHeld DEF Event, Rest
  <2>3. Check(x).elem = x
    BY DEF Check
  <2>. QED BY <1>4, <2>1, <2>2, <2>3, <2>4 DEF ToCheck
<1>9. CASE BusyDefers
  <2>1. sysQ' = Rest /\ cmd' = cmd /\ elem' = elem
    BY <1>9 DEF BusyDefers, mgr
  <2>2. Check(x) \in Held(sysQ) => Check(x) = Event \/ Check(x) \in Held(Rest)
    BY <1>1, TailHeld DEF Event, Rest
  <2>3. Held(deferred) \subseteq Held(deferred') /\ (Check(x) = Event => Event \in Held(deferred'))
    <3>1. Event \in WaitingTypes(asks)
      BY <1>1, <1>9, HeadTypes DEF BusyDefers, Takes, Waiting, WaitingTypes
    <3>2. Held(Append(deferred, Event)) = Held(deferred) \cup {Event}
      BY <1>1, <3>1, AppendHeld
    <3>3. Check(x) = Event => deferred' = Append(deferred, Event)
      <4>1. Check(x) = Event => Event \in CheckEvents
        BY DEF Check, CheckEvents, Repairs, Elems
      <4>2. Event \in CheckEvents => Len(deferred) < 3
        BY <1>1, <1>9, RoomBusy DEF BusyDefers
      <4>3. Len(deferred) < 3 => RoomToDefer
        <5>1. Len(deferred) \in Nat
          BY <1>1, LenProperties
        <5>. QED BY <5>1, SysDBAssumption DEF RoomToDefer
      <4>. QED BY <1>9, <4>1, <4>2, <4>3 DEF BusyDefers
    <3>4. deferred' = deferred \/ deferred' = Append(deferred, Event)
      BY <1>9 DEF BusyDefers
    <3>. QED BY <3>2, <3>3, <3>4
  <2>. QED BY <1>4, <2>1, <2>2, <2>3 DEF ToCheck
<1>10. CASE BusyIgnoresReset \/ DBRead \/ AccessDone \/ CheckMismatches
  <2>1. Event.sig # "DB_INTRNL_CHK_ELEM"
    BY <1>10 DEF BusyIgnoresReset, DBRead, AccessDone, CheckMismatches, Takes
  <2>. DEFINE flash == Simple("DB_FLASH_READ_DONE")
              done  == Simple("DB_OP_DONE")
  <2>2. flash \in EventTypes(asks) /\ done \in EventTypes(asks)
    BY <1>1, NewEvents DEF EventTypes
  <2>3. /\ deferred' = deferred /\ cmd' = cmd /\ elem' = elem
        /\ sysQ' = Rest \/ sysQ' = Append(Rest, flash) \/ sysQ' = Append(Rest, done)
    BY <1>10 DEF BusyIgnoresReset, DBRead, AccessDone, CheckMismatches, mgr
  <2>. HIDE DEF flash, done
  <2>4. Held(Rest) \subseteq Held(sysQ')
    <3>1. /\ Held(Append(Rest, flash)) = Held(Rest) \cup {flash}
          /\ Held(Append(Rest, done)) = Held(Rest) \cup {done}
      BY <1>1, <2>2, AppendHeld
    <3>. QED BY <2>3, <3>1
  <2>. QED BY <1>4, <1>5, <2>1, <2>3, <2>4 DEF ToCheck
<1>11. CASE BusyTimesOut \/ OpDone \/ CheckMatches
  <2>1. Event.sig # "DB_INTRNL_CHK_ELEM"
    BY <1>11 DEF BusyTimesOut, OpDone, CheckMatches, Takes, Timeouts
  <2>2. GoIdle(err, data) \/ GoIdle(FALSE, data)
    BY <1>11 DEF BusyTimesOut, OpDone, CheckMatches
  <2>3. Recall(Rest)
    BY <2>2 DEF GoIdle
  <2>4. /\ Held(Rest) \subseteq Held(sysQ')
        /\ Held(deferred) \subseteq Held(sysQ') \cup Held(deferred')
    BY <1>1, <2>3, RecallHeld
  <2>5. cmd = "INTERNAL" /\ elem = x => IsRight(x)
    <3>1. SUFFICES ASSUME cmd = "INTERNAL", elem = x PROVE IsRight(x)
      OBVIOUS
    <3>2. x \in Elems /\ x # "DBG"
      BY DEF Repairs, Elems
    <3>3. Default(build)[x] = "dflt"
      BY <1>4, <3>2, DefaultTypes
    <3>4. OpDone \/ CheckMatches
      BY <1>4, <1>11, FlowEnd DEF DataInv
    <3>5. CASE OpDone
      <4>1. Event.sig = "DB_OP_DONE" /\ Fits(Event)
        BY <1>4, <3>5, FlowEnd DEF DataInv, OpDone, Takes
      <4>. QED BY <3>1, <3>2, <3>3, <4>1 DEF Fits, Repaired, IsRight
    <3>6. CASE CheckMatches
      <4>1. /\ Event.sig = "I2C1_DEV_READ_DONE" /\ Event.by = "Sys" /\ Busy /\ quiet
            /\ Event.value = Default(build)[elem]
        BY <1>3, <1>4, <3>6 DEF CheckMatches, Takes, Busy, Matches
      <4>2. Fits(Event)
        BY <1>1, <4>1, OwnAnswer DEF DataInv, Answers
      <4>. QED BY <3>1, <3>3, <4>1, <4>2 DEF Fits, IsRight
    <3>. QED BY <3>4, <3>5, <3>6
  <2>. QED BY <1>4, <1>5, <2>1, <2>4, <2>5 DEF ToCheck
<1>. QED BY <1>7, <1>8, <1>9, <1>10, <1>11 DEF Handler

LEMMA RepairServes ==
    ASSUME DataInv, RepairInv, I2CServes
    PROVE  RepairInv'
<1>1. SUFFICES ASSUME quiet PROVE RepairInv'
  BY DEF RepairInv, I2CServes
<1>2. /\ i2cQ # <<>> /\ Head(i2cQ) \in RequestTypes /\ Head(i2cQ) \in Held(i2cQ)
      /\ TypesInv /\ asks \in Nat /\ sysQ \in Seq(EventTypes(asks))
      /\ eeprom \in [Elems -> Values]
  BY TailHeld DEF I2CServes, TypesInv, QueueTypes, MgrTypes, DataInv
<1>3. PICK r : r = Head(i2cQ)
  OBVIOUS
<1>4. PICK e : e = Answer(Sig(r), TRUE, r.elem, Read(r), r.by)
  OBVIOUS
<1>5. /\ sysQ' = Append(sysQ, e) /\ eeprom' = Programmed(r) /\ Touches(r)
      /\ UNCHANGED <<build, deferred, cmd, elem, quiet>>
  BY <1>3, <1>4 DEF I2CServes, Publish, mgr
<1>6. e \in EventTypes(asks)
  <2>1. e \in AnswerEvents
    BY <1>2, <1>3, <1>4, AnswerTypes
  <2>. QED BY <2>1 DEF EventTypes
<1>7. Held(sysQ') = Held(sysQ) \cup {e}
  BY <1>2, <1>5, <1>6, AppendHeld
<1>8. ASSUME NEW x \in Repairs, build = "Boot", IsRight(x)
      PROVE  IsRight(x)'
  <2>1. x \in Elems /\ Default(build)[x] = "dflt"
    BY <1>8, DefaultTypes DEF Repairs, Elems
  <2>2. r.op \in {"write", "reset"} => r \in OwnRequests
    BY <1>2, <1>3 DEF OwnRequests, RequestTypes
  <2>3. r.op = "write" => r.elem \in Elems /\ r.value = Default(build)[r.elem]
    BY <1>1, <1>2, <1>3, <2>2 DEF DataInv, FlowInv, Due, RequestTypes
  <2>4. r.op = "write" => r.value = "dflt"
    BY <1>8, <2>3, DefaultTypes
  <2>5. touched \subseteq touched'
    BY <1>5 DEF Touches
  <2>6. CASE r.op = "rawwrite"
    <3>1. x \in DOMAIN r.value => x \in touched'
      BY <1>5, <2>6 DEF Touches
    <3>2. x \notin DOMAIN r.value => eeprom'[x] = eeprom[x]
      BY <1>5, <2>1, <2>6 DEF Programmed
    <3>. QED BY <1>8, <2>5, <3>1, <3>2 DEF IsRight
  <2>7. CASE r.op # "rawwrite"
    BY <1>2, <1>5, <1>8, <2>1, <2>4, <2>5, <2>7 DEF Programmed, IsRight
  <2>. QED BY <2>6, <2>7
<1>9. ASSUME NEW x, ToCheck(x) PROVE ToCheck(x)'
  <2>1. Check(x)' = Check(x)
    BY DEF Check
  <2>. QED BY <1>5, <1>7, <1>9, <2>1 DEF ToCheck
<1>. QED BY <1>5, <1>8, <1>9, RepairKept

LEMMA RepairComm ==
    ASSUME TypesInv, RepairInv, CommAsks
    PROVE  RepairInv'
<1>1. /\ UNCHANGED <<build, eeprom, deferred, cmd, elem, touched, quiet>>
      /\ asks \in Nat /\ asks + 1 \in Nat /\ asks + 1 \in 1 .. asks + 1
      /\ sysQ \in Seq(EventTypes(asks + 1))
  <2>1. sysQ \in Seq(EventTypes(asks)) /\ asks \in Nat
    BY DEF TypesInv, QueueTypes
  <2>2. sysQ \in Seq(EventTypes(asks + 1))
    BY <2>1, EventsGrow, SeqGrows
  <2>. QED BY <2>1, <2>2 DEF CommAsks, mgr, seen
<1>2. (\E x \in EventTypes(asks + 1) : sysQ' = Append(sysQ, x)) \/ sysQ' = sysQ
  <2>1. ASSUME NEW e \in ReadElems, NEW a \in {"QPC", "BARE"}
        PROVE  Get(e, a, asks + 1) \in EventTypes(asks + 1)
    BY <1>1, NewEvents DEF EventTypes
  <2>2. FullReset(asks + 1) \in EventTypes(asks + 1)
    BY <1>1, NewEvents DEF EventTypes
  <2>3. \/ \E e \in ReadElems, a \in {"QPC", "BARE"} : sysQ' = Append(sysQ, Get(e, a, asks + 1))
        \/ sysQ' = Append(sysQ, FullReset(asks + 1))
        \/ sysQ' = sysQ
    BY DEF CommAsks, ReadElems
  <2>. QED BY <2>1, <2>2, <2>3
<1>3. Held(sysQ) \subseteq Held(sysQ')
  <2>1. ASSUME NEW x \in EventTypes(asks + 1)
        PROVE  Held(Append(sysQ, x)) = Held(sysQ) \cup {x}
    BY <1>1, AppendHeld
  <2>. QED BY <1>2, <2>1
<1>4. ASSUME NEW x, ToCheck(x) PROVE ToCheck(x)'
  <2>1. Check(x)' = Check(x)
    BY DEF Check
  <2>. QED BY <1>1, <1>3, <1>4, <2>1 DEF ToCheck
<1>. QED BY <1>1, <1>4, RepairKept DEF IsRight

LEMMA RepairNext ==
    ASSUME 3 <= DeferMax, DataInv, RoomInv, RepairInv, [SysDBNext]_vars
    PROVE  RepairInv'
<1>1. CASE Handler
  BY <1>1, RepairHandler
<1>2. CASE TimersExpire \/ I2CFails
  BY <1>2 DEF TimersExpire, I2CFails, RepairInv
<1>3. CASE I2CServes \/ CommAsks
  BY <1>3, RepairServes, RepairComm DEF DataInv
<1>4. CASE Restart
  <2>1. sysQ' = StartQueue(build') /\ build' \in {"Boot", "App"}
    BY <1>4 DEF Restart
  <2>2. build' = "Boot" => \A x \in Repairs : Check(x) \in Held(sysQ')
    BY <2>1, StartTypes
  <2>. QED BY <2>2 DEF RepairInv, Check
<1>5. CASE UNCHANGED vars
  BY <1>5 DEF vars, RepairInv
<1>. QED BY <1>1, <1>2, <1>3, <1>4, <1>5 DEF SysDBNext

LEMMA RepairInit == SysDBInit => RepairInv
BY StartTypes DEF SysDBInit, RepairInv

\* The bootloader's start-up checks leave a database that is there, of this
\* version and with this bootloader's own version, if no transfer fails,
\* whatever the EEPROM held and however many requests come meanwhile, but for
\* what CommMgr's raw writes change: the deferral queue need only hold the
\* three checks that wait behind the first (it takes 21 in SysMgr.c).
THEOREM ChecksDoRepair ==
    ASSUME 3 <= DeferMax
    PROVE  SysDBSpec => []ChecksRepair
<1>1. DataInv /\ RoomInv /\ RepairInv /\ [SysDBNext]_vars => RepairInv'
  BY RepairNext
<1>2. TypesInv /\ RepairInv => ChecksRepair
  <2>. SUFFICES ASSUME TypesInv, RepairInv, build = "Boot", quiet, ~ Checking,
                       NEW x \in Repairs \ touched
                PROVE  eeprom[x] = "dflt"
    BY DEF ChecksRepair, Repairs
  <2>1. Check(x).sig = "DB_INTRNL_CHK_ELEM"
    BY DEF Check
  <2>2. Check(x) \notin Held(sysQ) \cup Held(deferred)
    BY <2>1 DEF Checking, Held
  <2>3. cmd # "INTERNAL"
    BY DEF Checking, TypesInv, MgrTypes, CommandFits
  <2>. QED BY <2>2, <2>3 DEF RepairInv
<1>. QED BY <1>1, <1>2, RepairInit, TypesInvariant, DataInvariant, RoomInvariant, PTL
         DEF SysDBSpec
=============================================================================
