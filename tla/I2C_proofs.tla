------------------------------ MODULE I2C_proofs ------------------------------
(***************************************************************************)
(* The I2C stack for every size of EEPROM and page, every set of requests, *)
(* every length of the deferral queue and any number of faults, requests   *)
(* and Ethernet messages: the types, the order of the replies, what the    *)
(* EEPROM may hold, the step the two objects keep, and what a reply that   *)
(* reports success is worth.                                               *)
(***************************************************************************)
EXTENDS I2CSystem, Places_proofs

-----------------------------------------------------------------------------
(* Types *)

Data         == {Junk} \cup Seq(0 .. MaxReqs)
AnswerEvents == [sig : {"BusDone"}, err : {"none", "bus"}, data : Data]
OtherEvents  == [sig : {"Private", "OpTimeout", "PostWriteTimer", "DevTimeout"}]
Postings     == [op : {"read", "write"}, addr : Addrs, n : Nat,
                 acc : {"QPC", "FRT"}]

\* With n requests posted.
RequestEvents(n) == [sig : {"Request"}, id : 1 .. n]
Events(n)        == RequestEvents(n) \cup AnswerEvents \cup OtherEvents
ReplyTypes(n)    == [id : 1 .. n, ok : BOOLEAN, real : BOOLEAN, synced : BOOLEAN,
                     cut : BOOLEAN]

QueueTypes ==
    /\ devQ \in Seq(Events(Len(reqs)))
    /\ defq \in Seq(RequestEvents(Len(reqs))) /\ Len(defq) <= DeferMax
    /\ reqs \in Seq(Postings) /\ Len(reqs) <= MaxReqs
    /\ replies \in Seq(ReplyTypes(Len(reqs)))
    /\ dropped \subseteq Ids

TaskTypes ==
    /\ cplrQ \in Seq(Ids \cup {EthEvt})
    /\ task \in {"loop", "suspended", "woken"}

\* Bytes are left in the stream, and go out, only after a write was cut short.
LeftInv ==
    /\ armed \in BOOLEAN /\ cut \in BOOLEAN /\ leaked \in BOOLEAN
    /\ phase = "lost" => leaked
    /\ armed \/ leaked => cut

BusTypes ==
    /\ bst \in WaitStates \cup {"Idle"} /\ errorCode \in {"none", "bus"}
    /\ phase \in Phases /\ held \in BOOLEAN
    /\ ptr \in Addrs /\ mem \in [Addrs -> 0 .. MaxReqs]
    /\ faults \in 0 .. MaxFaults
    /\ xfer \in [n : Nat, data : 0 .. MaxReqs]
    /\ LeftInv


DevTypes ==
    /\ dst \in States /\ cur \in 0 .. Len(reqs)
    /\ dst = "Idle" <=> cur = 0
    /\ devErr \in {"none", "timeout", "bus", "invalid"}
    /\ done = NoneDone
    /\ page \in [idx : Nat, addr : Nat, size : Nat]
    /\ timers \subseteq Timers /\ (dst = "Idle" => timers = {})
    /\ synced \in BOOLEAN /\ late \in BOOLEAN

\* The operation posted is handled before I2C1DevMgr goes on.
CmdInv == cmd = NoCmd \/ (dst \in BusWaits /\ cmd = Operation(dst))

-----------------------------------------------------------------------------
(* What I2C1DevMgr does with a request *)

\* A page of a write as I2C_calcPageWriteSizes and NextPage divide it up.
PageOf(r, p) ==
    LET plan == PagePlan(r.addr, r.n) IN
    /\ p.idx \in 1 .. plan.total
    /\ p.idx = 1 => p.addr = r.addr /\ p.size = plan.first
    /\ p.idx # 1 =>
          /\ p.addr = r.addr + plan.first + (p.idx - 2) * PageSize
          /\ p.size = IF p.idx = plan.total /\ plan.last # 0 THEN plan.last
                      ELSE PageSize

Serving == dst \notin {"Idle", "ValidateRequest"}

RequestInv ==
    /\ dst = "ValidateRequest" => (devErr = "none" <=> Acceptable(Req))
    /\ Serving => Acceptable(Req)
    /\ dst # "Idle" /\ Req.op = "write" /\ Acceptable(Req) => PageOf(Req, page)
    /\ dst = "ValidateRequest" /\ Req.op = "write" /\ Acceptable(Req) => page.idx = 1
    /\ dst \in {"GenerateStart1", "Send7BitAddrRxMode", "ReadMem"} => Req.op = "read"
    /\ dst \in {"WriteMem", "PostWriteWait"} => Req.op = "write"

-----------------------------------------------------------------------------
(* Order *)

\* The numbers of the requests in a queue, in order.
Requested(q) == {i \in DOMAIN q : q[i].sig = "Request"}
Numbers(q)   == {q[i].id : i \in Requested(q)}
Sorted(q)    == \A i, j \in Requested(q) : i < j => q[i].id < q[j].id

\* The request being served comes first, or, in Idle, the one recalled; then
\* the deferred ones, then those left in the queue.
Recalls == dst = "Idle" /\ defq # <<>>
Serves  == IF Recalls THEN {devQ[1].id} ELSE IF dst = "Idle" THEN {} ELSE {cur}
Left    == IF Recalls THEN Tail(devQ) ELSE devQ

Replied == {replies[k].id : k \in DOMAIN replies}

OrderInv ==
    /\ Recalls => devQ # <<>> /\ devQ[1].sig = "Request"
    /\ Older(Replied, Serves) /\ Older(Replied, Numbers(defq))
    /\ Older(Replied, Numbers(Left))
    /\ Older(Serves, Numbers(defq)) /\ Older(Serves, Numbers(Left))
    /\ Older(Numbers(defq), Numbers(Left))
    /\ Sorted(defq) /\ Sorted(Left)
    /\ RepliesInOrder

-----------------------------------------------------------------------------
(* The EEPROM *)

\* n bytes from a stay in one page and in the range of the request with the
\* number k, a write that was accepted.
InsideRequest(k, a, n) ==
    /\ k \in Ids /\ reqs[k].op = "write" /\ Acceptable(reqs[k])
    /\ reqs[k].addr <= a /\ a + n <= reqs[k].addr + reqs[k].n
    /\ (a % PageSize) + n <= PageSize

\* The address I2C1DevMgr sends to the EEPROM.
Target == IF Req.op = "write" THEN page.addr ELSE Req.addr

\* Every byte that was written lies in the range of its write.
Stored == \A a \in Addrs : mem[a] # 0 => InsideRequest(mem[a], a, 1)

\* Where a transfer goes that the peripheral is ready for: an operation that
\* was not handled or failed leaves no peripheral ready for the next.
AimInv ==
    /\ bst = "WaitForBusToSettle" => phase = "none"
    /\ dst = "SendInternalAddr" /\ cmd = NoCmd /\ bst = "Idle" /\ phase = "addr"
          => ptr = Target
    /\ dst = "WriteMem" /\ cmd # NoCmd /\ bst = "Idle" /\ phase = "addr"
          => ptr = Target
    /\ bst = "WaitForDMAWriteDone" /\ phase = "addr"
          => InsideRequest(xfer.data, ptr, xfer.n)
    /\ leaked \/ Stored

-----------------------------------------------------------------------------
(* In step *)

\* The answers of the bus object in a queue.
Count(q) == Cardinality(Positions(q, AnswerEvents))

NoTimeout(q) ==
    \A i \in DOMAIN q : q[i].sig \notin {"OpTimeout", "DevTimeout"}

\* As many answers are to come as the state waits for.
InStep(q, b, c, s) ==
    Count(q) + (IF b = "Idle" THEN 0 ELSE 1) + (IF c = NoCmd THEN 0 ELSE 1)
        = IF s \in BusWaits THEN 1 ELSE 0

StepInv ==
    /\ ~ late => NoTimeout(devQ) /\ InStep(devQ, bst, cmd, dst)
    /\ synced /\ Serving => InStep(devQ, bst, cmd, dst)
    /\ "op" \in timers => dst \in BusWaits

-----------------------------------------------------------------------------
(* What a reply is worth *)

Success(q) == \E i \in DOMAIN q : q[i].sig = "BusDone" /\ q[i].err = "none"

InMem(a) == \A b \in Req.addr .. a - 1 : mem[b] = cur

ReadData == [i \in 1 .. Req.n |-> mem[Req.addr + i - 1]]

NoAnswer(q) == \A i \in DOMAIN q : q[i].sig # "BusDone"

\* Where the EEPROM's address counter is.
AddressTruth ==
    /\ dst = "SendInternalAddr" /\ Success(devQ) => ptr = Target
    /\ dst \in {"GenerateStart1", "Send7BitAddrRxMode"} => ptr = Req.addr
    /\ dst = "ReadMem" /\ NoAnswer(devQ) => ptr = Req.addr

\* What the bus object waits for.
WaitTruth ==
    bst # "Idle" =>
        \/ dst = "CheckingBus" /\ bst = "WaitForBusToSettle"
        \/ dst = "ReadMem" /\ bst = "WaitForDMAReadDone" /\ xfer.n = Req.n
        \/ /\ dst = "WriteMem" /\ bst = "WaitForDMAWriteDone"
           /\ xfer.n = page.size /\ xfer.data = cur
           /\ phase = "addr" => ptr = page.addr

\* The answer to a read is the data, unless a timeout comes before it.
ReadTruth ==
    dst = "ReadMem" =>
        /\ "op" \notin timers /\ NoAnswer(devQ) =>
              \E i \in DOMAIN devQ : devQ[i].sig = "OpTimeout"
        /\ \A i \in DOMAIN devQ :
              devQ[i].sig = "BusDone" /\ devQ[i].err = "none" =>
                 \/ devQ[i].data = ReadData
                 \/ \E j \in DOMAIN devQ : j < i /\ devQ[j].sig = "OpTimeout"

\* The pages before this one are in the EEPROM, and so is this one when it was
\* written.
WriteTruth ==
    Req.op = "write" =>
        /\ InMem(page.addr)
        /\ dst = "PostWriteWait" => InMem(page.addr + page.size)
        /\ dst = "WriteMem" /\ Success(devQ) => InMem(page.addr + page.size)

\* In step with the bus, and with no bytes left over from a write cut short,
\* I2C1DevMgr knows what the answer it gets is worth.
TruthInv ==
    synced /\ Serving /\ ~ cut => AddressTruth /\ WaitTruth /\ ReadTruth /\ WriteTruth

-----------------------------------------------------------------------------
(* Pages *)

LEMMA DivMod ==
    ASSUME NEW a \in Nat, NEW m \in Nat \ {0}
    PROVE  /\ a \div m \in Nat /\ a % m \in 0 .. m - 1
           /\ a = (a \div m) * m + (a % m) /\ (a \div m) * m \in Nat
<1>. DEFINE q == a \div m
            r == a % m
<1>1. q \in Nat /\ r \in 0 .. m - 1 /\ a - q * m = r
  OBVIOUS
<1>. HIDE DEF q, r
<1>2. q * m \in Nat
  BY <1>1
<1>3. a = q * m + r
  BY <1>1, <1>2
<1>. QED BY <1>1, <1>2, <1>3, Zenon DEF q, r

LEMMA Multiples ==
    ASSUME NEW p \in Nat, NEW q \in Nat, NEW m \in Nat \ {0}, p < q
    PROVE  p * m + m <= q * m /\ p * m \in Nat /\ q * m \in Nat
<1>1. PICK d \in Nat : q = p + 1 + d
  <2>1. q - p - 1 \in Nat /\ q = p + 1 + (q - p - 1)
    OBVIOUS
  <2>. QED BY <2>1
<1>2. q * m = p * m + m + d * m /\ d * m \in Nat /\ p * m \in Nat
  BY <1>1
<1>. QED BY <1>2

LEMMA OneMore ==
    ASSUME NEW p \in Nat, NEW m \in Nat \ {0}
    PROVE  (p + 1) * m = p * m + m /\ p * m \in Nat
OBVIOUS

LEMMA Distributed ==
    ASSUME NEW p \in Nat, NEW q \in Nat, NEW m \in Nat \ {0}
    PROVE  (p + q) * m = p * m + q * m
OBVIOUS

LEMMA ModOfSum ==
    ASSUME NEW q \in Nat, NEW m \in Nat \ {0}, NEW r \in 0 .. m - 1
    PROVE  (q * m + r) % m = r /\ (q * m + r) \div m = q
<1>. DEFINE a == q * m + r
            u == a \div m
            v == a % m
<1>1. a \in Nat /\ q * m \in Nat
  OBVIOUS
<1>2. u \in Nat /\ v \in 0 .. m - 1 /\ a = u * m + v /\ u * m \in Nat
  BY <1>1, DivMod
<1>. HIDE DEF u, v
<1>3. u = q
  <2>1. ~ (u < q)
    <3>1. SUFFICES ASSUME u < q PROVE FALSE
      OBVIOUS
    <3>2. u * m + m <= q * m
      BY <1>2, <3>1, Multiples
    <3>. QED BY <1>1, <1>2, <3>2
  <2>2. ~ (q < u)
    <3>1. SUFFICES ASSUME q < u PROVE FALSE
      OBVIOUS
    <3>2. q * m + m <= u * m
      BY <1>2, <3>1, Multiples
    <3>. QED BY <1>1, <1>2, <3>2
  <2>. QED BY <1>2, <2>1, <2>2
<1>4. v = r
  BY <1>1, <1>2, <1>3
<1>. QED BY <1>3, <1>4 DEF u, v

\* The numbers of I2C_calcPageWriteSizes.
LEMMA PlanFacts ==
    ASSUME NEW addr \in Nat, NEW n \in Nat \ {0}
    PROVE  LET plan == PagePlan(addr, n) IN
           /\ PageSize \in Nat \ {0}
           /\ plan.first \in 1 .. n /\ plan.last \in 0 .. PageSize - 1
           /\ (addr % PageSize) + plan.first <= PageSize
           /\ plan.total \in Nat \ {0}
           /\ n > plan.first => (addr + plan.first) % PageSize = 0
           /\ plan.total = 1 <=> n = plan.first
           /\ n > plan.first /\ plan.last # 0 =>
                 n = plan.first + (plan.total - 2) * PageSize + plan.last
           /\ n > plan.first /\ plan.last = 0 =>
                 n = plan.first + (plan.total - 1) * PageSize
<1>0. PageSize \in Nat \ {0}
  BY BusAssumption
<1>. DEFINE q == addr \div PageSize
            space == (q + 1) * PageSize - addr
            first == Lesser(space, n)
            l == (n - first) % PageSize
            k == (n - first) \div PageSize
            plan == PagePlan(addr, n)
<1>1. /\ q \in Nat /\ addr % PageSize \in 0 .. PageSize - 1
      /\ addr = q * PageSize + (addr % PageSize) /\ q * PageSize \in Nat
  BY <1>0, DivMod
<1>2. (q + 1) * PageSize = q * PageSize + PageSize
  BY <1>0, <1>1
<1>. HIDE DEF q
<1>3. space = PageSize - (addr % PageSize) /\ space \in 1 .. PageSize
  <2>. DEFINE o == addr % PageSize
  <2>1. o \in 0 .. PageSize - 1 /\ addr = q * PageSize + o
    BY <1>1, Zenon
  <2>. HIDE DEF o
  <2>2. space = PageSize - o
    BY <1>0, <1>1, <1>2, <2>1
  <2>3. space \in 1 .. PageSize
    BY <1>0, <2>1, <2>2
  <2>. QED BY <2>2, <2>3, Zenon DEF o
<1>4. /\ first \in 1 .. n /\ first <= space /\ (n > first => first = space)
      /\ n - first \in Nat
  BY <1>3 DEF Lesser
<1>5. /\ k \in Nat /\ l \in 0 .. PageSize - 1 /\ n - first = k * PageSize + l
      /\ k * PageSize \in Nat
  BY <1>0, <1>4, DivMod
<1>6. /\ plan.first = first /\ plan.last = l
      /\ n > first /\ l = 0 => plan.total = k + 1
      /\ n > first /\ l # 0 => plan.total = k + 2
      /\ ~ (n > first) => plan.total = 1
  BY DEF PagePlan, q, first, space, l, k
<1>. HIDE DEF first, space, l, k, plan
<1>7. plan.total \in Nat \ {0}
  BY <1>5, <1>6
<1>8. n > first => k # 0 \/ l # 0
  <2>1. k = 0 => k * PageSize = 0
    BY <1>0
  <2>. QED BY <1>4, <1>5, <2>1
<1>9. plan.total = 1 <=> n = first
  BY <1>4, <1>5, <1>6, <1>8
<1>10. n > first => (addr + first) % PageSize = 0
  <2>1. SUFFICES ASSUME n > first PROVE (addr + first) % PageSize = 0
    OBVIOUS
  <2>2. addr + first = (q + 1) * PageSize + 0
    <3>1. (q + 1) * PageSize \in Nat /\ first = (q + 1) * PageSize - addr
      BY <1>0, <1>1, <1>4, <2>1 DEF space
    <3>. QED BY <3>1
  <2>3. ((q + 1) * PageSize + 0) % PageSize = 0
    <3>1. q + 1 \in Nat /\ 0 \in 0 .. PageSize - 1
      BY <1>0, <1>1
    <3>. QED BY <1>0, <3>1, ModOfSum, Zenon
  <2>. QED BY <2>2, <2>3
<1>11. (addr % PageSize) + first <= PageSize
  BY <1>0, <1>1, <1>3, <1>4
<1>12. n > first /\ l # 0 => n = first + (plan.total - 2) * PageSize + l
  <2>1. SUFFICES ASSUME n > first, l # 0
                 PROVE  n = first + (plan.total - 2) * PageSize + l
    OBVIOUS
  <2>2. plan.total - 2 = k
    BY <1>5, <1>6, <2>1
  <2>. QED BY <1>4, <1>5, <2>2
<1>13. n > first /\ l = 0 => n = first + (plan.total - 1) * PageSize
  <2>1. SUFFICES ASSUME n > first, l = 0
                 PROVE  n = first + (plan.total - 1) * PageSize
    OBVIOUS
  <2>2. plan.total - 1 = k
    BY <1>5, <1>6, <2>1
  <2>. QED BY <1>4, <1>5, <2>1, <2>2
<1>. QED
  BY <1>0, <1>4, <1>5, <1>6, <1>7, <1>9, <1>10, <1>11, <1>12, <1>13 DEF plan

\* A page lies in the request, in one page of the EEPROM, and the last page
\* ends where the request does.
LEMMA PageFacts ==
    ASSUME NEW r \in Postings, Acceptable(r),
           NEW p \in [idx : Nat, addr : Nat, size : Nat], PageOf(r, p)
    PROVE  /\ r.addr <= p.addr /\ p.size \in Nat \ {0}
           /\ p.addr + p.size <= r.addr + r.n
           /\ (p.addr % PageSize) + p.size <= PageSize
           /\ p.idx = PagePlan(r.addr, r.n).total => p.addr + p.size = r.addr + r.n
<1>. DEFINE plan == PagePlan(r.addr, r.n)
<1>1. r.addr \in Nat /\ r.n \in Nat \ {0}
  BY DEF Postings, Acceptable, Addrs
<1>2. /\ PageSize \in Nat \ {0}
      /\ plan.first \in 1 .. r.n /\ plan.last \in 0 .. PageSize - 1
      /\ (r.addr % PageSize) + plan.first <= PageSize
      /\ plan.total \in Nat \ {0}
      /\ r.n > plan.first => (r.addr + plan.first) % PageSize = 0
      /\ plan.total = 1 <=> r.n = plan.first
      /\ r.n > plan.first /\ plan.last # 0 =>
            r.n = plan.first + (plan.total - 2) * PageSize + plan.last
      /\ r.n > plan.first /\ plan.last = 0 =>
            r.n = plan.first + (plan.total - 1) * PageSize
  BY <1>1, PlanFacts
<1>3. /\ p.idx \in 1 .. plan.total
      /\ p.idx = 1 => p.addr = r.addr /\ p.size = plan.first
      /\ p.idx # 1 =>
            /\ p.addr = r.addr + plan.first + (p.idx - 2) * PageSize
            /\ p.size = IF p.idx = plan.total /\ plan.last # 0 THEN plan.last
                        ELSE PageSize
  BY DEF PageOf
<1>. HIDE DEF plan
<1>4. CASE p.idx = 1
  BY <1>1, <1>2, <1>3, <1>4 DEF plan
<1>5. CASE p.idx # 1
  <2>1. plan.total \in Nat \ {0, 1} /\ p.idx - 2 \in Nat /\ r.n > plan.first
    BY <1>1, <1>2, <1>3, <1>5
  <2>. DEFINE d == (p.idx - 2) * PageSize
              t == (plan.total - 2) * PageSize
  <2>2. d \in Nat /\ t \in Nat /\ (plan.total - 1) * PageSize = t + PageSize
        /\ p.addr = r.addr + plan.first + d
    <3>1. plan.total - 2 \in Nat /\ plan.total - 1 = (plan.total - 2) + 1
      BY <2>1
    <3>2. (plan.total - 1) * PageSize = t + PageSize /\ t \in Nat
      BY <1>2, <3>1, OneMore
    <3>3. d \in Nat
      BY <1>2, <2>1, OneMore
    <3>. QED BY <1>3, <1>5, <3>2, <3>3, Zenon
  <2>3. /\ p.idx = plan.total => d = t
        /\ p.idx # plan.total => d + PageSize <= t
    <3>1. p.idx # plan.total => p.idx - 2 < plan.total - 2
      BY <1>2, <1>3, <2>1
    <3>2. p.idx - 2 \in Nat /\ plan.total - 2 \in Nat
      BY <2>1
    <3>3. p.idx # plan.total => d + PageSize <= t
      BY <1>2, <3>1, <3>2, Multiples, Zenon
    <3>. QED BY <3>3, Zenon
  <2>4. p.addr % PageSize = 0
    <3>. DEFINE a == r.addr + plan.first
    <3>0. r.addr \in Nat /\ plan.first \in Nat
      BY <1>1, <1>2
    <3>1. a \in Nat /\ (a % PageSize) = 0
      <4>1. (a % PageSize) = 0
        BY <1>2, <2>1, Zenon
      <4>. QED BY <3>0, <4>1
    <3>2. PICK c \in Nat : a = c * PageSize
      <4>. DEFINE c == a \div PageSize
      <4>1. c \in Nat /\ a = c * PageSize + (a % PageSize) /\ c * PageSize \in Nat
        BY <1>2, <3>1, DivMod
      <4>2. a = c * PageSize
        BY <3>1, <4>1
      <4>. QED BY <4>1, <4>2
    <3>. DEFINE e == c + (p.idx - 2)
    <3>3. p.addr = e * PageSize + 0
      <4>1. e * PageSize = c * PageSize + d
        BY <1>2, <2>1, <3>2, Distributed, Zenon
      <4>. HIDE DEF d, a
      <4>2. p.addr = a + d /\ d \in Nat /\ a \in Nat
        BY <2>2, <3>1, Zenon DEF a
      <4>. HIDE DEF e
      <4>. QED BY <3>2, <4>1, <4>2
    <3>4. e \in Nat /\ 0 \in 0 .. PageSize - 1 /\ PageSize \in Nat \ {0}
      BY <1>2, <2>1
    <3>. HIDE DEF e
    <3>5. ((e * PageSize + 0) % PageSize) = 0
      BY <3>4, ModOfSum
    <3>. QED BY <3>3, <3>5, Zenon
  <2>. HIDE DEF d, t
  <2>5. /\ p.size \in Nat \ {0} /\ p.size <= PageSize
        /\ p.idx = plan.total => plan.first + d + p.size = r.n
        /\ p.idx # plan.total => plan.first + d + p.size <= r.n
    <3>1. CASE p.idx = plan.total /\ plan.last # 0
      BY <1>2, <1>3, <1>5, <2>1, <2>2, <2>3, <3>1 DEF t
    <3>2. CASE ~ (p.idx = plan.total /\ plan.last # 0)
      <4>1. p.size = PageSize
        BY <1>3, <1>5, <3>2
      <4>2. r.n = plan.first + t + plan.last \/ r.n = plan.first + t + PageSize
        BY <1>2, <2>1, <2>2 DEF t
      <4>3. p.idx = plan.total => r.n = plan.first + t + PageSize
        BY <1>2, <2>1, <2>2, <3>2
      <4>. QED BY <1>2, <2>1, <2>2, <2>3, <4>1, <4>2, <4>3
    <3>. QED BY <3>1, <3>2
  <2>. QED BY <1>1, <1>2, <2>2, <2>4, <2>5 DEF plan
<1>. QED BY <1>4, <1>5

\* The page after it is the next one of the plan.
LEMMA NextPageOf ==
    ASSUME NEW r \in Postings, Acceptable(r),
           NEW p \in [idx : Nat, addr : Nat, size : Nat], PageOf(r, p),
           p.idx + 1 <= PagePlan(r.addr, r.n).total,
           NEW nx \in [idx : Nat, addr : Nat, size : Nat],
           nx.idx = p.idx + 1, nx.addr = p.addr + p.size,
           nx.size = IF p.idx + 1 = PagePlan(r.addr, r.n).total
                        /\ PagePlan(r.addr, r.n).last # 0
                     THEN PagePlan(r.addr, r.n).last ELSE PageSize
    PROVE  PageOf(r, nx)
<1>. DEFINE plan == PagePlan(r.addr, r.n)
<1>1. r.addr \in Nat /\ r.n \in Nat \ {0}
  BY DEF Postings, Acceptable, Addrs
<1>2. /\ PageSize \in Nat \ {0} /\ plan.total \in Nat \ {0} /\ plan.first \in Nat
  BY <1>1, PlanFacts
<1>3. /\ p.idx \in 1 .. plan.total
      /\ p.idx = 1 => p.addr = r.addr /\ p.size = plan.first
      /\ p.idx # 1 =>
            /\ p.addr = r.addr + plan.first + (p.idx - 2) * PageSize
            /\ p.size = IF p.idx = plan.total /\ plan.last # 0 THEN plan.last
                        ELSE PageSize
      /\ p.idx + 1 <= plan.total
  BY DEF PageOf
<1>. HIDE DEF plan
<1>4. nx.addr = r.addr + plan.first + (nx.idx - 2) * PageSize
  <2>1. CASE p.idx = 1
    <3>1. nx.idx - 2 = 0 /\ 0 * PageSize = 0
      BY <1>2, <2>1
    <3>. QED BY <1>1, <1>2, <1>3, <2>1, <3>1
  <2>2. CASE p.idx # 1
    <3>1. p.size = PageSize /\ p.idx - 2 \in Nat
      BY <1>2, <1>3, <2>2
    <3>2. (nx.idx - 2) * PageSize = (p.idx - 2) * PageSize + PageSize
          /\ (p.idx - 2) * PageSize \in Nat
      BY <1>2, <3>1
    <3>. QED BY <1>1, <1>2, <1>3, <2>2, <3>1, <3>2
  <2>. QED BY <2>1, <2>2
<1>5. nx.idx \in 1 .. plan.total /\ nx.idx # 1
  BY <1>2, <1>3
<1>. QED BY <1>4, <1>5 DEF PageOf, plan

\* A write that does not cross the end of a page wraps nothing around.
LEMMA NoWrap ==
    ASSUME NEW a \in Nat, NEW n \in Nat, (a % PageSize) + n <= PageSize,
           NEW i \in 0 .. n - 1
    PROVE  (a \div PageSize) * PageSize + ((a + i) % PageSize) = a + i
<1>0. PageSize \in Nat \ {0}
  BY BusAssumption
<1>. DEFINE q == a \div PageSize
            o == a % PageSize
<1>1. q \in Nat /\ o \in 0 .. PageSize - 1 /\ a = q * PageSize + o
      /\ q * PageSize \in Nat /\ o + n <= PageSize
  BY <1>0, DivMod
<1>. HIDE DEF q, o
<1>2. o + i \in 0 .. PageSize - 1 /\ a + i = q * PageSize + (o + i)
  BY <1>0, <1>1
<1>3. (a + i) % PageSize = o + i
  BY <1>0, <1>1, <1>2, ModOfSum
<1>. QED BY <1>1, <1>2, <1>3 DEF q

-----------------------------------------------------------------------------
(* The steps of the bus object *)

\* The operations of the states.
LEMMA OperationOf ==
    ASSUME DevTypes, CmdInv, cmd # NoCmd
    PROVE  /\ dst \in BusWaits /\ cur # 0 /\ Serving
           /\ cmd.op = "DEV_ADDR" => dst = "SendInternalAddr" /\ cmd.addr = Target
           /\ cmd.op = "READ_MEM" => dst = "ReadMem" /\ cmd.n = Req.n
           /\ cmd.op = "WRITE_MEM" => /\ dst = "WriteMem"
                                      /\ cmd.n = page.size /\ cmd.data = cur
           /\ cmd.op = "CHECK_FREE" => dst = "CheckingBus"
           /\ cmd.op = "START_BIT" => dst \in {"GenerateStart", "GenerateStart1"}
           /\ cmd.op = "7BIT_ADDR_TX" => dst = "Send7BitAddrTxMode"
           /\ cmd.op = "7BIT_ADDR_RX" => dst = "Send7BitAddrRxMode"
<1>1. dst \in BusWaits /\ cmd = Operation(dst)
  BY DEF CmdInv
<1>2. dst # "Idle" /\ dst # "ValidateRequest"
  BY <1>1 DEF BusWaits
<1>3. CASE dst \in {"CheckingBus", "GenerateStart", "GenerateStart1"}
  BY <1>1, <1>2, <1>3 DEF Operation, Serving, DevTypes
<1>4. CASE dst \in {"Send7BitAddrTxMode", "Send7BitAddrRxMode"}
  BY <1>1, <1>2, <1>4 DEF Operation, Serving, DevTypes
<1>5. CASE dst = "SendInternalAddr"
  BY <1>1, <1>2, <1>5 DEF Operation, Serving, DevTypes, Target
<1>6. CASE dst = "ReadMem"
  BY <1>1, <1>2, <1>6 DEF Operation, Serving, DevTypes
<1>7. CASE dst = "WriteMem"
  BY <1>1, <1>2, <1>7 DEF Operation, Serving, DevTypes
<1>. QED BY <1>1, <1>3, <1>4, <1>5, <1>6, <1>7 DEF BusWaits

\* The request that is served, and its page.
LEMMA Served ==
    ASSUME QueueTypes, DevTypes, RequestInv, dst # "Idle"
    PROVE  /\ cur \in Nat \ {0} /\ cur <= Len(reqs) /\ cur <= MaxReqs
           /\ cur \in Ids /\ Len(reqs) \in Nat
           /\ Req \in Postings /\ Req.addr \in Addrs /\ Req.n \in Nat
           /\ Req.op \in {"read", "write"}
           /\ Req.op = "write" /\ Acceptable(Req) =>
                 /\ page.addr \in Addrs /\ page.size \in Nat \ {0}
                 /\ InsideRequest(cur, page.addr, page.size)
                 /\ page.idx = PagePlan(Req.addr, Req.n).total =>
                       page.addr + page.size = Req.addr + Req.n
<1>1. /\ cur \in Nat \ {0} /\ cur <= Len(reqs) /\ cur <= MaxReqs /\ cur \in Ids
      /\ Len(reqs) \in Nat
  BY DevAssumption DEF QueueTypes, DevTypes, Ids
<1>2. Req \in Postings
  BY <1>1, ElementOfSeq DEF QueueTypes, Req
<1>3. /\ Req.addr \in Addrs /\ Req.n \in Nat /\ Req.op \in {"read", "write"}
  BY <1>2 DEF Postings
<1>4. SUFFICES ASSUME Req.op = "write", Acceptable(Req)
               PROVE  /\ page.addr \in Addrs /\ page.size \in Nat \ {0}
                      /\ InsideRequest(cur, page.addr, page.size)
                      /\ page.idx = PagePlan(Req.addr, Req.n).total =>
                            page.addr + page.size = Req.addr + Req.n
  BY <1>1, <1>2, <1>3
<1>5. page \in [idx : Nat, addr : Nat, size : Nat] /\ PageOf(Req, page)
  BY <1>4 DEF DevTypes, RequestInv
<1>6. /\ Req.addr <= page.addr /\ page.size \in Nat \ {0}
      /\ page.addr + page.size <= Req.addr + Req.n
      /\ (page.addr % PageSize) + page.size <= PageSize
      /\ page.idx = PagePlan(Req.addr, Req.n).total =>
            page.addr + page.size = Req.addr + Req.n
  BY <1>2, <1>4, <1>5, PageFacts
<1>7. InsideRequest(cur, page.addr, page.size)
  BY <1>1, <1>4, <1>6 DEF InsideRequest, Req
<1>8. page.addr \in Addrs
  <2>1. Req.addr + Req.n <= MaxAddr /\ page.addr \in Nat
    BY <1>4, <1>5 DEF Acceptable
  <2>. QED BY <1>3, <1>6, <2>1, BusAssumption DEF Addrs
<1>. QED BY <1>6, <1>7, <1>8

\* The answer to an operation at once, the beginning and the end of a wait,
\* and an operation that is dropped.
Answer(e, d) ==
    /\ e \in {"none", "bus"} /\ d \in Data
    /\ errorCode' = e /\ devQ' = Append(devQ, Done(e, d))

AtOnce(e) ==
    /\ bst = "Idle" /\ cmd # NoCmd /\ cmd' = NoCmd
    /\ Answer(e, Junk)
    /\ UNCHANGED <<bst, xfer, cut>>

WaitBegins ==
    /\ bst = "Idle" /\ cmd # NoCmd /\ cmd' = NoCmd
    /\ bst' \in WaitStates
    /\ UNCHANGED <<ptr, mem, devQ, faults, cut>>

Dropped ==
    /\ bst # "Idle" /\ cmd # NoCmd /\ cmd' = NoCmd
    /\ UNCHANGED <<bst, errorCode, xfer, phase, held, ptr, mem, devQ, faults, cut,
                   armed, leaked>>

WaitEnds(e, d) ==
    /\ bst # "Idle" /\ bst' = "Idle" /\ Answer(e, d)
    /\ UNCHANGED <<cmd, xfer>>

LEMMA JunkIsData == Junk \in Data
BY DEF Data

\* A byte the EEPROM holds is a byte after any step, and an address stays one.
LEMMA EepromBytes ==
    ASSUME BusTypes, NEW k \in Nat
    PROVE  /\ Programmed(k) \in [Addrs -> 0 .. MaxReqs]
           /\ (ptr + k) % (MaxAddr + 1) \in Addrs
           /\ [i \in 1 .. k |-> mem[(ptr + i - 1) % (MaxAddr + 1)]] \in Data
<1>1. MaxAddr + 1 \in Nat \ {0} /\ Addrs = 0 .. (MaxAddr + 1) - 1 /\ ptr \in Nat
      /\ mem \in [Addrs -> 0 .. MaxReqs] /\ xfer.data \in 0 .. MaxReqs
  BY BusAssumption DEF BusTypes, Addrs
<1>2. ASSUME NEW j \in Nat PROVE j % (MaxAddr + 1) \in Addrs
  <2>1. j % (MaxAddr + 1) \in 0 .. (MaxAddr + 1) - 1
    BY <1>1, DivMod
  <2>. QED BY <1>1, <2>1
<1>3. Programmed(k) \in [Addrs -> 0 .. MaxReqs]
  <2>. DEFINE w == (ptr \div PageSize) * PageSize
              hit == {w + ((ptr + i) % PageSize) : i \in 0 .. k - 1}
  <2>1. Programmed(k) = [a \in Addrs |-> IF a \in hit THEN xfer.data ELSE mem[a]]
    BY DEF Programmed
  <2>. HIDE DEF w, hit
  <2>. QED BY <1>1, <2>1
<1>4. (ptr + k) % (MaxAddr + 1) \in Addrs
  <2>1. ptr + k \in Nat
    BY <1>1
  <2>. QED BY <1>2, <2>1
<1>5. ASSUME NEW i \in 1 .. k PROVE mem[(ptr + i - 1) % (MaxAddr + 1)] \in 0 .. MaxReqs
  <2>1. ptr + i - 1 \in Nat
    BY <1>1
  <2>. QED BY <1>1, <1>2, <2>1
<1>6. [i \in 1 .. k |-> mem[(ptr + i - 1) % (MaxAddr + 1)]] \in Seq(0 .. MaxReqs)
  <2>. DEFINE b(i) == mem[(ptr + i - 1) % (MaxAddr + 1)]
  <2>1. \A i \in 1 .. k : b(i) \in 0 .. MaxReqs
    BY <1>5
  <2>. HIDE DEF b
  <2>2. [i \in 1 .. k |-> b(i)] \in Seq(0 .. MaxReqs)
    BY <2>1, IsASeq
  <2>. QED BY <2>2 DEF b
<1>. QED BY <1>3, <1>4, <1>6, Zenon DEF Data

LEMMA PolledAtOnce ==
    ASSUME BusTypes, NEW from, NEW to \in Phases, PollFor(from, to),
           to # "lost", bst = "Idle", cmd # NoCmd, cmd' = NoCmd,
           UNCHANGED <<bst, xfer, cut, leaked>>
    PROVE  /\ \E e : AtOnce(e)
           /\ phase' \in Phases /\ held' \in BOOLEAN /\ faults' \in 0 .. MaxFaults
           /\ LeftInv'
<1>1. \/ /\ Finish("none", Junk) /\ phase' = to /\ held' = TRUE /\ UNCHANGED faults
         /\ armed' = armed
      \/ /\ Finish("bus", Junk) /\ phase' = "none" /\ held' \in BOOLEAN
         /\ faults' = faults \/ Fault
         /\ armed' \in {armed, FALSE}
  BY DEF PollFor, Seen, NotSeen
<1>2. \E e : AtOnce(e)
  <2>1. CASE Finish("none", Junk)
    <3>1. AtOnce("none")
      BY <2>1, JunkIsData DEF AtOnce, Finish, Answer
    <3>. QED BY <3>1
  <2>2. CASE Finish("bus", Junk)
    <3>1. AtOnce("bus")
      BY <2>2, JunkIsData DEF AtOnce, Finish, Answer
    <3>. QED BY <3>1
  <2>. QED BY <1>1, <2>1, <2>2
<1>3. phase' \in Phases /\ held' \in BOOLEAN
  BY <1>1 DEF Phases
<1>4. faults' \in 0 .. MaxFaults
  <2>1. faults' = faults \/ (faults < MaxFaults /\ faults' = faults + 1)
    BY <1>1 DEF Fault
  <2>. QED BY <2>1, BusAssumption DEF BusTypes
<1>5. LeftInv'
  <2>1. leaked' = leaked /\ cut' = cut /\ phase' # "lost"
    BY <1>1
  <2>2. armed' = armed \/ armed' = FALSE
    BY <1>1
  <2>3. armed' \in BOOLEAN /\ (armed' => cut)
    <3>1. armed \in BOOLEAN /\ (armed => cut)
      BY DEF BusTypes, LeftInv
    <3>2. CASE armed' = armed
      BY <3>1, <3>2
    <3>3. CASE armed' = FALSE
      BY <3>3
    <3>. QED BY <2>2, <3>2, <3>3
  <2>4. cut \in BOOLEAN /\ leaked \in BOOLEAN /\ (leaked => cut)
    BY DEF BusTypes, LeftInv
  <2>5. cut' \in BOOLEAN /\ leaked' \in BOOLEAN /\ (leaked' => cut')
    BY <2>1, <2>4
  <2>6. armed' => cut'
    BY <2>1, <2>3
  <2>. QED BY <2>1, <2>3, <2>5, <2>6 DEF LeftInv
<1>. QED BY <1>2, <1>3, <1>4, <1>5

\* What is programmed when the address was none.
LEMMA StrayBytes ==
    ASSUME BusTypes
    PROVE  Strays \subseteq [Addrs -> 0 .. MaxReqs]
<1>1. \A k \in 0 .. PageSize : k \in Nat
  BY BusAssumption
<1>. QED BY <1>1, EepromBytes DEF Strays

\* What a step of the bus object does to the queue and to the operation
\* posted, and that it keeps the types.
LEMMA Taking ==
    ASSUME NEW op, Takes(op), op # "none"
    PROVE  bst = "Idle" /\ cmd # NoCmd /\ cmd' = NoCmd
BY DEF Takes, NoCmd

LEMMA BusKinds ==
    ASSUME QueueTypes, BusTypes, DevTypes, CmdInv, RequestInv, BusStep
    PROVE  /\ \/ \E e : AtOnce(e)
              \/ WaitBegins \/ Dropped
              \/ \E e, d : WaitEnds(e, d)
           /\ BusTypes'
           /\ UNCHANGED <<devVars, taskVars, reqs, eth>>
<1>. DEFINE Kinds == \/ \E e : AtOnce(e)
                     \/ WaitBegins \/ Dropped
                     \/ \E e, d : WaitEnds(e, d)
            Goal  == Kinds /\ BusTypes'
<1>1. UNCHANGED <<devVars, taskVars, reqs, eth>> /\ (BusOperation \/ BusWaitEnds)
  BY DEF BusStep
<1>3. CheckFree => Goal
  <2>1. SUFFICES ASSUME CheckFree PROVE Goal
    OBVIOUS
  <2>2. AtOnce("none")
    BY Taking, <2>1, JunkIsData DEF CheckFree, AtOnce, Finish, Answer
  <2>. QED BY <2>1, <2>2 DEF CheckFree, BusTypes, Finish, LeftInv
<1>4. RecoverBus => Goal
  <2>1. SUFFICES ASSUME RecoverBus PROVE Goal
    OBVIOUS
  <2>2. WaitBegins
    BY Taking, <2>1 DEF RecoverBus, WaitBegins, WaitStates
  <2>. QED BY <2>1, <2>2 DEF RecoverBus, BusTypes, WaitStates, Phases, LeftInv
<1>5. RecoveryFails => Goal
  <2>1. SUFFICES ASSUME RecoveryFails PROVE Goal
    OBVIOUS
  <2>2. AtOnce(IF held' THEN "bus" ELSE "none")
    BY Taking, <2>1, JunkIsData DEF RecoveryFails, AtOnce, Finish, Answer
  <2>. QED BY <2>1, <2>2 DEF RecoveryFails, BusTypes, Phases, Finish, LeftInv
<1>6. GenerateStart \/ Send7BitAddrTx \/ Send7BitAddrRx => Goal
  <2>1. SUFFICES ASSUME GenerateStart \/ Send7BitAddrTx \/ Send7BitAddrRx PROVE Goal
    OBVIOUS
  <2>2. /\ bst = "Idle" /\ cmd # NoCmd /\ cmd' = NoCmd
        /\ UNCHANGED <<bst, xfer, ptr, mem, cut, leaked>>
    BY Taking, <2>1 DEF GenerateStart, Send7BitAddrTx, Send7BitAddrRx
  <2>3. /\ \E e : AtOnce(e)
        /\ phase' \in Phases /\ held' \in BOOLEAN /\ faults' \in 0 .. MaxFaults
        /\ LeftInv'
    <3>1. \/ PollFor(Phases, "start") \/ PollFor({"start"}, "tx")
          \/ PollFor({"start"}, "rx")
      BY <2>1 DEF GenerateStart, Send7BitAddrTx, Send7BitAddrRx
    <3>2. {"start", "tx", "rx"} \subseteq Phases
      BY DEF Phases
    <3>. QED BY <2>2, <3>1, <3>2, PolledAtOnce
  <2>4. errorCode' \in {"none", "bus"}
    BY <2>3 DEF AtOnce, Answer
  <2>. QED BY <2>2, <2>3, <2>4 DEF BusTypes
<1>7. SendDevAddr => Goal
  <2>1. SUFFICES ASSUME SendDevAddr PROVE Goal
    OBVIOUS
  <2>2. /\ bst = "Idle" /\ cmd # NoCmd /\ cmd' = NoCmd /\ cmd.op = "DEV_ADDR"
        /\ UNCHANGED <<bst, xfer, mem, cut, leaked>>
    BY Taking, <2>1 DEF SendDevAddr, Takes
  <2>3. /\ \E e : AtOnce(e)
        /\ phase' \in Phases /\ held' \in BOOLEAN /\ faults' \in 0 .. MaxFaults
        /\ LeftInv'
    <3>1. PollFor({"tx"}, "addr") /\ "addr" \in Phases
      BY <2>1 DEF SendDevAddr, Phases
    <3>. QED BY <2>2, <3>1, PolledAtOnce
  <2>4. errorCode' \in {"none", "bus"}
    BY <2>3 DEF AtOnce, Answer
  <2>5. cmd.addr \in Addrs
    <3>1. dst = "SendInternalAddr" /\ cmd.addr = Target /\ Serving /\ dst # "Idle"
      BY <2>2, OperationOf DEF Serving
    <3>2. Acceptable(Req)
      BY <3>1 DEF RequestInv
    <3>. QED BY <3>1, <3>2, Served DEF Target
  <2>6. ptr' \in Addrs
    BY <2>1, <2>5 DEF SendDevAddr, BusTypes
  <2>. QED BY <2>2, <2>3, <2>4, <2>6 DEF BusTypes
<1>16. LeftoverIsSent => Goal
  <2>1. SUFFICES ASSUME LeftoverIsSent PROVE Goal
    OBVIOUS
  <2>2. /\ bst = "Idle" /\ cmd # NoCmd /\ cmd' = NoCmd /\ armed
        /\ UNCHANGED <<bst, xfer, mem, cut>>
    BY Taking, <2>1 DEF LeftoverIsSent
  <2>3. \/ /\ Finish("none", Junk) /\ phase' = "lost" /\ held' = TRUE
           /\ faults' = faults /\ ptr' \in LeftAddrs /\ leaked' = TRUE
           /\ armed' = armed
        \/ /\ Finish("bus", Junk) /\ phase' = "none" /\ held' \in BOOLEAN
           /\ faults' = faults \/ Fault
           /\ ptr' = ptr /\ leaked' = leaked /\ armed' \in {armed, FALSE}
    BY <2>1 DEF LeftoverIsSent, Seen, NotSeen
  <2>4. AtOnce("none") \/ AtOnce("bus")
    BY <2>2, <2>3, JunkIsData DEF AtOnce, Finish, Answer
  <2>5. faults' \in 0 .. MaxFaults
      <3>1. faults' = faults \/ (faults < MaxFaults /\ faults' = faults + 1)
      BY <2>3 DEF Fault
    <3>. QED BY <3>1, BusAssumption DEF BusTypes
  <2>6. LeftInv'
    BY <2>2, <2>3 DEF LeftInv, BusTypes
  <2>7. ptr' \in Addrs
    BY <2>3, BusAssumption DEF BusTypes, Addrs
  <2>8. phase' \in Phases /\ held' \in BOOLEAN /\ errorCode' \in {"none", "bus"}
    BY <2>3 DEF Phases, Finish
  <2>. QED BY <2>2, <2>4, <2>5, <2>6, <2>7, <2>8 DEF BusTypes
<1>17. AddrIsLost => Goal
  <2>1. SUFFICES ASSUME AddrIsLost PROVE Goal
    OBVIOUS
  <2>2. /\ bst = "Idle" /\ cmd # NoCmd /\ cmd' = NoCmd /\ phase = "lost"
        /\ UNCHANGED <<bst, xfer, ptr, cut, leaked>>
    BY Taking, <2>1 DEF AddrIsLost
  <2>3. \/ /\ Finish("none", Junk) /\ phase' = "lost" /\ held' = TRUE
           /\ mem' = mem
        \/ /\ Finish("bus", Junk) /\ phase' = "none" /\ held' \in BOOLEAN
           /\ mem' \in Strays
    BY <2>1 DEF AddrIsLost, Seen, NotSeen
  <2>4. faults' = faults /\ armed' \in {armed, FALSE}
    BY <2>1 DEF AddrIsLost, Seen, NotSeen
  <2>5. AtOnce("none") \/ AtOnce("bus")
    BY <2>2, <2>3, JunkIsData DEF AtOnce, Finish, Answer
  <2>6. LeftInv'
    BY <2>2, <2>3, <2>4 DEF LeftInv, BusTypes
  <2>7. mem' \in [Addrs -> 0 .. MaxReqs]
    BY <2>3, StrayBytes DEF BusTypes
  <2>8. phase' \in Phases /\ held' \in BOOLEAN /\ errorCode' \in {"none", "bus"}
    BY <2>3 DEF Phases, Finish
  <2>. QED BY <2>2, <2>4, <2>5, <2>6, <2>7, <2>8 DEF BusTypes
<1>8. StartDMARead => Goal
  <2>1. SUFFICES ASSUME StartDMARead PROVE Goal
    OBVIOUS
  <2>2. WaitBegins /\ cmd.op = "READ_MEM"
    BY Taking, <2>1 DEF StartDMARead, WaitBegins, WaitStates, Takes
  <2>3. cmd.n \in Nat
    BY <2>2, OperationOf, Served DEF WaitBegins, Serving
  <2>4. xfer' \in [n : Nat, data : 0 .. MaxReqs]
    BY <2>1, <2>3 DEF StartDMARead, BusTypes
  <2>. QED BY <2>1, <2>2, <2>4 DEF StartDMARead, BusTypes, WaitStates, LeftInv
<1>9. StartDMAWrite => Goal
  <2>1. SUFFICES ASSUME StartDMAWrite PROVE Goal
    OBVIOUS
  <2>2. WaitBegins /\ cmd.op = "WRITE_MEM"
    BY Taking, <2>1 DEF StartDMAWrite, WaitBegins, WaitStates, Takes
  <2>3. cmd.n \in Nat /\ cmd.data \in 0 .. MaxReqs
    <3>1. dst # "Idle" /\ cmd.n = page.size /\ cmd.data = cur
      BY <2>2, OperationOf DEF WaitBegins, Serving
    <3>2. cur \in Nat \ {0} /\ cur <= MaxReqs /\ page.size \in Nat
      BY <3>1, Served DEF DevTypes
    <3>. QED BY <3>1, <3>2, DevAssumption
  <2>4. xfer' \in [n : Nat, data : 0 .. MaxReqs]
    BY <2>1, <2>3 DEF StartDMAWrite
  <2>. QED BY <2>1, <2>2, <2>4 DEF StartDMAWrite, BusTypes, WaitStates, LeftInv
<1>10. BusyDropsOperation => Goal
  <2>1. SUFFICES ASSUME BusyDropsOperation PROVE Goal
    OBVIOUS
  <2>2. Dropped
    BY <2>1 DEF BusyDropsOperation, Dropped
  <2>. QED BY <2>2 DEF Dropped, BusTypes, LeftInv
<1>11. BusSettles => Goal
  <2>1. SUFFICES ASSUME BusSettles PROVE Goal
    OBVIOUS
  <2>2. WaitEnds(IF held' THEN "bus" ELSE "none", Junk)
    BY <2>1, JunkIsData DEF BusSettles, WaitEnds, Finish, Answer
  <2>. QED BY <2>1, <2>2 DEF BusSettles, BusTypes, Finish, LeftInv
<1>12. DMAReadDone => Goal
  <2>1. SUFFICES ASSUME DMAReadDone PROVE Goal
    OBVIOUS
  <2>. DEFINE d == [i \in 1 .. xfer.n |-> mem[(ptr + i - 1) % (MaxAddr + 1)]]
  <2>2. /\ Finish("none", d) /\ bst = "WaitForDMAReadDone" /\ bst' = "Idle"
        /\ phase' = "none" /\ held' = FALSE /\ ptr' = (ptr + xfer.n) % (MaxAddr + 1)
        /\ UNCHANGED <<cmd, xfer, mem, faults, cut, armed, leaked>>
    BY <2>1 DEF DMAReadDone, Stopped
  <2>3. d \in Data /\ (ptr + xfer.n) % (MaxAddr + 1) \in Addrs
    <3>1. xfer.n \in Nat
      BY DEF BusTypes
    <3>. QED BY <3>1, EepromBytes
  <2>. HIDE DEF d
  <2>4. WaitEnds("none", d)
    BY <2>2, <2>3 DEF WaitEnds, Finish, Answer
  <2>. QED BY <2>2, <2>3, <2>4 DEF BusTypes, Finish, Phases, LeftInv
<1>13. DMAReadTimeout => Goal
  <2>1. SUFFICES ASSUME DMAReadTimeout PROVE Goal
    OBVIOUS
  <2>2. WaitEnds(errorCode, Junk)
    BY <2>1, JunkIsData DEF DMAReadTimeout, Stopped, WaitEnds, Finish, Answer, BusTypes
  <2>3. faults' \in 0 .. MaxFaults
    BY <2>1, BusAssumption DEF DMAReadTimeout, Fault, BusTypes
  <2>4. LeftInv'
    BY <2>1 DEF DMAReadTimeout, Stopped, BusTypes, LeftInv
  <2>. QED BY <2>1, <2>2, <2>3, <2>4
           DEF DMAReadTimeout, Stopped, BusTypes, Finish, Phases
<1>14. DMAWriteDone => Goal
  <2>1. SUFFICES ASSUME DMAWriteDone PROVE Goal
    OBVIOUS
  <2>2. WaitEnds("none", Junk)
    BY <2>1, JunkIsData DEF DMAWriteDone, Stopped, WaitEnds, Finish, Answer
  <2>3. mem' \in [Addrs -> 0 .. MaxReqs]
    <3>1. xfer.n \in Nat /\ (mem' = Programmed(xfer.n) \/ mem' \in Strays)
      BY <2>1 DEF DMAWriteDone, BusTypes
    <3>. QED BY <3>1, EepromBytes, StrayBytes
  <2>4. LeftInv'
    BY <2>1 DEF DMAWriteDone, Stopped, BusTypes, LeftInv
  <2>. QED BY <2>1, <2>2, <2>3, <2>4
           DEF DMAWriteDone, Stopped, BusTypes, Finish, Phases
<1>15. DMAWriteTimeout => Goal
  <2>1. SUFFICES ASSUME DMAWriteTimeout PROVE Goal
    OBVIOUS
  <2>2. WaitEnds(errorCode, Junk)
    BY <2>1, JunkIsData DEF DMAWriteTimeout, Stopped, WaitEnds, Finish, Answer, BusTypes
  <2>3. faults' \in 0 .. MaxFaults
    BY <2>1, BusAssumption DEF DMAWriteTimeout, Fault, BusTypes
  <2>4. mem' \in [Addrs -> 0 .. MaxReqs]
    <3>1. mem' = mem \/ mem' \in Strays \/ \E k \in 0 .. xfer.n : mem' = Programmed(k)
      BY <2>1 DEF DMAWriteTimeout
    <3>2. xfer.n \in Nat /\ mem \in [Addrs -> 0 .. MaxReqs]
      BY DEF BusTypes
    <3>3. \A k \in 0 .. xfer.n : k \in Nat
      BY <3>2
    <3>. QED BY <3>1, <3>2, <3>3, EepromBytes, StrayBytes
  <2>5. LeftInv'
    <3>1. phase' = "none" /\ cut' = TRUE /\ leaked' = leaked /\ armed' \in BOOLEAN
        <4>1. armed' \in BOOLEAN
        <5>1. PICK k \in 0 .. xfer.n : armed' \in {FALSE, k < xfer.n}
          BY <2>1 DEF DMAWriteTimeout
        <5>2. (k < xfer.n) \in BOOLEAN
          OBVIOUS
        <5>. QED BY <5>1, <5>2
      <4>. QED BY <2>1, <4>1 DEF DMAWriteTimeout, Stopped
    <3>. QED BY <3>1 DEF LeftInv, BusTypes
  <2>. QED BY <2>1, <2>2, <2>3, <2>4, <2>5
           DEF DMAWriteTimeout, Stopped, BusTypes, Finish, Phases
<1>. QED
  BY <1>1, <1>3, <1>4, <1>5, <1>6, <1>7, <1>8, <1>9, <1>10, <1>11, <1>12, <1>13,
     <1>14, <1>15, <1>16, <1>17
     DEF BusOperation, BusWaitEnds, BusGivesUpReading

-----------------------------------------------------------------------------
(* The steps of I2C1DevMgr *)

Errors  == {"none", "timeout", "bus", "invalid"}
First   == Head(devQ)
Success1 == First.sig = "BusDone" /\ First.err = "none"

\* It goes back to Idle: for a request it does not accept, an answer that is
\* an error or ends a read, the last page of a write, or a timeout.
Returns(err, d) ==
    /\ dst # "Idle" /\ err \in Errors
    /\ \/ dst = "ValidateRequest" /\ First.sig = "Private" /\ d = done
       \/ /\ dst \in BusWaits /\ First.sig = "BusDone"
          /\ \/ d = done
             \/ /\ dst = "ReadMem" /\ First.err = "none"
                /\ d = [bytes |-> Req.n, data |-> First.data]
       \/ /\ dst = "PostWriteWait" /\ First.sig = "PostWriteTimer"
          /\ ~ (NextPage.idx <= PagePlan(Req.addr, Req.n).total)
          /\ d = [bytes |-> Req.n, data |-> <<>>]
       \/ First.sig \in {"OpTimeout", "DevTimeout"} /\ d = done
    /\ BackToIdle(err, d)
    /\ synced' = IF dst = "ValidateRequest" /\ First.sig = "Private"
                 THEN BusQuiet ELSE synced
    /\ UNCHANGED <<cmd, dropped>>

\* A request it accepts or the next page begins, or an answer takes it from
\* one bus operation to the next.
Begins(s) ==
    /\ s = "CheckingBus"
    /\ dst = "ValidateRequest" /\ First.sig = "Private" /\ devErr = "none"
    /\ synced' = BusQuiet /\ UNCHANGED page

TurnsPage(s) ==
    /\ s = "CheckingBus"
    /\ dst = "PostWriteWait" /\ First.sig = "PostWriteTimer"
    /\ NextPage.idx <= PagePlan(Req.addr, Req.n).total
    /\ page' = NextPage /\ UNCHANGED synced

GoesOn(s) ==
    /\ \/ dst = "CheckingBus" /\ s = "GenerateStart"
       \/ dst = "GenerateStart" /\ s = "Send7BitAddrTxMode"
       \/ dst = "Send7BitAddrTxMode" /\ s = "SendInternalAddr"
       \/ dst = "SendInternalAddr" /\ Req.op = "read" /\ s = "GenerateStart1"
       \/ dst = "SendInternalAddr" /\ Req.op # "read" /\ s = "WriteMem"
       \/ dst = "GenerateStart1" /\ s = "Send7BitAddrRxMode"
       \/ dst = "Send7BitAddrRxMode" /\ s = "ReadMem"
    /\ Success1
    /\ UNCHANGED <<page, synced>>

Continues(s) ==
    /\ Begins(s) \/ TurnsPage(s) \/ GoesOn(s)
    /\ EnterBusWait(s)
    /\ devQ' = Tail(devQ)
    /\ UNCHANGED <<defq, cur, done, replies, taskVars, dropped>>

\* A page is written.
Writes ==
    /\ dst = "WriteMem" /\ Success1
    /\ dst' = "PostWriteWait" /\ devErr' = "none"
    /\ timers' = (timers \ {"op"}) \cup {"write"}
    /\ devQ' = Tail(devQ)
    /\ UNCHANGED <<cmd, defq, cur, done, page, replies, taskVars, synced, dropped>>

DevKind ==
    \/ IdleRequest \/ DeferRequest \/ Unhandled \/ Writes
    \/ \E s : Continues(s)
    \/ \E err, d : Returns(err, d)

BusFixed == UNCHANGED <<bst, errorCode, xfer, phase, held, ptr, mem, faults, cut,
                        armed, leaked,
                        reqs, late>>

LEMMA FirstEvent ==
    ASSUME QueueTypes, devQ # <<>>
    PROVE  /\ First \in Events(Len(reqs))
           /\ First.sig = "BusDone" => First \in AnswerEvents
           /\ First.sig = "Request" => First \in RequestEvents(Len(reqs))
<1>1. First \in Events(Len(reqs))
  BY TailPlaces DEF QueueTypes, First
<1>. QED BY <1>1 DEF Events, AnswerEvents, RequestEvents, OtherEvents

\* An answer takes it on, or back to Idle.
LEMMA AnsweredKinds ==
    ASSUME QueueTypes, DevTypes, NEW s \in BusWaits, NEW ok \in BOOLEAN,
           Answered(s, ok)
    PROVE  /\ BusFixed /\ cmd = NoCmd /\ devQ # <<>> /\ task # "woken"
           /\ dst = s /\ UNCHANGED <<dropped, synced>>
           /\ \/ Success1 /\ ok
              \/ \E err, d : Returns(err, d)
<1>1. /\ dst = s /\ Event("BusDone") /\ BusFixed /\ UNCHANGED <<dropped, synced>>
      /\ IF First.err = "none" THEN ok
         ELSE BackToIdle(First.err, done) /\ UNCHANGED cmd
  BY DEF Answered, BusFixed, First
<1>2. cmd = NoCmd /\ devQ # <<>> /\ task # "woken" /\ First.sig = "BusDone"
  BY <1>1 DEF Event, First
<1>3. CASE First.err = "none"
  BY <1>1, <1>2, <1>3 DEF Success1
<1>4. CASE First.err # "none"
  <2>1. First.err \in Errors
    BY <1>2, FirstEvent DEF AnswerEvents, Errors
  <2>2. dst # "Idle" /\ dst # "ValidateRequest"
    BY <1>1 DEF BusWaits
  <2>3. Returns(First.err, done)
    BY <1>1, <1>2, <1>4, <2>1, <2>2 DEF Returns
  <2>. QED BY <1>1, <1>2, <2>3
<1>. QED BY <1>3, <1>4

LEMMA DevKinds ==
    ASSUME QueueTypes, DevTypes, DevHandler
    PROVE  BusFixed /\ cmd = NoCmd /\ devQ # <<>> /\ task # "woken" /\ DevKind
<1>. DEFINE Goal == BusFixed /\ cmd = NoCmd /\ devQ # <<>> /\ task # "woken" /\ DevKind
<1>1. IdleRequest \/ DeferRequest \/ Unhandled => Goal
  BY DEF IdleRequest, DeferRequest, Unhandled, Event, BusFixed, DevKind, devVars
<1>2. Validated => Goal
  <2>1. SUFFICES ASSUME Validated PROVE Goal
    OBVIOUS
  <2>2. /\ BusFixed /\ cmd = NoCmd /\ devQ # <<>> /\ task # "woken"
        /\ dst = "ValidateRequest" /\ First.sig = "Private"
        /\ synced' = BusQuiet /\ UNCHANGED dropped
        /\ IF devErr = "none" THEN Goto("CheckingBus")
           ELSE BackToIdle(devErr, done) /\ UNCHANGED cmd
    BY <2>1 DEF Validated, Event, BusFixed, First
  <2>3. CASE devErr = "none"
    <3>1. Begins("CheckingBus")
      BY <2>2, <2>3 DEF Begins, Goto
    <3>2. Continues("CheckingBus")
      BY <2>2, <2>3, <3>1 DEF Continues, Goto
    <3>. QED BY <2>2, <3>2 DEF DevKind
  <2>4. CASE devErr # "none"
    <3>1. Returns(devErr, done)
      BY <2>2, <2>4 DEF Returns, DevTypes, Errors
    <3>. QED BY <2>2, <3>1 DEF DevKind
  <2>. QED BY <2>3, <2>4
<1>3. TimedOut => Goal
  <2>1. SUFFICES ASSUME TimedOut PROVE Goal
    OBVIOUS
  <2>2. /\ BusFixed /\ cmd = NoCmd /\ devQ # <<>> /\ task # "woken" /\ dst # "Idle"
        /\ First.sig \in {"OpTimeout", "DevTimeout"}
        /\ UNCHANGED <<cmd, synced, dropped>> /\ BackToIdle(devErr, done)
    BY <2>1 DEF TimedOut, Event, BusFixed, First
  <2>3. Returns(devErr, done)
    BY <2>2 DEF Returns, DevTypes, Errors
  <2>. QED BY <2>2, <2>3 DEF DevKind
<1>4. ASSUME NEW s \in BusWaits, NEW t, Answered(s, Goto(t)),
             dst = s /\ Success1 /\ UNCHANGED <<page, synced>> => GoesOn(t)
      PROVE  Goal
  <2>1. Goto(t) \in BOOLEAN
    BY DEF Goto
  <2>2. /\ BusFixed /\ cmd = NoCmd /\ devQ # <<>> /\ task # "woken" /\ dst = s
        /\ UNCHANGED <<dropped, synced>>
        /\ \/ Success1 /\ Goto(t)
           \/ \E err, d : Returns(err, d)
    BY <1>4, <2>1, AnsweredKinds
  <2>3. Success1 /\ Goto(t) => Continues(t)
    BY <1>4, <2>2 DEF Continues, Goto
  <2>. QED BY <2>2, <2>3 DEF DevKind
<1>5. CheckingBusDone => Goal
  BY <1>4 DEF CheckingBusDone, GoesOn, BusWaits
<1>6. GenerateStartDone => Goal
  BY <1>4 DEF GenerateStartDone, GoesOn, BusWaits
<1>7. Send7BitAddrTxModeDone => Goal
  BY <1>4 DEF Send7BitAddrTxModeDone, GoesOn, BusWaits
<1>8. SendInternalAddrDone => Goal
  <2>1. CASE Req.op = "read"
    BY <1>4, <2>1 DEF SendInternalAddrDone, GoesOn, BusWaits
  <2>2. CASE Req.op # "read"
    BY <1>4, <2>2 DEF SendInternalAddrDone, GoesOn, BusWaits
  <2>. QED BY <2>1, <2>2
<1>9. GenerateStart1Done => Goal
  BY <1>4 DEF GenerateStart1Done, GoesOn, BusWaits
<1>10. Send7BitAddrRxModeDone => Goal
  BY <1>4 DEF Send7BitAddrRxModeDone, GoesOn, BusWaits
<1>11. ReadMemDone => Goal
  <2>1. SUFFICES ASSUME ReadMemDone PROVE Goal
    OBVIOUS
  <2>. DEFINE d == [bytes |-> Req.n, data |-> First.data]
              ok == BackToIdle("none", d) /\ UNCHANGED cmd
  <2>2. ok \in BOOLEAN /\ "ReadMem" \in BusWaits
    BY DEF BusWaits
  <2>3. Answered("ReadMem", ok)
    BY <2>1 DEF ReadMemDone, First
  <2>. HIDE DEF ok
  <2>4. /\ BusFixed /\ cmd = NoCmd /\ devQ # <<>> /\ task # "woken"
        /\ dst = "ReadMem" /\ UNCHANGED <<dropped, synced>>
        /\ \/ Success1 /\ ok
           \/ \E err, e : Returns(err, e)
    BY <2>2, <2>3, AnsweredKinds
  <2>5. Success1 /\ ok => Returns("none", d)
    BY <2>2, <2>4 DEF ok, Returns, Errors, Success1
  <2>. QED BY <2>4, <2>5 DEF DevKind
<1>12. WriteMemDone => Goal
  <2>1. SUFFICES ASSUME WriteMemDone PROVE Goal
    OBVIOUS
  <2>. DEFINE ok == /\ dst' = "PostWriteWait"
                    /\ devErr' = "none"
                    /\ timers' = (timers \ {"op"}) \cup {"write"}
                    /\ devQ' = Tail(devQ)
                    /\ UNCHANGED <<cmd, defq, cur, done, page, replies, taskVars>>
  <2>2. ok \in BOOLEAN /\ "WriteMem" \in BusWaits
    BY DEF BusWaits
  <2>3. Answered("WriteMem", ok)
    BY <2>1 DEF WriteMemDone
  <2>. HIDE DEF ok
  <2>4. /\ BusFixed /\ cmd = NoCmd /\ devQ # <<>> /\ task # "woken"
        /\ dst = "WriteMem" /\ UNCHANGED <<dropped, synced>>
        /\ \/ Success1 /\ ok
           \/ \E err, e : Returns(err, e)
    BY <2>2, <2>3, AnsweredKinds
  <2>5. Success1 /\ ok => Writes
    BY <2>4 DEF ok, Writes
  <2>. QED BY <2>4, <2>5 DEF DevKind
<1>13. PostWriteWaitOver => Goal
  <2>1. SUFFICES ASSUME PostWriteWaitOver PROVE Goal
    OBVIOUS
  <2>. DEFINE total == PagePlan(Req.addr, Req.n).total
              more  == NextPage.idx <= total
  <2>2. /\ BusFixed /\ cmd = NoCmd /\ devQ # <<>> /\ task # "woken"
        /\ dst = "PostWriteWait" /\ First.sig = "PostWriteTimer"
        /\ UNCHANGED <<synced, dropped>>
        /\ more => /\ page' = NextPage /\ EnterBusWait("CheckingBus")
                   /\ devQ' = Tail(devQ)
                   /\ UNCHANGED <<defq, cur, done, replies, taskVars>>
        /\ ~ more => /\ BackToIdle(devErr, [bytes |-> Req.n, data |-> <<>>])
                     /\ UNCHANGED cmd
    BY <2>1 DEF PostWriteWaitOver, Event, BusFixed, First
  <2>3. CASE more
    <3>1. TurnsPage("CheckingBus")
      BY <2>2, <2>3 DEF TurnsPage
    <3>2. Continues("CheckingBus")
      BY <2>2, <2>3, <3>1 DEF Continues
    <3>. QED BY <2>2, <3>2 DEF DevKind
  <2>4. CASE ~ more
    <3>1. Returns(devErr, [bytes |-> Req.n, data |-> <<>>])
      BY <2>2, <2>4 DEF Returns, DevTypes, Errors
    <3>. QED BY <2>2, <3>1 DEF DevKind
  <2>. QED BY <2>3, <2>4
<1>. QED
  BY <1>1, <1>2, <1>3, <1>5, <1>6, <1>7, <1>8, <1>9, <1>10, <1>11, <1>12, <1>13
     DEF DevHandler

-----------------------------------------------------------------------------
(* Type correctness *)

TypesInv == QueueTypes /\ TaskTypes /\ BusTypes /\ DevTypes /\ CmdInv /\ RequestInv

\* What does not concern the request being served leaves its invariant alone.
LEMMA SameRequest ==
    ASSUME DevTypes, CmdInv, RequestInv, UNCHANGED <<dst, cur, devErr, done, page, synced>>,
           reqs' \in Seq(Postings), Len(reqs) <= Len(reqs'), Len(reqs) \in Nat,
           Len(reqs') \in Nat, \A i \in 1 .. Len(reqs) : reqs'[i] = reqs[i]
    PROVE  /\ RequestInv' /\ cur' \in 0 .. Len(reqs')
           /\ (dst # "Idle" => Req' = Req)
           /\ UNCHANGED <<cmd>> \/ cmd' = NoCmd => CmdInv'
<1>1. cur' = cur /\ cur \in 0 .. Len(reqs) /\ (dst # "Idle" => cur \in 1 .. Len(reqs))
  BY DEF DevTypes
<1>2. dst # "Idle" => Req' = Req
  BY <1>1 DEF Req
<1>3. RequestInv'
  BY <1>2 DEF RequestInv, Serving
<1>4. UNCHANGED cmd \/ cmd' = NoCmd => CmdInv'
  <2>1. CASE cmd' = NoCmd
    BY <2>1 DEF CmdInv
  <2>2. CASE cmd' = cmd /\ cmd # NoCmd
    <3>1. dst \in BusWaits /\ dst # "Idle" /\ cmd = Operation(dst)
      BY <2>2 DEF CmdInv, BusWaits
    <3>2. Operation(dst)' = Operation(dst)
      BY <1>2, <3>1 DEF Operation
    <3>. QED BY <2>2, <3>1, <3>2 DEF CmdInv
  <2>. QED BY <2>1, <2>2
<1>. QED BY <1>1, <1>2, <1>3, <1>4

LEMMA MoreEvents ==
    ASSUME NEW m \in Nat, NEW n \in Nat, m <= n
    PROVE  /\ RequestEvents(m) \subseteq RequestEvents(n)
           /\ Events(m) \subseteq Events(n)
           /\ ReplyTypes(m) \subseteq ReplyTypes(n)
<1>1. 1 .. m \subseteq 1 .. n
  OBVIOUS
<1>. QED BY <1>1 DEF RequestEvents, Events, ReplyTypes

\* The bus object.
LEMMA TypesBus ==
    ASSUME TypesInv, BusStep
    PROVE  TypesInv'
<1>1. QueueTypes /\ TaskTypes /\ BusTypes /\ DevTypes /\ CmdInv /\ RequestInv
  BY DEF TypesInv
<1>2. /\ \/ \E e : AtOnce(e)
         \/ WaitBegins \/ Dropped
         \/ \E e, d : WaitEnds(e, d)
      /\ BusTypes'
      /\ UNCHANGED <<devVars, taskVars, reqs, eth>>
  BY <1>1, BusKinds
<1>3. devQ' = devQ \/ \E e, d : Answer(e, d)
  BY <1>2 DEF AtOnce, WaitBegins, Dropped, WaitEnds
<1>4. devQ' \in Seq(Events(Len(reqs)))
  <2>1. ASSUME NEW e, NEW d, Answer(e, d) PROVE devQ' \in Seq(Events(Len(reqs)))
    <3>1. Done(e, d) \in Events(Len(reqs)) /\ devQ' = Append(devQ, Done(e, d))
      BY <2>1 DEF Answer, Done, Events, AnswerEvents
    <3>. QED BY <1>1, <3>1, AppendPlaces DEF QueueTypes
  <2>. QED BY <1>1, <1>3, <2>1 DEF QueueTypes
<1>5. cmd' = cmd \/ cmd' = NoCmd
  BY <1>2 DEF AtOnce, WaitBegins, Dropped, WaitEnds
<1>6. QueueTypes' /\ TaskTypes'
  BY <1>1, <1>2, <1>4 DEF QueueTypes, TaskTypes, devVars, taskVars, Ids
<1>7. DevTypes'
  BY <1>1, <1>2 DEF DevTypes, devVars
<1>8. RequestInv' /\ CmdInv'
  <2>1. /\ reqs' = reqs /\ reqs \in Seq(Postings) /\ Len(reqs) \in Nat
        /\ UNCHANGED <<dst, cur, devErr, done, page, synced>>
    BY <1>1, <1>2, LenProperties DEF QueueTypes, devVars
  <2>. QED BY <1>1, <1>5, <2>1, SameRequest
<1>. QED BY <1>2, <1>6, <1>7, <1>8 DEF TypesInv

\* A request is posted.
LEMMA Growth ==
    ASSUME QueueTypes, NEW r \in Requests, NEW acc \in {"QPC", "FRT"}, Posted(r, acc)
    PROVE  /\ reqs' \in Seq(Postings) /\ Len(reqs') <= MaxReqs
           /\ Len(reqs) \in Nat /\ Len(reqs') = Len(reqs) + 1
           /\ \A i \in 1 .. Len(reqs) : reqs'[i] = reqs[i]
           /\ devQ' = Append(devQ, [sig |-> "Request", id |-> Len(reqs')])
           /\ [sig |-> "Request", id |-> Len(reqs')] \in RequestEvents(Len(reqs'))
           /\ devQ' \in Seq(Events(Len(reqs')))
           /\ devQ \in Seq(Events(Len(reqs')))
           /\ defq \in Seq(RequestEvents(Len(reqs')))
           /\ replies \in Seq(ReplyTypes(Len(reqs')))
           /\ dropped \subseteq 1 .. Len(reqs')
           /\ Ids \subseteq Ids'
<1>. DEFINE p == [op |-> r.op, addr |-> r.addr, n |-> r.n, acc |-> acc]
            ev == [sig |-> "Request", id |-> Len(reqs')]
<1>1. /\ Len(reqs) < MaxReqs /\ reqs' = Append(reqs, p)
      /\ devQ' = Append(devQ, [sig |-> "Request", id |-> Len(reqs) + 1])
  BY DEF Posted
<1>2. p \in Postings
  BY DevAssumption DEF Postings
<1>3. reqs \in Seq(Postings) /\ Len(reqs) \in Nat
  BY LenProperties DEF QueueTypes
<1>4. /\ reqs' \in Seq(Postings) /\ Len(reqs') = Len(reqs) + 1
      /\ \A i \in 1 .. Len(reqs) : reqs'[i] = reqs[i]
  BY <1>1, <1>2, <1>3, AppendProperties
<1>5. Len(reqs') <= MaxReqs
  BY <1>1, <1>3, <1>4, DevAssumption
<1>6. Ids \subseteq Ids' /\ Len(reqs) <= Len(reqs') /\ Len(reqs') \in Nat
  BY <1>3, <1>4 DEF Ids
<1>. HIDE DEF p
<1>7. ev \in RequestEvents(Len(reqs')) /\ ev \in Events(Len(reqs'))
  BY <1>3, <1>4 DEF RequestEvents, Events
<1>8. /\ RequestEvents(Len(reqs)) \subseteq RequestEvents(Len(reqs'))
      /\ Events(Len(reqs)) \subseteq Events(Len(reqs'))
      /\ ReplyTypes(Len(reqs)) \subseteq ReplyTypes(Len(reqs'))
  BY <1>3, <1>6, MoreEvents
<1>9. /\ devQ \in Seq(Events(Len(reqs'))) /\ defq \in Seq(RequestEvents(Len(reqs')))
      /\ replies \in Seq(ReplyTypes(Len(reqs')))
  BY <1>8, SeqMonotonic DEF QueueTypes
<1>10. devQ' = Append(devQ, ev)
  BY <1>1, <1>4
<1>11. dropped \subseteq 1 .. Len(reqs')
  BY <1>6 DEF QueueTypes, Ids
<1>. HIDE DEF ev
<1>12. devQ' \in Seq(Events(Len(reqs')))
  BY <1>7, <1>9, <1>10, AppendPlaces
<1>. QED
  BY <1>3, <1>4, <1>5, <1>6, <1>7, <1>9, <1>10, <1>11, <1>12 DEF ev

LEMMA TypesPosted ==
    ASSUME TypesInv, NEW r \in Requests, NEW acc \in {"QPC", "FRT"}, Posted(r, acc),
           UNCHANGED <<cmd, bst, errorCode, xfer, phase, held, ptr, mem, faults,
                       cut, armed, leaked, devVars>>,
           TaskTypes'
    PROVE  TypesInv'
<1>1. QueueTypes /\ TaskTypes /\ BusTypes /\ DevTypes /\ CmdInv /\ RequestInv
  BY DEF TypesInv
<1>2. /\ reqs' \in Seq(Postings) /\ Len(reqs') <= MaxReqs
      /\ Len(reqs) \in Nat /\ Len(reqs') = Len(reqs) + 1
      /\ \A i \in 1 .. Len(reqs) : reqs'[i] = reqs[i]
      /\ devQ' \in Seq(Events(Len(reqs')))
      /\ defq \in Seq(RequestEvents(Len(reqs')))
      /\ replies \in Seq(ReplyTypes(Len(reqs')))
      /\ dropped \subseteq 1 .. Len(reqs')
  BY <1>1, Growth
<1>3. QueueTypes'
  BY <1>1, <1>2 DEF QueueTypes, devVars, Ids
<1>4. UNCHANGED <<dst, cur, devErr, done, page, synced, cmd>> /\ Len(reqs) <= Len(reqs')
      /\ Len(reqs') \in Nat
  BY <1>2 DEF devVars
<1>5. RequestInv' /\ cur' \in 0 .. Len(reqs') /\ CmdInv'
  BY <1>1, <1>2, <1>4, SameRequest
<1>6. BusTypes' /\ DevTypes'
  BY <1>1, <1>5 DEF BusTypes, LeftInv, DevTypes, devVars
<1>. QED BY <1>3, <1>5, <1>6 DEF TypesInv

\* The first event of the queue gone, or replaced by the request recalled.
LEMMA Recalled ==
    ASSUME QueueTypes, devQ # <<>>, Recall(Tail(devQ))
    PROVE  /\ devQ' \in Seq(Events(Len(reqs)))
           /\ defq' \in Seq(RequestEvents(Len(reqs))) /\ Len(defq') <= DeferMax
           /\ defq = <<>> => defq' = defq /\ devQ' = Tail(devQ)
           /\ defq # <<>> =>
                 /\ defq' = Tail(defq) /\ devQ' = [devQ EXCEPT ![1] = Head(defq)]
                 /\ Head(defq) \in RequestEvents(Len(reqs))
                 /\ Head(defq) \in Events(Len(reqs))
<1>1. /\ Tail(devQ) \in Seq(Events(Len(reqs)))
      /\ defq \in Seq(RequestEvents(Len(reqs))) /\ Len(defq) <= DeferMax
      /\ devQ \in Seq(Events(Len(reqs))) /\ Len(defq) \in Nat /\ DeferMax \in Nat
  BY TailPlaces, LenProperties, DevAssumption DEF QueueTypes
<1>2. CASE defq = <<>>
  BY <1>1, <1>2 DEF Recall
<1>3. CASE defq # <<>>
  <2>1. devQ' = <<Head(defq)>> \o Tail(devQ) /\ defq' = Tail(defq)
    BY <1>3 DEF Recall
  <2>2. /\ Tail(defq) \in Seq(RequestEvents(Len(reqs)))
        /\ Len(Tail(defq)) = Len(defq) - 1
        /\ Head(defq) \in RequestEvents(Len(reqs))
    BY <1>1, <1>3, TailPlaces
  <2>3. Head(defq) \in Events(Len(reqs))
    BY <2>2 DEF Events
  <2>4. /\ devQ' = [devQ EXCEPT ![1] = Head(defq)]
        /\ devQ' \in Seq(Events(Len(reqs)))
    BY <1>1, <2>1, <2>3, FrontPlaces
  <2>5. Len(defq') <= DeferMax
    BY <1>1, <2>1, <2>2
  <2>. QED BY <1>3, <2>1, <2>2, <2>3, <2>4, <2>5, Zenon
<1>. QED BY <1>2, <1>3

\* The reply, and the task resumed.
LEMMA OnReply ==
    ASSUME QueueTypes, TaskTypes, BusTypes, DevTypes, RequestInv, dst # "Idle",
           NEW err, NEW d, Reply(err, d), UNCHANGED reqs
    PROVE  /\ replies' \in Seq(ReplyTypes(Len(reqs)))
           /\ TaskTypes'
           /\ replies' = Append(replies,
                 [id |-> cur, ok |-> err = "none" /\ d.bytes = Req.n /\ Req.n # 0,
                  real |-> err = "none" /\ d.bytes = Req.n /\ Real(d),
                  synced |-> synced, cut |-> cut])
<1>. DEFINE ok   == err = "none" /\ d.bytes = Req.n /\ Req.n # 0
            real == err = "none" /\ d.bytes = Req.n /\ Real(d)
            e == [id |-> cur, ok |-> ok, real |-> real, synced |-> synced, cut |-> cut]
<1>1. cur \in 1 .. Len(reqs) /\ cur \in Ids
  BY Served DEF Ids
<1>2. replies' = Append(replies, e)
  BY DEF Reply
<1>3. ok \in BOOLEAN
  OBVIOUS
<1>4. real \in BOOLEAN
  BY DEF Real
<1>. HIDE DEF ok, real
<1>5. e \in ReplyTypes(Len(reqs))
  BY <1>1, <1>3, <1>4 DEF ReplyTypes, DevTypes, BusTypes, LeftInv
<1>. HIDE DEF e
<1>6. replies' \in Seq(ReplyTypes(Len(reqs)))
  BY <1>2, <1>5, AppendPlaces DEF QueueTypes
<1>7. TaskTypes'
  <2>1. /\ cplrQ' = cplrQ \/ cplrQ' = Append(cplrQ, cur)
        /\ task' = task \/ task' = "woken"
    BY DEF Reply, taskVars
  <2>2. cplrQ' \in Seq(Ids \cup {EthEvt})
    <3>1. cur \in Ids \cup {EthEvt} /\ cplrQ \in Seq(Ids \cup {EthEvt})
      BY <1>1 DEF TaskTypes
    <3>. QED BY <2>1, <3>1, AppendPlaces
  <2>. QED BY <2>1, <2>2 DEF TaskTypes, Ids
<1>. QED BY <1>2, <1>6, <1>7 DEF e, ok, real

LEMMA TypesReturns ==
    ASSUME TypesInv, BusFixed, devQ # <<>>, cmd = NoCmd, NEW err, NEW d, Returns(err, d)
    PROVE  TypesInv'
<1>1. QueueTypes /\ TaskTypes /\ BusTypes /\ DevTypes /\ CmdInv /\ RequestInv
  BY DEF TypesInv
<1>2. /\ dst # "Idle" /\ err \in Errors
      /\ dst' = "Idle" /\ timers' = {} /\ Reply(err, d) /\ Recall(Tail(devQ))
      /\ devErr' = err /\ done' = NoneDone /\ page' = NoPage /\ cur' = 0
      /\ cmd' = cmd /\ dropped' = dropped
  BY DEF Returns, BackToIdle
<1>3. synced' \in BOOLEAN
  <2>1. synced' = BusQuiet \/ synced' = synced
    BY DEF Returns
  <2>2. BusQuiet \in BOOLEAN
    BY DEF BusQuiet
  <2>. QED BY <1>1, <2>1, <2>2 DEF DevTypes
<1>4. /\ devQ' \in Seq(Events(Len(reqs)))
      /\ defq' \in Seq(RequestEvents(Len(reqs))) /\ Len(defq') <= DeferMax
  BY <1>1, <1>2, Recalled
<1>5. reqs' = reqs /\ late' = late
  BY DEF BusFixed
<1>6. replies' \in Seq(ReplyTypes(Len(reqs))) /\ TaskTypes'
  BY <1>1, <1>2, <1>5, OnReply
<1>7. QueueTypes'
  BY <1>1, <1>2, <1>4, <1>5, <1>6 DEF QueueTypes, Ids
<1>8. DevTypes'
  <2>1. Len(reqs) \in Nat
    BY <1>1, LenProperties DEF QueueTypes
  <2>2. NoPage \in [idx : Nat, addr : Nat, size : Nat]
    BY DEF NoPage
  <2>3. 0 \in 0 .. Len(reqs)
    BY <2>1
  <2>. QED BY <1>1, <1>2, <1>3, <1>5, <2>2, <2>3 DEF DevTypes, States, Errors
<1>9. CmdInv' /\ RequestInv'
  BY <1>2 DEF CmdInv, RequestInv, Serving
<1>10. BusTypes'
  BY <1>1 DEF BusTypes, BusFixed, LeftInv
<1>. QED BY <1>6, <1>7, <1>8, <1>9, <1>10 DEF TypesInv

\* The pages of a request.
LEMMA FirstPage ==
    ASSUME NEW r \in Postings, Acceptable(r)
    PROVE  LET p == [idx |-> 1, addr |-> r.addr, size |-> PagePlan(r.addr, r.n).first]
           IN  p \in [idx : Nat, addr : Nat, size : Nat] /\ PageOf(r, p)
<1>. DEFINE plan == PagePlan(r.addr, r.n)
<1>1. r.addr \in Nat /\ r.n \in Nat \ {0}
  BY DEF Postings, Acceptable, Addrs
<1>2. plan.first \in 1 .. r.n /\ plan.total \in Nat \ {0}
  BY <1>1, PlanFacts
<1>. HIDE DEF plan
<1>3. 1 \in 1 .. plan.total /\ plan.first \in Nat
  BY <1>1, <1>2
<1>. QED BY <1>1, <1>3 DEF PageOf, plan

LEMMA PageTurned ==
    ASSUME QueueTypes, DevTypes, RequestInv, dst = "PostWriteWait",
           NextPage.idx <= PagePlan(Req.addr, Req.n).total
    PROVE  /\ NextPage \in [idx : Nat, addr : Nat, size : Nat]
           /\ PageOf(Req, NextPage)
           /\ NextPage.addr = page.addr + page.size
<1>. DEFINE plan == PagePlan(Req.addr, Req.n)
            nx   == NextPage
<1>1. Req \in Postings /\ Req.op = "write" /\ Acceptable(Req)
  BY Served DEF RequestInv, Serving
<1>2. page \in [idx : Nat, addr : Nat, size : Nat] /\ PageOf(Req, page)
  BY <1>1 DEF DevTypes, RequestInv
<1>3. plan.last \in Nat /\ PageSize \in Nat
  <2>1. Req.addr \in Nat /\ Req.n \in Nat \ {0}
    BY <1>1 DEF Postings, Acceptable, Addrs
  <2>2. plan.last \in 0 .. PageSize - 1 /\ PageSize \in Nat \ {0}
    BY <2>1, PlanFacts
  <2>. QED BY <2>2
<1>4. /\ nx = [idx |-> page.idx + 1, addr |-> page.addr + page.size,
               size |-> IF page.idx + 1 = plan.total /\ plan.last # 0 THEN plan.last
                        ELSE PageSize]
      /\ page.idx + 1 <= plan.total
  BY DEF NextPage
<1>. HIDE DEF plan, nx
<1>5. /\ nx.idx = page.idx + 1 /\ nx.addr = page.addr + page.size
      /\ nx.size = IF page.idx + 1 = plan.total /\ plan.last # 0 THEN plan.last
                   ELSE PageSize
      /\ nx \in [idx : Nat, addr : Nat, size : Nat]
  BY <1>2, <1>3, <1>4
<1>6. PageOf(Req, nx)
  BY <1>1, <1>2, <1>4, <1>5, NextPageOf DEF plan
<1>. QED BY <1>5, <1>6 DEF nx

LEMMA TypesContinues ==
    ASSUME TypesInv, BusFixed, devQ # <<>>, NEW s, Continues(s)
    PROVE  TypesInv'
<1>1. QueueTypes /\ TaskTypes /\ BusTypes /\ DevTypes /\ CmdInv /\ RequestInv
  BY DEF TypesInv
<1>2. /\ s \in BusWaits /\ s # "Idle" /\ s # "ValidateRequest" /\ dst # "Idle"
      /\ s \in States
      /\ dst' = s /\ devErr' = "timeout"
      /\ timers' = (timers \ {"write"}) \cup {"op"} /\ cmd' = Operation(s)
      /\ devQ' = Tail(devQ) /\ reqs' = reqs /\ late' = late
      /\ UNCHANGED <<defq, cur, done, replies, taskVars, dropped>>
  BY DEF Continues, EnterBusWait, Begins, TurnsPage, GoesOn, BusWaits, States, BusFixed
<1>3. Acceptable(Req)
  <2>1. (dst = "ValidateRequest" /\ devErr = "none") \/ Serving
    BY DEF Continues, Begins, TurnsPage, GoesOn, Serving
  <2>. QED BY <1>1, <2>1 DEF RequestInv
<1>4. /\ page' \in [idx : Nat, addr : Nat, size : Nat]
      /\ Req.op = "write" => PageOf(Req, page')
  <2>1. CASE TurnsPage(s)
    <3>1. dst = "PostWriteWait" /\ page' = NextPage
          /\ NextPage.idx <= PagePlan(Req.addr, Req.n).total
      BY <2>1 DEF TurnsPage
    <3>. QED BY <1>1, <3>1, PageTurned
  <2>2. CASE Begins(s) \/ GoesOn(s)
    <3>1. page' = page
      BY <2>2 DEF Begins, GoesOn
    <3>. QED BY <1>1, <1>2, <1>3, <3>1 DEF DevTypes, RequestInv
  <2>. QED BY <2>1, <2>2 DEF Continues
<1>5. synced' \in BOOLEAN
  <2>1. synced' = BusQuiet \/ synced' = synced
    BY DEF Continues, Begins, TurnsPage, GoesOn
  <2>2. BusQuiet \in BOOLEAN
    BY DEF BusQuiet
  <2>. QED BY <1>1, <2>1, <2>2 DEF DevTypes
<1>6. Req' = Req
  BY <1>2 DEF Req
<1>7. RequestInv'
  <2>1. /\ s \in {"GenerateStart1", "Send7BitAddrRxMode", "ReadMem"} => Req.op = "read"
        /\ s = "WriteMem" => Req.op = "write"
        /\ s # "PostWriteWait"
    <3>1. Req.op \in {"read", "write"}
      BY <1>1, <1>2, Served
    <3>. QED BY <1>1, <3>1 DEF Continues, Begins, TurnsPage, GoesOn, RequestInv
  <2>. QED BY <1>2, <1>3, <1>4, <1>6, <2>1 DEF RequestInv, Serving
<1>10. CmdInv'
  <2>1. s = "CheckingBus" \/ page' = page
    BY DEF Continues, Begins, TurnsPage, GoesOn
  <2>2. cmd' = Operation(dst)'
    BY <1>2, <1>6, <2>1 DEF Operation
  <2>. QED BY <1>2, <2>2 DEF CmdInv
<1>8. DevTypes'
  BY <1>1, <1>2, <1>4, <1>5 DEF DevTypes, Timers
<1>9. QueueTypes' /\ TaskTypes' /\ BusTypes'
  <2>1. Tail(devQ) \in Seq(Events(Len(reqs)))
    BY <1>1, TailPlaces DEF QueueTypes
  <2>. QED BY <1>1, <1>2, <2>1
           DEF QueueTypes, TaskTypes, BusTypes, BusFixed, LeftInv, taskVars, Ids
<1>. QED BY <1>7, <1>8, <1>9, <1>10 DEF TypesInv

LEMMA TypesDev ==
    ASSUME TypesInv, DevHandler
    PROVE  TypesInv'
<1>1. QueueTypes /\ TaskTypes /\ BusTypes /\ DevTypes /\ CmdInv /\ RequestInv
  BY DEF TypesInv
<1>2. BusFixed /\ cmd = NoCmd /\ devQ # <<>> /\ DevKind
  BY <1>1, DevKinds
<1>3. /\ Len(reqs) \in Nat /\ reqs' = reqs /\ Len(reqs') \in Nat
      /\ devQ \in Seq(Events(Len(reqs)))
      /\ reqs' \in Seq(Postings) /\ late' = late
      /\ Tail(devQ) \in Seq(Events(Len(reqs)))
  BY <1>1, <1>2, TailPlaces, LenProperties DEF QueueTypes, BusFixed
<1>4. First \in Events(Len(reqs)) /\ (First.sig = "Request" => First \in RequestEvents(Len(reqs)))
  BY <1>1, <1>2, FirstEvent
<1>5. BusTypes'
  BY <1>1, <1>2 DEF BusTypes, BusFixed, LeftInv
<1>6. CASE IdleRequest
  <2>. DEFINE r == reqs[First.id]
  <2>1. /\ dst = "Idle" /\ First.sig = "Request"
        /\ cur' = First.id /\ dst' = "ValidateRequest" /\ timers' = {"request"}
        /\ done' = NoneDone
        /\ devErr' = IF Acceptable(r) THEN "none" ELSE "invalid"
        /\ page' = IF Acceptable(r) /\ r.op = "write"
                   THEN [idx |-> 1, addr |-> r.addr,
                         size |-> PagePlan(r.addr, r.n).first]
                   ELSE NoPage
        /\ devQ' = Append(Tail(devQ), [sig |-> "Private"])
        /\ UNCHANGED <<cmd, defq, taskVars, reqs, replies, dropped, synced, late>>
    BY <1>6 DEF IdleRequest, Event, First
  <2>2. First.id \in 1 .. Len(reqs)
    BY <1>4, <2>1 DEF RequestEvents
  <2>3. r \in Postings /\ Req' = r
    BY <1>1, <2>1, <2>2, ElementOfSeq DEF QueueTypes, Req
  <2>4. devQ' \in Seq(Events(Len(reqs)))
    <3>1. [sig |-> "Private"] \in Events(Len(reqs))
      BY DEF Events, OtherEvents
    <3>. QED BY <1>3, <2>1, <3>1, AppendPlaces
  <2>5. /\ page' \in [idx : Nat, addr : Nat, size : Nat]
        /\ Acceptable(r) /\ r.op = "write" => PageOf(r, page')
    <3>1. CASE Acceptable(r) /\ r.op = "write"
      <4>1. page' = [idx |-> 1, addr |-> r.addr, size |-> PagePlan(r.addr, r.n).first]
        BY <2>1, <3>1
      <4>. QED BY <2>3, <3>1, <4>1, FirstPage
    <3>2. CASE ~ (Acceptable(r) /\ r.op = "write")
      <4>1. page' = NoPage
        BY <2>1, <3>2
      <4>. QED BY <3>2, <4>1 DEF NoPage
    <3>. QED BY <3>1, <3>2
  <2>. HIDE DEF r
  <2>6. DevTypes'
    <3>1. cur' \in 0 .. Len(reqs) /\ cur' # 0
      BY <1>3, <2>1, <2>2
    <3>. QED BY <1>1, <2>1, <2>5, <3>1 DEF DevTypes, States, Timers
  <2>7. RequestInv'
    BY <2>1, <2>3, <2>5 DEF RequestInv, Serving
  <2>8. CmdInv'
    BY <1>2, <2>1 DEF CmdInv
  <2>9. QueueTypes' /\ TaskTypes'
    BY <1>1, <2>1, <2>4 DEF QueueTypes, TaskTypes, taskVars, Ids
  <2>. QED BY <1>5, <2>6, <2>7, <2>8, <2>9 DEF TypesInv
<1>7. CASE DeferRequest
  <2>1. /\ dst # "Idle" /\ First.sig = "Request" /\ devQ' = Tail(devQ)
        /\ \/ RoomToDefer /\ defq' = Append(defq, First) /\ UNCHANGED dropped
           \/ dropped' = dropped \cup {First.id} /\ UNCHANGED defq
        /\ UNCHANGED <<cmd, dst, cur, devErr, done, page, timers, taskVars, reqs,
                       replies, synced, late>>
    BY <1>7 DEF DeferRequest, Event, First
  <2>2. First \in RequestEvents(Len(reqs)) /\ First.id \in Ids
    BY <1>4, <2>1 DEF RequestEvents, Ids
  <2>3. defq' \in Seq(RequestEvents(Len(reqs))) /\ Len(defq') <= DeferMax
    <3>1. CASE defq' = defq
      BY <1>1, <3>1 DEF QueueTypes
    <3>2. CASE RoomToDefer /\ defq' = Append(defq, First)
      <4>1. defq' \in Seq(RequestEvents(Len(reqs))) /\ Len(defq') = Len(defq) + 1
            /\ Len(defq) \in Nat
        BY <1>1, <2>2, <3>2, AppendPlaces DEF QueueTypes
      <4>2. Len(defq) < DeferMax
        BY <3>2 DEF RoomToDefer
      <4>. QED BY <4>1, <4>2, DevAssumption
    <3>. QED BY <2>1, <3>1, <3>2
  <2>4. dropped' \subseteq Ids
    BY <1>1, <2>1, <2>2 DEF QueueTypes
  <2>5. QueueTypes' /\ TaskTypes'
    BY <1>1, <1>3, <2>1, <2>3, <2>4 DEF QueueTypes, TaskTypes, taskVars, Ids
  <2>6. DevTypes'
    BY <1>1, <2>1 DEF DevTypes
  <2>7. RequestInv' /\ CmdInv'
    BY <1>1, <1>3, <2>1, SameRequest
  <2>. QED BY <1>5, <2>5, <2>6, <2>7 DEF TypesInv
<1>8. CASE Unhandled
  <2>1. devQ' = Tail(devQ) /\ UNCHANGED <<cmd, devVars, taskVars, reqs>>
    BY <1>8 DEF Unhandled
  <2>2. QueueTypes' /\ TaskTypes' /\ DevTypes'
    BY <1>1, <1>3, <2>1 DEF QueueTypes, TaskTypes, DevTypes, taskVars, devVars, Ids
  <2>3. RequestInv' /\ CmdInv'
    BY <1>1, <1>3, <2>1, SameRequest DEF devVars
  <2>. QED BY <1>5, <2>2, <2>3 DEF TypesInv
<1>9. CASE Writes
  <2>1. /\ dst = "WriteMem" /\ dst' = "PostWriteWait" /\ devErr' = "none"
        /\ timers' = (timers \ {"op"}) \cup {"write"} /\ devQ' = Tail(devQ)
        /\ UNCHANGED <<cmd, defq, cur, done, page, replies, taskVars, synced, dropped>>
    BY <1>9 DEF Writes
  <2>2. QueueTypes' /\ TaskTypes'
    BY <1>1, <1>3, <2>1 DEF QueueTypes, TaskTypes, taskVars, Ids
  <2>3. DevTypes'
    BY <1>1, <1>3, <2>1 DEF DevTypes, Timers, States
  <2>4. Req' = Req
    BY <1>3, <2>1 DEF Req
  <2>5. RequestInv' /\ CmdInv'
    BY <1>1, <1>2, <2>1, <2>4 DEF RequestInv, CmdInv, Serving
  <2>. QED BY <1>5, <2>2, <2>3, <2>5 DEF TypesInv
<1>. QED BY <1>2, <1>6, <1>7, <1>8, <1>9, TypesContinues, TypesReturns DEF DevKind

\* A timer.
Expires(t) ==
    /\ t \in timers /\ timers' = timers \ {t}
    /\ devQ' = Append(devQ, [sig |-> Timeout[t]])
    /\ late' = (late \/ t = "request" \/ (t = "op" /\ ~ BusQuiet))
    /\ UNCHANGED <<cmd, bst, errorCode, xfer, phase, held, ptr, mem, cut, armed,
                   leaked, dst, defq, cur, devErr, done, page, taskVars, reqs,
                   replies, dropped, synced>>
    /\ faults' = faults \/ Fault

LEMMA TimerKinds ==
    ASSUME TimerStep
    PROVE  \E t \in Timers : Expires(t)
<1>1. /\ "op" \in Timers /\ "write" \in Timers /\ "request" \in Timers
  BY DEF Timers
<1>. QED BY <1>1 DEF TimerStep, OpTimerFires, PostWriteTimerFires,
                RequestTimerFires, Fires, Expires

LEMMA TimeoutEvents ==
    /\ Timeout["op"] = "OpTimeout" /\ Timeout["write"] = "PostWriteTimer"
    /\ Timeout["request"] = "DevTimeout"
BY DEF Timeout

LEMMA TypesTimer ==
    ASSUME TypesInv, NEW t \in Timers, Expires(t)
    PROVE  TypesInv'
<1>1. QueueTypes /\ TaskTypes /\ BusTypes /\ DevTypes /\ CmdInv /\ RequestInv
  BY DEF TypesInv
<1>2. Len(reqs) \in Nat /\ reqs' = reqs /\ reqs \in Seq(Postings)
  BY <1>1, LenProperties DEF QueueTypes, Expires
<1>3. devQ' \in Seq(Events(Len(reqs)))
  <2>1. [sig |-> Timeout[t]] \in Events(Len(reqs))
    BY TimeoutEvents DEF Timers, Events, OtherEvents
  <2>. QED BY <1>1, <2>1, AppendPlaces DEF Expires, QueueTypes
<1>4. QueueTypes' /\ TaskTypes'
  BY <1>1, <1>2, <1>3 DEF QueueTypes, TaskTypes, Expires, taskVars, Ids
<1>5. faults' \in 0 .. MaxFaults
  <2>1. faults' = faults \/ (faults < MaxFaults /\ faults' = faults + 1)
    BY DEF Fault, Expires
  <2>. QED BY <1>1, <2>1, BusAssumption DEF BusTypes
<1>6. BusTypes'
  BY <1>1, <1>5 DEF BusTypes, LeftInv, Expires
<1>7. late' \in BOOLEAN
  BY DEF Expires, BusQuiet
<1>8. DevTypes'
  BY <1>1, <1>7 DEF DevTypes, Expires
<1>9. RequestInv' /\ CmdInv'
  BY <1>1, <1>2, SameRequest DEF Expires
<1>. QED BY <1>4, <1>6, <1>8, <1>9 DEF TypesInv

\* The raw queue of the task.
LEMMA TypesCplrQ ==
    ASSUME TypesInv, UNCHANGED <<busVars, devVars, reqs>>, TaskTypes'
    PROVE  TypesInv'
<1>1. QueueTypes /\ TaskTypes /\ BusTypes /\ DevTypes /\ CmdInv /\ RequestInv
  BY DEF TypesInv
<1>2. Len(reqs) \in Nat /\ reqs' = reqs /\ reqs \in Seq(Postings)
  BY <1>1, LenProperties DEF QueueTypes
<1>3. QueueTypes' /\ BusTypes' /\ DevTypes'
  BY <1>1 DEF QueueTypes, BusTypes, LeftInv, DevTypes, busVars, devVars, Ids
<1>4. RequestInv' /\ CmdInv'
  BY <1>1, <1>2, SameRequest DEF busVars, devVars
<1>. QED BY <1>3, <1>4 DEF TypesInv

LEMMA TypesNext ==
    ASSUME TypesInv, [Next]_sysVars
    PROVE  TypesInv'
<1>1. QueueTypes /\ TaskTypes
  BY DEF TypesInv
<1>2. cplrQ # <<>> => Tail(cplrQ) \in Seq(Ids \cup {EthEvt})
  BY <1>1, TailPlaces DEF TaskTypes
<1>3. ASSUME NEW r \in Requests, PostRequest(r) PROVE TypesInv'
  <2>1. Posted(r, "QPC") /\ "QPC" \in {"QPC", "FRT"}
    BY <1>3 DEF PostRequest
  <2>2. Ids \subseteq Ids'
    BY <1>1, <2>1, Growth
  <2>3. TaskTypes'
    <3>1. Ids \cup {EthEvt} \subseteq Ids' \cup {EthEvt}
      BY <2>2
    <3>2. cplrQ \in Seq(Ids' \cup {EthEvt})
      BY <1>1, <3>1, SeqMonotonic DEF TaskTypes
    <3>. QED BY <1>1, <1>3, <3>2 DEF PostRequest, TaskTypes, taskVars, EthEvt
  <2>. QED BY <1>3, <2>1, <2>3, TypesPosted DEF PostRequest
<1>4. CASE EthArrives
  <2>1. cplrQ' \in Seq(Ids \cup {EthEvt})
    <3>1. EthEvt \in Ids \cup {EthEvt}
      OBVIOUS
    <3>. QED BY <1>1, <1>4, <3>1, AppendPlaces DEF EthArrives, TaskTypes
  <2>. QED BY <1>1, <1>4, <2>1, TypesCplrQ DEF EthArrives, TaskTypes, Ids, EthEvt
<1>5. CASE TaskReads
  <2>1. Posted(TaskRead, "FRT") /\ "FRT" \in {"QPC", "FRT"} /\ TaskRead \in Requests
    BY <1>5, SystemAssumption DEF TaskReads
  <2>2. Ids \subseteq Ids'
    BY <1>1, <2>1, Growth
  <2>3. TaskTypes'
    <3>1. Ids \cup {EthEvt} \subseteq Ids' \cup {EthEvt}
      BY <2>2
    <3>2. Tail(cplrQ) \in Seq(Ids' \cup {EthEvt})
      BY <1>2, <1>5, <3>1, SeqMonotonic DEF TaskReads
    <3>. QED BY <1>5, <3>2 DEF TaskReads, TaskTypes, EthEvt
  <2>. QED BY <1>5, <2>1, <2>3, TypesPosted DEF TaskReads
<1>6. CASE TaskDrops
  BY <1>1, <1>2, <1>6, TypesCplrQ DEF TaskDrops, TaskTypes, Ids, EthEvt
<1>7. CASE TaskWakes
  <2>1. cplrQ' \in Seq(Ids \cup {EthEvt})
    BY <1>1, <1>2, <1>7 DEF TaskWakes, TaskTypes
  <2>. QED BY <1>1, <1>7, <2>1, TypesCplrQ DEF TaskWakes, TaskTypes, Ids, EthEvt
<1>8. CASE UNCHANGED sysVars
  BY <1>1, <1>8, TypesCplrQ
     DEF sysVars, vars, busVars, devVars, taskVars, TaskTypes, Ids, EthEvt
<1>. QED
  BY <1>3, <1>4, <1>5, <1>6, <1>7, <1>8, TypesBus, TypesDev, TypesTimer, TimerKinds
     DEF Next, DevStep, TaskStep

LEMMA TypesInit ==
    ASSUME Init
    PROVE  TypesInv
<1>1. QueueTypes
  <2>1. reqs = <<>> /\ devQ = <<>> /\ defq = <<>> /\ replies = <<>> /\ dropped = {}
    BY DEF Init, BusInit, DevInit
  <2>. QED BY <2>1, EmptySeq, DevAssumption DEF QueueTypes
<1>2. TaskTypes
  BY EmptySeq DEF Init, DevInit, TaskTypes
<1>3. BusTypes
  BY BusAssumption, DevAssumption
     DEF Init, BusInit, BusTypes, Phases, Addrs, NoXfer, WaitStates, LeftInv
<1>4. DevTypes
  <2>1. Len(reqs) = 0 /\ cur = 0 /\ dst = "Idle" /\ timers = {}
    BY DEF Init, DevInit
  <2>2. page \in [idx : Nat, addr : Nat, size : Nat]
    BY DEF Init, DevInit, NoPage
  <2>3. /\ devErr \in {"none", "timeout", "bus", "invalid"} /\ done = NoneDone
        /\ synced \in BOOLEAN /\ late \in BOOLEAN
    BY DEF Init, DevInit
  <2>4. cur \in 0 .. Len(reqs) /\ dst \in States
    BY <2>1 DEF States
  <2>. QED BY <2>1, <2>2, <2>3, <2>4 DEF DevTypes
<1>5. CmdInv /\ RequestInv
  BY DEF Init, BusInit, DevInit, CmdInv, RequestInv, Serving
<1>. QED BY <1>1, <1>2, <1>3, <1>4, <1>5 DEF TypesInv

LEMMA TypesAlways == Spec => []TypesInv
BY TypesInit, TypesNext, PTL DEF Spec

\* In every state of the I2C stack every variable has its type, whatever the
\* EEPROM, the requests and the faults: I2C1DevMgr has a request exactly while
\* it is busy, no timer is armed in its Idle, no more requests are deferred than
\* the queue holds, and the EEPROM's address counter stays in its range.
THEOREM I2CTypeCorrect == Spec => []TypeOK
<1>1. ASSUME TypesInv PROVE TypeOK
  <2>1. QueueTypes /\ TaskTypes /\ BusTypes /\ DevTypes
    BY <1>1 DEF TypesInv
  <2>2. \A i \in DOMAIN defq : defq[i].sig = "Request"
    <3>1. \A i \in DOMAIN defq : defq[i] \in RequestEvents(Len(reqs))
      BY <2>1, LenProperties, ElementOfSeq DEF QueueTypes
    <3>. QED BY <3>1 DEF RequestEvents
  <2>3. \A i \in DOMAIN cplrQ : cplrQ[i] \in Ids \cup {EthEvt}
    BY <2>1, LenProperties, ElementOfSeq DEF TaskTypes
  <2>4. /\ bst \in WaitStates \cup {"Idle"} /\ errorCode \in {"none", "bus"}
        /\ phase \in Phases /\ held \in BOOLEAN
        /\ armed \in BOOLEAN /\ cut \in BOOLEAN /\ leaked \in BOOLEAN
        /\ ptr \in Addrs /\ mem \in [Addrs -> 0 .. MaxReqs]
        /\ faults \in 0 .. MaxFaults
    BY <2>1, Zenon DEF BusTypes, LeftInv
  <2>5. /\ dst \in States /\ cur \in 0 .. Len(reqs)
        /\ dst = "Idle" <=> cur = 0
        /\ timers \subseteq Timers /\ (dst = "Idle" => timers = {})
        /\ synced \in BOOLEAN /\ late \in BOOLEAN
    BY <2>1, Zenon DEF DevTypes
  <2>6. /\ Len(defq) <= DeferMax /\ dropped \subseteq Ids
        /\ task \in {"loop", "suspended", "woken"}
    BY <2>1, Zenon DEF QueueTypes, TaskTypes
  <2>. QED BY <2>2, <2>3, <2>4, <2>5, <2>6, Zenon DEF TypeOK
<1>. QED BY <1>1, TypesAlways, PTL

-----------------------------------------------------------------------------
(* The order of the replies *)

LEMMA NumbersAppend ==
    ASSUME NEW S, NEW s \in Seq(S), NEW e \in S
    PROVE  /\ e.sig # "Request" => Numbers(Append(s, e)) = Numbers(s)
           /\ e.sig = "Request" => Numbers(Append(s, e)) = Numbers(s) \cup {e.id}
           /\ Sorted(s) /\ (e.sig = "Request" => Older(Numbers(s), {e.id}))
                 => Sorted(Append(s, e))
<1>. DEFINE t == Append(s, e)
            n == Len(s) + 1
<1>1. /\ \A i \in DOMAIN s : t[i] = s[i] /\ i \in Nat /\ i < n
      /\ t[n] = e /\ n \notin DOMAIN s /\ n \in Nat
      /\ DOMAIN t = DOMAIN s \cup {n}
  BY AppendPlaces, LenProperties
<1>. HIDE DEF t, n
<1>2. /\ Requested(s) \subseteq Requested(t)
      /\ \A i \in Requested(t) : i \in Requested(s) \/ (i = n /\ e.sig = "Request")
      /\ e.sig = "Request" => n \in Requested(t)
      /\ \A i \in Requested(s) : t[i] = s[i] /\ i \in Nat /\ i < n
  BY <1>1 DEF Requested
<1>3. e.sig # "Request" => Numbers(t) = Numbers(s)
  BY <1>2 DEF Numbers
<1>4. e.sig = "Request" => Numbers(t) = Numbers(s) \cup {e.id}
  BY <1>1, <1>2 DEF Numbers
<1>5. ASSUME Sorted(s), e.sig = "Request" => Older(Numbers(s), {e.id}) PROVE Sorted(t)
  <2>1. SUFFICES ASSUME NEW i \in Requested(t), NEW j \in Requested(t), i < j
                 PROVE  t[i].id < t[j].id
    BY DEF Sorted
  <2>2. i \in Requested(s)
    BY <1>1, <1>2, <2>1
  <2>3. CASE j \in Requested(s)
    BY <1>2, <1>5, <2>1, <2>2, <2>3 DEF Sorted
  <2>4. CASE j = n /\ e.sig = "Request"
    <3>1. s[i].id \in Numbers(s) /\ t[j] = e /\ t[i] = s[i]
      BY <1>1, <1>2, <2>2, <2>4 DEF Numbers
    <3>. QED BY <1>5, <2>4, <3>1 DEF Older
  <2>. QED BY <1>2, <2>3, <2>4
<1>. QED BY <1>3, <1>4, <1>5 DEF t

LEMMA NumbersTail ==
    ASSUME NEW S, NEW s \in Seq(S), s # <<>>
    PROVE  /\ Head(s).sig # "Request" => Numbers(Tail(s)) = Numbers(s)
           /\ Head(s).sig = "Request" =>
                 /\ Numbers(s) = {Head(s).id} \cup Numbers(Tail(s))
                 /\ Sorted(s) => Older({Head(s).id}, Numbers(Tail(s)))
           /\ Sorted(s) => Sorted(Tail(s))
<1>. DEFINE t == Tail(s)
<1>1. /\ Head(s) = s[1] /\ 1 \in DOMAIN s
      /\ \A i \in Requested(t) :
            i \in Nat \ {0} /\ i + 1 \in Requested(s) /\ t[i] = s[i + 1]
      /\ \A i \in Requested(s) \ {1} :
            i - 1 \in Requested(t) /\ t[i - 1] = s[i]
  BY TailPlaces DEF Requested
<1>. HIDE DEF t
<1>2. Head(s).sig # "Request" <=> 1 \notin Requested(s)
  BY <1>1 DEF Requested
<1>3. Numbers(t) = {s[i].id : i \in Requested(s) \ {1}}
  <2>1. Numbers(t) \subseteq {s[i].id : i \in Requested(s) \ {1}}
    <3>1. \A i \in Requested(t) : i + 1 \in Requested(s) \ {1} /\ t[i].id = s[i + 1].id
      BY <1>1
    <3>. QED BY <3>1 DEF Numbers
  <2>2. {s[i].id : i \in Requested(s) \ {1}} \subseteq Numbers(t)
    <3>1. \A i \in Requested(s) \ {1} : i - 1 \in Requested(t) /\ s[i].id = t[i - 1].id
      BY <1>1
    <3>. QED BY <3>1 DEF Numbers
  <2>. QED BY <2>1, <2>2
<1>4. Head(s).sig # "Request" => Numbers(t) = Numbers(s)
  BY <1>2, <1>3 DEF Numbers
<1>5. Head(s).sig = "Request" => Numbers(s) = {Head(s).id} \cup Numbers(t)
  <2>1. SUFFICES ASSUME Head(s).sig = "Request"
                 PROVE  Numbers(s) = {Head(s).id} \cup Numbers(t)
    OBVIOUS
  <2>2. 1 \in Requested(s) /\ s[1] = Head(s)
    BY <1>1, <1>2, <2>1
  <2>3. Numbers(s) = {s[1].id} \cup {s[i].id : i \in Requested(s) \ {1}}
    BY <2>2 DEF Numbers
  <2>. QED BY <1>3, <2>2, <2>3
<1>6. ASSUME Head(s).sig = "Request", Sorted(s) PROVE Older({Head(s).id}, Numbers(t))
  <2>1. ASSUME NEW i \in Requested(t) PROVE s[1].id < t[i].id
    <3>1. i + 1 \in Requested(s) /\ 1 \in Requested(s) /\ 1 < i + 1 /\ t[i] = s[i + 1]
      BY <1>1, <1>2, <1>6, <2>1
    <3>. QED BY <1>6, <3>1 DEF Sorted
  <2>. QED BY <1>1, <2>1 DEF Older, Numbers
<1>7. ASSUME Sorted(s) PROVE Sorted(t)
  <2>1. SUFFICES ASSUME NEW i \in Requested(t), NEW j \in Requested(t), i < j
                 PROVE  t[i].id < t[j].id
    BY DEF Sorted
  <2>2. i + 1 \in Requested(s) /\ j + 1 \in Requested(s) /\ i + 1 < j + 1
        /\ t[i] = s[i + 1] /\ t[j] = s[j + 1]
    BY <1>1, <2>1
  <2>. QED BY <1>7, <2>2 DEF Sorted
<1>. QED BY <1>4, <1>5, <1>6, <1>7 DEF t

LEMMA NumbersFront ==
    ASSUME NEW S, NEW s \in Seq(S), s # <<>>, Head(s).sig # "Request",
           NEW e \in S, e.sig = "Request"
    PROVE  /\ Numbers([s EXCEPT ![1] = e]) = {e.id} \cup Numbers(s)
           /\ Sorted(s) /\ Older({e.id}, Numbers(s)) => Sorted([s EXCEPT ![1] = e])
           /\ [s EXCEPT ![1] = e] # <<>> /\ [s EXCEPT ![1] = e][1] = e
<1>. DEFINE t == [s EXCEPT ![1] = e]
<1>1. /\ s \in [DOMAIN s -> S] /\ 1 \in DOMAIN s /\ Head(s) = s[1]
      /\ \A i \in DOMAIN s : i \in Nat \ {0}
  BY TailPlaces, LenProperties
<1>2. /\ DOMAIN t = DOMAIN s /\ t[1] = e
      /\ \A i \in DOMAIN s \ {1} : t[i] = s[i]
  BY <1>1
<1>. HIDE DEF t
<1>3. /\ Requested(t) = Requested(s) \cup {1} /\ 1 \notin Requested(s)
      /\ \A i \in Requested(s) : t[i] = s[i] /\ i \in Nat \ {0}
  BY <1>1, <1>2 DEF Requested
<1>4. Numbers(t) = {e.id} \cup Numbers(s)
  BY <1>2, <1>3 DEF Numbers
<1>5. ASSUME Sorted(s), Older({e.id}, Numbers(s)) PROVE Sorted(t)
  <2>1. SUFFICES ASSUME NEW i \in Requested(t), NEW j \in Requested(t), i < j
                 PROVE  t[i].id < t[j].id
    BY DEF Sorted
  <2>2. j \in Requested(s) /\ t[j] = s[j]
    BY <1>3, <2>1
  <2>3. CASE i \in Requested(s)
    BY <1>3, <1>5, <2>1, <2>2, <2>3 DEF Sorted
  <2>4. CASE i = 1
    <3>1. s[j].id \in Numbers(s) /\ t[i] = e
      BY <1>2, <2>2, <2>4 DEF Numbers
    <3>. QED BY <1>5, <2>2, <3>1 DEF Older
  <2>. QED BY <1>3, <2>3, <2>4
<1>6. t # <<>>
  <2>1. 1 \in DOMAIN t
    BY <1>1, <1>2
  <2>. QED BY <2>1
<1>. QED BY <1>2, <1>4, <1>5, <1>6 DEF t

\* The numbers are those of requests posted.
LEMMA NumbersPosted ==
    ASSUME QueueTypes, DevTypes, OrderInv
    PROVE  /\ Left \in Seq(Events(Len(reqs))) /\ Len(reqs) \in Nat
           /\ Numbers(Left) \subseteq 1 .. Len(reqs)
           /\ Numbers(defq) \subseteq 1 .. Len(reqs)
           /\ Serves \subseteq 1 .. Len(reqs)
           /\ Replied \subseteq 1 .. Len(reqs)
<1>1. Len(reqs) \in Nat
  BY LenProperties DEF QueueTypes
<1>2. ASSUME NEW q \in Seq(Events(Len(reqs))), NEW i \in DOMAIN q, q[i].sig = "Request"
      PROVE  q[i].id \in 1 .. Len(reqs)
  <2>1. q[i] \in Events(Len(reqs))
    BY LenProperties, ElementOfSeq
  <2>. QED BY <1>2, <2>1 DEF Events, RequestEvents, AnswerEvents, OtherEvents
<1>3. Left \in Seq(Events(Len(reqs)))
  BY TailPlaces DEF Left, OrderInv, QueueTypes
<1>4. Numbers(Left) \subseteq 1 .. Len(reqs)
  BY <1>2, <1>3 DEF Numbers, Requested
<1>5. Numbers(defq) \subseteq 1 .. Len(reqs)
  <2>1. RequestEvents(Len(reqs)) \subseteq Events(Len(reqs))
    BY DEF Events
  <2>2. defq \in Seq(Events(Len(reqs)))
    BY <2>1, SeqMonotonic DEF QueueTypes
  <2>. QED BY <1>2, <2>2 DEF Numbers, Requested
<1>6. Serves \subseteq 1 .. Len(reqs)
  <2>1. CASE Recalls
    <3>1. devQ \in Seq(Events(Len(reqs))) /\ 1 \in DOMAIN devQ /\ devQ[1].sig = "Request"
      BY <2>1, TailPlaces DEF OrderInv, QueueTypes
    <3>. QED BY <1>2, <2>1, <3>1 DEF Serves
  <2>2. CASE ~ Recalls
    BY <1>1, <2>2 DEF Serves, DevTypes
  <2>. QED BY <2>1, <2>2
<1>7. Replied \subseteq 1 .. Len(reqs)
  <2>1. \A k \in DOMAIN replies : replies[k] \in ReplyTypes(Len(reqs))
    BY LenProperties, ElementOfSeq DEF QueueTypes
  <2>. QED BY <2>1 DEF Replied, ReplyTypes
<1>. QED BY <1>1, <1>3, <1>4, <1>5, <1>6, <1>7

\* An event at the end of the queue.
LEMMA LeftAppend ==
    ASSUME QueueTypes, OrderInv, NEW S, devQ \in Seq(S), NEW e \in S,
           devQ' = Append(devQ, e), UNCHANGED <<dst, defq, cur>>
    PROVE  /\ Left \in Seq(S) /\ Left' = Append(Left, e)
           /\ Serves' = Serves
           /\ Recalls' => devQ' # <<>> /\ devQ'[1].sig = "Request"
<1>1. Recalls' = Recalls
  BY DEF Recalls
<1>2. CASE Recalls
  <2>1. /\ devQ # <<>> /\ devQ[1].sig = "Request" /\ 1 \in DOMAIN devQ
        /\ Tail(devQ) \in Seq(S)
    BY <1>2, TailPlaces DEF OrderInv
  <2>2. Tail(devQ') = Append(Tail(devQ), e)
    BY <2>1, HeadTailAppend
  <2>3. devQ'[1] = devQ[1] /\ 1 \in DOMAIN devQ'
    BY <2>1, AppendPlaces
  <2>4. devQ' # <<>>
    BY <2>3
  <2>. QED BY <1>1, <1>2, <2>1, <2>2, <2>3, <2>4 DEF Left, Serves
<1>3. CASE ~ Recalls
  BY <1>1, <1>3 DEF Left, Serves
<1>. QED BY <1>2, <1>3

LEMMA SameNumbers ==
    ASSUME NEW p, NEW q, p = q
    PROVE  Numbers(p) = Numbers(q) /\ (Sorted(p) <=> Sorted(q))
OBVIOUS

LEMMA OrderOther ==
    ASSUME QueueTypes, OrderInv, UNCHANGED <<dst, defq, cur, replies>>,
           \/ devQ' = devQ
           \/ \E n \in Nat : \E e \in Events(n) :
                 /\ e.sig # "Request" /\ devQ' = Append(devQ, e)
                 /\ devQ \in Seq(Events(n))
    PROVE  OrderInv'
<1>1. Replied' = Replied /\ RepliesInOrder'
  BY DEF Replied, OrderInv, RepliesInOrder
<1>2. CASE devQ' = devQ
  <2>1. Left' = Left /\ Serves' = Serves /\ Recalls' = Recalls
    BY <1>2 DEF Recalls, Left, Serves
  <2>. QED BY <1>1, <1>2, <2>1 DEF OrderInv
<1>3. ASSUME NEW n \in Nat, NEW e \in Events(n), e.sig # "Request",
             devQ' = Append(devQ, e), devQ \in Seq(Events(n))
      PROVE  OrderInv'
  <2>1. /\ Left \in Seq(Events(n)) /\ Left' = Append(Left, e)
        /\ Serves' = Serves /\ Numbers(defq)' = Numbers(defq)
        /\ Sorted(defq)' <=> Sorted(defq)
        /\ Recalls' => devQ' # <<>> /\ devQ'[1].sig = "Request"
    BY <1>3, LeftAppend DEF Numbers, Sorted, Requested
  <2>2. Numbers(Left)' = Numbers(Left) /\ (Sorted(Left) => Sorted(Left)')
    <3>0. Left \in Seq(Events(n)) /\ e.sig # "Request"
      BY <1>3, <2>1
    <3>1. /\ Numbers(Append(Left, e)) = Numbers(Left)
          /\ Sorted(Left) => Sorted(Append(Left, e))
      BY <3>0, NumbersAppend
    <3>2. /\ Numbers(Left)' = Numbers(Append(Left, e))
          /\ Sorted(Left)' <=> Sorted(Append(Left, e))
      BY <2>1, SameNumbers
    <3>. QED BY <3>1, <3>2
  <2>. QED BY <1>1, <2>1, <2>2 DEF OrderInv, Older
<1>. QED BY <1>2, <1>3

LEMMA OrderPosted ==
    ASSUME QueueTypes, DevTypes, OrderInv, NEW r \in Requests,
           NEW acc \in {"QPC", "FRT"}, Posted(r, acc),
           UNCHANGED <<dst, defq, cur, replies>>
    PROVE  OrderInv'
<1>. DEFINE n == Len(reqs')
            e == [sig |-> "Request", id |-> n]
<1>1. /\ Len(reqs) \in Nat /\ n = Len(reqs) + 1 /\ devQ' = Append(devQ, e)
      /\ e \in RequestEvents(n) /\ devQ \in Seq(Events(n))
  BY Growth
<1>2. e \in Events(n) /\ e.sig = "Request" /\ e.id = n
  BY <1>1 DEF Events
<1>. HIDE DEF e, n
<1>3. /\ Left \in Seq(Events(n)) /\ Left' = Append(Left, e)
      /\ Serves' = Serves /\ Numbers(defq)' = Numbers(defq)
      /\ Sorted(defq)' <=> Sorted(defq)
      /\ Recalls' => devQ' # <<>> /\ devQ'[1].sig = "Request"
  BY <1>1, <1>2, LeftAppend DEF Numbers, Sorted, Requested
<1>4. /\ Older(Numbers(Left), {n}) /\ Older(Numbers(defq), {n})
      /\ Older(Serves, {n}) /\ Older(Replied, {n})
  BY <1>1, NumbersPosted DEF Older
<1>5. /\ Numbers(Left)' = Numbers(Left) \cup {n}
      /\ Sorted(Left) => Sorted(Left)'
  <2>1. /\ Numbers(Append(Left, e)) = Numbers(Left) \cup {n}
        /\ Sorted(Left) => Sorted(Append(Left, e))
    BY <1>2, <1>3, <1>4, NumbersAppend
  <2>. QED BY <1>3, <2>1 DEF Numbers, Sorted, Requested
<1>6. Replied' = Replied /\ RepliesInOrder'
  BY DEF Replied, OrderInv, RepliesInOrder
<1>. QED BY <1>3, <1>4, <1>5, <1>6 DEF OrderInv, Older

\* The first event goes, and it is not a request.
LEMMA OrderTail ==
    ASSUME QueueTypes, OrderInv, devQ # <<>>, First.sig # "Request",
           devQ' = Tail(devQ), UNCHANGED <<defq, cur, replies>>,
           dst' = dst \/ (dst # "Idle" /\ dst' # "Idle")
    PROVE  OrderInv'
<1>1. ~ Recalls
  BY TailPlaces DEF OrderInv, QueueTypes, First
<1>2. ~ Recalls' /\ Serves' = Serves
  BY <1>1 DEF Recalls, Serves
<1>3. Left = devQ /\ Left' = Tail(devQ)
  BY <1>1, <1>2 DEF Left
<1>4. Numbers(Tail(devQ)) = Numbers(devQ) /\ (Sorted(devQ) => Sorted(Tail(devQ)))
  BY NumbersTail DEF QueueTypes, First
<1>5. Numbers(Left)' = Numbers(Left) /\ (Sorted(Left) => Sorted(Left)')
  BY <1>3, <1>4 DEF Numbers, Sorted, Requested
<1>6. /\ Replied' = Replied /\ RepliesInOrder' /\ Numbers(defq)' = Numbers(defq)
      /\ Sorted(defq)' <=> Sorted(defq)
  BY DEF Replied, OrderInv, RepliesInOrder, Numbers, Sorted, Requested
<1>. QED BY <1>2, <1>5, <1>6 DEF OrderInv

LEMMA OrderReturns ==
    ASSUME QueueTypes, TaskTypes, BusTypes, DevTypes, RequestInv, OrderInv, BusFixed,
           devQ # <<>>, NEW err, NEW d, Returns(err, d)
    PROVE  OrderInv'
<1>1. /\ dst # "Idle" /\ dst' = "Idle" /\ cur' = 0
      /\ Recall(Tail(devQ)) /\ Reply(err, d) /\ reqs' = reqs
      /\ First.sig # "Request"
  BY DEF Returns, BackToIdle, BusFixed
<1>2. /\ ~ Recalls /\ Serves = {cur} /\ Left = devQ
  BY <1>1 DEF Recalls, Serves, Left
<1>3. /\ defq = <<>> => defq' = defq /\ devQ' = Tail(devQ)
      /\ defq # <<>> =>
            /\ defq' = Tail(defq) /\ devQ' = [devQ EXCEPT ![1] = Head(defq)]
            /\ Head(defq) \in RequestEvents(Len(reqs))
            /\ Head(defq) \in Events(Len(reqs))
  BY <1>1, Recalled
<1>4. /\ Numbers(Tail(devQ)) = Numbers(devQ) /\ Sorted(Tail(devQ))
      /\ devQ \in Seq(Events(Len(reqs)))
  BY <1>1, <1>2, NumbersTail DEF QueueTypes, First, OrderInv
<1>5. Replied' = Replied \cup {cur} /\ RepliesInOrder'
  <2>. DEFINE e == [id |-> cur, ok |-> err = "none" /\ d.bytes = Req.n /\ Req.n # 0,
                    real |-> err = "none" /\ d.bytes = Req.n /\ Real(d),
                    synced |-> synced, cut |-> cut]
  <2>1. replies' = Append(replies, e) /\ e.id = cur
    BY DEF Reply, Returns, BackToIdle
  <2>. HIDE DEF e
  <2>2. /\ \A i \in DOMAIN replies : replies'[i] = replies[i] /\ i \in Nat
        /\ replies'[Len(replies) + 1] = e
        /\ DOMAIN replies' = DOMAIN replies \cup {Len(replies) + 1}
        /\ Len(replies) \in Nat /\ \A i \in DOMAIN replies : i <= Len(replies)
    <3>1. replies \in Seq(ReplyTypes(Len(reqs)) \cup {e})
      BY SeqMonotonic DEF QueueTypes
    <3>2. DOMAIN replies = 1 .. Len(replies) /\ Len(replies) \in Nat
      BY <3>1, LenProperties
    <3>. QED BY <2>1, <3>1, <3>2, AppendPlaces
  <2>3. Replied' = Replied \cup {cur}
    BY <2>1, <2>2 DEF Replied
  <2>4. \A i \in DOMAIN replies : replies[i].id < cur
    BY <1>2 DEF OrderInv, Older, Replied
  <2>5. RepliesInOrder'
    <3>1. SUFFICES ASSUME NEW i \in DOMAIN replies', NEW j \in DOMAIN replies', i < j
                   PROVE  replies'[i].id < replies'[j].id
      BY DEF RepliesInOrder
    <3>2. i \in DOMAIN replies
      BY <2>2, <3>1
    <3>3. CASE j \in DOMAIN replies
      BY <2>2, <3>1, <3>2, <3>3 DEF OrderInv, RepliesInOrder
    <3>4. CASE j = Len(replies) + 1
      BY <2>1, <2>2, <2>4, <3>2, <3>4
    <3>. QED BY <2>2, <3>3, <3>4
  <2>. QED BY <2>3, <2>5
<1>6. CASE defq = <<>>
  <2>1. ~ Recalls' /\ Serves' = {} /\ Left' = Tail(devQ) /\ defq' = defq
    BY <1>1, <1>3, <1>6 DEF Recalls, Serves, Left
  <2>2. /\ Numbers(Left)' = Numbers(Left) /\ Sorted(Left)'
        /\ Numbers(defq)' = Numbers(defq) /\ (Sorted(defq)' <=> Sorted(defq))
    BY <1>2, <1>4, <2>1 DEF Numbers, Sorted, Requested
  <2>. QED BY <1>2, <1>5, <2>1, <2>2 DEF OrderInv, Older
<1>7. CASE defq # <<>>
  <2>. DEFINE h == Head(defq)
              t == [devQ EXCEPT ![1] = h]
  <2>1. /\ h.sig = "Request" /\ defq' = Tail(defq) /\ devQ' = t
        /\ h \in Events(Len(reqs))
    BY <1>3, <1>7 DEF RequestEvents
  <2>2. /\ Numbers(defq) = {h.id} \cup Numbers(Tail(defq))
        /\ Older({h.id}, Numbers(Tail(defq))) /\ Sorted(Tail(defq))
    BY <1>7, <2>1, NumbersTail DEF OrderInv, QueueTypes
  <2>3. /\ Numbers(t) = {h.id} \cup Numbers(devQ) /\ t # <<>> /\ t[1] = h
        /\ Sorted(devQ) /\ Older({h.id}, Numbers(devQ)) => Sorted(t)
    <3>1. /\ devQ \in Seq(Events(Len(reqs))) /\ devQ # <<>> /\ Head(devQ).sig # "Request"
          /\ h \in Events(Len(reqs)) /\ h.sig = "Request"
      BY <1>1, <1>4, <2>1 DEF First
    <3>. HIDE DEF h
    <3>. QED BY <3>1, NumbersFront
  <2>4. Older({h.id}, Numbers(devQ)) /\ Sorted(devQ)
    BY <1>2, <2>2 DEF OrderInv, Older
  <2>5. Tail(t) = Tail(devQ)
    BY <1>4, <2>1, TailOfFront
  <2>. HIDE DEF h, t
  <2>6. /\ Older(Replied \cup {cur}, Numbers(defq)) /\ Older(Replied \cup {cur}, Numbers(devQ))
        /\ Older(Numbers(defq), Numbers(devQ))
    BY <1>2 DEF OrderInv, Older
  <2>7. CASE Tail(defq) = <<>>
    <3>1. ~ Recalls' /\ Serves' = {} /\ Left' = t /\ defq' = Tail(defq)
      BY <1>1, <2>1, <2>7 DEF Recalls, Serves, Left
    <3>2. /\ Numbers(Left)' = {h.id} \cup Numbers(devQ) /\ Sorted(Left)'
          /\ Sorted(defq)' /\ Numbers(defq)' = {}
      <4>1. Numbers(defq)' = {} /\ Sorted(defq)'
        <5>1. DOMAIN defq' = {}
          BY <2>1, <2>7
        <5>. QED BY <5>1 DEF Numbers, Requested, Sorted
      <4>. QED BY <2>3, <2>4, <3>1, <4>1 DEF Numbers, Sorted, Requested
    <3>3. Older(Replied \cup {cur}, {h.id} \cup Numbers(devQ))
      BY <2>2, <2>6 DEF Older
    <3>. QED BY <1>5, <3>1, <3>2, <3>3 DEF OrderInv, Older
  <2>8. CASE Tail(defq) # <<>>
    <3>1. Recalls' /\ Serves' = {h.id} /\ Left' = Tail(devQ) /\ defq' = Tail(defq)
          /\ devQ' # <<>> /\ devQ'[1].sig = "Request"
      BY <1>1, <2>1, <2>3, <2>5, <2>8 DEF Recalls, Serves, Left
    <3>2. /\ Numbers(Left)' = Numbers(devQ) /\ Sorted(Left)'
          /\ Sorted(defq)' /\ Numbers(defq)' = Numbers(Tail(defq))
      BY <1>4, <2>2, <3>1 DEF Numbers, Sorted, Requested
    <3>3. /\ Older(Replied \cup {cur}, {h.id})
          /\ Older(Replied \cup {cur}, Numbers(Tail(defq)))
          /\ Older(Numbers(Tail(defq)), Numbers(devQ))
      BY <2>2, <2>6 DEF Older
    <3>. QED BY <1>5, <2>2, <2>4, <2>6, <3>1, <3>2, <3>3 DEF OrderInv
  <2>. QED BY <2>7, <2>8
<1>. QED BY <1>6, <1>7

LEMMA OrderDev ==
    ASSUME TypesInv, OrderInv, DevHandler
    PROVE  OrderInv'
<1>1. QueueTypes /\ TaskTypes /\ BusTypes /\ DevTypes /\ CmdInv /\ RequestInv
  BY DEF TypesInv
<1>2. BusFixed /\ devQ # <<>> /\ DevKind /\ devQ \in Seq(Events(Len(reqs)))
  BY <1>1, DevKinds DEF QueueTypes
<1>3. First = devQ[1] /\ Tail(devQ) \in Seq(Events(Len(reqs)))
  BY <1>2, TailPlaces DEF First
<1>4. CASE IdleRequest
  <2>. DEFINE h == First.id
              e == [sig |-> "Private"]
  <2>1. /\ dst = "Idle" /\ First.sig = "Request" /\ cur' = h /\ dst' # "Idle"
        /\ devQ' = Append(Tail(devQ), e)
        /\ UNCHANGED <<defq, replies>>
    BY <1>4 DEF IdleRequest, Event, First
  <2>2. /\ Numbers(devQ) = {h} \cup Numbers(Tail(devQ))
        /\ Sorted(devQ) => Sorted(Tail(devQ)) /\ Older({h}, Numbers(Tail(devQ)))
    BY <1>2, <2>1, NumbersTail DEF First
  <2>3. e \in Events(Len(reqs)) /\ e.sig # "Request"
    BY DEF Events, OtherEvents
  <2>. HIDE DEF e, h
  <2>4. /\ Numbers(Append(Tail(devQ), e)) = Numbers(Tail(devQ))
        /\ Sorted(Tail(devQ)) => Sorted(Append(Tail(devQ), e))
    BY <1>3, <2>3, NumbersAppend
  <2>5. ~ Recalls' /\ Serves' = {h} /\ Left' = Append(Tail(devQ), e)
    BY <2>1 DEF Recalls, Serves, Left
  <2>6. /\ Older(Replied, {h}) /\ Older(Replied, Numbers(Tail(devQ)))
        /\ Older(Replied, Numbers(defq)) /\ Older({h}, Numbers(defq))
        /\ Older({h}, Numbers(Tail(devQ))) /\ Sorted(Tail(devQ))
        /\ Older(Numbers(defq), Numbers(Tail(devQ)))
    <3>1. CASE Recalls
      <4>1. Serves = {h} /\ Left = Tail(devQ)
        BY <1>3, <3>1 DEF Serves, Left, h
      <4>. QED BY <4>1 DEF OrderInv
    <3>2. CASE ~ Recalls
      <4>1. defq = <<>> /\ Left = devQ
        BY <2>1, <3>2 DEF Recalls, Left
      <4>2. Numbers(defq) = {}
        BY <4>1 DEF Numbers, Requested
      <4>. QED BY <2>2, <4>1, <4>2 DEF OrderInv, Older
    <3>. QED BY <3>1, <3>2
  <2>7. /\ Numbers(Left)' = Numbers(Tail(devQ)) /\ Sorted(Left)'
        /\ Numbers(defq)' = Numbers(defq) /\ (Sorted(defq)' <=> Sorted(defq))
        /\ Replied' = Replied /\ RepliesInOrder'
    BY <2>1, <2>4, <2>5, <2>6
       DEF Numbers, Sorted, Requested, Replied, OrderInv, RepliesInOrder
  <2>. QED BY <2>5, <2>6, <2>7 DEF OrderInv
<1>5. CASE DeferRequest
  <2>. DEFINE h == First.id
  <2>1. /\ dst # "Idle" /\ First.sig = "Request" /\ devQ' = Tail(devQ)
        /\ defq' = defq \/ defq' = Append(defq, First)
        /\ UNCHANGED <<dst, cur, replies>>
    BY <1>5 DEF DeferRequest, Event, First
  <2>2. ~ Recalls /\ Left = devQ /\ ~ Recalls' /\ Serves' = Serves /\ Left' = Tail(devQ)
    BY <2>1 DEF Recalls, Left, Serves
  <2>3. /\ Numbers(devQ) = {h} \cup Numbers(Tail(devQ))
        /\ Sorted(Tail(devQ)) /\ Older({h}, Numbers(Tail(devQ)))
    BY <1>2, <2>1, <2>2, NumbersTail DEF First, OrderInv
  <2>4. defq \in Seq(RequestEvents(Len(reqs))) /\ First \in RequestEvents(Len(reqs))
    BY <1>1, <1>2, <2>1, FirstEvent DEF QueueTypes
  <2>5. /\ Numbers(Append(defq, First)) = Numbers(defq) \cup {h}
        /\ Sorted(Append(defq, First))
    <3>1. Older(Numbers(defq), {h}) /\ Sorted(defq)
      BY <2>2, <2>3 DEF OrderInv, Older
    <3>. QED BY <2>1, <2>4, <3>1, NumbersAppend
  <2>. HIDE DEF h
  <2>6. /\ Numbers(Left)' = Numbers(Tail(devQ)) /\ Sorted(Left)'
        /\ Numbers(defq)' \subseteq Numbers(defq) \cup {h} /\ Sorted(defq)'
        /\ Replied' = Replied /\ RepliesInOrder'
    <3>1. \/ Numbers(defq)' = Numbers(defq) /\ Sorted(defq)'
          \/ Numbers(defq)' = Numbers(defq) \cup {h} /\ Sorted(defq)'
      <4>1. CASE defq' = defq
        BY <4>1 DEF Numbers, Sorted, Requested, OrderInv
      <4>2. CASE defq' = Append(defq, First)
        <5>1. /\ Numbers(defq)' = Numbers(Append(defq, First))
              /\ Sorted(defq)' <=> Sorted(Append(defq, First))
          BY <4>2 DEF Numbers, Sorted, Requested
        <5>. QED BY <2>5, <5>1
      <4>. QED BY <2>1, <4>1, <4>2
    <3>. QED BY <2>1, <2>2, <2>3, <3>1
         DEF Numbers, Sorted, Requested, Replied, OrderInv, RepliesInOrder
  <2>7. /\ Older(Replied, Numbers(defq) \cup {h}) /\ Older(Replied, Numbers(Tail(devQ)))
        /\ Older(Serves, Numbers(defq) \cup {h}) /\ Older(Serves, Numbers(Tail(devQ)))
        /\ Older(Numbers(defq) \cup {h}, Numbers(Tail(devQ))) /\ Older(Replied, Serves)
    BY <2>2, <2>3 DEF OrderInv, Older
  <2>. QED BY <2>2, <2>6, <2>7 DEF OrderInv, Older
<1>6. CASE Unhandled
  <2>1. First.sig # "Request" /\ devQ' = Tail(devQ) /\ UNCHANGED <<dst, defq, cur, replies>>
    BY <1>6 DEF Unhandled, Event, First, devVars
  <2>. QED BY <1>1, <1>2, <2>1, OrderTail
<1>7. CASE Writes
  <2>1. First.sig # "Request" /\ devQ' = Tail(devQ) /\ UNCHANGED <<defq, cur, replies>>
        /\ dst # "Idle" /\ dst' # "Idle"
    BY <1>7 DEF Writes, Success1
  <2>. QED BY <1>1, <1>2, <2>1, OrderTail
<1>8. ASSUME NEW s, Continues(s) PROVE OrderInv'
  <2>1. First.sig # "Request" /\ devQ' = Tail(devQ) /\ UNCHANGED <<defq, cur, replies>>
        /\ dst # "Idle" /\ dst' # "Idle"
    BY <1>8 DEF Continues, EnterBusWait, Begins, TurnsPage, GoesOn, Success1
  <2>. QED BY <1>1, <1>2, <2>1, OrderTail
<1>. QED BY <1>1, <1>2, <1>4, <1>5, <1>6, <1>7, <1>8, OrderReturns DEF DevKind

LEMMA OrderNext ==
    ASSUME TypesInv, OrderInv, [Next]_sysVars
    PROVE  OrderInv'
<1>1. QueueTypes /\ TaskTypes /\ BusTypes /\ DevTypes /\ CmdInv /\ RequestInv
      /\ Len(reqs) \in Nat /\ devQ \in Seq(Events(Len(reqs)))
  BY LenProperties DEF TypesInv, QueueTypes
<1>2. ASSUME NEW r \in Requests, PostRequest(r) PROVE OrderInv'
  BY <1>1, <1>2, OrderPosted DEF PostRequest, devVars
<1>3. CASE TaskReads
  BY <1>1, <1>3, OrderPosted, SystemAssumption DEF TaskReads, devVars
<1>4. CASE EthArrives \/ TaskDrops \/ TaskWakes \/ UNCHANGED sysVars
  <2>1. UNCHANGED <<dst, defq, cur, replies, devQ>>
    BY <1>4 DEF EthArrives, TaskDrops, TaskWakes, sysVars, vars, busVars, devVars
  <2>. QED BY <1>1, <2>1, OrderOther
<1>5. CASE BusStep
  <2>1. UNCHANGED <<dst, defq, cur, replies>>
    BY <1>5 DEF BusStep, devVars
  <2>2. devQ' = devQ \/ \E e, d : Answer(e, d)
    <3>1. \/ \E e : AtOnce(e)
          \/ WaitBegins \/ Dropped
          \/ \E e, d : WaitEnds(e, d)
      BY <1>1, <1>5, BusKinds
    <3>. QED BY <3>1 DEF AtOnce, WaitBegins, Dropped, WaitEnds
  <2>3. ASSUME NEW e, NEW d, Answer(e, d)
        PROVE  /\ Done(e, d) \in Events(Len(reqs)) /\ Done(e, d).sig # "Request"
               /\ devQ' = Append(devQ, Done(e, d))
    BY <2>3 DEF Answer, Done, Events, AnswerEvents
  <2>. QED BY <1>1, <2>1, <2>2, <2>3, OrderOther
<1>6. CASE TimerStep
  <2>1. PICK t \in Timers : Expires(t)
    BY <1>6, TimerKinds
  <2>2. [sig |-> Timeout[t]] \in Events(Len(reqs)) /\ Timeout[t] # "Request"
    BY TimeoutEvents DEF Timers, Events, OtherEvents
  <2>. QED BY <1>1, <2>1, <2>2, OrderOther DEF Expires
<1>. QED
  BY <1>2, <1>3, <1>4, <1>5, <1>6, OrderDev DEF Next, DevStep, TaskStep

LEMMA OrderInit ==
    ASSUME Init
    PROVE  OrderInv
<1>1. devQ = <<>> /\ defq = <<>> /\ replies = <<>> /\ dst = "Idle"
  BY DEF Init, BusInit, DevInit
<1>. QED BY <1>1 DEF OrderInv, Recalls, Serves, Left, Numbers, Requested, Sorted,
                     Older, Replied, RepliesInOrder

\* I2C1DevMgr replies to the requests in the order they were posted and to none
\* of them twice, whatever it defers, drops, recalls or loses to a timeout: the
\* request recalled into the queue is older than every one that is still there.
THEOREM RepliesKeepOrder == Spec => []RepliesInOrder
<1>1. ASSUME OrderInv PROVE RepliesInOrder
  BY <1>1 DEF OrderInv
<1>2. TypesInv /\ OrderInv /\ [Next]_sysVars => OrderInv'
  BY OrderNext
<1>. QED BY <1>1, <1>2, OrderInit, TypesAlways, PTL DEF Spec

-----------------------------------------------------------------------------
(* No stray write *)

\* Bytes of a transfer that stays inside its request are stored inside it.
LEMMA ProgrammedInside ==
    ASSUME BusTypes, QueueTypes, Stored, InsideRequest(xfer.data, ptr, xfer.n),
           NEW k \in 0 .. xfer.n, mem' = Programmed(k), UNCHANGED reqs
    PROVE  Stored'
<1>0. PageSize \in Nat \ {0}
  BY BusAssumption
<1>1. /\ ptr \in Nat /\ k \in Nat /\ xfer.n \in Nat /\ k <= xfer.n
      /\ mem \in [Addrs -> 0 .. MaxReqs] /\ Addrs \subseteq Nat
  BY BusAssumption DEF BusTypes, Addrs
<1>. DEFINE w   == (ptr \div PageSize) * PageSize
            hit == {w + ((ptr + i) % PageSize) : i \in 0 .. k - 1}
            d   == xfer.data
            r   == reqs[d]
<1>2. mem' = [a \in Addrs |-> IF a \in hit THEN d ELSE mem[a]]
  BY DEF Programmed
<1>3. /\ d \in Ids /\ r.op = "write" /\ Acceptable(r)
      /\ r.addr <= ptr /\ ptr + xfer.n <= r.addr + r.n
      /\ (ptr % PageSize) + xfer.n <= PageSize
  BY DEF InsideRequest
<1>4. r.addr \in Nat /\ r.n \in Nat
  <2>1. r \in Postings
    BY <1>3, LenProperties, ElementOfSeq DEF QueueTypes, Ids
  <2>. QED BY <2>1 DEF Postings, Addrs
<1>. HIDE DEF d, r, w
<1>5. (ptr % PageSize) + k <= PageSize
  <2>1. (ptr % PageSize) \in 0 .. PageSize - 1
    BY <1>0, <1>1, DivMod
  <2>. HIDE DEF hit
  <2>2. ASSUME NEW o \in 0 .. PageSize - 1, o + xfer.n <= PageSize PROVE o + k <= PageSize
    BY <1>0, <1>1, <2>2
  <2>. QED BY <1>3, <2>1, <2>2
<1>6. ASSUME NEW a \in hit PROVE a \in Nat /\ r.addr <= a /\ a + 1 <= r.addr + r.n
  <2>1. PICK i \in 0 .. k - 1 : a = w + ((ptr + i) % PageSize)
    OBVIOUS
  <2>2. w + ((ptr + i) % PageSize) = ptr + i
    BY <1>1, <1>5, NoWrap DEF w
  <2>. HIDE DEF hit
  <2>3. a = ptr + i /\ i \in Nat /\ i + 1 <= k
    BY <1>1, <2>1, <2>2
  <2>. QED BY <1>1, <1>3, <1>4, <2>3
<1>. HIDE DEF hit
<1>7. SUFFICES ASSUME NEW a \in Addrs, mem'[a] # 0
               PROVE  InsideRequest(mem[a], a, 1)'
  BY DEF Stored
<1>8. CASE a \in hit
  <2>1. mem'[a] = d
    BY <1>2, <1>8
  <2>2. (a % PageSize) + 1 <= PageSize
    <3>1. (a % PageSize) \in 0 .. PageSize - 1
      BY <1>0, <1>1, DivMod
    <3>2. ASSUME NEW o \in 0 .. PageSize - 1 PROVE o + 1 <= PageSize
      BY <1>0
    <3>. QED BY <3>1, <3>2
  <2>3. InsideRequest(d, a, 1)
    BY <1>3, <1>6, <1>8, <2>2 DEF InsideRequest, r
  <2>4. InsideRequest(d, a, 1) => InsideRequest(mem[a], a, 1)'
    BY <2>1 DEF InsideRequest, Ids
  <2>. QED BY <2>3, <2>4
<1>9. CASE a \notin hit
  <2>1. mem'[a] = mem[a]
    BY <1>2, <1>9
  <2>2. InsideRequest(mem[a], a, 1)
    BY <1>7, <2>1 DEF Stored
  <2>. QED BY <2>1, <2>2 DEF InsideRequest, Ids
<1>. QED BY <1>8, <1>9

\* Posting more requests changes nothing about those that were posted.
LEMMA InsideKept ==
    ASSUME Len(reqs) \in Nat, Len(reqs') \in Nat, Len(reqs) <= Len(reqs'),
           \A i \in 1 .. Len(reqs) : reqs'[i] = reqs[i],
           NEW k, NEW a, NEW n, InsideRequest(k, a, n)
    PROVE  k \in Ids' /\ reqs'[k].op = "write" /\ Acceptable(reqs'[k])
           /\ reqs'[k].addr <= a /\ a + n <= reqs'[k].addr + reqs'[k].n
           /\ (a % PageSize) + n <= PageSize
<1>1. k \in Ids /\ k \in Ids' /\ reqs'[k] = reqs[k]
  BY DEF InsideRequest, Ids
<1>. QED BY <1>1 DEF InsideRequest

\* What leaves the peripheral and the EEPROM alone, and either where the two
\* objects are or the state of I2C1DevMgr is not one in which the address counts.
LEMMA AimKept ==
    ASSUME QueueTypes, DevTypes, AimInv,
           UNCHANGED <<bst, xfer, phase, ptr, mem, leaked>>,
           Len(reqs) \in Nat, Len(reqs') \in Nat, Len(reqs) <= Len(reqs'),
           \A i \in 1 .. Len(reqs) : reqs'[i] = reqs[i],
           \/ UNCHANGED <<dst, cur, page, cmd>>
           \/ dst' \notin {"SendInternalAddr", "WriteMem"}
           \/ bst' # "Idle"
    PROVE  AimInv'
<1>1. Stored => Stored'
  <2>1. ASSUME Stored, NEW a \in Addrs, mem'[a] # 0 PROVE InsideRequest(mem[a], a, 1)'
    <3>1. InsideRequest(mem[a], a, 1) /\ mem'[a] = mem[a]
      BY <2>1 DEF Stored
    <3>. QED BY <3>1, InsideKept DEF InsideRequest
  <2>. QED BY <2>1 DEF Stored
<1>2. bst' = "WaitForDMAWriteDone" /\ phase' = "addr"
         => InsideRequest(xfer.data, ptr, xfer.n)'
  <2>1. SUFFICES ASSUME bst = "WaitForDMAWriteDone", phase = "addr"
                 PROVE  InsideRequest(xfer.data, ptr, xfer.n)'
    OBVIOUS
  <2>2. InsideRequest(xfer.data, ptr, xfer.n)
    BY <2>1 DEF AimInv
  <2>3. xfer'.data = xfer.data /\ ptr' = ptr /\ xfer'.n = xfer.n
    OBVIOUS
  <2>. QED BY <2>2, <2>3, InsideKept DEF InsideRequest
<1>3. UNCHANGED <<dst, cur, page, cmd>> /\ dst # "Idle" => Target' = Target
  <2>1. dst # "Idle" => cur \in 1 .. Len(reqs)
    BY DEF DevTypes
  <2>. QED BY <2>1 DEF Target, Req
<1>. QED BY <1>1, <1>2, <1>3 DEF AimInv

LEMMA AimBus ==
    ASSUME TypesInv, AimInv, BusStep
    PROVE  AimInv'
<1>1. QueueTypes /\ TaskTypes /\ BusTypes /\ DevTypes /\ CmdInv /\ RequestInv
  BY DEF TypesInv
<1>2. /\ BusOperation \/ BusWaitEnds
      /\ UNCHANGED <<dst, cur, page, reqs>> /\ Target' = Target /\ Ids' = Ids
      /\ xfer.n \in Nat
  BY <1>1 DEF BusStep, devVars, Target, Req, Ids, BusTypes
<1>11. leaked' = leaked \/ leaked' = TRUE
  BY <1>2 DEF BusOperation, BusWaitEnds, BusGivesUpReading, CheckFree, RecoverBus,
     RecoveryFails, GenerateStart, Send7BitAddrTx, LeftoverIsSent, Send7BitAddrRx,
     SendDevAddr, AddrIsLost, StartDMARead, StartDMAWrite, BusyDropsOperation,
     BusSettles, DMAReadDone, DMAReadTimeout, DMAWriteDone, DMAWriteTimeout
<1>3. ASSUME UNCHANGED mem PROVE (leaked \/ Stored)'
  <2>1. Stored => Stored'
    BY <1>2, <1>3 DEF Stored, InsideRequest, Ids
  <2>. QED BY <1>11, <2>1 DEF AimInv
<1>4. CASE CheckFree \/ RecoveryFails \/ GenerateStart \/ Send7BitAddrTx \/ Send7BitAddrRx
  <2>1. /\ bst' = "Idle" /\ UNCHANGED mem /\ cmd # NoCmd /\ cmd' = NoCmd
        /\ cmd.op \in {"CHECK_FREE", "START_BIT", "7BIT_ADDR_TX", "7BIT_ADDR_RX"}
    BY <1>4, Taking DEF CheckFree, RecoveryFails, GenerateStart, Send7BitAddrTx,
       Send7BitAddrRx, Takes
  <2>2. dst \notin {"SendInternalAddr", "WriteMem"}
    BY <1>1, <2>1, OperationOf
  <2>. QED BY <1>2, <1>3, <2>1, <2>2 DEF AimInv
<1>5. CASE SendDevAddr
  <2>1. /\ bst' = "Idle" /\ UNCHANGED mem /\ cmd # NoCmd /\ cmd' = NoCmd
        /\ cmd.op = "DEV_ADDR" /\ (phase' = "addr" => ptr' = cmd.addr)
    BY <1>5, Taking DEF SendDevAddr, Takes
  <2>2. dst = "SendInternalAddr" /\ cmd.addr = Target
    BY <1>1, <2>1, OperationOf
  <2>. QED BY <1>2, <1>3, <2>1, <2>2 DEF AimInv
<1>6. CASE StartDMARead \/ RecoverBus \/ BusyDropsOperation
  <2>1. UNCHANGED mem
    BY <1>6 DEF StartDMARead, RecoverBus, BusyDropsOperation
  <2>2. \/ bst' = "WaitForDMAReadDone"
        \/ bst' = "WaitForBusToSettle" /\ phase' = "none"
        \/ bst # "Idle" /\ UNCHANGED <<bst, phase, ptr, xfer>>
    BY <1>6 DEF StartDMARead, RecoverBus, BusyDropsOperation
  <2>3. InsideRequest(xfer.data, ptr, xfer.n) /\ UNCHANGED <<ptr, xfer>>
           => InsideRequest(xfer.data, ptr, xfer.n)'
    BY <1>2 DEF InsideRequest, Ids
  <2>. QED BY <1>2, <1>3, <2>1, <2>2, <2>3 DEF AimInv
<1>7. CASE StartDMAWrite
  <2>1. /\ bst = "Idle" /\ bst' = "WaitForDMAWriteDone" /\ cmd # NoCmd
        /\ cmd.op = "WRITE_MEM" /\ xfer' = [n |-> cmd.n, data |-> cmd.data]
        /\ UNCHANGED <<phase, ptr, mem>>
    BY <1>7, Taking DEF StartDMAWrite, Takes
  <2>2. /\ dst = "WriteMem" /\ cmd.n = page.size /\ cmd.data = cur
        /\ Serving /\ dst # "Idle"
    BY <1>1, <2>1, OperationOf DEF Serving
  <2>3. Req.op = "write" /\ Acceptable(Req)
    BY <1>1, <2>2 DEF RequestInv
  <2>4. InsideRequest(cur, page.addr, page.size)
    BY <1>1, <2>2, <2>3, Served
  <2>5. phase = "addr" => ptr = page.addr
    BY <2>1, <2>2, <2>3 DEF AimInv, Target
  <2>6. phase' = "addr" => InsideRequest(xfer.data, ptr, xfer.n)'
    <3>1. xfer'.data = cur /\ xfer'.n = page.size /\ ptr' = ptr /\ phase' = phase
      BY <2>1, <2>2
    <3>. QED BY <1>2, <2>4, <2>5, <3>1 DEF InsideRequest, Ids
  <2>. QED BY <1>3, <2>1, <2>6 DEF AimInv
<1>8. CASE BusSettles
  <2>1. bst' = "Idle" /\ UNCHANGED mem /\ phase' = "none"
    BY <1>8 DEF BusSettles, AimInv
  <2>. QED BY <1>3, <2>1 DEF AimInv
<1>9. CASE DMAReadDone \/ DMAReadTimeout
  <2>1. bst' = "Idle" /\ UNCHANGED mem /\ phase' = "none"
    BY <1>9 DEF DMAReadDone, DMAReadTimeout, Stopped
  <2>. QED BY <1>3, <2>1 DEF AimInv
<1>12. CASE LeftoverIsSent
  <2>1. /\ bst' = "Idle" /\ UNCHANGED mem /\ cmd # NoCmd /\ cmd' = NoCmd
        /\ cmd.op = "7BIT_ADDR_TX"
    BY <1>12, Taking DEF LeftoverIsSent, Takes
  <2>2. dst \notin {"SendInternalAddr", "WriteMem"}
    BY <1>1, <2>1, OperationOf
  <2>. QED BY <1>2, <1>3, <2>1, <2>2 DEF AimInv
<1>13. CASE AddrIsLost
  <2>1. bst' = "Idle" /\ phase' # "addr" /\ phase = "lost" /\ leaked' = leaked
    BY <1>13, Taking DEF AddrIsLost, Seen, NotSeen
  <2>2. leaked
    BY <1>1, <2>1 DEF BusTypes, LeftInv
  <2>. QED BY <2>1, <2>2 DEF AimInv
<1>10. CASE DMAWriteDone \/ DMAWriteTimeout
  <2>1. bst' = "Idle" /\ phase' = "none" /\ bst = "WaitForDMAWriteDone"
    BY <1>10 DEF DMAWriteDone, DMAWriteTimeout, Stopped
  <2>2. \/ UNCHANGED mem
        \/ phase = "addr" /\ \E k \in 0 .. xfer.n : mem' = Programmed(k)
        \/ phase = "lost"
    <3>1. CASE DMAWriteDone
      <4>1. phase = "addr" => mem' = Programmed(xfer.n) /\ xfer.n \in 0 .. xfer.n
        BY <1>2, <3>1 DEF DMAWriteDone
      <4>2. phase \in {"addr", "lost"}
        BY <3>1 DEF DMAWriteDone
      <4>. QED BY <4>1, <4>2
    <3>2. CASE DMAWriteTimeout
      BY <3>2 DEF DMAWriteTimeout
    <3>. QED BY <1>10, <3>1, <3>2
  <2>3. (leaked \/ Stored)'
    <3>1. CASE UNCHANGED mem
      BY <1>3, <3>1
    <3>2. CASE phase = "addr" /\ \E k \in 0 .. xfer.n : mem' = Programmed(k)
      <4>1. InsideRequest(xfer.data, ptr, xfer.n)
        BY <2>1, <3>2 DEF AimInv
      <4>2. Stored => Stored'
        BY <1>1, <1>2, <3>2, <4>1, ProgrammedInside
      <4>. QED BY <1>11, <4>2 DEF AimInv
    <3>3. CASE phase = "lost"
      BY <1>1, <1>11, <3>3 DEF BusTypes, LeftInv
    <3>. QED BY <2>2, <3>1, <3>2, <3>3
  <2>. QED BY <2>1, <2>3 DEF AimInv
<1>. QED
  BY <1>2, <1>4, <1>5, <1>6, <1>7, <1>8, <1>9, <1>10, <1>12, <1>13
     DEF BusOperation, BusWaitEnds, BusGivesUpReading

LEMMA AimDev ==
    ASSUME TypesInv, AimInv, DevHandler
    PROVE  AimInv'
<1>1. QueueTypes /\ TaskTypes /\ BusTypes /\ DevTypes /\ CmdInv /\ RequestInv
  BY DEF TypesInv
<1>2. /\ BusFixed /\ cmd = NoCmd /\ DevKind
      /\ UNCHANGED <<bst, xfer, phase, ptr, mem, leaked, reqs>>
  BY <1>1, DevKinds DEF BusFixed
<1>3. Len(reqs) \in Nat /\ Len(reqs') \in Nat /\ Len(reqs) <= Len(reqs')
      /\ \A i \in 1 .. Len(reqs) : reqs'[i] = reqs[i]
  BY <1>1, <1>2, LenProperties DEF QueueTypes
<1>4. CASE DeferRequest \/ Unhandled
  <2>1. UNCHANGED <<dst, cur, page, cmd>>
    BY <1>4 DEF DeferRequest, Unhandled, devVars
  <2>. QED BY <1>1, <1>2, <1>3, <2>1, AimKept
<1>5. CASE IdleRequest \/ Writes \/ \E err, d : Returns(err, d)
  <2>1. dst' \notin {"SendInternalAddr", "WriteMem"}
    BY <1>5 DEF IdleRequest, Writes, Returns, BackToIdle
  <2>. QED BY <1>1, <1>2, <1>3, <2>1, AimKept
<1>6. ASSUME NEW s, Continues(s), s \notin {"SendInternalAddr", "WriteMem"}
      PROVE  AimInv'
  <2>1. dst' \notin {"SendInternalAddr", "WriteMem"}
    BY <1>6 DEF Continues, EnterBusWait
  <2>. QED BY <1>1, <1>2, <1>3, <2>1, AimKept
<1>7. ASSUME NEW s, Continues(s), s \in {"SendInternalAddr", "WriteMem"}
      PROVE  AimInv'
  <2>1. /\ dst' = s /\ cmd' = Operation(s) /\ UNCHANGED <<cur, page>>
        /\ s = "WriteMem" => dst = "SendInternalAddr"
    BY <1>7 DEF Continues, EnterBusWait, Begins, TurnsPage, GoesOn
  <2>2. Target' = Target
    BY <1>2, <2>1 DEF Target, Req
  <2>3. s = "SendInternalAddr" => cmd' # NoCmd
    BY <2>1 DEF Operation, NoCmd
  <2>4. /\ Stored => Stored'
        /\ InsideRequest(xfer.data, ptr, xfer.n)
              => InsideRequest(xfer.data, ptr, xfer.n)'
    BY <1>2 DEF Stored, InsideRequest, Ids
  <2>. QED BY <1>2, <2>1, <2>2, <2>3, <2>4 DEF AimInv
<1>. QED BY <1>2, <1>4, <1>5, <1>6, <1>7 DEF DevKind

LEMMA AimNext ==
    ASSUME TypesInv, AimInv, [Next]_sysVars
    PROVE  AimInv'
<1>1. QueueTypes /\ TaskTypes /\ BusTypes /\ DevTypes /\ CmdInv /\ RequestInv
      /\ Len(reqs) \in Nat
  BY LenProperties DEF TypesInv, QueueTypes
<1>2. ASSUME NEW r \in Requests, NEW acc \in {"QPC", "FRT"}, Posted(r, acc),
             UNCHANGED <<bst, xfer, phase, ptr, mem, leaked, cmd, devVars>>
      PROVE  AimInv'
  <2>1. /\ Len(reqs') = Len(reqs) + 1
        /\ \A i \in 1 .. Len(reqs) : reqs'[i] = reqs[i]
    BY <1>1, <1>2, Growth
  <2>2. Len(reqs') \in Nat /\ Len(reqs) <= Len(reqs')
    BY <1>1, <2>1
  <2>. QED BY <1>1, <1>2, <2>1, <2>2, AimKept DEF devVars
<1>3. ASSUME NEW r \in Requests, PostRequest(r) PROVE AimInv'
  BY <1>2, <1>3 DEF PostRequest
<1>4. CASE TaskReads
  BY <1>2, <1>4, SystemAssumption DEF TaskReads
<1>5. CASE EthArrives \/ TaskDrops \/ TaskWakes \/ TimerStep \/ UNCHANGED sysVars
  <2>1. UNCHANGED <<bst, xfer, phase, ptr, mem, leaked, cmd, dst, cur, page, reqs>>
    <3>1. CASE TimerStep
      BY <3>1, TimerKinds DEF Expires
    <3>. QED BY <1>5, <3>1 DEF EthArrives, TaskDrops, TaskWakes, sysVars, vars,
                               busVars, devVars
  <2>. QED BY <1>1, <2>1, AimKept
<1>. QED
  BY <1>3, <1>4, <1>5, AimBus, AimDev DEF Next, DevStep, TaskStep

LEMMA AimInit ==
    ASSUME Init
    PROVE  AimInv
BY DEF Init, BusInit, DevInit, AimInv, Stored

\* Whatever is lost, late, repeated or cut short, each byte of the EEPROM that was
\* written belongs to a write that was accepted and lies in the range of that
\* write, until the stream that I2CBusMgr leaves armed when a DMA write times out
\* has sent its bytes: an operation the busy bus object drops leaves no peripheral
\* ready to send data to an address that is not the page's, and no page crosses a
\* page boundary.
THEOREM WritesStayInside == Spec => []NoStrayWrite
<1>1. ASSUME TypesInv, AimInv PROVE NoStrayWrite
  <2>1. SUFFICES ASSUME Stored, NEW a \in Addrs, mem[a] # 0
                 PROVE  /\ reqs[mem[a]].op = "write" /\ Acceptable(reqs[mem[a]])
                        /\ a \in reqs[mem[a]].addr ..
                                    reqs[mem[a]].addr + reqs[mem[a]].n - 1
    BY <1>1 DEF NoStrayWrite, WritesStayInRange, AimInv
  <2>2. InsideRequest(mem[a], a, 1)
    BY <2>1 DEF Stored
  <2>3. reqs[mem[a]].addr \in Nat /\ reqs[mem[a]].n \in Nat /\ a \in Nat
    <3>1. reqs[mem[a]] \in Postings
      BY <1>1, <2>2, LenProperties, ElementOfSeq
         DEF TypesInv, QueueTypes, InsideRequest, Ids
    <3>. QED BY <3>1 DEF Postings, Addrs
  <2>. QED BY <2>2, <2>3 DEF InsideRequest
<1>2. TypesInv /\ AimInv /\ [Next]_sysVars => AimInv'
  BY AimNext
<1>. QED BY <1>1, <1>2, AimInit, TypesAlways, PTL DEF Spec

-----------------------------------------------------------------------------
(* The two objects in step *)

LEMMA AnswerBySignal ==
    ASSUME NEW n, NEW e \in Events(n)
    PROVE  e \in AnswerEvents <=> e.sig = "BusDone"
BY DEF Events, RequestEvents, AnswerEvents, OtherEvents

LEMMA CountsAppend ==
    ASSUME NEW n, NEW q \in Seq(Events(n)), NEW e \in Events(n)
    PROVE  /\ Count(q) \in Nat
           /\ e.sig = "BusDone" => Count(Append(q, e)) = Count(q) + 1
           /\ e.sig # "BusDone" => Count(Append(q, e)) = Count(q)
           /\ NoTimeout(q) /\ e.sig \notin {"OpTimeout", "DevTimeout"}
                 => NoTimeout(Append(q, e))
<1>1. Count(q) \in Nat
  BY PositionsFinite DEF Count
<1>2. /\ e \in AnswerEvents => Count(Append(q, e)) = Count(q) + 1
      /\ e \notin AnswerEvents => Count(Append(q, e)) = Count(q)
  BY CountAppend DEF Count
<1>3. ASSUME NoTimeout(q), e.sig \notin {"OpTimeout", "DevTimeout"}
      PROVE  NoTimeout(Append(q, e))
  <2>1. /\ DOMAIN Append(q, e) = DOMAIN q \cup {Len(q) + 1}
        /\ \A i \in DOMAIN q : Append(q, e)[i] = q[i]
        /\ Append(q, e)[Len(q) + 1] = e
    BY AppendPlaces
  <2>. QED BY <1>3, <2>1 DEF NoTimeout
<1>. QED BY <1>1, <1>2, <1>3, AnswerBySignal

LEMMA CountsTail ==
    ASSUME NEW n, NEW q \in Seq(Events(n)), q # <<>>
    PROVE  /\ Count(q) \in Nat /\ Count(Tail(q)) \in Nat
           /\ Head(q).sig = "BusDone" => Count(Tail(q)) = Count(q) - 1
           /\ Head(q).sig # "BusDone" => Count(Tail(q)) = Count(q)
           /\ NoTimeout(q) => /\ Head(q).sig \notin {"OpTimeout", "DevTimeout"}
                              /\ NoTimeout(Tail(q))
<1>1. /\ Head(q) \in Events(n) /\ Head(q) = q[1] /\ 1 \in DOMAIN q
      /\ Tail(q) \in Seq(Events(n))
      /\ \A i \in DOMAIN Tail(q) : i + 1 \in DOMAIN q /\ Tail(q)[i] = q[i + 1]
  BY TailPlaces
<1>2. Count(q) \in Nat /\ Count(Tail(q)) \in Nat
  BY <1>1, PositionsFinite DEF Count
<1>3. /\ Head(q) \in AnswerEvents => Count(Tail(q)) = Count(q) - 1
      /\ Head(q) \notin AnswerEvents => Count(Tail(q)) = Count(q)
  BY CountTail DEF Count
<1>4. NoTimeout(q) => /\ Head(q).sig \notin {"OpTimeout", "DevTimeout"}
                      /\ NoTimeout(Tail(q))
  BY <1>1 DEF NoTimeout
<1>. QED BY <1>1, <1>2, <1>3, <1>4, AnswerBySignal

LEMMA CountsFront ==
    ASSUME NEW n, NEW q \in Seq(Events(n)), q # <<>>, NEW e \in Events(n),
           e.sig = "Request"
    PROVE  /\ Head(q).sig = "BusDone" => Count([q EXCEPT ![1] = e]) = Count(q) - 1
           /\ Head(q).sig # "BusDone" => Count([q EXCEPT ![1] = e]) = Count(q)
           /\ NoTimeout(q) => NoTimeout([q EXCEPT ![1] = e])
<1>1. Head(q) \in Events(n) /\ e \notin AnswerEvents
  BY TailPlaces, AnswerBySignal
<1>2. /\ Head(q) \in AnswerEvents => Count([q EXCEPT ![1] = e]) = Count(q) - 1
      /\ Head(q) \notin AnswerEvents => Count([q EXCEPT ![1] = e]) = Count(q)
  BY <1>1, CountFront DEF Count
<1>3. NoTimeout(q) => NoTimeout([q EXCEPT ![1] = e])
  <2>1. q \in [DOMAIN q -> Events(n)]
    BY LenProperties
  <2>. QED BY <2>1 DEF NoTimeout
<1>. QED BY <1>1, <1>2, <1>3, AnswerBySignal

LEMMA QuietIsNone ==
    ASSUME QueueTypes
    PROVE  /\ BusQuiet <=> bst = "Idle" /\ cmd = NoCmd /\ Count(devQ) = 0
           /\ Cardinality(Answers) = Count(devQ)
           /\ Count(devQ) = 0 <=> NoAnswer(devQ)
<1>1. \A i \in DOMAIN devQ : devQ[i] \in Events(Len(reqs))
  BY LenProperties, ElementOfSeq DEF QueueTypes
<1>2. Answers = Positions(devQ, AnswerEvents)
  BY <1>1, AnswerBySignal DEF Answers, Positions
<1>3. IsFiniteSet(Answers)
  BY <1>2, PositionsFinite DEF QueueTypes
<1>4. Cardinality(Answers) = 0 <=> Answers = {}
  BY <1>3, FS_EmptySet
<1>5. Answers = {} <=> NoAnswer(devQ)
  BY DEF Answers, NoAnswer
<1>. QED BY <1>2, <1>4, <1>5 DEF Count, BusQuiet

\* What the queue, the bus object and the operation are to the count.
LEMMA StepFrame ==
    ASSUME StepInv, UNCHANGED <<bst, cmd, dst, late, synced, timers>>,
           Count(devQ') = Count(devQ), NoTimeout(devQ) => NoTimeout(devQ')
    PROVE  StepInv'
BY DEF StepInv, InStep, Serving

LEMMA StepPosted ==
    ASSUME QueueTypes, StepInv, NEW r \in Requests,
           NEW acc \in {"QPC", "FRT"}, Posted(r, acc),
           UNCHANGED <<bst, cmd, devVars>>
    PROVE  StepInv'
<1>. DEFINE n == Len(reqs')
            e == [sig |-> "Request", id |-> n]
<1>1. /\ devQ' = Append(devQ, e) /\ e \in RequestEvents(n) /\ devQ \in Seq(Events(n))
  BY Growth
<1>2. e \in Events(n) /\ e.sig = "Request"
  BY <1>1 DEF Events
<1>. HIDE DEF e, n
<1>3. /\ Count(Append(devQ, e)) = Count(devQ)
      /\ NoTimeout(devQ) => NoTimeout(Append(devQ, e))
  BY <1>1, <1>2, CountsAppend
<1>. QED BY <1>1, <1>3, StepFrame DEF devVars

LEMMA StepBus ==
    ASSUME TypesInv, StepInv, BusStep
    PROVE  StepInv'
<1>1. QueueTypes /\ BusTypes /\ DevTypes /\ CmdInv /\ RequestInv
      /\ devQ \in Seq(Events(Len(reqs)))
  BY DEF TypesInv, QueueTypes
<1>2. /\ \/ \E e : AtOnce(e)
         \/ WaitBegins \/ Dropped
         \/ \E e, d : WaitEnds(e, d)
      /\ UNCHANGED <<dst, late, synced, timers>>
  BY <1>1, BusKinds DEF devVars
<1>3. Count(devQ) \in Nat
  BY <1>1, PositionsFinite DEF Count
<1>4. ASSUME NEW e, NEW d, Answer(e, d)
      PROVE  Count(devQ') = Count(devQ) + 1 /\ (NoTimeout(devQ) => NoTimeout(devQ'))
  <2>1. /\ Done(e, d) \in Events(Len(reqs)) /\ Done(e, d).sig = "BusDone"
        /\ devQ' = Append(devQ, Done(e, d))
    BY <1>4 DEF Answer, Done, Events, AnswerEvents
  <2>. QED BY <1>1, <2>1, CountsAppend
<1>5. /\ NoTimeout(devQ) => NoTimeout(devQ')
      /\ InStep(devQ, bst, cmd, dst) => InStep(devQ', bst', cmd', dst)
  <2>1. ASSUME NEW e, AtOnce(e)
        PROVE  /\ NoTimeout(devQ) => NoTimeout(devQ')
               /\ InStep(devQ, bst, cmd, dst) => InStep(devQ', bst', cmd', dst)
    <3>1. Answer(e, Junk) /\ bst = "Idle" /\ bst' = "Idle" /\ cmd # NoCmd /\ cmd' = NoCmd
      BY <2>1 DEF AtOnce
    <3>2. Count(devQ') = Count(devQ) + 1 /\ (NoTimeout(devQ) => NoTimeout(devQ'))
      BY <1>4, <3>1
    <3>. QED BY <1>3, <3>1, <3>2 DEF InStep
  <2>2. ASSUME WaitBegins \/ Dropped
        PROVE  /\ NoTimeout(devQ) => NoTimeout(devQ')
               /\ InStep(devQ, bst, cmd, dst) => InStep(devQ', bst', cmd', dst)
    <3>1. /\ devQ' = devQ /\ cmd # NoCmd /\ cmd' = NoCmd
          /\ bst = "Idle" => bst' # "Idle"
      BY <2>2 DEF WaitBegins, Dropped, WaitStates
    <3>. QED BY <1>3, <3>1 DEF InStep
  <2>3. ASSUME NEW e, NEW d, WaitEnds(e, d)
        PROVE  /\ NoTimeout(devQ) => NoTimeout(devQ')
               /\ InStep(devQ, bst, cmd, dst) => InStep(devQ', bst', cmd', dst)
    <3>1. Answer(e, d) /\ bst # "Idle" /\ bst' = "Idle" /\ cmd' = cmd
      BY <2>3 DEF WaitEnds
    <3>2. Count(devQ') = Count(devQ) + 1 /\ (NoTimeout(devQ) => NoTimeout(devQ'))
      BY <1>4, <3>1
    <3>. QED BY <1>3, <3>1, <3>2 DEF InStep
  <2>. QED BY <1>2, <2>1, <2>2, <2>3
<1>. QED BY <1>2, <1>5 DEF StepInv, Serving

LEMMA StepDev ==
    ASSUME TypesInv, StepInv, DevHandler
    PROVE  StepInv'
<1>1. QueueTypes /\ TaskTypes /\ BusTypes /\ DevTypes /\ CmdInv /\ RequestInv
      /\ devQ \in Seq(Events(Len(reqs)))
  BY DEF TypesInv, QueueTypes
<1>2. BusFixed /\ cmd = NoCmd /\ devQ # <<>> /\ DevKind /\ bst' = bst /\ late' = late
  BY <1>1, DevKinds DEF BusFixed
<1>. DEFINE c == Count(devQ)
            t == Count(Tail(devQ))
<1>3. /\ c \in Nat /\ t \in Nat
      /\ First.sig = "BusDone" => t = c - 1
      /\ First.sig # "BusDone" => t = c
      /\ NoTimeout(devQ) => /\ First.sig \notin {"OpTimeout", "DevTimeout"}
                            /\ NoTimeout(Tail(devQ))
      /\ Tail(devQ) \in Seq(Events(Len(reqs)))
  BY <1>1, <1>2, CountsTail, TailPlaces DEF First
<1>. HIDE DEF c, t
<1>4. /\ ~ late => NoTimeout(devQ) /\ InStep(devQ, bst, cmd, dst)
      /\ synced /\ Serving => InStep(devQ, bst, cmd, dst)
      /\ "op" \in timers => dst \in BusWaits
  BY DEF StepInv
<1>5. InStep(devQ, bst, cmd, dst) <=>
         c + (IF bst = "Idle" THEN 0 ELSE 1) = IF dst \in BusWaits THEN 1 ELSE 0
  BY <1>2, <1>3 DEF InStep, c
<1>6. CASE IdleRequest
  <2>. DEFINE e == [sig |-> "Private"]
  <2>1. /\ dst = "Idle" /\ First.sig = "Request" /\ dst' = "ValidateRequest"
        /\ timers' = {"request"} /\ devQ' = Append(Tail(devQ), e)
        /\ UNCHANGED <<cmd, synced>>
    BY <1>6 DEF IdleRequest, Event, First
  <2>2. e \in Events(Len(reqs)) /\ e.sig \notin {"BusDone", "OpTimeout", "DevTimeout"}
    BY DEF Events, OtherEvents
  <2>. HIDE DEF e
  <2>3. Count(devQ') = t /\ (NoTimeout(Tail(devQ)) => NoTimeout(devQ'))
    BY <1>3, <2>1, <2>2, CountsAppend DEF t
  <2>4. Count(devQ') = c
    BY <1>3, <2>1, <2>3
  <2>5. "Idle" \notin BusWaits /\ "ValidateRequest" \notin BusWaits
    BY DEF BusWaits
  <2>. QED BY <1>2, <1>3, <1>4, <1>5, <2>1, <2>3, <2>4, <2>5
           DEF StepInv, InStep, Serving
<1>7. CASE DeferRequest
  <2>1. /\ First.sig = "Request" /\ devQ' = Tail(devQ)
        /\ UNCHANGED <<cmd, dst, timers, synced>>
    BY <1>7 DEF DeferRequest, Event, First
  <2>2. Count(devQ') = Count(devQ) /\ (NoTimeout(devQ) => NoTimeout(devQ'))
    BY <1>3, <2>1 DEF c, t
  <2>. QED BY <1>2, <2>1, <2>2, StepFrame
<1>8. CASE Unhandled
  <2>1. /\ devQ' = Tail(devQ) /\ UNCHANGED <<cmd, dst, timers, synced>>
        /\ First.sig = "BusDone" =>
              dst \in {"Idle", "ValidateRequest", "PostWriteWait"}
    BY <1>8 DEF Unhandled, Event, First, devVars
  <2>2. CASE First.sig # "BusDone"
    <3>1. Count(devQ') = Count(devQ) /\ (NoTimeout(devQ) => NoTimeout(devQ'))
      BY <1>3, <2>1, <2>2 DEF c, t
    <3>. QED BY <1>2, <2>1, <3>1, StepFrame
  <2>3. CASE First.sig = "BusDone"
    <3>1. dst \notin BusWaits
      BY <2>1, <2>3 DEF BusWaits
    <3>2. c - 1 \in Nat
      BY <1>3, <2>3
    <3>3. ~ InStep(devQ, bst, cmd, dst)
      BY <1>3, <1>5, <3>1, <3>2
    <3>. QED BY <1>2, <1>4, <2>1, <3>3 DEF StepInv, Serving
  <2>. QED BY <2>2, <2>3
<1>9. CASE Writes
  <2>1. /\ First.sig = "BusDone" /\ dst = "WriteMem" /\ dst' = "PostWriteWait"
        /\ timers' = (timers \ {"op"}) \cup {"write"} /\ devQ' = Tail(devQ)
        /\ UNCHANGED <<cmd, synced>>
    BY <1>9 DEF Writes, Success1
  <2>2. "WriteMem" \in BusWaits /\ "PostWriteWait" \notin BusWaits /\ Serving
    BY <2>1 DEF BusWaits, Serving
  <2>3. Count(devQ') = c - 1
    BY <1>3, <2>1 DEF t
  <2>4. InStep(devQ, bst, cmd, dst) => InStep(devQ', bst', cmd', dst')
    BY <1>2, <1>3, <1>5, <2>1, <2>2, <2>3 DEF InStep
  <2>. QED BY <1>2, <1>3, <1>4, <2>1, <2>2, <2>4 DEF StepInv
<1>10. ASSUME NEW s, Continues(s) PROVE StepInv'
  <2>1. /\ s \in BusWaits /\ dst' = s /\ cmd' = Operation(s) /\ devQ' = Tail(devQ)
        /\ Begins(s) \/ TurnsPage(s) \/ GoesOn(s)
    BY <1>10 DEF Continues, EnterBusWait, Begins, TurnsPage, GoesOn, BusWaits
  <2>2. cmd' # NoCmd
    BY <2>1 DEF Operation, NoCmd, BusWaits
  <2>3. ASSUME InStep(devQ, bst, cmd, dst) PROVE InStep(devQ', bst', cmd', dst')
    <3>1. CASE GoesOn(s)
      <4>1. dst \in BusWaits /\ First.sig = "BusDone"
        BY <3>1 DEF GoesOn, Success1, BusWaits
      <4>2. Count(devQ') = c - 1
        BY <1>3, <2>1, <4>1 DEF t
      <4>. QED BY <1>2, <1>3, <1>5, <2>1, <2>2, <2>3, <4>1, <4>2 DEF InStep
    <3>2. CASE Begins(s) \/ TurnsPage(s)
      <4>1. dst \notin BusWaits /\ First.sig # "BusDone"
        BY <3>2 DEF Begins, TurnsPage, BusWaits
      <4>2. Count(devQ') = c
        BY <1>3, <2>1, <4>1 DEF t
      <4>. QED BY <1>2, <1>3, <1>5, <2>1, <2>2, <2>3, <4>1, <4>2 DEF InStep
    <3>. QED BY <2>1, <3>1, <3>2
  <2>4. synced' => (synced /\ Serving) \/ InStep(devQ, bst, cmd, dst)
    <3>1. CASE Begins(s)
      <4>1. synced' = BusQuiet /\ dst \notin BusWaits
        BY <3>1 DEF Begins, BusWaits
      <4>. QED BY <1>1, <1>3, <1>5, <4>1, QuietIsNone DEF c
    <3>2. CASE TurnsPage(s) \/ GoesOn(s)
      BY <3>2 DEF TurnsPage, GoesOn, Serving
    <3>. QED BY <2>1, <3>1, <3>2
  <2>. QED BY <1>2, <1>3, <1>4, <2>1, <2>3, <2>4 DEF StepInv
<1>11. ASSUME NEW err, NEW d, Returns(err, d) PROVE StepInv'
  <2>1. /\ dst' = "Idle" /\ timers' = {} /\ cmd' = cmd /\ Recall(Tail(devQ))
        /\ ~ Serving' /\ "Idle" \notin BusWaits
    BY <1>11 DEF Returns, BackToIdle, Serving, BusWaits
  <2>2. ASSUME ~ late PROVE NoTimeout(devQ') /\ InStep(devQ', bst', cmd', dst')
    <3>1. /\ NoTimeout(devQ) /\ InStep(devQ, bst, cmd, dst)
          /\ First.sig \notin {"OpTimeout", "DevTimeout"}
      BY <1>3, <1>4, <2>2
    <3>2. \/ dst \in BusWaits /\ First.sig = "BusDone"
          \/ dst \notin BusWaits /\ First.sig # "BusDone"
      BY <1>11, <3>1 DEF Returns, BusWaits
    <3>3. t + (IF bst = "Idle" THEN 0 ELSE 1) = 0
      BY <1>3, <1>5, <3>1, <3>2
    <3>4. Count(devQ') = t /\ NoTimeout(devQ')
      <4>1. /\ defq = <<>> => devQ' = Tail(devQ)
            /\ defq # <<>> =>
                  /\ devQ' = [devQ EXCEPT ![1] = Head(defq)]
                  /\ Head(defq) \in RequestEvents(Len(reqs))
                  /\ Head(defq) \in Events(Len(reqs))
        BY <1>1, <1>2, <2>1, Recalled
      <4>2. CASE defq = <<>>
        BY <1>3, <3>1, <4>1, <4>2 DEF t
      <4>3. CASE defq # <<>>
        <5>. DEFINE h == Head(defq)
        <5>1. h \in Events(Len(reqs)) /\ h.sig = "Request" /\ devQ' = [devQ EXCEPT ![1] = h]
          BY <4>1, <4>3 DEF RequestEvents
        <5>. HIDE DEF h
        <5>2. /\ Head(devQ).sig = "BusDone" => Count([devQ EXCEPT ![1] = h]) = Count(devQ) - 1
              /\ Head(devQ).sig # "BusDone" => Count([devQ EXCEPT ![1] = h]) = Count(devQ)
              /\ NoTimeout(devQ) => NoTimeout([devQ EXCEPT ![1] = h])
          BY <1>1, <1>2, <5>1, CountsFront
        <5>. QED BY <1>3, <3>1, <5>1, <5>2 DEF First, c
      <4>. QED BY <4>2, <4>3
    <3>. QED BY <1>2, <1>3, <2>1, <3>3, <3>4 DEF InStep
  <2>. QED BY <1>2, <2>1, <2>2 DEF StepInv
<1>. QED BY <1>2, <1>6, <1>7, <1>8, <1>9, <1>10, <1>11 DEF DevKind

LEMMA StepTimer ==
    ASSUME TypesInv, StepInv, NEW t \in Timers, Expires(t)
    PROVE  StepInv'
<1>1. QueueTypes /\ devQ \in Seq(Events(Len(reqs)))
  BY DEF TypesInv, QueueTypes
<1>. DEFINE e == [sig |-> Timeout[t]]
<1>2. /\ e \in Events(Len(reqs)) /\ e.sig # "BusDone"
      /\ t = "write" => e.sig = "PostWriteTimer"
      /\ t \in {"op", "request", "write"}
  BY TimeoutEvents DEF Timers, Events, OtherEvents
<1>3. /\ devQ' = Append(devQ, e) /\ timers' = timers \ {t} /\ t \in timers
      /\ late' = (late \/ t = "request" \/ (t = "op" /\ ~ BusQuiet))
      /\ UNCHANGED <<bst, cmd, dst, synced>>
  BY DEF Expires
<1>. HIDE DEF e
<1>4. /\ Count(devQ') = Count(devQ)
      /\ NoTimeout(devQ) /\ t = "write" => NoTimeout(devQ')
  BY <1>1, <1>2, <1>3, CountsAppend
<1>5. ~ late' => ~ late /\ t = "write"
  <2>1. SUFFICES ASSUME ~ late, t = "op", BusQuiet PROVE FALSE
    BY <1>2, <1>3
  <2>2. dst \in BusWaits /\ InStep(devQ, bst, cmd, dst)
    BY <1>3, <2>1 DEF StepInv
  <2>3. bst = "Idle" /\ cmd = NoCmd /\ Count(devQ) = 0
    BY <1>1, <2>1, QuietIsNone
  <2>. QED BY <2>2, <2>3 DEF InStep
<1>6. InStep(devQ, bst, cmd, dst) => InStep(devQ', bst', cmd', dst')
  BY <1>3, <1>4 DEF InStep
<1>. QED BY <1>3, <1>4, <1>5, <1>6 DEF StepInv, Serving

LEMMA StepNext ==
    ASSUME TypesInv, StepInv, [Next]_sysVars
    PROVE  StepInv'
<1>1. QueueTypes
  BY DEF TypesInv
<1>2. ASSUME NEW r \in Requests, PostRequest(r) PROVE StepInv'
  BY <1>1, <1>2, StepPosted DEF PostRequest
<1>3. CASE TaskReads
  BY <1>1, <1>3, StepPosted, SystemAssumption DEF TaskReads
<1>4. CASE EthArrives \/ TaskDrops \/ TaskWakes \/ UNCHANGED sysVars
  <2>1. UNCHANGED <<bst, cmd, dst, late, synced, timers, devQ>>
    BY <1>4 DEF EthArrives, TaskDrops, TaskWakes, sysVars, vars, busVars, devVars
  <2>. QED BY <2>1, StepFrame
<1>5. CASE TimerStep
  BY <1>5, TimerKinds, StepTimer
<1>. QED
  BY <1>2, <1>3, <1>4, <1>5, StepBus, StepDev DEF Next, DevStep, TaskStep

LEMMA StepInit ==
    ASSUME Init
    PROVE  StepInv
<1>1. devQ = <<>> /\ bst = "Idle" /\ cmd = NoCmd /\ dst = "Idle" /\ timers = {}
  BY DEF Init, BusInit, DevInit
<1>2. Count(devQ) = 0
  <2>1. Positions(devQ, AnswerEvents) = {}
    BY <1>1 DEF Positions
  <2>. QED BY <2>1, FS_EmptySet DEF Count
<1>. QED BY <1>1, <1>2 DEF StepInv, InStep, NoTimeout, Serving, BusWaits

\* Until a timer of I2C1DevMgr beats the bus object, exactly one answer is to
\* come in each state that waits for the bus and none in any other, whatever
\* fails: so an answer, which carries no name, is never taken for that of
\* another operation.
THEOREM ObjectsInStep == Spec => []OneAnswerPending
<1>1. ASSUME TypesInv, StepInv PROVE OneAnswerPending
  <2>1. Cardinality(Answers) = Count(devQ)
    BY <1>1, QuietIsNone DEF TypesInv
  <2>. QED BY <1>1, <2>1 DEF StepInv, InStep, OneAnswerPending
<1>2. TypesInv /\ StepInv /\ [Next]_sysVars => StepInv'
  BY StepNext
<1>. QED BY <1>1, <1>2, StepInit, TypesAlways, PTL DEF Spec

-----------------------------------------------------------------------------
(* What success is worth *)

Truths == AddressTruth /\ WaitTruth /\ ReadTruth /\ WriteTruth

\* One event more, or the first one less.
LEMMA QueueAppend ==
    ASSUME NEW n, NEW q \in Seq(Events(n)), NEW e \in Events(n)
    PROVE  /\ e.sig # "BusDone" =>
                 /\ Success(Append(q, e)) => Success(q)
                 /\ NoAnswer(Append(q, e)) <=> NoAnswer(q)
           /\ e.sig = "BusDone" => ~ NoAnswer(Append(q, e))
           /\ NoAnswer(q) /\ e.sig = "BusDone" /\ e.err # "none" => ~ Success(Append(q, e))
           /\ DOMAIN Append(q, e) = DOMAIN q \cup {Len(q) + 1}
           /\ \A i \in DOMAIN q : Append(q, e)[i] = q[i] /\ i < Len(q) + 1
           /\ Append(q, e)[Len(q) + 1] = e
<1>1. /\ DOMAIN Append(q, e) = DOMAIN q \cup {Len(q) + 1}
      /\ \A i \in DOMAIN q : Append(q, e)[i] = q[i] /\ i < Len(q) + 1
      /\ Append(q, e)[Len(q) + 1] = e
  BY AppendPlaces, LenProperties
<1>. DEFINE t == Append(q, e)
            m == Len(q) + 1
<1>. HIDE DEF t, m
<1>2. /\ DOMAIN t = DOMAIN q \cup {m} /\ t[m] = e
      /\ \A i \in DOMAIN q : t[i] = q[i]
  BY <1>1 DEF t, m
<1>3. e.sig # "BusDone" => (Success(t) => Success(q)) /\ (NoAnswer(t) <=> NoAnswer(q))
  BY <1>2 DEF Success, NoAnswer
<1>4. /\ e.sig = "BusDone" => ~ NoAnswer(t)
      /\ NoAnswer(q) /\ e.sig = "BusDone" /\ e.err # "none" => ~ Success(t)
  BY <1>2 DEF Success, NoAnswer
<1>. QED BY <1>1, <1>3, <1>4 DEF t

LEMMA QueueTail ==
    ASSUME NEW n, NEW q \in Seq(Events(n)), q # <<>>
    PROVE  /\ Success(Tail(q)) => Success(q)
           /\ Head(q).sig # "BusDone" => (NoAnswer(Tail(q)) <=> NoAnswer(q))
           /\ Head(q).sig = "BusDone" /\ Head(q).err = "none" => Success(q)
           /\ Head(q) = q[1] /\ 1 \in DOMAIN q
           /\ \A i \in DOMAIN Tail(q) :
                 i \in Nat \ {0} /\ i + 1 \in DOMAIN q /\ Tail(q)[i] = q[i + 1]
           /\ \A i \in DOMAIN q \ {1} :
                 i \in Nat /\ i - 1 \in DOMAIN Tail(q) /\ Tail(q)[i - 1] = q[i]
<1>1. /\ Head(q) = q[1] /\ 1 \in DOMAIN q
      /\ \A i \in DOMAIN Tail(q) :
            i \in Nat \ {0} /\ i + 1 \in DOMAIN q /\ Tail(q)[i] = q[i + 1]
      /\ \A i \in DOMAIN q \ {1} :
            i \in Nat /\ i - 1 \in DOMAIN Tail(q) /\ Tail(q)[i - 1] = q[i]
  BY TailPlaces
<1>. DEFINE t == Tail(q)
<1>. HIDE DEF t
<1>2. /\ \A i \in DOMAIN t : i + 1 \in DOMAIN q /\ t[i] = q[i + 1]
      /\ \A i \in DOMAIN q \ {1} : i - 1 \in DOMAIN t /\ t[i - 1] = q[i]
  BY <1>1 DEF t
<1>3. Success(t) => Success(q)
  BY <1>2 DEF Success
<1>4. Head(q).sig # "BusDone" => (NoAnswer(t) <=> NoAnswer(q))
  BY <1>1, <1>2 DEF NoAnswer
<1>5. Head(q).sig = "BusDone" /\ Head(q).err = "none" => Success(q)
  BY <1>1 DEF Success
<1>. QED BY <1>1, <1>3, <1>4, <1>5 DEF t

\* What leaves everything alone but the queue, in which no success and no
\* missing answer is new.
LEMMA TruthKept ==
    ASSUME Truths, UNCHANGED <<bst, xfer, phase, ptr, mem, cut, dst, cur, page>>,
           Req' = Req, Success(devQ') => Success(devQ),
           NoAnswer(devQ') => NoAnswer(devQ), ReadTruth'
    PROVE  Truths'
<1>1. AddressTruth'
  <2>1. Target' = Target
    BY DEF Target
  <2>. QED BY <2>1 DEF Truths, AddressTruth
<1>2. WaitTruth'
  BY DEF Truths, WaitTruth
<1>3. WriteTruth'
  BY DEF Truths, WriteTruth, InMem
<1>. QED BY <1>1, <1>2, <1>3 DEF Truths

LEMMA ReadTruthAppend ==
    ASSUME ReadTruth, NEW n, devQ \in Seq(Events(n)), NEW e \in Events(n),
           e.sig # "BusDone", devQ' = Append(devQ, e), UNCHANGED <<dst, cur, mem>>,
           Req' = Req,
           ("op" \in timers => "op" \in timers') \/ e.sig = "OpTimeout"
    PROVE  ReadTruth'
<1>1. SUFFICES ASSUME dst = "ReadMem" PROVE ReadTruth'
  BY DEF ReadTruth
<1>. DEFINE m == Len(devQ) + 1
<1>2. /\ NoAnswer(devQ') <=> NoAnswer(devQ)
      /\ DOMAIN devQ' = DOMAIN devQ \cup {m} /\ devQ'[m] = e
      /\ \A i \in DOMAIN devQ : devQ'[i] = devQ[i]
  BY QueueAppend
<1>. HIDE DEF m
<1>3. ReadData' = ReadData
  BY DEF ReadData
<1>4. "op" \notin timers' /\ NoAnswer(devQ') => \E i \in DOMAIN devQ' : devQ'[i].sig = "OpTimeout"
  <2>1. CASE e.sig = "OpTimeout"
    BY <1>2, <2>1
  <2>2. CASE "op" \in timers => "op" \in timers'
    BY <1>1, <1>2, <2>2 DEF ReadTruth
  <2>. QED BY <2>1, <2>2
<1>5. ASSUME NEW i \in DOMAIN devQ', devQ'[i].sig = "BusDone", devQ'[i].err = "none"
      PROVE  \/ devQ'[i].data = ReadData'
             \/ \E j \in DOMAIN devQ' : j < i /\ devQ'[j].sig = "OpTimeout"
  <2>1. i \in DOMAIN devQ /\ devQ'[i] = devQ[i]
    BY <1>2, <1>5
  <2>. QED BY <1>1, <1>2, <1>3, <1>5, <2>1 DEF ReadTruth
<1>. QED BY <1>4, <1>5 DEF ReadTruth

LEMMA ReadTruthTail ==
    ASSUME ReadTruth, NEW n, devQ \in Seq(Events(n)), devQ # <<>>,
           devQ' = Tail(devQ), First.sig \notin {"BusDone", "OpTimeout"},
           UNCHANGED <<dst, cur, mem, timers>>, Req' = Req
    PROVE  ReadTruth'
<1>1. SUFFICES ASSUME dst = "ReadMem" PROVE ReadTruth'
  BY DEF ReadTruth
<1>2. /\ NoAnswer(devQ') <=> NoAnswer(devQ)
      /\ devQ[1].sig # "OpTimeout"
      /\ \A i \in DOMAIN devQ' :
            i \in Nat \ {0} /\ i + 1 \in DOMAIN devQ /\ devQ'[i] = devQ[i + 1]
      /\ \A i \in DOMAIN devQ \ {1} :
            i \in Nat /\ i - 1 \in DOMAIN devQ' /\ devQ'[i - 1] = devQ[i]
  BY QueueTail DEF First
<1>3. ReadData' = ReadData
  BY DEF ReadData
<1>4. "op" \notin timers' /\ NoAnswer(devQ') => \E i \in DOMAIN devQ' : devQ'[i].sig = "OpTimeout"
  <2>1. ASSUME NEW i \in DOMAIN devQ, devQ[i].sig = "OpTimeout"
        PROVE  \E k \in DOMAIN devQ' : devQ'[k].sig = "OpTimeout"
    <3>1. i - 1 \in DOMAIN devQ' /\ devQ'[i - 1].sig = "OpTimeout"
      BY <1>2, <2>1
    <3>. QED BY <3>1
  <2>. QED BY <1>1, <1>2, <2>1 DEF ReadTruth
<1>5. ASSUME NEW i \in DOMAIN devQ', devQ'[i].sig = "BusDone", devQ'[i].err = "none"
      PROVE  \/ devQ'[i].data = ReadData'
             \/ \E j \in DOMAIN devQ' : j < i /\ devQ'[j].sig = "OpTimeout"
  <2>1. i \in Nat /\ i + 1 \in DOMAIN devQ /\ devQ'[i] = devQ[i + 1]
    BY <1>2
  <2>2. ASSUME NEW j \in DOMAIN devQ, j < i + 1, devQ[j].sig = "OpTimeout"
        PROVE  \E k \in DOMAIN devQ' : k < i /\ devQ'[k].sig = "OpTimeout"
    <3>1. j - 1 \in DOMAIN devQ' /\ devQ'[j - 1].sig = "OpTimeout" /\ j - 1 < i
      BY <1>2, <2>1, <2>2
    <3>. QED BY <3>1
  <2>. QED BY <1>1, <1>3, <1>5, <2>1, <2>2 DEF ReadTruth
<1>. QED BY <1>4, <1>5 DEF ReadTruth

\* In the states in which neither the queue nor the address tells anything.
LEMMA TruthElsewhere ==
    ASSUME Truths, UNCHANGED <<dst, cur, page, ptr, mem, cut>>, Req' = Req, WaitTruth',
           dst \notin {"SendInternalAddr", "ReadMem", "WriteMem"}
    PROVE  Truths'
<1>1. AddressTruth' /\ ReadTruth'
  BY DEF Truths, AddressTruth, ReadTruth
<1>2. WriteTruth'
  BY DEF Truths, WriteTruth, InMem
<1>. QED BY <1>1, <1>2 DEF Truths

\* What the EEPROM holds after a page was written.
LEMMA PageStored ==
    ASSUME BusTypes, QueueTypes, DevTypes, RequestInv, Truths, ~ cut,
           dst = "WriteMem", bst = "WaitForDMAWriteDone", phase = "addr",
           mem' = Programmed(xfer.n), UNCHANGED <<cur, page>>, Req' = Req
    PROVE  InMem(page.addr)' /\ InMem(page.addr + page.size)'
<1>1. /\ Req.op = "write" /\ Acceptable(Req) /\ dst # "Idle"
      /\ xfer.n = page.size /\ xfer.data = cur /\ ptr = page.addr
      /\ InMem(page.addr)
  BY DEF RequestInv, Serving, Truths, WaitTruth, WriteTruth
<1>2. /\ page.addr \in Addrs /\ page.size \in Nat \ {0} /\ Req.addr \in Addrs
      /\ Req.n \in Nat /\ InsideRequest(cur, page.addr, page.size)
  BY <1>1, Served
<1>. DEFINE w   == (ptr \div PageSize) * PageSize
            hit == {w + ((ptr + i) % PageSize) : i \in 0 .. page.size - 1}
            a == page.addr
            n == page.size
<1>3. mem' = [b \in Addrs |-> IF b \in hit THEN cur ELSE mem[b]]
  BY <1>1 DEF Programmed
<1>4. /\ a + n <= Req.addr + Req.n /\ (a % PageSize) + n <= PageSize
      /\ Req.addr + Req.n <= MaxAddr /\ MaxAddr \in Nat
      /\ a \in Nat /\ n \in Nat /\ Req.addr \in Nat /\ Req.n \in Nat
  BY <1>1, <1>2, BusAssumption DEF InsideRequest, Acceptable, Req, Addrs
<1>5. ASSUME NEW i \in 0 .. n - 1 PROVE a + i \in hit
  BY <1>1, <1>4, <1>5, NoWrap
<1>. HIDE DEF w, hit, a, n
<1>6. ASSUME NEW b \in Req.addr .. (a + n) - 1 PROVE mem'[b] = cur
  <2>1. b \in Addrs
    BY <1>4, <1>6 DEF Addrs
  <2>2. CASE b < a
    <3>1. b \in Req.addr .. a - 1
      BY <1>4, <1>6, <2>2
    <3>2. mem[b] = cur
      BY <1>1, <3>1 DEF InMem, a
    <3>. QED BY <1>3, <2>1, <3>2
  <2>3. CASE ~ (b < a)
    <3>1. PICK i \in 0 .. n - 1 : b = a + i
      <4>1. b - a \in 0 .. n - 1 /\ b = a + (b - a)
        BY <1>4, <1>6, <2>3
      <4>. QED BY <4>1
    <3>. QED BY <1>3, <1>5, <2>1, <3>1
  <2>. QED BY <2>2, <2>3
<1>7. ASSUME NEW b \in Req.addr .. a - 1 PROVE mem'[b] = cur
  <2>1. b \in Req.addr .. (a + n) - 1
    BY <1>4, <1>7
  <2>. QED BY <1>6, <2>1
<1>. QED BY <1>6, <1>7 DEF InMem, a, n

\* What the EEPROM sends from the address of the request is the data.
LEMMA DataRead ==
    ASSUME QueueTypes, DevTypes, RequestInv, Serving, ptr = Req.addr, xfer.n = Req.n
    PROVE  [i \in 1 .. xfer.n |-> mem[(ptr + i - 1) % (MaxAddr + 1)]] = ReadData
<1>1. Req.addr \in Nat /\ Req.n \in Nat /\ Req.addr + (Req.n - 1) <= MaxAddr
      /\ MaxAddr \in Nat
  <2>1. Acceptable(Req) /\ dst # "Idle"
    BY DEF RequestInv, Serving
  <2>. QED BY <2>1, Served, BusAssumption DEF Acceptable, Addrs
<1>2. ASSUME NEW i \in 1 .. Req.n
      PROVE  (Req.addr + i - 1) % (MaxAddr + 1) = Req.addr + i - 1
  <2>. DEFINE x == Req.addr + i - 1
              m == MaxAddr + 1
  <2>1. x \in 0 .. m - 1 /\ m \in Nat \ {0} /\ 0 \in Nat /\ 0 * m + x = x
    BY <1>1, <1>2
  <2>. HIDE DEF x, m
  <2>2. (0 * m + x) % m = x
    BY <2>1, ModOfSum
  <2>. QED BY <2>1, <2>2 DEF x, m
<1>. DEFINE f(i) == mem[(Req.addr + i - 1) % (MaxAddr + 1)]
            g(i) == mem[Req.addr + i - 1]
<1>3. \A i \in 1 .. Req.n : f(i) = g(i)
  BY <1>2
<1>. HIDE DEF f, g
<1>4. [i \in 1 .. Req.n |-> f(i)] = [i \in 1 .. Req.n |-> g(i)]
  BY <1>3
<1>. QED BY <1>4 DEF f, g, ReadData

\* An answer when none was there.
LEMMA ReadTruthAnswer ==
    ASSUME ReadTruth, dst = "ReadMem", NEW n, devQ \in Seq(Events(n)), NoAnswer(devQ),
           NEW e, NEW d, Answer(e, d), Done(e, d) \in Events(n),
           \/ e = "none" /\ d = ReadData'
           \/ "op" \notin timers
    PROVE  ReadTruth'
<1>. DEFINE a == Done(e, d)
            m == Len(devQ) + 1
<1>1. a.sig = "BusDone" /\ a.data = d /\ devQ' = Append(devQ, a) /\ a \in Events(n)
  BY DEF Done, Answer
<1>. HIDE DEF a
<1>2. /\ ~ NoAnswer(devQ') /\ DOMAIN devQ' = DOMAIN devQ \cup {m} /\ devQ'[m] = a
      /\ \A i \in DOMAIN devQ : devQ'[i] = devQ[i] /\ i < m
  BY <1>1, QueueAppend
<1>. HIDE DEF m
<1>3. ASSUME NEW i \in DOMAIN devQ', devQ'[i].sig = "BusDone", devQ'[i].err = "none"
      PROVE  \/ devQ'[i].data = ReadData'
             \/ \E j \in DOMAIN devQ' : j < i /\ devQ'[j].sig = "OpTimeout"
  <2>1. i = m
    BY <1>2, <1>3 DEF NoAnswer
  <2>2. CASE e = "none" /\ d = ReadData'
    BY <1>1, <1>2, <2>1, <2>2
  <2>3. CASE "op" \notin timers
    <3>1. \E j \in DOMAIN devQ : devQ[j].sig = "OpTimeout"
      BY <2>3 DEF ReadTruth
    <3>. QED BY <1>2, <2>1, <3>1
  <2>. QED BY <2>2, <2>3
<1>. QED BY <1>2, <1>3 DEF ReadTruth

\* The bus object.  In step, no answer is there while it is busy.
LEMMA TruthBus ==
    ASSUME TypesInv, AimInv, StepInv, TruthInv, BusStep
    PROVE  TruthInv'
<1>1. /\ QueueTypes /\ BusTypes /\ DevTypes /\ CmdInv /\ RequestInv
      /\ devQ \in Seq(Events(Len(reqs)))
  BY DEF TypesInv, QueueTypes
<1>2. /\ BusOperation \/ BusWaitEnds
      /\ UNCHANGED <<dst, cur, page, reqs, timers, synced>>
      /\ Target' = Target /\ Req' = Req
  BY DEF BusStep, devVars, Target, Req
<1>15. ~ cut' => ~ cut
  BY <1>2 DEF BusOperation, BusWaitEnds, BusGivesUpReading, CheckFree, RecoverBus,
     RecoveryFails, GenerateStart, Send7BitAddrTx, LeftoverIsSent, Send7BitAddrRx,
     SendDevAddr, AddrIsLost, StartDMARead, StartDMAWrite, BusyDropsOperation,
     BusSettles, DMAReadDone, DMAReadTimeout, DMAWriteDone, DMAWriteTimeout
<1>3. SUFFICES ASSUME synced, Serving, ~ cut, ~ cut', Truths PROVE Truths'
  <2>1. SUFFICES ASSUME synced', Serving', ~ cut' PROVE Truths'
    BY DEF TruthInv, Truths
  <2>2. synced /\ Serving /\ ~ cut
    BY <1>2, <1>15, <2>1 DEF Serving
  <2>3. Truths
    BY <2>2 DEF TruthInv, Truths
  <2>. QED BY <1>3, <2>1, <2>2, <2>3
<1>16. ~ armed /\ ~ leaked /\ phase # "lost"
  BY <1>1, <1>3 DEF BusTypes, LeftInv
<1>4. /\ InStep(devQ, bst, cmd, dst) /\ Count(devQ) \in Nat
      /\ Count(devQ) = 0 <=> NoAnswer(devQ)
  BY <1>1, <1>3, QuietIsNone, PositionsFinite DEF StepInv, Count
<1>5. cmd # NoCmd \/ bst # "Idle" => NoAnswer(devQ)
  BY <1>4 DEF InStep
<1>6. ~ (cmd # NoCmd /\ bst # "Idle")
  BY <1>4 DEF InStep
<1>7. ASSUME NEW e \in {"none", "bus"}, NEW d \in Data, devQ' = Append(devQ, Done(e, d))
      PROVE  /\ Done(e, d) \in Events(Len(reqs)) /\ ~ NoAnswer(devQ')
             /\ NoAnswer(devQ) /\ e # "none" => ~ Success(devQ')
  <2>1. /\ Done(e, d) \in Events(Len(reqs)) /\ Done(e, d).sig = "BusDone"
        /\ Done(e, d).err = e
    BY DEF Done, Events, AnswerEvents
  <2>. QED BY <1>1, <1>7, <2>1, QueueAppend
<1>8. CASE CheckFree \/ RecoveryFails \/ GenerateStart \/ Send7BitAddrTx \/ Send7BitAddrRx
           \/ RecoverBus \/ BusSettles
  <2>1. /\ UNCHANGED <<ptr, mem, cut>>
        /\ \/ bst' = "Idle"
           \/ RecoverBus /\ bst' = "WaitForBusToSettle"
    BY <1>8 DEF CheckFree, RecoveryFails, GenerateStart, Send7BitAddrTx,
       Send7BitAddrRx, RecoverBus, BusSettles, Takes
  <2>2. ~ BusSettles => cmd # NoCmd
           /\ cmd.op \in {"CHECK_FREE", "START_BIT", "7BIT_ADDR_TX", "7BIT_ADDR_RX"}
           /\ (RecoverBus => cmd.op = "CHECK_FREE")
    BY <1>8, Taking DEF CheckFree, RecoveryFails, GenerateStart, Send7BitAddrTx,
       Send7BitAddrRx, RecoverBus, Takes
  <2>3. /\ BusSettles => dst = "CheckingBus"
        /\ RecoverBus => dst = "CheckingBus"
        /\ dst \notin {"SendInternalAddr", "ReadMem", "WriteMem"}
    <3>1. CASE BusSettles
      <4>1. dst = "CheckingBus"
        BY <1>3, <3>1 DEF BusSettles, Truths, WaitTruth
      <4>. QED BY <4>1
    <3>2. CASE ~ BusSettles
      BY <1>1, <2>2, <3>2, OperationOf
    <3>. QED BY <3>1, <3>2
  <2>4. WaitTruth'
    BY <1>2, <2>1, <2>3 DEF WaitTruth
  <2>. QED BY <1>2, <1>3, <2>1, <2>3, <2>4, TruthElsewhere
<1>9. CASE SendDevAddr
  <2>1. /\ bst' = "Idle" /\ UNCHANGED <<mem, cut>> /\ cmd # NoCmd
        /\ cmd.op = "DEV_ADDR" /\ (phase' = "addr" => ptr' = cmd.addr)
        /\ PollFor({"tx"}, "addr")
    BY <1>9, Taking DEF SendDevAddr, Takes
  <2>2. dst = "SendInternalAddr" /\ cmd.addr = Target
    BY <1>1, <2>1, OperationOf
  <2>3. phase' = "addr" \/ ~ Success(devQ')
    <3>1. phase' = "addr" \/ devQ' = Append(devQ, Done("bus", Junk))
      BY <2>1 DEF PollFor, Seen, NotSeen, Finish
    <3>. QED BY <1>5, <1>7, <2>1, <3>1, JunkIsData
  <2>4. AddressTruth' /\ WaitTruth' /\ ReadTruth'
    BY <1>2, <2>1, <2>2, <2>3 DEF AddressTruth, WaitTruth, ReadTruth
  <2>5. WriteTruth'
    BY <1>2, <1>3, <2>1, <2>2 DEF WriteTruth, InMem, Truths
  <2>. QED BY <2>4, <2>5 DEF Truths
<1>10. CASE StartDMARead
  <2>1. /\ bst' = "WaitForDMAReadDone" /\ cmd # NoCmd /\ cmd.op = "READ_MEM"
        /\ xfer'.n = cmd.n /\ UNCHANGED <<phase, ptr, mem, devQ, cut>>
    BY <1>10, Taking DEF StartDMARead, Takes
  <2>2. dst = "ReadMem" /\ cmd.n = Req.n
    BY <1>1, <2>1, OperationOf
  <2>3. AddressTruth' /\ WaitTruth'
    BY <1>2, <1>3, <2>1, <2>2 DEF Truths, AddressTruth, WaitTruth
  <2>4. ReadTruth' /\ WriteTruth'
    BY <1>2, <1>3, <2>1 DEF Truths, ReadTruth, ReadData, WriteTruth, InMem
  <2>. QED BY <2>3, <2>4 DEF Truths
<1>11. CASE StartDMAWrite
  <2>1. /\ bst = "Idle" /\ bst' = "WaitForDMAWriteDone" /\ cmd # NoCmd
        /\ cmd.op = "WRITE_MEM" /\ xfer'.n = cmd.n /\ xfer'.data = cmd.data
        /\ UNCHANGED <<phase, ptr, mem, devQ, cut>>
    BY <1>11, Taking DEF StartDMAWrite, Takes
  <2>2. dst = "WriteMem" /\ cmd.n = page.size /\ cmd.data = cur
    BY <1>1, <2>1, OperationOf
  <2>3. phase = "addr" => ptr = page.addr
    BY <1>1, <2>1, <2>2 DEF AimInv, Target, RequestInv
  <2>4. AddressTruth' /\ WaitTruth' /\ ReadTruth'
    BY <1>2, <2>1, <2>2, <2>3 DEF AddressTruth, WaitTruth, ReadTruth
  <2>5. WriteTruth'
    BY <1>2, <1>3, <2>1 DEF Truths, WriteTruth, InMem
  <2>. QED BY <2>4, <2>5 DEF Truths
<1>12. CASE BusyDropsOperation
  BY <1>6, <1>12 DEF BusyDropsOperation
<1>13. CASE DMAReadDone \/ BusGivesUpReading
  <2>1. /\ bst = "WaitForDMAReadDone" /\ bst' = "Idle" /\ UNCHANGED <<mem, cut>>
    BY <1>13 DEF DMAReadDone, BusGivesUpReading, DMAReadTimeout, Stopped
  <2>2. /\ dst = "ReadMem" /\ xfer.n = Req.n /\ NoAnswer(devQ)
        /\ ptr = Req.addr /\ Req.op = "read"
    <3>1. dst = "ReadMem" /\ xfer.n = Req.n /\ NoAnswer(devQ)
      BY <1>3, <1>5, <2>1 DEF Truths, WaitTruth
    <3>. QED BY <1>1, <1>3, <3>1 DEF Truths, AddressTruth, RequestInv
  <2>3. ReadData' = ReadData
    BY <1>2, <2>1 DEF ReadData
  <2>4. /\ ReadData \in Data /\ errorCode \in {"none", "bus"}
        /\ DMAReadDone => devQ' = Append(devQ, Done("none", ReadData))
                          /\ errorCode' = "none"
    <3>1. [i \in 1 .. xfer.n |-> mem[(ptr + i - 1) % (MaxAddr + 1)]] = ReadData
      BY <1>1, <1>3, <2>2, DataRead
    <3>2. xfer.n \in Nat /\ errorCode \in {"none", "bus"}
      BY <1>1 DEF BusTypes
    <3>3. [i \in 1 .. xfer.n |-> mem[(ptr + i - 1) % (MaxAddr + 1)]] \in Data
      BY <1>1, <3>2, EepromBytes
    <3>. QED BY <3>1, <3>2, <3>3 DEF DMAReadDone, Finish
  <2>5. ReadTruth' /\ ~ NoAnswer(devQ')
    <3>1. ReadTruth
      BY <1>3 DEF Truths
    <3>2. CASE DMAReadDone
      <4>1. Answer("none", ReadData)
        BY <2>4, <3>2 DEF Answer
      <4>2. Done("none", ReadData) \in Events(Len(reqs)) /\ ~ NoAnswer(devQ')
        BY <1>7, <2>4, <3>2
      <4>. QED BY <1>1, <2>2, <2>3, <3>1, <4>1, <4>2, ReadTruthAnswer
    <3>3. CASE BusGivesUpReading
      <4>1. Answer(errorCode, Junk) /\ "op" \notin timers
        BY <2>2, <2>4, <3>3, JunkIsData
           DEF BusGivesUpReading, DMAReadTimeout, Finish, Answer
      <4>2. Done(errorCode, Junk) \in Events(Len(reqs)) /\ ~ NoAnswer(devQ')
        BY <1>7, <2>4, <4>1, JunkIsData DEF Answer
      <4>. QED BY <1>1, <2>2, <3>1, <4>1, <4>2, ReadTruthAnswer
    <3>. QED BY <1>13, <3>2, <3>3
  <2>6. AddressTruth' /\ WaitTruth' /\ WriteTruth'
    BY <1>2, <2>1, <2>2, <2>5 DEF AddressTruth, WaitTruth, WriteTruth
  <2>. QED BY <2>5, <2>6 DEF Truths
<1>14. CASE DMAWriteDone \/ DMAWriteTimeout
  <2>1. bst = "WaitForDMAWriteDone" /\ bst' = "Idle" /\ dst = "WriteMem"
    <3>1. bst = "WaitForDMAWriteDone" /\ bst' = "Idle"
      BY <1>14 DEF DMAWriteDone, DMAWriteTimeout, Stopped
    <3>. QED BY <1>3, <3>1 DEF Truths, WaitTruth
  <2>2. AddressTruth' /\ WaitTruth' /\ ReadTruth'
    BY <1>2, <2>1 DEF AddressTruth, WaitTruth, ReadTruth
  <2>3. WriteTruth'
    <3>1. CASE DMAWriteDone
      <4>1. phase = "addr" /\ mem' = Programmed(xfer.n)
        BY <1>16, <3>1 DEF DMAWriteDone
      <4>2. InMem(page.addr)' /\ InMem(page.addr + page.size)'
        BY <1>1, <1>2, <1>3, <2>1, <4>1, PageStored
      <4>. QED BY <4>2 DEF WriteTruth
    <3>2. CASE DMAWriteTimeout
      BY <1>3, <3>2 DEF DMAWriteTimeout
    <3>. QED BY <1>14, <3>1, <3>2
  <2>. QED BY <2>2, <2>3 DEF Truths
<1>. QED
  BY <1>2, <1>8, <1>9, <1>10, <1>11, <1>12, <1>13, <1>14, <1>16
     DEF BusOperation, BusWaitEnds, LeftoverIsSent, AddrIsLost

LEMMA NoneCounted ==
    ASSUME NEW n, NEW q \in Seq(Events(n)), Count(q) = 0
    PROVE  NoAnswer(q) /\ ~ Success(q)
<1>1. \A i \in DOMAIN q : q[i] \in Events(n)
  BY LenProperties, ElementOfSeq
<1>2. Positions(q, AnswerEvents) = {}
  BY PositionsFinite, FS_EmptySet DEF Count
<1>3. \A i \in DOMAIN q : q[i] \notin AnswerEvents
  BY <1>2 DEF Positions
<1>4. NoAnswer(q)
  BY <1>1, <1>3, AnswerBySignal DEF NoAnswer
<1>. QED BY <1>4 DEF NoAnswer, Success

\* I2C1DevMgr.  An answer is that of the operation of the state.
LEMMA TruthDev ==
    ASSUME TypesInv, StepInv, TruthInv, DevHandler
    PROVE  TruthInv'
<1>1. /\ QueueTypes /\ BusTypes /\ DevTypes /\ CmdInv /\ RequestInv
      /\ devQ \in Seq(Events(Len(reqs)))
  BY DEF TypesInv, QueueTypes
<1>2. /\ BusFixed /\ cmd = NoCmd /\ devQ # <<>> /\ DevKind
      /\ UNCHANGED <<bst, xfer, phase, ptr, mem, cut, reqs>>
  BY <1>1, DevKinds DEF BusFixed
<1>. DEFINE c == Count(devQ)
            t == Count(Tail(devQ))
            b == IF bst = "Idle" THEN 0 ELSE 1
<1>3. /\ c \in Nat /\ t \in Nat
      /\ First.sig = "BusDone" => t = c - 1
      /\ Tail(devQ) \in Seq(Events(Len(reqs)))
  BY <1>1, <1>2, CountsTail, TailPlaces DEF First
<1>4. /\ Success(Tail(devQ)) => Success(devQ)
      /\ First.sig # "BusDone" => (NoAnswer(Tail(devQ)) <=> NoAnswer(devQ))
      /\ Success1 => Success(devQ)
  BY <1>1, <1>2, QueueTail DEF First, Success1
<1>. HIDE DEF c, t
<1>6. SUFFICES ASSUME synced', Serving', ~ cut' PROVE Truths'
  BY DEF TruthInv, Truths
<1>11. ~ cut
  BY <1>2, <1>6
<1>5. synced /\ Serving =>
         /\ c + b = IF dst \in BusWaits THEN 1 ELSE 0
         /\ Truths
  BY <1>2, <1>3, <1>11 DEF StepInv, InStep, c, TruthInv, Truths
<1>7. CASE IdleRequest \/ \E err, d : Returns(err, d)
  BY <1>6, <1>7 DEF IdleRequest, Returns, BackToIdle, Serving
<1>8. CASE DeferRequest \/ Unhandled
  <2>1. /\ devQ' = Tail(devQ) /\ Req' = Req
        /\ UNCHANGED <<dst, cur, page, timers, synced>>
    BY <1>2, <1>8 DEF DeferRequest, Unhandled, devVars, Req
  <2>2. synced /\ Serving
    BY <1>6, <2>1 DEF Serving
  <2>3. First.sig \notin {"BusDone", "OpTimeout"}
    <3>1. First.sig \in {"BusDone", "OpTimeout"} => First.sig = "BusDone" /\ dst = "PostWriteWait"
      BY <1>8, <2>2 DEF DeferRequest, Unhandled, Event, First, Serving
    <3>2. First.sig = "BusDone" => c # 0
      BY <1>3
    <3>. QED BY <1>3, <1>5, <2>2, <3>1, <3>2 DEF BusWaits
  <2>4. Truths
    BY <1>5, <2>2
  <2>5. ReadTruth'
    BY <1>1, <1>2, <2>1, <2>3, <2>4, ReadTruthTail DEF Truths
  <2>. QED BY <1>2, <1>4, <2>1, <2>3, <2>4, <2>5, TruthKept
<1>9. CASE Writes
  <2>1. /\ dst = "WriteMem" /\ Success1 /\ dst' = "PostWriteWait"
        /\ UNCHANGED <<cur, page, synced>> /\ Req' = Req
    BY <1>2, <1>9 DEF Writes, Req
  <2>2. synced /\ Serving /\ First.sig = "BusDone"
    BY <1>6, <2>1 DEF Serving, Success1
  <2>3. bst' = "Idle"
    BY <1>2, <1>3, <1>5, <2>1, <2>2 DEF BusWaits
  <2>4. AddressTruth' /\ WaitTruth' /\ ReadTruth'
    BY <2>1, <2>3 DEF AddressTruth, WaitTruth, ReadTruth
  <2>5. WriteTruth'
    <3>1. Req.op = "write" => InMem(page.addr) /\ InMem(page.addr + page.size)
      BY <1>4, <1>5, <2>1, <2>2 DEF Truths, WriteTruth
    <3>. QED BY <1>2, <2>1, <3>1 DEF WriteTruth, InMem
  <2>. QED BY <2>4, <2>5 DEF Truths
<1>10. ASSUME NEW s, Continues(s) PROVE Truths'
  <2>1. /\ dst' = s /\ devQ' = Tail(devQ) /\ UNCHANGED cur /\ Req' = Req
        /\ "op" \in timers'
        /\ Begins(s) \/ TurnsPage(s) \/ GoesOn(s)
    BY <1>2, <1>10 DEF Continues, EnterBusWait, Req
  <2>2. CASE Begins(s)
    <3>1. /\ s = "CheckingBus" /\ dst = "ValidateRequest" /\ devErr = "none"
          /\ BusQuiet /\ UNCHANGED page
      BY <1>6, <2>2 DEF Begins
    <3>2. AddressTruth' /\ WaitTruth' /\ ReadTruth'
      BY <1>2, <2>1, <3>1 DEF AddressTruth, WaitTruth, ReadTruth, BusQuiet
    <3>3. Req.op = "write" => page.addr = Req.addr /\ Req.addr \in Nat
      <4>1. Req.addr \in Nat
        BY <1>1, <3>1, Served DEF Addrs
      <4>. QED BY <1>1, <3>1, <4>1 DEF RequestInv, PageOf
    <3>4. WriteTruth'
      BY <2>1, <3>1, <3>3 DEF WriteTruth, InMem
    <3>. QED BY <3>2, <3>4 DEF Truths
  <2>3. CASE TurnsPage(s)
    <3>1. /\ s = "CheckingBus" /\ dst = "PostWriteWait" /\ page' = NextPage
          /\ NextPage.idx <= PagePlan(Req.addr, Req.n).total /\ synced /\ Serving
      BY <1>6, <2>3 DEF TurnsPage, Serving
    <3>2. bst' = "Idle"
      BY <1>2, <1>3, <1>5, <3>1 DEF BusWaits
    <3>3. AddressTruth' /\ WaitTruth' /\ ReadTruth'
      BY <2>1, <3>1, <3>2 DEF AddressTruth, WaitTruth, ReadTruth
    <3>4. page'.addr = page.addr + page.size
      BY <1>1, <3>1, PageTurned
    <3>5. WriteTruth'
      <4>1. Req.op = "write" => InMem(page.addr + page.size)
        BY <1>5, <3>1 DEF Truths, WriteTruth
      <4>2. Req.op = "write" => InMem(page.addr)'
        BY <1>2, <2>1, <3>4, <4>1 DEF InMem
      <4>. QED BY <1>2, <2>1, <3>1, <4>2 DEF WriteTruth
    <3>. QED BY <3>3, <3>5 DEF Truths
  <2>4. CASE GoesOn(s)
    <3>1. /\ Success1 /\ UNCHANGED page /\ synced /\ dst \in BusWaits /\ Serving
          /\ First.sig = "BusDone" /\ s \notin {"CheckingBus", "PostWriteWait"}
      BY <1>6, <2>4 DEF GoesOn, Success1, BusWaits, Serving
    <3>2. t = 0 /\ bst' = "Idle" /\ Truths
      BY <1>2, <1>3, <1>5, <3>1
    <3>3. NoAnswer(devQ') /\ ~ Success(devQ')
      BY <1>3, <2>1, <3>2, NoneCounted DEF t
    <3>4. WaitTruth'
      BY <3>2 DEF WaitTruth
    <3>5. AddressTruth'
      <4>1. dst = "SendInternalAddr" => ptr = Target
        BY <1>4, <3>1, <3>2 DEF Truths, AddressTruth
      <4>2. dst \in {"GenerateStart1", "Send7BitAddrRxMode"} => ptr = Req.addr
        BY <3>2 DEF Truths, AddressTruth
      <4>3. s \in {"GenerateStart1", "Send7BitAddrRxMode", "ReadMem"} => ptr = Req.addr
        BY <2>4, <4>1, <4>2 DEF GoesOn, Target
      <4>. QED BY <1>2, <2>1, <3>3, <4>3 DEF AddressTruth
    <3>6. ReadTruth'
      BY <2>1, <3>3 DEF ReadTruth, NoAnswer
    <3>7. WriteTruth'
      <4>1. Req.op = "write" => InMem(page.addr)
        BY <3>2 DEF Truths, WriteTruth
      <4>2. Req.op = "write" => InMem(page.addr)'
        BY <1>2, <2>1, <3>1, <4>1 DEF InMem
      <4>. QED BY <1>2, <2>1, <3>1, <3>3, <4>2 DEF WriteTruth
    <3>. QED BY <3>4, <3>5, <3>6, <3>7 DEF Truths
  <2>. QED BY <2>1, <2>2, <2>3, <2>4
<1>. QED BY <1>2, <1>7, <1>8, <1>9, <1>10 DEF DevKind

\* Events that are not answers change nothing.
LEMMA TruthOther ==
    ASSUME TruthInv, NEW n, devQ \in Seq(Events(n)), NEW e \in Events(n),
           e.sig # "BusDone", devQ' = Append(devQ, e),
           UNCHANGED <<bst, xfer, phase, ptr, mem, cut, dst, cur, page, synced>>,
           dst # "Idle" => Req' = Req,
           ("op" \in timers => "op" \in timers') \/ e.sig = "OpTimeout"
    PROVE  TruthInv'
<1>1. SUFFICES ASSUME synced, Serving, Truths PROVE Truths'
  <2>1. SUFFICES ASSUME synced', Serving', ~ cut' PROVE Truths'
    BY DEF TruthInv, Truths
  <2>2. synced /\ Serving /\ ~ cut
    BY <2>1 DEF Serving
  <2>. QED BY <1>1, <2>2 DEF TruthInv, Truths
<1>2. Req' = Req
  BY <1>1 DEF Serving
<1>3. (Success(devQ') => Success(devQ)) /\ (NoAnswer(devQ') => NoAnswer(devQ))
  BY QueueAppend
<1>4. ReadTruth'
  BY <1>1, <1>2, ReadTruthAppend DEF Truths
<1>. QED BY <1>1, <1>2, <1>3, <1>4, TruthKept

LEMMA TruthPosted ==
    ASSUME TypesInv, TruthInv, NEW r \in Requests, NEW acc \in {"QPC", "FRT"},
           Posted(r, acc), UNCHANGED <<bst, xfer, phase, ptr, mem, cut, devVars>>
    PROVE  TruthInv'
<1>. DEFINE n == Len(reqs')
            e == [sig |-> "Request", id |-> n]
<1>1. /\ devQ' = Append(devQ, e) /\ e \in RequestEvents(n) /\ devQ \in Seq(Events(n))
      /\ \A i \in 1 .. Len(reqs) : reqs'[i] = reqs[i]
  BY Growth DEF TypesInv
<1>2. e \in Events(n) /\ e.sig = "Request"
  BY <1>1 DEF Events
<1>3. dst # "Idle" => Req' = Req
  BY <1>1 DEF TypesInv, DevTypes, Req, devVars
<1>. HIDE DEF e, n
<1>. QED BY <1>1, <1>2, <1>3, TruthOther DEF devVars

LEMMA TruthTimer ==
    ASSUME TypesInv, TruthInv, NEW t \in Timers, Expires(t)
    PROVE  TruthInv'
<1>1. devQ \in Seq(Events(Len(reqs)))
  BY DEF TypesInv, QueueTypes
<1>. DEFINE e == [sig |-> Timeout[t]]
<1>2. /\ e \in Events(Len(reqs)) /\ e.sig # "BusDone"
      /\ t = "op" => e.sig = "OpTimeout"
  BY TimeoutEvents DEF Timers, Events, OtherEvents
<1>3. /\ devQ' = Append(devQ, e) /\ timers' = timers \ {t} /\ Req' = Req
      /\ UNCHANGED <<bst, xfer, phase, ptr, mem, cut, dst, cur, page, synced>>
  BY DEF Expires, Req
<1>. HIDE DEF e
<1>. QED BY <1>1, <1>2, <1>3, TruthOther

LEMMA TruthNext ==
    ASSUME TypesInv, AimInv, StepInv, TruthInv, [Next]_sysVars
    PROVE  TruthInv'
<1>1. ASSUME NEW r \in Requests, PostRequest(r) PROVE TruthInv'
  BY <1>1, TruthPosted DEF PostRequest
<1>2. CASE TaskReads
  BY <1>2, TruthPosted, SystemAssumption DEF TaskReads
<1>3. CASE EthArrives \/ TaskDrops \/ TaskWakes \/ UNCHANGED sysVars
  <2>1. /\ UNCHANGED <<bst, xfer, phase, ptr, mem, cut, dst, cur, page, reqs, devQ,
                       timers, synced>>
        /\ Req' = Req
    BY <1>3 DEF EthArrives, TaskDrops, TaskWakes, sysVars, vars, busVars, devVars, Req
  <2>2. SUFFICES ASSUME Truths PROVE Truths'
    <3>1. SUFFICES ASSUME synced', Serving', ~ cut' PROVE Truths'
      BY DEF TruthInv, Truths
    <3>2. synced /\ Serving /\ ~ cut
      BY <2>1, <3>1 DEF Serving
    <3>. QED BY <2>2, <3>2 DEF TruthInv, Truths
  <2>3. ReadTruth'
    BY <2>1, <2>2 DEF Truths, ReadTruth, ReadData
  <2>. QED BY <2>1, <2>2, <2>3, TruthKept
<1>4. CASE TimerStep
  BY <1>4, TimerKinds, TruthTimer
<1>. QED
  BY <1>1, <1>2, <1>3, <1>4, TruthBus, TruthDev DEF Next, DevStep, TaskStep

\* The reply to a read whose answer came, or to a write with its last page.
LEMMA ReplyIsReal ==
    ASSUME TypesInv, TruthInv, devQ # <<>>, NEW err, NEW d, Returns(err, d),
           d.bytes = Req.n, Req.n # 0, synced, ~ cut
    PROVE  Real(d)
<1>1. QueueTypes /\ DevTypes /\ RequestInv /\ devQ \in Seq(Events(Len(reqs)))
  BY DEF TypesInv, QueueTypes
<1>2. d # done
  BY <1>1 DEF DevTypes, NoneDone
<1>3. CASE dst = "ReadMem"
  <2>1. First.sig = "BusDone" /\ First.err = "none" /\ d.data = First.data
    BY <1>2, <1>3 DEF Returns
  <2>2. ReadTruth /\ Req.op = "read"
    BY <1>1, <1>3 DEF TruthInv, Serving, RequestInv
  <2>3. First = devQ[1] /\ 1 \in DOMAIN devQ /\ \A j \in DOMAIN devQ : ~ (j < 1)
    <3>1. \A j \in DOMAIN devQ : j \in Nat /\ ~ (j < 1)
      BY <1>1, LenProperties
    <3>. QED BY <1>1, <3>1, TailPlaces DEF First
  <2>4. d.data = ReadData
    BY <1>3, <2>1, <2>2, <2>3 DEF ReadTruth
  <2>. QED BY <2>2, <2>4 DEF Real, ReadData
<1>4. CASE dst = "PostWriteWait"
  <2>1. ~ (NextPage.idx <= PagePlan(Req.addr, Req.n).total)
    BY <1>2, <1>4 DEF Returns, BusWaits
  <2>2. Req.op = "write" /\ Acceptable(Req) /\ InMem(page.addr + page.size)
    BY <1>1, <1>4 DEF TruthInv, WriteTruth, Serving, RequestInv
  <2>3. page.idx = PagePlan(Req.addr, Req.n).total
    <3>. DEFINE total == PagePlan(Req.addr, Req.n).total
    <3>1. page.idx \in 1 .. total /\ total \in Nat
      <4>1. PageOf(Req, page)
        BY <1>1, <1>4, <2>2 DEF RequestInv
      <4>2. Req.addr \in Nat /\ Req.n \in Nat \ {0}
        BY <1>1, <1>4, Served DEF Addrs
      <4>. QED BY <4>1, <4>2, PlanFacts DEF PageOf
    <3>2. NextPage.idx = page.idx + 1
      BY DEF NextPage
    <3>. QED BY <2>1, <3>1, <3>2
  <2>4. page.addr + page.size = Req.addr + Req.n
    BY <1>1, <1>4, <2>2, <2>3, Served
  <2>5. \A a \in Req.addr .. Req.addr + Req.n - 1 : mem[a] = cur
    <3>1. InMem(Req.addr + Req.n)
      BY <2>2, <2>4
    <3>2. Req.addr \in Nat /\ Req.n \in Nat
      BY <1>1, <1>4, Served DEF Addrs
    <3>3. Req.addr + Req.n - 1 = (Req.addr + Req.n) - 1
      BY <3>2
    <3>. QED BY <3>1, <3>3 DEF InMem
  <2>. QED BY <2>2, <2>5 DEF Real
<1>. QED BY <1>2, <1>3, <1>4 DEF Returns

LEMMA RealNext ==
    ASSUME TypesInv, TruthInv, OkIsReal, [Next]_sysVars
    PROVE  OkIsReal'
<1>1. QueueTypes /\ TaskTypes /\ BusTypes /\ DevTypes /\ CmdInv /\ RequestInv
  BY DEF TypesInv
<1>2. UNCHANGED replies => OkIsReal'
  BY DEF OkIsReal
<1>3. ASSUME NEW err, NEW d, Returns(err, d), BusFixed, devQ # <<>> PROVE OkIsReal'
  <2>. DEFINE ok   == err = "none" /\ d.bytes = Req.n /\ Req.n # 0
              real == err = "none" /\ d.bytes = Req.n /\ Real(d)
              e == [id |-> cur, ok |-> ok, real |-> real, synced |-> synced, cut |-> cut]
              m == Len(replies) + 1
  <2>1. replies' = Append(replies, e)
    <3>1. dst # "Idle" /\ Reply(err, d) /\ UNCHANGED reqs
      BY <1>3 DEF Returns, BackToIdle, BusFixed
    <3>. QED BY <1>1, <3>1, OnReply
  <2>2. ok /\ synced /\ ~ cut => real
    BY <1>3, ReplyIsReal
  <2>. HIDE DEF ok, real
  <2>3. e.ok /\ e.synced /\ ~ e.cut => e.real
    BY <2>2
  <2>. HIDE DEF e
  <2>4. /\ DOMAIN replies' = DOMAIN replies \cup {m} /\ replies'[m] = e
        /\ \A i \in DOMAIN replies : replies'[i] = replies[i]
    BY <1>1, <2>1, AppendPlaces DEF QueueTypes
  <2>. HIDE DEF m
  <2>. QED BY <2>3, <2>4, Zenon DEF OkIsReal
<1>4. CASE DevStep
  <2>1. BusFixed /\ devQ # <<>> /\ DevKind
    BY <1>1, <1>4, DevKinds DEF DevStep
  <2>2. IdleRequest \/ DeferRequest \/ Unhandled \/ Writes \/ (\E s : Continues(s))
           => UNCHANGED replies
    BY DEF IdleRequest, DeferRequest, Unhandled, Writes, Continues, devVars
  <2>. QED BY <1>2, <1>3, <2>1, <2>2 DEF DevKind
<1>5. ~ DevStep => UNCHANGED replies
  <2>1. TimerStep => UNCHANGED replies
    BY TimerKinds DEF Expires
  <2>. QED BY <2>1 DEF Next, PostRequest, EthArrives, BusStep, TaskStep, TaskReads,
                        TaskDrops, TaskWakes, sysVars, vars, devVars
<1>. QED BY <1>2, <1>4, <1>5

LEMMA TruthInit ==
    ASSUME Init
    PROVE  TruthInv /\ OkIsReal
BY DEF Init, DevInit, TruthInv, Serving, OkIsReal

\* A reply that reports success and all the bytes tells the truth about the
\* EEPROM, whatever failed, was retried or came late before it, if the bus was
\* quiet when its request began and no DMA write was cut short: what I2C1DevMgr
\* takes for the answer of an operation is the answer of that operation, a late
\* answer to a read is found behind the timeout, and the pages of a write cover it.
THEOREM SuccessIsReal == Spec => []OkIsReal
<1>1. TypesInv /\ AimInv /\ StepInv /\ TruthInv /\ [Next]_sysVars => TruthInv'
  BY TruthNext
<1>2. TypesInv /\ AimInv /\ [Next]_sysVars => AimInv'
  BY AimNext
<1>3. TypesInv /\ StepInv /\ [Next]_sysVars => StepInv'
  BY StepNext
<1>4. TypesInv /\ TruthInv /\ OkIsReal /\ [Next]_sysVars => OkIsReal'
  BY RealNext
<1>5. Init => AimInv /\ StepInv /\ TruthInv /\ OkIsReal
  BY AimInit, StepInit, TruthInit
<1>. QED BY <1>1, <1>2, <1>3, <1>4, <1>5, TypesAlways, PTL DEF Spec
=============================================================================
