---------------------------- MODULE LWIPMgr_proofs ----------------------------
(***************************************************************************)
(* The invariants of LWIPMgr for every number of messages, connections,    *)
(* clients and places in the deferral queue: types, no log message lost or *)
(* repeated however connections come and go, and answers that reach the    *)
(* client that asked.                                                      *)
(***************************************************************************)
EXTENDS LWIPMgr, Places_proofs

(***************************************************************************)
(* What a connection can look like: it has a state if it is one, and only  *)
(* the connection of the log port is ever left with a message.             *)
(***************************************************************************)
EsSound ==
    /\ \A port \in Ports : es[port] # NoEs => es[port].state # "ES_NONE"
    /\ es["sys"].p = 0

TypeInv == LWIPTypeOK /\ EsSound

-----------------------------------------------------------------------------
(* Events and connections *)

Open  == {"ES_ACCEPTED", "ES_RECEIVED", "ES_CLOSING"}
Conns == [conn : 0 .. MaxConns, p : 0 .. MaxLogs, state : {"ES_NONE"} \cup Open]

LEMMA EventKinds ==
    /\ \A e \in Logs : e \in Events /\ e.sig = "DBG_LOG" /\ e.msg \in 1 .. MaxLogs
    /\ \A e \in Replies : e \in Events /\ e.sig = "CLI_SEND_DATA" /\ e.to \in Peers
    /\ \A e \in [sig : Ends] : e \in Events /\ e.sig \in Ends
    /\ Exit \in Events /\ Exit.sig = "Q_EXIT" /\ Exit \notin Logs
    /\ \A e \in Events : e.sig = "DBG_LOG" <=> e \in Logs
    /\ \A e \in Events : e.sig = "CLI_SEND_DATA" <=> e \in Replies
<1>1. \A e \in Logs : e.sig = "DBG_LOG" /\ e.msg \in 1 .. MaxLogs
  BY DEF Logs, Log
<1>2. \A e \in Replies : e.sig = "CLI_SEND_DATA" /\ e.to \in Peers
  BY DEF Replies, Reply
<1>3. \A e \in [sig : Ends] : e.sig \in Ends
  OBVIOUS
<1>4. Exit.sig = "Q_EXIT"
  BY DEF Exit
<1>5. Ends \cap {"DBG_LOG", "CLI_SEND_DATA", "Q_EXIT"} = {}
  BY DEF Ends
<1>6. \A e : e \in Events <=> e \in Logs \/ e \in Replies \/ e = Exit \/ e \in [sig : Ends]
  BY DEF Events
<1>. QED BY <1>1, <1>2, <1>3, <1>4, <1>5, <1>6

LEMMA Typed ==
    ASSUME TypeInv
    PROVE  /\ lwipQ \in Seq(Events) /\ deferred \in Seq(Logs \cup {Exit})
           /\ es \in [Ports -> Conns] /\ wire \in Seq(1 .. MaxLogs)
           /\ unacked \in Nat /\ thrown \subseteq 1 .. MaxLogs
           /\ live = {<<port, es[port].conn>> : port \in {x \in Ports : es[x] # NoEs}}
BY DEF TypeInv, LWIPTypeOK, Conns, Open

\* The event that is handled.
LEMMA HeadEvent ==
    ASSUME TypeInv, NEW sigs, Takes(sigs)
    PROVE  /\ lwipQ # <<>> /\ Head(lwipQ) \in Events /\ Head(lwipQ).sig \in sigs
           /\ Rest \in Seq(Events)
BY Typed, TailPlaces DEF Takes, Rest

\* A step that neither opens nor closes a connection.
LEMMA ConnectionsStay ==
    ASSUME TypeInv, live' = live, es' \in [Ports -> Conns], es'["sys"].p = 0,
           \A port \in Ports :
              IF es[port] = NoEs THEN es'[port] = NoEs
              ELSE es'[port].conn = es[port].conn /\ es'[port].state \in Open
    PROVE  /\ EsSound'
           /\ live' = {<<port, es'[port].conn>> : port \in {x \in Ports : es'[x] # NoEs}}
<1>1. \A port \in Ports : es'[port] # NoEs => es'[port].state # "ES_NONE"
  BY DEF Open
<1>2. \A port \in Ports :
         /\ es'[port] # NoEs <=> es[port] # NoEs
         /\ es[port] # NoEs => es'[port].conn = es[port].conn
  BY DEF Open, NoEs
<1>3. {<<port, es'[port].conn>> : port \in {x \in Ports : es'[x] # NoEs}}
         = {<<port, es[port].conn>> : port \in {x \in Ports : es[x] # NoEs}}
  BY <1>2
<1>. QED BY <1>1, <1>3, Typed DEF EsSound

LEMMA GoneKeepsTypes ==
    ASSUME TypeInv, NEW port \in Ports, es[port] # NoEs, Gone(port)
    PROVE  /\ EsSound' /\ es' \in [Ports -> Conns] /\ unacked' \in Nat
           /\ live' = {<<x, es'[x].conn>> : x \in {y \in Ports : es'[y] # NoEs}}
           /\ thrown' \subseteq 1 .. MaxLogs
<1>1. NoEs \in Conns /\ NoEs.p = 0
  BY LWIPAssumption DEF NoEs, Conns
<1>2. /\ es \in [Ports -> Conns] /\ es' = [es EXCEPT ![port] = NoEs]
      /\ es[port].p \in 0 .. MaxLogs
  BY Typed DEF Gone, Conns
<1>3. /\ es' \in [Ports -> Conns] /\ es'[port] = NoEs
      /\ \A x \in Ports \ {port} : es'[x] = es[x]
  BY <1>1, <1>2
<1>4. EsSound'
  BY <1>1, <1>3 DEF EsSound, TypeInv, Ports
<1>5. live \ {<<port, es[port].conn>>}
         = {<<x, es'[x].conn>> : x \in {y \in Ports : es'[y] # NoEs}}
  BY <1>3, Typed
<1>6. thrown' \subseteq 1 .. MaxLogs
  BY <1>2, Typed DEF Gone, Set
<1>7. unacked' \in Nat
  BY Typed DEF Gone
<1>. QED BY <1>3, <1>4, <1>5, <1>6, <1>7 DEF Gone

LEMMA SendsPendingKeepsTypes ==
    ASSUME TypeInv, NEW state \in Open, NEW n \in Nat, es["log"] # NoEs,
           es["log"].p # 0, SendsPending(state, n), live' = live
    PROVE  /\ EsSound' /\ es' \in [Ports -> Conns] /\ unacked' \in Nat
           /\ live' = {<<x, es'[x].conn>> : x \in {y \in Ports : es'[y] # NoEs}}
           /\ thrown' \subseteq 1 .. MaxLogs /\ wire' \in Seq(1 .. MaxLogs)
<1>1. /\ es \in [Ports -> Conns] /\ "log" \in Ports /\ "sys" \in Ports
      /\ es["log"].p \in 1 .. MaxLogs
  BY Typed, LWIPAssumption DEF Conns, Ports
<1>2. /\ es' \in [Ports -> Conns] /\ es'["sys"] = es["sys"]
      /\ es'["log"].conn = es["log"].conn /\ es'["log"].state = state
  <2>1. \/ es' = [es EXCEPT !["log"].p = 0, !["log"].state = state]
        \/ es' = [es EXCEPT !["log"].state = state]
    BY DEF SendsPending
  <2>2. 0 \in 0 .. MaxLogs
    BY LWIPAssumption
  <2>. QED BY <1>1, <2>1, <2>2 DEF Conns, Open, Ports
<1>3. es'["sys"].p = 0
  BY <1>2 DEF TypeInv, EsSound
<1>4. \A port \in Ports :
         IF es[port] = NoEs THEN es'[port] = NoEs
         ELSE es'[port].conn = es[port].conn /\ es'[port].state \in Open
  <2>1. es["sys"] # NoEs => es["sys"].state \in Open
    BY <1>1 DEF TypeInv, EsSound, Conns
  <2>. QED BY <1>2, <2>1 DEF Ports
<1>5. thrown' \subseteq 1 .. MaxLogs /\ unacked' \in Nat
  BY <1>1, Typed DEF SendsPending
<1>6. wire' \in Seq(1 .. MaxLogs)
  <2>1. Append(wire, es["log"].p) \in Seq(1 .. MaxLogs)
    BY <1>1, Typed, AppendProperties
  <2>. QED BY <2>1, Typed DEF SendsPending
<1>. QED BY <1>2, <1>3, <1>4, <1>5, <1>6, ConnectionsStay

\* Only the message left in the log connection changes.
LEMMA MessageLeft ==
    ASSUME TypeInv, NEW m \in 0 .. MaxLogs, es' = [es EXCEPT !["log"].p = m],
           es["log"] # NoEs, live' = live
    PROVE  /\ es' \in [Ports -> Conns] /\ EsSound'
           /\ live' = {<<x, es'[x].conn>> : x \in {y \in Ports : es'[y] # NoEs}}
<1>0. es \in [Ports -> Conns] /\ "log" \in Ports /\ "sys" \in Ports
  BY Typed DEF Ports
<1>1. /\ es' \in [Ports -> Conns] /\ es'["sys"] = es["sys"]
      /\ es'["log"].conn = es["log"].conn /\ es'["log"].state = es["log"].state
  BY <1>0 DEF Conns, Ports
<1>2. \A port \in Ports : es[port] # NoEs => es[port].state \in Open
  BY <1>0 DEF TypeInv, EsSound, Conns
<1>3. es'["sys"].p = 0
  BY <1>1 DEF TypeInv, EsSound
<1>4. \A port \in Ports :
         IF es[port] = NoEs THEN es'[port] = NoEs
         ELSE es'[port].conn = es[port].conn /\ es'[port].state \in Open
  BY <1>1, <1>2 DEF Ports
<1>. QED BY <1>1, <1>3, <1>4, ConnectionsStay

-----------------------------------------------------------------------------
(* Types *)

LEMMA InitiallyTyped == LWIPInit => TypeInv
<1>. SUFFICES ASSUME LWIPInit PROVE TypeInv
  OBVIOUS
<1>1. NoEs \in Conns /\ NoEs.p = 0 /\ "sys" \in Ports
  BY LWIPAssumption DEF NoEs, Conns, Ports
<1>2. \A port \in Ports : es[port] = NoEs
  BY DEF LWIPInit
<1>3. es \in [Ports -> Conns] /\ EsSound
  BY <1>1, <1>2 DEF LWIPInit, EsSound
<1>4. live = {<<port, es[port].conn>> : port \in {x \in Ports : es[x] # NoEs}}
  BY <1>2 DEF LWIPInit
<1>5. /\ lwipQ \in Seq(Events) /\ deferred \in Seq(Logs \cup {Exit})
      /\ wire \in Seq(1 .. MaxLogs) /\ asking \in Seq(Peers)
      /\ Len(deferred) <= DeferMax
  BY LWIPAssumption, EmptySeq DEF LWIPInit
<1>6. /\ conns \in 0 .. MaxConns /\ posted \in 0 .. MaxLogs
      /\ unacked \in Nat /\ remote \in Peers \cup {"none"} /\ thrown \subseteq 1 .. MaxLogs
  BY LWIPAssumption DEF LWIPInit
<1>7. st \in {"Idle", "Sending"} /\ armed \in BOOLEAN /\ (armed => st = "Sending")
  BY DEF LWIPInit
<1>. QED BY <1>3, <1>4, <1>5, <1>6, <1>7 DEF TypeInv, LWIPTypeOK, Conns, Open

LEMMA DeferredTyped ==
    ASSUME TypeInv, NEW e \in Logs \cup {Exit}
    PROVE  Deferred(e) \in Seq(Logs \cup {Exit}) /\ Len(Deferred(e)) <= DeferMax
<1>1. deferred \in Seq(Logs \cup {Exit}) /\ Len(deferred) \in Nat /\ Len(deferred) <= DeferMax
  BY LenProperties DEF TypeInv, LWIPTypeOK
<1>2. /\ Append(deferred, e) \in Seq(Logs \cup {Exit})
      /\ Len(Append(deferred, e)) = Len(deferred) + 1
  BY <1>1, AppendProperties
<1>. QED BY <1>1, <1>2, LWIPAssumption DEF Deferred

\* The log message at the head of the queue.
LEMMA HeadLog ==
    ASSUME TypeInv, Takes({"DBG_LOG"})
    PROVE  /\ lwipQ # <<>> /\ Head(lwipQ) \in Logs /\ Head(lwipQ).msg \in 1 .. MaxLogs
           /\ Rest \in Seq(Events)
BY HeadEvent, EventKinds

\* What GoIdle does to the two queues.
LEMMA RecallPlaces ==
    ASSUME TypeInv, lwipQ # <<>>, GoIdle
    PROVE  /\ lwipQ' \in Seq(Events) /\ deferred' \in Seq(Logs \cup {Exit})
           /\ Len(deferred') <= DeferMax
           /\ \/ deferred = <<>> /\ deferred' = <<>> /\ lwipQ' = Tail(lwipQ)
              \/ /\ deferred # <<>> /\ deferred' = Tail(deferred)
                 /\ lwipQ' = [lwipQ EXCEPT ![1] = Head(deferred)]
                 /\ Head(deferred) \in Logs \cup {Exit}
<1>1. /\ lwipQ \in Seq(Events) /\ Tail(lwipQ) \in Seq(Events)
      /\ deferred \in Seq(Logs \cup {Exit}) /\ Len(deferred) \in Nat
      /\ Len(deferred) <= DeferMax
  BY Typed, TailPlaces, LenProperties DEF TypeInv, LWIPTypeOK
<1>2. CASE deferred = <<>>
  BY <1>1, <1>2 DEF GoIdle, Rest
<1>3. CASE deferred # <<>>
  <2>1. /\ Head(deferred) \in Logs \cup {Exit} /\ Tail(deferred) \in Seq(Logs \cup {Exit})
        /\ Len(Tail(deferred)) = Len(deferred) - 1
    BY <1>1, <1>3, TailPlaces
  <2>2. Head(deferred) \in Events
    BY <2>1, EventKinds
  <2>3. /\ <<Head(deferred)>> \o Tail(lwipQ) \in Seq(Events)
        /\ <<Head(deferred)>> \o Tail(lwipQ) = [lwipQ EXCEPT ![1] = Head(deferred)]
    BY <1>1, <2>2, FrontPlaces
  <2>4. deferred' = Tail(deferred) /\ lwipQ' = <<Head(deferred)>> \o Tail(lwipQ)
    BY <1>3 DEF GoIdle, Rest
  <2>5. Len(Tail(deferred)) <= DeferMax
    BY <1>1, <2>1, LWIPAssumption
  <2>. QED BY <1>3, <2>1, <2>3, <2>4, <2>5
<1>. QED BY <1>2, <1>3

LEMMA HandlersKeepTypes == ASSUME TypeInv, Handler PROVE TypeInv'
<1>0. /\ es \in [Ports -> Conns] /\ "log" \in Ports /\ "sys" \in Ports
      /\ es["log"].p \in 0 .. MaxLogs /\ 0 \in 0 .. MaxLogs
      /\ wire \in Seq(1 .. MaxLogs) /\ unacked \in Nat /\ thrown \subseteq 1 .. MaxLogs
      /\ Exit \in Logs \cup {Exit}
  BY Typed, LWIPAssumption DEF Conns, Ports
<1>1. CASE IdleIgnoresLog
  BY <1>1, HeadLog DEF IdleIgnoresLog, tcp, udp, TypeInv, LWIPTypeOK, EsSound
<1>2. CASE IdleSendsLog
  <2>1. Head(lwipQ).msg \in 1 .. MaxLogs /\ lwipQ' \in Seq(Events)
    BY <1>2, HeadLog DEF IdleSendsLog
  <2>2. wire' \in Seq(1 .. MaxLogs)
    BY <1>0, <1>2, <2>1, AppendProperties DEF IdleSendsLog
  <2>3. thrown' \subseteq 1 .. MaxLogs
    BY <1>0, <1>2 DEF IdleSendsLog, Set
  <2>4. /\ es' \in [Ports -> Conns] /\ EsSound'
        /\ live' = {<<x, es'[x].conn>> : x \in {y \in Ports : es'[y] # NoEs}}
    BY <1>0, <1>2, MessageLeft DEF IdleSendsLog
  <2>5. unacked' \in Nat
    BY <1>0, <1>2 DEF IdleSendsLog
  <2>6. UNCHANGED <<deferred, st, armed, conns, posted, asking, remote>>
    BY <1>2 DEF IdleSendsLog, udp
  <2>. QED BY <2>1, <2>2, <2>3, <2>4, <2>5, <2>6 DEF TypeInv, LWIPTypeOK, Conns, Open
<1>3. CASE IdleFailsLog
  <2>1. Head(lwipQ).msg \in 1 .. MaxLogs /\ lwipQ' \in Seq(Events)
    BY <1>3, HeadLog DEF IdleFailsLog, GoSending
  <2>2. thrown' \subseteq 1 .. MaxLogs
    BY <1>0, <1>3, <2>1 DEF IdleFailsLog, Set
  <2>3. /\ es' \in [Ports -> Conns] /\ EsSound'
        /\ live' = {<<x, es'[x].conn>> : x \in {y \in Ports : es'[y] # NoEs}}
    <3>1. CASE es' = es
      BY <1>3, <3>1, Typed DEF IdleFailsLog, TypeInv, EsSound
    <3>2. CASE es' = [es EXCEPT !["log"].p = Head(lwipQ).msg]
      <4>1. /\ Head(lwipQ).msg \in 0 .. MaxLogs
            /\ es["log"] # NoEs /\ live' = live
        BY <1>3, <2>1 DEF IdleFailsLog
      <4>. QED BY <3>2, <4>1, MessageLeft
    <3>. QED BY <1>3, <3>1, <3>2 DEF IdleFailsLog
  <2>4. deferred' \in Seq(Logs \cup {Exit}) /\ Len(deferred') <= DeferMax
    BY <1>0, <1>3, DeferredTyped DEF IdleFailsLog, GoSending
  <2>5. /\ UNCHANGED <<conns, posted, asking, remote, wire, unacked>>
        /\ st' = "Sending" /\ armed' = TRUE
    BY <1>3 DEF IdleFailsLog, GoSending, udp
  <2>. QED BY <2>1, <2>2, <2>3, <2>4, <2>5 DEF TypeInv, LWIPTypeOK, Conns, Open
<1>4. CASE SendingDefersLog
  <2>1. Head(lwipQ) \in Logs /\ Head(lwipQ).msg \in 1 .. MaxLogs /\ lwipQ' \in Seq(Events)
    BY <1>4, HeadLog DEF SendingDefersLog
  <2>2. deferred' \in Seq(Logs \cup {Exit}) /\ Len(deferred') <= DeferMax
    BY <1>4, <2>1, DeferredTyped DEF SendingDefersLog
  <2>3. thrown' \subseteq 1 .. MaxLogs
    BY <1>0, <1>4, <2>1 DEF SendingDefersLog
  <2>. QED BY <1>4, <2>1, <2>2, <2>3
       DEF SendingDefersLog, tcp, udp, TypeInv, LWIPTypeOK, EsSound
<1>5. CASE TakesEnd
  <2>1. lwipQ # <<>> /\ Rest \in Seq(Events)
    BY <1>5, HeadEvent DEF TakesEnd
  <2>2. CASE GoIdle
    <3>1. /\ lwipQ' \in Seq(Events) /\ deferred' \in Seq(Logs \cup {Exit})
          /\ Len(deferred') <= DeferMax
      BY <2>1, <2>2, RecallPlaces
    <3>. QED BY <1>5, <2>2, <3>1
         DEF TakesEnd, GoIdle, tcp, udp, logs, TypeInv, LWIPTypeOK, EsSound
  <2>3. CASE lwipQ' = Rest /\ UNCHANGED <<deferred, st, armed>>
    BY <1>5, <2>1, <2>3 DEF TakesEnd, tcp, udp, logs, TypeInv, LWIPTypeOK, EsSound
  <2>. QED BY <1>5, <2>2, <2>3 DEF TakesEnd
<1>6. CASE TakesExit
  <2>1. lwipQ' \in Seq(Events)
    BY <1>6, HeadEvent DEF TakesExit
  <2>2. deferred' \in Seq(Logs \cup {Exit}) /\ Len(deferred') <= DeferMax
    BY <1>0, <1>6, DeferredTyped DEF TakesExit, TypeInv, LWIPTypeOK
  <2>3. armed' \in BOOLEAN /\ (armed' => st' = "Sending")
    BY <1>6 DEF TakesExit, TypeInv, LWIPTypeOK
  <2>. QED BY <1>6, <2>1, <2>2, <2>3
       DEF TakesExit, tcp, udp, logs, TypeInv, LWIPTypeOK, EsSound
<1>7. CASE TakesReply
  BY <1>7, HeadEvent DEF TakesReply, tcp, udp, logs, TypeInv, LWIPTypeOK, EsSound
<1>. QED BY <1>1, <1>2, <1>3, <1>4, <1>5, <1>6, <1>7 DEF Handler

LEMMA ConnectionsKeepTypes ==
    ASSUME TypeInv,
           \/ \E port \in Ports : \/ tcpAccept(port) \/ tcpRecvData(port)
                                  \/ tcpRecvClose(port) \/ tcpError(port)
           \/ tcpSent \/ tcpPoll
    PROVE  TypeInv'
<1>0. /\ es \in [Ports -> Conns] /\ "log" \in Ports /\ "sys" \in Ports
      /\ unacked \in Nat /\ thrown \subseteq 1 .. MaxLogs /\ 0 \in 0 .. MaxLogs
      /\ wire \in Seq(1 .. MaxLogs)
  BY Typed, LWIPAssumption DEF Ports
<1>1. \A port \in Ports : es[port] # NoEs => es[port].state \in Open
  BY <1>0 DEF TypeInv, EsSound, Conns
\* Together with these, the parts below make the invariant.
<1>. DEFINE Kept == UNCHANGED <<deferred, st, armed, remote, asking, posted>>
            New == /\ es' \in [Ports -> Conns] /\ EsSound' /\ unacked' \in Nat
                   /\ live' = {<<x, es'[x].conn>> : x \in {y \in Ports : es'[y] # NoEs}}
                   /\ thrown' \subseteq 1 .. MaxLogs /\ wire' \in Seq(1 .. MaxLogs)
                   /\ conns' \in 0 .. MaxConns /\ lwipQ' \in Seq(Events)
<1>2. ASSUME Kept, New PROVE TypeInv'
  BY <1>2 DEF TypeInv, LWIPTypeOK, Conns, Open
<1>3. conns \in 0 .. MaxConns /\ lwipQ \in Seq(Events)
  BY DEF TypeInv, LWIPTypeOK
<1>. HIDE DEF Kept, New
<1>4. ASSUME NEW port \in Ports, tcpAccept(port) PROVE TypeInv'
  <2>1. conns + 1 \in 0 .. MaxConns /\ conns' = conns + 1
    BY <1>3, <1>4, LWIPAssumption DEF tcpAccept
  <2>. DEFINE c == [conn |-> conns + 1, state |-> "ES_ACCEPTED", p |-> 0]
  <2>2. /\ c \in Conns /\ c.p = 0 /\ c.conn = conns + 1 /\ c.state = "ES_ACCEPTED"
    BY <1>0, <2>1 DEF Conns, Open
  <2>3. /\ es' = [es EXCEPT ![port] = c] /\ es[port] = NoEs
        /\ live' = live \cup {<<port, conns + 1>>}
    BY <1>4 DEF tcpAccept, Free
  <2>. HIDE DEF c
  <2>4. /\ es' \in [Ports -> Conns] /\ es'[port] = c
        /\ \A x \in Ports \ {port} : es'[x] = es[x]
    BY <1>0, <2>2, <2>3
  <2>5. c # NoEs
    BY <2>2 DEF NoEs
  <2>6. EsSound'
    BY <2>2, <2>4 DEF EsSound, TypeInv, Ports
  <2>7. live' = {<<x, es'[x].conn>> : x \in {y \in Ports : es'[y] # NoEs}}
    BY <2>2, <2>3, <2>4, <2>5, Typed
  <2>8. UNCHANGED <<lwipQ, deferred, st, armed, unacked, remote, asking, posted, wire, thrown>>
    BY <1>4 DEF tcpAccept, q, udp, logs
  <2>. QED BY <1>0, <1>2, <1>3, <2>1, <2>4, <2>6, <2>7, <2>8 DEF Kept, New
<1>5. ASSUME NEW port \in Ports, tcpRecvData(port) PROVE TypeInv'
  <2>1. /\ es' = [es EXCEPT ![port].state = "ES_RECEIVED", ![port].p = 0]
        /\ es[port].state = "ES_ACCEPTED" /\ es[port].p \in 0 .. MaxLogs
        /\ thrown' = thrown \cup Set(es[port].p)
        /\ UNCHANGED <<lwipQ, deferred, st, armed, live, unacked, conns, remote,
                       asking, posted, wire>>
    BY <1>0, <1>5 DEF tcpRecvData, q, udp, Conns
  <2>2. /\ es' \in [Ports -> Conns] /\ es'[port].conn = es[port].conn
        /\ es'[port].state = "ES_RECEIVED" /\ es'[port].p = 0
        /\ \A x \in Ports \ {port} : es'[x] = es[x]
    BY <1>0, <2>1 DEF Conns, Open
  <2>3. es[port] # NoEs
    BY <2>1 DEF NoEs
  <2>4. es'["sys"].p = 0
    BY <2>2 DEF TypeInv, EsSound, Ports
  <2>5. \A x \in Ports :
           IF es[x] = NoEs THEN es'[x] = NoEs
           ELSE es'[x].conn = es[x].conn /\ es'[x].state \in Open
    BY <1>1, <2>2, <2>3 DEF Open
  <2>6. /\ EsSound'
        /\ live' = {<<x, es'[x].conn>> : x \in {y \in Ports : es'[y] # NoEs}}
    BY <2>1, <2>2, <2>4, <2>5, ConnectionsStay
  <2>7. thrown' \subseteq 1 .. MaxLogs
    BY <1>0, <2>1 DEF Set
  <2>. QED BY <1>0, <1>2, <1>3, <2>1, <2>2, <2>6, <2>7 DEF Kept, New
<1>6. ASSUME NEW port \in Ports, tcpRecvClose(port) PROVE TypeInv'
  <2>1. /\ es[port] # NoEs
        /\ UNCHANGED <<lwipQ, deferred, st, armed, conns, remote, asking, posted>>
    BY <1>6 DEF tcpRecvClose, q, udp
  <2>2. CASE Gone(port) /\ UNCHANGED wire
    BY <1>0, <1>2, <1>3, <2>1, <2>2, GoneKeepsTypes DEF Kept, New
  <2>3. CASE es[port].p # 0 /\ SendsPending("ES_CLOSING", unacked) /\ UNCHANGED live
    <3>1. port = "log"
      BY <2>3 DEF TypeInv, EsSound, Ports
    <3>2. "ES_CLOSING" \in Open
      BY DEF Open
    <3>. QED BY <1>0, <1>2, <1>3, <2>1, <2>3, <3>1, <3>2, SendsPendingKeepsTypes
         DEF Kept, New
  <2>. QED BY <1>6, <2>2, <2>3 DEF tcpRecvClose
<1>7. ASSUME NEW port \in Ports, tcpError(port) PROVE TypeInv'
  <2>1. /\ es[port] # NoEs /\ Gone(port)
        /\ UNCHANGED <<lwipQ, deferred, st, armed, conns, remote, asking, posted, wire>>
    BY <1>7 DEF tcpError, q, udp
  <2>. QED BY <1>0, <1>2, <1>3, <2>1, GoneKeepsTypes DEF Kept, New
<1>8. CASE tcpSent
  <2>1. UNCHANGED <<deferred, st, armed, conns, remote, asking, posted>>
    BY <1>8 DEF tcpSent, udp
  <2>2. ASSUME es["log"].p # 0, NEW n \in 0 .. unacked - 1,
               SendsPending(es["log"].state, n), UNCHANGED <<lwipQ, live>>
        PROVE  TypeInv'
    <3>1. es["log"] # NoEs
      BY <2>2 DEF NoEs
    <3>2. es["log"].state \in Open /\ n \in Nat
      BY <1>0, <1>1, <2>2, <3>1
    <3>. QED BY <1>0, <1>2, <1>3, <2>1, <2>2, <3>1, <3>2, SendsPendingKeepsTypes
         DEF Kept, New
  <2>3. ASSUME es["log"].p = 0, lwipQ' = Append(lwipQ, [sig |-> "TCP_DONE"]),
               UNCHANGED wire,
               IF es["log"].state = "ES_CLOSING" THEN Gone("log")
               ELSE /\ unacked' \in 0 .. unacked - 1
                    /\ UNCHANGED <<es, live, thrown>>
        PROVE  TypeInv'
    <3>1. [sig |-> "TCP_DONE"] \in Events
      BY DEF Events, Ends
    <3>2. lwipQ' \in Seq(Events)
      BY <1>3, <2>3, <3>1, AppendProperties
    <3>3. CASE es["log"].state = "ES_CLOSING"
      <4>1. es["log"] # NoEs /\ Gone("log")
        BY <2>3, <3>3 DEF NoEs
      <4>. QED BY <1>0, <1>2, <1>3, <2>1, <2>3, <3>2, <4>1, GoneKeepsTypes
           DEF Kept, New
    <3>4. CASE unacked' \in 0 .. unacked - 1 /\ UNCHANGED <<es, live, thrown>>
      <4>1. unacked' \in Nat /\ EsSound'
        BY <1>0, <3>4 DEF TypeInv, EsSound
      <4>. QED BY <1>0, <1>2, <1>3, <2>1, <2>3, <3>2, <3>4, <4>1, Typed DEF Kept, New
    <3>. QED BY <2>3, <3>3, <3>4
  <2>. QED BY <1>8, <2>2, <2>3 DEF tcpSent
<1>9. CASE tcpPoll
  <2>1. /\ es["log"] # NoEs
        /\ UNCHANGED <<lwipQ, deferred, st, armed, conns, remote, asking, posted>>
    BY <1>9 DEF tcpPoll, q, udp
  <2>2. CASE es["log"].p # 0 /\ SendsPending(es["log"].state, unacked) /\ UNCHANGED live
    <3>1. es["log"].state \in Open
      BY <1>0, <1>1, <2>1
    <3>. QED BY <1>0, <1>2, <1>3, <2>1, <2>2, <3>1, SendsPendingKeepsTypes
         DEF Kept, New
  <2>3. CASE Gone("log") /\ UNCHANGED wire
    BY <1>0, <1>2, <1>3, <2>1, <2>3, GoneKeepsTypes DEF Kept, New
  <2>. QED BY <1>9, <2>2, <2>3 DEF tcpPoll
<1>. QED BY <1>4, <1>5, <1>6, <1>7, <1>8, <1>9

LEMMA PostsKeepTypes ==
    ASSUME TypeInv,
           \/ TimerExpires \/ (\E c \in Peers : UdpRx(c)) \/ CommAnswers \/ PostLog
    PROVE  TypeInv'
<1>0. lwipQ \in Seq(Events) /\ asking \in Seq(Peers)
  BY DEF TypeInv, LWIPTypeOK
<1>1. CASE TimerExpires
  <2>1. [sig |-> "TCP_TIMEOUT"] \in Events
    BY DEF Events, Ends
  <2>2. lwipQ' \in Seq(Events)
    BY <1>0, <1>1, <2>1, AppendProperties DEF TimerExpires
  <2>. QED BY <1>1, <2>2 DEF TimerExpires, tcp, udp, logs, TypeInv, LWIPTypeOK, EsSound
<1>2. ASSUME NEW c \in Peers, UdpRx(c) PROVE TypeInv'
  <2>1. asking' \in Seq(Peers)
    BY <1>0, <1>2, AppendProperties DEF UdpRx
  <2>. QED BY <1>2, <2>1 DEF UdpRx, q, tcp, logs, TypeInv, LWIPTypeOK, EsSound
<1>3. CASE CommAnswers
  <2>1. Head(asking) \in Peers /\ asking' \in Seq(Peers)
    BY <1>0, <1>3, TailPlaces DEF CommAnswers
  <2>2. Reply(Head(asking)) \in Events
    BY <2>1 DEF Events, Replies
  <2>3. lwipQ' \in Seq(Events)
    BY <1>0, <1>3, <2>2, AppendProperties DEF CommAnswers
  <2>. QED BY <1>3, <2>1, <2>3 DEF CommAnswers, tcp, logs, TypeInv, LWIPTypeOK, EsSound
<1>4. CASE PostLog
  <2>1. posted' = posted + 1 /\ posted + 1 \in 1 .. MaxLogs
    BY <1>4, LWIPAssumption DEF PostLog, TypeInv, LWIPTypeOK
  <2>2. Log(posted + 1) \in Events
    BY <2>1 DEF Events, Logs
  <2>3. lwipQ' \in Seq(Events)
    BY <1>0, <1>4, <2>2, AppendProperties DEF PostLog
  <2>. QED BY <1>4, <2>1, <2>3 DEF PostLog, tcp, udp, TypeInv, LWIPTypeOK, EsSound
<1>. QED BY <1>1, <1>2, <1>3, <1>4

LEMMA StepKeepsTypes == TypeInv /\ [LWIPNext]_vars => TypeInv'
<1>. SUFFICES ASSUME TypeInv, [LWIPNext]_vars PROVE TypeInv'
  OBVIOUS
<1>1. CASE UNCHANGED vars
  BY <1>1 DEF vars, TypeInv, LWIPTypeOK, EsSound
<1>. QED
  BY <1>1, HandlersKeepTypes, ConnectionsKeepTypes, PostsKeepTypes DEF LWIPNext

(***************************************************************************)
(* The state keeps its types for every bound: the queue and what is        *)
(* deferred hold events of their kinds only, the connections lwIP holds    *)
(* are those of the object's table, and te_TcpSend runs in Sending only.   *)
(***************************************************************************)
THEOREM LWIPTypeCorrect == LWIPSpec => []LWIPTypeOK
<1>1. TypeInv => LWIPTypeOK
  BY DEF TypeInv
<1>. QED BY <1>1, InitiallyTyped, StepKeepsTypes, PTL DEF LWIPSpec

-----------------------------------------------------------------------------
(* Answers *)

\* The queue part of AnswerGoesToAsker, by the kind of the event: the replies
\* in the queue s are for the client r.
Addressed(s, r) == \A i \in DOMAIN s : s[i] \in Replies => s[i].to = r

LEMMA AddressedReplies ==
    ASSUME NEW s \in Seq(Events), NEW r
    PROVE  Addressed(s, r) <=>
              \A i \in DOMAIN s : s[i].sig = "CLI_SEND_DATA" => s[i].to = r
<1>1. \A i \in DOMAIN s : s[i] \in Events
  BY LenProperties
<1>2. \A i \in DOMAIN s : s[i].sig = "CLI_SEND_DATA" <=> s[i] \in Replies
  BY <1>1, EventKinds
<1>. QED BY <1>2 DEF Addressed

LEMMA AddressedAppend ==
    ASSUME NEW s \in Seq(Events), NEW e \in Events, NEW r, Addressed(s, r),
           e \in Replies => e.to = r
    PROVE  Addressed(Append(s, e), r)
BY AppendPlaces DEF Addressed

LEMMA AddressedTail ==
    ASSUME NEW s \in Seq(Events), s # <<>>, NEW r, Addressed(s, r)
    PROVE  Addressed(Tail(s), r)
BY TailPlaces DEF Addressed

\* A recalled event is no reply.
LEMMA AddressedRecall ==
    ASSUME TypeInv, Addressed(lwipQ, remote), lwipQ # <<>>, GoIdle
    PROVE  Addressed(lwipQ', remote)
<1>1. CASE lwipQ' = Tail(lwipQ)
  BY <1>1, Typed, AddressedTail
<1>2. CASE /\ lwipQ' = [lwipQ EXCEPT ![1] = Head(deferred)]
           /\ Head(deferred) \in Logs \cup {Exit}
  <2>1. Head(deferred) \notin Replies
    BY <1>2, EventKinds
  <2>2. \A i \in DOMAIN lwipQ : lwipQ'[i] = IF i = 1 THEN Head(deferred) ELSE lwipQ[i]
    BY <1>2
  <2>3. DOMAIN lwipQ' = DOMAIN lwipQ
    BY <1>2
  <2>. QED BY <2>1, <2>2, <2>3 DEF Addressed
<1>. QED BY <1>1, <1>2, RecallPlaces

LEMMA StepKeepsAnswers ==
    TypeInv /\ AnswerGoesToAsker /\ [LWIPNext]_vars => AnswerGoesToAsker'
<1>. SUFFICES ASSUME TypeInv, AnswerGoesToAsker, [LWIPNext]_vars
              PROVE  AnswerGoesToAsker'
  OBVIOUS
<1>0. /\ TypeInv' /\ Addressed(lwipQ, remote) /\ \A i \in DOMAIN asking : asking[i] = remote
      /\ lwipQ \in Seq(Events) /\ lwipQ' \in Seq(Events)
      /\ asking \in Seq(Peers) /\ Rest = Tail(lwipQ)
  BY StepKeepsTypes, AddressedReplies DEF TypeInv, LWIPTypeOK, Rest, AnswerGoesToAsker
<1>1. ASSUME Addressed(lwipQ', remote), UNCHANGED <<asking, remote>> PROVE AnswerGoesToAsker'
  BY <1>0, <1>1, AddressedReplies DEF AnswerGoesToAsker
<1>2. ASSUME NEW e \in Events \ Replies, lwipQ' = Append(lwipQ, e),
             UNCHANGED <<asking, remote>>
      PROVE  AnswerGoesToAsker'
  BY <1>0, <1>1, <1>2, AddressedAppend
<1>3. CASE Handler
  <2>1. lwipQ # <<>> /\ UNCHANGED <<asking, remote>>
    BY <1>3 DEF Handler, IdleIgnoresLog, IdleSendsLog, IdleFailsLog, SendingDefersLog,
       TakesEnd, TakesExit, TakesReply, Takes, udp
  <2>2. CASE lwipQ' = Rest
    BY <1>0, <1>1, <2>1, <2>2, AddressedTail
  <2>3. CASE GoIdle
    BY <1>0, <1>1, <2>1, <2>3, AddressedRecall
  <2>. QED BY <1>3, <2>2, <2>3 DEF Handler, IdleIgnoresLog, IdleSendsLog,
       IdleFailsLog, GoSending, SendingDefersLog, TakesEnd, TakesExit, TakesReply
<1>4. CASE TimerExpires \/ PostLog
  <2>1. [sig |-> "TCP_TIMEOUT"] \in Events \ Replies
    BY EventKinds DEF Events, Ends
  <2>2. PostLog => Log(posted + 1) \in Events \ Replies
    <3>1. PostLog => posted + 1 \in 1 .. MaxLogs
      BY LWIPAssumption DEF PostLog, TypeInv, LWIPTypeOK
    <3>2. PostLog => Log(posted + 1) \in Logs
      BY <3>1 DEF Logs
    <3>. QED BY <3>2, EventKinds
  <2>. QED BY <1>2, <1>4, <2>1, <2>2 DEF TimerExpires, PostLog, udp
<1>5. CASE tcpSent
  <2>1. UNCHANGED <<asking, remote>>
    BY <1>5 DEF tcpSent, udp
  <2>2. [sig |-> "TCP_DONE"] \in Events \ Replies
    BY EventKinds DEF Events, Ends
  <2>3. lwipQ' = lwipQ \/ lwipQ' = Append(lwipQ, [sig |-> "TCP_DONE"])
    BY <1>5 DEF tcpSent
  <2>. QED BY <1>0, <1>1, <1>2, <2>1, <2>2, <2>3
<1>6. ASSUME NEW c \in Peers, UdpRx(c) PROVE AnswerGoesToAsker'
  <2>1. /\ lwipQ' = lwipQ /\ asking' = Append(asking, c) /\ remote' = c
        /\ remote \in {"none", c}
    BY <1>6 DEF UdpRx, Heard, q
  <2>2. CASE remote = c
    <3>1. \A i \in DOMAIN asking' : asking'[i] = c
      <4>1. /\ DOMAIN Append(asking, c) = DOMAIN asking \cup {Len(asking) + 1}
            /\ Append(asking, c)[Len(asking) + 1] = c
            /\ \A i \in DOMAIN asking : Append(asking, c)[i] = asking[i]
        BY <1>0, AppendPlaces
      <4>. QED BY <1>0, <2>1, <2>2, <4>1
    <3>2. Addressed(lwipQ', remote')
      BY <1>0, <2>1, <2>2
    <3>. QED BY <1>0, <2>1, <3>1, <3>2, AddressedReplies DEF AnswerGoesToAsker
  <2>3. CASE remote = "none"
    \* Nobody has asked yet.
    <3>1. DOMAIN asking = {}
      BY <1>0, <2>3, LWIPAssumption, LenProperties
    <3>2. \A i \in DOMAIN lwipQ : lwipQ[i] \notin Replies
      BY <1>0, <2>3, LWIPAssumption, EventKinds DEF Addressed
    <3>3. \A i \in DOMAIN asking' : asking'[i] = c
      BY <1>0, <2>1, <3>1, AppendPlaces
    <3>4. Addressed(lwipQ', remote')
      BY <2>1, <3>2 DEF Addressed
    <3>. QED BY <1>0, <2>1, <3>3, <3>4, AddressedReplies DEF AnswerGoesToAsker
  <2>. QED BY <2>1, <2>2, <2>3
<1>7. CASE CommAnswers
  <2>1. /\ asking # <<>> /\ lwipQ' = Append(lwipQ, Reply(Head(asking)))
        /\ asking' = Tail(asking) /\ remote' = remote
    BY <1>7 DEF CommAnswers
  <2>2. /\ Head(asking) = asking[1] /\ 1 \in DOMAIN asking /\ Head(asking) \in Peers
        /\ \A i \in DOMAIN Tail(asking) : i + 1 \in DOMAIN asking
                                           /\ Tail(asking)[i] = asking[i + 1]
    BY <1>0, <2>1, TailPlaces
  <2>3. Reply(Head(asking)) \in Events /\ Reply(Head(asking)).to = remote
    BY <1>0, <2>2, EventKinds DEF Replies, Reply
  <2>4. Addressed(lwipQ', remote)
    BY <1>0, <2>1, <2>3, AddressedAppend
  <2>6. \A i \in DOMAIN asking' : asking'[i] = remote'
    BY <1>0, <2>1, <2>2
  <2>. QED BY <1>0, <2>1, <2>4, <2>6, AddressedReplies DEF AnswerGoesToAsker
<1>8. ASSUME NEW port \in Ports,
             \/ tcpAccept(port) \/ tcpRecvData(port) \/ tcpRecvClose(port)
             \/ tcpError(port)
      PROVE  AnswerGoesToAsker'
  BY <1>8 DEF tcpAccept, tcpRecvData, tcpRecvClose, tcpError, q, udp, AnswerGoesToAsker
<1>9. CASE tcpPoll \/ UNCHANGED vars
  BY <1>9 DEF tcpPoll, q, udp, vars, AnswerGoesToAsker
<1>. QED BY <1>3, <1>4, <1>5, <1>6, <1>7, <1>8, <1>9 DEF LWIPNext

(***************************************************************************)
(* An answer is sent to the client that asked, for every number of clients *)
(* and datagrams: upcb stays connected to its first client, and the only   *)
(* messages CommMgr has to answer come from it.                            *)
(***************************************************************************)
THEOREM AnswersReachTheirAsker == LWIPSpec => []AnswerGoesToAsker
<1>1. LWIPInit => AnswerGoesToAsker
  BY DEF LWIPInit, AnswerGoesToAsker
<1>. QED BY <1>1, InitiallyTyped, StepKeepsTypes, StepKeepsAnswers, PTL DEF LWIPSpec

-----------------------------------------------------------------------------
(* Where the log messages are *)

\* n messages, in five places.
Account(A, B, C, D, E, n) ==
    A \cup B \cup C \cup D \cup E = 1 .. n /\ Apart(A, B, C, D, E)

NoneTwice(s) == \A i, j \in DOMAIN s : s[i] = s[j] => i = j

\* NoneLostOrRepeated, with the places written out.
Accounted ==
    /\ Account(Carried(lwipQ, Logs), Carried(deferred, Logs), Set(es["log"].p),
               Sent, thrown, posted)
    /\ OnceIn(lwipQ, Logs) /\ OnceIn(deferred, Logs) /\ NoneTwice(wire)

LEMMA PlacesWrittenOut == Accounted <=> NoneLostOrRepeated
<1>. DEFINE A == Carried(lwipQ, Logs)
            B == Carried(deferred, Logs)
            C == Set(es["log"].p)
<1>1. Whereabouts = <<A, B, C, Sent, thrown>>
  BY DEF Whereabouts
<1>2. Accounted <=>
        /\ Account(A, B, C, Sent, thrown, posted)
        /\ OnceIn(lwipQ, Logs) /\ OnceIn(deferred, Logs) /\ NoneTwice(wire)
  BY DEF Accounted
<1>. HIDE DEF A, B, C
<1>3. EachInOnePlace(1 .. posted, Whereabouts)
        <=> Account(A, B, C, Sent, thrown, posted)
  BY <1>1, FivePlaces DEF Account
<1>. QED BY <1>2, <1>3 DEF NoneLostOrRepeated, NoneTwice

\* The ways messages move.
LEMMA MovesFromQueue ==
    ASSUME NEW A, NEW B, NEW C, NEW D, NEW E, NEW n, NEW m \in A,
           Account(A, B, C, D, E, n)
    PROVE  /\ Account(A \ {m}, B, C, D, E \cup {m}, n)
           /\ Account(A \ {m}, B \cup {m}, C, D, E, n)
           /\ Account(A \ {m}, B, {}, D \cup {m}, E \cup C, n)
           /\ Account(A \ {m}, B, {m}, D, E \cup C, n)
<1>1. A \cup B \cup C \cup D \cup E = 1 .. n /\ Apart(A, B, C, D, E)
  BY DEF Account
<1>2. Account(A \ {m}, B, C, D, E \cup {m}, n)
  BY <1>1 DEF Account, Apart
<1>3. Account(A \ {m}, B \cup {m}, C, D, E, n)
  BY <1>1 DEF Account, Apart
<1>4. Account(A \ {m}, B, {}, D \cup {m}, E \cup C, n)
  BY <1>1 DEF Account, Apart
<1>5. Account(A \ {m}, B, {m}, D, E \cup C, n)
  BY <1>1 DEF Account, Apart
<1>. QED BY <1>2, <1>3, <1>4, <1>5

LEMMA MovesElsewhere ==
    ASSUME NEW A, NEW B, NEW C, NEW D, NEW E, NEW n, Account(A, B, C, D, E, n)
    PROVE  /\ \A m \in B : Account(A \cup {m}, B \ {m}, C, D, E, n) /\ m \notin A
           /\ Account(A, B, {}, D \cup C, E, n)
           /\ Account(A, B, {}, D, E \cup C, n)
<1>1. A \cup B \cup C \cup D \cup E = 1 .. n /\ Apart(A, B, C, D, E)
  BY DEF Account
<1>2. ASSUME NEW m \in B
      PROVE  Account(A \cup {m}, B \ {m}, C, D, E, n) /\ m \notin A
  BY <1>1 DEF Account, Apart
<1>3. Account(A, B, {}, D \cup C, E, n)
  BY <1>1 DEF Account, Apart
<1>4. Account(A, B, {}, D, E \cup C, n)
  BY <1>1 DEF Account, Apart
<1>. QED BY <1>2, <1>3, <1>4

LEMMA SentAppend ==
    ASSUME NEW S, NEW w \in Seq(S), NEW m \in S
    PROVE  /\ {Append(w, m)[i] : i \in DOMAIN Append(w, m)}
                 = {w[i] : i \in DOMAIN w} \cup {m}
           /\ NoneTwice(w) /\ m \notin {w[i] : i \in DOMAIN w}
                => NoneTwice(Append(w, m))
<1>. DEFINE t == Append(w, m)
            n == Len(w) + 1
<1>1. /\ DOMAIN t = DOMAIN w \cup {n} /\ n \notin DOMAIN w /\ t[n] = m
      /\ \A i \in DOMAIN w : t[i] = w[i]
  BY AppendPlaces
<1>. HIDE DEF t, n
<1>2. {t[i] : i \in DOMAIN t} = {w[i] : i \in DOMAIN w} \cup {m}
  BY <1>1
<1>3. NoneTwice(w) /\ m \notin {w[i] : i \in DOMAIN w} => NoneTwice(t)
  BY <1>1 DEF NoneTwice
<1>. QED BY <1>2, <1>3 DEF t

\* What taking the next event does to the messages in the queue.
LEMMA Taken ==
    ASSUME TypeInv, OnceIn(lwipQ, Logs), lwipQ # <<>>
    PROVE  /\ OnceIn(Rest, Logs)
           /\ Head(lwipQ) \in Logs =>
                /\ Carried(Rest, Logs) = Carried(lwipQ, Logs) \ {Head(lwipQ).msg}
                /\ Head(lwipQ).msg \in Carried(lwipQ, Logs)
           /\ Head(lwipQ) \notin Logs => Carried(Rest, Logs) = Carried(lwipQ, Logs)
BY Typed, CarriedTail DEF Rest

\* Deferring the exit event defers no message.
LEMMA ExitDeferred ==
    ASSUME TypeInv
    PROVE  /\ Carried(Deferred(Exit), Logs) = Carried(deferred, Logs)
           /\ OnceIn(deferred, Logs) => OnceIn(Deferred(Exit), Logs)
<1>1. deferred \in Seq(Logs \cup {Exit}) /\ Exit \in Logs \cup {Exit} /\ Exit \notin Logs
  BY Typed, EventKinds
<1>2. /\ Carried(Append(deferred, Exit), Logs) = Carried(deferred, Logs)
      /\ OnceIn(deferred, Logs) => OnceIn(Append(deferred, Exit), Logs)
  BY <1>1, CarriedAppend
<1>. QED BY <1>2 DEF Deferred

LEMMA HandlersKeepAccount == ASSUME TypeInv, Accounted, Handler PROVE Accounted'
<1>. DEFINE A == Carried(lwipQ, Logs)
            B == Carried(deferred, Logs)
            C == Set(es["log"].p)
            m == Head(lwipQ).msg
<1>0. /\ Account(A, B, C, Sent, thrown, posted)
      /\ OnceIn(lwipQ, Logs) /\ OnceIn(deferred, Logs) /\ NoneTwice(wire)
      /\ es \in [Ports -> Conns] /\ "log" \in Ports /\ wire \in Seq(1 .. MaxLogs)
      /\ lwipQ \in Seq(Events) /\ deferred \in Seq(Logs \cup {Exit})
  BY Typed DEF Accounted, Ports
<1>1. lwipQ # <<>>
  BY DEF Handler, IdleIgnoresLog, IdleSendsLog, IdleFailsLog, SendingDefersLog,
     TakesEnd, TakesExit, TakesReply, Takes
<1>2. ASSUME Takes({"DBG_LOG"})
      PROVE  /\ Head(lwipQ) \in Logs /\ m \in A /\ m \in 1 .. MaxLogs
             /\ Carried(Rest, Logs) = A \ {m} /\ OnceIn(Rest, Logs)
  BY <1>0, <1>1, <1>2, HeadLog, Taken
<1>3. ASSUME Head(lwipQ) \notin Logs
      PROVE  Carried(Rest, Logs) = A /\ OnceIn(Rest, Logs)
  BY <1>0, <1>1, <1>3, Taken
<1>4. CASE IdleIgnoresLog
  <2>1. /\ Takes({"DBG_LOG"}) /\ lwipQ' = Rest /\ thrown' = thrown \cup {m}
        /\ UNCHANGED <<deferred, es, wire, posted>>
    BY <1>4 DEF IdleIgnoresLog, tcp
  <2>2. Account(A \ {m}, B, C, Sent, thrown \cup {m}, posted)
    BY <1>0, <1>2, <2>1, MovesFromQueue
  <2>. QED BY <1>0, <1>2, <2>1, <2>2 DEF Accounted, Sent
<1>5. CASE IdleSendsLog
  <2>1. /\ Takes({"DBG_LOG"}) /\ lwipQ' = Rest /\ wire' = Append(wire, m)
        /\ thrown' = thrown \cup C /\ es' = [es EXCEPT !["log"].p = 0]
        /\ UNCHANGED <<deferred, posted>>
    BY <1>5 DEF IdleSendsLog
  <2>2. Account(A \ {m}, B, {}, Sent \cup {m}, thrown \cup C, posted)
    BY <1>0, <1>2, <2>1, MovesFromQueue
  <2>3. m \notin Sent
    BY <1>0, <1>2, <2>1 DEF Account, Apart
  <2>4. Sent' = Sent \cup {m} /\ NoneTwice(wire')
    <3>1. /\ {Append(wire, m)[i] : i \in DOMAIN Append(wire, m)} = Sent \cup {m}
          /\ NoneTwice(Append(wire, m))
      <4>1. m \in 1 .. MaxLogs /\ wire \in Seq(1 .. MaxLogs) /\ NoneTwice(wire)
        BY <1>0, <1>2, <2>1
      <4>2. m \notin {wire[i] : i \in DOMAIN wire}
        BY <2>3 DEF Sent
      <4>. HIDE DEF m
      <4>3. {Append(wire, m)[i] : i \in DOMAIN Append(wire, m)}
               = {wire[i] : i \in DOMAIN wire} \cup {m}
        BY <4>1, SentAppend
      <4>4. NoneTwice(Append(wire, m))
        BY <4>1, <4>2, SentAppend
      <4>. QED BY <4>3, <4>4 DEF Sent
    <3>. QED BY <2>1, <3>1 DEF Sent
  <2>5. es'["log"].p = 0 /\ Set(0) = {}
    BY <1>0, <2>1 DEF Conns, Set
  <2>6. Carried(lwipQ', Logs) = A \ {m} /\ OnceIn(lwipQ', Logs)
    BY <1>2, <2>1
  <2>7. Carried(deferred', Logs) = B /\ Set(es'["log"].p) = {}
    BY <2>1, <2>5
  <2>. HIDE DEF A, B, C, m
  <2>. QED BY <1>0, <2>1, <2>2, <2>4, <2>6, <2>7 DEF Accounted
<1>6. CASE IdleFailsLog
  <2>1. /\ Takes({"DBG_LOG"}) /\ lwipQ' = Rest /\ deferred' = Deferred(Exit)
        /\ UNCHANGED <<posted, wire>>
    BY <1>6 DEF IdleFailsLog, GoSending
  <2>2. /\ Carried(lwipQ', Logs) = A \ {m} /\ OnceIn(lwipQ', Logs)
        /\ Carried(deferred', Logs) = B /\ OnceIn(deferred', Logs)
        /\ m \in A /\ m \in 1 .. MaxLogs /\ Sent' = Sent
    BY <1>0, <1>2, <2>1, ExitDeferred DEF Sent
  <2>3. CASE thrown' = thrown \cup {m} /\ es' = es
    <3>1. Account(A \ {m}, B, C, Sent, thrown \cup {m}, posted)
      BY <1>0, <2>2, MovesFromQueue
    <3>2. Set(es'["log"].p) = C
      BY <2>3
    <3>. HIDE DEF A, B, C, m
    <3>. QED BY <1>0, <2>1, <2>2, <2>3, <3>1, <3>2 DEF Accounted
  <2>4. CASE thrown' = thrown \cup C /\ es' = [es EXCEPT !["log"].p = m]
    <3>1. Account(A \ {m}, B, {m}, Sent, thrown \cup C, posted)
      BY <1>0, <2>2, MovesFromQueue
    <3>2. Set(es'["log"].p) = {m}
      <4>1. es'["log"].p = m
        BY <1>0, <2>4 DEF Conns
      <4>2. m # 0
        BY <2>2, LWIPAssumption
      <4>. QED BY <4>1, <4>2 DEF Set
    <3>. HIDE DEF A, B, C, m
    <3>. QED BY <1>0, <2>1, <2>2, <2>4, <3>1, <3>2 DEF Accounted
  <2>. QED BY <1>6, <2>3, <2>4 DEF IdleFailsLog
<1>7. CASE SendingDefersLog
  <2>1. /\ Takes({"DBG_LOG"}) /\ lwipQ' = Rest
        /\ UNCHANGED <<posted, wire, es>>
    BY <1>7 DEF SendingDefersLog, tcp
  <2>2. /\ Carried(lwipQ', Logs) = A \ {m} /\ OnceIn(lwipQ', Logs)
        /\ m \in A /\ Head(lwipQ) \in Logs /\ Sent' = Sent
        /\ Set(es'["log"].p) = C
    BY <1>2, <2>1 DEF Sent
  <2>3. CASE deferred' = Append(deferred, Head(lwipQ)) /\ thrown' = thrown
    <3>1. Account(A \ {m}, B \cup {m}, C, Sent, thrown, posted)
      BY <1>0, <2>2, MovesFromQueue
    <3>2. m \notin B
      BY <1>0, <2>2 DEF Account, Apart
    <3>3. Carried(deferred', Logs) = B \cup {m} /\ OnceIn(deferred', Logs)
      <4>. DEFINE e == Head(lwipQ)
      <4>1. /\ deferred \in Seq(Logs \cup {Exit}) /\ e \in Logs \cup {Exit} /\ e \in Logs
            /\ OnceIn(deferred, Logs) /\ e.msg \notin Carried(deferred, Logs)
            /\ deferred' = Append(deferred, e)
        BY <1>0, <2>2, <2>3, <3>2
      <4>. HIDE DEF e
      <4>2. /\ Carried(Append(deferred, e), Logs) = Carried(deferred, Logs) \cup {e.msg}
            /\ OnceIn(Append(deferred, e), Logs)
        BY <4>1, CarriedAppend
      <4>. QED BY <4>1, <4>2 DEF e
    <3>. HIDE DEF A, B, C, m
    <3>. QED BY <1>0, <2>1, <2>2, <2>3, <3>1, <3>3 DEF Accounted
  <2>4. CASE deferred' = deferred /\ thrown' = thrown \cup {m}
    <3>1. Account(A \ {m}, B, C, Sent, thrown \cup {m}, posted)
      BY <1>0, <2>2, MovesFromQueue
    <3>2. Carried(deferred', Logs) = B
      BY <2>4
    <3>. HIDE DEF A, B, C, m
    <3>. QED BY <1>0, <2>1, <2>2, <2>4, <3>1, <3>2 DEF Accounted
  <2>. QED BY <1>7, <2>3, <2>4 DEF SendingDefersLog, Deferred
<1>8. CASE TakesEnd
  <2>1. /\ Head(lwipQ) \notin Logs /\ UNCHANGED <<es, wire, thrown, posted>>
    BY <1>8, HeadEvent, EventKinds DEF TakesEnd, tcp, logs, Ends
  <2>2. /\ Carried(Rest, Logs) = A /\ OnceIn(Rest, Logs) /\ Rest = Tail(lwipQ)
        /\ Sent' = Sent /\ Set(es'["log"].p) = C
    BY <1>3, <2>1 DEF Rest, Sent
  <2>3. CASE lwipQ' = Rest /\ deferred' = deferred
    BY <1>0, <2>1, <2>2, <2>3 DEF Accounted
  <2>4. CASE GoIdle
    <3>1. CASE deferred = <<>> /\ deferred' = <<>> /\ lwipQ' = Tail(lwipQ)
      BY <2>2, <2>3, <3>1
    <3>2. CASE /\ deferred # <<>> /\ deferred' = Tail(deferred)
               /\ lwipQ' = [lwipQ EXCEPT ![1] = Head(deferred)]
               /\ Head(deferred) \in Logs \cup {Exit}
      <4>. DEFINE e == Head(deferred)
      <4>1. /\ OnceIn(deferred', Logs)
            /\ e \notin Logs => Carried(deferred', Logs) = B
            /\ e \in Logs => Carried(deferred', Logs) = B \ {e.msg} /\ e.msg \in B
        BY <1>0, <3>2, CarriedTail
      <4>2. e \in Events /\ lwipQ' = [lwipQ EXCEPT ![1] = e]
        BY <3>2, EventKinds
      <4>3. CASE e \in Logs
        <5>1. /\ Account(A \cup {e.msg}, B \ {e.msg}, C, Sent, thrown, posted)
              /\ e.msg \notin A
          BY <1>0, <4>1, <4>3, MovesElsewhere
        <5>2. Carried(lwipQ', Logs) = A \cup {e.msg} /\ OnceIn(lwipQ', Logs)
          <6>1. /\ lwipQ \in Seq(Events) /\ lwipQ # <<>> /\ e \in Events /\ e \in Logs
                /\ OnceIn(lwipQ, Logs) /\ Head(lwipQ) \notin Logs
                /\ e.msg \notin Carried(lwipQ, Logs)
            BY <1>0, <1>1, <2>1, <4>2, <4>3, <5>1
          <6>. HIDE DEF e
          <6>2. /\ Carried([lwipQ EXCEPT ![1] = e], Logs) = Carried(lwipQ, Logs) \cup {e.msg}
                /\ OnceIn([lwipQ EXCEPT ![1] = e], Logs)
            BY <6>1, CarriedFront
          <6>. QED BY <4>2, <6>2
        <5>. HIDE DEF A, B, C, e
        <5>. QED BY <1>0, <2>1, <2>2, <4>1, <4>3, <5>1, <5>2 DEF Accounted
      <4>4. CASE e \notin Logs
        <5>1. Carried(lwipQ', Logs) = A /\ OnceIn(lwipQ', Logs)
          BY <1>0, <1>1, <2>1, <4>2, <4>4, CarriedFrontOther
        <5>. HIDE DEF A, B, C, e
        <5>. QED BY <1>0, <2>1, <2>2, <4>1, <4>4, <5>1 DEF Accounted
      <4>. QED BY <4>3, <4>4
    <3>. QED BY <1>1, <2>4, <3>1, <3>2, RecallPlaces
  <2>. QED BY <1>8, <2>3, <2>4 DEF TakesEnd
<1>9. CASE TakesExit
  <2>1. /\ Head(lwipQ) \notin Logs /\ lwipQ' = Rest
        /\ UNCHANGED <<es, wire, thrown, posted>>
        /\ deferred' = deferred \/ deferred' = Deferred(Exit)
    BY <1>9, HeadEvent, EventKinds DEF TakesExit, tcp, logs
  <2>2. Carried(deferred', Logs) = B /\ OnceIn(deferred', Logs)
    BY <1>0, <2>1, ExitDeferred
  <2>3. Carried(lwipQ', Logs) = A /\ OnceIn(lwipQ', Logs) /\ Sent' = Sent
        /\ Set(es'["log"].p) = C
    BY <1>3, <2>1 DEF Sent
  <2>. HIDE DEF A, B, C
  <2>. QED BY <1>0, <2>1, <2>2, <2>3 DEF Accounted
<1>10. CASE TakesReply
  <2>1. /\ Head(lwipQ) \notin Logs /\ lwipQ' = Rest
        /\ UNCHANGED <<es, wire, thrown, posted, deferred>>
    BY <1>10, HeadEvent, EventKinds DEF TakesReply, tcp, logs
  <2>2. Carried(lwipQ', Logs) = A /\ OnceIn(lwipQ', Logs) /\ Sent' = Sent
        /\ Set(es'["log"].p) = C /\ Carried(deferred', Logs) = B
    BY <1>3, <2>1 DEF Sent
  <2>. HIDE DEF A, B, C
  <2>. QED BY <1>0, <2>1, <2>2 DEF Accounted
<1>. QED BY <1>4, <1>5, <1>6, <1>7, <1>8, <1>9, <1>10 DEF Handler

LEMMA GoneKeepsAccount ==
    ASSUME TypeInv, Accounted, NEW port \in Ports, Gone(port),
           Carried(lwipQ', Logs) = Carried(lwipQ, Logs), OnceIn(lwipQ', Logs),
           UNCHANGED <<deferred, wire, posted>>
    PROVE  Accounted'
<1>. DEFINE A == Carried(lwipQ, Logs)
            B == Carried(deferred, Logs)
            C == Set(es["log"].p)
<1>0. /\ Account(A, B, C, Sent, thrown, posted)
      /\ OnceIn(deferred, Logs) /\ NoneTwice(wire)
      /\ es \in [Ports -> Conns] /\ Ports = {"log", "sys"} /\ es["sys"].p = 0
      /\ Set(0) = {} /\ NoEs.p = 0
  BY Typed DEF Accounted, Ports, TypeInv, EsSound, Set, NoEs
<1>1. /\ es' = [es EXCEPT ![port] = NoEs] /\ thrown' = thrown \cup Set(es[port].p)
      /\ Sent' = Sent
  BY DEF Gone, Sent
<1>2. CASE port = "log"
  <2>1. Set(es'["log"].p) = {} /\ thrown' = thrown \cup C
    BY <1>0, <1>1, <1>2
  <2>2. Account(A, B, {}, Sent, thrown \cup C, posted)
    BY <1>0, MovesElsewhere
  <2>. HIDE DEF C
  <2>. QED BY <1>0, <1>1, <2>1, <2>2 DEF Accounted
<1>3. CASE port = "sys"
  <2>1. Set(es'["log"].p) = C /\ thrown' = thrown
    BY <1>0, <1>1, <1>3
  <2>. HIDE DEF C
  <2>. QED BY <1>0, <1>1, <2>1 DEF Accounted
<1>. QED BY <1>0, <1>2, <1>3

LEMMA SendsPendingKeepsAccount ==
    ASSUME TypeInv, Accounted, NEW state, NEW n, SendsPending(state, n),
           es["log"].p # 0, UNCHANGED <<lwipQ, deferred, posted>>
    PROVE  Accounted'
<1>. DEFINE A == Carried(lwipQ, Logs)
            B == Carried(deferred, Logs)
            m == es["log"].p
<1>0. /\ Account(A, B, {m}, Sent, thrown, posted) /\ Set(m) = {m}
      /\ OnceIn(lwipQ, Logs) /\ OnceIn(deferred, Logs) /\ NoneTwice(wire)
      /\ es \in [Ports -> Conns] /\ "log" \in Ports /\ Set(0) = {}
      /\ wire \in Seq(1 .. MaxLogs) /\ m \in 1 .. MaxLogs
  <2>1. Set(m) = {m} /\ Set(0) = {}
    BY DEF Set
  <2>2. /\ es \in [Ports -> Conns] /\ "log" \in Ports /\ wire \in Seq(1 .. MaxLogs)
    BY Typed DEF Ports
  <2>3. m \in 1 .. MaxLogs
    BY <2>2, LWIPAssumption DEF Conns
  <2>. HIDE DEF m
  <2>. QED BY <2>1, <2>2, <2>3 DEF Accounted, m
<1>1. CASE /\ wire' = Append(wire, m) /\ thrown' = thrown
           /\ es' = [es EXCEPT !["log"].p = 0, !["log"].state = state]
  <2>1. Set(es'["log"].p) = {}
    BY <1>0, <1>1 DEF Conns
  <2>2. Account(A, B, {}, Sent \cup {m}, thrown, posted)
    BY <1>0, MovesElsewhere
  <2>3. m \notin {wire[i] : i \in DOMAIN wire}
    BY <1>0 DEF Account, Apart, Sent
  <2>. HIDE DEF m
  <2>4. {Append(wire, m)[i] : i \in DOMAIN Append(wire, m)}
           = {wire[i] : i \in DOMAIN wire} \cup {m}
    <3>1. wire \in Seq(1 .. MaxLogs) /\ m \in 1 .. MaxLogs
      BY <1>0
    <3>. QED BY <3>1, SentAppend
  <2>5. NoneTwice(Append(wire, m))
    BY <1>0, <2>3, SentAppend
  <2>6. Sent' = Sent \cup {m} /\ NoneTwice(wire')
    BY <1>1, <2>4, <2>5 DEF Sent
  <2>. QED BY <1>0, <1>1, <2>1, <2>2, <2>6 DEF Accounted
<1>2. CASE /\ thrown' = thrown \cup {m} /\ wire' = wire
           /\ es' = [es EXCEPT !["log"].p = 0, !["log"].state = state]
  <2>1. Set(es'["log"].p) = {} /\ Sent' = Sent
    BY <1>0, <1>2 DEF Conns, Sent
  <2>2. Account(A, B, {}, Sent, thrown \cup {m}, posted)
    BY <1>0, MovesElsewhere
  <2>. HIDE DEF m
  <2>. QED BY <1>0, <1>2, <2>1, <2>2 DEF Accounted
<1>3. CASE es' = [es EXCEPT !["log"].state = state] /\ thrown' = thrown /\ wire' = wire
  <2>1. Set(es'["log"].p) = {m} /\ Sent' = Sent
    BY <1>0, <1>3 DEF Conns, Sent
  <2>. HIDE DEF m
  <2>. QED BY <1>0, <1>3, <2>1 DEF Accounted
<1>. QED BY <1>1, <1>2, <1>3 DEF SendsPending

LEMMA ConnectionsKeepAccount ==
    ASSUME TypeInv, Accounted,
           \/ \E port \in Ports : \/ tcpAccept(port) \/ tcpRecvData(port)
                                  \/ tcpRecvClose(port) \/ tcpError(port)
           \/ tcpSent \/ tcpPoll
    PROVE  Accounted'
<1>. DEFINE A == Carried(lwipQ, Logs)
            B == Carried(deferred, Logs)
            C == Set(es["log"].p)
<1>0. /\ Account(A, B, C, Sent, thrown, posted)
      /\ OnceIn(lwipQ, Logs) /\ OnceIn(deferred, Logs) /\ NoneTwice(wire)
      /\ es \in [Ports -> Conns] /\ Ports = {"log", "sys"} /\ es["sys"].p = 0
      /\ Set(0) = {} /\ NoEs.p = 0 /\ lwipQ \in Seq(Events)
  BY Typed DEF Accounted, Ports, TypeInv, EsSound, Set, NoEs
<1>1. ASSUME NEW port \in Ports, tcpAccept(port) PROVE Accounted'
  <2>1. UNCHANGED <<lwipQ, deferred, wire, posted, thrown>>
    BY <1>1 DEF tcpAccept, q, logs
  <2>2. es[port].p = 0 /\ es'[port].p = 0 /\ \A x \in Ports \ {port} : es'[x] = es[x]
    BY <1>0, <1>1 DEF tcpAccept, Free
  <2>3. es'["log"].p = es["log"].p
    BY <1>0, <2>2
  <2>. QED BY <2>1, <2>3 DEF Accounted, Sent
<1>2. ASSUME NEW port \in Ports, tcpRecvData(port) PROVE Accounted'
  <2>1. /\ UNCHANGED <<lwipQ, deferred, wire, posted>>
        /\ es' = [es EXCEPT ![port].state = "ES_RECEIVED", ![port].p = 0]
        /\ thrown' = thrown \cup Set(es[port].p) /\ Sent' = Sent
    BY <1>2 DEF tcpRecvData, q, Sent
  <2>2. CASE port = "log"
    <3>1. Set(es'["log"].p) = {} /\ thrown' = thrown \cup C
      BY <1>0, <2>1, <2>2 DEF Conns
    <3>2. Account(A, B, {}, Sent, thrown \cup C, posted)
      BY <1>0, MovesElsewhere
    <3>. HIDE DEF C
    <3>. QED BY <1>0, <2>1, <3>1, <3>2 DEF Accounted
  <2>3. CASE port = "sys"
    <3>1. Set(es'["log"].p) = C /\ thrown' = thrown
      BY <1>0, <2>1, <2>3 DEF Conns
    <3>. HIDE DEF C
    <3>. QED BY <1>0, <2>1, <3>1 DEF Accounted
  <2>. QED BY <1>0, <2>2, <2>3
<1>3. ASSUME NEW port \in Ports, tcpRecvClose(port) PROVE Accounted'
  <2>1. UNCHANGED <<lwipQ, deferred, posted>>
    BY <1>3 DEF tcpRecvClose, q
  <2>2. CASE Gone(port) /\ UNCHANGED wire
    BY <1>0, <2>1, <2>2, GoneKeepsAccount
  <2>3. CASE es[port].p # 0 /\ SendsPending("ES_CLOSING", unacked)
    BY <1>0, <2>1, <2>3, SendsPendingKeepsAccount
  <2>. QED BY <1>3, <2>2, <2>3 DEF tcpRecvClose
<1>4. ASSUME NEW port \in Ports, tcpError(port) PROVE Accounted'
  BY <1>0, <1>4, GoneKeepsAccount DEF tcpError, q
<1>5. CASE tcpSent
  <2>1. UNCHANGED <<deferred, posted>>
    BY <1>5 DEF tcpSent
  <2>2. ASSUME es["log"].p # 0, NEW n \in 0 .. unacked - 1,
               SendsPending(es["log"].state, n), UNCHANGED lwipQ
        PROVE  Accounted'
    BY <2>1, <2>2, SendsPendingKeepsAccount
  <2>3. ASSUME lwipQ' = Append(lwipQ, [sig |-> "TCP_DONE"]), UNCHANGED wire,
               Gone("log") \/ UNCHANGED <<es, thrown>>
        PROVE  Accounted'
    <3>1. [sig |-> "TCP_DONE"] \in Events /\ [sig |-> "TCP_DONE"] \notin Logs
      BY EventKinds DEF Events, Ends
    <3>2. Carried(lwipQ', Logs) = A /\ OnceIn(lwipQ', Logs)
      BY <1>0, <2>3, <3>1, CarriedAppend
    <3>3. CASE Gone("log")
      BY <1>0, <2>1, <2>3, <3>2, <3>3, GoneKeepsAccount
    <3>4. CASE UNCHANGED <<es, thrown>>
      BY <1>0, <2>1, <2>3, <3>2, <3>4 DEF Accounted, Sent
    <3>. QED BY <2>3, <3>3, <3>4
  <2>. QED BY <1>5, <2>2, <2>3 DEF tcpSent
<1>6. CASE tcpPoll
  <2>1. UNCHANGED <<lwipQ, deferred, posted>>
    BY <1>6 DEF tcpPoll, q
  <2>2. CASE es["log"].p # 0 /\ SendsPending(es["log"].state, unacked)
    BY <2>1, <2>2, SendsPendingKeepsAccount
  <2>3. CASE Gone("log") /\ UNCHANGED wire
    BY <1>0, <2>1, <2>3, GoneKeepsAccount
  <2>. QED BY <1>6, <2>2, <2>3 DEF tcpPoll
<1>. QED BY <1>1, <1>2, <1>3, <1>4, <1>5, <1>6

LEMMA PostsKeepAccount ==
    ASSUME TypeInv, Accounted,
           \/ TimerExpires \/ (\E c \in Peers : UdpRx(c)) \/ CommAnswers \/ PostLog
    PROVE  Accounted'
<1>. DEFINE A == Carried(lwipQ, Logs)
            B == Carried(deferred, Logs)
            C == Set(es["log"].p)
<1>0. /\ Account(A, B, C, Sent, thrown, posted)
      /\ OnceIn(lwipQ, Logs) /\ lwipQ \in Seq(Events) /\ asking \in Seq(Peers)
      /\ posted \in 0 .. MaxLogs
  BY DEF Accounted, TypeInv, LWIPTypeOK
<1>1. ASSUME NEW e \in Events \ Logs, lwipQ' = Append(lwipQ, e),
             UNCHANGED <<deferred, es, wire, thrown, posted>>
      PROVE  Accounted'
  <2>1. Carried(lwipQ', Logs) = A /\ OnceIn(lwipQ', Logs)
    BY <1>0, <1>1, CarriedAppend
  <2>. QED BY <1>1, <2>1 DEF Accounted, Sent
<1>2. CASE TimerExpires
  <2>1. [sig |-> "TCP_TIMEOUT"] \in Events \ Logs
    BY EventKinds DEF Events, Ends
  <2>. QED BY <1>1, <1>2, <2>1 DEF TimerExpires, tcp, logs
<1>3. ASSUME NEW c \in Peers, UdpRx(c) PROVE Accounted'
  BY <1>3 DEF UdpRx, q, tcp, logs, Accounted, Sent
<1>4. CASE CommAnswers
  <2>1. Head(asking) \in Peers
    BY <1>0, <1>4, TailPlaces DEF CommAnswers
  <2>2. Reply(Head(asking)) \in Replies
    BY <2>1 DEF Replies
  <2>3. Reply(Head(asking)) \in Events \ Logs
    BY <2>2, EventKinds
  <2>. QED BY <1>1, <1>4, <2>3 DEF CommAnswers, tcp, logs
<1>5. CASE PostLog
  <2>. DEFINE e == Log(posted + 1)
  <2>1. posted' = posted + 1 /\ posted + 1 \in 1 .. MaxLogs /\ posted \in Nat
        /\ UNCHANGED <<deferred, es, wire, thrown>> /\ Sent' = Sent
    BY <1>0, <1>5, LWIPAssumption DEF PostLog, tcp, Sent
  <2>2. e \in Logs /\ e \in Events /\ e.msg = posted + 1
    BY <2>1, EventKinds DEF Logs, Log
  <2>3. lwipQ' = Append(lwipQ, e)
    BY <1>5 DEF PostLog
  <2>. HIDE DEF e
  <2>4. /\ A \cup B \cup C \cup Sent \cup thrown = 1 .. posted
        /\ Apart(A, B, C, Sent, thrown)
        /\ 1 .. posted + 1 = 1 .. posted \cup {posted + 1} /\ posted + 1 \notin 1 .. posted
    BY <1>0, <2>1 DEF Account
  <2>5. Carried(lwipQ', Logs) = A \cup {posted + 1} /\ OnceIn(lwipQ', Logs)
    BY <1>0, <2>2, <2>3, <2>4, CarriedAppend
  <2>. HIDE DEF A, B, C
  <2>6. Account(A \cup {posted + 1}, B, C, Sent, thrown, posted + 1)
    BY <2>4 DEF Account, Apart
  <2>. QED BY <2>1, <2>5, <2>6 DEF Accounted, B, C
<1>. QED BY <1>2, <1>3, <1>4, <1>5

LEMMA StepKeepsAccount == TypeInv /\ Accounted /\ [LWIPNext]_vars => Accounted'
<1>. SUFFICES ASSUME TypeInv, Accounted, [LWIPNext]_vars PROVE Accounted'
  OBVIOUS
<1>1. CASE UNCHANGED vars
  BY <1>1 DEF vars, Accounted, Sent
<1>. QED
  BY <1>1, HandlersKeepAccount, ConnectionsKeepAccount, PostsKeepAccount DEF LWIPNext

LEMMA InitiallyAccounted == LWIPInit => Accounted
<1>. SUFFICES ASSUME LWIPInit PROVE Accounted
  OBVIOUS
<1>1. \A P : Positions(<<>>, P) = {}
  BY DEF Positions
<1>2. \A P : Carried(<<>>, P) = {} /\ OnceIn(<<>>, P)
  BY <1>1 DEF Carried, OnceIn
<1>3. /\ lwipQ = <<>> /\ deferred = <<>> /\ wire = <<>> /\ thrown = {} /\ posted = 0
      /\ es["log"] = NoEs
  BY DEF LWIPInit, Ports
<1>4. Set(es["log"].p) = {} /\ Sent = {} /\ NoneTwice(wire)
  BY <1>3 DEF Set, NoEs, Sent, NoneTwice
<1>. QED BY <1>2, <1>3, <1>4 DEF Accounted, Account, Apart

(***************************************************************************)
(* No log message is lost or repeated, for every number of messages and    *)
(* connections and every length of the deferral queue: each is queued,     *)
(* deferred, left over in its connection, given to lwIP, or dropped, and   *)
(* in one of them only, whichever callback or handler a connection that    *)
(* closes, fails or is refused gets in between.                            *)
(***************************************************************************)
THEOREM LogsAccountedFor == LWIPSpec => []NoneLostOrRepeated
BY InitiallyTyped, StepKeepsTypes, InitiallyAccounted, StepKeepsAccount,
   PlacesWrittenOut, PTL DEF LWIPSpec
=============================================================================
