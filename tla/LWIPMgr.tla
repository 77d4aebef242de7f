------------------------------ MODULE LWIPMgr ------------------------------
(***************************************************************************)
(* The Ethernet port: the LWIPMgr active object and the callbacks that     *)
(* lwIP makes to it (Common/bsp/qpc_lwip_port/LWIPMgr.c).                  *)
(*                                                                         *)
(* Log messages go to the one TCP connection of the log port, CommMgr's    *)
(* messages to the client of the UDP port.  When a log message cannot be   *)
(* sent, Idle is left for Sending until lwIP reports that data was         *)
(* acknowledged or a timer expires, and log messages are deferred.         *)
(*                                                                         *)
(* The exit action of Idle defers "e" so that what could not be sent is    *)
(* tried again; but the event of an exit action is Q_EXIT_SIG.  It joins   *)
(* the deferred messages, and when it is recalled Idle takes it for an     *)
(* exit action and defers it once more.                                    *)
(*                                                                         *)
(* A message lwIP did not take leaves its connection with a pointer to the *)
(* buffer, which is freed.  The callbacks send it from there: what they    *)
(* send is that message, or whatever the buffer is used for by then.       *)
(*                                                                         *)
(* The callbacks run in the object's own context, from LWIP_RX_READY_SIG   *)
(* and LWIP_SLOW_TICK_SIG, which every state handles alike.                *)
(***************************************************************************)
EXTENDS Integers, Sequences, FiniteSets, Places

CONSTANTS
    MaxLogs,     \* bound: log messages in a behaviour
    MaxConns,    \* bound: TCP connections in a behaviour
    MaxFails,    \* bound: messages that cannot be sent
    MaxAsks,     \* bound: datagrams of the UDP clients
    DeferMax,    \* events the deferral queue takes (101 in the code)
    Peers        \* addresses of UDP clients

ASSUME LWIPAssumption ==
    /\ {MaxLogs, MaxConns, MaxFails, MaxAsks, DeferMax} \subseteq Nat
    /\ "none" \notin Peers

VARIABLES
    lwipQ,       \* event queue of the active object
    deferred,    \* deferredEvtQueue
    st,          \* leaf state: Idle or Sending
    armed,       \* te_TcpSend is armed
    es,          \* LWIPMgr_es_log and LWIPMgr_es_sys
    live,        \* connections lwIP has accepted and not closed
    unacked,     \* segments of the log connection not acknowledged
    remote,      \* remote address of upcb, or none
    asking,      \* CommMgr: clients whose messages it has not answered
    conns,       \* history: number of connections so far
    posted,      \* history: number of log messages so far
    failed,      \* history: number of messages that could not be sent
    asked,       \* history: number of datagrams received
    wire,        \* history: log messages given to lwIP
    thrown       \* history: log messages dropped or lost with a connection

q     == <<lwipQ, deferred, st, armed>>
tcp   == <<es, live, unacked, conns>>
udp   == <<remote, asking, asked>>
logs  == <<posted, failed, wire, thrown>>
vars  == <<lwipQ, deferred, st, armed, es, live, unacked, remote, asking,
           conns, posted, failed, asked, wire, thrown>>

-----------------------------------------------------------------------------
Ports == {"log", "sys"}
NoEs  == [conn |-> 0, state |-> "ES_NONE", p |-> 0]
Exit  == [sig |-> "Q_EXIT"]
Log(m)   == [sig |-> "DBG_LOG", msg |-> m]
Reply(c) == [sig |-> "CLI_SEND_DATA", to |-> c]
Ends     == {"TCP_DONE", "TCP_TIMEOUT"}

LWIPInit ==
    /\ lwipQ = <<>> /\ deferred = <<>> /\ st = "Idle" /\ armed = FALSE
    /\ es = [port \in Ports |-> NoEs] /\ live = {} /\ unacked = 0
    /\ remote = "none" /\ asking = <<>>
    /\ conns = 0 /\ posted = 0 /\ failed = 0 /\ asked = 0
    /\ wire = <<>> /\ thrown = {}

Takes(sigs) == lwipQ # <<>> /\ Head(lwipQ).sig \in sigs
Rest        == Tail(lwipQ)

\* A message and the empty set, for the message 0 that is none.
Set(m) == {m} \ {0}

-----------------------------------------------------------------------------
(* Idle and Sending *)

\* Mutant: the recalled event goes to the back of the queue.
GoIdle_Fifo ==
    /\ st' = "Idle" /\ armed' = FALSE
    /\ IF deferred = <<>> THEN lwipQ' = Rest /\ UNCHANGED deferred
       ELSE /\ lwipQ' = Append(Rest, Head(deferred))
            /\ deferred' = Tail(deferred)

\* The exit of Sending and the entry of Idle, which recalls one event.
GoIdle ==
    /\ st' = "Idle" /\ armed' = FALSE
    /\ IF deferred = <<>> THEN lwipQ' = Rest /\ UNCHANGED deferred
       ELSE /\ lwipQ' = <<Head(deferred)>> \o Rest
            /\ deferred' = Tail(deferred)

\* Mutant: the message that failed is deferred, and not the event of the exit.
Deferred_Message(e) ==
    IF Len(deferred) < DeferMax THEN Append(deferred, Head(lwipQ)) ELSE deferred

\* The deferral queue after e was deferred, if there is room.
Deferred(e) ==
    IF Len(deferred) < DeferMax THEN Append(deferred, e) ELSE deferred

\* The exit of Idle and the entry of Sending.
GoSending ==
    /\ deferred' = Deferred(Exit)
    /\ st' = "Sending" /\ armed' = TRUE
    /\ lwipQ' = Rest
    /\ failed < MaxFails /\ failed' = failed + 1

\* A log message that nobody is to get: there is no connection, or CommMgr
\* has disabled logging to the Ethernet, which it may do at any time.
IdleIgnoresLog ==
    /\ st = "Idle" /\ Takes({"DBG_LOG"})
    /\ thrown' = thrown \cup {Head(lwipQ).msg}
    /\ lwipQ' = Rest
    /\ UNCHANGED <<deferred, st, armed, tcp, udp, posted, failed, wire>>

\* pbuf_new and LWIP_tcpSend succeed.  A message left over is forgotten.
IdleSendsLog ==
    /\ st = "Idle" /\ Takes({"DBG_LOG"})
    /\ es["log"] # NoEs
    /\ wire' = Append(wire, Head(lwipQ).msg) /\ unacked' = unacked + 1
    /\ thrown' = thrown \cup Set(es["log"].p)
    /\ es' = [es EXCEPT !["log"].p = 0]
    /\ lwipQ' = Rest
    /\ UNCHANGED <<deferred, st, armed, live, conns, udp, posted, failed>>

\* Either pbuf_new fails, or lwIP does not take the message.
IdleFailsLog ==
    /\ st = "Idle" /\ Takes({"DBG_LOG"})
    /\ es["log"] # NoEs
    /\ GoSending
    /\ \/ /\ thrown' = thrown \cup {Head(lwipQ).msg}
          /\ UNCHANGED es
       \/ /\ thrown' = thrown \cup Set(es["log"].p)
          /\ es' = [es EXCEPT !["log"].p = Head(lwipQ).msg]
    /\ UNCHANGED <<live, unacked, conns, udp, posted, wire>>

SendingDefersLog ==
    /\ st = "Sending" /\ Takes({"DBG_LOG"})
    /\ deferred' = Deferred(Head(lwipQ))
    /\ thrown' = IF Len(deferred) < DeferMax THEN thrown
                 ELSE thrown \cup {Head(lwipQ).msg}
    /\ lwipQ' = Rest
    /\ UNCHANGED <<st, armed, tcp, udp, posted, failed, wire>>

\* TCP_DONE_SIG, of whatever data, or TCP_TIMEOUT_SIG ends Sending.
TakesEnd ==
    /\ Takes(Ends)
    /\ IF st = "Sending" THEN GoIdle
       ELSE lwipQ' = Rest /\ UNCHANGED <<deferred, st, armed>>
    /\ UNCHANGED <<tcp, udp, logs>>

\* A recalled Q_EXIT_SIG: Idle defers it, Sending would disarm its timer.
TakesExit ==
    /\ Takes({"Q_EXIT"})
    /\ lwipQ' = Rest
    /\ deferred' = IF st = "Idle" THEN Deferred(Exit) ELSE deferred
    /\ armed' = (armed /\ st = "Idle")
    /\ UNCHANGED <<st, tcp, udp, logs>>

\* CLI_SEND_DATA_SIG, the same in both states: the message is sent to remote,
\* or without a pbuf it is not, and nobody is told.
TakesReply ==
    /\ Takes({"CLI_SEND_DATA"})
    /\ lwipQ' = Rest
    /\ UNCHANGED <<deferred, st, armed, tcp, udp, logs>>

Handler ==
    \/ IdleIgnoresLog \/ IdleSendsLog \/ IdleFailsLog \/ SendingDefersLog
    \/ TakesEnd \/ TakesExit \/ TakesReply

TimerExpires ==
    /\ armed /\ armed' = FALSE
    /\ lwipQ' = Append(lwipQ, [sig |-> "TCP_TIMEOUT"])
    /\ UNCHANGED <<deferred, st, tcp, udp, logs>>

-----------------------------------------------------------------------------
(* Callbacks of lwIP for the TCP connections *)

\* Mutant: a second connection to a port takes the first one's place.
Free_Always(port) == TRUE

Free(port) == es[port] = NoEs

\* LWIP_tcpAccept: one connection to each port, others are refused.
tcpAccept(port) ==
    /\ conns < MaxConns /\ conns' = conns + 1
    /\ Free(port)
    /\ live' = live \cup {<<port, conns + 1>>}
    /\ es' = [es EXCEPT ![port] =
                 [conn |-> conns + 1, state |-> "ES_ACCEPTED", p |-> 0]]
    /\ UNCHANGED <<q, unacked, udp, logs>>

\* The connection and its echo_state are gone, with the message p held.
Gone(port) ==
    /\ live' = live \ {<<port, es[port].conn>>}
    /\ es' = [es EXCEPT ![port] = NoEs]
    /\ unacked' = IF port = "log" THEN 0 ELSE unacked
    /\ thrown' = thrown \cup Set(es[port].p)

\* LWIP_tcpSend for what the connection still points to: lwIP takes it, as it
\* was or as other bytes, or does not.  The connection is then in this state,
\* and n is what was not acknowledged before.
SendsPending(state, n) ==
    \/ /\ wire' = Append(wire, es["log"].p)
       /\ es' = [es EXCEPT !["log"].p = 0, !["log"].state = state]
       /\ unacked' = n + 1
       /\ UNCHANGED thrown
    \/ /\ thrown' = thrown \cup {es["log"].p}
       /\ es' = [es EXCEPT !["log"].p = 0, !["log"].state = state]
       /\ unacked' = n + 1
       /\ UNCHANGED wire
    \/ /\ es' = [es EXCEPT !["log"].state = state]
       /\ unacked' = n
       /\ UNCHANGED <<wire, thrown>>

\* LWIP_tcpRecv with data: the first of a connection drops what it points to,
\* later data is chained to it.
tcpRecvData(port) ==
    /\ es[port].state = "ES_ACCEPTED"
    /\ es' = [es EXCEPT ![port].state = "ES_RECEIVED", ![port].p = 0]
    /\ thrown' = thrown \cup Set(es[port].p)
    /\ UNCHANGED <<q, live, unacked, conns, udp, posted, failed, wire>>

\* LWIP_tcpRecv without data: the peer has closed.
tcpRecvClose(port) ==
    /\ es[port] # NoEs /\ es[port].state # "ES_CLOSING"
    /\ IF es[port].p = 0 THEN Gone(port) /\ UNCHANGED wire
       ELSE SendsPending("ES_CLOSING", unacked) /\ UNCHANGED live
    /\ UNCHANGED <<q, conns, udp, posted, failed>>

\* LWIP_tcpError.
tcpError(port) ==
    /\ es[port] # NoEs
    /\ Gone(port)
    /\ UNCHANGED <<q, conns, udp, posted, failed, wire>>

\* LWIP_tcpSent: the peer has acknowledged data of the log connection.
tcpSent ==
    /\ unacked > 0
    /\ \/ /\ es["log"].p # 0
          /\ \E n \in 0 .. unacked - 1 : SendsPending(es["log"].state, n)
          /\ UNCHANGED <<lwipQ, live>>
       \/ /\ es["log"].p = 0
          /\ lwipQ' = Append(lwipQ, [sig |-> "TCP_DONE"])
          /\ UNCHANGED wire
          /\ IF es["log"].state = "ES_CLOSING" THEN Gone("log")
             ELSE /\ unacked' \in 0 .. unacked - 1
                  /\ UNCHANGED <<es, live, thrown>>
    /\ UNCHANGED <<deferred, st, armed, conns, udp, posted, failed>>

\* LWIP_tcpPoll.
tcpPoll ==
    /\ es["log"] # NoEs
    /\ \/ es["log"].p # 0 /\ SendsPending(es["log"].state, unacked) /\ UNCHANGED live
       \/ /\ es["log"].p = 0 /\ es["log"].state = "ES_CLOSING"
          /\ Gone("log") /\ UNCHANGED wire
    /\ UNCHANGED <<q, conns, udp, posted, failed>>

-----------------------------------------------------------------------------
(* UDP *)

\* Mutant: upcb is not connected to its first client.
Heard_Any(c) == c \in Peers

\* lwIP: a connected upcb gets the datagrams of its remote address only.
Heard(c) == remote \in {"none", c}

\* udp_rx_handler: the message goes to CommMgr, and upcb is connected.
UdpRx(c) ==
    /\ asked < MaxAsks /\ asked' = asked + 1
    /\ Heard(c)
    /\ asking' = Append(asking, c)
    /\ remote' = c
    /\ UNCHANGED <<q, tcp, logs>>

\* CommMgr answers the message it took first.
CommAnswers ==
    /\ asking # <<>>
    /\ lwipQ' = Append(lwipQ, Reply(Head(asking)))
    /\ asking' = Tail(asking)
    /\ UNCHANGED <<deferred, st, armed, tcp, remote, asked, logs>>

-----------------------------------------------------------------------------
(* The environment *)

PostLog ==
    /\ posted < MaxLogs /\ posted' = posted + 1
    /\ lwipQ' = Append(lwipQ, Log(posted + 1))
    /\ UNCHANGED <<deferred, st, armed, tcp, udp, failed, wire, thrown>>

LWIPNext ==
    \/ Handler \/ TimerExpires
    \/ \E port \in Ports :
           \/ tcpAccept(port) \/ tcpRecvData(port) \/ tcpRecvClose(port)
           \/ tcpError(port)
    \/ tcpSent \/ tcpPoll
    \/ \E c \in Peers : UdpRx(c)
    \/ CommAnswers
    \/ PostLog

LWIPSpec == LWIPInit /\ [][LWIPNext]_vars

\* The object runs while its queue is not empty; an armed timer expires.
\* Nothing is assumed of the network.
LWIPLive == LWIPSpec /\ WF_vars(Handler) /\ WF_vars(TimerExpires)

-----------------------------------------------------------------------------
(* Properties *)

Logs    == {Log(m) : m \in 1 .. MaxLogs}
Replies == {Reply(c) : c \in Peers}
Events  == Logs \cup Replies \cup {Exit} \cup [sig : Ends]

\* Every variable has its type; only log messages and exit events are ever
\* deferred, and te_TcpSend runs in Sending only.
LWIPTypeOK ==
    /\ lwipQ \in Seq(Events)
    /\ deferred \in Seq(Logs \cup {Exit}) /\ Len(deferred) <= DeferMax
    /\ st \in {"Idle", "Sending"} /\ armed \in BOOLEAN /\ (armed => st = "Sending")
    /\ es \in [Ports -> [conn : 0 .. MaxConns, p : 0 .. MaxLogs,
                  state : {"ES_NONE", "ES_ACCEPTED", "ES_RECEIVED", "ES_CLOSING"}]]
    /\ live = {<<port, es[port].conn>> : port \in {x \in Ports : es[x] # NoEs}}
    /\ unacked \in Nat /\ remote \in Peers \cup {"none"} /\ asking \in Seq(Peers)
    /\ conns \in 0 .. MaxConns /\ posted \in 0 .. MaxLogs
    /\ wire \in Seq(1 .. MaxLogs) /\ thrown \subseteq 1 .. MaxLogs

Sent == {wire[i] : i \in DOMAIN wire}
Whereabouts ==
    <<Carried(lwipQ, Logs), Carried(deferred, Logs), Set(es["log"].p), Sent,
      thrown>>

\* Every log message is in one place: queued, deferred, left over in its
\* connection, sent, or dropped, and none is sent twice.  (A message that
\* failed is left over in its connection; were it deferred as well, as the
\* comment on the exit of Idle wants it, the callbacks and Idle would both
\* send it.)
NoneLostOrRepeated ==
    /\ EachInOnePlace(1 .. posted, Whereabouts)
    /\ OnceIn(lwipQ, Logs) /\ OnceIn(deferred, Logs)
    /\ \A i, j \in DOMAIN wire : wire[i] = wire[j] => i = j

\* However connections come and go, Sending ends: its timer is never
\* disarmed by a recalled exit event, which is always handled in Idle.
SendingEnds == []<>(st = "Idle")

\* An answer goes to the client that asked, although it is sent to whoever
\* upcb is connected to by the time it is taken: until then, from the message
\* of the client on, upcb stays connected to that client.
AnswerGoesToAsker ==
    /\ \A i \in DOMAIN asking : asking[i] = remote
    /\ \A i \in DOMAIN lwipQ :
           lwipQ[i].sig = "CLI_SEND_DATA" => lwipQ[i].to = remote

\* "Failed to send data, probably because out of pbufs.  Defer the event (if
\* possible) and it will try again" (LWIPMgr.c, exit of Idle): a message that
\* could not be sent is deferred if there is room.
FailedIsDeferred ==
    [][failed' > failed /\ Len(deferred) < DeferMax
           => Head(lwipQ).msg \in Carried(deferred', Logs)]_vars
=============================================================================
