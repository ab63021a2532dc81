------------------------------ MODULE Listener ------------------------------
(***************************************************************************)
(* The UDP and TCP DNS listener of dnsserver: the two accept loops, one    *)
(* goroutine per datagram and per connection, the watcher that looks for a *)
(* peer's FIN while a TCP query is handled, the inflight slots, the        *)
(* connection caps, the wait group and Shutdown.                           *)
(*                                                                         *)
(* A TCP message is two bytes: byte 2k-1 of a connection stands for the    *)
(* length prefix of message k and byte 2k for its body.  Durations are not *)
(* measured: a deadline, an age or a timer that is set may expire at any   *)
(* later step.  What the handler does to a query is a member of Outcomes;  *)
(* it may return at any time.                                              *)
(***************************************************************************)
EXTENDS Integers, Sequences, FiniteSets

CONSTANTS
    Packets,        \* datagrams, each sent once
    Conns,          \* connections peers open
    NoAddr,         \* an address that did not parse
    Reqs,           \* the shapes of a request, see Admit
    Outcomes,       \* what ServeDNS may return
    MaxInflight,
    Settings,       \* Config.MaxTCPConns and MaxTCPPerIP, and what the peers are and send
    Callers         \* callers of Shutdown

ASSUME CapAssumption ==
    /\ MaxInflight \in Nat \ {0}
    /\ \A s \in Settings : s.conns \in Nat \ {0} /\ s.perIP \in Nat \ {0}
ASSUME FiniteAssumption == IsFiniteSet(Packets) /\ IsFiniteSet(Conns)

VARIABLES
    started, stopped,   \* Server.started; Server.stopped, set with s.cancel()
    udpOpen, tcpOpen,   \* the sockets
    inflight,           \* tokens in the channel s.inflight
    conns, ipCount,     \* Server.conns and ipCount, under s.mu
    wg,                 \* the wait group
    udp,                \* the loop of serveUDP: its step and the datagram in hand
    tcp,                \* the loop of serveTCP: its step and the connection in hand
    pkt,                \* pkt[p]: a datagram's goroutine and what was sent back
    con,                \* con[c]: a connection, its goroutine and its watcher
    call,               \* call[s]: a caller of Shutdown
    cfg                 \* a member of Settings, fixed

socks == <<started, stopped, udpOpen, tcpOpen>>
table == <<conns, ipCount, cfg>>
vars == <<socks, inflight, table, wg, udp, tcp, pkt, con, call>>

Hints == {"send", "drop", "truncate", "close", "reset", "hold"}
PeerOf(c) == cfg.peer[c]
Addrs == {PeerOf(c) : c \in Conns}

-----------------------------------------------------------------------------
(* One query, from admission to the transport action.                      *)

Drop == [drop |-> TRUE, rcode |-> ""]
Reject(r) == [drop |-> FALSE, rcode |-> r]
Ok == [drop |-> FALSE, rcode |-> ""]

\* admit, in the order of its tests.  r.header is "none" when Parse found no
\* twelve octets, r.bad the first thing that is wrong with the question.
Admit(r) ==
    CASE r.header = "none" \/ r.qr -> Drop
      [] r.bad \in {"malformed", "qdcount", "qname"} -> Reject("FORMERR")
      [] r.bad \in {"opcode", "class", "transfer"} -> Reject("NOTIMP")
      [] r.bad = "ednsversion" -> Reject("BADVERS")
      [] OTHER -> Ok

\* resolveHint: the hint returned wins unless it is send; an unknown one drops.
ResolveHint(o) ==
    LET h == IF o.resp /\ o.ret = "send" THEN o.stored ELSE o.ret
    IN  IF h \in Hints THEN h ELSE "drop"

\* applyTransportFallback.
Fallback(h, isTcp) ==
    CASE h = "truncate" /\ isTcp -> "send"
      [] h \in {"close", "reset", "hold"} /\ ~isTcp -> "drop"
      [] OTHER -> h

\* handleQuery: the action for a request, an outcome of the handler and
\* whether the query's context is done.  A panic is recovered into SERVFAIL.
\* A truncated answer is sent; an answer that does not encode is dropped.
HandleQuery(r, o, done, isTcp) ==
    LET ad == Admit(r)
        sent == IF o.encodes THEN "send" ELSE "drop"
        h == Fallback(ResolveHint(o), isTcp)
    IN  CASE ad.drop -> "drop"
          [] ad.rcode # "" -> "send"
          [] o.kind = "panic" -> "send"
          [] o.kind = "error" -> IF done THEN "drop" ELSE "send"
          [] ~o.resp /\ ResolveHint(o) = "send" -> "send"
          [] h \in {"send", "truncate"} -> sent
          [] OTHER -> h

\* What a TCP query can come to, by whether its context is done.
TCPActs == [done \in BOOLEAN |-> {HandleQuery(r, o, done, TRUE) : r \in Reqs, o \in Outcomes}]

-----------------------------------------------------------------------------
NoConn == [pc |-> "new", sent |-> 0, fin |-> FALSE, taken |-> 0, prefix |-> <<>>, got |-> 0,
           open |-> FALSE, deadline |-> "none", done |-> FALSE, stop |-> FALSE,
           watch |-> "off", buf |-> <<>>, act |-> "none"]

Init ==
    /\ started = FALSE /\ stopped = FALSE /\ udpOpen = FALSE /\ tcpOpen = FALSE
    /\ inflight = 0
    /\ conns = {} /\ cfg \in Settings /\ ipCount = [a \in Addrs |-> 0]
    /\ wg = 0
    /\ udp = [pc |-> "off", p |-> {}]
    /\ tcp = [pc |-> "off", c |-> {}]
    /\ pkt = [p \in Packets |-> [pc |-> "new", req |-> CHOOSE r \in Reqs : TRUE, reply |-> "none"]]
    /\ con = [c \in Conns |-> NoConn]
    /\ call = [s \in Callers |-> [pc |-> "idle", closing |-> {}, result |-> "none"]]

\* Start: with the lock held the sockets are bound, UDP first; when TCP does
\* not bind, UDP is closed again and nothing is started.
Start(bound) ==
    /\ ~started /\ ~stopped
    /\ started' = bound /\ udpOpen' = bound /\ tcpOpen' = bound
    /\ wg' = IF bound THEN wg + 2 ELSE wg
    /\ udp' = IF bound THEN [udp EXCEPT !.pc = "read"] ELSE udp
    /\ tcp' = IF bound THEN [tcp EXCEPT !.pc = "accept"] ELSE tcp
    /\ UNCHANGED <<stopped, inflight, table, pkt, con, call>>

AcquireInflight == inflight < MaxInflight /\ inflight' = inflight + 1
InflightFull == inflight >= MaxInflight /\ UNCHANGED inflight
ReleaseInflight == inflight' = IF inflight > 0 THEN inflight - 1 ELSE 0

-----------------------------------------------------------------------------
(* UDP.                                                                    *)

\* ReadFrom, the size check and the rate limiter: the datagram is dropped
\* here or goes on to admission.
UDPRead(p, req, pass) ==
    /\ udp.pc = "read" /\ udpOpen /\ pkt[p].pc = "new" /\ p \in cfg.datagrams
    /\ pkt' = [pkt EXCEPT ![p].req = req, ![p].pc = IF pass THEN "read" ELSE "done"]
    /\ udp' = IF pass THEN [pc |-> "admit", p |-> {p}] ELSE udp
    /\ UNCHANGED <<socks, inflight, table, wg, tcp, con, call>>

\* overflowQuestionEnd reads the header and one plain question by hand.
OverflowQuestion(req) == req.header = "ok" /\ ~req.qr /\ req.bad \notin {"malformed", "qdcount"}

\* acquireInflight succeeds and a goroutine is started, or the datagram is
\* answered or dropped by replyInflightOverflow on this goroutine.
UDPAdmit(p, token) ==
    /\ udp.pc = "admit" /\ p \in udp.p
    /\ udp' = [pc |-> "read", p |-> {}]
    /\ \/ /\ AcquireInflight
          /\ pkt' = [pkt EXCEPT ![p].pc = "handle"]
          /\ wg' = wg + 1
       \/ /\ InflightFull
          /\ pkt' = [pkt EXCEPT ![p].pc = "done",
                                ![p].reply = IF OverflowQuestion(pkt[p].req) /\ token /\ udpOpen
                                               THEN "servfail" ELSE "none"]
          /\ UNCHANGED wg
    /\ UNCHANGED <<socks, table, tcp, con, call>>

\* The socket was closed: the loop ends.
UDPExit ==
    /\ udp.pc = "read" /\ ~udpOpen /\ stopped
    /\ udp' = [udp EXCEPT !.pc = "off"]
    /\ wg' = wg - 1
    /\ UNCHANGED <<socks, inflight, table, tcp, pkt, con, call>>

\* handleUDP up to the slot's release; a goroutine without a reply ends, and
\* its deferred release runs.
UDPHandle(p, o) ==
    /\ pkt[p].pc = "handle"
    /\ \E done \in {stopped, TRUE} :
         LET sends == HandleQuery(pkt[p].req, o, done, FALSE) = "send"
         IN  /\ pkt' = [pkt EXCEPT ![p].pc = IF sends THEN "write" ELSE "done"]
             /\ wg' = IF sends THEN wg ELSE wg - 1
    /\ ReleaseInflight
    /\ UNCHANGED <<socks, table, udp, tcp, con, call>>

\* WriteTo and the goroutine's end; release is a OnceFunc, so the slot is not
\* freed again.
UDPWrite(p) ==
    /\ pkt[p].pc = "write"
    /\ pkt' = [pkt EXCEPT ![p].pc = "done", ![p].reply = IF udpOpen THEN "answer" ELSE "none"]
    /\ wg' = wg - 1
    /\ UNCHANGED <<socks, inflight, table, udp, tcp, con, call>>

-----------------------------------------------------------------------------
(* TCP: the peer, the accept loop and the goroutine of a connection.       *)

At(c, l) == con[c].pc = l
Set(c, r) == con' = [con EXCEPT ![c] = r]
TCPFrame == UNCHANGED <<socks, table, wg, udp, tcp, pkt, call>>

\* The kernel completes a handshake; the peer then sends a byte, or its FIN.
PeerConnects(c) ==
    /\ tcpOpen /\ At(c, "new") /\ c \in cfg.opens
    /\ Set(c, [con[c] EXCEPT !.pc = "backlog", !.open = TRUE])
    /\ UNCHANGED inflight /\ TCPFrame

PeerSends(c) ==
    /\ con[c].open /\ ~con[c].fin /\ con[c].sent < cfg.bytes[c]
    /\ Set(c, [con[c] EXCEPT !.sent = @ + 1])
    /\ UNCHANGED inflight /\ TCPFrame

PeerCloses(c) ==
    /\ con[c].open /\ ~con[c].fin
    /\ Set(c, [con[c] EXCEPT !.fin = TRUE])
    /\ UNCHANGED inflight /\ TCPFrame

TCPAccept(c) ==
    /\ tcp.pc = "accept" /\ tcpOpen /\ At(c, "backlog")
    /\ tcp' = [pc |-> "acquire", c |-> {c}]
    /\ Set(c, [con[c] EXCEPT !.pc = "accepted"])
    /\ UNCHANGED <<socks, inflight, table, wg, udp, pkt, call>>

\* Mutant: off by one at the cap.
TCPAllowedOneMore(c) ==
    /\ Cardinality(conns) <= cfg.conns
    /\ PeerOf(c) = NoAddr \/ ipCount[PeerOf(c)] < cfg.perIP

\* acquireTCP's tests, with s.mu held.
TCPAllowed(c) ==
    /\ Cardinality(conns) < cfg.conns
    /\ PeerOf(c) = NoAddr \/ ipCount[PeerOf(c)] < cfg.perIP

\* acquireTCP, and the goroutine of an admitted connection is started.
TCPAcquire(c) ==
    /\ tcp.pc = "acquire" /\ c \in tcp.c
    /\ tcp' = [pc |-> "accept", c |-> {}]
    /\ IF TCPAllowed(c)
         THEN /\ conns' = conns \cup {c}
              /\ ipCount' = [ipCount EXCEPT ![PeerOf(c)] = @ + 1]
              /\ wg' = wg + 1
              /\ Set(c, [con[c] EXCEPT !.pc = "top"])
         ELSE /\ Set(c, [con[c] EXCEPT !.pc = "done", !.open = FALSE])
              /\ UNCHANGED <<conns, ipCount, wg>>
    /\ UNCHANGED <<socks, inflight, cfg, udp, pkt, call>>

\* Mutant: the loop continues after any error of Accept.
TCPExitContinues == tcp.pc = "accept" /\ ~tcpOpen /\ stopped /\ UNCHANGED vars

\* The listener was closed: the loop ends.
TCPExit ==
    /\ tcp.pc = "accept" /\ ~tcpOpen /\ stopped
    /\ tcp' = [tcp EXCEPT !.pc = "off"]
    /\ wg' = wg - 1
    /\ UNCHANGED <<socks, inflight, table, udp, pkt, con, call>>

\* The head of serveTCPConn's loop; the connection may be older than TCPMaxAge.
ConnTop(c) ==
    /\ At(c, "top")
    /\ \E aged \in BOOLEAN : Set(c, IF stopped \/ aged THEN [con[c] EXCEPT !.pc = "close"]
                              ELSE [con[c] EXCEPT !.pc = "read", !.deadline = "loop"])
    /\ UNCHANGED inflight /\ TCPFrame

Waiting(k) == k.taken < k.sent
\* leftoverConn.Read of one byte: what was put back comes first.  Net(k) is a
\* read of the socket below it.
Net(k) == [k EXCEPT !.taken = @ + 1]
Readable(k) == k.prefix # <<>> \/ (k.open /\ Waiting(k))
NextByte(k) == IF k.prefix # <<>> THEN Head(k.prefix) ELSE k.taken + 1
AfterRead(k) == IF k.prefix # <<>> THEN [k EXCEPT !.prefix = Tail(@)] ELSE Net(k)

\* io.ReadFull of the length prefix and then of the body, each with its own
\* deadline.  A length that is zero or too large ends the connection, and so
\* does its age after the body.
ConnRead(c) ==
    /\ At(c, "read") /\ Readable(con[c])
    /\ LET k == [AfterRead(con[c]) EXCEPT !.got = NextByte(con[c])]
       IN  \/ Set(c, IF k.got % 2 = 1 THEN k ELSE [k EXCEPT !.pc = "admit"])
           \/ Set(c, [k EXCEPT !.pc = "close"])
    /\ UNCHANGED inflight /\ TCPFrame

\* The peer's FIN, a socket Shutdown closed, or the deadline of this read.
ConnReadFails(c) ==
    /\ At(c, "read") /\ ~Readable(con[c])
    /\ Set(c, [con[c] EXCEPT !.pc = "close"])
    /\ UNCHANGED inflight /\ TCPFrame

\* serveOneTCPQuery: the rate limiter, the slot, the query's context and the
\* close watcher.  A query that is refused ends the connection.
ConnAdmit(c, pass) ==
    /\ At(c, "admit")
    /\ \/ /\ pass /\ AcquireInflight
          /\ Set(c, [con[c] EXCEPT !.pc = "handle", !.watch = "check"])
       \/ /\ pass /\ InflightFull /\ Set(c, [con[c] EXCEPT !.pc = "close"])
       \/ /\ ~pass /\ UNCHANGED inflight /\ Set(c, [con[c] EXCEPT !.pc = "close"])
    /\ TCPFrame

\* handleQuery returns; stopWatch closes the channel stop and makes a read of
\* the watcher that is pending fail.
ConnHandle(c) ==
    /\ At(c, "handle")
    /\ \E done \in {con[c].done \/ stopped, TRUE} : \E a \in TCPActs[done] :
         Set(c, [con[c] EXCEPT !.act = a, !.done = done, !.pc = "join", !.stop = TRUE,
                               !.deadline = "now"])
    /\ UNCHANGED inflight /\ TCPFrame

\* <-done, the deadline is cleared, cancel, and the slot is free before the
\* reply is written.
ConnJoin(c) ==
    /\ At(c, "join") /\ con[c].watch = "off"
    /\ Set(c, [con[c] EXCEPT !.pc = "act", !.deadline = "none", !.done = FALSE, !.stop = FALSE])
    /\ ReleaseInflight /\ TCPFrame

\* The transport action: nothing and the next query, the connection's end,
\* holdThenClose, or the reply, which fails on a connection that is gone.
ConnAct(c) ==
    /\ At(c, "act")
    /\ LET k == con[c] IN
         Set(c, [k EXCEPT !.act = "none",
                   !.pc = CASE k.act = "drop" -> "top"
                            [] k.act = "hold" -> "hold"
                            [] k.act = "send" /\ k.open -> "top"
                            [] OTHER -> "close"])
    /\ UNCHANGED inflight /\ TCPFrame

\* A write fails when the peer is gone.
ConnWriteFails(c) ==
    /\ At(c, "act") /\ con[c].act = "send" /\ con[c].fin
    /\ Set(c, [con[c] EXCEPT !.pc = "close", !.act = "none"])
    /\ UNCHANGED inflight /\ TCPFrame

\* The hold ends with its timer, which MaxHold bounds, or with the server.
ConnHold(c) ==
    /\ At(c, "hold")
    /\ Set(c, [con[c] EXCEPT !.pc = "close"])
    /\ UNCHANGED inflight /\ TCPFrame

\* The deferred calls: the connection is closed, releaseTCP, the wait group.
ReleaseTCP(c) ==
    /\ At(c, "close")
    /\ conns' = conns \ {c}
    /\ ipCount' = [ipCount EXCEPT ![PeerOf(c)] = IF @ <= 1 THEN 0 ELSE @ - 1]
    /\ wg' = wg - 1
    /\ Set(c, [NoConn EXCEPT !.pc = "done"])
    /\ UNCHANGED <<socks, inflight, cfg, udp, tcp, pkt, call>>

-----------------------------------------------------------------------------
(* watchTCPClose.                                                          *)

\* The select at the head of the loop.
WatchCheck(c) ==
    /\ con[c].watch = "check"
    /\ Set(c, [con[c] EXCEPT !.watch =
                 IF con[c].stop \/ con[c].done \/ stopped THEN "off" ELSE "arm"])
    /\ UNCHANGED inflight /\ TCPFrame

WatchArm(c) ==
    /\ con[c].watch = "arm"
    /\ Set(c, [con[c] EXCEPT !.watch = "read", !.deadline = "poll"])
    /\ UNCHANGED inflight /\ TCPFrame

\* A byte of the next query arrived; it is put back in the next step.
WatchByte(c) ==
    /\ con[c].watch = "read" /\ Readable(con[c])
    /\ con[c].prefix # <<>> \/ con[c].deadline # "now"
    /\ Set(c, [AfterRead(con[c]) EXCEPT !.watch = "unread", !.buf = <<NextByte(con[c])>>])
    /\ UNCHANGED inflight /\ TCPFrame

\* Mutant: the byte is not put back.
WatchUnreadLost(c) ==
    /\ con[c].watch = "unread"
    /\ Set(c, [con[c] EXCEPT !.watch = "off", !.buf = <<>>])
    /\ UNCHANGED inflight /\ TCPFrame

WatchUnread(c) ==
    /\ con[c].watch = "unread"
    /\ Set(c, [con[c] EXCEPT !.watch = "off", !.buf = <<>>, !.prefix = con[c].buf \o @])
    /\ UNCHANGED inflight /\ TCPFrame

\* The read timed out: look again.
WatchTimeout(c) ==
    /\ con[c].watch = "read"
    /\ con[c].open /\ con[c].prefix = <<>>
    /\ con[c].deadline = "now" \/ ~(Readable(con[c]) \/ con[c].fin)
    /\ Set(c, [con[c] EXCEPT !.watch = "check"])
    /\ UNCHANGED inflight /\ TCPFrame

\* End of file or a closed socket: qcancel.
WatchEOF(c) ==
    /\ con[c].watch = "read" /\ ~Readable(con[c])
    /\ ~con[c].open \/ (con[c].fin /\ con[c].deadline # "now")
    /\ Set(c, [con[c] EXCEPT !.watch = "off", !.done = TRUE])
    /\ UNCHANGED inflight /\ TCPFrame

-----------------------------------------------------------------------------
(* Shutdown.                                                               *)

Goto(s, r) == call' = [call EXCEPT ![s] = r]

\* With s.mu held: a second call returns at once; the first cancels s.ctx and
\* takes the connections of the moment.
ShutdownLock(s) ==
    /\ call[s].pc = "idle"
    /\ IF stopped
         THEN Goto(s, [call[s] EXCEPT !.pc = "back", !.result = "again"])
         ELSE Goto(s, [call[s] EXCEPT !.pc = "close", !.closing = conns])
    /\ stopped' = TRUE
    /\ UNCHANGED <<started, udpOpen, tcpOpen, inflight, table, wg, udp, tcp, pkt, con>>

\* The sockets are closed, where the kernel drops what nobody accepted, and
\* the connections taken before.
ShutdownClose(s) ==
    /\ call[s].pc = "close"
    /\ udpOpen' = FALSE /\ tcpOpen' = FALSE
    /\ con' = [c \in Conns |->
                 IF con[c].pc = "backlog" THEN [NoConn EXCEPT !.pc = "done"]
                 ELSE [con[c] EXCEPT !.open = @ /\ c \notin call[s].closing]]
    /\ Goto(s, [call[s] EXCEPT !.pc = "wait", !.closing = {}])
    /\ UNCHANGED <<started, stopped, inflight, table, wg, udp, tcp, pkt>>

ShutdownWait(s) ==
    /\ call[s].pc = "wait"
    /\ \/ wg = 0 /\ Goto(s, [call[s] EXCEPT !.pc = "back", !.result = "drained"])
       \/ Goto(s, [call[s] EXCEPT !.pc = "back", !.result = "expired"])
    /\ UNCHANGED <<socks, inflight, table, wg, udp, tcp, pkt, con>>

-----------------------------------------------------------------------------
UDPLoop ==
    \/ UDPExit
    \/ \E p \in Packets, b \in BOOLEAN :
         UDPAdmit(p, b) \/ \E req \in Reqs : UDPRead(p, req, b)
TCPLoop == TCPExit \/ \E c \in Conns : TCPAccept(c) \/ TCPAcquire(c)
UDPTask(p) == UDPWrite(p) \/ \E o \in Outcomes : UDPHandle(p, o)
ConnTask(c) ==
    \/ ConnTop(c) \/ ConnHandle(c) \/ ConnRead(c) \/ ConnReadFails(c) \/ ConnJoin(c) \/ ConnAct(c)
    \/ ConnWriteFails(c) \/ ConnHold(c) \/ ReleaseTCP(c)
    \/ \E b \in BOOLEAN : ConnAdmit(c, b)
Watcher(c) ==
    \/ WatchCheck(c) \/ WatchArm(c) \/ WatchByte(c) \/ WatchUnread(c) \/ WatchTimeout(c)
    \/ WatchEOF(c)
Peer(c) == PeerConnects(c) \/ PeerSends(c) \/ PeerCloses(c)
Shutdown(s) == ShutdownLock(s) \/ ShutdownClose(s) \/ ShutdownWait(s)

\* The process has nothing left to do.
Rest == stopped /\ wg = 0 /\ (\A s \in Callers : call[s].pc = "back") /\ UNCHANGED vars

Next ==
    \/ \E b \in BOOLEAN : Start(b)
    \/ UDPLoop \/ TCPLoop \/ Rest
    \/ \E p \in Packets : UDPTask(p)
    \/ \E c \in Conns : ConnTask(c) \/ Watcher(c) \/ Peer(c)
    \/ \E s \in Callers : Shutdown(s)

\* Goroutines that can run do run; a handler returns, because its context has
\* a deadline; a read that is armed with a deadline fails or returns.  Nothing
\* is assumed of peers, nor that anybody starts or stops the server.
Fairness ==
    /\ WF_vars(UDPLoop) /\ WF_vars(TCPLoop)
    /\ \A p \in Packets : WF_vars(UDPTask(p))
    /\ \A c \in Conns : WF_vars(ConnTask(c)) /\ WF_vars(Watcher(c))
    /\ \A s \in Callers : WF_vars(call[s].pc # "idle" /\ Shutdown(s))

Spec == Init /\ [][Next]_vars /\ Fairness

-----------------------------------------------------------------------------
Holding(c) == con[c].pc \in {"handle", "join"}
Served(c) == con[c].pc \notin {"new", "backlog", "accepted", "done"}
Live(p) == pkt[p].pc \in {"handle", "write"}
Count(S) == Cardinality(S)

\* The channel s.inflight counts exactly the datagrams and the TCP queries
\* that are being handled, whoever finishes first and however a query ends:
\* no slot leaks and releaseInflight never frees a slot of another query.
SlotsExact ==
    inflight = Count({p \in Packets : pkt[p].pc = "handle"}) + Count({c \in Conns : Holding(c)})

\* conns holds exactly the connections with a goroutine, ipCount counts them
\* by peer, and neither is ever above its cap, except for peers without an
\* address, which only the first cap bounds.
ConnTableExact ==
    /\ conns = {c \in Conns : Served(c)}
    /\ Count(conns) <= cfg.conns
    /\ \A a \in Addrs : /\ ipCount[a] = Count({c \in conns : PeerOf(c) = a})
                        /\ a # NoAddr => ipCount[a] <= cfg.perIP

\* No byte of a pipelined query is lost or reordered by the watcher: what the
\* watcher holds, what it put back and what the socket still has continue the
\* stream where the loop stopped reading.
StreamIntact ==
    \A c \in Conns : LET s == con[c].buf \o con[c].prefix IN
        /\ \A i \in DOMAIN s : s[i] = con[c].got + i
        /\ con[c].got + Len(s) = con[c].taken

\* When Shutdown returns because everything drained, no goroutine of the
\* server is left: none is added to the wait group behind its back.
DrainedMeansQuiet ==
    (\E s \in Callers : call[s].result = "drained") =>
        /\ udp.pc = "off" /\ tcp.pc = "off" /\ inflight = 0 /\ conns = {}
        /\ \A p \in Packets : ~Live(p)
        /\ \A c \in Conns : con[c].watch = "off" /\ (con[c].pc # "new" => ~con[c].open)

\* Shutdown ends everything: queries, holds, idle connections and the loops.
Drains == stopped ~> (wg = 0)

-----------------------------------------------------------------------------
(* The inductive invariant behind the properties of the state.             *)

\* The watcher took no byte that the loop has not read yet, or the next one,
\* which it holds or has put back.
Stream(k) ==
    \/ k.buf = <<>> /\ k.prefix = <<>> /\ k.taken = k.got
    \/ k.buf = <<k.got + 1>> /\ k.prefix = <<>> /\ k.taken = k.got + 1 /\ k.watch = "unread"
    \/ k.buf = <<>> /\ k.prefix = <<k.got + 1>> /\ k.taken = k.got + 1

\* A connection; its watcher runs only while the loop waits for the handler.
Kept(k) ==
    /\ DOMAIN k = DOMAIN NoConn /\ k.got \in Nat /\ Stream(k)
    /\ k.watch # "off" => k.pc \in {"handle", "join"}
    /\ k.pc = "done" => ~k.open

Running(loop) == IF loop.pc = "off" THEN 0 ELSE 1

\* The wait group counts the loops, the datagrams and the connections.
WaitGroupExact ==
    wg = Running(udp) + Running(tcp) + Count({p \in Packets : Live(p)}) + Count(conns)

\* The caller has cancelled the server, and closed its sockets before it waits.
Stops(k, stop, open) ==
    /\ DOMAIN k = {"pc", "closing", "result"}
    /\ k.pc \in {"close", "wait"} \/ k.result # "none" => stop
    /\ k.pc = "wait" \/ k.result = "drained" => ~open

Counted ==
    /\ cfg \in Settings /\ DOMAIN ipCount = Addrs
    /\ DOMAIN con = Conns /\ \A c \in Conns : Kept(con[c]) /\ (con[c].pc = "backlog" => tcpOpen)
    /\ DOMAIN pkt = Packets
    /\ \A p \in Packets : DOMAIN pkt[p] = {"pc", "req", "reply"} /\ (p \in udp.p => pkt[p].pc = "read")
    /\ udp \in [pc : {"off", "read", "admit"}, p : SUBSET Packets]
    /\ tcp \in [pc : {"off", "accept", "acquire"}, c : SUBSET Conns]
    /\ tcp.c = {c \in Conns : con[c].pc = "accepted"} /\ \A c, d \in tcp.c : c = d
    /\ tcp.pc # "acquire" => tcp.c = {}
    /\ tcpOpen => started
    /\ ~started => udp.pc = "off" /\ tcp.pc = "off"
    /\ DOMAIN call = Callers
    /\ \A s \in Callers : Stops(call[s], stopped, tcpOpen) /\ (call[s].result = "drained" => wg = 0)
    /\ inflight <= MaxInflight /\ SlotsExact
    /\ ConnTableExact
    /\ WaitGroupExact
=============================================================================
