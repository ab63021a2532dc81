--------------------------- MODULE ListenerProofs ---------------------------
(***************************************************************************)
(* The proofs about Listener.                                              *)
(***************************************************************************)
EXTENDS Listener, FiniteSetTheorems, TLAPS

-----------------------------------------------------------------------------
(* Counting.                                                               *)

\* A finite set as e joins or leaves it.
LEMMA Joins ==
  ASSUME NEW STATE S, NEW STATE e, IsFiniteSet(S), e \notin S
  PROVE  Count(S \cup {e}) = Count(S) + 1 /\ Count(S) \in Nat
BY Zenon, FS_AddElement, FS_CardinalityType DEF Count

\* One element less.
LEMMA Leaves ==
  ASSUME NEW STATE S, NEW STATE e, IsFiniteSet(S), e \in S
  PROVE  Count(S \ {e}) = Count(S) - 1 /\ Count(S) \in Nat /\ Count(S) > 0
<1>1. Count(S \ {e}) = Count(S) - 1 /\ Count(S) \in Nat
  BY Zenon, FS_RemoveElement, FS_CardinalityType DEF Count
<1>2. Count(S) # 0
  BY Zenon, FS_EmptySet DEF Count
<1> QED BY <1>1, <1>2

\* The datagrams and the connections that hold a slot; the datagrams that have
\* a goroutine.
Handled(p) == pkt[p].pc = "handle"
HandledPackets == {p \in Packets : Handled(p)}
HandledConns == {c \in Conns : Holding(c)}
LivePackets == {p \in Packets : Live(p)}

\* All that is counted is finite.
LEMMA Finite ==
  /\ IsFiniteSet(HandledPackets) /\ IsFiniteSet(HandledConns) /\ IsFiniteSet(LivePackets)
  /\ Count(HandledPackets) \in Nat /\ Count(HandledConns) \in Nat /\ Count(LivePackets) \in Nat
  /\ \A S \in SUBSET Conns : IsFiniteSet(S) /\ Count(S) \in Nat
<1>1. \A S \in SUBSET Packets : IsFiniteSet(S) /\ Count(S) \in Nat
  BY Zenon, FiniteAssumption, FS_Subset, FS_CardinalityType DEF Count
<1>2. \A S \in SUBSET Conns : IsFiniteSet(S) /\ Count(S) \in Nat
  BY Zenon, FiniteAssumption, FS_Subset, FS_CardinalityType DEF Count
<1>3. /\ HandledPackets \in SUBSET Packets /\ HandledConns \in SUBSET Conns
      /\ LivePackets \in SUBSET Packets
  BY Zenon DEF HandledPackets, HandledConns, LivePackets
<1> QED BY Zenon, <1>1, <1>2, <1>3

\* The parts of the invariant.
Shape ==
    /\ cfg \in Settings
    /\ DOMAIN con = Conns /\ \A c \in Conns : Kept(con[c]) /\ (con[c].pc = "backlog" => tcpOpen)
    /\ DOMAIN pkt = Packets
    /\ \A p \in Packets : DOMAIN pkt[p] = {"pc", "req", "reply"} /\ (p \in udp.p => pkt[p].pc = "read")
    /\ udp \in [pc : {"off", "read", "admit"}, p : SUBSET Packets]
    /\ tcp \in [pc : {"off", "accept", "acquire"}, c : SUBSET Conns]
    /\ tcp.c = {c \in Conns : con[c].pc = "accepted"} /\ \A c, d \in tcp.c : c = d
    /\ tcp.pc # "acquire" => tcp.c = {}
    /\ tcpOpen => started
    /\ ~started => udp.pc = "off" /\ tcp.pc = "off"
    /\ DOMAIN call = Callers
    /\ \A s \in Callers : Stops(call[s], stopped, tcpOpen)
Slots == inflight <= MaxInflight /\ inflight = Count(HandledPackets) + Count(HandledConns)
Table == DOMAIN ipCount = Addrs /\ ConnTableExact
Drained == \A s \in Callers : call[s].result = "drained" => wg = 0
Group == wg = Running(udp) + Running(tcp) + Count(LivePackets) + Count(conns)

\* The invariant by its parts.
LEMMA Parts == Counted => Shape /\ Slots /\ Table /\ Drained /\ Group
BY Zenon DEF Counted, Shape, Slots, Table, Drained, Group, SlotsExact, WaitGroupExact,
             Handled, HandledPackets, HandledConns, LivePackets

\* The parts make the invariant.
LEMMA Whole ==
  ASSUME Shape', Slots', Table', Drained', Group'
  PROVE  Counted'
<1>1. SlotsExact' /\ WaitGroupExact'
  BY Zenon DEF Slots, Group, SlotsExact, WaitGroupExact, Handled, HandledPackets, HandledConns, LivePackets
<1>2. inflight' <= MaxInflight
  BY Zenon DEF Slots
<1> QED BY Zenon, <1>1, <1>2 DEF Counted, Shape, Table, Drained

\* A step that keeps what a count counts keeps the count.
LEMMA SameSlots ==
  ASSUME Slots, inflight' = inflight, \A p \in Packets : Handled(p)' <=> Handled(p),
         \A c \in Conns : Holding(c)' <=> Holding(c)
  PROVE  Slots'
<1>1. HandledPackets' = HandledPackets /\ HandledConns' = HandledConns
  BY Zenon DEF HandledPackets, HandledConns
<1> QED BY Zenon, <1>1 DEF Slots

\* A step that serves no other connections keeps the table.
LEMMA SameTable ==
  ASSUME Table, UNCHANGED table, \A c \in Conns : Served(c)' <=> Served(c)
  PROVE  Table'
<1>1. conns' = conns /\ ipCount' = ipCount /\ cfg' = cfg
  BY Zenon DEF table
<1>2. {c \in Conns : Served(c)}' = {c \in Conns : Served(c)}
  BY Zenon
<1>3. Addrs' = Addrs /\ \A c : PeerOf(c)' = PeerOf(c)
  BY Zenon, <1>1 DEF Addrs, PeerOf
<1>4. \A a : {c \in conns : PeerOf(c) = a}' = {c \in conns : PeerOf(c) = a}
  BY Zenon, <1>1, <1>3
<1>5. conns' = {c \in Conns : Served(c)}' /\ Count(conns') <= cfg'.conns
  BY Zenon, <1>1, <1>2 DEF Table, ConnTableExact
<1>6. \A a \in Addrs' : /\ ipCount'[a] = Count({c \in conns : PeerOf(c) = a}')
                        /\ a # NoAddr => ipCount'[a] <= cfg'.perIP
  BY Zenon, <1>1, <1>3, <1>4 DEF Table, ConnTableExact
<1>7. DOMAIN ipCount' = Addrs'
  BY Zenon, <1>1, <1>3 DEF Table
<1> QED BY Zenon, <1>5, <1>6, <1>7 DEF Table, ConnTableExact

\* A step that starts and ends no goroutine keeps the wait group.
LEMMA SameGroup ==
  ASSUME Group, wg' = wg, conns' = conns, Running(udp)' = Running(udp), Running(tcp)' = Running(tcp),
         \A p \in Packets : Live(p)' <=> Live(p)
  PROVE  Group'
<1>1. LivePackets' = LivePackets
  BY Zenon DEF LivePackets
<1> QED BY Zenon, <1>1 DEF Group

-----------------------------------------------------------------------------
(* One connection: its locals k become v.                                  *)

ConFields == {"pc", "sent", "fin", "taken", "prefix", "got", "open", "deadline", "done", "stop",
              "watch", "buf", "act"}

\* A connection before it is opened.
LEMMA Fresh ==
  /\ DOMAIN NoConn = ConFields /\ NoConn.pc = "new" /\ NoConn.taken = 0 /\ NoConn.prefix = <<>>
  /\ NoConn.got = 0 /\ NoConn.open = FALSE /\ NoConn.watch = "off" /\ NoConn.buf = <<>>
<1>1. DOMAIN NoConn = ConFields
  BY DEF NoConn, ConFields
<1> QED BY Zenon, <1>1 DEF NoConn

\* No byte is read.
LEMMA Elsewhere ==
  ASSUME NEW STATE k, NEW STATE v, Kept(k), DOMAIN v = DOMAIN k,
         v.got = k.got, v.buf = k.buf, v.prefix = k.prefix, v.taken = k.taken,
         k.watch = "unread" => v.watch = "unread",
         v.watch # "off" => v.pc \in {"handle", "join"},
         v.pc = "done" => ~v.open
  PROVE  Kept(v)
<1>1. Stream(v)
  BY Zenon DEF Kept, Stream
<1> QED BY Zenon, <1>1 DEF Kept

\* What the invariant says of one connection.
LEMMA Known ==
  ASSUME Counted, NEW c \in Conns
  PROVE  Kept(con[c]) /\ DOMAIN con[c] = ConFields /\ (con[c].pc = "backlog" => tcpOpen)
<1>1. Shape
  BY Zenon, Parts
<1>2. Kept(con[c]) /\ (con[c].pc = "backlog" => tcpOpen)
  BY Zenon, <1>1 DEF Shape
<1> QED BY Zenon, <1>2, Fresh DEF Kept

\* The step changes con[c] to v and no other connection.
LEMMA SetParts ==
  ASSUME Shape, NEW c \in Conns, NEW STATE v, Set(c, v)
  PROVE  DOMAIN con' = Conns /\ con'[c] = v /\ \A d \in Conns \ {c} : con'[d] = con[d]
BY Zenon DEF Shape, Set

\* The loop has the connection in hand that was accepted last.
InHand(l, k) ==
    /\ l \in [pc : {"off", "accept", "acquire"}, c : SUBSET Conns]
    /\ l.c = {d \in Conns : k[d].pc = "accepted"} /\ \A d, e \in l.c : d = e
    /\ l.pc # "acquire" => l.c = {}

\* The accept loop holds at most the connection it just accepted.
LEMMA HandIs == Shape => InHand(tcp, con)
BY Zenon DEF Shape, InHand

\* A step of one connection's goroutines leaves the rest in shape.
LEMMA ConShape ==
  ASSUME Shape, NEW c \in Conns, NEW STATE v, Set(c, v),
         UNCHANGED <<socks, cfg, udp, tcp, pkt, call>>,
         Kept(v), v.pc = "backlog" => tcpOpen, v.pc = "accepted" <=> con[c].pc = "accepted"
  PROVE  Shape'
<1>1. DOMAIN con' = Conns /\ con'[c] = v /\ \A d \in Conns \ {c} : con'[d] = con[d]
  BY Zenon, SetParts
<1>2. /\ started' = started /\ stopped' = stopped /\ tcpOpen' = tcpOpen
      /\ cfg' = cfg /\ udp' = udp /\ tcp' = tcp /\ pkt' = pkt /\ call' = call
  BY Zenon DEF socks
<1>3. \A d \in Conns : Kept(con'[d]) /\ (con'[d].pc = "backlog" => tcpOpen')
  BY Zenon, <1>1, <1>2 DEF Shape
<1>4. {d \in Conns : con'[d].pc = "accepted"} = {d \in Conns : con[d].pc = "accepted"}
  BY Zenon, <1>1
<1>5. /\ cfg' \in Settings /\ DOMAIN pkt' = Packets /\ DOMAIN call' = Callers
      /\ \A s \in Callers : Stops(call'[s], stopped', tcpOpen')
  BY Zenon, <1>2 DEF Shape
<1>6. /\ \A p \in Packets : /\ DOMAIN pkt'[p] = {"pc", "req", "reply"}
                           /\ p \in udp'.p => pkt'[p].pc = "read"
      /\ udp' \in [pc : {"off", "read", "admit"}, p : SUBSET Packets]
  BY Zenon, <1>2 DEF Shape
<1>7. /\ tcp' \in [pc : {"off", "accept", "acquire"}, c : SUBSET Conns]
      /\ tcp'.c = {d \in Conns : con'[d].pc = "accepted"} /\ \A d, e \in tcp'.c : d = e
      /\ tcp'.pc # "acquire" => tcp'.c = {}
  BY Zenon, <1>2, <1>4, HandIs DEF InHand
<1>8. /\ tcpOpen' => started'
      /\ ~started' => udp'.pc = "off" /\ tcp'.pc = "off"
  BY Zenon, <1>2 DEF Shape
<1> QED BY Zenon, <1>1, <1>3, <1>5, <1>6, <1>7, <1>8 DEF Shape

Unserved == {"new", "backlog", "accepted", "done"}

\* A step that neither opens nor ends a connection, nor takes a slot, keeps every count.
LEMMA ConOnly ==
  ASSUME Counted, NEW c \in Conns, NEW STATE v, Set(c, v), UNCHANGED inflight, TCPFrame,
         Kept(v), v.pc = "backlog" => tcpOpen, v.pc = "accepted" <=> con[c].pc = "accepted",
         v.pc \in {"handle", "join"} <=> con[c].pc \in {"handle", "join"},
         v.pc \in Unserved <=> con[c].pc \in Unserved
  PROVE  Counted'
<1>1. Shape /\ Slots /\ Table /\ Drained /\ Group
  BY Zenon, Parts
<1>2. DOMAIN con' = Conns /\ con'[c] = v /\ \A d \in Conns \ {c} : con'[d] = con[d]
  BY Zenon, <1>1, SetParts
<1>3. /\ UNCHANGED socks /\ UNCHANGED table /\ wg' = wg /\ udp' = udp /\ tcp' = tcp /\ pkt' = pkt
      /\ call' = call /\ conns' = conns /\ cfg' = cfg
  BY Zenon DEF TCPFrame, table
<1>4. Shape'
  BY Zenon, <1>1, <1>3, ConShape
<1>5. \A d \in Conns : (Holding(d)' <=> Holding(d)) /\ (Served(d)' <=> Served(d))
  BY Zenon, <1>2 DEF Holding, Served, Unserved
<1>6. Slots'
  BY Zenon, <1>1, <1>3, <1>5, SameSlots DEF Handled
<1>7. Table'
  BY Zenon, <1>1, <1>3, <1>5, SameTable
<1>8. Drained'
  BY Zenon, <1>1, <1>3 DEF Drained
<1>9. \A p \in Packets : Live(p)' <=> Live(p)
  BY Zenon, <1>3 DEF Live
<1>10. Group'
  BY Zenon, <1>1, <1>3, <1>9, SameGroup
<1> QED BY Zenon, <1>4, <1>6, <1>7, <1>8, <1>10, Whole

LEMMA PeerKeeps ==
  ASSUME Counted, NEW c \in Conns, Peer(c)
  PROVE  Counted'
<1> DEFINE k == con[c]
<1>1. Kept(k) /\ DOMAIN k = ConFields /\ (k.pc = "backlog" => tcpOpen)
  BY Zenon, Known
<1>2. UNCHANGED inflight /\ TCPFrame
  BY Zenon DEF Peer, PeerConnects, PeerSends, PeerCloses
<1>3. CASE PeerConnects(c)
  <2> DEFINE v == [k EXCEPT !.pc = "backlog", !.open = TRUE]
  <2>1. Set(c, v) /\ tcpOpen /\ k.pc = "new"
    BY Zenon, <1>3 DEF PeerConnects, At
  <2>2. /\ DOMAIN v = DOMAIN k /\ v.pc = "backlog" /\ v.got = k.got /\ v.buf = k.buf
        /\ v.prefix = k.prefix /\ v.taken = k.taken /\ v.watch = k.watch
    BY Zenon, <1>1 DEF ConFields
  <2> HIDE DEF v
  <2>3. k.watch = "off"
    BY Zenon, <1>1, <2>1 DEF Kept
  <2>4. Kept(v)
    BY Zenon, <1>1, <2>2, <2>3, Elsewhere
  <2> QED BY Zenon, <1>2, <2>1, <2>2, <2>4, ConOnly DEF Unserved
<1>4. CASE PeerSends(c)
  <2> DEFINE v == [k EXCEPT !.sent = k.sent + 1]
  <2>1. Set(c, v)
    BY Zenon, <1>4 DEF PeerSends
  <2>2. /\ DOMAIN v = DOMAIN k /\ v.pc = k.pc /\ v.got = k.got /\ v.buf = k.buf /\ v.open = k.open
        /\ v.prefix = k.prefix /\ v.taken = k.taken /\ v.watch = k.watch
    BY Zenon, <1>1 DEF ConFields
  <2> HIDE DEF v
  <2>3. Kept(v)
    BY Zenon, <1>1, <2>2, Elsewhere DEF Kept
  <2>4. v.pc = "backlog" => tcpOpen
    BY Zenon, <1>1, <2>2
  <2>5. /\ v.pc = "accepted" <=> con[c].pc = "accepted"
        /\ v.pc \in {"handle", "join"} <=> con[c].pc \in {"handle", "join"}
        /\ v.pc \in Unserved <=> con[c].pc \in Unserved
    BY Zenon, <2>2
  <2> QED BY Zenon, <1>2, <2>1, <2>3, <2>4, <2>5, ConOnly
<1>5. CASE PeerCloses(c)
  <2> DEFINE v == [k EXCEPT !.fin = TRUE]
  <2>1. Set(c, v)
    BY Zenon, <1>5 DEF PeerCloses
  <2>2. /\ DOMAIN v = DOMAIN k /\ v.pc = k.pc /\ v.got = k.got /\ v.buf = k.buf /\ v.open = k.open
        /\ v.prefix = k.prefix /\ v.taken = k.taken /\ v.watch = k.watch
    BY Zenon, <1>1 DEF ConFields
  <2> HIDE DEF v
  <2>3. Kept(v)
    BY Zenon, <1>1, <2>2, Elsewhere DEF Kept
  <2>4. v.pc = "backlog" => tcpOpen
    BY Zenon, <1>1, <2>2
  <2>5. /\ v.pc = "accepted" <=> con[c].pc = "accepted"
        /\ v.pc \in {"handle", "join"} <=> con[c].pc \in {"handle", "join"}
        /\ v.pc \in Unserved <=> con[c].pc \in Unserved
    BY Zenon, <2>2
  <2> QED BY Zenon, <1>2, <2>1, <2>3, <2>4, <2>5, ConOnly
<1> QED BY Zenon, <1>3, <1>4, <1>5 DEF Peer

\* A step of a connection that has a goroutine: it reads no byte, and waits for
\* the handler before and after, or not before and not after.
LEMMA Turn ==
  ASSUME Counted, NEW c \in Conns, NEW STATE v, Set(c, v), UNCHANGED inflight, TCPFrame,
         DOMAIN v = ConFields, v.got = con[c].got, v.buf = con[c].buf,
         v.prefix = con[c].prefix, v.taken = con[c].taken,
         con[c].watch = "unread" => v.watch = "unread",
         v.watch # "off" => v.pc \in {"handle", "join"},
         con[c].pc \notin Unserved, v.pc \notin Unserved,
         v.pc \in {"handle", "join"} <=> con[c].pc \in {"handle", "join"}
  PROVE  Counted'
<1>1. Kept(con[c]) /\ DOMAIN con[c] = ConFields
  BY Zenon, Known
<1>2. v.pc # "done" /\ v.pc # "backlog" /\ v.pc # "accepted" /\ con[c].pc # "accepted"
  BY Zenon DEF Unserved
<1>3. Kept(v)
  BY Zenon, <1>1, <1>2, Elsewhere
<1> QED BY Zenon, <1>2, <1>3, ConOnly

LEMMA ConnReadFailsKeeps ==
  ASSUME Counted, NEW c \in Conns, ConnReadFails(c)
  PROVE  Counted'
<1> DEFINE k == con[c]
           v == [k EXCEPT !.pc = "close"]
<1>1. Kept(k) /\ DOMAIN k = ConFields
  BY Zenon, Known
<1>2. Set(c, v) /\ k.pc = "read" /\ UNCHANGED inflight /\ TCPFrame
  BY Zenon DEF ConnReadFails, At
<1>3. /\ DOMAIN v = ConFields /\ v.pc = "close" /\ v.watch = k.watch
      /\ v.got = k.got /\ v.buf = k.buf /\ v.prefix = k.prefix /\ v.taken = k.taken
  BY Zenon, <1>1 DEF ConFields
<1> HIDE DEF v
<1>4. k.watch = "off"
  BY Zenon, <1>1, <1>2 DEF Kept
<1>5. k.pc \notin Unserved /\ v.pc \notin Unserved
  BY Zenon, <1>2, <1>3 DEF Unserved
<1> QED BY Zenon, <1>2, <1>3, <1>4, <1>5, Turn

LEMMA ConnWriteFailsKeeps ==
  ASSUME Counted, NEW c \in Conns, ConnWriteFails(c)
  PROVE  Counted'
<1> DEFINE k == con[c]
           v == [k EXCEPT !.pc = "close", !.act = "none"]
<1>1. Kept(k) /\ DOMAIN k = ConFields
  BY Zenon, Known
<1>2. Set(c, v) /\ k.pc = "act" /\ UNCHANGED inflight /\ TCPFrame
  BY Zenon DEF ConnWriteFails, At
<1>3. /\ DOMAIN v = ConFields /\ v.pc = "close" /\ v.watch = k.watch
      /\ v.got = k.got /\ v.buf = k.buf /\ v.prefix = k.prefix /\ v.taken = k.taken
  BY Zenon, <1>1 DEF ConFields
<1> HIDE DEF v
<1>4. k.watch = "off"
  BY Zenon, <1>1, <1>2 DEF Kept
<1>5. k.pc \notin Unserved /\ v.pc \notin Unserved
  BY Zenon, <1>2, <1>3 DEF Unserved
<1> QED BY Zenon, <1>2, <1>3, <1>4, <1>5, Turn

LEMMA ConnHoldKeeps ==
  ASSUME Counted, NEW c \in Conns, ConnHold(c)
  PROVE  Counted'
<1> DEFINE k == con[c]
           v == [k EXCEPT !.pc = "close"]
<1>1. Kept(k) /\ DOMAIN k = ConFields
  BY Zenon, Known
<1>2. Set(c, v) /\ k.pc = "hold" /\ UNCHANGED inflight /\ TCPFrame
  BY Zenon DEF ConnHold, At
<1>3. /\ DOMAIN v = ConFields /\ v.pc = "close" /\ v.watch = k.watch
      /\ v.got = k.got /\ v.buf = k.buf /\ v.prefix = k.prefix /\ v.taken = k.taken
  BY Zenon, <1>1 DEF ConFields
<1> HIDE DEF v
<1>4. k.watch = "off"
  BY Zenon, <1>1, <1>2 DEF Kept
<1>5. k.pc \notin Unserved /\ v.pc \notin Unserved
  BY Zenon, <1>2, <1>3 DEF Unserved
<1> QED BY Zenon, <1>2, <1>3, <1>4, <1>5, Turn

LEMMA ConnTopKeeps ==
  ASSUME Counted, NEW c \in Conns, ConnTop(c)
  PROVE  Counted'
<1> DEFINE k == con[c]
<1>1. Kept(k) /\ DOMAIN k = ConFields
  BY Zenon, Known
<1>2. PICK aged \in BOOLEAN : Set(c, IF stopped \/ aged THEN [k EXCEPT !.pc = "close"]
                                   ELSE [k EXCEPT !.pc = "read", !.deadline = "loop"])
  BY Zenon DEF ConnTop
<1> DEFINE v == IF stopped \/ aged THEN [k EXCEPT !.pc = "close"]
                ELSE [k EXCEPT !.pc = "read", !.deadline = "loop"]
<1>3. Set(c, v) /\ k.pc = "top" /\ UNCHANGED inflight /\ TCPFrame
  BY Zenon, <1>2 DEF ConnTop, At
<1>4. /\ DOMAIN v = ConFields /\ v.pc \in {"close", "read"} /\ v.watch = k.watch
      /\ v.got = k.got /\ v.buf = k.buf /\ v.prefix = k.prefix /\ v.taken = k.taken
  <2>1. CASE stopped \/ aged
    <3>1. v = [k EXCEPT !.pc = "close"]
      BY Zenon, <2>1
    <3> QED BY Zenon, <1>1, <3>1 DEF ConFields
  <2>2. CASE ~(stopped \/ aged)
    <3>1. v = [k EXCEPT !.pc = "read", !.deadline = "loop"]
      BY Zenon, <2>2
    <3> QED BY Zenon, <1>1, <3>1 DEF ConFields
  <2> QED BY Zenon, <2>1, <2>2
<1> HIDE DEF v
<1>5. k.watch = "off"
  BY Zenon, <1>1, <1>3 DEF Kept
<1>6. k.pc \notin Unserved /\ v.pc \notin Unserved
  BY Zenon, <1>3, <1>4 DEF Unserved
<1> QED BY Zenon, <1>3, <1>4, <1>5, <1>6, Turn

LEMMA ConnHandleKeeps ==
  ASSUME Counted, NEW c \in Conns, ConnHandle(c)
  PROVE  Counted'
<1> DEFINE k == con[c]
<1>1. Kept(k) /\ DOMAIN k = ConFields
  BY Zenon, Known
<1>2. \E done \in {k.done \/ stopped, TRUE} : \E a \in TCPActs[done] :
         Set(c, [k EXCEPT !.act = a, !.done = done, !.pc = "join", !.stop = TRUE, !.deadline = "now"])
  BY Zenon DEF ConnHandle
<1>3. PICK done, a :
         Set(c, [k EXCEPT !.act = a, !.done = done, !.pc = "join", !.stop = TRUE, !.deadline = "now"])
  BY Zenon, <1>2
<1> DEFINE v == [k EXCEPT !.act = a, !.done = done, !.pc = "join", !.stop = TRUE, !.deadline = "now"]
<1>4. Set(c, v) /\ k.pc = "handle" /\ UNCHANGED inflight /\ TCPFrame
  BY Zenon, <1>3 DEF ConnHandle, At
<1>5. /\ DOMAIN v = ConFields /\ v.pc = "join" /\ v.watch = k.watch
      /\ v.got = k.got /\ v.buf = k.buf /\ v.prefix = k.prefix /\ v.taken = k.taken
  BY Zenon, <1>1 DEF ConFields
<1> HIDE DEF v
<1>6. k.pc \notin Unserved /\ v.pc \notin Unserved
  BY Zenon, <1>4, <1>5 DEF Unserved
<1> QED BY Zenon, <1>4, <1>5, <1>6, Turn

LEMMA ConnActKeeps ==
  ASSUME Counted, NEW c \in Conns, ConnAct(c)
  PROVE  Counted'
<1> DEFINE k == con[c]
           l == CASE k.act = "drop" -> "top"
                  [] k.act = "hold" -> "hold"
                  [] k.act = "send" /\ k.open -> "top"
                  [] OTHER -> "close"
           v == [k EXCEPT !.act = "none", !.pc = l]
<1>1. Kept(k) /\ DOMAIN k = ConFields
  BY Zenon, Known
<1>2. Set(c, v) /\ k.pc = "act" /\ UNCHANGED inflight /\ TCPFrame
  BY Zenon DEF ConnAct, At
<1>3. l \in {"top", "hold", "close"}
  BY Zenon
<1> HIDE DEF l
<1>4. /\ DOMAIN v = ConFields /\ v.pc = l /\ v.watch = k.watch
      /\ v.got = k.got /\ v.buf = k.buf /\ v.prefix = k.prefix /\ v.taken = k.taken
  BY Zenon, <1>1 DEF ConFields
<1> HIDE DEF v
<1>5. k.watch = "off"
  BY Zenon, <1>1, <1>2 DEF Kept
<1>6. k.pc \notin Unserved /\ v.pc \notin Unserved /\ v.pc \notin {"handle", "join"}
  BY Zenon, <1>2, <1>3, <1>4 DEF Unserved
<1> QED BY Zenon, <1>2, <1>4, <1>5, <1>6, Turn

LEMMA WatchCheckKeeps ==
  ASSUME Counted, NEW c \in Conns, WatchCheck(c)
  PROVE  Counted'
<1> DEFINE k == con[c]
           v == [k EXCEPT !.watch = IF k.stop \/ k.done \/ stopped THEN "off" ELSE "arm"]
<1>1. Kept(k) /\ DOMAIN k = ConFields
  BY Zenon, Known
<1>2. Set(c, v) /\ k.watch = "check" /\ UNCHANGED inflight /\ TCPFrame
  BY Zenon DEF WatchCheck
<1>3. /\ DOMAIN v = ConFields /\ v.pc = k.pc
      /\ v.got = k.got /\ v.buf = k.buf /\ v.prefix = k.prefix /\ v.taken = k.taken
  BY Zenon, <1>1 DEF ConFields
<1> HIDE DEF v
<1>4. k.pc \in {"handle", "join"}
  BY Zenon, <1>1, <1>2 DEF Kept
<1>5. k.pc \notin Unserved /\ v.pc \notin Unserved
  BY Zenon, <1>3, <1>4 DEF Unserved
<1> QED BY Zenon, <1>2, <1>3, <1>4, <1>5, Turn

LEMMA WatchArmKeeps ==
  ASSUME Counted, NEW c \in Conns, WatchArm(c)
  PROVE  Counted'
<1> DEFINE k == con[c]
           v == [k EXCEPT !.watch = "read", !.deadline = "poll"]
<1>1. Kept(k) /\ DOMAIN k = ConFields
  BY Zenon, Known
<1>2. Set(c, v) /\ k.watch = "arm" /\ UNCHANGED inflight /\ TCPFrame
  BY Zenon DEF WatchArm
<1>3. /\ DOMAIN v = ConFields /\ v.pc = k.pc
      /\ v.got = k.got /\ v.buf = k.buf /\ v.prefix = k.prefix /\ v.taken = k.taken
  BY Zenon, <1>1 DEF ConFields
<1> HIDE DEF v
<1>4. k.pc \in {"handle", "join"}
  BY Zenon, <1>1, <1>2 DEF Kept
<1>5. k.pc \notin Unserved /\ v.pc \notin Unserved
  BY Zenon, <1>3, <1>4 DEF Unserved
<1> QED BY Zenon, <1>2, <1>3, <1>4, <1>5, Turn

LEMMA WatchTimeoutKeeps ==
  ASSUME Counted, NEW c \in Conns, WatchTimeout(c)
  PROVE  Counted'
<1> DEFINE k == con[c]
           v == [k EXCEPT !.watch = "check"]
<1>1. Kept(k) /\ DOMAIN k = ConFields
  BY Zenon, Known
<1>2. Set(c, v) /\ k.watch = "read" /\ UNCHANGED inflight /\ TCPFrame
  BY Zenon DEF WatchTimeout
<1>3. /\ DOMAIN v = ConFields /\ v.pc = k.pc
      /\ v.got = k.got /\ v.buf = k.buf /\ v.prefix = k.prefix /\ v.taken = k.taken
  BY Zenon, <1>1 DEF ConFields
<1> HIDE DEF v
<1>4. k.pc \in {"handle", "join"}
  BY Zenon, <1>1, <1>2 DEF Kept
<1>5. k.pc \notin Unserved /\ v.pc \notin Unserved
  BY Zenon, <1>3, <1>4 DEF Unserved
<1> QED BY Zenon, <1>2, <1>3, <1>4, <1>5, Turn

LEMMA WatchEOFKeeps ==
  ASSUME Counted, NEW c \in Conns, WatchEOF(c)
  PROVE  Counted'
<1> DEFINE k == con[c]
           v == [k EXCEPT !.watch = "off", !.done = TRUE]
<1>1. Kept(k) /\ DOMAIN k = ConFields
  BY Zenon, Known
<1>2. Set(c, v) /\ k.watch = "read" /\ UNCHANGED inflight /\ TCPFrame
  BY Zenon DEF WatchEOF
<1>3. /\ DOMAIN v = ConFields /\ v.pc = k.pc
      /\ v.got = k.got /\ v.buf = k.buf /\ v.prefix = k.prefix /\ v.taken = k.taken
  BY Zenon, <1>1 DEF ConFields
<1> HIDE DEF v
<1>4. k.pc \in {"handle", "join"}
  BY Zenon, <1>1, <1>2 DEF Kept
<1>5. k.pc \notin Unserved /\ v.pc \notin Unserved
  BY Zenon, <1>3, <1>4 DEF Unserved
<1> QED BY Zenon, <1>2, <1>3, <1>4, <1>5, Turn

-----------------------------------------------------------------------------
(* Reading.                                                                *)

\* What a read returns is the byte after the last one the loop has, and
\* nothing is left put back.
LEMMA ReadByte ==
  ASSUME NEW STATE k, DOMAIN k = ConFields, k.got \in Nat, Stream(k), k.watch # "unread"
  PROVE  /\ k.buf = <<>> /\ NextByte(k) = k.got + 1
         /\ DOMAIN AfterRead(k) = ConFields /\ AfterRead(k).prefix = <<>>
         /\ AfterRead(k).taken = k.got + 1 /\ AfterRead(k).pc = k.pc
         /\ AfterRead(k).buf = k.buf /\ AfterRead(k).got = k.got /\ AfterRead(k).open = k.open
         /\ AfterRead(k).watch = k.watch
<1>1. CASE k.buf = <<>> /\ k.prefix = <<>> /\ k.taken = k.got
  <2>1. AfterRead(k) = [k EXCEPT !.taken = k.taken + 1]
    BY Zenon, <1>1 DEF AfterRead, Net
  <2>2. NextByte(k) = k.got + 1
    BY Zenon, <1>1 DEF NextByte
  <2> QED BY Zenon, <1>1, <2>1, <2>2 DEF ConFields
<1>2. CASE k.buf = <<>> /\ k.prefix = <<k.got + 1>> /\ k.taken = k.got + 1
  <2> DEFINE n == k.got + 1
  <2> HIDE DEF n
  <2>1. <<n>> # <<>> /\ Head(<<n>>) = n /\ Tail(<<n>>) = <<>>
    OBVIOUS
  <2>2. k.prefix = <<n>> /\ k.taken = n
    BY Zenon, <1>2 DEF n
  <2>3. AfterRead(k) = [k EXCEPT !.prefix = <<>>] /\ NextByte(k) = n
    BY Zenon, <2>1, <2>2 DEF AfterRead, NextByte
  <2> QED BY Zenon, <1>2, <2>2, <2>3 DEF ConFields, n
<1> QED BY Zenon, <1>1, <1>2 DEF Stream

LEMMA ConnReadKeeps ==
  ASSUME Counted, NEW c \in Conns, ConnRead(c)
  PROVE  Counted'
<1> DEFINE k == con[c]
           r == AfterRead(k)
           n == NextByte(k)
           m == [r EXCEPT !.got = n]
<1>1. Kept(k) /\ DOMAIN k = ConFields
  BY Zenon, Known
<1>2. k.pc = "read" /\ UNCHANGED inflight /\ TCPFrame
  BY Zenon DEF ConnRead, At
<1>3. k.watch = "off" /\ k.got \in Nat /\ Stream(k)
  BY Zenon, <1>1, <1>2 DEF Kept
<1>4. k.watch # "unread"
  BY Zenon, <1>3
<1>5. /\ k.buf = <<>> /\ n = k.got + 1 /\ DOMAIN r = ConFields /\ r.prefix = <<>>
      /\ r.taken = k.got + 1 /\ r.pc = "read" /\ r.buf = <<>> /\ r.watch = "off"
  BY Zenon, <1>1, <1>2, <1>3, <1>4, ReadByte
<1> DEFINE A == IF m.got % 2 = 1 THEN m ELSE [m EXCEPT !.pc = "admit"]
           B == [m EXCEPT !.pc = "close"]
<1>6. Set(c, A) \/ Set(c, B)
  BY Zenon DEF ConnRead
<1> HIDE DEF r, n
<1>7. DOMAIN m = ConFields /\ m.got = n /\ m.prefix = <<>> /\ m.taken = n /\ m.pc = "read"
      /\ m.buf = <<>> /\ m.watch = "off"
  BY Zenon, <1>5 DEF ConFields
<1> HIDE DEF m
<1>8. PICK l \in {"read", "admit", "close"} : (Set(c, m) /\ l = "read") \/ Set(c, [m EXCEPT !.pc = l])
  BY Zenon, <1>6
<1>9. PICK v : /\ Set(c, v) /\ DOMAIN v = ConFields /\ v.pc = l /\ v.got = n /\ v.prefix = <<>>
               /\ v.taken = n /\ v.buf = <<>> /\ v.watch = "off"
  <2>1. CASE Set(c, m) /\ l = "read"
    BY Zenon, <1>7, <2>1
  <2>2. CASE Set(c, [m EXCEPT !.pc = l])
    <3> DEFINE v == [m EXCEPT !.pc = l]
    <3>1. DOMAIN v = ConFields /\ v.pc = l /\ v.got = n /\ v.prefix = <<>>
          /\ v.taken = n /\ v.buf = <<>> /\ v.watch = "off"
      BY Zenon, <1>7 DEF ConFields
    <3> HIDE DEF v
    <3>2. Set(c, v)
      BY Zenon, <2>2 DEF v
    <3> QED BY Zenon, <3>1, <3>2
  <2> QED BY Zenon, <1>8, <2>1, <2>2
<1>10. n \in Nat
  BY <1>3, <1>5
<1>11. v.pc # "done" /\ v.pc # "backlog" /\ v.pc # "accepted" /\ v.pc \notin {"handle", "join"}
       /\ v.pc \notin Unserved /\ k.pc \notin Unserved
  BY Zenon, <1>2, <1>9 DEF Unserved
<1>12. Kept(v)
  BY Zenon, <1>9, <1>10, <1>11, Fresh DEF Kept, Stream
<1> QED BY Zenon, <1>2, <1>9, <1>11, <1>12, ConOnly

LEMMA WatchByteKeeps ==
  ASSUME Counted, NEW c \in Conns, WatchByte(c)
  PROVE  Counted'
<1> DEFINE k == con[c]
           r == AfterRead(k)
           n == NextByte(k)
           v == [r EXCEPT !.watch = "unread", !.buf = <<n>>]
<1>1. Kept(k) /\ DOMAIN k = ConFields
  BY Zenon, Known
<1>2. Set(c, v) /\ k.watch = "read" /\ UNCHANGED inflight /\ TCPFrame
  BY Zenon DEF WatchByte
<1>3. k.pc \in {"handle", "join"} /\ k.got \in Nat /\ Stream(k) /\ k.watch # "unread"
  BY Zenon, <1>1, <1>2 DEF Kept
<1>4. /\ n = k.got + 1 /\ DOMAIN r = ConFields /\ r.prefix = <<>> /\ r.got = k.got
      /\ r.taken = k.got + 1 /\ r.pc = k.pc
  BY Zenon, <1>1, <1>3, ReadByte
<1> HIDE DEF r, n
<1>5. /\ DOMAIN v = ConFields /\ v.pc = k.pc /\ v.got = k.got /\ v.prefix = <<>>
      /\ v.taken = k.got + 1 /\ v.buf = <<n>> /\ v.watch = "unread"
  BY Zenon, <1>4 DEF ConFields
<1> HIDE DEF v
<1>6. v.pc # "done" /\ v.pc # "backlog" /\ v.pc # "accepted" /\ v.pc \in {"handle", "join"}
  BY Zenon, <1>3, <1>5
<1>7. Kept(v)
  BY Zenon, <1>3, <1>4, <1>5, <1>6, Fresh DEF Kept, Stream
<1> QED BY Zenon, <1>2, <1>5, <1>6, <1>7, ConOnly

LEMMA WatchUnreadKeeps ==
  ASSUME Counted, NEW c \in Conns, WatchUnread(c)
  PROVE  Counted'
<1> DEFINE k == con[c]
           p == k.buf \o k.prefix
           v == [k EXCEPT !.watch = "off", !.buf = <<>>, !.prefix = p]
<1>1. Kept(k) /\ DOMAIN k = ConFields
  BY Zenon, Known
<1>2. Set(c, v) /\ k.watch = "unread" /\ UNCHANGED inflight /\ TCPFrame
  BY Zenon DEF WatchUnread
<1>3. k.pc \in {"handle", "join"} /\ k.got \in Nat /\ Stream(k)
  BY Zenon, <1>1, <1>2 DEF Kept
<1>4. \/ p = <<>> /\ k.taken = k.got
      \/ p = <<k.got + 1>> /\ k.taken = k.got + 1
  <2> DEFINE n == k.got + 1
  <2> HIDE DEF n
  <2>1. <<>> \o <<>> = <<>> /\ <<n>> \o <<>> = <<n>> /\ <<>> \o <<n>> = <<n>>
    OBVIOUS
  <2> QED BY Zenon, <1>3, <2>1 DEF Stream, n
<1> HIDE DEF p
<1>5. /\ DOMAIN v = ConFields /\ v.pc = k.pc /\ v.got = k.got /\ v.prefix = p
      /\ v.taken = k.taken /\ v.buf = <<>> /\ v.watch = "off"
  BY Zenon, <1>1 DEF ConFields
<1> HIDE DEF v
<1>6. v.pc # "done" /\ v.pc # "backlog" /\ v.pc # "accepted" /\ v.pc \in {"handle", "join"}
  BY Zenon, <1>3, <1>5
<1>7. Kept(v)
  BY Zenon, <1>3, <1>4, <1>5, <1>6, Fresh DEF Kept, Stream
<1> QED BY Zenon, <1>2, <1>5, <1>6, <1>7, ConOnly

-----------------------------------------------------------------------------
(* Slots.                                                                  *)

\* Taking a slot adds one to one of the two sides.
LEMMA Took ==
  ASSUME NEW STATE a, NEW STATE b, a \in Nat, b \in Nat, inflight = a + b, AcquireInflight
  PROVE  inflight' = a + 1 + b /\ inflight' = a + (b + 1) /\ inflight' <= MaxInflight
BY CapAssumption DEF AcquireInflight

\* Giving a slot back takes one from one of the two sides.
LEMMA Gave ==
  ASSUME NEW STATE a, NEW STATE b, a \in Nat, b \in Nat, inflight = a + b, ReleaseInflight,
         a > 0 \/ b > 0, inflight <= MaxInflight
  PROVE  inflight' = a - 1 + b /\ inflight' = a + (b - 1) /\ inflight' <= MaxInflight
BY CapAssumption DEF ReleaseInflight

\* Connection c, and nobody else, takes or gives back a slot.
LEMMA ConnSlot ==
  ASSUME Slots, pkt' = pkt, NEW c \in Conns, \A d \in Conns \ {c} : con'[d] = con[d],
         \/ AcquireInflight /\ ~Holding(c) /\ Holding(c)'
         \/ ReleaseInflight /\ Holding(c) /\ ~Holding(c)'
  PROVE  Slots'
<1> DEFINE P == HandledPackets
           H == HandledConns
<1>1. HandledPackets' = P
  BY Zenon DEF HandledPackets, Handled
<1>2. \A d \in Conns \ {c} : Holding(d)' <=> Holding(d)
  BY Zenon DEF Holding
<1>3. IsFiniteSet(H) /\ Count(P) \in Nat /\ Count(H) \in Nat
  BY Zenon, Finite
<1>4. inflight = Count(P) + Count(H) /\ inflight <= MaxInflight
  BY Zenon DEF Slots
<1>5. CASE AcquireInflight /\ ~Holding(c) /\ Holding(c)'
  <2>1. HandledConns' = H \cup {c} /\ c \notin H
    BY Zenon, <1>2, <1>5 DEF HandledConns
  <2> HIDE DEF P, H
  <2>2. Count(H \cup {c}) = Count(H) + 1
    BY Zenon, <1>3, <2>1, Joins
  <2>3. inflight' = Count(P) + (Count(H) + 1) /\ inflight' <= MaxInflight
    BY Zenon, <1>3, <1>4, <1>5, Took
  <2> QED BY Zenon, <1>1, <2>1, <2>2, <2>3 DEF Slots
<1>6. CASE ReleaseInflight /\ Holding(c) /\ ~Holding(c)'
  <2>1. HandledConns' = H \ {c} /\ c \in H
    BY Zenon, <1>2, <1>6 DEF HandledConns
  <2> HIDE DEF P, H
  <2>2. Count(H \ {c}) = Count(H) - 1 /\ Count(H) > 0
    BY Zenon, <1>3, <2>1, Leaves
  <2>3. inflight' = Count(P) + (Count(H) - 1) /\ inflight' <= MaxInflight
    BY Zenon, <1>3, <1>4, <1>6, <2>2, Gave
  <2> QED BY Zenon, <1>1, <2>1, <2>2, <2>3 DEF Slots
<1> QED BY Zenon, <1>5, <1>6

\* A datagram takes its slot when its handler starts and gives it back when that ends.
LEMMA PacketSlot ==
  ASSUME Slots, con' = con, NEW p \in Packets, \A q \in Packets \ {p} : pkt'[q] = pkt[q],
         \/ AcquireInflight /\ pkt[p].pc # "handle" /\ pkt'[p].pc = "handle"
         \/ ReleaseInflight /\ pkt[p].pc = "handle" /\ pkt'[p].pc # "handle"
  PROVE  Slots'
<1> DEFINE P == HandledPackets
           H == HandledConns
<1>1. HandledConns' = H
  BY Zenon DEF HandledConns, Holding
<1>2. \A q \in Packets \ {p} : Handled(q)' <=> Handled(q)
  BY Zenon DEF Handled
<1>3. IsFiniteSet(P) /\ Count(P) \in Nat /\ Count(H) \in Nat
  BY Zenon, Finite
<1>4. inflight = Count(P) + Count(H) /\ inflight <= MaxInflight
  BY Zenon DEF Slots
<1>5. CASE AcquireInflight /\ pkt[p].pc # "handle" /\ pkt'[p].pc = "handle"
  <2>1. HandledPackets' = P \cup {p} /\ p \notin P
    <3>1. ~Handled(p) /\ Handled(p)'
      BY Zenon, <1>5 DEF Handled
    <3> QED BY Zenon, <1>2, <3>1 DEF HandledPackets
  <2> HIDE DEF P, H
  <2>2. Count(P \cup {p}) = Count(P) + 1
    BY Zenon, <1>3, <2>1, Joins
  <2>3. inflight' = Count(P) + 1 + Count(H) /\ inflight' <= MaxInflight
    BY Zenon, <1>3, <1>4, <1>5, Took
  <2> QED BY Zenon, <1>1, <2>1, <2>2, <2>3 DEF Slots
<1>6. CASE ReleaseInflight /\ pkt[p].pc = "handle" /\ pkt'[p].pc # "handle"
  <2>1. HandledPackets' = P \ {p} /\ p \in P
    <3>1. Handled(p) /\ ~Handled(p)'
      BY Zenon, <1>6 DEF Handled
    <3> QED BY Zenon, <1>2, <3>1 DEF HandledPackets
  <2> HIDE DEF P, H
  <2>2. Count(P \ {p}) = Count(P) - 1 /\ Count(P) > 0
    BY Zenon, <1>3, <2>1, Leaves
  <2>3. inflight' = Count(P) - 1 + Count(H) /\ inflight' <= MaxInflight
    BY Zenon, <1>3, <1>4, <1>6, <2>2, Gave
  <2> QED BY Zenon, <1>1, <2>1, <2>2, <2>3 DEF Slots
<1> QED BY Zenon, <1>5, <1>6

\* A step of a connection that has a goroutine and takes or gives back a slot.
LEMMA TurnSlot ==
  ASSUME Counted, NEW c \in Conns, NEW STATE v, Set(c, v), TCPFrame,
         DOMAIN v = ConFields, v.got = con[c].got, v.buf = con[c].buf,
         v.prefix = con[c].prefix, v.taken = con[c].taken,
         con[c].watch = "unread" => v.watch = "unread",
         v.watch # "off" => v.pc \in {"handle", "join"},
         con[c].pc \notin Unserved, v.pc \notin Unserved,
         \/ AcquireInflight /\ con[c].pc \notin {"handle", "join"} /\ v.pc \in {"handle", "join"}
         \/ ReleaseInflight /\ con[c].pc \in {"handle", "join"} /\ v.pc \notin {"handle", "join"}
  PROVE  Counted'
<1>1. Shape /\ Slots /\ Table /\ Drained /\ Group
  BY Zenon, Parts
<1>2. Kept(con[c])
  BY Zenon, Known
<1>3. DOMAIN con' = Conns /\ con'[c] = v /\ \A d \in Conns \ {c} : con'[d] = con[d]
  BY Zenon, <1>1, SetParts
<1>4. v.pc # "done" /\ v.pc # "backlog" /\ v.pc # "accepted" /\ con[c].pc # "accepted"
  BY Zenon DEF Unserved
<1>5. DOMAIN v = DOMAIN con[c]
  BY Zenon, Known
<1>6. Kept(v)
  BY Zenon, <1>2, <1>4, <1>5, Elsewhere
<1>7. /\ UNCHANGED <<socks, cfg, udp, tcp, pkt, call>> /\ UNCHANGED table
      /\ wg' = wg /\ udp' = udp /\ tcp' = tcp /\ pkt' = pkt /\ call' = call /\ conns' = conns
  BY Zenon DEF TCPFrame, table
<1>8. Shape'
  BY Zenon, <1>1, <1>4, <1>6, <1>7, ConShape
<1>9. \A d \in Conns : Served(d)' <=> Served(d)
  BY Zenon, <1>3 DEF Served, Unserved
<1>10. Slots'
  BY Zenon, <1>1, <1>3, <1>7, ConnSlot DEF Holding
<1>11. Table'
  BY Zenon, <1>1, <1>7, <1>9, SameTable
<1>12. Drained'
  BY Zenon, <1>1, <1>7 DEF Drained
<1>13. \A p \in Packets : Live(p)' <=> Live(p)
  BY Zenon, <1>7 DEF Live
<1>14. Group'
  BY Zenon, <1>1, <1>7, <1>13, SameGroup
<1> QED BY Zenon, <1>8, <1>10, <1>11, <1>12, <1>14, Whole

LEMMA ConnAdmitKeeps ==
  ASSUME Counted, NEW c \in Conns, NEW pass \in BOOLEAN, ConnAdmit(c, pass)
  PROVE  Counted'
<1> DEFINE k == con[c]
<1>1. Kept(k) /\ DOMAIN k = ConFields
  BY Zenon, Known
<1>2. k.pc = "admit" /\ TCPFrame
  BY Zenon DEF ConnAdmit, At
<1>3. k.watch = "off"
  BY Zenon, <1>1, <1>2 DEF Kept
<1>4. CASE AcquireInflight /\ Set(c, [k EXCEPT !.pc = "handle", !.watch = "check"])
  <2> DEFINE v == [k EXCEPT !.pc = "handle", !.watch = "check"]
  <2>1. Set(c, v) /\ AcquireInflight
    BY Zenon, <1>4
  <2>2. /\ DOMAIN v = ConFields /\ v.pc = "handle"
        /\ v.got = k.got /\ v.buf = k.buf /\ v.prefix = k.prefix /\ v.taken = k.taken
    BY Zenon, <1>1 DEF ConFields
  <2> HIDE DEF v
  <2>3. k.pc \notin Unserved /\ v.pc \notin Unserved
    BY Zenon, <1>2, <2>2 DEF Unserved
  <2> QED BY Zenon, <1>2, <1>3, <2>1, <2>2, <2>3, TurnSlot
<1>5. CASE UNCHANGED inflight /\ Set(c, [k EXCEPT !.pc = "close"])
  <2> DEFINE v == [k EXCEPT !.pc = "close"]
  <2>1. Set(c, v) /\ UNCHANGED inflight
    BY Zenon, <1>5
  <2>2. /\ DOMAIN v = ConFields /\ v.pc = "close" /\ v.watch = k.watch
        /\ v.got = k.got /\ v.buf = k.buf /\ v.prefix = k.prefix /\ v.taken = k.taken
    BY Zenon, <1>1 DEF ConFields
  <2> HIDE DEF v
  <2>3. k.pc \notin Unserved /\ v.pc \notin Unserved
    BY Zenon, <1>2, <2>2 DEF Unserved
  <2> QED BY Zenon, <1>2, <1>3, <2>1, <2>2, <2>3, Turn
<1> QED BY Zenon, <1>4, <1>5 DEF ConnAdmit, InflightFull

LEMMA ConnJoinKeeps ==
  ASSUME Counted, NEW c \in Conns, ConnJoin(c)
  PROVE  Counted'
<1> DEFINE k == con[c]
           v == [k EXCEPT !.pc = "act", !.deadline = "none", !.done = FALSE, !.stop = FALSE]
<1>1. DOMAIN k = ConFields
  BY Zenon, Known
<1>2. Set(c, v) /\ k.pc = "join" /\ k.watch = "off" /\ ReleaseInflight /\ TCPFrame
  BY Zenon DEF ConnJoin, At
<1>3. /\ DOMAIN v = ConFields /\ v.pc = "act" /\ v.watch = k.watch
      /\ v.got = k.got /\ v.buf = k.buf /\ v.prefix = k.prefix /\ v.taken = k.taken
  BY Zenon, <1>1 DEF ConFields
<1> HIDE DEF v
<1>4. k.pc \notin Unserved /\ v.pc \notin Unserved
  BY Zenon, <1>2, <1>3 DEF Unserved
<1> QED BY Zenon, <1>2, <1>3, <1>4, TurnSlot

-----------------------------------------------------------------------------
(* The wait group and the connection table.                                *)

\* A loop counts for one in the wait group while it runs.
LEMMA RunningType == \A l : Running(l) \in {0, 1} /\ (l.pc # "off" => Running(l) = 1)
BY Zenon DEF Running

\* While anything runs the wait group is not zero, and so nobody has drained.
LEMMA Busy ==
  ASSUME Counted, \/ udp.pc # "off" \/ tcp.pc # "off"
                  \/ \E p \in Packets : Live(p)
                  \/ \E c \in Conns : Served(c)
  PROVE  \A s \in Callers : call[s].result # "drained"
<1> DEFINE L == LivePackets
           C == conns
           U == Running(udp)
           T == Running(tcp)
<1>1. conns = {c \in Conns : Served(c)} /\ wg = U + T + Count(L) + Count(C)
  BY Zenon, Parts DEF Group, Table, ConnTableExact
<1>2. C \in SUBSET Conns
  BY Zenon, <1>1
<1>3. IsFiniteSet(L) /\ Count(L) \in Nat /\ IsFiniteSet(C) /\ Count(C) \in Nat
  BY Zenon, <1>2, Finite
<1>4. U \in {0, 1} /\ T \in {0, 1}
  BY Zenon, RunningType
<1>5. U = 1 \/ T = 1 \/ L # {} \/ C # {}
  BY Zenon, <1>1, RunningType DEF LivePackets
<1> HIDE DEF L, C, U, T
<1>6. (L # {} => Count(L) # 0) /\ (C # {} => Count(C) # 0)
  BY Zenon, <1>3, FS_EmptySet DEF Count
<1>7. wg # 0
  <2> DEFINE l == Count(L)
             n == Count(C)
  <2>1. l \in Nat /\ n \in Nat /\ wg = U + T + l + n
    BY Zenon, <1>1, <1>3
  <2>2. U = 1 \/ T = 1 \/ l # 0 \/ n # 0
    BY Zenon, <1>5, <1>6
  <2> HIDE DEF l, n
  <2> QED BY <1>4, <2>1, <2>2
<1> QED BY Zenon, <1>7 DEF Counted

\* Connection c, and nobody else, is registered or let go.
Others(c) == \A d \in Conns \ {c} : con'[d] = con[d]

\* A connection the caps allow joins the table.
LEMMA TableJoins ==
  ASSUME Table, cfg \in Settings, cfg' = cfg, NEW c \in Conns, Others(c), ~Served(c), Served(c)', TCPAllowed(c),
         conns' = conns \cup {c}, ipCount' = [ipCount EXCEPT ![PeerOf(c)] = @ + 1]
  PROVE  Table' /\ Count(conns') = Count(conns) + 1
<1>1. /\ conns = {d \in Conns : Served(d)} /\ DOMAIN ipCount = Addrs
      /\ \A a \in Addrs : /\ ipCount[a] = Count({d \in conns : PeerOf(d) = a})
                          /\ a # NoAddr => ipCount[a] <= cfg.perIP
  BY Zenon DEF Table, ConnTableExact
<1>2. conns' = {d \in Conns : Served(d)}' /\ c \notin conns /\ conns \in SUBSET Conns
  <2>1. \A d \in Conns \ {c} : Served(d)' <=> Served(d)
    BY Zenon DEF Others, Served
  <2> QED BY Zenon, <1>1, <2>1
<1>3. IsFiniteSet(conns) /\ Count(conns) \in Nat
  BY Zenon, <1>2, Finite
<1>4. Count(conns') = Count(conns) + 1
  BY Zenon, <1>2, <1>3, Joins
<1>5. cfg.conns \in Nat /\ cfg.perIP \in Nat
  BY Zenon, CapAssumption
<1>6. Count(conns') <= cfg'.conns
  <2>1. Count(conns) < cfg.conns
    BY Zenon DEF TCPAllowed, Count
  <2>2. \A m, n \in Nat : m < n => m + 1 <= n
    OBVIOUS
  <2> QED BY Zenon, <1>3, <1>4, <1>5, <2>1, <2>2
<1>7. Addrs' = Addrs /\ \A d : PeerOf(d)' = PeerOf(d)
  BY Zenon DEF Addrs, PeerOf
<1>8. DOMAIN ipCount' = Addrs'
  BY Zenon, <1>1, <1>7
<1>9. ASSUME NEW a \in Addrs
      PROVE  /\ ipCount'[a] = Count({d \in conns : PeerOf(d) = a}')
             /\ a # NoAddr => ipCount'[a] <= cfg'.perIP
  <2> DEFINE S == {d \in conns : PeerOf(d) = a}
  <2>1. S \in SUBSET Conns
    BY Zenon, <1>2
  <2>2. IsFiniteSet(S) /\ Count(S) \in Nat /\ ipCount[a] = Count(S)
    BY Zenon, <1>1, <2>1, Finite
  <2>3. CASE a = PeerOf(c)
    <3>1. {d \in conns : PeerOf(d) = a}' = S \cup {c} /\ c \notin S
      BY Zenon, <1>2, <1>7, <2>3
    <3>2. ipCount'[a] = ipCount[a] + 1
      BY Zenon, <1>1, <2>3
    <3>3. a # NoAddr => ipCount[a] < cfg.perIP
      BY Zenon, <2>3 DEF TCPAllowed
    <3> HIDE DEF S
    <3>4. Count(S \cup {c}) = Count(S) + 1
      BY Zenon, <2>2, <3>1, Joins
    <3>5. \A m, n \in Nat : m < n => m + 1 <= n
      OBVIOUS
    <3>6. a # NoAddr => ipCount'[a] <= cfg.perIP
      BY Zenon, <1>5, <2>2, <3>2, <3>3, <3>5
    <3> QED BY Zenon, <2>2, <3>1, <3>2, <3>4, <3>6
  <2>4. CASE a # PeerOf(c)
    <3>1. {d \in conns : PeerOf(d) = a}' = S
      BY Zenon, <1>2, <1>7, <2>4
    <3>2. ipCount'[a] = ipCount[a]
      BY Zenon, <1>1, <2>4
    <3> QED BY Zenon, <1>1, <2>2, <3>1, <3>2
  <2> QED BY Zenon, <2>3, <2>4
<1>10. ConnTableExact'
  BY Zenon, <1>2, <1>6, <1>7, <1>9 DEF ConnTableExact
<1> QED BY Zenon, <1>4, <1>8, <1>10 DEF Table

\* A connection that ends leaves the table, and its peer's count with it.
LEMMA TableLeaves ==
  ASSUME Table, cfg \in Settings, cfg' = cfg, NEW c \in Conns, Others(c), Served(c), ~Served(c)',
         conns' = conns \ {c},
         ipCount' = [ipCount EXCEPT ![PeerOf(c)] = IF @ <= 1 THEN 0 ELSE @ - 1]
  PROVE  Table' /\ Count(conns') = Count(conns) - 1
<1>1. /\ conns = {d \in Conns : Served(d)} /\ DOMAIN ipCount = Addrs /\ Count(conns) <= cfg.conns
      /\ \A a \in Addrs : /\ ipCount[a] = Count({d \in conns : PeerOf(d) = a})
                          /\ a # NoAddr => ipCount[a] <= cfg.perIP
  BY Zenon DEF Table, ConnTableExact
<1>2. conns' = {d \in Conns : Served(d)}' /\ c \in conns /\ conns \in SUBSET Conns
  <2>1. \A d \in Conns \ {c} : Served(d)' <=> Served(d)
    BY Zenon DEF Others, Served
  <2> QED BY Zenon, <1>1, <2>1
<1>3. IsFiniteSet(conns) /\ Count(conns) \in Nat
  BY Zenon, <1>2, Finite
<1>4. Count(conns') = Count(conns) - 1
  BY Zenon, <1>2, <1>3, Leaves
<1>5. cfg.conns \in Nat /\ cfg.perIP \in Nat
  BY Zenon, CapAssumption
<1>6. Count(conns') <= cfg'.conns
  <2>1. \A m, n \in Nat : m <= n => m - 1 <= n
    OBVIOUS
  <2> QED BY Zenon, <1>1, <1>3, <1>4, <1>5, <2>1
<1>7. Addrs' = Addrs /\ \A d : PeerOf(d)' = PeerOf(d)
  BY Zenon DEF Addrs, PeerOf
<1>8. DOMAIN ipCount' = Addrs'
  BY Zenon, <1>1, <1>7
<1>9. ASSUME NEW a \in Addrs
      PROVE  /\ ipCount'[a] = Count({d \in conns : PeerOf(d) = a}')
             /\ a # NoAddr => ipCount'[a] <= cfg'.perIP
  <2> DEFINE S == {d \in conns : PeerOf(d) = a}
  <2>1. S \in SUBSET Conns
    BY Zenon, <1>2
  <2>2. IsFiniteSet(S) /\ Count(S) \in Nat /\ ipCount[a] = Count(S)
    BY Zenon, <1>1, <2>1, Finite
  <2>3. CASE a = PeerOf(c)
    <3>1. {d \in conns : PeerOf(d) = a}' = S \ {c} /\ c \in S
      BY Zenon, <1>2, <1>7, <2>3
    <3>2. ipCount'[a] = IF ipCount[a] <= 1 THEN 0 ELSE ipCount[a] - 1
      BY Zenon, <1>1, <2>3
    <3> HIDE DEF S
    <3>3. Count(S \ {c}) = Count(S) - 1 /\ Count(S) > 0
      BY Zenon, <2>2, <3>1, Leaves
    <3>4. ipCount'[a] = Count(S) - 1
      BY <2>2, <3>2, <3>3
    <3>5. \A m, n \in Nat : m <= n => m - 1 <= n
      OBVIOUS
    <3>6. a # NoAddr => Count(S) <= cfg.perIP
      BY Zenon, <1>1, <2>2
    <3>7. a # NoAddr => Count(S) - 1 <= cfg.perIP
      BY Zenon, <1>5, <2>2, <3>5, <3>6
    <3> QED BY Zenon, <3>1, <3>3, <3>4, <3>7
  <2>4. CASE a # PeerOf(c)
    <3>1. {d \in conns : PeerOf(d) = a}' = S
      BY Zenon, <1>2, <1>7, <2>4
    <3>2. ipCount'[a] = ipCount[a]
      BY Zenon, <1>1, <2>4
    <3> QED BY Zenon, <1>1, <2>2, <3>1, <3>2
  <2> QED BY Zenon, <2>3, <2>4
<1>10. ConnTableExact'
  BY Zenon, <1>2, <1>6, <1>7, <1>9 DEF ConnTableExact
<1> QED BY Zenon, <1>4, <1>8, <1>10 DEF Table

-----------------------------------------------------------------------------
(* The TCP loop and the end of a connection.                               *)

\* A step of the accept loop hands one connection over.
LEMMA LoopShape ==
  ASSUME Shape, NEW c \in Conns, NEW STATE v, Set(c, v),
         UNCHANGED <<socks, cfg, udp, pkt, call>>, Kept(v), v.pc # "backlog", started,
         InHand(tcp', con')
  PROVE  Shape'
<1>1. DOMAIN con' = Conns /\ con'[c] = v /\ \A d \in Conns \ {c} : con'[d] = con[d]
  BY Zenon, SetParts
<1>2. /\ started' = started /\ stopped' = stopped /\ tcpOpen' = tcpOpen
      /\ cfg' = cfg /\ udp' = udp /\ pkt' = pkt /\ call' = call
  BY Zenon DEF socks
<1>3. \A d \in Conns : Kept(con'[d]) /\ (con'[d].pc = "backlog" => tcpOpen')
  <2>1. \A d \in Conns : Kept(con[d]) /\ (con[d].pc = "backlog" => tcpOpen)
    BY Zenon DEF Shape
  <2> QED BY Zenon, <1>1, <1>2, <2>1
<1>4. /\ cfg' \in Settings /\ DOMAIN pkt' = Packets /\ DOMAIN call' = Callers
      /\ \A s \in Callers : Stops(call'[s], stopped', tcpOpen')
  BY Zenon, <1>2 DEF Shape
<1>5. /\ \A p \in Packets : /\ DOMAIN pkt'[p] = {"pc", "req", "reply"}
                           /\ p \in udp'.p => pkt'[p].pc = "read"
      /\ udp' \in [pc : {"off", "read", "admit"}, p : SUBSET Packets]
  BY Zenon, <1>2 DEF Shape
<1>6. /\ tcp' \in [pc : {"off", "accept", "acquire"}, c : SUBSET Conns]
      /\ tcp'.c = {d \in Conns : con'[d].pc = "accepted"} /\ \A d, e \in tcp'.c : d = e
      /\ tcp'.pc # "acquire" => tcp'.c = {}
  BY Zenon DEF InHand
<1>7. started'
  BY Zenon, <1>2
<1> QED BY Zenon, <1>1, <1>3, <1>4, <1>5, <1>6, <1>7 DEF Shape

\* The counts of the wait group, as one of them changes.
LEMMA Tally ==
  ASSUME Counted
  PROVE  /\ wg + 1 = Running(udp) + Running(tcp) + (Count(LivePackets) + 1) + Count(conns)
         /\ wg + 1 = Running(udp) + Running(tcp) + Count(LivePackets) + (Count(conns) + 1)
         /\ wg - 1 = Running(udp) + Running(tcp) + (Count(LivePackets) - 1) + Count(conns)
         /\ wg - 1 = Running(udp) + Running(tcp) + Count(LivePackets) + (Count(conns) - 1)
         /\ Running(udp) = 1 => wg - 1 = 0 + Running(tcp) + Count(LivePackets) + Count(conns)
         /\ Running(tcp) = 1 => wg - 1 = Running(udp) + 0 + Count(LivePackets) + Count(conns)
         /\ Running(udp) = 0 /\ Running(tcp) = 0 => wg + 2 = 1 + 1 + Count(LivePackets) + Count(conns)
<1> DEFINE u == Running(udp)
           t == Running(tcp)
           l == Count(LivePackets)
           n == Count(conns)
<1>1. conns \in SUBSET Conns
  BY Zenon DEF Counted, ConnTableExact
<1>2. u \in {0, 1} /\ t \in {0, 1} /\ l \in Nat /\ n \in Nat
  BY Zenon, <1>1, Finite, RunningType
<1>3. wg = u + t + l + n
  BY Zenon, Parts DEF Group
<1> HIDE DEF u, t, l, n
<1>4. /\ wg + 1 = u + t + (l + 1) + n /\ wg + 1 = u + t + l + (n + 1)
      /\ wg - 1 = u + t + (l - 1) + n /\ wg - 1 = u + t + l + (n - 1)
      /\ u = 1 => wg - 1 = 0 + t + l + n
      /\ t = 1 => wg - 1 = u + 0 + l + n
      /\ u = 0 /\ t = 0 => wg + 2 = 1 + 1 + l + n
  BY <1>2, <1>3
<1> QED BY Zenon, <1>4 DEF u, t, l, n

\* Datagrams that do not change are counted as before.
LEMMA SameLive ==
  ASSUME pkt' = pkt
  PROVE  LivePackets' = LivePackets /\ HandledPackets' = HandledPackets
         /\ \A p \in Packets : (Handled(p)' <=> Handled(p)) /\ (Live(p)' <=> Live(p))
BY Zenon DEF LivePackets, HandledPackets, Handled, Live

LEMMA TCPAcceptKeeps ==
  ASSUME Counted, NEW c \in Conns, TCPAccept(c)
  PROVE  Counted'
<1> DEFINE k == con[c]
           v == [k EXCEPT !.pc = "accepted"]
<1>1. Kept(k) /\ DOMAIN k = ConFields
  BY Zenon, Known
<1>2. Shape /\ Slots /\ Table /\ Drained /\ Group
  BY Zenon, Parts
<1>3. /\ Set(c, v) /\ k.pc = "backlog" /\ tcp.pc = "accept" /\ tcp' = [pc |-> "acquire", c |-> {c}]
      /\ UNCHANGED socks /\ inflight' = inflight /\ UNCHANGED table /\ wg' = wg /\ udp' = udp
      /\ pkt' = pkt /\ call' = call
  BY Zenon DEF TCPAccept, At
<1>4. /\ DOMAIN v = ConFields /\ v.pc = "accepted" /\ v.got = k.got /\ v.buf = k.buf
      /\ v.prefix = k.prefix /\ v.taken = k.taken /\ v.watch = k.watch
  BY Zenon, <1>1 DEF ConFields
<1> HIDE DEF v
<1>5. k.watch = "off"
  BY Zenon, <1>1, <1>3 DEF Kept
<1>6. Kept(v)
  BY Zenon, <1>1, <1>4, <1>5, Elsewhere
<1>7. DOMAIN con' = Conns /\ con'[c] = v /\ \A d \in Conns \ {c} : con'[d] = con[d]
  BY Zenon, <1>2, <1>3, SetParts
<1>8. tcp'.pc = "acquire" /\ tcp'.c = {c} /\ tcp' \in [pc : {"off", "accept", "acquire"}, c : SUBSET Conns]
  BY <1>3
<1>9. {d \in Conns : con[d].pc = "accepted"} = {} /\ started
  <2>1. tcp.pc # "acquire" /\ tcp.pc # "off"
    BY Zenon, <1>3
  <2> QED BY Zenon, <1>2, <2>1 DEF Shape
<1>10. tcp'.c = {d \in Conns : con'[d].pc = "accepted"}
  <2>1. \A d \in Conns : con'[d].pc = "accepted" <=> d = c
    BY Zenon, <1>4, <1>7, <1>9
  <2> QED BY Zenon, <1>8, <2>1
<1>11. \A d, e \in tcp'.c : d = e
  BY Zenon, <1>8
<1>12. UNCHANGED <<socks, cfg, udp, pkt, call>>
  BY Zenon, <1>3 DEF table
<1>13. v.pc # "backlog" /\ (tcp'.pc # "acquire" => tcp'.c = {})
  BY Zenon, <1>4, <1>8
<1>14. Shape'
  <2>1. InHand(tcp', con')
    BY Zenon, <1>8, <1>10, <1>11, <1>13 DEF InHand
  <2> QED BY Zenon, <1>2, <1>3, <1>6, <1>9, <1>12, <1>13, <2>1, LoopShape
<1>15. \A d \in Conns : (Holding(d)' <=> Holding(d)) /\ (Served(d)' <=> Served(d))
  BY Zenon, <1>3, <1>4, <1>7 DEF Holding, Served
<1>16. Slots' /\ Table' /\ Drained'
  BY Zenon, <1>2, <1>3, <1>15, SameSlots, SameTable, SameLive DEF Drained
<1>17. Running(tcp)' = Running(tcp) /\ conns' = conns
  BY Zenon, <1>3, <1>8 DEF Running, table
<1>18. Group'
  BY Zenon, <1>2, <1>3, <1>17, SameLive, SameGroup
<1> QED BY Zenon, <1>14, <1>16, <1>18, Whole

LEMMA TCPAcquireKeeps ==
  ASSUME Counted, NEW c \in Conns, TCPAcquire(c)
  PROVE  Counted'
<1> DEFINE k == con[c]
<1>1. Kept(k) /\ DOMAIN k = ConFields
  BY Zenon, Known
<1>2. Shape /\ Slots /\ Table /\ Drained /\ Group
  BY Zenon, Parts
<1>3. /\ c \in tcp.c /\ tcp.pc = "acquire" /\ tcp' = [pc |-> "accept", c |-> {}]
      /\ UNCHANGED socks /\ inflight' = inflight /\ cfg' = cfg /\ udp' = udp
      /\ pkt' = pkt /\ call' = call
  BY Zenon DEF TCPAcquire
<1>4. /\ k.pc = "accepted" /\ started /\ cfg \in Settings
      /\ \A d \in Conns \ {c} : con[d].pc # "accepted"
  <2>1. tcp.pc # "off"
    BY Zenon, <1>3
  <2> QED BY Zenon, <1>2, <1>3, <2>1 DEF Shape
<1>5. k.watch = "off"
  BY Zenon, <1>1, <1>4 DEF Kept
<1>6. /\ tcp'.pc = "accept" /\ tcp'.c = {}
      /\ tcp' \in [pc : {"off", "accept", "acquire"}, c : SUBSET Conns]
  BY <1>3
<1>7. Running(tcp)' = Running(tcp)
  BY Zenon, <1>3, <1>6 DEF Running
<1>8. ASSUME NEW STATE v, Set(c, v), Kept(v), v.pc \in {"top", "done"}
      PROVE  Shape' /\ Slots' /\ Others(c) /\ con'[c] = v
  <2>1. DOMAIN con' = Conns /\ con'[c] = v /\ \A d \in Conns \ {c} : con'[d] = con[d]
    BY Zenon, <1>2, <1>8, SetParts
  <2>2. v.pc # "backlog" /\ v.pc # "accepted"
    BY Zenon, <1>8
  <2>3. tcp'.c = {d \in Conns : con'[d].pc = "accepted"}
    <3>1. \A d \in Conns : con'[d].pc # "accepted"
      BY Zenon, <1>4, <2>1, <2>2
    <3> QED BY Zenon, <1>6, <3>1
  <2>4. \A d, e \in tcp'.c : d = e
    BY Zenon, <1>6
  <2>5. UNCHANGED <<socks, cfg, udp, pkt, call>>
    BY Zenon, <1>3
  <2>6. Shape'
    <3>1. InHand(tcp', con')
      BY Zenon, <1>6, <2>3, <2>4 DEF InHand
    <3> QED BY Zenon, <1>2, <1>4, <1>8, <2>2, <2>5, <3>1, LoopShape
  <2>7. \A d \in Conns : Holding(d)' <=> Holding(d)
    BY Zenon, <1>4, <1>8, <2>1 DEF Holding
  <2>8. Slots'
    BY Zenon, <1>2, <1>3, <2>7, SameSlots, SameLive
  <2> QED BY Zenon, <2>1, <2>6, <2>8 DEF Others
<1>9. CASE TCPAllowed(c)
  <2> DEFINE v == [k EXCEPT !.pc = "top"]
  <2>1. /\ Set(c, v) /\ conns' = conns \cup {c} /\ wg' = wg + 1
        /\ ipCount' = [ipCount EXCEPT ![PeerOf(c)] = @ + 1]
    BY Zenon, <1>9 DEF TCPAcquire
  <2>2. /\ DOMAIN v = DOMAIN k /\ v.pc = "top" /\ v.got = k.got /\ v.buf = k.buf
        /\ v.prefix = k.prefix /\ v.taken = k.taken /\ v.watch = k.watch
    BY Zenon, <1>1 DEF ConFields
  <2> HIDE DEF v
  <2>3. Kept(v)
    BY Zenon, <1>1, <1>5, <2>2, Elsewhere
  <2>4. Shape' /\ Slots' /\ Others(c) /\ con'[c] = v
    BY Zenon, <1>8, <2>1, <2>2, <2>3
  <2>5. ~Served(c) /\ Served(c)'
    BY Zenon, <1>4, <2>2, <2>4 DEF Served
  <2>6. Table' /\ Count(conns') = Count(conns) + 1
    BY Zenon, <1>2, <1>3, <1>4, <1>9, <2>1, <2>4, <2>5, TableJoins
  <2>7. wg + 1 = Running(udp) + Running(tcp) + Count(LivePackets) + (Count(conns) + 1)
    BY Zenon, Tally
  <2>8. LivePackets' = LivePackets /\ Running(udp)' = Running(udp)
    BY Zenon, <1>3, SameLive
  <2>9. Group'
    BY Zenon, <1>7, <2>1, <2>6, <2>7, <2>8 DEF Group
  <2>10. \A s \in Callers : call[s].result # "drained"
    BY Zenon, <1>3, Busy
  <2>11. Drained'
    BY Zenon, <1>3, <2>10 DEF Drained
  <2> QED BY Zenon, <2>4, <2>6, <2>9, <2>11, Whole
<1>10. CASE ~TCPAllowed(c)
  <2> DEFINE v == [k EXCEPT !.pc = "done", !.open = FALSE]
  <2>1. Set(c, v) /\ conns' = conns /\ wg' = wg /\ ipCount' = ipCount
    BY Zenon, <1>10 DEF TCPAcquire
  <2>2. /\ DOMAIN v = DOMAIN k /\ v.pc = "done" /\ v.got = k.got /\ v.buf = k.buf /\ v.open = FALSE
        /\ v.prefix = k.prefix /\ v.taken = k.taken /\ v.watch = k.watch
    BY Zenon, <1>1 DEF ConFields
  <2> HIDE DEF v
  <2>3. Kept(v)
    BY Zenon, <1>1, <1>5, <2>2, Elsewhere
  <2>4. Shape' /\ Slots' /\ Others(c) /\ con'[c] = v
    BY Zenon, <1>8, <2>1, <2>2, <2>3
  <2>5. \A d \in Conns : Served(d)' <=> Served(d)
    BY Zenon, <1>4, <2>2, <2>4 DEF Served, Others
  <2>6. Table' /\ Drained'
    BY Zenon, <1>2, <1>3, <2>1, <2>5, SameTable DEF Drained, table
  <2>7. Group'
    BY Zenon, <1>2, <1>3, <1>7, <2>1, SameLive, SameGroup
  <2> QED BY Zenon, <2>4, <2>6, <2>7, Whole
<1> QED BY Zenon, <1>9, <1>10

LEMMA ReleaseTCPKeeps ==
  ASSUME Counted, NEW c \in Conns, ReleaseTCP(c)
  PROVE  Counted'
<1> DEFINE v == [NoConn EXCEPT !.pc = "done"]
<1>1. Shape /\ Slots /\ Table /\ Drained /\ Group
  BY Zenon, Parts
<1>2. /\ con[c].pc = "close" /\ Set(c, v) /\ conns' = conns \ {c} /\ wg' = wg - 1
      /\ ipCount' = [ipCount EXCEPT ![PeerOf(c)] = IF @ <= 1 THEN 0 ELSE @ - 1]
      /\ UNCHANGED socks /\ inflight' = inflight /\ cfg' = cfg /\ udp' = udp /\ tcp' = tcp
      /\ pkt' = pkt /\ call' = call
  BY Zenon DEF ReleaseTCP, At
<1>3. /\ DOMAIN v = DOMAIN NoConn /\ v.pc = "done" /\ v.got = 0 /\ v.buf = <<>> /\ v.open = FALSE
      /\ v.prefix = <<>> /\ v.taken = 0 /\ v.watch = "off"
  BY Zenon, Fresh DEF ConFields
<1> HIDE DEF v
<1>4. 0 \in Nat
  OBVIOUS
<1>5. Kept(v)
  BY Zenon, <1>3, <1>4 DEF Kept, Stream
<1>6. DOMAIN con' = Conns /\ con'[c] = v /\ \A d \in Conns \ {c} : con'[d] = con[d]
  BY Zenon, <1>1, <1>2, SetParts
<1>7. UNCHANGED <<socks, cfg, udp, tcp, pkt, call>>
  BY Zenon, <1>2
<1>8. v.pc # "backlog" /\ v.pc # "accepted" /\ con[c].pc # "accepted"
  BY Zenon, <1>2, <1>3
<1>9. Shape'
  BY Zenon, <1>1, <1>2, <1>5, <1>7, <1>8, ConShape
<1>10. \A d \in Conns : Holding(d)' <=> Holding(d)
  BY Zenon, <1>2, <1>3, <1>6 DEF Holding
<1>11. Slots'
  BY Zenon, <1>1, <1>2, <1>10, SameSlots, SameLive
<1>12. Served(c) /\ ~Served(c)' /\ Others(c) /\ cfg \in Settings
  BY Zenon, <1>1, <1>2, <1>3, <1>6 DEF Served, Others, Shape
<1>13. Table' /\ Count(conns') = Count(conns) - 1
  BY Zenon, <1>1, <1>2, <1>12, TableLeaves
<1>14. wg - 1 = Running(udp) + Running(tcp) + Count(LivePackets) + (Count(conns) - 1)
  BY Zenon, Tally
<1>15. LivePackets' = LivePackets /\ Running(udp)' = Running(udp) /\ Running(tcp)' = Running(tcp)
  BY Zenon, <1>2, SameLive
<1>16. Group'
  BY Zenon, <1>2, <1>13, <1>14, <1>15 DEF Group
<1>17. \A s \in Callers : call[s].result # "drained"
  BY Zenon, <1>12, Busy
<1>18. Drained'
  BY Zenon, <1>2, <1>17 DEF Drained
<1> QED BY Zenon, <1>9, <1>11, <1>13, <1>16, <1>18, Whole

-----------------------------------------------------------------------------
(* The loops and the datagrams.                                            *)

LEMMA TCPExitKeeps ==
  ASSUME Counted, TCPExit
  PROVE  Counted'
<1>1. Shape /\ Slots /\ Table /\ Drained /\ Group
  BY Zenon, Parts
<1>2. /\ tcp.pc = "accept" /\ tcp' = [tcp EXCEPT !.pc = "off"] /\ wg' = wg - 1
      /\ UNCHANGED socks /\ inflight' = inflight /\ UNCHANGED table /\ udp' = udp /\ pkt' = pkt
      /\ con' = con /\ call' = call
  BY Zenon DEF TCPExit
<1>3. /\ cfg' = cfg /\ conns' = conns /\ started' = started /\ stopped' = stopped
      /\ tcpOpen' = tcpOpen
  BY Zenon, <1>2 DEF table, socks
<1>4. tcp \in [pc : {"off", "accept", "acquire"}, c : SUBSET Conns]
  BY Zenon, <1>1 DEF Shape
<1>5. /\ tcp' \in [pc : {"off", "accept", "acquire"}, c : SUBSET Conns] /\ tcp'.pc = "off"
      /\ tcp'.c = tcp.c
  BY <1>2, <1>4
<1>6. tcp.c = {}
  BY Zenon, <1>1, <1>2 DEF Shape
<1>7. Shape'
  BY Zenon, <1>1, <1>2, <1>3, <1>5, <1>6 DEF Shape
<1>8. \A d \in Conns : (Holding(d)' <=> Holding(d)) /\ (Served(d)' <=> Served(d))
  BY Zenon, <1>2 DEF Holding, Served
<1>9. Slots' /\ Table'
  BY Zenon, <1>1, <1>2, <1>8, SameSlots, SameTable, SameLive
<1>10. Running(tcp) = 1 /\ Running(tcp)' = 0 /\ Running(udp)' = Running(udp)
  BY Zenon, <1>2, <1>5 DEF Running
<1>11. LivePackets' = LivePackets
  BY Zenon, <1>2, SameLive
<1>12. wg' = Running(udp) + 0 + Count(LivePackets) + Count(conns)
  BY Zenon, <1>2, <1>10, Tally
<1>13. Group'
  BY Zenon, <1>3, <1>10, <1>11, <1>12 DEF Group
<1>14. \A s \in Callers : call[s].result # "drained"
  <2>1. tcp.pc # "off"
    BY Zenon, <1>2
  <2> QED BY Zenon, <2>1, Busy
<1>15. Drained'
  BY Zenon, <1>2, <1>14 DEF Drained
<1> QED BY Zenon, <1>7, <1>9, <1>13, <1>15, Whole

UDPFrame == UNCHANGED <<socks, table, tcp, con, call>>

\* A step of the datagram loop leaves the rest in shape.
LEMMA UDPShape ==
  ASSUME Shape, UDPFrame, DOMAIN pkt' = Packets,
         \A p \in Packets : /\ DOMAIN pkt'[p] = {"pc", "req", "reply"}
                            /\ p \in udp'.p => pkt'[p].pc = "read",
         udp' \in [pc : {"off", "read", "admit"}, p : SUBSET Packets],
         started \/ udp'.pc = "off"
  PROVE  Shape'
<1>1. /\ started' = started /\ stopped' = stopped /\ tcpOpen' = tcpOpen
      /\ cfg' = cfg /\ tcp' = tcp /\ con' = con /\ call' = call
  BY Zenon DEF UDPFrame, socks, table
<1> QED BY Zenon, <1>1 DEF Shape

\* What UDPFrame leaves as it was.
LEMMA UDPSame ==
  ASSUME Counted, UDPFrame
  PROVE  /\ Table' /\ call' = call /\ con' = con /\ conns' = conns
         /\ Running(tcp)' = Running(tcp)
         /\ \A c \in Conns : Holding(c)' <=> Holding(c)
<1>1. Table /\ UNCHANGED table
  BY Zenon, Parts DEF UDPFrame
<1>2. con' = con /\ call' = call /\ tcp' = tcp /\ conns' = conns
  BY Zenon DEF UDPFrame, table
<1>3. \A d \in Conns : (Holding(d)' <=> Holding(d)) /\ (Served(d)' <=> Served(d))
  BY Zenon, <1>2 DEF Holding, Served
<1>4. Table'
  BY Zenon, <1>1, <1>3, SameTable
<1> QED BY Zenon, <1>2, <1>3, <1>4

LEMMA UDPExitKeeps ==
  ASSUME Counted, UDPExit
  PROVE  Counted'
<1>1. Shape /\ Slots /\ Table /\ Drained /\ Group
  BY Zenon, Parts
<1>2. /\ udp.pc = "read" /\ udp' = [udp EXCEPT !.pc = "off"] /\ wg' = wg - 1
      /\ UDPFrame /\ inflight' = inflight /\ pkt' = pkt
  BY Zenon DEF UDPExit, UDPFrame
<1>3. udp \in [pc : {"off", "read", "admit"}, p : SUBSET Packets]
  BY Zenon, <1>1 DEF Shape
<1>4. /\ udp' \in [pc : {"off", "read", "admit"}, p : SUBSET Packets] /\ udp'.pc = "off"
      /\ udp'.p = udp.p
  BY <1>2, <1>3
<1>5. /\ DOMAIN pkt' = Packets
      /\ \A p \in Packets : /\ DOMAIN pkt'[p] = {"pc", "req", "reply"}
                            /\ p \in udp'.p => pkt'[p].pc = "read"
  BY Zenon, <1>1, <1>2, <1>4 DEF Shape
<1>6. Shape'
  BY Zenon, <1>1, <1>2, <1>4, <1>5, UDPShape
<1>7. Table' /\ call' = call /\ conns' = conns /\ Running(tcp)' = Running(tcp)
  BY Zenon, <1>2, UDPSame
<1>8. Slots'
  BY Zenon, <1>1, <1>2, UDPSame, SameSlots, SameLive
<1>9. Running(udp) = 1 /\ Running(udp)' = 0
  BY Zenon, <1>2, <1>4 DEF Running
<1>10. LivePackets' = LivePackets
  BY Zenon, <1>2, SameLive
<1>11. wg' = 0 + Running(tcp) + Count(LivePackets) + Count(conns)
  BY Zenon, <1>2, <1>9, Tally
<1>12. Group'
  BY Zenon, <1>7, <1>9, <1>10, <1>11 DEF Group
<1>13. \A s \in Callers : call[s].result # "drained"
  <2>1. udp.pc # "off"
    BY Zenon, <1>2
  <2> QED BY Zenon, <2>1, Busy
<1>14. Drained'
  BY Zenon, <1>7, <1>13 DEF Drained
<1> QED BY Zenon, <1>6, <1>7, <1>8, <1>12, <1>14, Whole

\* Datagram p, and no other, moves on.
Rests(p) == \A q \in Packets \ {p} : pkt'[q] = pkt[q]

\* A datagram's goroutine starts, ends or goes on.
LEMMA LiveMoves ==
  ASSUME NEW p \in Packets, Rests(p)
  PROVE  /\ (Live(p)' <=> Live(p)) => LivePackets' = LivePackets
         /\ ~Live(p) /\ Live(p)' => Count(LivePackets') = Count(LivePackets) + 1
         /\ Live(p) /\ ~Live(p)' => Count(LivePackets') = Count(LivePackets) - 1
<1> DEFINE L == LivePackets
<1>1. \A q \in Packets \ {p} : Live(q)' <=> Live(q)
  BY Zenon DEF Live, Rests
<1>2. (Live(p)' <=> Live(p)) => LivePackets' = LivePackets
  BY Zenon, <1>1 DEF LivePackets
<1>3. ~Live(p) /\ Live(p)' => LivePackets' = L \cup {p} /\ p \notin L
  BY Zenon, <1>1 DEF LivePackets
<1>4. Live(p) /\ ~Live(p)' => LivePackets' = L \ {p} /\ p \in L
  BY Zenon, <1>1 DEF LivePackets
<1>5. IsFiniteSet(L)
  BY Zenon, Finite
<1> HIDE DEF L
<1>6. p \notin L => Count(L \cup {p}) = Count(L) + 1
  BY Zenon, <1>5, Joins
<1>7. p \in L => Count(L \ {p}) = Count(L) - 1
  BY Zenon, <1>5, Leaves
<1>8. ~Live(p) /\ Live(p)' => Count(LivePackets') = Count(LivePackets) + 1
  BY Zenon, <1>3, <1>6 DEF L
<1>9. Live(p) /\ ~Live(p)' => Count(LivePackets') = Count(LivePackets) - 1
  BY Zenon, <1>4, <1>7 DEF L
<1> QED BY Zenon, <1>2, <1>8, <1>9

\* A step of one datagram leaves the others in shape.
LEMMA PacketShape ==
  ASSUME Shape, UDPFrame, NEW p \in Packets, Rests(p), DOMAIN pkt' = Packets,
         DOMAIN pkt'[p] = {"pc", "req", "reply"}, p \in udp'.p => pkt'[p].pc = "read",
         \A q \in Packets \ {p} : q \in udp'.p => q \in udp.p,
         udp' \in [pc : {"off", "read", "admit"}, p : SUBSET Packets],
         started \/ udp'.pc = "off"
  PROVE  Shape'
<1>1. \A q \in Packets : /\ DOMAIN pkt[q] = {"pc", "req", "reply"}
                         /\ q \in udp.p => pkt[q].pc = "read"
  BY Zenon DEF Shape
<1>2. \A q \in Packets : /\ DOMAIN pkt'[q] = {"pc", "req", "reply"}
                         /\ q \in udp'.p => pkt'[q].pc = "read"
  BY Zenon, <1>1 DEF Rests
<1> QED BY Zenon, <1>2, UDPShape

LEMMA UDPReadKeeps ==
  ASSUME Counted, NEW p \in Packets, NEW req \in Reqs, NEW pass \in BOOLEAN, UDPRead(p, req, pass)
  PROVE  Counted'
<1> DEFINE l == IF pass THEN "read" ELSE "done"
<1>1. Shape /\ Slots /\ Table /\ Drained /\ Group
  BY Zenon, Parts
<1>2. /\ udp.pc = "read" /\ pkt[p].pc = "new" /\ UDPFrame /\ inflight' = inflight /\ wg' = wg
      /\ pkt' = [pkt EXCEPT ![p].req = req, ![p].pc = l]
      /\ udp' = IF pass THEN [pc |-> "admit", p |-> {p}] ELSE udp
  BY Zenon DEF UDPRead, UDPFrame
<1>3. (pass => l = "read") /\ l \in {"read", "done"}
  BY Zenon
<1> HIDE DEF l
<1>4. DOMAIN pkt = Packets /\ DOMAIN pkt[p] = {"pc", "req", "reply"}
  BY Zenon, <1>1 DEF Shape
<1>5. DOMAIN pkt' = Packets /\ DOMAIN pkt'[p] = {"pc", "req", "reply"} /\ pkt'[p].pc = l /\ Rests(p)
  BY Zenon, <1>2, <1>4 DEF Rests
<1>6. /\ udp \in [pc : {"off", "read", "admit"}, p : SUBSET Packets] /\ p \notin udp.p /\ started
  <2>1. udp.pc # "off" /\ pkt[p].pc # "read"
    BY Zenon, <1>2
  <2> QED BY Zenon, <1>1, <2>1 DEF Shape
<1>7. /\ udp' \in [pc : {"off", "read", "admit"}, p : SUBSET Packets] /\ udp'.pc # "off"
      /\ udp'.p = IF pass THEN {p} ELSE udp.p
  <2>1. CASE pass
    <3>1. udp' = [pc |-> "admit", p |-> {p}]
      BY Zenon, <1>2, <2>1
    <3> QED BY <2>1, <3>1
  <2>2. CASE ~pass
    <3>1. udp' = udp
      BY Zenon, <1>2, <2>2
    <3> QED BY Zenon, <1>2, <1>6, <2>2, <3>1
  <2> QED BY Zenon, <2>1, <2>2
<1>8. /\ p \in udp'.p => pkt'[p].pc = "read"
      /\ \A q \in Packets \ {p} : q \in udp'.p => q \in udp.p
  BY Zenon, <1>3, <1>5, <1>6, <1>7
<1>9. Shape'
  BY Zenon, <1>1, <1>2, <1>5, <1>6, <1>7, <1>8, PacketShape
<1>10. Table' /\ call' = call /\ conns' = conns /\ Running(tcp)' = Running(tcp)
  BY Zenon, <1>2, UDPSame
<1>11. (Live(p)' <=> Live(p)) /\ ~Handled(p)' /\ ~Handled(p)
  BY Zenon, <1>2, <1>3, <1>5 DEF Live, Handled
<1>12. \A q \in Packets : (Handled(q)' <=> Handled(q)) /\ (Live(q)' <=> Live(q))
  BY Zenon, <1>5, <1>11 DEF Handled, Live, Rests
<1>13. Slots'
  BY Zenon, <1>1, <1>2, <1>12, UDPSame, SameSlots
<1>14. Running(udp)' = Running(udp)
  BY Zenon, <1>2, <1>7 DEF Running
<1>15. Group'
  BY Zenon, <1>1, <1>2, <1>10, <1>12, <1>14, SameGroup
<1>16. Drained'
  BY Zenon, <1>1, <1>2, <1>10 DEF Drained
<1> QED BY Zenon, <1>9, <1>10, <1>13, <1>15, <1>16, Whole

LEMMA UDPAdmitKeeps ==
  ASSUME Counted, NEW p \in Packets, NEW token \in BOOLEAN, UDPAdmit(p, token)
  PROVE  Counted'
<1>1. Shape /\ Slots /\ Table /\ Drained /\ Group
  BY Zenon, Parts
<1>2. udp.pc = "admit" /\ p \in udp.p /\ UDPFrame /\ udp' = [pc |-> "read", p |-> {}]
  BY Zenon DEF UDPAdmit, UDPFrame
<1>3. /\ DOMAIN pkt = Packets /\ DOMAIN pkt[p] = {"pc", "req", "reply"} /\ started
      /\ pkt[p].pc = "read"
  <2>1. udp.pc # "off"
    BY Zenon, <1>2
  <2> QED BY Zenon, <1>1, <1>2, <2>1 DEF Shape
<1>4. /\ udp' \in [pc : {"off", "read", "admit"}, p : SUBSET Packets] /\ udp'.pc = "read"
      /\ udp'.p = {}
  BY <1>2
<1>5. Table' /\ call' = call /\ con' = con /\ conns' = conns /\ Running(tcp)' = Running(tcp)
  BY Zenon, <1>2, UDPSame
<1>6. Running(udp)' = Running(udp)
  BY Zenon, <1>2, <1>4 DEF Running
<1>7. Drained'
  <2>1. udp.pc # "off"
    BY Zenon, <1>2
  <2>2. \A s \in Callers : call[s].result # "drained"
    BY Zenon, <2>1, Busy
  <2> QED BY Zenon, <1>5, <2>2 DEF Drained
<1>8. CASE AcquireInflight /\ pkt' = [pkt EXCEPT ![p].pc = "handle"] /\ wg' = wg + 1
  <2>1. /\ DOMAIN pkt' = Packets /\ DOMAIN pkt'[p] = {"pc", "req", "reply"} /\ Rests(p)
        /\ pkt'[p].pc = "handle"
    BY Zenon, <1>3, <1>8 DEF Rests
  <2>2. Shape'
    BY Zenon, <1>1, <1>2, <1>3, <1>4, <2>1, PacketShape
  <2>3. Slots'
    BY Zenon, <1>1, <1>3, <1>5, <1>8, <2>1, PacketSlot DEF Rests
  <2>4. ~Live(p) /\ Live(p)'
    BY Zenon, <1>3, <2>1 DEF Live
  <2>5. Count(LivePackets') = Count(LivePackets) + 1
    BY Zenon, <2>1, <2>4, LiveMoves
  <2>6. wg' = Running(udp) + Running(tcp) + (Count(LivePackets) + 1) + Count(conns)
    BY Zenon, <1>8, Tally
  <2>7. Group'
    BY Zenon, <1>5, <1>6, <2>5, <2>6 DEF Group
  <2> QED BY Zenon, <1>5, <1>7, <2>2, <2>3, <2>7, Whole
<1>9. ASSUME NEW r, inflight' = inflight, wg' = wg, pkt' = [pkt EXCEPT ![p].pc = "done", ![p].reply = r]
      PROVE  Counted'
  <2>1. /\ DOMAIN pkt' = Packets /\ DOMAIN pkt'[p] = {"pc", "req", "reply"} /\ Rests(p)
        /\ pkt'[p].pc = "done"
    BY Zenon, <1>3, <1>9 DEF Rests
  <2>2. Shape'
    BY Zenon, <1>1, <1>2, <1>3, <1>4, <2>1, PacketShape
  <2>3. (Live(p)' <=> Live(p)) /\ ~Handled(p)' /\ ~Handled(p)
    BY Zenon, <1>3, <2>1 DEF Live, Handled
  <2>4. \A q \in Packets : (Handled(q)' <=> Handled(q)) /\ (Live(q)' <=> Live(q))
    BY Zenon, <2>1, <2>3 DEF Handled, Live, Rests
  <2>5. Slots'
    BY Zenon, <1>1, <1>2, <1>9, <2>4, UDPSame, SameSlots
  <2>6. Group'
    BY Zenon, <1>1, <1>5, <1>6, <1>9, <2>4, SameGroup
  <2> QED BY Zenon, <1>5, <1>7, <2>2, <2>5, <2>6, Whole
<1>10. CASE InflightFull /\ wg' = wg
            /\ pkt' = [pkt EXCEPT ![p].pc = "done",
                                  ![p].reply = IF OverflowQuestion(pkt[p].req) /\ token /\ udpOpen
                                                 THEN "servfail" ELSE "none"]
  BY Zenon, <1>9, <1>10 DEF InflightFull
<1> QED BY Zenon, <1>8, <1>10 DEF UDPAdmit

LEMMA UDPHandleKeeps ==
  ASSUME Counted, NEW p \in Packets, NEW o \in Outcomes, UDPHandle(p, o)
  PROVE  Counted'
<1>1. Shape /\ Slots /\ Table /\ Drained /\ Group
  BY Zenon, Parts
<1>2. pkt[p].pc = "handle" /\ UDPFrame /\ udp' = udp /\ ReleaseInflight
  BY Zenon DEF UDPHandle, UDPFrame
<1>3. PICK l \in {"write", "done"} : /\ pkt' = [pkt EXCEPT ![p].pc = l]
                                     /\ wg' = IF l = "write" THEN wg ELSE wg - 1
  <2>1. \E sends \in BOOLEAN : /\ pkt' = [pkt EXCEPT ![p].pc = IF sends THEN "write" ELSE "done"]
                               /\ wg' = IF sends THEN wg ELSE wg - 1
    BY Zenon DEF UDPHandle
  <2>2. PICK sends \in BOOLEAN : /\ pkt' = [pkt EXCEPT ![p].pc = IF sends THEN "write" ELSE "done"]
                                 /\ wg' = IF sends THEN wg ELSE wg - 1
    BY Zenon, <2>1
  <2> QED BY Zenon, <2>2
<1>4. /\ DOMAIN pkt = Packets /\ DOMAIN pkt[p] = {"pc", "req", "reply"} /\ p \notin udp.p
      /\ udp \in [pc : {"off", "read", "admit"}, p : SUBSET Packets] /\ (started \/ udp.pc = "off")
  <2>1. pkt[p].pc # "read"
    BY Zenon, <1>2
  <2> QED BY Zenon, <1>1, <2>1 DEF Shape
<1>5. /\ DOMAIN pkt' = Packets /\ DOMAIN pkt'[p] = {"pc", "req", "reply"} /\ Rests(p)
      /\ pkt'[p].pc = l
  BY Zenon, <1>3, <1>4 DEF Rests
<1>6. Shape'
  BY Zenon, <1>1, <1>2, <1>4, <1>5, PacketShape
<1>7. Table' /\ call' = call /\ con' = con /\ conns' = conns /\ Running(tcp)' = Running(tcp)
  BY Zenon, <1>2, UDPSame
<1>8. l # "handle" /\ Live(p) /\ (Live(p)' <=> l = "write")
  BY Zenon, <1>2, <1>3, <1>5 DEF Live
<1>9. Slots'
  BY Zenon, <1>1, <1>2, <1>5, <1>7, <1>8, PacketSlot DEF Rests
<1>10. Running(udp)' = Running(udp)
  BY Zenon, <1>2
<1>11. CASE l = "write"
  <2>1. LivePackets' = LivePackets
    BY Zenon, <1>5, <1>8, <1>11, LiveMoves
  <2>2. wg' = wg
    BY Zenon, <1>3, <1>11
  <2>3. Group'
    BY Zenon, <1>1, <1>7, <1>10, <2>1, <2>2 DEF Group
  <2>4. Drained'
    BY Zenon, <1>1, <1>7, <2>2 DEF Drained
  <2> QED BY Zenon, <1>6, <1>7, <1>9, <2>3, <2>4, Whole
<1>12. CASE l = "done"
  <2>1. Count(LivePackets') = Count(LivePackets) - 1
    BY Zenon, <1>5, <1>8, <1>12, LiveMoves
  <2>2. wg' = Running(udp) + Running(tcp) + (Count(LivePackets) - 1) + Count(conns)
    BY Zenon, <1>3, <1>12, Tally
  <2>3. Group'
    BY Zenon, <1>7, <1>10, <2>1, <2>2 DEF Group
  <2>4. \A s \in Callers : call[s].result # "drained"
    BY Zenon, <1>8, Busy
  <2>5. Drained'
    BY Zenon, <1>7, <2>4 DEF Drained
  <2> QED BY Zenon, <1>6, <1>7, <1>9, <2>3, <2>5, Whole
<1> QED BY Zenon, <1>11, <1>12

LEMMA UDPWriteKeeps ==
  ASSUME Counted, NEW p \in Packets, UDPWrite(p)
  PROVE  Counted'
<1> DEFINE r == IF udpOpen THEN "answer" ELSE "none"
<1>1. Shape /\ Slots /\ Table /\ Drained /\ Group
  BY Zenon, Parts
<1>2. /\ pkt[p].pc = "write" /\ UDPFrame /\ udp' = udp /\ inflight' = inflight /\ wg' = wg - 1
      /\ pkt' = [pkt EXCEPT ![p].pc = "done", ![p].reply = r]
  BY Zenon DEF UDPWrite, UDPFrame
<1> HIDE DEF r
<1>4. /\ DOMAIN pkt = Packets /\ DOMAIN pkt[p] = {"pc", "req", "reply"} /\ p \notin udp.p
      /\ udp \in [pc : {"off", "read", "admit"}, p : SUBSET Packets] /\ (started \/ udp.pc = "off")
  <2>1. pkt[p].pc # "read"
    BY Zenon, <1>2
  <2> QED BY Zenon, <1>1, <2>1 DEF Shape
<1>5. /\ DOMAIN pkt' = Packets /\ DOMAIN pkt'[p] = {"pc", "req", "reply"} /\ Rests(p)
      /\ pkt'[p].pc = "done"
  BY Zenon, <1>2, <1>4 DEF Rests
<1>6. Shape'
  BY Zenon, <1>1, <1>2, <1>4, <1>5, PacketShape
<1>7. Table' /\ call' = call /\ con' = con /\ conns' = conns /\ Running(tcp)' = Running(tcp)
  BY Zenon, <1>2, UDPSame
<1>8. Live(p) /\ ~Live(p)' /\ ~Handled(p)' /\ ~Handled(p)
  BY Zenon, <1>2, <1>5 DEF Live, Handled
<1>9. \A q \in Packets : Handled(q)' <=> Handled(q)
  BY Zenon, <1>5, <1>8 DEF Handled, Rests
<1>10. Slots'
  BY Zenon, <1>1, <1>2, <1>9, UDPSame, SameSlots
<1>11. Count(LivePackets') = Count(LivePackets) - 1
  BY Zenon, <1>5, <1>8, LiveMoves
<1>12. wg' = Running(udp) + Running(tcp) + (Count(LivePackets) - 1) + Count(conns)
  BY Zenon, <1>2, Tally
<1>13. Running(udp)' = Running(udp)
  BY Zenon, <1>2
<1>14. Group'
  BY Zenon, <1>7, <1>11, <1>12, <1>13 DEF Group
<1>15. \A s \in Callers : call[s].result # "drained"
  BY Zenon, <1>8, Busy
<1>16. Drained'
  BY Zenon, <1>7, <1>15 DEF Drained
<1> QED BY Zenon, <1>6, <1>7, <1>10, <1>14, <1>16, Whole

-----------------------------------------------------------------------------
(* Start and Shutdown.                                                     *)

\* Connections that do not change are served and hold as before.
LEMMA SameConns ==
  ASSUME con' = con
  PROVE  \A c \in Conns : (Holding(c)' <=> Holding(c)) /\ (Served(c)' <=> Served(c))
BY Zenon DEF Holding, Served

LEMMA StartKeeps ==
  ASSUME Counted, NEW bound \in BOOLEAN, Start(bound)
  PROVE  Counted'
<1>1. Shape /\ Slots /\ Table /\ Drained /\ Group
  BY Zenon, Parts
<1>2. /\ ~started /\ ~stopped /\ started' = bound /\ tcpOpen' = bound
      /\ wg' = (IF bound THEN wg + 2 ELSE wg)
      /\ udp' = (IF bound THEN [udp EXCEPT !.pc = "read"] ELSE udp)
      /\ tcp' = (IF bound THEN [tcp EXCEPT !.pc = "accept"] ELSE tcp)
      /\ stopped' = stopped /\ inflight' = inflight /\ UNCHANGED table /\ pkt' = pkt /\ con' = con
      /\ call' = call
  BY Zenon DEF Start
<1>3. cfg' = cfg /\ conns' = conns
  BY Zenon, <1>2 DEF table
<1>4. /\ udp.pc = "off" /\ tcp.pc = "off" /\ tcp.c = {} /\ ~tcpOpen
      /\ udp \in [pc : {"off", "read", "admit"}, p : SUBSET Packets]
      /\ tcp \in [pc : {"off", "accept", "acquire"}, c : SUBSET Conns]
  <2>1. udp.pc = "off" /\ tcp.pc = "off" /\ ~tcpOpen
    BY Zenon, <1>1, <1>2 DEF Shape
  <2> QED BY Zenon, <1>1, <2>1 DEF Shape
<1>5. /\ udp' \in [pc : {"off", "read", "admit"}, p : SUBSET Packets] /\ udp'.p = udp.p
      /\ udp'.pc = IF bound THEN "read" ELSE "off"
  <2>1. CASE bound
    <3>1. udp' = [udp EXCEPT !.pc = "read"]
      BY Zenon, <1>2, <2>1
    <3> QED BY <1>4, <2>1, <3>1
  <2>2. CASE ~bound
    BY Zenon, <1>2, <1>4, <2>2
  <2> QED BY Zenon, <2>1, <2>2
<1>6. /\ tcp' \in [pc : {"off", "accept", "acquire"}, c : SUBSET Conns] /\ tcp'.c = tcp.c
      /\ tcp'.pc = IF bound THEN "accept" ELSE "off"
  <2>1. CASE bound
    <3>1. tcp' = [tcp EXCEPT !.pc = "accept"]
      BY Zenon, <1>2, <2>1
    <3> QED BY <1>4, <2>1, <3>1
  <2>2. CASE ~bound
    BY Zenon, <1>2, <1>4, <2>2
  <2> QED BY Zenon, <2>1, <2>2
<1>7. \A s \in Callers : Stops(call[s], stopped, tcpOpen') /\ call[s].result # "drained"
  <2>1. \A s \in Callers : Stops(call[s], stopped, tcpOpen)
    BY Zenon, <1>1 DEF Shape
  <2> QED BY Zenon, <1>2, <2>1 DEF Stops
<1>8. \A c \in Conns : Kept(con[c]) /\ con[c].pc # "backlog"
  BY Zenon, <1>1, <1>4 DEF Shape
<1>9. Shape'
  <2>1. \A c \in Conns : Kept(con'[c]) /\ (con'[c].pc = "backlog" => tcpOpen')
    BY Zenon, <1>2, <1>8
  <2>2. \A s \in Callers : Stops(call'[s], stopped', tcpOpen')
    BY Zenon, <1>2, <1>7
  <2>3. /\ cfg' \in Settings /\ DOMAIN con' = Conns /\ DOMAIN pkt' = Packets /\ DOMAIN call' = Callers
        /\ \A p \in Packets : /\ DOMAIN pkt'[p] = {"pc", "req", "reply"}
                              /\ p \in udp'.p => pkt'[p].pc = "read"
    BY Zenon, <1>1, <1>2, <1>3, <1>5 DEF Shape
  <2>4. tcp'.c = {c \in Conns : con'[c].pc = "accepted"} /\ \A c, d \in tcp'.c : c = d
    BY Zenon, <1>1, <1>2, <1>6 DEF Shape
  <2>5. tcp'.pc # "acquire" => tcp'.c = {}
    BY Zenon, <1>4, <1>6
  <2>6. (tcpOpen' => started') /\ (~started' => udp'.pc = "off" /\ tcp'.pc = "off")
    BY Zenon, <1>2, <1>5, <1>6
  <2> QED BY Zenon, <1>5, <1>6, <2>1, <2>2, <2>3, <2>4, <2>5, <2>6 DEF Shape
<1>10. Slots' /\ Table'
  BY Zenon, <1>1, <1>2, SameConns, SameLive, SameSlots, SameTable
<1>11. LivePackets' = LivePackets
  BY Zenon, <1>2, SameLive
<1>12. Group'
  <2>1. Running(udp) = 0 /\ Running(tcp) = 0
    BY Zenon, <1>4 DEF Running
  <2>2. CASE bound
    <3>1. Running(udp)' = 1 /\ Running(tcp)' = 1
      BY Zenon, <1>5, <1>6, <2>2 DEF Running
    <3>2. wg' = 1 + 1 + Count(LivePackets) + Count(conns)
      BY Zenon, <1>2, <2>1, <2>2, Tally
    <3> QED BY Zenon, <1>3, <1>11, <3>1, <3>2 DEF Group
  <2>3. CASE ~bound
    <3>1. udp' = udp /\ tcp' = tcp /\ wg' = wg
      BY Zenon, <1>2, <2>3
    <3> QED BY Zenon, <1>1, <1>3, <1>11, <3>1 DEF Group
  <2> QED BY Zenon, <2>2, <2>3
<1>13. Drained'
  BY Zenon, <1>2, <1>7 DEF Drained
<1> QED BY Zenon, <1>9, <1>10, <1>12, <1>13, Whole

\* Only the caller s of Shutdown moves, to v.
LEMMA CallOnly ==
  ASSUME Counted, NEW s \in Callers, NEW STATE v, Goto(s, v), Stops(v, stopped', tcpOpen),
         v.result = "drained" => call[s].result = "drained" \/ wg = 0, stopped => stopped',
         started' = started, tcpOpen' = tcpOpen,
         UNCHANGED <<inflight, table, wg, udp, tcp, pkt, con>>
  PROVE  Counted'
<1>1. Shape /\ Slots /\ Table /\ Drained /\ Group
  BY Zenon, Parts
<1>2. /\ inflight' = inflight /\ UNCHANGED table /\ wg' = wg /\ udp' = udp /\ tcp' = tcp
      /\ pkt' = pkt /\ con' = con /\ conns' = conns /\ cfg' = cfg
  BY Zenon DEF table
<1>3. DOMAIN call' = Callers /\ call'[s] = v /\ \A t \in Callers \ {s} : call'[t] = call[t]
  BY Zenon, <1>1 DEF Shape, Goto
<1>4. \A t \in Callers : Stops(call[t], stopped', tcpOpen)
  <2>1. \A t \in Callers : Stops(call[t], stopped, tcpOpen)
    BY Zenon, <1>1 DEF Shape
  <2> QED BY Zenon, <2>1 DEF Stops
<1>5. \A t \in Callers : Stops(call'[t], stopped', tcpOpen')
  BY Zenon, <1>3, <1>4
<1>6. Shape'
  <2>1. /\ cfg' \in Settings /\ DOMAIN pkt' = Packets /\ DOMAIN con' = Conns
        /\ \A p \in Packets : /\ DOMAIN pkt'[p] = {"pc", "req", "reply"}
                              /\ p \in udp'.p => pkt'[p].pc = "read"
        /\ \A c \in Conns : Kept(con'[c]) /\ (con'[c].pc = "backlog" => tcpOpen')
    BY Zenon, <1>1, <1>2 DEF Shape
  <2>2. udp' \in [pc : {"off", "read", "admit"}, p : SUBSET Packets] /\ InHand(tcp', con')
    <3>1. udp \in [pc : {"off", "read", "admit"}, p : SUBSET Packets] /\ InHand(tcp, con)
      BY Zenon, <1>1, HandIs DEF Shape
    <3> QED BY Zenon, <1>2, <3>1
  <2>3. /\ tcpOpen' => started'
        /\ ~started' => udp'.pc = "off" /\ tcp'.pc = "off"
    BY Zenon, <1>1, <1>2 DEF Shape
  <2> QED BY Zenon, <1>3, <1>5, <2>1, <2>2, <2>3 DEF Shape, InHand
<1>7. Slots' /\ Table'
  BY Zenon, <1>1, <1>2, SameConns, SameLive, SameSlots, SameTable
<1>8. Group'
  BY Zenon, <1>1, <1>2, SameLive, SameGroup
<1>9. Drained'
  <2>1. \A t \in Callers : call[t].result = "drained" => wg = 0
    BY Zenon, <1>1 DEF Drained
  <2>2. call'[s].result = "drained" => wg' = 0
    BY Zenon, <1>2, <1>3, <2>1
  <2>3. \A t \in Callers \ {s} : call'[t].result = "drained" => wg' = 0
    BY Zenon, <1>2, <1>3, <2>1
  <2> QED BY Zenon, <2>2, <2>3 DEF Drained
<1> QED BY Zenon, <1>6, <1>7, <1>8, <1>9, Whole

CallFields == {"pc", "closing", "result"}

LEMMA ShutdownLockKeeps ==
  ASSUME Counted, NEW s \in Callers, ShutdownLock(s)
  PROVE  Counted'
<1> DEFINE k == call[s]
<1>1. Stops(k, stopped, tcpOpen) /\ DOMAIN k = CallFields
  BY Zenon DEF Counted, Stops, CallFields
<1>2. /\ stopped' = TRUE /\ started' = started /\ tcpOpen' = tcpOpen
      /\ UNCHANGED <<inflight, table, wg, udp, tcp, pkt, con>>
  BY Zenon DEF ShutdownLock
<1>3. CASE stopped
  <2> DEFINE v == [k EXCEPT !.pc = "back", !.result = "again"]
  <2>1. Goto(s, v)
    BY Zenon, <1>3 DEF ShutdownLock
  <2>2. DOMAIN v = CallFields /\ v.pc = "back" /\ v.result = "again"
    BY Zenon, <1>1 DEF CallFields
  <2> HIDE DEF v
  <2>3. v.pc # "wait" /\ v.result # "drained"
    BY Zenon, <2>2
  <2>4. Stops(v, stopped', tcpOpen)
    BY Zenon, <1>2, <2>2, <2>3 DEF Stops, CallFields
  <2> QED BY Zenon, <1>2, <2>1, <2>3, <2>4, CallOnly
<1>4. CASE ~stopped
  <2> DEFINE v == [k EXCEPT !.pc = "close", !.closing = conns]
  <2>1. Goto(s, v)
    BY Zenon, <1>4 DEF ShutdownLock
  <2>2. DOMAIN v = CallFields /\ v.pc = "close" /\ v.result = k.result
    BY Zenon, <1>1 DEF CallFields
  <2> HIDE DEF v
  <2>3. v.pc # "wait" /\ v.result # "drained"
    BY Zenon, <1>1, <1>4, <2>2 DEF Stops
  <2>4. Stops(v, stopped', tcpOpen)
    BY Zenon, <1>2, <2>2, <2>3 DEF Stops, CallFields
  <2> QED BY Zenon, <1>2, <2>1, <2>3, <2>4, CallOnly
<1> QED BY Zenon, <1>3, <1>4

LEMMA ShutdownWaitKeeps ==
  ASSUME Counted, NEW s \in Callers, ShutdownWait(s)
  PROVE  Counted'
<1> DEFINE k == call[s]
<1>1. Stops(k, stopped, tcpOpen) /\ DOMAIN k = CallFields /\ k.pc = "wait"
  BY Zenon DEF Counted, Stops, CallFields, ShutdownWait
<1>2. /\ UNCHANGED socks /\ UNCHANGED <<inflight, table, wg, udp, tcp, pkt, con>>
  BY Zenon DEF ShutdownWait
<1>3. stopped' = stopped /\ started' = started /\ tcpOpen' = tcpOpen
  BY Zenon, <1>2 DEF socks
<1>4. PICK r \in {"drained", "expired"} :
         Goto(s, [k EXCEPT !.pc = "back", !.result = r]) /\ (r = "drained" => wg = 0)
  BY Zenon DEF ShutdownWait
<1> DEFINE v == [k EXCEPT !.pc = "back", !.result = r]
<1>5. DOMAIN v = CallFields /\ v.pc = "back" /\ v.result = r
  BY Zenon, <1>1 DEF CallFields
<1>6. Goto(s, v)
  BY Zenon, <1>4
<1> HIDE DEF v
<1>7. Stops(v, stopped', tcpOpen)
  BY Zenon, <1>1, <1>3, <1>5 DEF Stops, CallFields
<1> QED BY Zenon, <1>2, <1>3, <1>4, <1>5, <1>6, <1>7, CallOnly

LEMMA ShutdownCloseKeeps ==
  ASSUME Counted, NEW s \in Callers, ShutdownClose(s)
  PROVE  Counted'
<1> DEFINE k == call[s]
           w == [k EXCEPT !.pc = "wait", !.closing = {}]
           Closed(c) == IF con[c].pc = "backlog" THEN [NoConn EXCEPT !.pc = "done"]
                        ELSE [con[c] EXCEPT !.open = @ /\ c \notin k.closing]
<1>1. Shape /\ Slots /\ Table /\ Drained /\ Group
  BY Zenon, Parts
<1>2. /\ k.pc = "close" /\ tcpOpen' = FALSE /\ con' = [c \in Conns |-> Closed(c)] /\ Goto(s, w)
      /\ started' = started /\ stopped' = stopped /\ inflight' = inflight /\ UNCHANGED table
      /\ wg' = wg /\ udp' = udp /\ tcp' = tcp /\ pkt' = pkt
  BY Zenon DEF ShutdownClose
<1>3. conns' = conns /\ cfg' = cfg
  BY Zenon, <1>2 DEF table
<1>4. Stops(k, stopped, tcpOpen) /\ DOMAIN k = CallFields
  BY Zenon, <1>1 DEF Shape, Stops, CallFields
<1>5. DOMAIN w = CallFields /\ w.pc = "wait" /\ w.result = k.result
  BY Zenon, <1>4 DEF CallFields
<1> HIDE DEF w
<1>6. DOMAIN call' = Callers /\ call'[s] = w /\ \A t \in Callers \ {s} : call'[t] = call[t]
  BY Zenon, <1>1, <1>2 DEF Shape, Goto
<1>7. \A t \in Callers : Stops(call'[t], stopped', tcpOpen')
  <2>1. \A t \in Callers : Stops(call[t], stopped, tcpOpen)
    BY Zenon, <1>1 DEF Shape
  <2>2. Stops(w, stopped', tcpOpen')
    BY Zenon, <1>2, <1>4, <1>5 DEF Stops, CallFields
  <2>3. \A t \in Callers : Stops(call[t], stopped', tcpOpen')
    BY Zenon, <1>2, <2>1 DEF Stops
  <2> QED BY Zenon, <1>6, <2>2, <2>3
<1>8. ASSUME NEW c \in Conns
      PROVE  /\ Kept(con'[c]) /\ con'[c].pc # "backlog"
             /\ con'[c].pc = "accepted" <=> con[c].pc = "accepted"
             /\ Holding(c)' <=> Holding(c)
             /\ Served(c)' <=> Served(c)
  <2> DEFINE v == Closed(c)
  <2>1. con'[c] = v
    BY Zenon, <1>2
  <2>2. Kept(con[c]) /\ DOMAIN con[c] = ConFields
    BY Zenon, Known
  <2>3. CASE con[c].pc = "backlog"
    <3>1. v = [NoConn EXCEPT !.pc = "done"]
      BY Zenon, <2>3
    <3>2. /\ DOMAIN v = DOMAIN NoConn /\ v.pc = "done" /\ v.got = 0 /\ v.buf = <<>> /\ v.open = FALSE
          /\ v.prefix = <<>> /\ v.taken = 0 /\ v.watch = "off"
      BY Zenon, <3>1, Fresh DEF ConFields
    <3> HIDE DEF v
    <3>3. 0 \in Nat
      OBVIOUS
    <3>4. Kept(v)
      BY Zenon, <3>2, <3>3 DEF Kept, Stream
    <3> QED BY Zenon, <2>1, <2>3, <3>2, <3>4 DEF Holding, Served
  <2>4. CASE con[c].pc # "backlog"
    <3> DEFINE o == con[c].open /\ c \notin k.closing
    <3>1. v = [con[c] EXCEPT !.open = o]
      BY Zenon, <2>4
    <3> HIDE DEF o
    <3>2. /\ DOMAIN v = DOMAIN con[c] /\ v.pc = con[c].pc /\ v.got = con[c].got /\ v.buf = con[c].buf
          /\ v.open = o /\ v.prefix = con[c].prefix /\ v.taken = con[c].taken
          /\ v.watch = con[c].watch
      BY Zenon, <2>2, <3>1 DEF ConFields
    <3> HIDE DEF v
    <3>3. v.pc = "done" => ~v.open
      BY Zenon, <2>2, <3>2 DEF Kept, o
    <3>4. v.watch # "off" => v.pc \in {"handle", "join"}
      BY Zenon, <2>2, <3>2 DEF Kept
    <3>5. Kept(v)
      BY Zenon, <2>2, <3>2, <3>3, <3>4, Elsewhere
    <3> QED BY Zenon, <2>1, <2>4, <3>2, <3>5 DEF Holding, Served
  <2> QED BY Zenon, <2>3, <2>4
<1>9. DOMAIN con' = Conns
  BY Zenon, <1>2
<1> HIDE DEF Closed
<1>10. {c \in Conns : con'[c].pc = "accepted"} = {c \in Conns : con[c].pc = "accepted"}
  BY Zenon, <1>8
<1>11. Shape'
  <2>1. /\ cfg' \in Settings /\ DOMAIN pkt' = Packets
        /\ \A p \in Packets : /\ DOMAIN pkt'[p] = {"pc", "req", "reply"}
                              /\ p \in udp'.p => pkt'[p].pc = "read"
        /\ udp' \in [pc : {"off", "read", "admit"}, p : SUBSET Packets]
        /\ tcp' \in [pc : {"off", "accept", "acquire"}, c : SUBSET Conns]
    BY Zenon, <1>1, <1>2, <1>3 DEF Shape
  <2>2. InHand(tcp', con')
    <3>1. InHand(tcp, con)
      BY Zenon, <1>1, HandIs
    <3>2. InHand(tcp, con')
      BY Zenon, <1>10, <3>1 DEF InHand
    <3> QED BY Zenon, <1>2, <3>2
  <2>3. /\ tcpOpen' => started'
        /\ ~started' => udp'.pc = "off" /\ tcp'.pc = "off"
    BY Zenon, <1>1, <1>2 DEF Shape
  <2> QED BY Zenon, <1>6, <1>7, <1>8, <1>9, <2>1, <2>2, <2>3 DEF Shape, InHand
<1>12. Slots' /\ Table'
  BY Zenon, <1>1, <1>2, <1>8, SameLive, SameSlots, SameTable
<1>13. Group'
  BY Zenon, <1>1, <1>2, <1>3, SameLive, SameGroup
<1>14. Drained'
  <2>1. \A t \in Callers : call[t].result = "drained" => wg = 0
    BY Zenon, <1>1 DEF Drained
  <2>2. call'[s].result = "drained" => wg' = 0
    BY Zenon, <1>2, <1>5, <1>6, <2>1
  <2>3. \A t \in Callers \ {s} : call'[t].result = "drained" => wg' = 0
    BY Zenon, <1>2, <1>6, <2>1
  <2> QED BY Zenon, <2>2, <2>3 DEF Drained
<1> QED BY Zenon, <1>11, <1>12, <1>13, <1>14, Whole

-----------------------------------------------------------------------------
(* The theorems.                                                           *)

\* A server that has not started counts nothing.
LEMMA InitCounted == Init => Counted
<1> SUFFICES ASSUME Init PROVE Counted
  OBVIOUS
<1>1. /\ cfg \in Settings /\ ~started /\ ~stopped /\ tcpOpen = FALSE /\ inflight = 0 /\ wg = 0
      /\ conns = {} /\ ipCount = [a \in Addrs |-> 0]
      /\ udp = [pc |-> "off", p |-> {}] /\ tcp = [pc |-> "off", c |-> {}]
      /\ con = [c \in Conns |-> NoConn]
      /\ call = [s \in Callers |-> [pc |-> "idle", closing |-> {}, result |-> "none"]]
  BY Zenon DEF Init
<1>2. \A c \in Conns : con[c] = NoConn /\ Kept(con[c])
  <2>1. 0 \in Nat
    OBVIOUS
  <2>2. NoConn.pc # "done" /\ Kept(NoConn)
    BY Zenon, Fresh, <2>1 DEF Kept, Stream
  <2> QED BY Zenon, <1>1, <2>2
<1>3. udp \in [pc : {"off", "read", "admit"}, p : SUBSET Packets] /\ udp.pc = "off" /\ udp.p = {}
  BY <1>1
<1>4. tcp \in [pc : {"off", "accept", "acquire"}, c : SUBSET Conns] /\ tcp.pc = "off" /\ tcp.c = {}
  BY <1>1
<1>5. \A c \in Conns : con[c].pc = "new"
  BY Zenon, <1>2, Fresh
<1>6. \A c \in Conns : con[c].pc # "accepted" /\ con[c].pc # "backlog"
  BY Zenon, <1>5
<1>7. tcp.c = {c \in Conns : con[c].pc = "accepted"}
  BY Zenon, <1>4, <1>6
<1>8. /\ DOMAIN pkt = Packets
      /\ \A p \in Packets : pkt[p].pc = "new" /\ DOMAIN pkt[p] = {"pc", "req", "reply"}
  <2> DEFINE z == [pc |-> "new", req |-> CHOOSE r \in Reqs : TRUE, reply |-> "none"]
  <2>1. pkt = [p \in Packets |-> z]
    BY Zenon DEF Init
  <2>2. DOMAIN z = {"pc", "req", "reply"}
    OBVIOUS
  <2>3. z.pc = "new"
    BY Zenon
  <2> HIDE DEF z
  <2> QED BY Zenon, <2>1, <2>2, <2>3
<1>9. /\ DOMAIN call = Callers
      /\ \A s \in Callers : Stops(call[s], stopped, tcpOpen) /\ call[s].result # "drained"
  <2> DEFINE z == [pc |-> "idle", closing |-> {}, result |-> "none"]
  <2>1. DOMAIN z = CallFields
    BY DEF CallFields
  <2>2. z.pc = "idle" /\ z.result = "none"
    BY Zenon
  <2>3. call = [s \in Callers |-> z]
    BY Zenon, <1>1
  <2> HIDE DEF z
  <2>4. \A s \in Callers : call[s] = z
    BY Zenon, <2>3
  <2>5. Stops(z, stopped, tcpOpen) /\ z.result # "drained"
    BY Zenon, <2>1, <2>2 DEF Stops, CallFields
  <2> QED BY Zenon, <2>3, <2>4, <2>5
<1>10. /\ {p \in Packets : pkt[p].pc = "handle"} = {} /\ {c \in Conns : Holding(c)} = {}
       /\ {p \in Packets : Live(p)} = {} /\ {c \in Conns : Served(c)} = {}
  BY Zenon, <1>5, <1>8 DEF Holding, Served, Live
<1>11. Count({}) = 0 /\ 0 + 0 = 0 /\ 0 + 0 + 0 + 0 = 0
  BY FS_EmptySet DEF Count
<1>12. SlotsExact
  BY Zenon, <1>1, <1>10, <1>11 DEF SlotsExact
<1>13. WaitGroupExact
  BY Zenon, <1>1, <1>3, <1>4, <1>10, <1>11 DEF WaitGroupExact, Running
<1>14. ConnTableExact
  <2>1. cfg.conns \in Nat /\ cfg.perIP \in Nat
    BY Zenon, <1>1, CapAssumption
  <2>2. \A n \in Nat : 0 <= n
    OBVIOUS
  <2>3. \A a : {c \in conns : PeerOf(c) = a} = {}
    BY Zenon, <1>1
  <2>4. \A a \in Addrs : ipCount[a] = 0
    BY Zenon, <1>1
  <2> QED BY Zenon, <1>1, <1>10, <1>11, <2>1, <2>2, <2>3, <2>4 DEF ConnTableExact
<1>15. inflight <= MaxInflight
  BY <1>1, CapAssumption
<1>16. DOMAIN ipCount = Addrs /\ DOMAIN con = Conns
  BY Zenon, <1>1
<1>17. \A c, d \in tcp.c : c = d
  BY Zenon, <1>4
<1>18. \A p \in Packets : DOMAIN pkt[p] = {"pc", "req", "reply"} /\ (p \in udp.p => pkt[p].pc = "read")
  BY Zenon, <1>3, <1>8
<1>19. /\ \A c \in Conns : Kept(con[c]) /\ (con[c].pc = "backlog" => tcpOpen)
       /\ tcp.pc # "acquire" => tcp.c = {}
       /\ tcpOpen => started
       /\ ~started => udp.pc = "off" /\ tcp.pc = "off"
       /\ \A s \in Callers : Stops(call[s], stopped, tcpOpen) /\ (call[s].result = "drained" => wg = 0)
  BY Zenon, <1>1, <1>2, <1>3, <1>4, <1>6, <1>9
<1> QED BY Zenon, <1>1, <1>3, <1>4, <1>7, <1>8, <1>9, <1>12, <1>13, <1>14, <1>15, <1>16,
           <1>17, <1>18, <1>19 DEF Counted

LEMMA StutterKeeps == Counted /\ UNCHANGED vars => Counted'
<1> SUFFICES ASSUME Counted, UNCHANGED vars PROVE Counted'
  OBVIOUS
<1>1. Shape /\ Slots /\ Table /\ Drained /\ Group
  BY Zenon, Parts
<1>2. /\ UNCHANGED table /\ inflight' = inflight /\ pkt' = pkt /\ con' = con /\ wg' = wg /\ udp' = udp
      /\ tcp' = tcp /\ call' = call /\ conns' = conns /\ cfg' = cfg
      /\ started' = started /\ stopped' = stopped /\ tcpOpen' = tcpOpen
  BY Zenon DEF vars, table, socks
<1>3. Shape' /\ Drained'
  BY Zenon, <1>1, <1>2 DEF Shape, Drained
<1>4. Slots' /\ Table'
  BY Zenon, <1>1, <1>2, SameConns, SameLive, SameSlots, SameTable
<1>5. Group'
  BY Zenon, <1>1, <1>2, SameLive, SameGroup
<1> QED BY Zenon, <1>3, <1>4, <1>5, Whole

\* Every step of the loops, the goroutines, the peers and Shutdown keeps the counts.
LEMMA NextCounted == Counted /\ [Next]_vars => Counted'
<1> SUFFICES ASSUME Counted, [Next]_vars PROVE Counted'
  OBVIOUS
<1>1. ASSUME NEW c \in Conns, ConnTask(c) PROVE Counted'
  BY Zenon, <1>1, ConnTopKeeps, ConnHandleKeeps, ConnReadKeeps, ConnReadFailsKeeps, ConnJoinKeeps,
     ConnActKeeps, ConnWriteFailsKeeps, ConnHoldKeeps, ReleaseTCPKeeps, ConnAdmitKeeps DEF ConnTask
<1>2. ASSUME NEW c \in Conns, Watcher(c) PROVE Counted'
  BY Zenon, <1>2, WatchCheckKeeps, WatchArmKeeps, WatchByteKeeps, WatchUnreadKeeps,
     WatchTimeoutKeeps, WatchEOFKeeps DEF Watcher
<1>3. ASSUME NEW s \in Callers, Shutdown(s) PROVE Counted'
  BY Zenon, <1>3, ShutdownLockKeeps, ShutdownCloseKeeps, ShutdownWaitKeeps DEF Shutdown
<1>4. ASSUME NEW p \in Packets, UDPTask(p) PROVE Counted'
  BY Zenon, <1>4, UDPWriteKeeps, UDPHandleKeeps DEF UDPTask
<1>5. UDPLoop => Counted'
  BY Zenon, UDPExitKeeps, UDPAdmitKeeps, UDPReadKeeps DEF UDPLoop
<1>6. TCPLoop => Counted'
  BY Zenon, TCPExitKeeps, TCPAcceptKeeps, TCPAcquireKeeps DEF TCPLoop
<1>7. Rest => Counted'
  BY Zenon, StutterKeeps DEF Rest
<1>8. Next => Counted'
  BY Zenon, <1>1, <1>2, <1>3, <1>4, <1>5, <1>6, <1>7, StartKeeps, PeerKeeps DEF Next
<1> QED BY Zenon, <1>8, StutterKeeps

\* The counters of the listener are exact in every reachable state: slots,
\* connection table, wait group and the bytes of every connection.
THEOREM ListenerCounted == Spec => []Counted
BY InitCounted, NextCounted, PTL DEF Spec

\* The connection table, its counts by peer and both caps, for any number of
\* connections.
THEOREM ConnTableHolds == Spec => []ConnTableExact
<1>1. Counted => ConnTableExact
  BY Zenon DEF Counted
<1> QED BY <1>1, ListenerCounted, PTL

\* No slot of s.inflight leaks and none is released twice.
THEOREM SlotsHold == Spec => []SlotsExact
<1>1. Counted => SlotsExact
  BY Zenon DEF Counted
<1> QED BY <1>1, ListenerCounted, PTL

\* The watcher loses and reorders no byte of a pipelined query.
THEOREM StreamHolds == Spec => []StreamIntact
<1>1. Counted => StreamIntact
  <2> SUFFICES ASSUME Counted, NEW c \in Conns
               PROVE  LET s == con[c].buf \o con[c].prefix IN
                        /\ \A i \in DOMAIN s : s[i] = con[c].got + i
                        /\ con[c].got + Len(s) = con[c].taken
    BY Zenon DEF StreamIntact
  <2> DEFINE g == con[c].got
             b == con[c].buf
             p == con[c].prefix
             t == con[c].taken
             s == b \o p
  <2>1. g \in Nat /\ Stream(con[c])
    BY Zenon, Known DEF Kept
  <2>2. \/ b = <<>> /\ p = <<>> /\ t = g
        \/ b = <<g + 1>> /\ p = <<>> /\ t = g + 1
        \/ b = <<>> /\ p = <<g + 1>> /\ t = g + 1
    BY Zenon, <2>1 DEF Stream
  <2> HIDE DEF g, b, p, t
  <2>3. (s = <<>> /\ t = g) \/ (s = <<g + 1>> /\ t = g + 1)
    <3> DEFINE n == g + 1
    <3> HIDE DEF n
    <3>1. <<>> \o <<>> = <<>> /\ <<n>> \o <<>> = <<n>> /\ <<>> \o <<n>> = <<n>>
      OBVIOUS
    <3>2. \/ b = <<>> /\ p = <<>> /\ t = g
          \/ b = <<n>> /\ p = <<>> /\ t = n
          \/ b = <<>> /\ p = <<n>> /\ t = n
      BY Zenon, <2>2 DEF n
    <3>3. (s = <<>> /\ t = g) \/ (s = <<n>> /\ t = n)
      <4>1. CASE b = <<>> /\ p = <<>> /\ t = g
        BY Zenon, <3>1, <4>1
      <4>2. CASE b = <<n>> /\ p = <<>> /\ t = n
        BY Zenon, <3>1, <4>2
      <4>3. CASE b = <<>> /\ p = <<n>> /\ t = n
        BY Zenon, <3>1, <4>3
      <4> QED BY Zenon, <3>2, <4>1, <4>2, <4>3
    <3> QED BY Zenon, <3>3 DEF n
  <2> HIDE DEF s
  <2>4. (\A i \in DOMAIN s : s[i] = g + i) /\ g + Len(s) = t
    <3>1. CASE s = <<>> /\ t = g
      BY <2>1, <3>1
    <3>2. CASE s = <<g + 1>> /\ t = g + 1
      <4> DEFINE n == g + 1
      <4> HIDE DEF n
      <4>1. s = <<n>> /\ t = n
        BY Zenon, <3>2 DEF n
      <4>2. Len(<<n>>) = 1 /\ DOMAIN <<n>> = {1} /\ <<n>>[1] = n
        OBVIOUS
      <4>3. \A i \in DOMAIN s : i = 1 /\ s[i] = n
        BY Zenon, <4>1, <4>2
      <4> QED BY Zenon, <4>1, <4>2, <4>3 DEF n
    <3> QED BY Zenon, <2>3, <3>1, <3>2
  <2> QED BY Zenon, <2>4 DEF g, b, p, t, s
<1> QED BY <1>1, ListenerCounted, PTL

\* When a Shutdown reports that everything drained, nothing of the server runs,
\* and no connection is open.
THEOREM DrainHolds == Spec => []DrainedMeansQuiet
<1>1. Counted => DrainedMeansQuiet
  <2> SUFFICES ASSUME Counted, NEW s \in Callers, call[s].result = "drained"
               PROVE  /\ udp.pc = "off" /\ tcp.pc = "off" /\ inflight = 0 /\ conns = {}
                      /\ \A p \in Packets : ~Live(p)
                      /\ \A c \in Conns : con[c].watch = "off" /\ (con[c].pc # "new" => ~con[c].open)
    BY Zenon DEF DrainedMeansQuiet
  <2>1. /\ udp.pc = "off" /\ tcp.pc = "off"
        /\ \A p \in Packets : ~Live(p)
        /\ \A c \in Conns : ~Served(c)
    BY Zenon, Busy
  <2>2. conns = {} /\ ~tcpOpen
    BY Zenon, <2>1 DEF Counted, ConnTableExact, Stops
  <2>3. {p \in Packets : pkt[p].pc = "handle"} = {} /\ {c \in Conns : Holding(c)} = {}
    BY Zenon, <2>1 DEF Live, Holding, Served
  <2>4. inflight = 0
    <3>1. Count({}) = 0 /\ 0 + 0 = 0
      BY FS_EmptySet DEF Count
    <3> QED BY Zenon, <2>3, <3>1 DEF Counted, SlotsExact
  <2>5. ASSUME NEW c \in Conns PROVE con[c].watch = "off" /\ (con[c].pc # "new" => ~con[c].open)
    <3>1. con[c].pc \in {"new", "backlog", "accepted", "done"}
      BY Zenon, <2>1 DEF Served
    <3>2. Kept(con[c])
      BY Zenon, Known
    <3>3. con[c].watch = "off" /\ (con[c].pc = "done" => ~con[c].open)
      BY Zenon, <3>1, <3>2 DEF Kept
    <3>4. con[c].pc # "backlog" /\ con[c].pc # "accepted"
      <4>1. Shape
        BY Zenon, Parts
      <4>2. tcp.c = {}
        BY Zenon, <2>1, <4>1 DEF Shape
      <4> QED BY Zenon, <2>2, <4>1, <4>2 DEF Shape
    <3> QED BY Zenon, <3>1, <3>3, <3>4
  <2> QED BY Zenon, <2>1, <2>2, <2>4, <2>5
<1> QED BY <1>1, ListenerCounted, PTL
=============================================================================
