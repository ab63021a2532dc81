----------------------------- MODULE MCListener -----------------------------
(* An instance of Listener for TLC: two connections of one peer that sends *)
(* a query on the first and begins another, one datagram, one inflight     *)
(* slot.                                                                   *)
EXTENDS Listener, TLC

CONSTANTS c1, c2, a1

\* A connection beside a datagram, its peer sending a query and the head of
\* another; two connections of one address, under either cap; two without one.
Cfg(n, ip, a, opens, sent, ds) ==
    [conns |-> n, perIP |-> ip, peer |-> [c \in Conns |-> a], opens |-> opens,
     bytes |-> [c \in Conns |-> IF c = c1 THEN sent ELSE 0], datagrams |-> ds]
MCSettings ==
    {Cfg(1, 2, a1, {c1}, 3, Packets), Cfg(1, 2, a1, Conns, 0, {}), Cfg(2, 1, a1, Conns, 0, {}),
     Cfg(2, 1, NoAddr, Conns, 2, {})}
Req(h, q, b) == [header |-> h, qr |-> q, bad |-> b]
MCReqs == {Req("ok", FALSE, "no"), Req("ok", TRUE, "malformed")}
Normal(ret, stored, resp, enc) ==
    [kind |-> "normal", resp |-> resp, ret |-> ret, stored |-> stored, encodes |-> enc]
MCOutcomes ==
    {Normal(h, "send", TRUE, TRUE) : h \in Hints \cup {"unknown"}}
    \cup {Normal("send", h, TRUE, TRUE) : h \in {"hold", "drop"}}
    \cup {Normal("send", "send", FALSE, TRUE), Normal("send", "send", TRUE, FALSE)}
    \cup {[Normal("send", "send", FALSE, TRUE) EXCEPT !.kind = k] : k \in {"panic", "error"}}
=============================================================================
