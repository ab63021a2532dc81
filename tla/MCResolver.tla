----------------------------- MODULE MCResolver -----------------------------
(* Every zone of up to three records of a pool, with and without a child zone. *)
EXTENDS Resolver, SequencesExt

lab == <<"lab">>
L(x) == <<"lab", x>>
R(id, o, t, d) == [id |-> id, owner |-> o, type |-> t, data |-> <<d>>]

Pool == {
    R("a", L("a"), "A", "1"),
    R("ent", <<"lab", "e", "f">>, "A", "2"),
    R("star", L("*"), "A", "3"),
    R("starAlias", L("*"), "CNAME", L("q")),
    R("starDeep", <<"lab", "e", "*">>, "A", "4"),
    R("alias", L("b"), "CNAME", L("a")),
    R("back", L("a"), "CNAME", L("b")),
    R("away", L("a"), "CNAME", <<"ext", "h">>),
    R("child", L("q"), "CNAME", <<"lab", "s", "x">>),
    R("apex", lab, "CNAME", L("a")),
    R("starNS", L("*"), "NS", "n"),
    R("apexSOA", lab, "SOA", "t"),
    R("outside", <<"ext", "o">>, "A", "5")}

Zone(m, rs) == [id |-> "z1", name |-> lab, mode |-> m, soa |-> m = "authoritative", ns |-> FALSE, records |-> rs]
Child(m) == [id |-> "z2", name |-> L("s"), mode |-> m, soa |-> FALSE, ns |-> TRUE,
             records |-> <<R("sx", <<"lab", "s", "x">>, "CNAME", L("b"))>>]

E(p, g, b) == [prefix |-> p, group |-> g, allow |-> b]
Access == <<E(<<0>>, "g1", TRUE), E(<<1, 1>>, "g1", TRUE), E(<<0, 1>>, "g2", FALSE), E(<<1, 1>>, "g2", FALSE)>>
Fwd == <<[name |-> lab], [name |-> <<"ext">>], [name |-> <<"ext", "h">>]>>

Doc(zs, n, f) == [zones |-> zs, access |-> Access, forwarding |-> f, maxDepth |-> n]

MCDocuments ==
    LET Some == {S \in SUBSET Pool : Cardinality(S) <= 3}
    IN  {Doc(<<Zone(m, SetToSeq(S))>>, 2, Fwd) : m \in {"overlay", "authoritative"}, S \in Some} \cup
        {Doc(<<Zone("overlay", SetToSeq(S)), Child(m)>>, 1, Tail(Fwd)) :
            m \in {"overlay", "authoritative"}, S \in {T \in Some : Cardinality(T) <= 2}}

MCLabels == {"lab", "ext", "a", "b", "e", "f", "h", "o", "q", "s", "u", "x", "y", "z", "*"}
Names == {lab, L("a"), L("b"), L("e"), L("q"), <<"lab", "a", "u">>, <<"lab", "e", "u">>, <<"lab", "s", "x">>, <<"lab", "s", "y">>, <<"ext", "h">>}
Q(n, t, c) == [name |-> n, type |-> t, client |-> c]
MCQueries ==
    {Q(n, t, <<0, 0>>) : n \in Names, t \in {"A", "ANY"}} \cup
    {Q(n, "A", c) : n \in {L("a"), L("q"), <<"ext", "h">>}, c \in {<<0, 1>>, <<1, 1>>, <<1, 0>>}} \cup
    {Q(n, t, <<0, 0>>) : n \in {lab, L("b"), L("q")}, t \in {"CNAME", "SOA"}}
=============================================================================
