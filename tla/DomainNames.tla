---------------------------- MODULE DomainNames -----------------------------
(***************************************************************************)
(* Names and the zones they are in.  A name is its labels from the root.   *)
(***************************************************************************)
EXTENDS Integers, Sequences

\* The name and what repeated ParentName gives, up to the root.
Ancestors(n) == {SubSeq(n, 1, k) : k \in 0..Len(n)}

InZone(n, apex) == apex \in Ancestors(n)

IsWildcardOwner(n) == n # <<>> /\ n[Len(n)] = "*"
WildcardOwner(n) == Append(n, "*")

\* The longest suffix of n among the names of s, 0 when there is none.
SelectSuffix(n, s) ==
    LET m == {i \in DOMAIN s : InZone(n, s[i].name)}
    IN  IF m = {} THEN 0 ELSE CHOOSE i \in m : \A j \in m : Len(s[j].name) <= Len(s[i].name)

=============================================================================
