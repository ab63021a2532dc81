-------------------------- MODULE QueryCacheProofs --------------------------
(***************************************************************************)
(* The proofs about QueryCache: the cache stays within the policy it       *)
(* observed last, nothing of an older generation enters it, a copy never   *)
(* outlives its records or its entry, and a hit is what the query could    *)
(* have computed itself.                                                   *)
(***************************************************************************)
EXTENDS QueryCache, SequenceTheorems, TLAPS

-----------------------------------------------------------------------------
(* Sequences of entries with a key each, most recently used first: what    *)
(* unlinking an entry, pushing one to the front and evicting from the back *)
(* do to them.                                                             *)

\* No two of the n entries of s have one key.
KeysApart(s, n) == \A i, j \in 1..n : s[i].key = s[j].key => i = j

\* The m entries of t are some of the n of s.
SomeOf(t, m, s, n) == \A i \in 1..m : \E j \in 1..n : t[i] = s[j]

\* None of the m entries of t is under the key k.
Lacks(t, m, k) == \A i \in 1..m : t[i].key # k

\* a, of length m, is s up to p; b, of length m, is s, of length n, after p;
\* t, of length m, is the two of them; t is s without p.
UpTo(a, m, s, p) == m = p - 1 /\ \A i \in 1..(p - 1) : a[i] = s[i]
Beyond(b, m, s, n, p) == m = n - p /\ \A i \in 1..(n - p) : b[i] = s[p + i]
Chained(t, m, a, la, b, lb) ==
    m = la + lb /\ \A i \in 1..(la + lb) : t[i] = IF i <= la THEN a[i] ELSE b[i - la]
Skips(t, m, s, n, p) ==
    m = n - 1 /\ \A i \in 1..m : t[i] = IF i < p THEN s[i] ELSE s[i + 1]

Unlinked(s, p) == SubSeq(s, 1, p - 1) \o SubSeq(s, p + 1, Len(s))
Fronting(e, w) == <<e>> \o w
Evicted(s, max) == IF Len(s) > max THEN SubSeq(s, 1, max) ELSE s

-----------------------------------------------------------------------------
\* The two parts of s around p, joined, skip p.
LEMMA JoinSkips ==
  ASSUME NEW n \in Nat, NEW p \in 1..n, NEW s, NEW a, NEW b, NEW t, NEW la, NEW lb, NEW m,
         UpTo(a, la, s, p), Beyond(b, lb, s, n, p), Chained(t, m, a, la, b, lb)
  PROVE  Skips(t, m, s, n, p)
<1>0. /\ la = p - 1 /\ \A i \in 1..(p - 1) : a[i] = s[i]
      /\ lb = n - p /\ \A i \in 1..(n - p) : b[i] = s[p + i]
      /\ m = la + lb /\ \A i \in 1..(la + lb) : t[i] = IF i <= la THEN a[i] ELSE b[i - la]
  BY Zenon DEF UpTo, Beyond, Chained
<1>1. m = n - 1
  BY <1>0
<1>2. ASSUME NEW i \in 1..(n - 1), i < p PROVE t[i] = s[i]
  <2>1. i \in 1..(p - 1) /\ i \in 1..(la + lb) /\ i <= la
    BY <1>0, <1>1, <1>2
  <2>2. t[i] = a[i]
    BY Zenon, <1>0, <2>1
  <2> QED BY Zenon, <1>0, <2>1, <2>2
<1>3. ASSUME NEW i \in 1..(n - 1), ~(i < p) PROVE t[i] = s[i + 1]
  <2>1. /\ i - la \in 1..(n - p) /\ p + (i - la) = i + 1
        /\ i \in 1..(la + lb) /\ ~(i <= la)
    BY <1>0, <1>1, <1>3
  <2>2. t[i] = b[i - la]
    BY Zenon, <1>0, <2>1
  <2>3. b[i - la] = s[p + (i - la)]
    BY Zenon, <1>0, <2>1
  <2> QED BY Zenon, <1>0, <2>1, <2>2, <2>3
<1> QED BY Zenon, <1>1, <1>2, <1>3 DEF Skips

\* Skipping index p of s keeps one entry per key and drops the key at p.
LEMMA SkipDrops ==
  ASSUME NEW n \in Nat, NEW p \in 1..n, NEW s, NEW t, NEW m, Skips(t, m, s, n, p),
         KeysApart(s, n)
  PROVE  SomeOf(t, m, s, n) /\ Lacks(t, m, s[p].key) /\ KeysApart(t, m)
<1> DEFINE to(i) == IF i < p THEN i ELSE i + 1
<1>1. \A i \in 1..m : to(i) \in 1..n /\ to(i) # p
  BY DEF Skips
<1>2. \A i \in 1..m : t[i] = s[to(i)]
  BY Zenon DEF Skips
<1>3. \A i, j \in 1..m : i # j => to(i) # to(j)
  BY DEF Skips
<1> HIDE DEF to
<1>4. ASSUME NEW i \in 1..m PROVE t[i].key # s[p].key /\ \E j \in 1..n : t[i] = s[j]
  <2>1. to(i) \in 1..n /\ to(i) # p /\ t[i] = s[to(i)]
    BY Zenon, <1>1, <1>2
  <2> QED BY Zenon, <2>1 DEF KeysApart
<1>5. ASSUME NEW i \in 1..m, NEW j \in 1..m, i # j PROVE t[i].key # t[j].key
  <2>1. /\ to(i) \in 1..n /\ t[i] = s[to(i)] /\ to(j) \in 1..n /\ t[j] = s[to(j)]
        /\ to(i) # to(j)
    BY Zenon, <1>1, <1>2, <1>3, <1>5
  <2> QED BY Zenon, <2>1 DEF KeysApart
<1> QED BY Zenon, <1>4, <1>5 DEF KeysApart, SomeOf, Lacks

\* Unlinking the entry at p leaves the others, one per key.
LEMMA Unlink ==
  ASSUME NEW E, NEW s \in Seq(E), KeysApart(s, Len(s)), NEW p \in 1..Len(s)
  PROVE  LET t == Unlinked(s, p)
         IN  /\ t \in Seq(E) /\ Len(t) = Len(s) - 1 /\ KeysApart(t, Len(t))
             /\ SomeOf(t, Len(t), s, Len(s)) /\ Lacks(t, Len(t), s[p].key)
<1> DEFINE a == SubSeq(s, 1, p - 1)
           b == SubSeq(s, p + 1, Len(s))
           t == a \o b
<1>1. Len(s) \in Nat
  BY LenProperties, Zenon
<1>2. a \in Seq(E) /\ Len(a) = p - 1 /\ \A i \in 1..(p - 1) : a[i] = s[i]
  <2>1. \A i \in 1..(p - 1) : i \in 1..Len(s)
    BY <1>1
  <2>2. \A i \in 1..(p - 1) : s[i] \in E
    BY Zenon, <2>1, ElementOfSeq
  <2> QED BY <1>1, <2>1, <2>2, SubSeqProperties
<1>3. b \in Seq(E) /\ Len(b) = Len(s) - p /\ \A i \in 1..(Len(s) - p) : b[i] = s[p + i]
  <2>1. \A i \in (p + 1)..Len(s) : i \in 1..Len(s)
    BY <1>1
  <2>2. \A i \in (p + 1)..Len(s) : s[i] \in E
    BY Zenon, <2>1, ElementOfSeq
  <2> QED BY <1>1, <2>1, <2>2, SubSeqProperties
<1>4. Unlinked(s, p) = t
  BY Zenon DEF Unlinked
<1> HIDE DEF a, b
<1>5. /\ t \in Seq(E) /\ Len(t) = Len(a) + Len(b)
      /\ \A i \in 1..(Len(a) + Len(b)) : t[i] = IF i <= Len(a) THEN a[i] ELSE b[i - Len(a)]
  BY Zenon, <1>2, <1>3, ConcatProperties
<1> HIDE DEF t
<1>6. Skips(t, Len(t), s, Len(s), p)
  <2>1. UpTo(a, Len(a), s, p) /\ Beyond(b, Len(b), s, Len(s), p)
    BY Zenon, <1>2, <1>3 DEF UpTo, Beyond
  <2>2. Chained(t, Len(t), a, Len(a), b, Len(b))
    BY Zenon, <1>5 DEF Chained
  <2> QED BY Zenon, <1>1, <2>1, <2>2, JoinSkips
<1>7. SomeOf(t, Len(t), s, Len(s)) /\ Lacks(t, Len(t), s[p].key) /\ KeysApart(t, Len(t))
  BY Zenon, <1>1, <1>6, SkipDrops
<1>8. Len(t) = Len(s) - 1
  BY Zenon, <1>6 DEF Skips
<1> QED BY Zenon, <1>4, <1>5, <1>7, <1>8

\* The m entries of t are e and some of the n of w.
OneAnd(t, m, e, w, n) == \A i \in 1..m : t[i] = e \/ \E j \in 1..n : t[i] = w[j]

\* The m entries of t are e and the n of w after it, which have other keys.
Pushed(t, m, e, w, n) ==
    /\ m = n + 1 /\ t[1] = e /\ \A i \in 2..m : t[i] = w[i - 1]
    /\ KeysApart(w, n) /\ Lacks(w, n, e.key)

\* Pushing e before entries without its key keeps one entry per key.
LEMMA PushKeeps ==
  ASSUME NEW n \in Nat, NEW e, NEW w, NEW t, NEW m, Pushed(t, m, e, w, n)
  PROVE  KeysApart(t, m) /\ OneAnd(t, m, e, w, n)
<1>1. /\ m = n + 1 /\ t[1] = e /\ \A i \in 2..m : t[i] = w[i - 1]
      /\ KeysApart(w, n) /\ Lacks(w, n, e.key)
  BY Zenon DEF Pushed
<1>2. \A i \in 1..m : i = 1 \/ (i \in 2..m /\ i - 1 \in 1..n)
  BY <1>1
<1>3. ASSUME NEW i \in 1..m, i # 1 PROVE i - 1 \in 1..n /\ t[i] = w[i - 1] /\ t[i].key # e.key
  <2>1. i - 1 \in 1..n /\ t[i] = w[i - 1]
    BY Zenon, <1>1, <1>2, <1>3
  <2> QED BY Zenon, <1>1, <2>1 DEF Lacks
<1>4. ASSUME NEW i \in 1..m, NEW j \in 1..m, i # j PROVE t[i].key # t[j].key
  <2>1. CASE i = 1 \/ j = 1
    BY Zenon, <1>1, <1>3, <1>4, <2>1
  <2>2. CASE i # 1 /\ j # 1
    <3>1. i - 1 # j - 1
      BY <1>4
    <3>2. i - 1 \in 1..n /\ t[i] = w[i - 1] /\ j - 1 \in 1..n /\ t[j] = w[j - 1]
      BY Zenon, <1>3, <2>2
    <3> QED BY Zenon, <1>1, <3>1, <3>2 DEF KeysApart
  <2> QED BY Zenon, <2>1, <2>2
<1>5. \A i \in 1..m : t[i] = e \/ \E j \in 1..n : t[i] = w[j]
  BY Zenon, <1>1, <1>3
<1> QED BY Zenon, <1>4, <1>5 DEF KeysApart, OneAnd

\* pushFrontLocked: an entry of a new key comes first and the others follow.
LEMMA PushFront ==
  ASSUME NEW E, NEW e \in E, NEW w \in Seq(E), KeysApart(w, Len(w)), Lacks(w, Len(w), e.key)
  PROVE  LET t == Fronting(e, w)
         IN  /\ t \in Seq(E) /\ Len(t) = Len(w) + 1 /\ KeysApart(t, Len(t))
             /\ OneAnd(t, Len(t), e, w, Len(w))
<1> DEFINE h == <<e>>
           t == h \o w
<1>1. <<e>> \in Seq(E) /\ Len(<<e>>) = 1 /\ <<e>>[1] = e
  OBVIOUS
<1>2. h \in Seq(E) /\ Len(h) = 1 /\ h[1] = e /\ Fronting(e, w) = t
  BY Zenon, <1>1 DEF Fronting
<1> HIDE DEF h
<1>3. Len(w) \in Nat
  BY Zenon, LenProperties
<1>4. /\ t \in Seq(E) /\ Len(t) = Len(h) + Len(w)
      /\ \A i \in 1..(Len(h) + Len(w)) : t[i] = IF i <= Len(h) THEN h[i] ELSE w[i - Len(h)]
  BY Zenon, <1>2, ConcatProperties
<1> HIDE DEF t
<1>5. Len(t) = Len(w) + 1 /\ t[1] = e /\ \A i \in 2..Len(t) : t[i] = w[i - 1]
  BY <1>2, <1>3, <1>4
<1>6. Pushed(t, Len(t), e, w, Len(w))
  BY Zenon, <1>5 DEF Pushed
<1>7. KeysApart(t, Len(t)) /\ OneAnd(t, Len(t), e, w, Len(w))
  BY Zenon, <1>3, <1>6, PushKeeps
<1> QED BY Zenon, <1>2, <1>4, <1>5, <1>7

\* Evicting from the back down to max entries.
LEMMA Evict ==
  ASSUME NEW E, NEW s \in Seq(E), KeysApart(s, Len(s)), NEW max \in Nat
  PROVE  LET t == Evicted(s, max)
         IN  /\ t \in Seq(E) /\ Len(t) <= max /\ Len(t) <= Len(s) /\ KeysApart(t, Len(t))
             /\ \A i \in 1..Len(t) : i \in 1..Len(s) /\ t[i] = s[i]
<1> DEFINE t == Evicted(s, max)
<1>1. Len(s) \in Nat
  BY Zenon, LenProperties
<1>2. /\ t \in Seq(E) /\ Len(t) <= max /\ Len(t) <= Len(s)
      /\ \A i \in 1..Len(t) : i \in 1..Len(s) /\ t[i] = s[i]
  <2>1. CASE Len(s) > max
    <3> DEFINE u == SubSeq(s, 1, max)
    <3>1. \A i \in 1..max : i \in 1..Len(s)
      BY <1>1, <2>1
    <3>2. \A i \in 1..max : s[i] \in E
      BY Zenon, <3>1, ElementOfSeq
    <3>3. u \in Seq(E) /\ Len(u) = max /\ \A i \in 1..max : u[i] = s[i]
      BY <1>1, <2>1, <3>2, SubSeqProperties
    <3>4. t = u
      BY Zenon, <2>1 DEF Evicted
    <3> HIDE DEF u, t
    <3>5. max <= max /\ max <= Len(s)
      BY <1>1, <2>1
    <3> QED BY Zenon, <3>1, <3>3, <3>4, <3>5
  <2>2. CASE ~(Len(s) > max)
    <3>1. Len(s) <= max /\ Len(s) <= Len(s)
      BY <1>1, <2>2
    <3>2. t = s
      BY Zenon, <2>2 DEF Evicted
    <3> HIDE DEF t
    <3> QED BY Zenon, <3>1, <3>2
  <2> QED BY Zenon, <2>1, <2>2
<1> HIDE DEF t
<1>3. KeysApart(t, Len(t))
  BY Zenon, <1>2 DEF KeysApart
<1> QED BY Zenon, <1>2, <1>3 DEF t

-----------------------------------------------------------------------------
(* Lifetimes.                                                              *)

\* The shorter of two lifetimes.
LEMMA MinIs ==
  ASSUME NEW a \in Nat, NEW b \in Nat
  PROVE  Min({a, b}) \in Nat /\ Min({a, b}) <= a /\ Min({a, b}) <= b
<1>1. \E x \in {a, b} : \A y \in {a, b} : x <= y
  OBVIOUS
<1>2. Min({a, b}) \in {a, b} /\ \A y \in {a, b} : Min({a, b}) <= y
  BY Zenon, <1>1 DEF Min
<1> QED BY <1>2

-----------------------------------------------------------------------------
(* Lists of entries.                                                       *)

\* s holds at most m entries, one to a key, none stored after t.
Stocked(s, t, m) ==
    /\ s \in Seq(Entries) /\ KeysApart(s, Len(s)) /\ Len(s) <= m
    /\ \A i \in 1..Len(s) : s[i].stored <= t

\* An entry of the list is e or one of the list before.
From(t, e, s) == OneAnd(t, Len(t), e, s, Len(s))
Within(t, s) == SomeOf(t, Len(t), s, Len(s))

\* Some of a list that comes from another, and the other way round.
LEMMA FromSome ==
  ASSUME NEW u, NEW e, NEW w, NEW s, From(u, e, w), Within(w, s)
  PROVE  From(u, e, s)
<1>1. \A j \in 1..Len(w) : \E k \in 1..Len(s) : w[j] = s[k]
  BY Zenon DEF Within, SomeOf
<1>2. \A i \in 1..Len(u) : u[i] = e \/ \E j \in 1..Len(w) : u[i] = w[j]
  BY Zenon DEF From, OneAnd
<1>3. ASSUME NEW i \in 1..Len(u), u[i] # e PROVE \E k \in 1..Len(s) : u[i] = s[k]
  <2>1. PICK j \in 1..Len(w) : u[i] = w[j]
    BY Zenon, <1>2, <1>3
  <2> QED BY Zenon, <1>1, <2>1
<1> QED BY Zenon, <1>3 DEF From, OneAnd

\* What came from a list came from one that holds more.
LEMMA SomeFrom ==
  ASSUME NEW u, NEW e, NEW v, NEW s, From(u, e, s), Within(v, u)
  PROVE  From(v, e, s)
<1>1. \A j \in 1..Len(v) : \E k \in 1..Len(u) : v[j] = u[k]
  BY Zenon DEF Within, SomeOf
<1>2. \A i \in 1..Len(u) : u[i] = e \/ \E j \in 1..Len(s) : u[i] = s[j]
  BY Zenon DEF From, OneAnd
<1>3. ASSUME NEW i \in 1..Len(v), v[i] # e PROVE \E k \in 1..Len(s) : v[i] = s[k]
  <2>1. PICK j \in 1..Len(u) : v[i] = u[j]
    BY Zenon, <1>1
  <2> QED BY Zenon, <1>2, <1>3, <2>1
<1> QED BY Zenon, <1>3 DEF From, OneAnd

\* A list whose entries are e and some of s has no later entry than they.
LEMMA StoredBefore ==
  ASSUME NEW t \in Nat, NEW s, NEW u, NEW e, NEW m, Stocked(s, t, m), From(u, e, s), e.stored <= t
  PROVE  \A i \in 1..Len(u) : u[i].stored <= t
<1>1. \A j \in 1..Len(s) : s[j].stored <= t
  BY Zenon DEF Stocked
<1> QED BY Zenon, <1>1 DEF From, OneAnd

\* No part of the stock is stored later than now.
LEMMA StoredBeforeToo ==
  ASSUME NEW t \in Nat, NEW s, NEW u, NEW m, Stocked(s, t, m), Within(u, s)
  PROVE  \A i \in 1..Len(u) : u[i].stored <= t
<1>1. \A j \in 1..Len(s) : s[j].stored <= t
  BY Zenon DEF Stocked
<1> QED BY Zenon, <1>1 DEF Within, SomeOf

\* Unlinking an entry.
LEMMA UnlinkStocked ==
  ASSUME NEW t \in Nat, NEW m \in Nat, NEW s, Stocked(s, t, m), NEW p \in 1..Len(s)
  PROVE  /\ Stocked(Unlinked(s, p), t, m) /\ Within(Unlinked(s, p), s)
         /\ Lacks(Unlinked(s, p), Len(Unlinked(s, p)), s[p].key)
         /\ Len(Unlinked(s, p)) = Len(s) - 1
<1> DEFINE u == Unlinked(s, p)
<1>1. s \in Seq(Entries) /\ KeysApart(s, Len(s)) /\ Len(s) <= m /\ Len(s) \in Nat
  BY Zenon, LenProperties DEF Stocked
<1>2. /\ u \in Seq(Entries) /\ Len(u) = Len(s) - 1 /\ KeysApart(u, Len(u))
      /\ SomeOf(u, Len(u), s, Len(s)) /\ Lacks(u, Len(u), s[p].key)
  BY Zenon, <1>1, Unlink
<1> HIDE DEF u
<1>3. Len(u) <= m
  BY <1>1, <1>2
<1>4. Within(u, s)
  BY Zenon, <1>2 DEF Within
<1>5. Stocked(u, t, m)
  BY Zenon, <1>2, <1>3, <1>4, StoredBeforeToo DEF Stocked
<1> QED BY Zenon, <1>2, <1>4, <1>5 DEF u

\* Moving an entry to the front, or putting another one under its key there.
LEMMA RefreshStocked ==
  ASSUME NEW t \in Nat, NEW m \in Nat, NEW s, Stocked(s, t, m), NEW p \in 1..Len(s),
         NEW e \in Entries, e.key = s[p].key, e.stored <= t
  PROVE  /\ Stocked(Fronting(e, Unlinked(s, p)), t, m)
         /\ From(Fronting(e, Unlinked(s, p)), e, s)
<1> DEFINE w == Unlinked(s, p)
           u == Fronting(e, w)
<1>1. /\ Stocked(w, t, m) /\ Within(w, s) /\ Lacks(w, Len(w), e.key) /\ Len(w) = Len(s) - 1
  BY Zenon, UnlinkStocked
<1> HIDE DEF w
<1>2. w \in Seq(Entries) /\ KeysApart(w, Len(w))
  BY Zenon, <1>1 DEF Stocked
<1>3. u \in Seq(Entries) /\ Len(u) = Len(w) + 1 /\ KeysApart(u, Len(u)) /\ From(u, e, w)
  BY Zenon, <1>1, <1>2, PushFront DEF From
<1> HIDE DEF u
<1>4. Len(s) \in Nat /\ Len(s) <= m
  BY Zenon, LenProperties DEF Stocked
<1>5. Len(u) <= m
  BY <1>1, <1>3, <1>4
<1>6. From(u, e, s)
  BY Zenon, <1>1, <1>3, FromSome
<1>7. Stocked(u, t, m)
  BY Zenon, <1>3, <1>5, <1>6, StoredBefore DEF Stocked
<1> QED BY Zenon, <1>6, <1>7 DEF u, w

\* Evicting down to k entries.
LEMMA EvictStocked ==
  ASSUME NEW t \in Nat, NEW m, NEW s, Stocked(s, t, m), NEW k \in Nat
  PROVE  Stocked(Evicted(s, k), t, k) /\ Within(Evicted(s, k), s)
<1> DEFINE u == Evicted(s, k)
<1>1. s \in Seq(Entries) /\ KeysApart(s, Len(s))
  BY Zenon DEF Stocked
<1>2. /\ u \in Seq(Entries) /\ Len(u) <= k /\ KeysApart(u, Len(u))
      /\ \A i \in 1..Len(u) : i \in 1..Len(s) /\ u[i] = s[i]
  BY Zenon, <1>1, Evict
<1> HIDE DEF u
<1>3. Within(u, s)
  BY Zenon, <1>2 DEF Within, SomeOf
<1>4. Stocked(u, t, k)
  BY Zenon, <1>2, <1>3, StoredBeforeToo DEF Stocked
<1> QED BY Zenon, <1>3, <1>4 DEF u

\* Pushing an entry under a new key and evicting what is too much.
LEMMA PushStocked ==
  ASSUME NEW t \in Nat, NEW m \in Nat, NEW s, Stocked(s, t, m),
         NEW e \in Entries, Lacks(s, Len(s), e.key), e.stored <= t
  PROVE  /\ Stocked(Evicted(Fronting(e, s), m), t, m)
         /\ From(Evicted(Fronting(e, s), m), e, s)
<1> DEFINE u == Fronting(e, s)
           v == Evicted(u, m)
<1>1. s \in Seq(Entries) /\ KeysApart(s, Len(s)) /\ Len(s) \in Nat
  BY Zenon, LenProperties DEF Stocked
<1>2. u \in Seq(Entries) /\ Len(u) = Len(s) + 1 /\ KeysApart(u, Len(u)) /\ From(u, e, s)
  BY Zenon, <1>1, PushFront DEF From
<1> HIDE DEF u
<1>3. Len(u) <= Len(s) + 1
  BY <1>1, <1>2
<1>4. Stocked(u, t, Len(s) + 1)
  BY Zenon, <1>2, <1>3, StoredBefore DEF Stocked
<1>5. Stocked(v, t, m) /\ Within(v, u)
  BY Zenon, <1>4, EvictStocked
<1> HIDE DEF v
<1>6. From(v, e, s)
  BY Zenon, <1>2, <1>5, SomeFrom
<1> QED BY Zenon, <1>5, <1>6 DEF u, v

\* The empty list.
LEMMA EmptyStocked ==
  ASSUME NEW t \in Nat, NEW m \in Nat, NEW s
  PROVE  Stocked(<<>>, t, m) /\ Within(<<>>, s)
<1>1. <<>> \in Seq(Entries) /\ Len(<<>>) = 0 /\ 0 <= m /\ \A i \in 1..Len(<<>>) : FALSE
  OBVIOUS
<1>2. \A i, j \in 1..Len(<<>>) : <<>>[i].key = <<>>[j].key => i = j
  BY Zenon, <1>1
<1>3. KeysApart(<<>>, Len(<<>>))
  BY Zenon, <1>2 DEF KeysApart
<1>4. \A i \in 1..Len(<<>>) : <<>>[i].stored <= t
  BY Zenon, <1>1
<1>5. Len(<<>>) <= m
  BY <1>1
<1>6. Within(<<>>, s)
  BY Zenon, <1>1 DEF Within, SomeOf
<1> QED BY Zenon, <1>1, <1>3, <1>4, <1>5, <1>6 DEF Stocked

-----------------------------------------------------------------------------
(* Lifetimes and results.                                                  *)

\* What a snapshot's content holds.
LEMMA ContentIs ==
  ASSUME NEW c \in Contents
  PROVE  /\ c.pol.max \in Nat /\ c.pol.minTTL \in Nat /\ c.pol.maxTTL \in Nat /\ c.pol.negTTL \in Nat
         /\ c.pol.on \in BOOLEAN /\ c.ttl \in Nat /\ c.fwd \in BOOLEAN /\ c.target \in BOOLEAN
         /\ c.zone \in Zones
<1>1. c \in [pol : Policies, zone : Zones, ttl : Nat, fwd : BOOLEAN, target : BOOLEAN]
  BY Zenon, ContentAssumption
<1>2. c.pol \in Policies /\ c.zone \in Zones /\ c.ttl \in Nat /\ c.fwd \in BOOLEAN /\ c.target \in BOOLEAN
  BY <1>1
<1>3. c.pol.on \in BOOLEAN /\ c.pol.max \in Nat /\ c.pol.minTTL \in Nat /\ c.pol.maxTTL \in Nat
      /\ c.pol.negTTL \in Nat
  BY <1>2 DEF Policies
<1> QED BY Zenon, <1>2, <1>3

\* Results are made of their parts.
LEMMA ResultIs ==
  ASSUME NEW from \in {"none", "zone", "up", "synth", "refused"},
         NEW rcode \in {"NOERROR", "NXDOMAIN", "SERVFAIL", "REFUSED"},
         NEW ans \in {"none", "cname", "data"}, NEW soa \in BOOLEAN, NEW ttl \in Nat
  PROVE  Result(from, rcode, ans, soa, ttl) \in Results
BY Zenon DEF Result, Results

\* The parts of a result.
LEMMA ResultParts ==
  ASSUME NEW r \in Results
  PROVE  /\ r.from \in {"none", "zone", "up", "synth", "refused"}
         /\ r.rcode \in {"NOERROR", "NXDOMAIN", "SERVFAIL", "REFUSED"}
         /\ r.ans \in {"none", "cname", "data"} /\ r.soa \in BOOLEAN /\ r.ttl \in Nat
         /\ DOMAIN r = {"from", "rcode", "ans", "soa", "ttl"}
BY DEF Results

\* An entry's lifetime is a number of seconds; a negative result without an SOA
\* has none.
LEMMA Lifetime ==
  ASSUME NEW c \in Contents, NEW r \in Results, NEW negative \in BOOLEAN
  PROVE  /\ clampTTL(r, negative, c.pol) \in Nat
         /\ negative /\ ~r.soa => clampTTL(r, negative, c.pol) = 0
<1> DEFINE t == entryTTL(r, negative)
           p == c.pol
           low == IF p.minTTL > 0 /\ t < p.minTTL THEN p.minTTL ELSE t
<1>1. p.minTTL \in Nat /\ p.maxTTL \in Nat /\ p.negTTL \in Nat
  BY Zenon, ContentIs
<1>2. t \in Nat /\ (negative /\ ~r.soa => t = 0)
  BY ResultParts DEF entryTTL
<1>3. clampTTL(r, negative, p) =
        IF negative THEN IF p.negTTL > 0 THEN Min({t, p.negTTL}) ELSE t
        ELSE IF p.maxTTL > 0 THEN Min({low, p.maxTTL}) ELSE low
  BY Zenon DEF clampTTL
<1> HIDE DEF t
<1>4. low \in Nat
  BY <1>1, <1>2
<1> HIDE DEF low
<1>5. Min({t, p.negTTL}) \in Nat /\ Min({t, p.negTTL}) <= t /\ Min({low, p.maxTTL}) \in Nat
  BY Zenon, <1>1, <1>2, <1>4, MinIs
<1> DEFINE m == Min({t, p.negTTL})
<1>6. m \in Nat /\ m <= t
  BY Zenon, <1>5
<1> HIDE DEF m
<1>7. t = 0 => m = 0
  BY <1>6
<1> QED BY Zenon, <1>2, <1>3, <1>4, <1>5, <1>7 DEF m

\* What resolution computes is a result.
LEMMA LocalIs ==
  ASSUME NEW c \in Contents
  PROVE  LocalResult(c) \in Results
<1>1. c.ttl \in Nat
  BY Zenon, ContentIs
<1>2. /\ Result("zone", "NOERROR", "data", FALSE, c.ttl) \in Results
      /\ Result("zone", "NXDOMAIN", "none", TRUE, c.ttl) \in Results
      /\ Result("zone", "NOERROR", "cname", FALSE, c.ttl) \in Results
      /\ NoResult \in Results
  BY Zenon, <1>1, ResultIs DEF NoResult
<1> QED BY Zenon, <1>2 DEF LocalResult

\* The cache and upstream hooks chaos may plan.
LEMMA HookIs ==
  ASSUME NEW h \in Hooks \cup {NoHook}
  PROVE  /\ h.synth # Nil => h.synth \in Synthetic
         /\ h.bypass \in BOOLEAN /\ h.miss \in BOOLEAN /\ h.expire \in BOOLEAN /\ h.stale \in BOOLEAN
<1>1. CASE h \in Hooks
  <2>1. h \in [bypass : BOOLEAN, miss : BOOLEAN, expire : BOOLEAN, stale : BOOLEAN,
               synth : Synthetic \cup {Nil}]
    BY Zenon, <1>1, HookAssumption
  <2> QED BY <2>1
<1>2. CASE h = NoHook
  <2>1. /\ NoHook.synth = Nil /\ NoHook.bypass = FALSE /\ NoHook.miss = FALSE
        /\ NoHook.expire = FALSE /\ NoHook.stale = FALSE
    BY Zenon DEF NoHook
  <2> QED BY Zenon, <1>2, <2>1
<1> QED BY Zenon, <1>1, <1>2

\* An exchange ends with a result.
LEMMA ExchangeIs ==
  ASSUME NEW h \in Hooks \cup {NoHook}, NEW r \in Exchange(h)
  PROVE  r \in Results
<1>1. CASE h.synth # Nil
  <2>1. r = Result("synth", h.synth, "none", FALSE, 0)
    BY Zenon, <1>1 DEF Exchange
  <2>2. h.synth \in {"NOERROR", "NXDOMAIN", "SERVFAIL", "REFUSED"} /\ 0 \in Nat
    BY <1>1, HookIs DEF Synthetic
  <2> QED BY Zenon, <2>1, <2>2, ResultIs
<1>2. CASE h.synth = Nil
  <2>1. r \in Replies
    BY Zenon, <1>2 DEF Exchange
  <2>2. PICK t \in TTLs : r \in Reply(t)
    BY Zenon, <2>1 DEF Replies
  <2>3. t \in Nat /\ 0 \in Nat
    BY BoundAssumption
  <2>4. /\ Result("up", "NOERROR", "data", FALSE, t) \in Results
        /\ Result("up", "SERVFAIL", "none", FALSE, 0) \in Results
        /\ \A rc \in Empty : Result("up", rc, "none", FALSE, t) \in Results
        /\ \A rc \in Empty : Result("up", rc, "none", TRUE, t) \in Results
    BY Zenon, <2>3, ResultIs DEF Empty
  <2> QED BY Zenon, <2>2, <2>4 DEF Reply
<1> QED BY Zenon, <1>1, <1>2

\* Joining the overlay CNAME keeps the rcode and the SOA.
LEMMA JoinedIs ==
  ASSUME NEW c \in Contents, NEW r \in Results
  PROVE  Joined(c, r) \in Results /\ Joined(c, r).rcode = r.rcode /\ Joined(c, r).soa = r.soa
<1>1. CASE c.zone # "cname"
  BY Zenon, <1>1 DEF Joined
<1>2. CASE c.zone = "cname"
  <2> DEFINE a == IF r.ans = "none" THEN "cname" ELSE r.ans
             t == IF r.ans = "none" /\ ~r.soa THEN c.ttl ELSE Min({r.ttl, c.ttl})
             v == [r EXCEPT !.ans = a, !.ttl = t]
  <2>1. Joined(c, r) = v
    BY Zenon, <1>2 DEF Joined
  <2>2. a \in {"none", "cname", "data"}
    BY Zenon, ResultParts
  <2>3. t \in Nat
    BY Zenon, MinIs, ContentIs, ResultParts
  <2> HIDE DEF a, t
  <2>4. v \in Results /\ v.rcode = r.rcode /\ v.soa = r.soa
    BY Zenon, <2>2, <2>3 DEF Results
  <2> QED BY Zenon, <2>1, <2>4
<1> QED BY Zenon, <1>1, <1>2

\* So does every way of answering.
LEMMA AnswersAre ==
  ASSUME NEW c \in Contents, NEW allow, NEW h \in Hooks \cup {NoHook}, NEW r \in Answers(c, allow, h)
  PROVE  r \in Results
<1>1. LocalResult(c) \in Results
  BY Zenon, LocalIs
<1>2. Refused \in Results
  BY Zenon, ResultIs, 0 \in Nat DEF Refused
<1>3. CASE Complete(c)
  BY Zenon, <1>1, <1>3 DEF Answers
<1>4. CASE ~Complete(c) /\ Forwards(c, allow)
  <2>1. PICK u \in Exchange(h) : r = Joined(c, u)
    BY Zenon, <1>4 DEF Answers
  <2> QED BY Zenon, <2>1, ExchangeIs, JoinedIs
<1>5. CASE ~Complete(c) /\ ~Forwards(c, allow)
  BY Zenon, <1>1, <1>2, <1>5 DEF Answers, Unforwarded
<1> QED BY Zenon, <1>3, <1>4, <1>5

-----------------------------------------------------------------------------
(* The cache's list, by operation.                                         *)

Room(p) == IF Usable(p) THEN p.max ELSE 0
Stock == Stocked(lru, now, Room(cpol)) /\ now \in Nat /\ Room(cpol) \in Nat

\* The place of a key the cache has.
LEMMA HasPlace ==
  ASSUME NEW STATE key, Has(key)
  PROVE  Place(key) \in 1..Len(lru) /\ lru[Place(key)].key = key
<1>1. \E i \in 1..Len(lru) : lru[i].key = key
  BY Zenon DEF Has
<1> QED BY Zenon, <1>1 DEF Place

\* Nothing else is changed, and everything is in its place.
LEMMA SameStock ==
  ASSUME Stock, lru' = lru, now' = now, obs' = obs
  PROVE  Stock' /\ Within(lru', lru)
<1>1. Within(lru, lru)
  BY Zenon DEF Within, SomeOf
<1>2. cpol' = cpol
  BY Zenon DEF cpol
<1> QED BY Zenon, <1>1, <1>2 DEF Stock

\* Get removes an entry, moves it to the front or leaves it.
LEMMA GetKeeps ==
  ASSUME Stock, NEW STATE key, NEW STATE p, NEW STATE h,
         lru' = LruAfterGet(key, p, h), now' = now, obs' = obs
  PROVE  Stock' /\ Within(lru', lru)
<1> DEFINE i == Place(key)
           w == Unlinked(lru, i)
           m == Room(cpol)
<1>1. Stocked(lru, now, m) /\ now \in Nat /\ m \in Nat
  BY Zenon DEF Stock
<1>2. cpol' = cpol
  BY Zenon DEF cpol
<1>3. CASE lru' = lru
  BY Zenon, <1>3, SameStock
<1>4. CASE lru' # lru
  <2>1. Has(key) /\ (lru' = Removed(key) \/ lru' = Fronted(key))
    BY Zenon, <1>4 DEF LruAfterGet, Reachable
  <2>2. i \in 1..Len(lru) /\ lru[i].key = key
    BY Zenon, <2>1, HasPlace
  <2>3. Removed(key) = w /\ Fronted(key) = Fronting(lru[i], w)
    BY Zenon DEF Removed, Fronted, Unlinked, Fronting, Lookup
  <2> HIDE DEF i, m
  <2>4. Stocked(w, now, m) /\ Within(w, lru)
    BY Zenon, <1>1, <2>2, UnlinkStocked
  <2>5. lru[i] \in Entries /\ lru[i].stored <= now
    BY Zenon, <1>1, <2>2, ElementOfSeq DEF Stocked
  <2> DEFINE e == lru[i]
             u == Fronting(e, w)
  <2>6. e \in Entries /\ e.key = lru[i].key /\ e.stored <= now
    BY Zenon, <2>5
  <2> HIDE DEF e
  <2>7. Stocked(u, now, m) /\ From(u, e, lru)
    BY Zenon, <1>1, <2>2, <2>6, RefreshStocked
  <2> HIDE DEF u, w
  <2>8. Within(u, lru)
    BY Zenon, <2>2, <2>7 DEF Within, SomeOf, From, OneAnd, e
  <2>9. lru' = w \/ lru' = u
    BY Zenon, <2>1, <2>3 DEF u, e
  <2>10. Stocked(lru', now', m) /\ Within(lru', lru)
    BY Zenon, <2>4, <2>7, <2>8, <2>9
  <2>11. m' = m
    BY Zenon, <1>2 DEF m
  <2> QED BY Zenon, <1>1, <2>10, <2>11 DEF Stock, m
<1> QED BY Zenon, <1>3, <1>4

Keys == [content : Contents, local : BOOLEAN, cd : BOOLEAN]

\* The step puts the result r under key, from the snapshot s.
Puts(key, r, negative, s) ==
    /\ ~Outdated(s) /\ clampTTL(r, negative \/ negativeResult(r), s.content.pol) # 0
    /\ \E e \in Entries : e.key = key /\ e.res = r /\ From(lru', e, lru)

\* An entry made by Put.
LEMMA EntryIs ==
  ASSUME NEW key \in Keys, NEW r \in Results, NEW stored \in Nat, NEW ttl \in Nat
  PROVE  LET e == [key |-> key, res |-> r, stored |-> stored, expire |-> stored + ttl]
         IN  e \in Entries /\ e.key = key /\ e.res = r /\ e.stored = stored
<1>1. stored + ttl \in Nat
  OBVIOUS
<1> QED BY Zenon, <1>1 DEF Entries, Keys

\* Put stores at most the one entry, under the capacity in force.
LEMMA PutKeeps ==
  ASSUME Stock, NEW STATE key, NEW STATE r, NEW STATE negative, NEW STATE s, NEW STATE h,
         key \in Keys, r \in Results, negative \in BOOLEAN, s \in Snapshots,
         lru' = LruAfterPut(key, r, negative, s, h), now' = now, obs' = obs
  PROVE  Stock' /\ (Within(lru', lru) \/ Puts(key, r, negative, s))
<1> DEFINE p == s.content.pol
           neg == negative \/ negativeResult(r)
           ttl == clampTTL(r, neg, p)
           e == [key |-> key, res |-> r, stored |-> now, expire |-> now + ttl]
           i == Place(key)
           w == Unlinked(lru, i)
           m == Room(cpol)
<1>1. Stocked(lru, now, m) /\ now \in Nat /\ m \in Nat
  BY Zenon DEF Stock
<1>2. cpol' = cpol
  BY Zenon DEF cpol
<1>3. lru' = IF h.bypass \/ Outdated(s) \/ ~Usable(p) \/ ~Usable(cpol) \/ ttl = 0 THEN lru
             ELSE IF Has(key) THEN <<e>> \o Removed(key)
             ELSE Trimmed(<<e>> \o lru, cpol.max)
  BY Zenon DEF LruAfterPut
<1>4. s.content \in Contents
  BY Zenon DEF Snapshots
<1>5. ttl \in Nat
  BY Zenon, <1>4, Lifetime
<1>6. CASE lru' = lru
  BY Zenon, <1>6, SameStock
<1>7. CASE lru' # lru
  <2>1. ~Outdated(s) /\ Usable(cpol) /\ ttl # 0
    BY Zenon, <1>3, <1>7
  <2>2. IF Has(key) THEN lru' = <<e>> \o Removed(key) ELSE lru' = Trimmed(<<e>> \o lru, cpol.max)
    BY Zenon, <1>3, <1>7
  <2>3. m = cpol.max
    BY Zenon, <2>1 DEF Room
  <2> HIDE DEF ttl, m
  <2>4. e \in Entries /\ e.key = key /\ e.res = r /\ e.stored = now
    BY Zenon, <1>1, <1>5, EntryIs
  <2>5. IF Has(key) THEN lru' = Fronting(e, w) ELSE lru' = Evicted(Fronting(e, lru), m)
    BY Zenon, <2>2, <2>3 DEF Fronting, Evicted, Trimmed, Removed, Unlinked
  <2> HIDE DEF e
  <2>6. e.stored <= now
    BY <1>1, <2>4
  <2>7. ASSUME Has(key) PROVE Stocked(lru', now, m) /\ From(lru', e, lru)
    <3>1. i \in 1..Len(lru) /\ lru[i].key = e.key
      BY Zenon, <2>4, <2>7, HasPlace
    <3> HIDE DEF i
    <3>2. Stocked(Fronting(e, w), now, m) /\ From(Fronting(e, w), e, lru)
      BY Zenon, <1>1, <2>4, <2>6, <3>1, RefreshStocked
    <3> QED BY Zenon, <2>5, <2>7, <3>2
  <2>8. ASSUME ~Has(key) PROVE Stocked(lru', now, m) /\ From(lru', e, lru)
    <3>1. Lacks(lru, Len(lru), e.key)
      BY Zenon, <2>4, <2>8 DEF Lacks, Has
    <3>2. Stocked(Evicted(Fronting(e, lru), m), now, m) /\ From(Evicted(Fronting(e, lru), m), e, lru)
      BY Zenon, <1>1, <2>4, <2>6, <3>1, PushStocked
    <3> QED BY Zenon, <2>5, <2>8, <3>2
  <2>9. Stocked(lru', now, m) /\ From(lru', e, lru)
    BY Zenon, <2>7, <2>8
  <2>10. m' = m
    BY Zenon, <1>2 DEF m
  <2>11. Stock'
    BY Zenon, <1>1, <2>9, <2>10 DEF Stock, m
  <2>12. Puts(key, r, negative, s)
    BY Zenon, <2>1, <2>4, <2>9 DEF Puts, ttl
  <2> QED BY Zenon, <2>11, <2>12
<1> QED BY Zenon, <1>6, <1>7

\* ObservePolicy moves to the newest snapshot and makes the entries fit.
LEMMA ObserveKeeps ==
  ASSUME Stock, Dated, observed \in BOOLEAN, NEW STATE s, s \in Held, Observe(s), now' = now
  PROVE  /\ Stock' /\ Within(lru', lru) /\ observed' /\ obs' \in Held
         /\ s.gen <= obs'.gen /\ (observed => obs.gen <= obs'.gen)
<1> DEFINE g == s.gen
           b == obs.gen
<1>1. s \in Snapshots /\ obs \in Held /\ obs \in Snapshots
  BY Zenon DEF Dated, Held
<1>2. g \in Nat /\ b \in Nat /\ s.content \in Contents
  BY <1>1, BoundAssumption DEF Snapshots
<1>3. CASE observed /\ s.gen <= obs.gen
  <2>1. lru' = lru /\ obs' = obs /\ observed' = observed
    BY Zenon, <1>3 DEF Observe
  <2>2. b <= b
    BY <1>2
  <2> QED BY Zenon, <1>1, <1>3, <2>1, <2>2, SameStock
<1>4. CASE ~(observed /\ s.gen <= obs.gen)
  <2> DEFINE p == s.content.pol
  <2>1. /\ obs' = s /\ observed' = TRUE
        /\ lru' = IF Usable(p) THEN Trimmed(lru, p.max) ELSE <<>>
    BY Zenon, <1>4 DEF Observe
  <2>2. g <= g /\ (~(observed /\ g <= b) /\ observed => b <= g)
    BY <1>2
  <2>3. p.max \in Nat /\ 0 \in Nat
    BY Zenon, <1>2, ContentIs, 0 \in Nat
  <2>4. Stocked(lru, now, Room(cpol)) /\ now \in Nat
    BY Zenon DEF Stock
  <2>5. cpol' = p
    BY Zenon, <2>1 DEF cpol
  <2>6. CASE Usable(p)
    <3>1. lru' = Evicted(lru, p.max) /\ Room(cpol') = p.max
      BY Zenon, <2>1, <2>5, <2>6 DEF Trimmed, Evicted, Room
    <3>2. Stocked(lru', now, p.max) /\ Within(lru', lru)
      BY Zenon, <2>3, <2>4, <3>1, EvictStocked
    <3>3. Stock'
      BY Zenon, <2>3, <2>4, <3>1, <3>2 DEF Stock
    <3> QED BY Zenon, <1>4, <2>1, <2>2, <3>2, <3>3
  <2>7. CASE ~Usable(p)
    <3>1. lru' = <<>> /\ Room(cpol') = 0
      BY Zenon, <2>1, <2>5, <2>7 DEF Room
    <3>2. Stocked(<<>>, now, 0) /\ Within(<<>>, lru)
      BY Zenon, <2>3, <2>4, EmptyStocked
    <3>3. Stock'
      BY Zenon, <2>3, <2>4, <3>1, <3>2 DEF Stock
    <3> QED BY Zenon, <1>4, <2>1, <2>2, <3>1, <3>2, <3>3
  <2> QED BY Zenon, <2>6, <2>7
<1> QED BY Zenon, <1>3, <1>4

-----------------------------------------------------------------------------
(* The invariant, part by part.                                            *)

Queried == DOMAIN qs = Queries /\ \A q \in Queries : Under(qs[q]) /\ Abreast(qs[q], observed, obs)
Bounded(h) ==
    /\ h.ttl > 0 => h.at + h.ttl <= h.until /\ h.at + h.ttl <= h.expire
    /\ h.at >= h.expire => h.ttl = 0
Measured == \A q \in Queries : qs[q].pc = "done" => Bounded(qs[q].hit)

\* A snapshot somebody holds is one that was published.
LEMMA SnapshotIs ==
  ASSUME Dated, NEW STATE s, s \in Held
  PROVE  s.gen \in Nat /\ s.content \in Contents /\ s \in Snapshots /\ s.gen <= active.gen
<1>1. s \in Snapshots /\ s.gen <= active.gen
  BY Zenon DEF Dated
<1>2. s.gen \in Nat /\ s.content \in Contents
  BY <1>1, BoundAssumption DEF Snapshots
<1> QED BY Zenon, <1>1, <1>2

\* Who holds snapshots.
LEMMA HoldersHold ==
  /\ active \in Held /\ obs \in Held /\ (seen # Nil => seen \in Held)
  /\ \A q \in Queries : qs[q].pc # "idle" => qs[q].snap \in Held
BY Zenon DEF Held

\* The invariant by its parts.
LEMMA Parts == Coherent => Dated /\ observed \in BOOLEAN /\ Queried /\ Stock /\ Measured
<1> SUFFICES ASSUME Coherent PROVE Dated /\ observed \in BOOLEAN /\ Queried /\ Stock /\ Measured
  OBVIOUS
<1>1. Dated /\ observed \in BOOLEAN /\ now \in Nat /\ Queried
  BY Zenon DEF Coherent, Queried
<1>2. Measured
  BY Zenon DEF Coherent, HitTTLBounded, Served, Measured, Bounded
<1>3. obs.content \in Contents
  BY Zenon, <1>1, HoldersHold, SnapshotIs
<1>4. Room(cpol) \in Nat
  BY Zenon, <1>3, ContentIs, 0 \in Nat DEF Room, cpol
<1>5. Stocked(lru, now, Room(cpol))
  BY Zenon DEF Coherent, CapacityInForce, Stocked, KeysApart, Room
<1> QED BY Zenon, <1>1, <1>2, <1>4, <1>5 DEF Stock

\* The parts make the invariant.
LEMMA Whole ==
  ASSUME Dated', observed' \in BOOLEAN, Queried', Stock', Measured'
  PROVE  Coherent'
<1>1. HitTTLBounded'
  BY Zenon DEF HitTTLBounded, Served, Measured, Bounded
<1>2. CapacityInForce'
  BY Zenon DEF CapacityInForce, Stock, Stocked, KeysApart, Room
<1>3. lru' \in Seq(Entries) /\ (\A i \in 1..Len(lru') : lru'[i].stored <= now') /\ now' \in Nat
  BY Zenon DEF Stock, Stocked
<1> QED BY Zenon, <1>1, <1>2, <1>3 DEF Coherent, Queried

\* A step after which nobody holds another snapshot than before.
LEMMA SameDates ==
  ASSUME Dated, active' = active, obs' \in Held, seen' = Nil \/ seen' \in Held,
         \A q \in Queries : qs'[q].pc # "idle" => qs'[q].snap \in Held
  PROVE  Dated'
<1>1. ASSUME NEW s \in Held' PROVE s \in Held
  <2>1. \/ s = active' \/ s = obs' \/ (seen' # Nil /\ s = seen')
        \/ \E q \in Queries : qs'[q].pc # "idle" /\ s = qs'[q].snap
    BY Zenon, <1>1 DEF Held
  <2> QED BY Zenon, <2>1, HoldersHold
<1> QED BY Zenon, <1>1 DEF Dated

\* A query the cache has caught up with stays so when newer policies are observed.
LEMMA StillAbreast ==
  ASSUME NEW s, NEW o, NEW b, NEW u, NEW c, Abreast(s, o, b), o => u, o => b.gen <= c.gen,
         s.pc # "idle" => s.snap.gen \in Nat, b.gen \in Nat, c.gen \in Nat
  PROVE  Abreast(s, u, c)
<1>1. SUFFICES ASSUME s.pc \in {"local", "up", "resolve", "store"} PROVE u /\ s.snap.gen <= c.gen
  BY Zenon DEF Abreast
<1>2. u /\ s.snap.gen <= b.gen /\ b.gen <= c.gen /\ s.snap.gen \in Nat
  BY Zenon, <1>1 DEF Abreast
<1> QED BY <1>2

\* What a query may come to hold.
Sound(v, o, b, h) ==
    /\ Under(v) /\ Abreast(v, o, b) /\ (v.pc = "done" => Bounded(v.hit))
    /\ v.pc # "idle" => v.snap \in h

\* Every query that is not changed keeps its part, when the cache has observed
\* nothing older.
LEMMA OthersKeep ==
  ASSUME Coherent, NEW q \in Queries, obs' \in Held,
         observed => observed', observed => obs.gen <= obs'.gen
  PROVE  Sound(qs[q], observed', obs', Held)
<1>1. Dated /\ Queried /\ Measured
  BY Zenon, Parts
<1>2. Under(qs[q]) /\ Abreast(qs[q], observed, obs) /\ (qs[q].pc = "done" => Bounded(qs[q].hit))
  BY Zenon, <1>1 DEF Queried, Measured
<1>3. qs[q].pc # "idle" => qs[q].snap \in Held /\ qs[q].snap.gen \in Nat
  BY Zenon, <1>1, HoldersHold, SnapshotIs
<1>4. obs.gen \in Nat
  BY Zenon, <1>1, HoldersHold, SnapshotIs
<1>5. obs'.gen \in Nat
  <2>1. obs' \in Snapshots
    BY Zenon, <1>1 DEF Dated
  <2> QED BY <2>1, BoundAssumption DEF Snapshots
<1>6. Abreast(qs[q], observed', obs')
  BY Zenon, <1>2, <1>3, <1>4, <1>5, StillAbreast
<1> QED BY Zenon, <1>2, <1>3, <1>6 DEF Sound

\* A step that keeps every query sound and the stock in order keeps the invariant.
LEMMA AllSound ==
  ASSUME Coherent, DOMAIN qs' = Queries, \A q \in Queries : Sound(qs'[q], observed', obs', Held),
         active' = active, obs' \in Held, seen' = Nil \/ seen' \in Held,
         observed' \in BOOLEAN, Stock'
  PROVE  Coherent'
<1>1. Dated'
  <2>1. \A q \in Queries : qs'[q].pc # "idle" => qs'[q].snap \in Held
    BY Zenon DEF Sound
  <2>2. Dated
    BY Zenon, Parts
  <2> QED BY Zenon, <2>1, <2>2, SameDates
<1>2. Queried'
  BY Zenon DEF Queried, Sound
<1>3. Measured'
  BY Zenon DEF Measured, Sound
<1> QED BY Zenon, <1>1, <1>2, <1>3, Whole

\* A step of the query q that leaves it with v.
LEMMA Moves ==
  ASSUME Coherent, NEW q \in Queries, NEW STATE v, qs' = [qs EXCEPT ![q] = v],
         Sound(v, observed', obs', Held), active' = active, seen' = seen,
         obs' \in Held, observed' \in BOOLEAN, observed => observed', observed => obs.gen <= obs'.gen,
         Stock'
  PROVE  Coherent'
<1>1. DOMAIN qs = Queries
  BY Zenon, Parts DEF Queried
<1>2. DOMAIN qs' = Queries /\ qs'[q] = v /\ \A r \in Queries \ {q} : qs'[r] = qs[r]
  BY Zenon, <1>1
<1>3. \A r \in Queries : Sound(qs[r], observed', obs', Held)
  BY Zenon, OthersKeep
<1>4. \A r \in Queries : Sound(qs'[r], observed', obs', Held)
  BY Zenon, <1>2, <1>3
<1>5. seen' = Nil \/ seen' \in Held
  BY Zenon, HoldersHold
<1> QED BY Zenon, <1>2, <1>4, <1>5, AllSound

\* A step of the query q that observes nothing.
LEMMA MovesOn ==
  ASSUME Coherent, NEW q \in Queries, NEW STATE v, qs' = [qs EXCEPT ![q] = v],
         Sound(v, observed, obs, Held), UNCHANGED <<active, obs, observed, seen>>, Stock'
  PROVE  Coherent'
<1>1. /\ active' = active /\ obs' = obs /\ observed' = observed /\ seen' = seen
      /\ observed \in BOOLEAN /\ obs \in Held /\ obs.gen \in Nat
  BY Zenon, Parts, HoldersHold, SnapshotIs
<1>2. obs.gen <= obs.gen
  BY <1>1
<1>3. Sound(v, observed', obs', Held) /\ obs' \in Held /\ observed' \in BOOLEAN /\ obs.gen <= obs'.gen
  BY Zenon, <1>1, <1>2
<1>4. observed => observed'
  BY <1>1
<1> QED BY Zenon, <1>1, <1>3, <1>4, Moves

-----------------------------------------------------------------------------
(* The steps of a query.                                                   *)

Fields == {"pc", "manage", "allow", "cd", "hook", "snap", "res", "hit"}

\* A query that has not arrived.
LEMMA IdleIs ==
  /\ DOMAIN Idle = Fields /\ Idle.pc = "idle" /\ Idle.manage = FALSE /\ Idle.allow = FALSE
  /\ Idle.cd = FALSE /\ Idle.hook = NoHook /\ Idle.res = NoResult /\ NoResult \in Results
<1>1. DOMAIN Idle = Fields
  BY DEF Idle, Fields
<1>2. NoResult \in Results
  BY Zenon, ResultIs, 0 \in Nat DEF NoResult
<1> QED BY Zenon, <1>1, <1>2 DEF Idle

\* Nothing is asked of it.
LEMMA IdleSound ==
  ASSUME NEW o, NEW b, NEW h
  PROVE  Sound(Idle, o, b, h)
<1>1. Under(Idle)
  BY Zenon, IdleIs DEF Under
<1> QED BY Zenon, <1>1, IdleIs DEF Sound, Abreast

\* What the invariant says of a query.
LEMMA Known ==
  ASSUME Coherent, NEW q \in Queries
  PROVE  /\ Under(qs[q]) /\ Abreast(qs[q], observed, obs) /\ DOMAIN qs[q] = Fields
         /\ qs[q].pc # "idle" => qs[q].snap \in Held /\ qs[q].snap.content \in Contents
<1>1. Under(qs[q]) /\ Abreast(qs[q], observed, obs)
  BY Zenon, Parts DEF Queried
<1>2. DOMAIN qs[q] = Fields
  BY Zenon, <1>1, IdleIs DEF Under
<1> QED BY Zenon, <1>1, <1>2, Parts, HoldersHold, SnapshotIs

LEMMA ArriveKeeps ==
  ASSUME Coherent, NEW q \in Queries, Arrive(q)
  PROVE  Coherent'
<1>1. PICK allow \in BOOLEAN, cd \in CDs, h \in Hooks \cup {NoHook} :
        qs' = [qs EXCEPT ![q] = [Idle EXCEPT !.pc = "observe", !.allow = allow, !.cd = cd,
                                  !.hook = h, !.snap = active]]
  BY Zenon DEF Arrive
<1> DEFINE v == [Idle EXCEPT !.pc = "observe", !.allow = allow, !.cd = cd, !.hook = h, !.snap = active]
<1>2. qs' = [qs EXCEPT ![q] = v] /\ UNCHANGED <<active, obs, observed, seen>>
      /\ lru' = lru /\ now' = now /\ obs' = obs
  BY Zenon, <1>1 DEF Arrive
<1>3. /\ DOMAIN v = DOMAIN Idle /\ v.pc = "observe" /\ v.allow = allow /\ v.cd = cd /\ v.hook = h
      /\ v.snap = active /\ v.manage = FALSE /\ v.res = NoResult
  BY Zenon, IdleIs DEF Fields
<1> HIDE DEF v
<1>4. cd \in BOOLEAN
  BY Zenon, BoundAssumption
<1>5. Under(v)
  BY Zenon, <1>3, <1>4, IdleIs DEF Under
<1>6. Sound(v, observed, obs, Held)
  BY Zenon, <1>3, <1>5, HoldersHold DEF Sound, Abreast
<1>7. Stock'
  BY Zenon, <1>2, Parts, SameStock
<1> QED BY Zenon, <1>2, <1>6, <1>7, MovesOn

LEMMA ManageKeeps ==
  ASSUME Coherent, NEW q \in Queries, Manage(q)
  PROVE  Coherent'
<1> DEFINE v == [Idle EXCEPT !.pc = "observe", !.manage = TRUE, !.snap = active]
<1>1. qs' = [qs EXCEPT ![q] = v] /\ UNCHANGED <<active, obs, observed, seen>>
      /\ lru' = lru /\ now' = now /\ obs' = obs
  BY Zenon DEF Manage
<1>2. /\ DOMAIN v = DOMAIN Idle /\ v.pc = "observe" /\ v.allow = FALSE /\ v.cd = FALSE /\ v.hook = NoHook
      /\ v.snap = active /\ v.manage = TRUE /\ v.res = NoResult
  BY Zenon, IdleIs DEF Fields
<1> HIDE DEF v
<1>3. Under(v)
  BY Zenon, <1>2, IdleIs DEF Under
<1>4. Sound(v, observed, obs, Held)
  BY Zenon, <1>2, <1>3, HoldersHold DEF Sound, Abreast
<1>5. Stock'
  BY Zenon, <1>1, Parts, SameStock
<1> QED BY Zenon, <1>1, <1>4, <1>5, MovesOn

LEMMA ObservePolicyKeeps ==
  ASSUME Coherent, NEW q \in Queries, ObservePolicy(q)
  PROVE  Coherent' /\ Within(lru', lru)
<1> DEFINE k == qs[q]
           v == [k EXCEPT !.pc = "local"]
<1>1. /\ k.pc = "observe" /\ Observe(k.snap) /\ qs' = [qs EXCEPT ![q] = v]
      /\ active' = active /\ now' = now /\ seen' = seen
  BY Zenon DEF ObservePolicy
<1>2. Under(k) /\ DOMAIN k = Fields /\ k.snap \in Held
  BY Zenon, <1>1, Known
<1>3. Dated /\ Stock /\ observed \in BOOLEAN
  BY Zenon, Parts
<1>4. /\ Stock' /\ Within(lru', lru) /\ observed' /\ obs' \in Held
      /\ k.snap.gen <= obs'.gen /\ (observed => obs.gen <= obs'.gen)
  BY Zenon, <1>1, <1>2, <1>3, ObserveKeeps
<1>5. observed' \in BOOLEAN
  BY <1>1, <1>3, <1>4 DEF Observe
<1>6. /\ DOMAIN v = DOMAIN k /\ v.pc = "local" /\ v.manage = k.manage /\ v.allow = k.allow /\ v.cd = k.cd
      /\ v.hook = k.hook /\ v.snap = k.snap /\ v.res = k.res
  BY Zenon, <1>2 DEF Fields
<1> HIDE DEF v
<1>7. Under(v)
  BY Zenon, <1>2, <1>6 DEF Under
<1>8. Sound(v, observed', obs', Held)
  BY Zenon, <1>2, <1>4, <1>6, <1>7 DEF Sound, Abreast
<1>9. Coherent'
  BY Zenon, <1>1, <1>4, <1>5, <1>8, Moves
<1> QED BY Zenon, <1>4, <1>9

\* The copy of an entry ends with its records and with the entry.
LEMMA CopyBounded ==
  ASSUME now \in Nat, NEW STATE e, e \in Entries, e.stored <= now, NEW STATE stale
  PROVE  Bounded(Copy(e, stale))
<1> DEFINE n == now
           x == e.expire
           d == e.stored
           t == e.res.ttl
           own == IF t > n - d THEN t - (n - d) ELSE 0
           rest == IF x > n THEN x - n ELSE 0
           m == Min({own, rest})
           h == Copy(e, stale)
<1>1. h.ttl = m /\ h.at = n /\ h.until = d + t /\ h.expire = x
  BY Zenon DEF Copy, Decayed, Remaining
<1>2. e.res \in Results /\ x \in Nat /\ d \in Nat /\ n \in Nat
  BY DEF Entries
<1>3. t \in Nat /\ d <= n
  BY Zenon, <1>2, ResultParts
<1> HIDE DEF n, x, d, t, h
<1>4. own \in Nat /\ rest \in Nat
  BY <1>2, <1>3
<1>5. m \in Nat /\ m <= own /\ m <= rest
  BY Zenon, <1>4, MinIs
<1> HIDE DEF m
<1>6. m > 0 => n + m <= d + t /\ n + m <= x
  BY <1>2, <1>3, <1>5
<1>7. n >= x => m = 0
  BY <1>2, <1>3, <1>5
<1>8. Bounded(h)
  BY Zenon, <1>1, <1>6, <1>7 DEF Bounded
<1> QED BY Zenon, <1>8 DEF h

\* What a hit gives the query: the entry under the key.
LEMMA HitFinds ==
  ASSUME Stock, NEW STATE key, NEW STATE p, NEW STATE h, Hit(key, p, h)
  PROVE  /\ Place(key) \in 1..Len(lru) /\ Lookup(key) \in Entries
         /\ Lookup(key).key = key /\ Lookup(key).stored <= now
<1> DEFINE i == Place(key)
<1>1. i \in 1..Len(lru) /\ lru[i].key = key
  BY Zenon, HasPlace DEF Hit, Reachable
<1>2. lru \in Seq(Entries) /\ \A j \in 1..Len(lru) : lru[j].stored <= now
  BY Zenon DEF Stock, Stocked
<1>3. lru[i] \in Entries /\ lru[i].stored <= now
  BY Zenon, <1>1, <1>2, ElementOfSeq
<1> QED BY Zenon, <1>1, <1>3 DEF Lookup

\* The query goes on at next after a miss.
LEMMA GetCoherent ==
  ASSUME Coherent, NEW q \in Queries, NEW STATE key, NEW STATE next, Get(q, key, next),
         qs[q].pc \in {"local", "up"}, next \in {"up", "resolve"},
         next = "up" => ~qs[q].manage /\ qs[q].allow /\ qs[q].snap.content.fwd
  PROVE  Coherent' /\ Within(lru', lru)
<1> DEFINE k == qs[q]
           p == k.snap.content.pol
           e == Lookup(key)
           stale == k.hook.expire \/ Expired(e)
<1>1. /\ lru' = LruAfterGet(key, p, k.hook) /\ now' = now /\ obs' = obs
      /\ UNCHANGED <<active, obs, observed, seen>>
      /\ qs' = IF Hit(key, p, k.hook)
               THEN [qs EXCEPT ![q] = [k EXCEPT !.pc = "done", !.res = e.res, !.hit = Copy(e, stale)]]
               ELSE [qs EXCEPT ![q] = [k EXCEPT !.pc = next]]
  BY Zenon DEF Get
<1>2. Stock /\ now \in Nat
  BY Zenon, Parts DEF Stock
<1>3. Stock' /\ Within(lru', lru)
  BY Zenon, <1>1, <1>2, GetKeeps
<1>4. k.pc # "idle"
  OBVIOUS
<1>5. Under(k) /\ Abreast(k, observed, obs) /\ DOMAIN k = Fields /\ k.snap \in Held
  BY Zenon, <1>4, Known
<1>6. CASE Hit(key, p, k.hook)
  <2> DEFINE v == [k EXCEPT !.pc = "done", !.res = e.res, !.hit = Copy(e, stale)]
  <2>1. e \in Entries /\ e.stored <= now
    BY Zenon, <1>2, <1>6, HitFinds
  <2>2. e.res \in Results
    BY <2>1 DEF Entries
  <2>3. Bounded(Copy(e, stale))
    BY Zenon, <1>2, <2>1, CopyBounded
  <2>4. qs' = [qs EXCEPT ![q] = v]
    BY Zenon, <1>1, <1>6
  <2>5. /\ DOMAIN v = DOMAIN k /\ v.pc = "done" /\ v.manage = k.manage /\ v.allow = k.allow /\ v.cd = k.cd
        /\ v.hook = k.hook /\ v.snap = k.snap /\ v.res = e.res /\ v.hit = Copy(e, stale)
    BY Zenon, <1>5 DEF Fields
  <2> HIDE DEF v
  <2>6. Under(v)
    BY Zenon, <1>5, <2>2, <2>5 DEF Under
  <2>7. Sound(v, observed, obs, Held)
    BY Zenon, <1>5, <2>3, <2>5, <2>6 DEF Sound, Abreast
  <2>8. Coherent'
    BY Zenon, <1>1, <1>3, <2>4, <2>7, MovesOn
  <2> QED BY Zenon, <1>3, <2>8
<1>7. CASE ~Hit(key, p, k.hook)
  <2> DEFINE v == [k EXCEPT !.pc = next]
  <2>1. qs' = [qs EXCEPT ![q] = v]
    BY Zenon, <1>1, <1>7
  <2>2. /\ DOMAIN v = DOMAIN k /\ v.pc = next /\ v.manage = k.manage /\ v.allow = k.allow /\ v.cd = k.cd
        /\ v.hook = k.hook /\ v.snap = k.snap /\ v.res = k.res
    BY Zenon, <1>5 DEF Fields
  <2> HIDE DEF v
  <2>3. Under(v)
    BY Zenon, <1>5, <2>2 DEF Under
  <2>4. Abreast(v, observed, obs)
    BY Zenon, <1>5, <2>2 DEF Abreast
  <2>5. Sound(v, observed, obs, Held)
    BY Zenon, <1>5, <2>2, <2>3, <2>4 DEF Sound
  <2>6. Coherent'
    BY Zenon, <1>1, <1>3, <2>1, <2>5, MovesOn
  <2> QED BY Zenon, <1>3, <2>6
<1> QED BY Zenon, <1>6, <1>7

LEMMA LookupLocalKeeps ==
  ASSUME Coherent, NEW q \in Queries, LookupLocal(q)
  PROVE  Coherent' /\ Within(lru', lru)
<1> DEFINE k == qs[q]
           key == LocalKey(k.snap.content)
           next == IF k.allow /\ k.snap.content.fwd THEN "up" ELSE "resolve"
<1>1. k.pc = "local" /\ Get(q, key, next)
  BY Zenon DEF LookupLocal
<1>2. Under(k)
  BY Zenon, Known
<1>3. next \in {"up", "resolve"} /\ (next = "up" => ~k.manage /\ k.allow /\ k.snap.content.fwd)
  BY Zenon, <1>2 DEF Under
<1>4. k.pc \in {"local", "up"}
  BY Zenon, <1>1
<1> HIDE DEF key, next
<1> QED BY Zenon, <1>1, <1>3, <1>4, GetCoherent

LEMMA LookupUpKeeps ==
  ASSUME Coherent, NEW q \in Queries, LookupUp(q)
  PROVE  Coherent' /\ Within(lru', lru)
<1> DEFINE k == qs[q]
           key == UpKey(k.snap.content, k.cd)
<1>1. k.pc \in {"local", "up"} /\ Get(q, key, "resolve")
  BY Zenon DEF LookupUp
<1> HIDE DEF key
<1> QED BY Zenon, <1>1, GetCoherent

LEMMA ResolveKeeps ==
  ASSUME Coherent, NEW q \in Queries, Resolve(q)
  PROVE  Coherent'
<1> DEFINE k == qs[q]
           c == k.snap.content
<1>1. PICK r \in IF k.manage THEN {LocalResult(c)} ELSE Answers(c, k.allow, k.hook) :
        qs' = [qs EXCEPT ![q] = [k EXCEPT !.pc = "store", !.res = r]]
  BY Zenon DEF Resolve
<1>2. /\ k.pc = "resolve" /\ UNCHANGED <<active, obs, observed, seen>>
      /\ lru' = lru /\ now' = now /\ obs' = obs
  BY Zenon DEF Resolve
<1>3. Under(k) /\ Abreast(k, observed, obs) /\ DOMAIN k = Fields /\ k.snap \in Held /\ c \in Contents
  BY Zenon, <1>2, Known
<1>4. k.hook \in Hooks \cup {NoHook}
  BY Zenon, <1>3 DEF Under
<1>5. r \in Results
  BY Zenon, <1>1, <1>3, <1>4, LocalIs, AnswersAre
<1> DEFINE v == [k EXCEPT !.pc = "store", !.res = r]
<1>6. qs' = [qs EXCEPT ![q] = v]
  BY Zenon, <1>1
<1>7. /\ DOMAIN v = DOMAIN k /\ v.pc = "store" /\ v.manage = k.manage /\ v.allow = k.allow /\ v.cd = k.cd
      /\ v.hook = k.hook /\ v.snap = k.snap /\ v.res = r
  BY Zenon, <1>3 DEF Fields
<1> HIDE DEF v
<1>8. v.res \in OwnAnswers(v, v.hook)
  BY Zenon, <1>1, <1>7 DEF OwnAnswers
<1>9. Under(v)
  BY Zenon, <1>3, <1>5, <1>7, <1>8 DEF Under
<1>10. Sound(v, observed, obs, Held)
  BY Zenon, <1>2, <1>3, <1>7, <1>9 DEF Sound, Abreast
<1>11. Stock'
  BY Zenon, <1>2, Parts, SameStock
<1> QED BY Zenon, <1>2, <1>6, <1>10, <1>11, MovesOn

\* Where storeCache puts the result of the query s, whether it is negative, and
\* whether it stores it at all.
KeyOf(s) ==
    IF s.manage \/ SharesLocal(s.snap.content, s.allow) THEN LocalKey(s.snap.content)
    ELSE UpKey(s.snap.content, s.cd)
Negative(s) == ~s.manage /\ (s.res.rcode = "NXDOMAIN" \/ s.res.ans = "none")
Keeps(s) ==
    /\ IF s.manage THEN Complete(s.snap.content)
       ELSE KeyOf(s).local \/ (s.allow /\ s.snap.content.fwd)
    /\ Cacheable(s.res, FALSE)

\* What storing does: Put if the answer is to be kept, nothing otherwise.
LEMMA StoreIs ==
  ASSUME NEW q \in Queries, Store(q)
  PROVE  /\ qs[q].pc = "store" /\ qs' = [qs EXCEPT ![q] = Idle]
         /\ UNCHANGED <<active, obs, observed, seen>> /\ now' = now /\ obs' = obs
         /\ Keeps(qs[q]) =>
              lru' = LruAfterPut(KeyOf(qs[q]), qs[q].res, Negative(qs[q]), qs[q].snap, qs[q].hook)
         /\ ~Keeps(qs[q]) => lru' = lru
BY Zenon DEF Store, Keeps, KeyOf, Negative

\* The key an answer is stored under names the query's own content.
LEMMA KeyIs ==
  ASSUME NEW STATE s, s.snap.content \in Contents, s.cd \in BOOLEAN
  PROVE  KeyOf(s) \in Keys /\ KeyOf(s).content = s.snap.content
BY Zenon DEF KeyOf, LocalKey, UpKey, Keys

LEMMA StoreKeeps ==
  ASSUME Coherent, NEW q \in Queries, Store(q)
  PROVE  /\ Coherent'
         /\ \/ Within(lru', lru)
            \/ Keeps(qs[q]) /\ Puts(KeyOf(qs[q]), qs[q].res, Negative(qs[q]), qs[q].snap)
<1> DEFINE k == qs[q]
<1>1. /\ k.pc = "store" /\ qs' = [qs EXCEPT ![q] = Idle]
      /\ UNCHANGED <<active, obs, observed, seen>> /\ now' = now /\ obs' = obs
      /\ Keeps(k) => lru' = LruAfterPut(KeyOf(k), k.res, Negative(k), k.snap, k.hook)
      /\ ~Keeps(k) => lru' = lru
  BY Zenon, StoreIs
<1>2. Under(k) /\ k.snap \in Held /\ k.snap.content \in Contents
  BY Zenon, <1>1, Known
<1>3. Stock /\ Dated
  BY Zenon, Parts
<1>4. KeyOf(k) \in Keys /\ k.res \in Results /\ Negative(k) \in BOOLEAN /\ k.snap \in Snapshots
  BY Zenon, <1>2, <1>3, KeyIs, SnapshotIs DEF Under, Negative
<1>5. ASSUME Keeps(k) PROVE Stock' /\ (Within(lru', lru) \/ Puts(KeyOf(k), k.res, Negative(k), k.snap))
  <2>1. lru' = LruAfterPut(KeyOf(k), k.res, Negative(k), k.snap, k.hook)
    BY Zenon, <1>1, <1>5
  <2> QED BY Zenon, <1>1, <1>3, <1>4, <2>1, PutKeeps
<1>6. ASSUME ~Keeps(k) PROVE Stock' /\ Within(lru', lru)
  BY Zenon, <1>1, <1>3, <1>6, SameStock
<1>7. Stock'
  BY Zenon, <1>5, <1>6
<1>8. Sound(Idle, observed, obs, Held)
  BY Zenon, IdleSound
<1>9. Coherent'
  BY Zenon, <1>1, <1>7, <1>8, MovesOn
<1> QED BY Zenon, <1>5, <1>6, <1>9

-----------------------------------------------------------------------------
(* The control plane and the clock.                                        *)

\* A new generation is newer than any that somebody holds.
LEMMA PublishKeeps ==
  ASSUME Coherent, Publish
  PROVE  Coherent'
<1>1. PICK c \in Contents : active' = [gen |-> active.gen + 1, content |-> c]
  BY Zenon DEF Publish
<1>2. /\ active.gen < MaxGen /\ obs' = obs /\ observed' = observed /\ lru' = lru /\ now' = now
      /\ qs' = qs /\ seen' = seen
  BY Zenon DEF Publish
<1>3. Dated /\ observed \in BOOLEAN /\ Queried /\ Stock /\ Measured
  BY Zenon, Parts
<1>4. active \in Snapshots /\ active.gen \in Nat
  BY Zenon, <1>3, HoldersHold, SnapshotIs
<1>5. active' \in Snapshots /\ active'.gen = active.gen + 1
  BY <1>1, <1>2, <1>4, BoundAssumption DEF Snapshots
<1>6. ASSUME NEW s \in Held' PROVE s = active' \/ s \in Held
  <2>1. \/ s = active' \/ s = obs' \/ (seen' # Nil /\ s = seen')
        \/ \E q \in Queries : qs'[q].pc # "idle" /\ s = qs'[q].snap
    BY Zenon, <1>6 DEF Held
  <2> QED BY Zenon, <1>2, <2>1, HoldersHold
<1>7. ASSUME NEW s \in Held PROVE s \in Snapshots /\ s.gen <= active'.gen /\ s.gen # active'.gen
  <2>1. s \in Snapshots /\ s.gen <= active.gen
    BY Zenon, <1>3, <1>7 DEF Dated
  <2>2. s.gen \in Nat
    BY <2>1, BoundAssumption DEF Snapshots
  <2>3. s.gen <= active'.gen /\ s.gen # active'.gen
    BY <1>4, <1>5, <2>1, <2>2
  <2> QED BY Zenon, <2>1, <2>3
<1>8. active'.gen <= active'.gen
  BY <1>4, <1>5
<1>9. \A s \in Held' : s \in Snapshots /\ s.gen <= active'.gen
  BY Zenon, <1>5, <1>6, <1>7, <1>8
<1>10. \A s, t \in Held' : s.gen = t.gen => s = t
  BY Zenon, <1>3, <1>6, <1>7 DEF Dated
<1>11. Dated'
  BY Zenon, <1>9, <1>10 DEF Dated
<1>12. Queried' /\ Measured'
  BY Zenon, <1>2, <1>3 DEF Queried, Measured
<1>13. Stock'
  BY Zenon, <1>2, <1>3, SameStock
<1>14. observed' \in BOOLEAN
  BY Zenon, <1>2, <1>3
<1> QED BY Zenon, <1>11, <1>12, <1>13, <1>14, Whole

\* A step that leaves the queries alone.
LEMMA Aside ==
  ASSUME Coherent, qs' = qs, active' = active, obs' \in Held, observed' \in BOOLEAN,
         observed => observed', observed => obs.gen <= obs'.gen, seen' = Nil \/ seen' \in Held, Stock'
  PROVE  Coherent'
<1>1. DOMAIN qs' = Queries
  BY Zenon, Parts DEF Queried
<1>2. \A q \in Queries : Sound(qs[q], observed', obs', Held)
  BY Zenon, OthersKeep
<1> QED BY Zenon, <1>1, <1>2, AllSound

\* Management's observation beside the queries keeps the invariant.
LEMMA AsideUnseen ==
  ASSUME Coherent, UNCHANGED <<active, obs, observed, qs>>, seen' = Nil \/ seen' \in Held, Stock'
  PROVE  Coherent'
<1>1. /\ active' = active /\ obs' = obs /\ observed' = observed /\ qs' = qs
      /\ observed \in BOOLEAN /\ obs \in Held /\ obs.gen \in Nat
  BY Zenon, Parts, HoldersHold, SnapshotIs
<1>2. obs.gen <= obs.gen
  BY <1>1
<1>3. obs' \in Held /\ observed' \in BOOLEAN /\ obs.gen <= obs'.gen
  BY Zenon, <1>1, <1>2
<1>4. observed => observed'
  BY <1>1
<1> QED BY Zenon, <1>1, <1>3, <1>4, Aside

LEMMA LoadActiveKeeps ==
  ASSUME Coherent, LoadActive
  PROVE  Coherent'
<1>1. UNCHANGED <<active, obs, observed, qs>> /\ seen' \in Held
  BY Zenon, HoldersHold DEF LoadActive
<1>2. Stock'
  BY Zenon, Parts, SameStock DEF LoadActive
<1> QED BY Zenon, <1>1, <1>2, AsideUnseen

LEMMA ObserveSeenKeeps ==
  ASSUME Coherent, ObserveSeen
  PROVE  Coherent' /\ Within(lru', lru)
<1>1. /\ seen \in Held /\ Observe(seen) /\ seen' = Nil /\ active' = active /\ now' = now /\ qs' = qs
  BY Zenon, HoldersHold DEF ObserveSeen
<1>2. Dated /\ Stock /\ observed \in BOOLEAN
  BY Zenon, Parts
<1>3. Stock' /\ Within(lru', lru) /\ observed' /\ obs' \in Held /\ (observed => obs.gen <= obs'.gen)
  BY Zenon, <1>1, <1>2, ObserveKeeps
<1>4. observed' \in BOOLEAN
  BY <1>1, <1>2, <1>3 DEF Observe
<1>5. Coherent'
  BY Zenon, <1>1, <1>3, <1>4, Aside
<1> QED BY Zenon, <1>3, <1>5

LEMMA CacheFlushKeeps ==
  ASSUME Coherent, CacheFlush
  PROVE  Coherent' /\ Within(lru', lru)
<1>1. UNCHANGED <<active, obs, observed, qs>> /\ seen' = seen /\ now' = now /\ lru' = <<>> /\ obs' = obs
  BY Zenon DEF CacheFlush
<1>2. now \in Nat /\ Room(cpol) \in Nat
  BY Zenon, Parts DEF Stock
<1>3. Stocked(<<>>, now, Room(cpol)) /\ Within(<<>>, lru)
  BY Zenon, <1>2, EmptyStocked
<1>4. cpol' = cpol
  BY Zenon, <1>1 DEF cpol
<1>5. Stock'
  BY Zenon, <1>1, <1>2, <1>3, <1>4 DEF Stock
<1>6. seen' = Nil \/ seen' \in Held
  BY Zenon, <1>1, HoldersHold
<1>7. Coherent'
  BY Zenon, <1>1, <1>5, <1>6, AsideUnseen
<1> QED BY Zenon, <1>1, <1>3, <1>7

LEMMA TickKeeps ==
  ASSUME Coherent, Tick
  PROVE  Coherent'
<1>1. UNCHANGED <<active, obs, observed, qs>> /\ seen' = seen /\ now' = now + 1 /\ lru' = lru /\ obs' = obs
  BY Zenon DEF Tick
<1>2. Stocked(lru, now, Room(cpol)) /\ now \in Nat /\ Room(cpol) \in Nat
  BY Zenon, Parts DEF Stock
<1>3. cpol' = cpol
  BY Zenon, <1>1 DEF cpol
<1>4. \A i \in 1..Len(lru) : lru[i].stored \in Nat
  <2>1. lru \in Seq(Entries)
    BY Zenon, <1>2 DEF Stocked
  <2>2. \A i \in 1..Len(lru) : lru[i] \in Entries
    BY Zenon, <2>1, ElementOfSeq
  <2> QED BY <2>2 DEF Entries
<1>5. \A i \in 1..Len(lru) : lru[i].stored <= now + 1
  <2>1. \A i \in 1..Len(lru) : lru[i].stored <= now
    BY Zenon, <1>2 DEF Stocked
  <2> QED BY <1>2, <1>4, <2>1
<1>6. Stocked(lru', now', Room(cpol'))
  BY Zenon, <1>1, <1>2, <1>3, <1>5 DEF Stocked
<1>7. now' \in Nat
  BY <1>1, <1>2
<1>8. Stock'
  BY Zenon, <1>2, <1>3, <1>6, <1>7 DEF Stock
<1>9. seen' = Nil \/ seen' \in Held
  BY Zenon, <1>1, HoldersHold
<1> QED BY Zenon, <1>1, <1>8, <1>9, AsideUnseen

-----------------------------------------------------------------------------
(* The theorems.                                                           *)

\* The empty cache of the first snapshot.
LEMMA InitCoherent == Init => Coherent
<1> SUFFICES ASSUME Init PROVE Coherent
  OBVIOUS
<1>1. PICK c \in Contents : active = [gen |-> 0, content |-> c]
  BY Zenon DEF Init
<1>2. /\ obs = active /\ observed = FALSE /\ lru = <<>> /\ now = 0 /\ qs = [q \in Queries |-> Idle]
      /\ seen = Nil
  BY Zenon DEF Init
<1>3. active \in Snapshots /\ active.gen = 0 /\ active.gen <= active.gen
  BY <1>1, BoundAssumption DEF Snapshots
<1>4. DOMAIN qs = Queries /\ \A q \in Queries : qs[q] = Idle
  BY Zenon, <1>2
<1>5. \A q \in Queries : ~(qs[q].pc # "idle")
  BY Zenon, <1>4, IdleIs
<1>6. \A s \in Held : s = active
  BY Zenon, <1>2, <1>5 DEF Held
<1>7. Dated
  BY Zenon, <1>3, <1>6 DEF Dated
<1>8. \A q \in Queries : Under(qs[q]) /\ Abreast(qs[q], observed, obs) /\ ~Served(q)
  <2>1. Sound(Idle, observed, obs, {})
    BY Zenon, IdleSound
  <2>2. Under(Idle) /\ Abreast(Idle, observed, obs) /\ Idle.pc # "done"
    BY Zenon, <2>1, IdleIs DEF Sound
  <2> QED BY Zenon, <1>4, <2>2 DEF Served
<1>9. HitTTLBounded
  BY Zenon, <1>8 DEF HitTTLBounded
<1>10. cpol.max \in Nat /\ 0 \in Nat /\ now \in Nat
  <2>1. obs.content = c
    BY Zenon, <1>1, <1>2
  <2>2. c.pol.max \in Nat
    BY Zenon, ContentIs
  <2> QED BY <1>2, <2>1, <2>2 DEF cpol
<1>11. Room(cpol) \in Nat
  BY Zenon, <1>10 DEF Room
<1>12. Stocked(lru, now, Room(cpol))
  BY Zenon, <1>2, <1>10, <1>11, EmptyStocked
<1>13. CapacityInForce /\ lru \in Seq(Entries) /\ \A i \in 1..Len(lru) : lru[i].stored <= now
  BY Zenon, <1>12 DEF CapacityInForce, Stocked, KeysApart, Room
<1> QED BY Zenon, <1>2, <1>4, <1>7, <1>8, <1>9, <1>10, <1>13 DEF Coherent

\* A step of something else.
LEMMA StutterCoherent ==
  ASSUME Coherent, UNCHANGED vars
  PROVE  Coherent'
<1>1. UNCHANGED <<active, obs, observed, qs>> /\ seen' = seen /\ now' = now /\ lru' = lru /\ obs' = obs
  BY Zenon DEF vars
<1>2. Stock'
  BY Zenon, <1>1, Parts, SameStock
<1>3. seen' = Nil \/ seen' \in Held
  BY Zenon, <1>1, HoldersHold
<1> QED BY Zenon, <1>1, <1>2, <1>3, AsideUnseen

\* Every step keeps the invariant.
LEMMA NextCoherent == Coherent /\ [Next]_vars => Coherent'
<1> SUFFICES ASSUME Coherent, [Next]_vars PROVE Coherent'
  OBVIOUS
<1>1. ASSUME NEW q \in Queries, Serve(q) PROVE Coherent'
  BY Zenon, <1>1, ArriveKeeps, ManageKeeps, ObservePolicyKeeps, LookupLocalKeeps, LookupUpKeeps,
     ResolveKeeps, StoreKeeps DEF Serve
<1>2. CASE Publish
  BY Zenon, <1>2, PublishKeeps
<1>3. CASE LoadActive
  BY Zenon, <1>3, LoadActiveKeeps
<1>4. CASE ObserveSeen
  BY Zenon, <1>4, ObserveSeenKeeps
<1>5. CASE CacheFlush
  BY Zenon, <1>5, CacheFlushKeeps
<1>6. CASE Tick
  BY Zenon, <1>6, TickKeeps
<1>7. CASE UNCHANGED vars
  BY Zenon, <1>7, StutterCoherent
<1> QED BY Zenon, <1>1, <1>2, <1>3, <1>4, <1>5, <1>6, <1>7 DEF Next

\* The invariant: a generation is one snapshot, whoever holds it; the cache has
\* observed what its readers hold; it fits the policy in force.
THEOREM CacheCoherent == Spec => []Coherent
BY PTL, InitCoherent, NextCoherent DEF Spec

\* docs/04: whatever old queries, refreshes and policy changes interleave, the
\* cache holds no more than the newest policy that ObservePolicy was given
\* allows, and never two entries of one key.
THEOREM CapacityHolds == Spec => []CapacityInForce
<1>1. Coherent => CapacityInForce
  BY Zenon DEF Coherent
<1> QED BY PTL, <1>1, CacheCoherent

\* decayTTLs: a copy promises no more than the records and the clamped entry do.
THEOREM HitTTLHolds == Spec => []HitTTLBounded
<1>1. Coherent => HitTTLBounded
  BY Zenon DEF Coherent
<1> QED BY PTL, <1>1, CacheCoherent

\* What a step brings into the cache.
Enters(q) == Store(q) /\ Keeps(qs[q]) /\ Puts(KeyOf(qs[q]), qs[q].res, Negative(qs[q]), qs[q].snap)

\* A step adds nothing to the cache but the answer of a query that stores.
LEMMA WhatEnters ==
  ASSUME Coherent, [Next]_vars
  PROVE  Within(lru', lru) \/ \E q \in Queries : Enters(q)
<1>1. Within(lru, lru)
  BY Zenon DEF Within, SomeOf
<1>2. ASSUME NEW q \in Queries, Serve(q) PROVE Within(lru', lru) \/ Enters(q)
  <2>1. ASSUME Arrive(q) \/ Manage(q) \/ Resolve(q) PROVE Within(lru', lru)
    BY Zenon, <1>1, <2>1 DEF Arrive, Manage, Resolve
  <2>2. ASSUME Store(q) PROVE Within(lru', lru) \/ Enters(q)
    BY Zenon, <2>2, StoreKeeps DEF Enters
  <2> QED BY Zenon, <1>2, <2>1, <2>2, ObservePolicyKeeps, LookupLocalKeeps, LookupUpKeeps DEF Serve
<1>3. ASSUME Publish \/ LoadActive \/ Tick \/ UNCHANGED vars PROVE Within(lru', lru)
  BY Zenon, <1>1, <1>3 DEF Publish, LoadActive, Tick, vars
<1>4. ASSUME ObserveSeen \/ CacheFlush PROVE Within(lru', lru)
  BY Zenon, <1>4, ObserveSeenKeeps, CacheFlushKeeps
<1> QED BY Zenon, <1>2, <1>3, <1>4 DEF Next

\* What enters belongs to the content whose policy was observed last.
LEMMA EnteringIsCurrent ==
  ASSUME Coherent, NEW q \in Queries, Enters(q)
  PROVE  KeyOf(qs[q]).content = obs.content
<1> DEFINE k == qs[q]
           s == k.snap
<1>1. k.pc = "store"
  BY Zenon, StoreIs DEF Enters
<1>2. ~Outdated(s)
  BY Zenon DEF Enters, Puts
<1>3. Under(k) /\ Abreast(k, observed, obs) /\ s \in Held /\ s.content \in Contents
  BY Zenon, <1>1, Known
<1>4. observed /\ s.gen <= obs.gen
  BY Zenon, <1>1, <1>3 DEF Abreast
<1>5. s.gen \in Nat /\ obs.gen \in Nat /\ obs \in Held
  BY Zenon, <1>3, Parts, HoldersHold, SnapshotIs
<1>6. ~(s.gen < obs.gen)
  BY Zenon, <1>2, <1>4 DEF Outdated
<1>7. s.gen = obs.gen
  BY <1>4, <1>5, <1>6
<1>8. s = obs
  BY Zenon, <1>3, <1>5, <1>7, Parts DEF Dated
<1>9. KeyOf(k).content = s.content
  BY Zenon, <1>3, KeyIs DEF Under
<1> QED BY Zenon, <1>8, <1>9

LEMMA OldStep ==
  ASSUME Coherent, [Next]_vars
  PROVE  \A i \in 1..Len(lru') :
           (\A j \in 1..Len(lru) : lru[j] # lru'[i]) => lru'[i].key.content = obs.content
<1>1. CASE Within(lru', lru)
  BY Zenon, <1>1 DEF Within, SomeOf
<1>2. ASSUME NEW q \in Queries, Enters(q),
             NEW i \in 1..Len(lru'), \A j \in 1..Len(lru) : lru[j] # lru'[i]
      PROVE  lru'[i].key.content = obs.content
  <2>1. PICK e \in Entries : e.key = KeyOf(qs[q]) /\ From(lru', e, lru)
    BY Zenon, <1>2 DEF Enters, Puts
  <2>2. lru'[i] = e
    BY Zenon, <1>2, <2>1 DEF From, OneAnd
  <2>3. KeyOf(qs[q]).content = obs.content
    BY Zenon, <1>2, EnteringIsCurrent
  <2> QED BY Zenon, <2>1, <2>2, <2>3
<1> QED BY Zenon, <1>1, <1>2, WhatEnters

\* docs/04: a query that loaded its snapshot before a newer policy was observed
\* stores nothing, however late its answer comes: whatever enters the cache
\* belongs to the revision whose policy is in force.
THEOREM OldStoresNothing == Spec => OldGenerationsStoreNothing
<1>1. Coherent /\ [Next]_vars =>
        [\A i \in 1..Len(lru') :
           (\A j \in 1..Len(lru) : lru[j] # lru'[i]) => lru'[i].key.content = obs.content]_vars
  BY Zenon, OldStep
<1> QED BY PTL, <1>1, CacheCoherent DEF Spec, OldGenerationsStoreNothing

-----------------------------------------------------------------------------
(* Transparency.                                                           *)

Shared == \A i \in 1..Len(lru) : Shareable(lru[i])
Fair(s) == s.pc = "done" => s.res \in OwnAnswers(s, NoHook)

\* The query k stores its own answer; under the local key; for some time.
Storing(k) ==
    /\ k.manage \in BOOLEAN /\ k.allow \in BOOLEAN /\ k.hook \in Hooks \cup {NoHook}
    /\ k.res \in OwnAnswers(k, k.hook) /\ Keeps(k) /\ k.snap.content \in Contents
Locally(k) == k.manage \/ SharesLocal(k.snap.content, k.allow)
Lasting(k) == clampTTL(k.res, Negative(k) \/ negativeResult(k.res), k.snap.content.pol) # 0

\* A stored answer of the zone is the answer for every class of client.
LEMMA LocalShared ==
  ASSUME NEW k, Storing(k), Locally(k)
  PROVE  /\ k.res = LocalResult(k.snap.content)
         /\ \A allow \in BOOLEAN : Answers(k.snap.content, allow, NoHook) = {k.res}
<1> DEFINE c == k.snap.content
<1>1. CASE Complete(c)
  <2>1. k.res = LocalResult(c)
    BY Zenon, <1>1 DEF OwnAnswers, Answers, Storing
  <2> QED BY Zenon, <1>1, <2>1 DEF Answers
<1>2. CASE ~Complete(c)
  <2>1. ~k.manage /\ k.allow /\ ~Forwards(c, k.allow) /\ k.allow \in BOOLEAN
    BY Zenon, <1>2 DEF Keeps, SharesLocal, Storing, Locally
  <2>2. k.res = Unforwarded(c)
    BY Zenon, <1>2, <2>1 DEF OwnAnswers, Answers, Storing
  <2>3. Refused.rcode = "REFUSED"
    BY Zenon DEF Refused, Result
  <2>4. k.res # Refused
    BY Zenon, <2>3 DEF Keeps, Cacheable, Storing
  <2>5. k.res = LocalResult(c)
    BY Zenon, <2>2, <2>4 DEF Unforwarded
  <2>6. \A allow \in BOOLEAN : ~Forwards(c, allow)
    BY Zenon, <2>1 DEF Forwards
  <2> QED BY Zenon, <1>2, <2>2, <2>5, <2>6 DEF Answers
<1> QED BY Zenon, <1>1, <1>2

\* A stored answer of an upstream is one that no hook planned: a planned
\* SERVFAIL or REFUSED is not stored, and a planned NXDOMAIN has no SOA and so
\* no lifetime.
LEMMA UpShared ==
  ASSUME NoDataUnplanned, NEW k, Storing(k), ~Locally(k), Lasting(k)
  PROVE  k.res \in Answers(k.snap.content, TRUE, NoHook)
<1> DEFINE c == k.snap.content
<1>0. k.hook \in Hooks \cup {NoHook} /\ k.res \in OwnAnswers(k, k.hook) /\ Keeps(k) /\ c \in Contents
  BY Zenon DEF Storing
<1>1. ~k.manage /\ ~Complete(c) /\ Forwards(c, k.allow)
  <2>1. ~k.manage /\ ~SharesLocal(c, k.allow)
    BY Zenon DEF Locally
  <2>2. ~KeyOf(k).local
    BY <2>1 DEF KeyOf, UpKey
  <2>3. k.allow
    BY Zenon, <1>0, <2>1, <2>2 DEF Keeps
  <2> QED BY Zenon, <2>1, <2>3 DEF SharesLocal
<1>2. PICK u \in Exchange(k.hook) : k.res = Joined(c, u)
  BY Zenon, <1>0, <1>1 DEF OwnAnswers, Answers
<1>3. u \in Results
  BY Zenon, <1>0, <1>2, ExchangeIs
<1>4. k.res \in Results /\ k.res.rcode = u.rcode /\ k.res.soa = u.soa
  <2>1. Joined(c, u) \in Results /\ Joined(c, u).rcode = u.rcode /\ Joined(c, u).soa = u.soa
    BY Zenon, <1>0, <1>3, JoinedIs
  <2> QED BY Zenon, <1>2, <2>1
<1>5. k.res.rcode \in {"NOERROR", "NXDOMAIN"}
  BY Zenon, <1>0 DEF Keeps, Cacheable
<1>6. k.hook.synth = Nil
  <2>1. SUFFICES ASSUME k.hook.synth # Nil PROVE FALSE
    OBVIOUS
  <2>2. u = Result("synth", k.hook.synth, "none", FALSE, 0)
    BY Zenon, <1>2, <2>1 DEF Exchange
  <2>3. u.rcode = k.hook.synth /\ u.soa = FALSE
    BY Zenon, <2>2 DEF Result
  <2>4. k.hook \in Hooks
    <3>1. NoHook.synth = Nil
      BY Zenon DEF NoHook
    <3> QED BY Zenon, <1>0, <2>1, <3>1
  <2>5. k.hook.synth = "NXDOMAIN"
    BY Zenon, <1>4, <1>5, <2>3, <2>4 DEF NoDataUnplanned
  <2>6. k.res.rcode = "NXDOMAIN" /\ ~k.res.soa
    BY Zenon, <1>4, <2>3, <2>5
  <2> DEFINE neg == Negative(k) \/ negativeResult(k.res)
  <2>7. neg
    BY Zenon, <2>6 DEF negativeResult
  <2>8. neg \in BOOLEAN
    BY Zenon DEF Negative, negativeResult
  <2>9. clampTTL(k.res, neg, c.pol) # 0
    BY Zenon DEF Lasting
  <2> HIDE DEF neg
  <2> QED BY Zenon, <1>0, <1>4, <2>6, <2>7, <2>8, <2>9, Lifetime
<1>7. Exchange(k.hook) = Exchange(NoHook)
  BY Zenon, <1>6 DEF Exchange, NoHook
<1>8. Forwards(c, TRUE)
  BY Zenon, <1>1 DEF Forwards
<1> QED BY Zenon, <1>1, <1>2, <1>7, <1>8 DEF Answers

\* What enters is an answer that every query reading its key could have computed.
LEMMA EnteringIsShared ==
  ASSUME NoDataUnplanned, Coherent, NEW q \in Queries, Enters(q),
         NEW e, e.key = KeyOf(qs[q]), e.res = qs[q].res
  PROVE  Shareable(e)
<1> DEFINE k == qs[q]
           c == k.snap.content
<1>1. k.pc = "store" /\ Keeps(k)
  BY Zenon, StoreIs DEF Enters
<1>2. Lasting(k)
  BY Zenon DEF Enters, Puts, Lasting
<1>3. Under(k) /\ c \in Contents
  BY Zenon, <1>1, Known
<1>4. Storing(k)
  BY Zenon, <1>1, <1>3 DEF Under, Storing
<1> HIDE DEF k
<1>5. CASE Locally(k)
  <2>1. KeyOf(k) = LocalKey(c) /\ LocalKey(c).content = c /\ LocalKey(c).local = TRUE
    BY Zenon, <1>5 DEF KeyOf, Locally, LocalKey
  <2>2. e.key.content = c /\ e.key.local = TRUE /\ e.res = k.res
    BY Zenon, <2>1 DEF k
  <2>3. k.res = LocalResult(c) /\ \A allow \in BOOLEAN : Answers(c, allow, NoHook) = {k.res}
    BY Zenon, <1>4, <1>5, LocalShared
  <2> QED BY Zenon, <2>2, <2>3 DEF Shareable
<1>6. CASE ~Locally(k)
  <2>1. KeyOf(k) = UpKey(c, k.cd) /\ UpKey(c, k.cd).content = c /\ UpKey(c, k.cd).local = FALSE
    BY Zenon, <1>6 DEF KeyOf, Locally, UpKey
  <2>2. e.key.content = c /\ e.key.local = FALSE /\ e.res = k.res
    BY Zenon, <2>1 DEF k
  <2>3. k.res \in Answers(c, TRUE, NoHook)
    BY Zenon, <1>2, <1>4, <1>6, UpShared
  <2> QED BY Zenon, <2>2, <2>3 DEF Shareable
<1> QED BY Zenon, <1>5, <1>6

\* All that is in the cache is shareable, after every step.
LEMMA SharedNext ==
  ASSUME NoDataUnplanned, Coherent, Shared, [Next]_vars
  PROVE  Shared'
<1>1. ASSUME Within(lru', lru) PROVE Shared'
  <2>1. \A i \in 1..Len(lru') : \E j \in 1..Len(lru) : lru'[i] = lru[j]
    BY Zenon, <1>1 DEF Within, SomeOf
  <2>2. \A i \in 1..Len(lru') : Shareable(lru'[i])
    BY Zenon, <2>1 DEF Shared
  <2> QED BY Zenon, <2>2 DEF Shared
<1>2. ASSUME NEW q \in Queries, Enters(q) PROVE Shared'
  <2>1. PICK e \in Entries : e.key = KeyOf(qs[q]) /\ e.res = qs[q].res /\ From(lru', e, lru)
    BY Zenon, <1>2 DEF Enters, Puts
  <2>2. Shareable(e)
    BY Zenon, <1>2, <2>1, EnteringIsShared
  <2>3. \A i \in 1..Len(lru') : lru'[i] = e \/ \E j \in 1..Len(lru) : lru'[i] = lru[j]
    BY Zenon, <2>1 DEF From, OneAnd
  <2>4. \A i \in 1..Len(lru') : Shareable(lru'[i])
    BY Zenon, <2>2, <2>3 DEF Shared
  <2> QED BY Zenon, <2>4 DEF Shared
<1> QED BY Zenon, <1>1, <1>2, WhatEnters

\* A hit under the key, of an entry that readers of the key may share.
LEMMA HitOwn ==
  ASSUME Coherent, Shared, NEW q \in Queries, NEW STATE key, NEW STATE p, NEW STATE h, Hit(key, p, h)
  PROVE  Shareable(Lookup(key)) /\ Lookup(key).key = key
<1>1. Place(key) \in 1..Len(lru) /\ Lookup(key).key = key
  BY Zenon, Parts, HitFinds
<1> QED BY Zenon, <1>1 DEF Shared, Lookup

\* Get gives the query one of its own answers, when every entry under the key is
\* one.
LEMMA GetOwn ==
  ASSUME Coherent, NEW q \in Queries, NEW STATE key, NEW STATE next, Get(q, key, next), next # "done",
         \A r \in Queries : Fair(qs[r]),
         \A e : Shareable(e) /\ e.key = key => e.res \in OwnAnswers(qs[q], NoHook), Shared
  PROVE  \A r \in Queries : Fair(qs'[r])
<1> DEFINE k == qs[q]
           p == k.snap.content.pol
           e == Lookup(key)
           stale == k.hook.expire \/ Expired(e)
<1>1. qs' = IF Hit(key, p, k.hook)
            THEN [qs EXCEPT ![q] = [k EXCEPT !.pc = "done", !.res = e.res, !.hit = Copy(e, stale)]]
            ELSE [qs EXCEPT ![q] = [k EXCEPT !.pc = next]]
  BY Zenon DEF Get
<1>2. DOMAIN k = Fields /\ DOMAIN qs = Queries
  BY Zenon, Known, Parts DEF Queried
<1>3. CASE Hit(key, p, k.hook)
  <2> DEFINE v == [k EXCEPT !.pc = "done", !.res = e.res, !.hit = Copy(e, stale)]
  <2>1. qs'[q] = v /\ \A r \in Queries \ {q} : qs'[r] = qs[r]
    BY Zenon, <1>1, <1>2, <1>3
  <2>2. v.res = e.res /\ v.manage = k.manage /\ v.snap = k.snap /\ v.allow = k.allow
    BY Zenon, <1>2 DEF Fields
  <2> HIDE DEF v
  <2>3. e.res \in OwnAnswers(k, NoHook)
    BY Zenon, <1>3, HitOwn
  <2>4. OwnAnswers(v, NoHook) = OwnAnswers(k, NoHook)
    BY Zenon, <2>2 DEF OwnAnswers
  <2>5. Fair(v)
    BY Zenon, <2>2, <2>3, <2>4 DEF Fair
  <2> QED BY Zenon, <2>1, <2>5
<1>4. CASE ~Hit(key, p, k.hook)
  <2> DEFINE v == [k EXCEPT !.pc = next]
  <2>1. qs'[q] = v /\ \A r \in Queries \ {q} : qs'[r] = qs[r]
    BY Zenon, <1>1, <1>2, <1>4
  <2>2. v.pc = next
    BY Zenon, <1>2 DEF Fields
  <2>3. Fair(v)
    BY Zenon, <2>2 DEF Fair
  <2> QED BY Zenon, <2>1, <2>3
<1> QED BY Zenon, <1>3, <1>4

\* A hit under the key of all clients is the query's own answer.
LEMMA LookupLocalOwn ==
  ASSUME Coherent, Shared, NEW q \in Queries, LookupLocal(q), \A r \in Queries : Fair(qs[r])
  PROVE  \A r \in Queries : Fair(qs'[r])
<1> DEFINE k == qs[q]
           c == k.snap.content
           key == LocalKey(c)
           next == IF k.allow /\ c.fwd THEN "up" ELSE "resolve"
<1>1. Get(q, key, next) /\ next # "done"
  BY Zenon DEF LookupLocal
<1>2. k.manage \in BOOLEAN /\ k.allow \in BOOLEAN
  BY Zenon, Known DEF Under
<1>3. key.content = c /\ key.local = TRUE
  BY Zenon DEF LocalKey
<1>4. ASSUME NEW e, Shareable(e), e.key = key PROVE e.res \in OwnAnswers(k, NoHook)
  <2>1. e.key.content = c /\ e.key.local = TRUE
    BY Zenon, <1>3, <1>4
  <2>2. e.res = LocalResult(c) /\ \A allow \in BOOLEAN : Answers(c, allow, NoHook) = {e.res}
    BY Zenon, <1>4, <2>1 DEF Shareable
  <2> QED BY Zenon, <1>2, <2>2 DEF OwnAnswers
<1> HIDE DEF key, next
<1> QED BY Zenon, <1>1, <1>4, GetOwn

\* A hit under the key of forwarding clients is the query's own answer.
LEMMA LookupUpOwn ==
  ASSUME Coherent, Shared, NEW q \in Queries, LookupUp(q), \A r \in Queries : Fair(qs[r])
  PROVE  \A r \in Queries : Fair(qs'[r])
<1> DEFINE k == qs[q]
           c == k.snap.content
           key == UpKey(c, k.cd)
<1>1. Get(q, key, "resolve") /\ k.pc = "up"
  BY Zenon DEF LookupUp
<1>2. ~k.manage /\ k.allow /\ k.allow \in BOOLEAN /\ c.fwd
  BY Zenon, <1>1, Known DEF Under
<1>3. key.content = c /\ key.local = FALSE
  BY Zenon DEF UpKey
<1>4. ASSUME NEW e, Shareable(e), e.key = key PROVE e.res \in OwnAnswers(k, NoHook)
  <2>1. e.key.content = c /\ e.key.local = FALSE
    BY Zenon, <1>3, <1>4
  <2>2. e.res \in Answers(c, TRUE, NoHook)
    BY Zenon, <1>2, <1>4, <2>1 DEF Shareable
  <2>3. k.allow = TRUE
    BY <1>2
  <2> QED BY Zenon, <1>2, <2>2, <2>3 DEF OwnAnswers
<1> HIDE DEF key
<1> QED BY Zenon, <1>1, <1>4, GetOwn

\* A query that a step leaves in another place than "done" owes nothing.
LEMMA MovedOwn ==
  ASSUME Coherent, NEW q \in Queries, NEW STATE v, qs' = [qs EXCEPT ![q] = v], v.pc # "done",
         \A r \in Queries : Fair(qs[r])
  PROVE  \A r \in Queries : Fair(qs'[r])
<1>1. DOMAIN qs = Queries
  BY Zenon, Parts DEF Queried
<1>2. qs'[q] = v /\ \A r \in Queries \ {q} : qs'[r] = qs[r]
  BY Zenon, <1>1
<1>3. Fair(v)
  BY Zenon DEF Fair
<1> QED BY Zenon, <1>2, <1>3

\* No step of a query gives another one a hit that is not its own.
LEMMA ServeOwn ==
  ASSUME Coherent, Shared, NEW q \in Queries, Serve(q), \A r \in Queries : Fair(qs[r])
  PROVE  \A r \in Queries : Fair(qs'[r])
<1> DEFINE k == qs[q]
<1>1. DOMAIN k = Fields
  BY Zenon, Known
<1>2. CASE Arrive(q)
  <2>1. PICK allow \in BOOLEAN, cd \in CDs, h \in Hooks \cup {NoHook} :
          qs' = [qs EXCEPT ![q] = [Idle EXCEPT !.pc = "observe", !.allow = allow, !.cd = cd,
                                    !.hook = h, !.snap = active]]
    BY Zenon, <1>2 DEF Arrive
  <2> DEFINE v == [Idle EXCEPT !.pc = "observe", !.allow = allow, !.cd = cd, !.hook = h, !.snap = active]
  <2>2. qs' = [qs EXCEPT ![q] = v] /\ v.pc = "observe"
    BY Zenon, <2>1, IdleIs DEF Fields
  <2> HIDE DEF v
  <2>3. v.pc # "done"
    BY Zenon, <2>2
  <2> QED BY Zenon, <2>2, <2>3, MovedOwn
<1>3. CASE Manage(q)
  <2> DEFINE v == [Idle EXCEPT !.pc = "observe", !.manage = TRUE, !.snap = active]
  <2>1. qs' = [qs EXCEPT ![q] = v] /\ v.pc = "observe"
    BY Zenon, <1>3, IdleIs DEF Manage, Fields
  <2> HIDE DEF v
  <2>2. v.pc # "done"
    BY Zenon, <2>1
  <2> QED BY Zenon, <2>1, <2>2, MovedOwn
<1>4. CASE ObservePolicy(q)
  <2> DEFINE v == [k EXCEPT !.pc = "local"]
  <2>1. qs' = [qs EXCEPT ![q] = v] /\ v.pc = "local"
    BY Zenon, <1>1, <1>4 DEF ObservePolicy, Fields
  <2> HIDE DEF v
  <2>2. v.pc # "done"
    BY Zenon, <2>1
  <2> QED BY Zenon, <2>1, <2>2, MovedOwn
<1>5. CASE Resolve(q)
  <2>1. PICK r \in IF k.manage THEN {LocalResult(k.snap.content)}
                   ELSE Answers(k.snap.content, k.allow, k.hook) :
          qs' = [qs EXCEPT ![q] = [k EXCEPT !.pc = "store", !.res = r]]
    BY Zenon, <1>5 DEF Resolve
  <2> DEFINE v == [k EXCEPT !.pc = "store", !.res = r]
  <2>2. qs' = [qs EXCEPT ![q] = v] /\ v.pc = "store"
    BY Zenon, <1>1, <2>1 DEF Fields
  <2> HIDE DEF v
  <2>3. v.pc # "done"
    BY Zenon, <2>2
  <2> QED BY Zenon, <2>2, <2>3, MovedOwn
<1>6. CASE Store(q)
  <2>1. qs' = [qs EXCEPT ![q] = Idle] /\ Idle.pc # "done"
    BY Zenon, <1>6, StoreIs, IdleIs
  <2> QED BY Zenon, <2>1, MovedOwn
<1> QED BY Zenon, <1>2, <1>3, <1>4, <1>5, <1>6, LookupLocalOwn, LookupUpOwn DEF Serve

\* The property, query by query.
LEMMA OwnIs == HitIsOwnAnswer <=> \A r \in Queries : Fair(qs[r])
BY Zenon DEF HitIsOwnAnswer, Served, Fair, OwnAnswers

\* Every step keeps it.
LEMMA OwnNext ==
  ASSUME Coherent, Shared, [Next]_vars, \A r \in Queries : Fair(qs[r])
  PROVE  HitIsOwnAnswer'
<1>1. ASSUME qs' = qs PROVE \A r \in Queries : Fair(qs'[r])
  BY Zenon, <1>1
<1>2. Publish \/ LoadActive \/ ObserveSeen \/ CacheFlush \/ Tick \/ UNCHANGED vars => qs' = qs
  BY Zenon DEF Publish, LoadActive, ObserveSeen, CacheFlush, Tick, vars
<1>3. \A r \in Queries : Fair(qs'[r])
  BY Zenon, <1>1, <1>2, ServeOwn DEF Next
<1> QED BY Zenon, <1>3 DEF HitIsOwnAnswer, Served, Fair, OwnAnswers

\* The empty cache hides nothing.
LEMMA InitTransparent == Init => Transparent
<1> SUFFICES ASSUME Init PROVE Transparent
  OBVIOUS
<1>1. \A q \in Queries : qs[q].pc # "done"
  <2>1. \A q \in Queries : qs[q] = Idle
    BY Zenon DEF Init
  <2> QED BY Zenon, <2>1, IdleIs
<1>2. HitIsOwnAnswer
  BY Zenon, <1>1 DEF HitIsOwnAnswer, Served
<1>3. \A i \in 1..Len(<<>>) : FALSE
  OBVIOUS
<1>4. \A i \in 1..Len(lru) : Shareable(lru[i])
  BY Zenon, <1>3 DEF Init
<1> QED BY Zenon, <1>2, <1>4 DEF Transparent

\* The cache is transparent for every client, as long as chaos plans no empty
\* upstream answer (which would be cached behind an overlay CNAME): a hit is an
\* answer the query could have computed from its own snapshot, for its own class
\* of client, with no chaos at all.
THEOREM HitsAreOwn ==
  ASSUME NoDataUnplanned
  PROVE  Spec => []HitIsOwnAnswer
<1>1. Coherent /\ Transparent /\ [Next]_vars => Transparent'
  <2> SUFFICES ASSUME Coherent, Transparent, [Next]_vars PROVE Transparent'
    OBVIOUS
  <2>1. Shared /\ \A r \in Queries : Fair(qs[r])
    BY Zenon, OwnIs DEF Transparent, Shared
  <2>2. Shared'
    BY Zenon, <2>1, SharedNext
  <2>3. HitIsOwnAnswer'
    BY Zenon, <2>1, OwnNext
  <2> QED BY Zenon, <2>2, <2>3 DEF Transparent, Shared
<1>2. Transparent => HitIsOwnAnswer
  BY Zenon DEF Transparent
<1> QED BY PTL, <1>1, <1>2, InitTransparent, CacheCoherent DEF Spec
=============================================================================
