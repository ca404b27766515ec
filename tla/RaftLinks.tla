----------------------------- MODULE RaftLinks ------------------------------
(***************************************************************************)
(* Logs as sets of links: where the links of a log come from, that a step  *)
(* with LogShape keeps MatchInv, and that logs which share a link are equal*)
(* up to it.  Then the invariant of commits: entries that a quorum has     *)
(* acknowledged last, for every later leader holds them.  SafetyInv says   *)
(* so without histories: of the peers that hold a firm entry, and of what  *)
(* the votes of a candidate still to come can tell.  Here are its parts on *)
(* the order of terms, on requests for votes and on acknowledgements, and  *)
(* what a follower takes from a message.                                   *)
(***************************************************************************)
EXTENDS RaftShapes, WellFoundedInduction, TLAPS

USE SMTT(30), ZenonT(30)

LEMMA MinExists ==
    ASSUME NEW S \in SUBSET Nat, S # {}
    PROVE  Min(S) \in S /\ \A y \in S : Min(S) <= y
  <1> DEFINE R == {ss \in Nat \X Nat : ss[1] < ss[2]}
  <1>1. IsWellFoundedOn(R, Nat)
    BY NatLessThanWellFounded, Zenon DEF OpToRel
  <1> HIDE DEF R
  <1>2. PICK x \in S : \A y \in S : ~(<<y, x>> \in R)
    BY <1>1, WFMin, Zenon
  <1>3. \A y \in S : x <= y
    <2>1. ASSUME NEW y \in S, y < x PROVE <<y, x>> \in R
      BY <2>1 DEF R
    <2>2. \A y \in S : ~(y < x)
      BY <1>2, <2>1, Zenon
    <2> QED
      BY <2>2
  <1> QED
    BY <1>3, Zenon DEF Min

LEMMA MaxExists ==
    ASSUME NEW n \in Nat, NEW S \in SUBSET (0 .. n), S # {}
    PROVE  Max(S) \in S /\ \A y \in S : Max(S) >= y
  <1> DEFINE T == {n - x : x \in S}
  <1>1. T \in SUBSET Nat /\ T # {}
    <2>1. \A x \in S : n - x \in Nat
      OBVIOUS
    <2> QED
      BY <2>1, Zenon
  <1>2. PICK t \in T : \A y \in T : t <= y
    <2> HIDE DEF T
    <2> QED
      BY <1>1, MinExists, Zenon
  <1>3. PICK x \in S : t = n - x
    BY <1>2
  <1>4. \A y \in S : x >= y
    BY <1>2, <1>3
  <1> QED
    BY <1>4, Zenon DEF Max

LEMMA SeqFacts ==
    ASSUME NEW s, IsSeq(s)
    PROVE  Len(s) \in Nat /\ DOMAIN s = 1 .. Len(s)
  BY DEF IsSeq

LEMMA FunctionIsSeq ==
    ASSUME NEW n \in Nat, NEW f, f = [i \in 1 .. n |-> f[i]]
    PROVE  IsSeq(f) /\ Len(f) = n
  <1> DEFINE S == {f[i] : i \in 1 .. n}
  <1>1. f \in [1 .. n -> S]
    OBVIOUS
  <1> HIDE DEF S
  <1>2. f \in Seq(S) /\ Len(f) = n
    BY <1>1
  <1> QED
    BY <1>2 DEF IsSeq

LEMMA AppendFacts ==
    ASSUME NEW s, IsSeq(s), NEW e
    PROVE  /\ IsSeq(Append(s, e))
           /\ Len(Append(s, e)) = Len(s) + 1
           /\ \A n \in 0 .. Len(s) : SubSeq(Append(s, e), 1, n) = SubSeq(s, 1, n)
  <1>1. PICK S : s \in Seq(S)
    BY DEF IsSeq
  <1>2. s \in Seq(S \cup {e})
    BY <1>1
  <1>3. Append(s, e) \in Seq(S \cup {e}) /\ Len(Append(s, e)) = Len(s) + 1
    BY <1>2
  <1>4. \A i \in 1 .. Len(s) : Append(s, e)[i] = s[i]
    BY <1>2
  <1>5. ASSUME NEW n \in 0 .. Len(s)
        PROVE  SubSeq(Append(s, e), 1, n) = SubSeq(s, 1, n)
    BY <1>1, <1>3, <1>4
  <1> QED
    BY <1>3, <1>5 DEF IsSeq

LEMMA ConcatFacts ==
    ASSUME NEW s, IsSeq(s), NEW t, IsSeq(t), NEW k \in 0 .. Len(s),
           NEW u, u = SubSeq(s, 1, k) \o t
    PROVE  /\ Len(u) = k + Len(t)
           /\ \A i \in 1 .. k : u[i] = s[i]
           /\ \A i \in 1 .. Len(t) : u[k + i] = t[i]
  <1>1. PICK S : s \in Seq(S)
    BY DEF IsSeq
  <1>2. PICK T : t \in Seq(T)
    BY DEF IsSeq
  <1>3. s \in Seq(S \cup T) /\ t \in Seq(S \cup T)
    BY <1>1, <1>2
  <1>4. Len(s) \in Nat /\ Len(t) \in Nat /\ k \in Nat
    BY SeqFacts
  <1> DEFINE v == SubSeq(s, 1, k)
  <1>5. /\ v \in Seq(S \cup T)
        /\ Len(v) = k
        /\ \A i \in 1 .. k : v[i] = s[i]
    BY <1>3, <1>4
  <1>u. u = v \o t
    OBVIOUS
  <1> HIDE DEF v
  <1>6. /\ Len(u) = k + Len(t)
        /\ \A i \in 1 .. k + Len(t) : u[i] = IF i <= k THEN v[i] ELSE t[i - k]
    BY <1>3, <1>5, <1>u
  <1>7. ASSUME NEW i \in 1 .. k PROVE u[i] = s[i]
    BY <1>4, <1>5, <1>6
  <1>8. ASSUME NEW i \in 1 .. Len(t) PROVE u[k + i] = t[i]
    <2>1. k + i \in 1 .. k + Len(t) /\ ~(k + i <= k) /\ k + i - k = i
      BY <1>4
    <2> QED
      BY <1>6, <2>1
  <1> QED
    BY <1>6, <1>7, <1>8

LEMMA Difference ==
    ASSUME NEW a \in Nat, NEW b \in Nat, a <= b
    PROVE  \E n \in Nat : n = b - a
  OBVIOUS
----------------------------------------------------------------------------
(* Where links come from.                                                  *)

LEMMA LogLinkAt ==
    ASSUME NEW lg, NEW x \in LogLinks(lg)
    PROVE  \E i \in 1 .. Len(lg) :
               x = Link(i, lg[i].term, lg[i].hash, TermAt(lg, i - 1))
  BY DEF LogLinks

LEMMA LinkFields ==
    ASSUME NEW i, NEW t, NEW h, NEW v, NEW x, x = Link(i, t, h, v)
    PROVE  x.index = i /\ x.term = t /\ x.hash = h /\ x.prev = v
  BY DEF Link

LEMMA PieceLinks ==
    ASSUME NEW lg, Len(lg) \in Nat, NEW m, Piece(m, lg)
    PROVE  MessageLinks(m) \subseteq LogLinks(lg)
  <1> DEFINE prev == m.prevLogIndex
             n    == Len(m.entries)
  <1>1. /\ prev \in 0 .. Len(lg)
        /\ m.prevLogTerm = TermAt(lg, prev)
        /\ n \in Nat
        /\ prev + n <= Len(lg)
        /\ \A i \in 1 .. n : /\ m.entries[i].term = lg[prev + i].term
                             /\ m.entries[i].hash = lg[prev + i].hash
    BY DEF Piece
  <1> HIDE DEF prev, n
  <1>2. ASSUME NEW i \in 1 .. n PROVE TermBefore(m, i) = TermAt(lg, prev + i - 1)
    <2>1. CASE i = 1
      BY <1>1, <2>1 DEF TermBefore
    <2>2. CASE i # 1
      <3>1. i - 1 \in 1 .. n /\ prev + (i - 1) = prev + i - 1 /\ prev + i - 1 # 0
        BY <1>1, <2>2
      <3>2. m.entries[i - 1].term = lg[prev + i - 1].term
        BY <1>1, <3>1
      <3> QED
        BY <2>2, <3>1, <3>2 DEF TermBefore, TermAt
    <2> QED
      BY <2>1, <2>2
  <1>3. ASSUME NEW i \in 1 .. n
        PROVE  Link(prev + i, m.entries[i].term, m.entries[i].hash,
                    TermBefore(m, i)) \in LogLinks(lg)
    <2>1. PICK j \in 1 .. Len(lg) : j = prev + i
      BY <1>1
    <2>2. Link(j, lg[j].term, lg[j].hash, TermAt(lg, j - 1)) \in LogLinks(lg)
      BY DEF LogLinks
    <2>3. /\ prev + i = j
          /\ m.entries[i].term = lg[j].term
          /\ m.entries[i].hash = lg[j].hash
      BY <1>1, <2>1
    <2>4. TermBefore(m, i) = TermAt(lg, j - 1)
      <3>1. prev + i - 1 = j - 1
        BY <1>1, <2>1
      <3>2. TermBefore(m, i) = TermAt(lg, prev + i - 1)
        BY <1>2
      <3> QED
        BY <3>1, <3>2, Zenon
    <2> QED
      BY <2>2, <2>3, <2>4, Zenon
  <1> QED
    BY <1>3 DEF MessageLinks, prev, n

\* append_leader_noop and append_local_block add one link.
LEMMA AppendedLink ==
    ASSUME NEW lg, IsSeq(lg), NEW e
    PROVE  /\ LogLinks(Append(lg, e)) \subseteq LogLinks(lg) \cup
                 {Link(Len(lg) + 1, e.term, e.hash, TermAt(lg, Len(lg)))}
           /\ EntriesOK(lg) /\ IsEntry(e) => EntriesOK(Append(lg, e))
  <1> DEFINE new == Append(lg, e)
  <1>1. PICK S : lg \in Seq(S)
    BY DEF IsSeq
  <1>2. lg \in Seq(S \cup {e})
    BY <1>1
  <1>3. /\ Len(lg) \in Nat
        /\ Len(new) = Len(lg) + 1
        /\ \A i \in 1 .. Len(lg) : new[i] = lg[i]
        /\ new[Len(lg) + 1] = e
    BY <1>2
  <1> HIDE DEF new
  <1>4. ASSUME NEW i \in 1 .. Len(lg) + 1 PROVE TermAt(new, i - 1) = TermAt(lg, i - 1)
    <2>1. i - 1 = 0 \/ i - 1 \in 1 .. Len(lg)
      BY <1>3
    <2> QED
      BY <1>3, <2>1 DEF TermAt
  <1>5. ASSUME NEW x \in LogLinks(new), x \notin LogLinks(lg)
        PROVE  x = Link(Len(lg) + 1, e.term, e.hash, TermAt(lg, Len(lg)))
    <2>1. PICK i \in 1 .. Len(lg) + 1 :
              x = Link(i, new[i].term, new[i].hash, TermAt(new, i - 1))
      BY <1>3, LogLinkAt
    <2>2. x = Link(i, new[i].term, new[i].hash, TermAt(lg, i - 1))
      BY <1>4, <2>1
    <2>3. CASE i \in 1 .. Len(lg)
      <3>1. x = Link(i, lg[i].term, lg[i].hash, TermAt(lg, i - 1))
        BY <1>3, <2>2, <2>3
      <3> QED
        BY <1>5, <2>3, <3>1 DEF LogLinks
    <2>4. CASE i \notin 1 .. Len(lg)
      <3>1. i = Len(lg) + 1 /\ i - 1 = Len(lg)
        BY <1>3, <2>4
      <3> QED
        BY <1>3, <2>2, <3>1
    <2> QED
      BY <2>3, <2>4
  <1>6. EntriesOK(lg) /\ IsEntry(e) => EntriesOK(new)
    <2>1. \A i \in 1 .. Len(lg) + 1 : i \in 1 .. Len(lg) \/ i = Len(lg) + 1
      BY <1>3
    <2> QED
      BY <1>3, <2>1, Zenon DEF EntriesOK
  <1> QED
    BY <1>5, <1>6 DEF new

\* r is what s has after its first a elements.
Suffix(r, s, a) ==
    \E n \in Nat :
        /\ DOMAIN r = 1 .. n
        /\ \A i \in 1 .. n : a + i \in 1 .. Len(s) /\ r[i] = s[a + i]
        /\ Len(s) <= a + n

LEMMA SuffixFacts ==
    ASSUME NEW s, IsSeq(s), NEW a \in Nat, NEW r, r = SubSeq(s, a + 1, Len(s))
    PROVE  Suffix(r, s, a)
  <1>1. Len(s) \in Nat
    BY SeqFacts
  <1>2. CASE a <= Len(s)
    <2>1. PICK n \in Nat : n = Len(s) - a
      BY <1>1, <1>2, Difference, Zenon
    <2>2. DOMAIN r = 1 .. n
      BY <1>1, <1>2, <2>1
    <2>3. \A i \in 1 .. n : r[i] = s[a + i]
      BY <1>1, <1>2, <2>1
    <2>4. \A i \in 1 .. n : a + i \in 1 .. Len(s)
      BY <1>1, <1>2, <2>1
    <2>5. Len(s) <= a + n
      BY <1>1, <1>2, <2>1
    <2> QED
      BY <2>2, <2>3, <2>4, <2>5, Zenon DEF Suffix
  <1>3. CASE a > Len(s)
    <2>1. DOMAIN r = 1 .. 0
      BY <1>1, <1>3
    <2>2. \A i \in 1 .. 0 : FALSE
      OBVIOUS
    <2>3. 0 \in Nat /\ Len(s) <= a + 0
      BY <1>1, <1>3
    <2> QED
      BY <2>1, <2>2, <2>3, Zenon DEF Suffix
  <1>4. a <= Len(s) \/ a > Len(s)
    BY <1>1
  <1> QED
    BY <1>2, <1>3, <1>4, Zenon

\* What append_entries makes of the log lg: its first K entries, with the
\* terms the message has for them, and the n entries of m that lie beyond.
Parts(new, lg, m, K, n) ==
    /\ Len(new) = K + n
    /\ \A i \in 1 .. K : new[i] = lg[i]
    /\ \A i \in 1 .. n :
          /\ K - m.prevLogIndex + i \in 1 .. Len(m.entries)
          /\ new[K + i].term = m.entries[K - m.prevLogIndex + i].term
          /\ new[K + i].hash = m.entries[K - m.prevLogIndex + i].hash
          /\ IsEntry(new[K + i])
    /\ \A i \in 1 .. Len(m.entries) :
          m.prevLogIndex + i <= K =>
              m.entries[i].term = lg[m.prevLogIndex + i].term
    /\ m.prevLogIndex + Len(m.entries) <= K + n
    /\ \/ K = Len(lg)
       \/ \E i \in 1 .. Len(m.entries) :
             /\ m.prevLogIndex + i = K + 1
             /\ m.prevLogIndex + i <= Len(lg)
             /\ m.entries[i].term # lg[m.prevLogIndex + i].term

LEMMA AppendedParts ==
    ASSUME NEW p, commitIndex[p] \in Nat, IsSeq(log[p]),
           commitIndex[p] <= Len(log[p]), NEW m, AppendOK(m), CanAppend(p, m)
    PROVE  \E K \in m.prevLogIndex .. Len(log[p]) : \E n \in Nat :
               Parts(AppendedLog(log[p], m), log[p], m, K, n)
  <1> DEFINE prev == m.prevLogIndex
             C    == Conflicts(log[p], m)
             K    == KeptLength(log[p], m)
             rest == SubSeq(m.entries, K - prev + 1, Len(m.entries))
             tail == NewEntries(log[p], m)
             new  == AppendedLog(log[p], m)
  <1>1. Len(log[p]) \in Nat /\ Len(m.entries) \in Nat /\ prev \in Nat
    BY SeqFacts DEF AppendOK
  <1>2. prev <= Len(log[p])
    BY <1>1 DEF CanAppend, HasTermAt
  <1>3. /\ tail = [i \in DOMAIN rest |-> [term |-> rest[i].term, hash |-> rest[i].hash]]
        /\ new = SubSeq(log[p], 1, K) \o tail
        /\ K = IF C = {} THEN Len(log[p]) ELSE prev + Min(C) - 1
    BY DEF NewEntries, AppendedLog, KeptLength
  <1>4. \A i : i \in C <=> /\ i \in 1 .. Len(m.entries)
                           /\ prev + i <= Len(log[p])
                           /\ log[p][prev + i].term # m.entries[i].term
    BY SeqFacts DEF Conflicts, AppendOK
  <1> HIDE DEF C, K
  <1>5. /\ K \in prev .. Len(log[p])
        /\ \A i \in 1 .. Len(m.entries) :
              prev + i <= K => m.entries[i].term = log[p][prev + i].term
        /\ \/ K = Len(log[p])
           \/ \E i \in 1 .. Len(m.entries) :
                 /\ prev + i = K + 1
                 /\ prev + i <= Len(log[p])
                 /\ m.entries[i].term # log[p][prev + i].term
    <2>1. CASE C = {}
      <3>1. K = Len(log[p])
        BY <1>3, <2>1, Zenon
      <3>2. K \in prev .. Len(log[p])
        BY <1>1, <1>2, <3>1
      <3>3. ASSUME NEW i \in 1 .. Len(m.entries), prev + i <= K
            PROVE  m.entries[i].term = log[p][prev + i].term
        <4>1. i \notin C /\ prev + i <= Len(log[p])
          BY <2>1, <3>1, <3>3
        <4> QED
          BY <1>4, <4>1, Zenon
      <3> QED
        BY <3>1, <3>2, <3>3
    <2>2. CASE C # {}
      <3>1. C \in SUBSET Nat
        BY <1>1, <1>4
      <3>2. Min(C) \in C /\ \A y \in C : Min(C) <= y
        BY <2>2, <3>1, MinExists
      <3> DEFINE c == Min(C)
      <3>3. K = prev + c - 1
        BY <1>3, <2>2, Zenon
      <3> HIDE DEF c
      <3>4. /\ c \in 1 .. Len(m.entries)
            /\ prev + c <= Len(log[p])
            /\ \A y \in C : c <= y
        BY <1>4, <3>2 DEF c
      <3>5. K \in prev .. Len(log[p])
        BY <1>1, <3>3, <3>4
      <3>6. ASSUME NEW i \in 1 .. Len(m.entries), prev + i <= K
            PROVE  m.entries[i].term = log[p][prev + i].term
        <4>1. i < c /\ prev + i <= Len(log[p])
          BY <1>1, <3>3, <3>4, <3>6
        <4>2. i \notin C
          BY <1>1, <3>4, <4>1
        <4> QED
          BY <1>4, <4>1, <4>2
      <3>7. /\ prev + c = K + 1
            /\ m.entries[c].term # log[p][prev + c].term
        BY <1>1, <1>4, <3>2, <3>3, <3>4 DEF c
      <3> QED
        BY <3>4, <3>5, <3>6, <3>7
    <2> QED
      BY <2>1, <2>2
  <1>6. PICK n \in Nat : /\ DOMAIN rest = 1 .. n
                         /\ \A i \in 1 .. n :
                               /\ K - prev + i \in 1 .. Len(m.entries)
                               /\ rest[i] = m.entries[K - prev + i]
                         /\ Len(m.entries) <= K - prev + n
    <2> HIDE DEF prev
    <2>1. PICK a \in Nat : a = K - prev
      BY <1>1, <1>5
    <2>2. IsSeq(m.entries)
      BY DEF AppendOK
    <2>3. rest = SubSeq(m.entries, a + 1, Len(m.entries))
      BY <2>1
    <2> HIDE DEF rest, tail, new
    <2>4. Suffix(rest, m.entries, a)
      BY <2>2, <2>3, SuffixFacts, Zenon
    <2> QED
      BY <2>1, <2>4, Zenon DEF Suffix
  <1>7. /\ IsSeq(tail)
        /\ Len(tail) = n
        /\ \A i \in 1 .. n : tail[i] = [term |-> m.entries[K - prev + i].term,
                                       hash |-> m.entries[K - prev + i].hash]
    <2> HIDE DEF rest, tail
    <2>1. tail = [i \in 1 .. n |-> tail[i]]
      BY <1>3, <1>6
    <2>2. \A i \in 1 .. n : tail[i] = [term |-> m.entries[K - prev + i].term,
                                       hash |-> m.entries[K - prev + i].hash]
      BY <1>3, <1>6, Zenon
    <2> QED
      BY <2>1, <2>2, FunctionIsSeq
  <1> HIDE DEF rest, tail, new
  <1>8. /\ Len(new) = K + n
        /\ \A i \in 1 .. K : new[i] = log[p][i]
        /\ \A i \in 1 .. n : new[K + i] = tail[i]
    <2>1. K \in 0 .. Len(log[p])
      BY <1>1, <1>5
    <2>2. /\ new = SubSeq(log[p], 1, K) \o tail
          /\ IsSeq(tail) /\ Len(tail) = n
      BY <1>3, <1>7
    <2>3. /\ Len(new) = K + Len(tail)
          /\ \A i \in 1 .. K : new[i] = log[p][i]
          /\ \A i \in 1 .. Len(tail) : new[K + i] = tail[i]
      BY <2>1, <2>2, ConcatFacts
    <2> QED
      BY <2>2, <2>3, Zenon
  <1>9. ASSUME NEW i \in 1 .. n
        PROVE  /\ new[K + i].term = m.entries[K - prev + i].term
               /\ new[K + i].hash = m.entries[K - prev + i].hash
               /\ IsEntry(new[K + i])
    <2>1. new[K + i] = [term |-> m.entries[K - prev + i].term,
                        hash |-> m.entries[K - prev + i].hash]
      BY <1>7, <1>8
    <2> QED
      BY <2>1 DEF IsEntry
  <1>10. prev + Len(m.entries) <= K + n
    BY <1>1, <1>5, <1>6
  <1> QED
    BY <1>5, <1>6, <1>8, <1>9, <1>10, Zenon DEF new, Parts

LEMMA AcceptedLinks ==
    ASSUME NEW p, commitIndex[p] \in Nat, IsSeq(log[p]),
           commitIndex[p] <= Len(log[p]), NEW m, AppendOK(m), CanAppend(p, m)
    PROVE  /\ LogLinks(AppendedLog(log[p], m)) \subseteq
                 LogLinks(log[p]) \cup MessageLinks(m)
           /\ EntriesOK(log[p]) => EntriesOK(AppendedLog(log[p], m))
  <1> DEFINE prev == m.prevLogIndex
             new  == AppendedLog(log[p], m)
             len  == Len(m.entries)
  <1>1. /\ Len(log[p]) \in Nat
        /\ len \in Nat
        /\ prev \in Nat
        /\ TermAt(log[p], prev) = m.prevLogTerm
    BY SeqFacts DEF AppendOK, CanAppend, HasTermAt, TermAt
  <1>2. PICK K \in prev .. Len(log[p]) : \E n \in Nat :
            Parts(new, log[p], m, K, n)
    BY AppendedParts
  <1>p. PICK n \in Nat : Parts(new, log[p], m, K, n)
    BY <1>2
  <1>3. /\ Len(new) = K + n
        /\ \A i \in 1 .. K : new[i] = log[p][i]
        /\ \A i \in 1 .. n :
              /\ K - prev + i \in 1 .. len
              /\ new[K + i].term = m.entries[K - prev + i].term
              /\ new[K + i].hash = m.entries[K - prev + i].hash
              /\ IsEntry(new[K + i])
        /\ \A i \in 1 .. len :
              prev + i <= K => m.entries[i].term = log[p][prev + i].term
    BY <1>p DEF Parts
  <1> HIDE DEF prev, new, len
  <1>4. K \in Nat /\ prev <= K /\ K <= Len(log[p])
    BY <1>1
  <1>5. ASSUME NEW i \in 1 .. K
        PROVE  Link(i, new[i].term, new[i].hash, TermAt(new, i - 1)) \in LogLinks(log[p])
    <2>1. i \in 1 .. Len(log[p]) /\ (i - 1 = 0 \/ i - 1 \in 1 .. K)
      BY <1>1, <1>4
    <2>2. TermAt(new, i - 1) = TermAt(log[p], i - 1)
      BY <1>3, <2>1 DEF TermAt
    <2>3. new[i] = log[p][i]
      BY <1>3
    <2>4. Link(i, log[p][i].term, log[p][i].hash, TermAt(log[p], i - 1))
              \in LogLinks(log[p])
      BY <2>1 DEF LogLinks
    <2> QED
      BY <2>2, <2>3, <2>4
  <1>6. ASSUME NEW j \in 1 .. n, NEW i \in 1 .. K + n, i = K + j
        PROVE  Link(i, new[i].term, new[i].hash, TermAt(new, i - 1)) \in MessageLinks(m)
    <2>1. PICK k \in 1 .. len : k = K - prev + j
      BY <1>3
    <2>2. prev + k = i
      BY <1>1, <1>4, <1>6, <2>1
    <2>3. new[i].term = m.entries[k].term /\ new[i].hash = m.entries[k].hash
      BY <1>3, <1>6, <2>1, Zenon
    <2>4. TermBefore(m, k) = TermAt(new, i - 1)
      <3>1. CASE j # 1
        <4>1. /\ j - 1 \in 1 .. n
              /\ K + (j - 1) = i - 1
              /\ i - 1 # 0
              /\ K - prev + (j - 1) = k - 1
              /\ k # 1
          BY <1>1, <1>4, <1>6, <2>1, <3>1
        <4>2. new[K + (j - 1)].term = m.entries[K - prev + (j - 1)].term
          BY <1>3, <4>1, Zenon
        <4>3. new[i - 1].term = m.entries[k - 1].term
          BY <4>1, <4>2
        <4> QED
          BY <4>1, <4>3 DEF TermBefore, TermAt
      <3>2. CASE j = 1 /\ K = prev
        <4>1. k = 1 /\ i - 1 = prev
          BY <1>1, <1>4, <1>6, <2>1, <3>2
        <4>2. TermAt(new, prev) = TermAt(log[p], prev)
          BY <1>1, <1>3, <3>2 DEF TermAt
        <4> QED
          BY <1>1, <4>1, <4>2 DEF TermBefore
      <3>3. CASE j = 1 /\ K # prev
        <4>0. prev < K /\ prev \in Nat /\ K \in Nat
          BY <1>1, <1>4, <3>3
        <4>1. i - 1 = K /\ K # 0 /\ K \in 1 .. K
          BY <1>6, <3>3, <4>0
        <4>l. PICK l \in 1 .. len : l = k - 1 /\ k # 1 /\ prev + l = K
          <5>1. k - 1 \in 1 .. len /\ k # 1
            BY <1>1, <2>1, <3>3, <4>0
          <5>2. prev + (k - 1) = K
            BY <1>1, <2>1, <3>3, <4>0
          <5> QED
            BY <5>1, <5>2
        <4>2. m.entries[k - 1].term = log[p][K].term
          <5>1. prev + l <= K
            BY <4>0, <4>l
          <5>2. m.entries[l].term = log[p][prev + l].term
            BY <1>3, <5>1
          <5> QED
            BY <4>l, <5>2
        <4>3. new[K].term = log[p][K].term
          BY <1>3, <4>1
        <4> QED
          BY <4>1, <4>l, <4>2, <4>3 DEF TermBefore, TermAt
      <3> QED
        BY <3>1, <3>2, <3>3
    <2>5. Link(prev + k, m.entries[k].term, m.entries[k].hash, TermBefore(m, k))
              \in MessageLinks(m)
      BY DEF MessageLinks, prev, len
    <2> QED
      BY <2>2, <2>3, <2>4, <2>5
  <1>7. \A i \in 1 .. K + n : i \in 1 .. K \/ \E j \in 1 .. n : i = K + j
    <2> SUFFICES ASSUME NEW i \in 1 .. K + n, i \notin 1 .. K
                 PROVE  \E j \in 1 .. n : i = K + j
      OBVIOUS
    <2>1. i - K \in 1 .. n /\ i = K + (i - K)
      BY <1>4
    <2> QED
      BY <2>1
  <1>8. ASSUME NEW x \in LogLinks(new) PROVE x \in LogLinks(log[p]) \cup MessageLinks(m)
    <2>1. PICK i \in 1 .. K + n :
              x = Link(i, new[i].term, new[i].hash, TermAt(new, i - 1))
      BY <1>3, LogLinkAt
    <2>2. CASE i \in 1 .. K
      BY <1>5, <2>1, <2>2
    <2>3. CASE i \notin 1 .. K
      <3>1. PICK j \in 1 .. n : i = K + j
        BY <1>7, <2>3
      <3> QED
        BY <1>6, <2>1, <3>1, Zenon
    <2> QED
      BY <2>2, <2>3
  <1>9. ASSUME EntriesOK(log[p]) PROVE EntriesOK(new)
    <2>1. \A i \in 1 .. K : IsEntry(new[i])
      BY <1>1, <1>3, <1>4, <1>9 DEF EntriesOK
    <2>2. \A j \in 1 .. n : IsEntry(new[K + j])
      BY <1>3
    <2> QED
      BY <1>3, <1>7, <2>1, <2>2, Zenon DEF EntriesOK
  <1> QED
    BY <1>8, <1>9 DEF new

LEMMA AppendKeepsLinks ==
    ASSUME NEW lg, IsSeq(lg), NEW e
    PROVE  LogLinks(lg) \subseteq LogLinks(Append(lg, e))
  <1> DEFINE new == Append(lg, e)
  <1>1. PICK S : lg \in Seq(S)
    BY DEF IsSeq
  <1>2. lg \in Seq(S \cup {e})
    BY <1>1
  <1>3. /\ Len(lg) \in Nat
        /\ Len(new) = Len(lg) + 1
        /\ \A i \in 1 .. Len(lg) : new[i] = lg[i]
    BY <1>2
  <1> HIDE DEF new
  <1>4. ASSUME NEW i \in 1 .. Len(lg)
        PROVE  Link(i, lg[i].term, lg[i].hash, TermAt(lg, i - 1)) \in LogLinks(new)
    <2>1. i \in 1 .. Len(new) /\ (i - 1 = 0 \/ i - 1 \in 1 .. Len(lg))
      BY <1>3
    <2>2. TermAt(new, i - 1) = TermAt(lg, i - 1) /\ new[i] = lg[i]
      BY <1>3, <2>1 DEF TermAt
    <2>3. Link(i, new[i].term, new[i].hash, TermAt(new, i - 1)) \in LogLinks(new)
      BY <2>1 DEF LogLinks
    <2> QED
      BY <2>2, <2>3
  <1> QED
    BY <1>4 DEF LogLinks, new
----------------------------------------------------------------------------
(* The steps keep the invariant of links.                                  *)

LEMMA LinkSource ==
    ASSUME NEW x \in Links
    PROVE  \/ \E q \in Peers : x \in LogLinks(log[q])
           \/ \E m \in msgs : m.type = "AppendEntries" /\ x \in MessageLinks(m)
  BY DEF Links

LEMMA LinkSourceNext ==
    ASSUME NEW x \in Links'
    PROVE  \/ \E q \in Peers : x \in LogLinks(log'[q])
           \/ \E m \in msgs' : m.type = "AppendEntries" /\ x \in MessageLinks(m)
  BY DEF Links, LogLinks, MessageLinks, Link, TermAt, TermBefore

LEMMA LinksStep ==
    ASSUME LogInv', SentByLeader, NEW X,
           \A q \in Peers : LogLinks(log'[q]) \subseteq Links \cup X
    PROVE  Links' \subseteq Links \cup X
  <1> SUFFICES ASSUME NEW x \in Links' PROVE x \in Links \cup X
    OBVIOUS
  <1>1. ASSUME NEW m \in msgs', m.type = "AppendEntries", x \in MessageLinks(m)
        PROVE  x \in Links \cup X
    <2>1. CASE m \in msgs
      BY <1>1, <2>1 DEF Links
    <2>2. CASE m \notin msgs
      <3>1. m.from \in Peers /\ Piece(m, log'[m.from])
        BY <1>1, <2>2 DEF SentByLeader
      <3>2. Len(log'[m.from]) \in Nat
        BY <3>1, SeqFacts DEF LogInv, IsSeq
      <3>3. MessageLinks(m) \subseteq LogLinks(log'[m.from])
        BY <3>1, <3>2, PieceLinks
      <3> QED
        BY <1>1, <3>1, <3>3
    <2> QED
      BY <2>1, <2>2
  <1> QED
    BY <1>1, LinkSourceNext

\* A step that adds no link.
LEMMA QuietMatch ==
    ASSUME ElectionInv, ElectionInv', ElectionsLast, MatchInv,
           NoNewLeader(Peers), Links' \subseteq Links,
           \A q \in Peers : EntriesOK(log'[q]),
           \A q \in Peers : role'[q] = "Leader" => log'[q] = log[q]
    PROVE  MatchInv'
  <1>1. LinkTypes'
    BY DEF MatchInv, LinkTypes, EntriesOK, IsEntry
  <1>2. LinksAgree'
    BY DEF MatchInv, LinksAgree, Agree
  <1>3. LinksElected'
    <2> SUFFICES ASSUME NEW x \in Links' PROVE \E q \in Peers : WasElected(q, x.term)'
      BY DEF LinksElected
    <2>1. PICK q \in Peers : WasElected(q, x.term)
      BY DEF MatchInv, LinksElected
    <2>2. x.term \in Nat
      BY DEF MatchInv, LinkTypes
    <2> QED
      BY <2>1, <2>2 DEF ElectionsLast
  <1>4. LinksHeld'
    <2> SUFFICES ASSUME NEW p \in Peers, role'[p] = "Leader", NEW x \in Links',
                        x.term = currentTerm'[p]
                 PROVE  x \in LogLinks(log'[p])
      BY DEF LinksHeld, LogLinks, Link, TermAt
    <2> QED
      BY DEF NoNewLeader, MatchInv, LinksHeld
  <1> QED
    BY <1>1, <1>2, <1>3, <1>4 DEF MatchInv

\* p adds the link x; p holds all others of its term.
AddsLink(p, x) ==
    /\ x.index = Len(log[p]) + 1
    /\ x.term = currentTerm'[p]
    /\ x.prev = TermAt(log[p], Len(log[p]))
    /\ x \in LogLinks(log'[p])
    /\ LogLinks(log[p]) \subseteq LogLinks(log'[p])
    /\ LogLinks(log'[p]) \subseteq LogLinks(log[p]) \cup {x}
    /\ Links' \subseteq Links \cup {x}
    /\ \A q \in Peers \ {p} : log'[q] = log[q]
    /\ Len(log'[p]) = Len(log[p]) + 1
    /\ EntriesOK(log'[p])
    /\ \A y \in Links : y.term = x.term => y \in LogLinks(log[p])
    /\ \A y \in Links : y.term = x.term => y.index # x.index

LEMMA AppendAddsLink ==
    ASSUME LogInv, LogInv', ElectionInv, ElectionInv', ElectionsLast,
           MatchInv, SentByLeader, NEW p \in Peers, LeaderAppends(p)
    PROVE  \E x : AddsLink(p, x)
  <1>t. PICK t \in Nat : t = currentTerm'[p]
    BY DEF ElectionInv, ElectionTypes
  <1>1. PICK h : log' = [log EXCEPT ![p] = Append(@, [term |-> t, hash |-> h])]
    BY <1>t, Zenon DEF LeaderAppends
  <1> DEFINE e  == [term |-> t, hash |-> h]
             n  == Len(log[p])
             x  == Link(n + 1, t, h, TermAt(log[p], n))
  <1>2. /\ IsSeq(log[p])
        /\ n \in Nat
        /\ log = [q \in Peers |-> log[q]]
        /\ role'[p] = "Leader"
    BY SeqFacts DEF LogInv, LeaderAppends
  <1>3. /\ log'[p] = Append(log[p], e)
        /\ \A q \in Peers \ {p} : log'[q] = log[q]
    BY <1>1, <1>2
  <1>4. e.term = t /\ e.hash = h /\ IsEntry(e)
    BY DEF IsEntry
  <1> HIDE DEF e
  <1>5. /\ LogLinks(log'[p]) \subseteq LogLinks(log[p]) \cup {x}
        /\ EntriesOK(log'[p])
    BY <1>2, <1>3, <1>4, AppendedLink DEF MatchInv, LinkTypes
  <1>6. LogLinks(log[p]) \subseteq LogLinks(log'[p])
    BY <1>2, <1>3, AppendKeepsLinks
  <1>7. x.index = n + 1 /\ x.term = t /\ x.prev = TermAt(log[p], n)
    BY LinkFields
  <1>l. Len(log'[p]) = n + 1
    BY <1>2, <1>3, AppendFacts
  <1>8. x \in LogLinks(log'[p])
    <2>1. n + 1 \in 1 .. Len(log'[p]) /\ n + 1 - 1 = n
      BY <1>2, <1>l
    <2>2. log'[p][n + 1] = e
      BY <1>2, <1>3 DEF IsSeq
    <2>3. TermAt(log'[p], n) = TermAt(log[p], n)
      <3>1. n = 0 \/ log'[p][n] = log[p][n]
        BY <1>2, <1>3 DEF IsSeq
      <3> QED
        BY <3>1 DEF TermAt
    <2>4. Link(n + 1, log'[p][n + 1].term, log'[p][n + 1].hash,
               TermAt(log'[p], n + 1 - 1)) \in LogLinks(log'[p])
      BY <2>1 DEF LogLinks
    <2> QED
      BY <1>4, <2>1, <2>2, <2>3, <2>4
  <1> HIDE DEF x, n
  <1>9. Links' \subseteq Links \cup {x}
    <2>1. \A q \in Peers : LogLinks(log[q]) \subseteq Links
      BY DEF Links
    <2>2. \A q \in Peers : LogLinks(log'[q]) \subseteq Links \cup {x}
      BY <1>3, <1>5, <2>1, Zenon
    <2> QED
      BY <2>2, LinksStep
  <1>10. \A q \in Peers \ {p} : ~WasElected(q, t)
    <2> SUFFICES ASSUME NEW q \in Peers \ {p}, WasElected(q, t) PROVE FALSE
      OBVIOUS
    <2>1. WasElected(q, t)'
      BY <1>2, Zenon DEF ElectionsLast
    <2> QED
      BY <1>t, <1>2, <2>1 DEF WasElected, ElectedBy
  <1>11. ASSUME NEW y \in Links, y.term = t PROVE y \in LogLinks(log[p])
    <2>1. CASE role[p] = "Leader" /\ currentTerm[p] = t
      BY <1>11, <2>1 DEF MatchInv, LinksHeld
    <2>2. CASE ~Leads(p, t)
      <3>1. PICK q \in Peers : WasElected(q, t)
        BY <1>11 DEF MatchInv, LinksElected
      <3> QED
        BY <1>10, <2>2, <3>1 DEF WasElected
    <2> QED
      BY <1>t, <2>1, <2>2 DEF LeaderAppends
  <1>12. ASSUME NEW y \in Links, y.term = t PROVE y.index # n + 1
    <2>1. PICK i \in 1 .. n :
              y = Link(i, log[p][i].term, log[p][i].hash, TermAt(log[p], i - 1))
      BY <1>11, <1>12, LogLinkAt DEF n
    <2>2. y.index = i
      BY <2>1, LinkFields
    <2> QED
      BY <1>2, <2>2
  <1>13. AddsLink(p, x)
    BY <1>t, <1>3, <1>5, <1>6, <1>7, <1>l, <1>8, <1>9, <1>11, <1>12, Zenon
       DEF AddsLink, n
  <1> QED
    BY <1>13

\* A leader adds a link; no other has its term and index.
LEMMA AppendMatch ==
    ASSUME LogInv, LogInv', ElectionInv, ElectionInv', ElectionsLast,
           MatchInv, SentByLeader, NEW p \in Peers, LeaderAppends(p)
    PROVE  MatchInv'
  <1>1. PICK x : AddsLink(p, x)
    BY AppendAddsLink, Zenon
  <1>2. /\ x.index = Len(log[p]) + 1
        /\ x.term = currentTerm'[p]
        /\ x \in LogLinks(log'[p])
        /\ LogLinks(log[p]) \subseteq LogLinks(log'[p])
        /\ Links' \subseteq Links \cup {x}
        /\ \A q \in Peers \ {p} : log'[q] = log[q]
        /\ EntriesOK(log'[p])
        /\ \A y \in Links : y.term = x.term => y \in LogLinks(log[p])
        /\ \A y \in Links : y.term = x.term => y.index # x.index
    BY <1>1, Zenon DEF AddsLink
  <1>3. Len(log[p]) \in Nat /\ x.term \in Nat /\ role'[p] = "Leader"
    BY <1>2, SeqFacts DEF LogInv, ElectionInv, ElectionTypes, LeaderAppends
  <1>4. \A y \in Links : y.index \in Nat \ {0} /\ y.term \in Nat
    BY DEF MatchInv, LinkTypes
  <1>5. LinkTypes'
    <2>1. \A q \in Peers : EntriesOK(log'[q])
      BY <1>2 DEF MatchInv, LinkTypes
    <2>2. \A y \in Links' : y.index \in Nat \ {0} /\ y.term \in Nat
      BY <1>2, <1>3, <1>4
    <2> QED
      BY <2>1, <2>2 DEF LinkTypes, EntriesOK, IsEntry
  <1>6. LinksAgree'
    <2> SUFFICES ASSUME NEW y \in Links', NEW z \in Links', y.index = z.index,
                        y.term = z.term
                 PROVE  y = z
      BY DEF LinksAgree, Agree
    <2>1. CASE y \in Links /\ z \in Links
      BY <2>1 DEF MatchInv, LinksAgree, Agree
    <2>2. CASE y = x \/ z = x
      BY <1>2, <2>2, Zenon
    <2> QED
      BY <1>2, <2>1, <2>2
  <1>7. LinksElected'
    <2> SUFFICES ASSUME NEW y \in Links' PROVE \E q \in Peers : WasElected(q, y.term)'
      BY Zenon DEF LinksElected
    <2>1. CASE y = x
      BY <1>2, <1>3, <2>1 DEF ElectionsLast
    <2>2. CASE y \in Links
      <3>1. PICK q \in Peers : WasElected(q, y.term)
        BY <2>2 DEF MatchInv, LinksElected
      <3> QED
        BY <1>4, <2>2, <3>1 DEF ElectionsLast
    <2> QED
      BY <1>2, <2>1, <2>2
  <1>8. LinksHeld'
    <2> SUFFICES ASSUME NEW r \in Peers, role'[r] = "Leader", NEW y \in Links',
                        y.term = currentTerm'[r]
                 PROVE  y \in LogLinks(log'[r])
      BY DEF LinksHeld, LogLinks, Link, TermAt
    <2>1. CASE r = p
      BY <1>2, <2>1, Zenon
    <2>2. CASE r # p
      <3>1. currentTerm'[r] # x.term
        BY <1>2, <1>3, <2>2, Zenon DEF ElectionInv, ElectionSafety
      <3>2. y \in Links /\ log'[r] = log[r]
        BY <1>2, <2>2, <3>1, Zenon
      <3> QED
        BY <2>2, <3>2, Zenon DEF LeaderAppends, NoNewLeader, MatchInv, LinksHeld
    <2> QED
      BY <2>1, <2>2, Zenon
  <1> QED
    BY <1>5, <1>6, <1>7, <1>8 DEF MatchInv

LEMMA TakeMatch ==
    ASSUME LogInv, LogInv', ElectionInv, ElectionInv', ElectionsLast,
           MatchInv, SentByLeader, NEW p \in Peers, NEW m \in msgs, FollowerTakes(p, m)
    PROVE  MatchInv'
  <1>1. /\ IsSeq(log[p])
        /\ commitIndex[p] \in Nat
        /\ commitIndex[p] <= Len(log[p])
        /\ AppendOK(m)
        /\ CanAppend(p, m)
        /\ log = [q \in Peers |-> log[q]]
    BY DEF LogInv, LogMessageOK, FollowerTakes
  <1>2. /\ log'[p] = AppendedLog(log[p], m)
        /\ \A q \in Peers \ {p} : log'[q] = log[q]
    BY <1>1 DEF FollowerTakes
  <1>3. /\ LogLinks(log'[p]) \subseteq LogLinks(log[p]) \cup MessageLinks(m)
        /\ EntriesOK(log[p]) => EntriesOK(log'[p])
    BY <1>1, <1>2, AcceptedLinks
  <1>4. /\ \A q \in Peers : LogLinks(log[q]) \subseteq Links
        /\ MessageLinks(m) \subseteq Links
    BY DEF Links, FollowerTakes
  <1>5. Links' \subseteq Links
    <2>1. \A q \in Peers : LogLinks(log'[q]) \subseteq Links \cup {}
      BY <1>2, <1>3, <1>4
    <2> QED
      BY <2>1, LinksStep
  <1>6. \A q \in Peers : EntriesOK(log'[q])
    BY <1>2, <1>3 DEF MatchInv, LinkTypes
  <1>7. \A q \in Peers : role'[q] = "Leader" => log'[q] = log[q]
    BY <1>2 DEF FollowerTakes
  <1> QED
    BY <1>5, <1>6, <1>7, QuietMatch DEF FollowerTakes

LEMMA ShapeMatch ==
    ASSUME LogInv, LogInv', ElectionInv, ElectionInv', ElectionsLast,
           MatchInv, LogShape
    PROVE  MatchInv'
  <1>1. SentByLeader
    BY DEF LogShape
  <1>2. CASE log' = log /\ NoNewLeader(Peers)
    <2>1. \A q \in Peers : LogLinks(log'[q]) \subseteq Links \cup {}
      BY <1>2 DEF Links
    <2>2. Links' \subseteq Links
      BY <1>1, <2>1, LinksStep
    <2>3. \A q \in Peers : EntriesOK(log'[q])
      BY <1>2 DEF MatchInv, LinkTypes
    <2> QED
      BY <1>2, <2>2, <2>3, QuietMatch
  <1> QED
    BY <1>1, <1>2, AppendMatch, TakeMatch DEF LogShape
----------------------------------------------------------------------------
(* Logs that match.                                                        *)

\* Two paths of links that meet have been one up to there.
LEMMA OnePath ==
    ASSUME NEW L, Agree(L), NEW a, NEW b, Len(a) \in Nat, Len(b) \in Nat,
           LogLinks(a) \subseteq L, LogLinks(b) \subseteq L,
           NEW i \in 1 .. Len(a), i <= Len(b), a[i].term = b[i].term
    PROVE  \A j \in 1 .. i : a[j].term = b[j].term /\ a[j].hash = b[j].hash
  <1> DEFINE la(j) == Link(j, a[j].term, a[j].hash, TermAt(a, j - 1))
             lb(j) == Link(j, b[j].term, b[j].hash, TermAt(b, j - 1))
             T     == {j \in 1 .. i : a[j].term # b[j].term}
  <1>1. ASSUME NEW j \in 1 .. i, a[j].term = b[j].term
        PROVE  a[j].hash = b[j].hash /\ TermAt(a, j - 1) = TermAt(b, j - 1)
    <2>1. j \in 1 .. Len(a) /\ j \in 1 .. Len(b)
      OBVIOUS
    <2>2. la(j) \in L /\ lb(j) \in L
      BY <2>1, Zenon DEF LogLinks
    <2>3. /\ la(j).index = j
          /\ la(j).term = a[j].term
          /\ la(j).hash = a[j].hash
          /\ la(j).prev = TermAt(a, j - 1)
      BY LinkFields
    <2>4. /\ lb(j).index = j
          /\ lb(j).term = b[j].term
          /\ lb(j).hash = b[j].hash
          /\ lb(j).prev = TermAt(b, j - 1)
      BY LinkFields
    <2> HIDE DEF la, lb
    <2>5. la(j) = lb(j)
      BY <1>1, <2>2, <2>3, <2>4 DEF Agree
    <2> QED
      BY <2>3, <2>4, <2>5
  <1>2. T = {}
    <2> SUFFICES ASSUME T # {} PROVE FALSE
      OBVIOUS
    <2>1. T \in SUBSET (0 .. i) /\ i \in Nat
      OBVIOUS
    <2>2. PICK k \in T : \A y \in T : k >= y
      <3> HIDE DEF T
      <3> QED
        BY <2>1, MaxExists, Zenon
    <2>3. k \in 1 .. i /\ k # i /\ a[k].term # b[k].term
      OBVIOUS
    <2>4. k + 1 \in 1 .. i /\ k + 1 - 1 = k /\ k # 0
      BY <2>3
    <2>5. k + 1 \notin T
      <3> HIDE DEF T
      <3>1. k \in Nat /\ ~(k >= k + 1)
        BY <2>3
      <3> QED
        BY <2>2, <3>1
    <2>6. a[k + 1].term = b[k + 1].term
      BY <2>4, <2>5
    <2>7. TermAt(a, k + 1 - 1) = TermAt(b, k + 1 - 1)
      BY <1>1, <2>4, <2>6
    <2> QED
      BY <2>3, <2>4, <2>7 DEF TermAt
  <1> QED
    BY <1>1, <1>2, Zenon

LEMMA SamePrefix ==
    ASSUME NEW a, IsSeq(a), NEW b, IsSeq(b), NEW i \in Nat, i <= Len(a), i <= Len(b),
           \A j \in 1 .. i : a[j] = b[j]
    PROVE  SubSeq(a, 1, i) = SubSeq(b, 1, i)
  BY SeqFacts

\* The same entries, and so the same beginnings of the logs.
LEMMA EqualPrefix ==
    ASSUME LogInv, MatchInv, NEW p \in Peers, NEW q \in Peers,
           NEW i \in 1 .. Len(log[p]), i <= Len(log[q]),
           log[p][i].term = log[q][i].term
    PROVE  /\ \A j \in 1 .. i : log[p][j] = log[q][j]
           /\ SubSeq(log[p], 1, i) = SubSeq(log[q], 1, i)
  <1>1. /\ IsSeq(log[p])
        /\ IsSeq(log[q])
        /\ Len(log[p]) \in Nat
        /\ Len(log[q]) \in Nat
    BY SeqFacts DEF LogInv
  <1>2. LogLinks(log[p]) \subseteq Links /\ LogLinks(log[q]) \subseteq Links
    BY DEF Links
  <1>3. \A j \in 1 .. i : /\ log[p][j].term = log[q][j].term
                          /\ log[p][j].hash = log[q][j].hash
    BY <1>1, <1>2, OnePath DEF MatchInv, LinksAgree
  <1>4. ASSUME NEW j \in 1 .. i PROVE log[p][j] = log[q][j]
    <2>1. IsEntry(log[p][j]) /\ IsEntry(log[q][j])
      BY <1>1 DEF MatchInv, LinkTypes, EntriesOK
    <2> QED
      BY <1>3, <2>1, Zenon DEF IsEntry
  <1>5. i \in Nat /\ i <= Len(log[p])
    BY <1>1
  <1>6. SubSeq(log[p], 1, i) = SubSeq(log[q], 1, i)
    BY <1>1, <1>4, <1>5, SamePrefix
  <1> QED
    BY <1>4, <1>6
----------------------------------------------------------------------------
(* What agreement on commits assumes of messages; no handler ensures it.   *)

\* A batch reaches the commit index that goes with it.
BatchesReachCommit ==
    \A m \in msgs : m.type = "AppendEntries" =>
        m.leaderCommit <= m.prevLogIndex + Len(m.entries)

\* A rejection never vouches for an entry of the leader's own term.
RejectionsVouchOld ==
    \A m \in msgs :
        m.type = "AppendEntriesResponse" /\ ~m.success
            /\ role[m.to] = "Leader" /\ currentTerm[m.to] = m.term =>
        TermAt(log[m.to], MinOf(m.matchIndex, Len(log[m.to]))) < m.term
----------------------------------------------------------------------------
(* The order of terms.                                                     *)

Growing(L) == \A x \in L : x.prev \in Nat /\ x.prev <= x.term

\* The last entry of a leader is one it appended itself.
LastOwn(p) ==
    /\ Len(log[p]) # 0
    /\ log[p][Len(log[p])].term = currentTerm[p]

\* The terms along a log grow, up to the peer's own; a message of a leader is
\* a part of the log the leader has.
OrderInv ==
    /\ Growing(Links)
    /\ \A p \in Peers : \A x \in LogLinks(log[p]) : x.term <= currentTerm[p]
    /\ \A p \in Peers : role[p] = "Leader" => LastOwn(p)
    /\ \A m \in msgs : m.type = "AppendEntries" =>
          \A p \in Peers : role[p] = "Leader" /\ currentTerm[p] = m.term =>
              Piece(m, log[p])
    /\ \A m \in msgs : m.type = "AppendEntries" =>
          \A x \in MessageLinks(m) : x.term <= m.term

\* A candidate's requests describe its log.
AskInv ==
    \A m \in msgs :
        m.type = "RequestVote" /\ role[m.from] = "Candidate"
            /\ currentTerm[m.from] = m.term =>
        /\ m.lastLogIndex = Len(log[m.from])
        /\ m.lastLogTerm = LastLogTerm(log[m.from])

\* What is acknowledged to a leader lies within its log.
AckInv ==
    /\ \A m \in msgs : Ack(m) =>
          /\ WasElected(m.to, m.term)
          /\ role[m.to] = "Leader" /\ currentTerm[m.to] = m.term =>
                m.matchIndex <= Len(log[m.to])
    /\ \A p, q \in Peers : role[p] = "Leader" => matchIndexes[p][q] <= Len(log[p])
----------------------------------------------------------------------------
(* Entries that last.                                                      *)

Holds(q, x) == x \in LogLinks(log[q])

Firm(q, x) == Holds(q, x) /\ currentTerm[q] >= x.term

\* Every path of links that comes from a term as late passes through x.
Through(L, x) ==
    \A y \in L :
        /\ y.term > x.term => y.index > x.index
        /\ y.term >= x.term /\ y.index > x.index =>
              y.prev >= x.term /\ (y.index = x.index + 1 => y.prev = x.term)

Above(x) == Through(Links, x)

\* A message of a term as late contradicts nothing a holder of x has up to x.
Below(x) ==
    \A m \in msgs : m.type = "AppendEntries" /\ m.term >= x.term =>
        \A y \in MessageLinks(m) : y.index <= x.index =>
            \A q \in Peers : Holds(q, x) => y \in LogLinks(log[q])

\* A later candidate with the vote of one of M has x.
VotesKnow(x, M) ==
    \A c \in Peers : role[c] = "Candidate" /\ currentTerm[c] > x.term =>
        \A z \in M : VotesFor(z, c) => Holds(c, x)

Lasts(x, M) == Above(x) /\ Below(x) /\ VotesKnow(x, M)

\* The leader p has, or will find, that q holds its log up to index i.
Acked(p, q, i) ==
    \/ matchIndexes[p][q] >= i
    \/ \E m \in msgs : /\ Ack(m)
                       /\ m.from = q
                       /\ m.to = p
                       /\ m.term = currentTerm[p]
                       /\ m.matchIndex >= i

MayAck(p, q, i) == currentTerm[q] <= currentTerm[p] \/ Acked(p, q, i)

\* An entry a leader may still commit lasts, at those who acknowledged it.
SafeInv ==
    \A p \in Peers : role[p] = "Leader" =>
        \A x \in Links : x.term = currentTerm[p] =>
            \A M \in SUBSET Peers :
                IsQuorum(M) /\ (\A q \in M : MayAck(p, q, x.index)) =>
                    /\ Lasts(x, M)
                    /\ \A q \in M : Acked(p, q, x.index) => Firm(q, x)

\* A majority holds x for good.
Anchored(x) ==
    /\ x \in Links
    /\ \E M \in SUBSET Peers : /\ IsQuorum(M)
                               /\ Lasts(x, M)
                               /\ \A q \in M : Firm(q, x)

\* The last term of the log up to where m ends.
EndTerm(m) ==
    IF Len(m.entries) = 0 THEN m.prevLogTerm ELSE m.entries[Len(m.entries)].term

\* What a peer has committed, and what a leader tells of it, is anchored.
CommitInv ==
    /\ \A p \in Peers : commitIndex[p] # 0 =>
          \E x \in Links : /\ Anchored(x)
                           /\ Holds(p, x)
                           /\ x.index = commitIndex[p]
    /\ \A m \in msgs :
          m.type = "AppendEntries" /\ m.leaderCommit # 0
              /\ m.leaderCommit <= m.prevLogIndex + Len(m.entries) =>
          \E x \in Links : /\ Anchored(x)
                           /\ x.index = m.leaderCommit
                           /\ x.term <= EndTerm(m)

SafetyInv == OrderInv /\ AskInv /\ AckInv /\ SafeInv /\ CommitInv
----------------------------------------------------------------------------
(* Links and paths.                                                        *)

IndexTypes(L) == \A x \in L : x.index \in Nat \ {0} /\ x.term \in Nat

LEMMA LinkAt ==
    ASSUME NEW a, NEW i \in 1 .. Len(a)
    PROVE  \E y \in LogLinks(a) : /\ y.index = i
                                  /\ y.term = a[i].term
                                  /\ y.prev = TermAt(a, i - 1)
  <1> DEFINE y == Link(i, a[i].term, a[i].hash, TermAt(a, i - 1))
  <1>1. y \in LogLinks(a)
    BY DEF LogLinks
  <1>2. y.index = i /\ y.term = a[i].term /\ y.prev = TermAt(a, i - 1)
    BY LinkFields
  <1> HIDE DEF y
  <1> QED
    BY <1>1, <1>2

LEMMA LinkPlace ==
    ASSUME NEW a, NEW x \in LogLinks(a)
    PROVE  /\ x.index \in 1 .. Len(a)
           /\ a[x.index].term = x.term
           /\ TermAt(a, x.index - 1) = x.prev
  <1>1. PICK i \in 1 .. Len(a) :
            x = Link(i, a[i].term, a[i].hash, TermAt(a, i - 1))
    BY LogLinkAt
  <1>2. x.index = i /\ x.term = a[i].term /\ x.prev = TermAt(a, i - 1)
    BY <1>1, LinkFields
  <1> QED
    BY <1>2, Zenon

\* The terms along a path grow.
LEMMA TermsGrow ==
    ASSUME NEW L, IndexTypes(L), Growing(L), NEW a, Len(a) \in Nat,
           LogLinks(a) \subseteq L,
           NEW i \in 1 .. Len(a), NEW j \in 1 .. Len(a), i <= j
    PROVE  /\ a[i].term \in Nat
           /\ a[j].term \in Nat
           /\ a[i].term <= a[j].term
  <1>1. ASSUME NEW k \in 1 .. Len(a)
        PROVE  /\ a[k].term \in Nat
               /\ k # 1 => a[k - 1].term <= a[k].term
    <2>1. PICK y \in LogLinks(a) : /\ y.index = k
                                   /\ y.term = a[k].term
                                   /\ y.prev = TermAt(a, k - 1)
      BY LinkAt
    <2>2. y.term \in Nat /\ y.prev <= y.term
      BY DEF IndexTypes, Growing
    <2>3. k # 1 => TermAt(a, k - 1) = a[k - 1].term
      BY DEF TermAt
    <2> QED
      BY <2>1, <2>2, <2>3
  <1> DEFINE T == {k \in i .. j : a[i].term > a[k].term}
  <1>2. T = {}
    <2> SUFFICES ASSUME T # {} PROVE FALSE
      OBVIOUS
    <2>1. T \in SUBSET Nat
      OBVIOUS
    <2>2. PICK k \in T : \A y \in T : k <= y
      <3> HIDE DEF T
      <3> QED
        BY <2>1, MinExists, Zenon
    <2>3. k \in 1 .. Len(a) /\ k \in i .. j /\ a[i].term > a[k].term
      OBVIOUS
    <2>4. k # i
      BY <1>1, <2>3
    <2>5. k - 1 \in i .. j /\ k # 1 /\ k - 1 \in 1 .. Len(a)
      BY <2>3, <2>4
    <2>6. k - 1 \notin T
      <3> HIDE DEF T
      <3>1. k \in Nat /\ ~(k <= k - 1)
        BY <2>3
      <3> QED
        BY <2>2, <3>1
    <2>7. ~(a[i].term > a[k - 1].term)
      BY <2>5, <2>6, Zenon
    <2>8. a[k - 1].term <= a[k].term /\ a[k - 1].term \in Nat /\ a[k].term \in Nat
      BY <1>1, <2>3, <2>5
    <2>9. a[i].term \in Nat
      BY <1>1
    <2> QED
      BY <2>3, <2>7, <2>8, <2>9
  <1>3. ~(a[i].term > a[j].term)
    BY <1>2
  <1>4. a[i].term \in Nat /\ a[j].term \in Nat
    BY <1>1
  <1> QED
    BY <1>3, <1>4

\* A path through x: it has a term as late at an index as far.
LEMMA WalkDown ==
    ASSUME NEW L, IndexTypes(L), Agree(L), NEW x \in L, Through(L, x),
           NEW a, Len(a) \in Nat, LogLinks(a) \subseteq L,
           NEW j \in 1 .. Len(a), j >= x.index, a[j].term >= x.term
    PROVE  x \in LogLinks(a)
  <1>1. x.index \in Nat \ {0} /\ x.term \in Nat
    BY DEF IndexTypes
  <1>i. PICK i \in Nat \ {0} : i = x.index
    BY <1>1
  <1>t. PICK t \in Nat : t = x.term
    BY <1>1
  <1>2. ASSUME NEW k \in 1 .. Len(a), a[k].term >= t
        PROVE  /\ k = i => x \in LogLinks(a)
               /\ k > i => TermAt(a, k - 1) >= t
    <2>1. PICK y \in LogLinks(a) : /\ y.index = k
                                   /\ y.term = a[k].term
                                   /\ y.prev = TermAt(a, k - 1)
      BY LinkAt
    <2>2. y \in L /\ y.term \in Nat
      BY DEF IndexTypes
    <2>3. y.term > t => k > i
      BY <1>i, <1>t, <2>1, <2>2 DEF Through
    <2>4. k > i => y.prev >= t
      BY <1>i, <1>t, <1>2, <2>1, <2>2 DEF Through
    <2>5. ASSUME k = i PROVE x \in LogLinks(a)
      <3>1. y.term = t
        BY <1>2, <2>1, <2>2, <2>3, <2>5
      <3>2. y = x
        BY <1>i, <1>t, <2>1, <2>2, <2>5, <3>1, Zenon DEF Agree
      <3> QED
        BY <3>2, Zenon
    <2> QED
      BY <2>1, <2>4, <2>5, Zenon
  <1> DEFINE T == {k \in i .. j : ~(a[k].term >= t)}
  <1>3. T = {}
    <2> SUFFICES ASSUME T # {} PROVE FALSE
      OBVIOUS
    <2>1. T \in SUBSET (0 .. j) /\ j \in Nat
      OBVIOUS
    <2>2. PICK k \in T : \A y \in T : k >= y
      <3> HIDE DEF T
      <3> QED
        BY <2>1, MaxExists, Zenon
    <2>3. k \in i .. j /\ ~(a[k].term >= t)
      OBVIOUS
    <2>4. k # j
      BY <1>t, <2>3
    <2>5. k + 1 \in i .. j /\ k + 1 \in 1 .. Len(a) /\ k + 1 > i /\ k # 0 /\ k + 1 - 1 = k
      BY <2>3, <2>4
    <2>6. k + 1 \notin T
      <3> HIDE DEF T
      <3>1. k \in Nat /\ ~(k >= k + 1)
        BY <2>3
      <3> QED
        BY <2>2, <3>1
    <2>7. a[k + 1].term >= t
      BY <2>5, <2>6
    <2>8. TermAt(a, k + 1 - 1) >= t
      BY <1>2, <2>5, <2>7
    <2> QED
      BY <2>3, <2>5, <2>8 DEF TermAt
  <1>4. i \in i .. j /\ i \in 1 .. Len(a)
    BY <1>i
  <1>5. a[i].term >= t
    BY <1>3, <1>4
  <1> QED
    BY <1>2, <1>4, <1>5

\* Two paths through x are one below it.
LEMMA SameBelow ==
    ASSUME NEW L, Agree(L), NEW a, NEW b, Len(a) \in Nat, Len(b) \in Nat,
           LogLinks(a) \subseteq L, LogLinks(b) \subseteq L,
           NEW x, x \in LogLinks(a), x \in LogLinks(b),
           NEW y \in LogLinks(a), y.index <= x.index
    PROVE  y \in LogLinks(b)
  <1>1. /\ x.index \in 1 .. Len(a)
        /\ x.index \in 1 .. Len(b)
        /\ a[x.index].term = b[x.index].term
    BY LinkPlace
  <1>i. PICK i \in 1 .. Len(a) : i = x.index /\ i <= Len(b)
    BY <1>1
  <1>2. \A j \in 1 .. i : a[j].term = b[j].term /\ a[j].hash = b[j].hash
    BY <1>1, <1>i, OnePath
  <1>3. y.index \in 1 .. Len(a) /\ a[y.index].term = y.term
    BY LinkPlace
  <1>4. PICK k \in 1 .. Len(b) : k = y.index /\ k \in 1 .. i
    BY <1>i, <1>3
  <1>5. PICK z \in LogLinks(b) : z.index = k /\ z.term = b[k].term
    BY LinkAt
  <1>6. z.index = y.index /\ z.term = y.term
    BY <1>2, <1>3, <1>4, <1>5
  <1>7. z = y
    BY <1>6 DEF Agree
  <1> QED
    BY <1>7
----------------------------------------------------------------------------
(* The order of terms is kept.                                             *)

GoodStep ==
    /\ MajoritiesMeet
    /\ RaftInv
    /\ RaftInv'
    /\ ElectionKept
    /\ ElectionsLast
    /\ LogShape

LEMMA StepFacts ==
    ASSUME GoodStep
    PROVE  /\ IndexTypes(Links)
           /\ IndexTypes(Links')
           /\ Agree(Links)
           /\ Agree(Links')
           /\ \A q \in Peers : /\ Len(log[q]) \in Nat
                               /\ Len(log'[q]) \in Nat
                               /\ LogLinks(log[q]) \subseteq Links
                               /\ LogLinks(log'[q]) \subseteq Links'
           /\ \A q \in Peers : /\ currentTerm[q] \in Nat
                               /\ currentTerm'[q] \in Nat
                               /\ currentTerm[q] <= currentTerm'[q]
  <1>1. IndexTypes(Links) /\ Agree(Links)
    BY DEF GoodStep, RaftInv, MatchInv, LinkTypes, LinksAgree, IndexTypes
  <1>2. IndexTypes(Links') /\ Agree(Links')
    BY DEF GoodStep, RaftInv, MatchInv, LinkTypes, LinksAgree, IndexTypes, Agree
  <1>3. \A q \in Peers : /\ Len(log[q]) \in Nat
                         /\ LogLinks(log[q]) \subseteq Links
    BY SeqFacts DEF GoodStep, RaftInv, LogInv, Links
  <1>4. \A q \in Peers : Len(log'[q]) \in Nat
    BY SeqFacts, Zenon DEF GoodStep, RaftInv, LogInv, IsSeq
  <1>5. \A q \in Peers : LogLinks(log'[q]) \subseteq Links'
    BY Zenon DEF Links, LogLinks, Link, TermAt
  <1>6. \A q \in Peers : currentTerm[q] \in Nat /\ currentTerm'[q] \in Nat
    BY Zenon DEF GoodStep, RaftInv, ElectionInv, ElectionTypes
  <1>7. \A q \in Peers : currentTerm[q] <= currentTerm'[q]
    BY <1>6 DEF GoodStep, ElectionKept, VotesKept
  <1> QED
    BY <1>1, <1>2, <1>3, <1>4, <1>5, <1>6, <1>7, Zenon

\* p takes entries of m; no link is new.
TakesLinks(p, m) ==
    /\ FollowerTakes(p, m)
    /\ LogLinks(log'[p]) \subseteq LogLinks(log[p]) \cup MessageLinks(m)
    /\ MessageLinks(m) \subseteq Links
    /\ Links' \subseteq Links
    /\ \A q \in Peers \ {p} : log'[q] = log[q]

LEMMA LinkMoves ==
    ASSUME GoodStep
    PROVE  \/ log' = log /\ NoNewLeader(Peers) /\ Links' \subseteq Links
           \/ \E p \in Peers : LeaderAppends(p) /\ \E x : AddsLink(p, x)
           \/ \E p \in Peers, m \in msgs : TakesLinks(p, m)
  <1>1. /\ LogInv /\ LogInv'
        /\ ElectionInv /\ ElectionInv'
        /\ ElectionsLast /\ MatchInv /\ SentByLeader
    BY DEF GoodStep, RaftInv, LogShape
  <1>2. CASE log' = log /\ NoNewLeader(Peers)
    <2>1. \A q \in Peers : LogLinks(log'[q]) \subseteq Links \cup {}
      BY <1>2 DEF Links
    <2> QED
      BY <1>1, <1>2, <2>1, LinksStep
  <1>3. ASSUME NEW p \in Peers, LeaderAppends(p) PROVE \E x : AddsLink(p, x)
    BY <1>1, <1>3, AppendAddsLink, Zenon
  <1>4. ASSUME NEW p \in Peers, NEW m \in msgs, FollowerTakes(p, m)
        PROVE  TakesLinks(p, m)
    <2>1. /\ IsSeq(log[p])
          /\ commitIndex[p] \in Nat
          /\ commitIndex[p] <= Len(log[p])
          /\ AppendOK(m)
          /\ CanAppend(p, m)
          /\ log = [q \in Peers |-> log[q]]
      BY <1>1, <1>4 DEF LogInv, LogMessageOK, FollowerTakes
    <2>2. /\ log'[p] = AppendedLog(log[p], m)
          /\ \A q \in Peers \ {p} : log'[q] = log[q]
      BY <1>4, <2>1 DEF FollowerTakes
    <2>3. LogLinks(log'[p]) \subseteq LogLinks(log[p]) \cup MessageLinks(m)
      BY <2>1, <2>2, AcceptedLinks, Zenon
    <2>4. /\ \A q \in Peers : LogLinks(log[q]) \subseteq Links
          /\ MessageLinks(m) \subseteq Links
      BY <1>4 DEF Links, FollowerTakes
    <2>5. \A q \in Peers : LogLinks(log'[q]) \subseteq Links \cup {}
      BY <2>2, <2>3, <2>4
    <2>6. Links' \subseteq Links
      BY <1>1, <2>5, LinksStep, Zenon
    <2> QED
      BY <1>4, <2>2, <2>3, <2>4, <2>6, Zenon DEF TakesLinks
  <1> QED
    BY <1>2, <1>3, <1>4 DEF GoodStep, LogShape

LEMMA PieceStays ==
    ASSUME NEW lg, IsSeq(lg), NEW e, NEW m, Piece(m, lg)
    PROVE  Piece(m, Append(lg, e))
  <1> DEFINE new == Append(lg, e)
  <1>1. PICK S : lg \in Seq(S)
    BY DEF IsSeq
  <1>2. lg \in Seq(S \cup {e})
    BY <1>1
  <1>3. /\ Len(lg) \in Nat
        /\ Len(new) = Len(lg) + 1
        /\ \A i \in 1 .. Len(lg) : new[i] = lg[i]
    BY <1>2
  <1> HIDE DEF new
  <1>4. m.prevLogIndex \in 0 .. Len(lg) /\ m.prevLogIndex + Len(m.entries) <= Len(lg)
        /\ Len(m.entries) \in Nat
    BY DEF Piece
  <1>5. TermAt(new, m.prevLogIndex) = TermAt(lg, m.prevLogIndex)
    BY <1>3, <1>4 DEF TermAt
  <1>6. \A i \in 1 .. Len(m.entries) : m.prevLogIndex + i \in 1 .. Len(lg)
    BY <1>3, <1>4
  <1>7. m.prevLogIndex \in 0 .. Len(new) /\ m.prevLogIndex + Len(m.entries) <= Len(new)
    BY <1>3, <1>4
  <1> QED
    BY <1>3, <1>4, <1>5, <1>6, <1>7 DEF Piece, new

\* A leader had the messages of its term sent itself: a new one has none.
LEMMA OwnMessages ==
    ASSUME GoodStep, NEW p \in Peers, role'[p] = "Leader", NEW q \in Peers,
           WasElected(q, currentTerm'[p])
    PROVE  q = p /\ role[p] = "Leader" /\ currentTerm[p] = currentTerm'[p]
  <1>t. PICK t \in Nat : t = currentTerm'[p]
    BY StepFacts
  <1>1. WasElected(q, t)'
    BY <1>t, Zenon DEF GoodStep, ElectionsLast
  <1>2. q = p
    BY <1>t, <1>1, Zenon DEF WasElected, ElectedBy
  <1>3. Leads(p, t)
    BY <1>t, <1>2 DEF WasElected
  <1> QED
    BY <1>t, <1>2, <1>3, StepFacts, Zenon DEF Leads, GoodStep, LogShape, LeaderAppends,
       FollowerTakes, NoNewLeader

LEMMA NextOrder ==
    ASSUME GoodStep, OrderInv
    PROVE  OrderInv'
  <1> USE StepFacts
  <1>s. SentByLeader
    BY Zenon DEF GoodStep, LogShape
  <1>1. Growing(Links')
    <2>1. Growing(Links)
      BY Zenon DEF OrderInv
    <2>2. ASSUME NEW p \in Peers, NEW x, AddsLink(p, x)
          PROVE  x.prev \in Nat /\ x.prev <= x.term
      <3>1. /\ x.term = currentTerm'[p]
            /\ x.prev = TermAt(log[p], Len(log[p]))
        BY <2>2 DEF AddsLink
      <3>2. CASE Len(log[p]) = 0
        BY <3>1, <3>2 DEF TermAt
      <3>3. CASE Len(log[p]) # 0
        <4>1. Len(log[p]) \in 1 .. Len(log[p])
          BY <3>3
        <4>2. PICK y \in LogLinks(log[p]) : y.term = log[p][Len(log[p])].term
          BY <4>1, LinkAt
        <4>3. y.term \in Nat /\ y.term <= currentTerm[p]
          BY Zenon DEF OrderInv, IndexTypes
        <4>4. x.prev = y.term
          BY <3>1, <3>3, <4>2, Zenon DEF TermAt
        <4> QED
          BY <3>1, <4>3, <4>4
      <3> QED
        BY <3>2, <3>3, Zenon
    <2> QED
      BY <2>1, <2>2, LinkMoves, Zenon DEF Growing, AddsLink, TakesLinks
  <1>2. ASSUME NEW p \in Peers, NEW x \in LogLinks(log'[p])
        PROVE  x.term <= currentTerm'[p]
    <2>0. ASSUME x \in LogLinks(log[p]) PROVE x.term <= currentTerm'[p]
      <3>1. x.term \in Nat /\ x.term <= currentTerm[p]
        BY <2>0 DEF OrderInv, IndexTypes
      <3> QED
        BY <3>1
    <2>1. CASE log' = log
      BY <2>0, <2>1, Zenon
    <2>2. ASSUME NEW r \in Peers, NEW y, AddsLink(r, y) PROVE x.term <= currentTerm'[p]
      <3>1. (x = y /\ p = r) \/ x \in LogLinks(log[p])
        BY <2>2, Zenon DEF AddsLink
      <3>2. y.term = currentTerm'[r]
        BY <2>2, Zenon DEF AddsLink
      <3> QED
        BY <2>0, <3>1, <3>2
    <2>3. ASSUME NEW r \in Peers, NEW m \in msgs, TakesLinks(r, m)
          PROVE  x.term <= currentTerm'[p]
      <3>1. (p = r /\ x \in MessageLinks(m)) \/ x \in LogLinks(log[p])
        BY <2>3, Zenon DEF TakesLinks
      <3>2. m.type = "AppendEntries" /\ m.term = currentTerm'[r]
        BY <2>3, Zenon DEF TakesLinks, FollowerTakes
      <3> QED
        BY <2>0, <3>1, <3>2, Zenon DEF OrderInv
    <2> QED
      BY <2>1, <2>2, <2>3, LinkMoves, Zenon
  <1>3. ASSUME NEW p \in Peers, role'[p] = "Leader"
        PROVE  Len(log'[p]) # 0 /\ log'[p][Len(log'[p])].term = currentTerm'[p]
    <2>0. ASSUME log'[p] = log[p], role[p] = "Leader", currentTerm'[p] = currentTerm[p]
          PROVE  Len(log'[p]) # 0 /\ log'[p][Len(log'[p])].term = currentTerm'[p]
      BY <2>0, Zenon DEF OrderInv, LastOwn
    <2>1. CASE log' = log /\ NoNewLeader(Peers)
      BY <1>3, <2>0, <2>1, Zenon DEF NoNewLeader
    <2>2. ASSUME NEW r \in Peers, NEW y, AddsLink(r, y), LeaderAppends(r)
          PROVE  Len(log'[p]) # 0 /\ log'[p][Len(log'[p])].term = currentTerm'[p]
      <3>1. CASE p = r
        <4>1. /\ y \in LogLinks(log'[p])
              /\ y.index = Len(log'[p])
              /\ y.term = currentTerm'[p]
          BY <2>2, <3>1, Zenon DEF AddsLink
        <4>2. y.index \in 1 .. Len(log'[p]) /\ log'[p][y.index].term = y.term
          BY <4>1, LinkPlace
        <4> QED
          BY <4>1, <4>2
      <3>2. CASE p # r
        BY <1>3, <2>0, <2>2, <3>2, Zenon DEF AddsLink, LeaderAppends, NoNewLeader
      <3> QED
        BY <3>1, <3>2, Zenon
    <2>3. ASSUME NEW r \in Peers, NEW m \in msgs, TakesLinks(r, m)
          PROVE  Len(log'[p]) # 0 /\ log'[p][Len(log'[p])].term = currentTerm'[p]
      BY <1>3, <2>0, <2>3, Zenon DEF TakesLinks, FollowerTakes, NoNewLeader
    <2> QED
      BY <2>1, <2>2, <2>3, LinkMoves, Zenon
  <1>4. ASSUME NEW m \in msgs', m.type = "AppendEntries", NEW p \in Peers,
               role'[p] = "Leader", currentTerm'[p] = m.term
        PROVE  Piece(m, log'[p])
    <2>1. CASE m \notin msgs
      <3>1. /\ m.from \in Peers
            /\ role'[m.from] = "Leader"
            /\ currentTerm'[m.from] = m.term
            /\ Piece(m, log'[m.from])
        BY <1>s, <1>4, <2>1, Zenon DEF SentByLeader
      <3>2. m.from = p
        BY <1>4, <3>1, Zenon DEF GoodStep, RaftInv, ElectionInv, ElectionSafety
      <3> QED
        BY <3>1, <3>2
    <2>2. CASE m \in msgs
      <3>1. WasElected(m.from, m.term) /\ m.from \in Peers
        BY <1>4, <2>2, Zenon DEF GoodStep, RaftInv, ForwardInv, ElectionInv, ElectionTypes
      <3>2. role[p] = "Leader" /\ currentTerm[p] = m.term
        BY <1>4, <3>1, OwnMessages, Zenon
      <3>3. Piece(m, log[p])
        BY <1>4, <2>2, <3>2 DEF OrderInv
      <3>4. ASSUME NEW r \in Peers, LeaderAppends(r) PROVE Piece(m, log'[p])
        <4>1. PICK h : log' = [log EXCEPT ![r] =
                           Append(@, [term |-> currentTerm'[r], hash |-> h])]
          BY <3>4, Zenon DEF LeaderAppends
        <4>2. IsSeq(log[p]) /\ log = [q \in Peers |-> log[q]]
          BY DEF GoodStep, RaftInv, LogInv
        <4>3. log'[p] = log[p]
              \/ log'[p] = Append(log[p], [term |-> currentTerm'[r], hash |-> h])
          BY <4>1, <4>2, Zenon
        <4> QED
          BY <3>3, <4>2, <4>3, PieceStays, Zenon
      <3>5. ASSUME NEW r \in Peers, NEW n \in msgs, TakesLinks(r, n)
            PROVE  Piece(m, log'[p])
        BY <1>4, <3>3, <3>5, Zenon DEF TakesLinks, FollowerTakes
      <3> QED
        BY <3>3, <3>4, <3>5, LinkMoves, Zenon
    <2> QED
      BY <2>1, <2>2, Zenon
  <1>5. ASSUME NEW m \in msgs', m.type = "AppendEntries", NEW x \in MessageLinks(m)
        PROVE  x.term <= m.term
    <2>1. CASE m \in msgs
      BY <1>5, <2>1, Zenon DEF OrderInv
    <2>2. CASE m \notin msgs
      <3>1. /\ m.from \in Peers
            /\ currentTerm'[m.from] = m.term
            /\ Piece(m, log'[m.from])
        BY <1>s, <1>5, <2>2, Zenon DEF SentByLeader
      <3>2. x \in LogLinks(log'[m.from])
        BY <3>1, PieceLinks, Zenon
      <3> QED
        BY <1>2, <3>1, <3>2, Zenon
    <2> QED
      BY <2>1, <2>2, Zenon
  <1>6. Growing(Links)'
    BY <1>1, Zenon DEF Growing
  <1>7. \A p \in Peers : \A x \in LogLinks(log[p])' : x.term <= currentTerm'[p]
    BY <1>2 DEF LogLinks, Link, TermAt
  <1>8. \A p \in Peers : role'[p] = "Leader" => LastOwn(p)'
    BY <1>3, Zenon DEF LastOwn
  <1> QED
    BY <1>4, <1>5, <1>6, <1>7, <1>8, Zenon DEF OrderInv
----------------------------------------------------------------------------
(* Requests for votes and acknowledgements.                                *)

LEMMA CandidateKeepsLog ==
    ASSUME GoodStep, NEW c \in Peers, role'[c] = "Candidate"
    PROVE  log'[c] = log[c]
  BY LinkMoves, Zenon DEF LeaderAppends, AddsLink, TakesLinks, FollowerTakes

LEMMA LeaderLogGrows ==
    ASSUME GoodStep, NEW p \in Peers, role'[p] = "Leader"
    PROVE  Len(log[p]) <= Len(log'[p])
  <1>1. Len(log[p]) \in Nat
    BY StepFacts
  <1> QED
    <2>1. log'[p] = log[p] \/ Len(log'[p]) = Len(log[p]) + 1
      BY LinkMoves, Zenon DEF AddsLink, TakesLinks, FollowerTakes
    <2> QED
      BY <1>1, <2>1

LEMMA NextAsk ==
    ASSUME GoodStep, AskInv, CandidateVotes, NewAsks
    PROVE  AskInv'
  <1> SUFFICES ASSUME NEW m \in msgs', m.type = "RequestVote",
                      role'[m.from] = "Candidate", currentTerm'[m.from] = m.term
               PROVE  /\ m.lastLogIndex = Len(log'[m.from])
                      /\ m.lastLogTerm = LastLogTerm(log'[m.from])
    BY DEF AskInv, LastLogTerm
  <1>1. m.from \in Peers
    BY Zenon DEF GoodStep, RaftInv, ElectionInv, ElectionTypes
  <1>2. log'[m.from] = log[m.from]
    BY <1>1, CandidateKeepsLog
  <1>3. CASE m \notin msgs
    BY <1>2, <1>3 DEF NewAsks
  <1>4. CASE m \in msgs
    <2>1. m.term <= currentTerm[m.from]
      BY <1>4, Zenon DEF GoodStep, RaftInv, ElectionInv, MessageOK
    <2>2. currentTerm[m.from] \in Nat /\ currentTerm'[m.from] \in Nat
      BY <1>1, StepFacts
    <2>3. role[m.from] = "Candidate" /\ currentTerm[m.from] = m.term
      BY <1>1, <2>1, <2>2 DEF CandidateVotes
    <2> QED
      BY <1>2, <1>4, <2>3 DEF AskInv
  <1> QED
    BY <1>3, <1>4

\* An acknowledgement is of something a leader sent.
LEMMA AcksBound ==
    ASSUME GoodStep, OrderInv, AckInv, NewAcks, NEW m \in msgs', Ack(m)
    PROVE  /\ m.to \in Peers
           /\ m.term \in Nat
           /\ WasElected(m.to, m.term)
           /\ role[m.to] = "Leader" /\ currentTerm[m.to] = m.term =>
                 m.matchIndex <= Len(log[m.to])
  <1>1. m.to \in Peers /\ m.term \in Nat
    BY Zenon DEF GoodStep, RaftInv, ElectionInv, ElectionTypes
  <1>2. CASE m \in msgs
    BY <1>1, <1>2, Zenon DEF AckInv
  <1>3. CASE m \notin msgs
    <2>1. PICK r \in msgs : /\ FollowerTakes(m.from, r)
                            /\ r.from = m.to
                            /\ r.term = m.term
                            /\ m.matchIndex = r.prevLogIndex + Len(r.entries)
      BY <1>3, Zenon DEF NewAcks
    <2>2. r.type = "AppendEntries"
      BY <2>1, Zenon DEF FollowerTakes
    <2>3. WasElected(m.to, m.term)
      BY <2>1, <2>2 DEF GoodStep, RaftInv, ForwardInv
    <2>4. ASSUME role[m.to] = "Leader", currentTerm[m.to] = m.term
          PROVE  Piece(r, log[m.to])
      BY <1>1, <2>1, <2>2, <2>4, Zenon DEF OrderInv
    <2> QED
      BY <1>1, <2>1, <2>3, <2>4, Zenon DEF Piece
  <1> QED
    BY <1>2, <1>3, Zenon

LEMMA MatchBound ==
    ASSUME GoodStep, AckInv, MatchMoves, NEW p \in Peers, NEW q \in Peers,
           role'[p] = "Leader"
    PROVE  \/ matchIndexes'[p][q] = 0
           \/ q = p /\ matchIndexes'[p][q] = Len(log'[p])
           \/ role[p] = "Leader" /\ matchIndexes'[p][q] <= Len(log[p])
  <1>1. Len(log[p]) \in Nat
    BY StepFacts, Zenon
  <1>2. ASSUME role[p] = "Leader", Answers(p, q)
        PROVE  matchIndexes'[p][q] <= Len(log[p])
    <2>1. PICK m \in msgs :
              /\ m.type = "AppendEntriesResponse"
              /\ m.to = p
              /\ m.term = currentTerm[p]
              /\ IF m.success THEN matchIndexes'[p][q] = m.matchIndex
                 ELSE matchIndexes'[p][q] = MinOf(m.matchIndex, Len(log[p]))
      BY <1>2 DEF Answers
    <2>2. m.matchIndex \in Nat
      BY <2>1, Zenon DEF GoodStep, RaftInv, LogInv, LogMessageOK
    <2> QED
      BY <1>1, <1>2, <2>1, <2>2 DEF AckInv, Ack, MinOf
  <1> QED
    BY <1>2 DEF MatchMoves, AckInv

LEMMA NextAck ==
    ASSUME GoodStep, OrderInv, AckInv, NewAcks, MatchMoves
    PROVE  AckInv'
  <1>1. ASSUME NEW m \in msgs', Ack(m)
        PROVE  /\ WasElected(m.to, m.term)'
               /\ role'[m.to] = "Leader" /\ currentTerm'[m.to] = m.term =>
                     m.matchIndex <= Len(log'[m.to])
    <2>1. /\ m.to \in Peers
          /\ m.term \in Nat
          /\ WasElected(m.to, m.term)
          /\ role[m.to] = "Leader" /\ currentTerm[m.to] = m.term =>
                m.matchIndex <= Len(log[m.to])
      BY <1>1, AcksBound
    <2>2. PICK q \in Peers : q = m.to
      BY <2>1
    <2>3. PICK t \in Nat : t = m.term
      BY <2>1
    <2>4. WasElected(q, t)'
      BY <2>1, <2>2, <2>3, Zenon DEF GoodStep, ElectionsLast
    <2>5. ASSUME role'[q] = "Leader", currentTerm'[q] = t
          PROVE  m.matchIndex <= Len(log'[q])
      <3>1. role[q] = "Leader" /\ currentTerm[q] = t
        BY <2>1, <2>2, <2>3, <2>5, OwnMessages, Zenon
      <3>2. m.matchIndex <= Len(log[q])
        BY <2>1, <2>2, <2>3, <3>1, Zenon
      <3>3. m.matchIndex \in Nat
        BY <1>1 DEF GoodStep, RaftInv, LogInv, LogMessageOK, Ack
      <3> QED
        BY <2>5, <3>2, <3>3, LeaderLogGrows, StepFacts
    <2> QED
      BY <2>2, <2>3, <2>4, <2>5, Zenon
  <1>2. ASSUME NEW p \in Peers, NEW q \in Peers, role'[p] = "Leader"
        PROVE  matchIndexes'[p][q] <= Len(log'[p])
    <2>1. Len(log[p]) <= Len(log'[p]) /\ Len(log[p]) \in Nat /\ Len(log'[p]) \in Nat
      BY <1>2, LeaderLogGrows, StepFacts
    <2>2. matchIndexes'[p][q] \in Nat
      BY Zenon DEF GoodStep, RaftInv, LogInv
    <2> QED
      BY <1>2, <2>1, <2>2, MatchBound
  <1> QED
    BY <1>1, <1>2, Zenon DEF AckInv, Ack
----------------------------------------------------------------------------
(* What a follower takes.                                                  *)

\* A log keeps what the message does not contradict.
LEMMA TakesKeeps ==
    ASSUME NEW p, commitIndex[p] \in Nat, IsSeq(log[p]),
           commitIndex[p] <= Len(log[p]), NEW m, AppendOK(m), CanAppend(p, m),
           NEW x \in LogLinks(log[p]),
           \A y \in MessageLinks(m) : y.index <= x.index => y \in LogLinks(log[p])
    PROVE  x \in LogLinks(AppendedLog(log[p], m))
  <1> DEFINE prev == m.prevLogIndex
             new  == AppendedLog(log[p], m)
             len  == Len(m.entries)
  <1>1. Len(log[p]) \in Nat /\ len \in Nat /\ prev \in Nat
    BY SeqFacts, Zenon DEF AppendOK
  <1>2. PICK K \in prev .. Len(log[p]) : \E n \in Nat : Parts(new, log[p], m, K, n)
    BY AppendedParts, Zenon
  <1>3. PICK n \in Nat : Parts(new, log[p], m, K, n)
    BY <1>2, Zenon
  <1>4. /\ Len(new) = K + n
        /\ \A i \in 1 .. K : new[i] = log[p][i]
        /\ \/ K = Len(log[p])
           \/ \E i \in 1 .. len : /\ prev + i = K + 1
                                  /\ prev + i <= Len(log[p])
                                  /\ m.entries[i].term # log[p][prev + i].term
    BY <1>3, Zenon DEF Parts
  <1> HIDE DEF prev, new, len
  <1>5. PICK j \in 1 .. Len(log[p]) :
            x = Link(j, log[p][j].term, log[p][j].hash, TermAt(log[p], j - 1))
    BY LogLinkAt, Zenon
  <1>6. x.index = j
    BY <1>5, LinkFields
  <1>7. j <= K
    <2> SUFFICES ASSUME j > K PROVE FALSE
      BY <1>1
    <2>1. PICK i \in 1 .. len : /\ prev + i = K + 1
                                /\ prev + i <= Len(log[p])
                                /\ m.entries[i].term # log[p][prev + i].term
      BY <1>1, <1>4
    <2>2. PICK k \in Nat : k = prev + i
      BY <1>1
    <2> DEFINE y == Link(prev + i, m.entries[i].term, m.entries[i].hash, TermBefore(m, i))
    <2>3. y \in MessageLinks(m)
      BY Zenon DEF MessageLinks, prev, len
    <2>4. y.index = k /\ y.term = m.entries[i].term
      BY <2>2, LinkFields
    <2> HIDE DEF y
    <2>5. k <= j
      BY <1>1, <2>1, <2>2
    <2>6. y \in LogLinks(log[p])
      BY <1>6, <2>3, <2>4, <2>5, Zenon
    <2>7. log[p][k].term = y.term
      BY <2>4, <2>6, LinkPlace, Zenon
    <2> QED
      BY <2>1, <2>2, <2>4, <2>7, Zenon
  <1>8. j \in 1 .. K /\ j \in 1 .. Len(new) /\ (j - 1 = 0 \/ j - 1 \in 1 .. K)
    BY <1>1, <1>4, <1>7
  <1>9. new[j] = log[p][j] /\ TermAt(new, j - 1) = TermAt(log[p], j - 1)
    BY <1>4, <1>8 DEF TermAt
  <1>10. Link(j, new[j].term, new[j].hash, TermAt(new, j - 1)) \in LogLinks(new)
    BY <1>8, Zenon DEF LogLinks
  <1> QED
    BY <1>5, <1>9, <1>10, Zenon DEF new

\* A log that takes a message ends as the message does.
LEMMA TakenLast ==
    ASSUME NEW p, commitIndex[p] \in Nat, IsSeq(log[p]),
           commitIndex[p] <= Len(log[p]), NEW m, AppendOK(m), CanAppend(p, m)
    PROVE  LET new == AppendedLog(log[p], m)
               e   == m.prevLogIndex + Len(m.entries)
           IN  /\ e \in Nat
               /\ e <= Len(new)
               /\ TermAt(new, e) = EndTerm(m)
  <1> DEFINE prev == m.prevLogIndex
             new  == AppendedLog(log[p], m)
             len  == Len(m.entries)
  <1>1. /\ Len(log[p]) \in Nat
        /\ len \in Nat
        /\ prev \in Nat
        /\ TermAt(log[p], prev) = m.prevLogTerm
    BY SeqFacts DEF AppendOK, CanAppend, HasTermAt, TermAt
  <1>2. PICK K \in prev .. Len(log[p]) : \E n \in Nat : Parts(new, log[p], m, K, n)
    BY AppendedParts
  <1>3. PICK n \in Nat : Parts(new, log[p], m, K, n)
    BY <1>2, Zenon
  <1>4. /\ Len(new) = K + n
        /\ \A i \in 1 .. K : new[i] = log[p][i]
        /\ \A i \in 1 .. n : new[K + i].term = m.entries[K - prev + i].term
        /\ \A i \in 1 .. len : prev + i <= K =>
              m.entries[i].term = log[p][prev + i].term
        /\ prev + len <= K + n
    BY <1>3, Zenon DEF Parts
  <1>5. EndTerm(m) = IF len = 0 THEN m.prevLogTerm ELSE m.entries[len].term
    BY Zenon DEF EndTerm
  <1> HIDE DEF prev, new, len
  <1>6. prev + len \in Nat /\ prev + len <= Len(new)
    BY <1>1, <1>4
  <1>7. CASE len = 0
    <2>1. prev + len = prev /\ (prev = 0 \/ prev \in 1 .. K)
      BY <1>1, <1>7
    <2>2. TermAt(new, prev) = TermAt(log[p], prev)
      BY <1>4, <2>1, Zenon DEF TermAt
    <2> QED
      BY <1>1, <1>5, <1>6, <1>7, <2>1, <2>2, Zenon DEF prev, new, len
  <1>8. CASE len # 0 /\ prev + len <= K
    <2>1. len \in 1 .. len /\ prev + len \in 1 .. K
      BY <1>1, <1>8
    <2>2. new[prev + len] = log[p][prev + len] /\ m.entries[len].term = log[p][prev + len].term
      BY <1>4, <1>8, <2>1, Zenon
    <2>3. TermAt(new, prev + len) = m.entries[len].term
      BY <2>1, <2>2 DEF TermAt
    <2> QED
      BY <1>5, <1>6, <1>8, <2>3, Zenon DEF prev, new, len
  <1>9. CASE len # 0 /\ prev + len > K
    <2>1. PICK i \in 1 .. n : prev + len = K + i
      <3>1. prev + len - K \in 1 .. n /\ prev + len = K + (prev + len - K)
        BY <1>1, <1>4, <1>9
      <3> QED
        BY <3>1, Zenon
    <2>2. K - prev + i = len
      BY <1>1, <2>1
    <2>3. new[K + i].term = m.entries[len].term
      BY <1>4, <2>2, Zenon
    <2>4. TermAt(new, prev + len) = m.entries[len].term
      BY <1>1, <2>1, <2>3 DEF TermAt
    <2> QED
      BY <1>5, <1>6, <1>9, <2>4, Zenon DEF prev, new, len
  <1> QED
    BY <1>1, <1>7, <1>8, <1>9

\* So does the log it is a part of.
LEMMA PieceEnd ==
    ASSUME NEW lg, Len(lg) \in Nat, NEW m, Piece(m, lg)
    PROVE  LET e == m.prevLogIndex + Len(m.entries)
           IN  /\ e \in Nat
               /\ e <= Len(lg)
               /\ TermAt(lg, e) = EndTerm(m)
  <1> DEFINE prev == m.prevLogIndex
             len  == Len(m.entries)
  <1>1. /\ prev \in 0 .. Len(lg)
        /\ m.prevLogTerm = TermAt(lg, prev)
        /\ len \in Nat
        /\ prev + len <= Len(lg)
        /\ \A i \in 1 .. len : m.entries[i].term = lg[prev + i].term
    BY DEF Piece
  <1>2. EndTerm(m) = IF len = 0 THEN m.prevLogTerm ELSE m.entries[len].term
    BY DEF EndTerm
  <1> HIDE DEF prev, len
  <1>3. CASE len = 0
    BY <1>1, <1>2, <1>3 DEF prev, len
  <1>4. CASE len # 0
    <2>1. len \in 1 .. len /\ prev + len # 0 /\ prev + len \in Nat
      BY <1>1, <1>4
    <2>2. TermAt(lg, prev + len) = m.entries[len].term
      BY <1>1, <2>1, Zenon DEF TermAt
    <2> QED
      BY <1>1, <1>2, <1>4, <2>1, <2>2, Zenon DEF prev, len
  <1> QED
    BY <1>3, <1>4, Zenon

\* What p takes of m, for the peers of the model.
LEMMA TakenFacts ==
    ASSUME GoodStep, NEW p \in Peers, NEW m \in msgs, FollowerTakes(p, m)
    PROVE  LET e == m.prevLogIndex + Len(m.entries)
           IN  /\ LogLinks(log'[p]) \subseteq Links
               /\ e \in Nat
               /\ e <= Len(log'[p])
               /\ TermAt(log'[p], e) = EndTerm(m)
               /\ \A x \in LogLinks(log[p]) :
                     (\A y \in MessageLinks(m) :
                         y.index <= x.index => y \in LogLinks(log[p]))
                     => x \in LogLinks(log'[p])
  <1>1. /\ IsSeq(log[p])
        /\ commitIndex[p] \in Nat
        /\ commitIndex[p] <= Len(log[p])
        /\ AppendOK(m)
        /\ CanAppend(p, m)
        /\ log = [q \in Peers |-> log[q]]
    BY DEF GoodStep, RaftInv, LogInv, LogMessageOK, FollowerTakes
  <1>2. log'[p] = AppendedLog(log[p], m)
    BY <1>1 DEF FollowerTakes
  <1>3. LogLinks(log'[p]) \subseteq LogLinks(log[p]) \cup MessageLinks(m)
    BY <1>1, <1>2, AcceptedLinks, Zenon
  <1>4. LogLinks(log[p]) \subseteq Links /\ MessageLinks(m) \subseteq Links
    BY DEF Links, FollowerTakes
  <1>5. /\ m.prevLogIndex + Len(m.entries) \in Nat
        /\ m.prevLogIndex + Len(m.entries) <= Len(log'[p])
        /\ TermAt(log'[p], m.prevLogIndex + Len(m.entries)) = EndTerm(m)
    BY <1>1, <1>2, TakenLast, Zenon
  <1>6. ASSUME NEW x \in LogLinks(log[p]),
               \A y \in MessageLinks(m) : y.index <= x.index => y \in LogLinks(log[p])
        PROVE  x \in LogLinks(log'[p])
    BY <1>1, <1>2, <1>6, TakesKeeps, Zenon
  <1> QED
    BY <1>3, <1>4, <1>5, <1>6, Zenon
=============================================================================
