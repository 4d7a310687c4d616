-------------------------- MODULE SharedListPaths --------------------------
(***************************************************************************)
(* Lemmas about the shape of a SharedList: what the cells of a list point  *)
(* to is a path without a cycle, the sequence that Listing computes, and   *)
(* the stores of push, pop and remove_count insert into that sequence and  *)
(* remove from it.                                                         *)
(***************************************************************************)
EXTENDS SharedList, SequenceTheorems, FiniteSetTheorems, TLAPS

(* From cell c on, next leads through the nodes of s, each once, and then  *)
(* to Null.  The cell at p of a path is c itself or the cell of node p.    *)
Cell(c, s, p) == IF p = 0 THEN c ELSE s[p]
Succ(s, p) == IF p < Len(s) THEN s[p + 1] ELSE Null
Path(next, c, s) ==
  /\ s \in Seq(Items)
  /\ \A p \in 0 .. Len(s) : next[Cell(c, s, p)] = Succ(s, p)
  /\ c \notin ToSet(s)
  /\ \A p, q \in 1 .. Len(s) : s[p] = s[q] => p = q
-----------------------------------------------------------------------------
(* Induction over a set of numbers: the provers know none over a formula.  *)
LEMMA SetInduction ==
  ASSUME NEW S, 0 \in S, \A n \in Nat : n \in S => n + 1 \in S
  PROVE  Nat \subseteq S
<1> SUFFICES ASSUME Nat \ S # {} PROVE FALSE
  OBVIOUS
<1> DEFINE R == {ss \in Nat \X Nat : ss[1] < ss[2]}
           T == Nat \ S
<1>1. IsWellFoundedOn(R, Nat)
  BY NatLessThanWellFounded DEF OpToRel
<1>2. T \subseteq Nat /\ T # {}
  OBVIOUS
<1>3. PICK x \in T : \A y \in T : <<y, x>> \notin R
  <2> HIDE DEF R, T
  <2> QED
    BY <1>1, <1>2, WFMin
<1>4. x # 0
  OBVIOUS
<1>5. x - 1 \in Nat /\ x - 1 \notin S
  BY <1>4
<1>6. <<x - 1, x>> \in R
  BY <1>5
<1> HIDE DEF R
<1> QED
  BY <1>3, <1>5, <1>6

(* A path has no more nodes than there are items.                          *)
LEMMA PathLength ==
  ASSUME NEW next, NEW c, NEW s, Path(next, c, s)
  PROVE  Len(s) \in Nat /\ Len(s) <= Cardinality(Items) /\ Cardinality(Items) \in Nat
<1>1. /\ Len(s) \in Nat /\ s \in [1 .. Len(s) -> Items]
      /\ \A p, q \in 1 .. Len(s) : s[p] = s[q] => p = q
  BY LenProperties DEF Path
<1>2. s \in Injection(1 .. Len(s), Items)
  BY <1>1 DEF Injection, IsInjective
<1>3. Cardinality(1 .. Len(s)) = Len(s)
  BY <1>1, FS_Interval
<1> QED
  BY ListAssumption, <1>1, <1>2, <1>3, FS_Injection, FS_CardinalityType

(* Longer goes along a path, and stays at its end.                         *)
LEMMA PathPrefix ==
  ASSUME NEW next, NEW s, Path(next, head, s), NEW n \in 0 .. Len(s)
  PROVE  /\ n < Len(s) => Longer(next, SubSeq(s, 1, n)) = SubSeq(s, 1, n + 1)
         /\ n = Len(s) => Longer(next, SubSeq(s, 1, n)) = SubSeq(s, 1, n)
<1> DEFINE r == SubSeq(s, 1, n)
<1>1. /\ s \in Seq(Items) /\ Len(s) \in Nat /\ \A i \in 1 .. Len(s) : s[i] \in Items
      /\ next[Cell(head, s, n)] = Succ(s, n)
  BY LenProperties DEF Path
<1>2. /\ r \in Seq(Items) /\ Len(r) = n /\ \A i \in 1 .. n : r[i] = s[i]
      /\ r = <<>> <=> n = 0
  BY <1>1, SubSeqProperties, EmptySeq
<1>. Len(s) \in Nat /\ n \in Nat
  BY <1>1
<1>3. Longer(next, r) = IF Succ(s, n) = Null THEN r ELSE Append(r, Succ(s, n))
  <2> HIDE DEF r
  <2>1. (IF r = <<>> THEN head ELSE r[Len(r)]) = Cell(head, s, n)
    BY <1>2 DEF Cell
  <2> QED
    BY <1>1, <2>1 DEF Longer
<1>4. CASE n < Len(s)
  <2>1. Longer(next, r) = Append(r, s[n + 1])
    <3>1. Succ(s, n) = s[n + 1] /\ s[n + 1] # Null
      BY <1>1, <1>4, ListAssumption DEF Succ
    <3> QED
      BY <1>3, <3>1
  <2>2. SubSeq(s, 1, n + 1) = r \o <<s[n + 1]>>
    <3>1. SubSeq(s, 1, n + 1) = SubSeq(s, 1, (n + 1) - 1) \o <<s[n + 1]>>
      BY <1>1, <1>4, SubSeqRecursiveSecond
    <3> QED
      BY <3>1
  <2>3. Append(r, s[n + 1]) = r \o <<s[n + 1]>>
    BY <1>1, <1>2, <1>4, AppendIsConcat
  <2> QED
    BY <1>4, <2>1, <2>2, <2>3
<1>5. CASE n = Len(s)
  <2>1. Succ(s, n) = Null
    BY <1>5 DEF Succ
  <2> QED
    BY <1>3, <1>5, <2>1
<1> QED
  BY <1>1, <1>4, <1>5

(* The items listed are those of the path from head.                       *)
LEMMA PathListed ==
  ASSUME NEW next, NEW s, Path(next, head, s)
  PROVE  ListOf(next) = s
<1> DEFINE IsChain(f) == f = [n \in Nat |-> IF n = 0 THEN <<>> ELSE Longer(next, f[n - 1])]
           g == [n \in Nat |-> IF n <= Len(s) THEN SubSeq(s, 1, n) ELSE s]
           f == CHOOSE h : IsChain(h)
<1>1. /\ Len(s) \in Nat /\ s \in Seq(Items)
      /\ Len(s) <= Cardinality(Items) /\ Cardinality(Items) \in Nat
  BY PathLength DEF Path
<1>2. /\ \A n \in Nat : n <= Len(s) => g[n] = SubSeq(s, 1, n)
      /\ \A n \in Nat : n >= Len(s) => g[n] = s
      /\ DOMAIN g = Nat
  BY <1>1, SubSeqFull
<1>3. g[0] = <<>>
  BY <1>1, <1>2, SubSeqEmpty
<1> HIDE DEF g
<1>4. \A n \in Nat : g[n + 1] = Longer(next, g[n])
  <2> TAKE n \in Nat
  <2>1. CASE n < Len(s)
    <3>1. Longer(next, SubSeq(s, 1, n)) = SubSeq(s, 1, n + 1)
      BY <1>1, <2>1, PathPrefix
    <3>2. g[n] = SubSeq(s, 1, n) /\ g[n + 1] = SubSeq(s, 1, n + 1)
      BY <1>1, <1>2, <2>1
    <3> QED
      BY <3>1, <3>2
  <2>2. CASE n >= Len(s)
    <3>1. Longer(next, SubSeq(s, 1, Len(s))) = SubSeq(s, 1, Len(s))
      BY <1>1, PathPrefix
    <3>2. SubSeq(s, 1, Len(s)) = s /\ g[n] = s /\ g[n + 1] = s
      BY <1>1, <1>2, <2>2, SubSeqFull
    <3> QED
      BY <3>1, <3>2
  <2> QED
    BY <1>1, <2>1, <2>2
<1>5. g = [n \in Nat |-> IF n = 0 THEN <<>> ELSE Longer(next, g[n - 1])]
  <2>1. \A n \in Nat : g[n] = IF n = 0 THEN <<>> ELSE Longer(next, g[n - 1])
    <3> TAKE n \in Nat
    <3>1. CASE n = 0
      BY <1>3, <3>1
    <3>2. CASE n # 0
      <4>1. n - 1 \in Nat /\ (n - 1) + 1 = n
        BY <3>2
      <4> QED
        BY <1>4, <3>2, <4>1
    <3> QED
      BY <3>1, <3>2
  <2>2. g = [n \in Nat |-> g[n]]
    BY DEF g
  <2> QED
    BY <2>1, <2>2
<1>6. IsChain(f)
  <2>1. IsChain(g)
    BY <1>5
  <2> HIDE DEF IsChain, g
  <2> QED
    BY <2>1
<1>7. f[0] = <<>> /\ \A n \in Nat : f[n + 1] = Longer(next, f[n])
  <2> HIDE DEF f
  <2>1. f[0] = <<>>
    BY <1>6
  <2>2. ASSUME NEW n \in Nat PROVE f[n + 1] = Longer(next, f[n])
    BY <1>6
  <2> QED
    BY <2>1, <2>2
<1>8. \A n \in Nat : f[n] = g[n]
  <2> DEFINE S == {n \in Nat : f[n] = g[n]}
  <2> HIDE DEF f, g
  <2>1. 0 \in S
    BY <1>3, <1>7
  <2>2. \A n \in Nat : n \in S => n + 1 \in S
    BY <1>4, <1>7
  <2>3. Nat \subseteq S
    <3> HIDE DEF S
    <3> QED
      BY <2>1, <2>2, SetInduction
  <2> QED
    BY <2>3
<1>9. ListOf(next) = f[Cardinality(Items)]
  BY DEF ListOf
<1>10. g[Cardinality(Items)] = s
  BY <1>1, <1>2
<1> HIDE DEF f
<1> QED
  BY <1>1, <1>8, <1>9, <1>10

(* What SubSeq up to the end returns.                                      *)
LEMMA SuffixEntries ==
  ASSUME NEW S, NEW s \in Seq(S), NEW m \in 1 .. Len(s) + 1
  PROVE  /\ SubSeq(s, m, Len(s)) \in Seq(S)
         /\ Len(SubSeq(s, m, Len(s))) = (Len(s) - m) + 1
         /\ \A k \in 1 .. (Len(s) - m) + 1 : SubSeq(s, m, Len(s))[k] = s[(m + k) - 1]
<1>1. Len(s) \in Nat /\ m \in Nat /\ m <= Len(s) + 1 /\ \A k \in m .. Len(s) : s[k] \in S
  BY LenProperties
<1>2. /\ SubSeq(s, m, Len(s)) \in Seq(S)
      /\ Len(SubSeq(s, m, Len(s))) = IF m <= Len(s) THEN Len(s) - m + 1 ELSE 0
      /\ \A k \in 1 .. Len(s) - m + 1 : SubSeq(s, m, Len(s))[k] = s[m + k - 1]
  BY <1>1, SubSeqProperties
<1> QED
  BY <1>1, <1>2

(* What concatenation returns.                                             *)
LEMMA JoinEntries ==
  ASSUME NEW S, NEW a \in Seq(S), NEW b \in Seq(S)
  PROVE  /\ a \o b \in Seq(S)
         /\ Len(a \o b) = Len(a) + Len(b)
         /\ \A k \in 1 .. Len(a) : (a \o b)[k] = a[k]
         /\ \A k \in 1 .. Len(b) : (a \o b)[Len(a) + k] = b[k]
<1>. Len(a) \in Nat /\ Len(b) \in Nat
  BY LenProperties
<1>1. /\ a \o b \in Seq(S)
      /\ Len(a \o b) = Len(a) + Len(b)
      /\ \A k \in 1 .. Len(a) + Len(b) :
           (a \o b)[k] = IF k <= Len(a) THEN a[k] ELSE b[k - Len(a)]
  BY ConcatProperties
<1>2. ASSUME NEW k \in 1 .. Len(a) PROVE (a \o b)[k] = a[k]
  BY <1>1
<1>3. ASSUME NEW k \in 1 .. Len(b) PROVE (a \o b)[Len(a) + k] = b[k]
  <2>1. /\ Len(a) + k \in 1 .. Len(a) + Len(b)
        /\ ~(Len(a) + k <= Len(a)) /\ (Len(a) + k) - Len(a) = k
    OBVIOUS
  <2> QED
    BY <1>1, <2>1
<1> QED
  BY <1>1, <1>2, <1>3

(* What InsertAt returns.                                                  *)
LEMMA InsertAtEntries ==
  ASSUME NEW S, NEW s \in Seq(S), NEW q \in 1 .. Len(s) + 1, NEW i \in S
  PROVE  /\ InsertAt(s, q, i) \in Seq(S)
         /\ Len(InsertAt(s, q, i)) = Len(s) + 1
         /\ \A k \in 1 .. q - 1 : InsertAt(s, q, i)[k] = s[k]
         /\ InsertAt(s, q, i)[q] = i
         /\ \A k \in q + 1 .. Len(s) + 1 : InsertAt(s, q, i)[k] = s[k - 1]
<1>. PICK p \in 0 .. Len(s) : q = p + 1 /\ q - 1 = p
  <2>1. Len(s) \in Nat
    BY LenProperties
  <2> QED
    BY <2>1
<1> DEFINE before == SubSeq(s, 1, p)
           after == SubSeq(s, p + 1, Len(s))
           first == before \o <<i>>
           r == first \o after
           n == Len(s) - p
<1>1. /\ Len(s) \in Nat /\ p \in Nat /\ p <= Len(s) /\ n \in Nat
      /\ \A k \in 1 .. Len(s) : s[k] \in S
  BY LenProperties
<1>2. /\ before \in Seq(S) /\ Len(before) = p
      /\ \A k \in 1 .. p : before[k] = s[k]
  <2>1. \A k \in 1 .. p : s[k] \in S /\ 1 + k - 1 = k
    BY <1>1
  <2> QED
    BY <1>1, <2>1, SubSeqProperties
<1>3. after \in Seq(S) /\ Len(after) = n /\ \A k \in 1 .. n : after[k] = s[p + k]
  <2>1. (Len(s) - (p + 1)) + 1 = n /\ \A k \in 1 .. n : ((p + 1) + k) - 1 = p + k
    BY <1>1
  <2> HIDE DEF n
  <2> QED
    BY <1>1, <2>1, SuffixEntries
<1>4. InsertAt(s, q, i) = r
  BY DEF InsertAt
<1>5. <<i>> \in Seq(S) /\ Len(<<i>>) = 1 /\ <<i>>[1] = i
  OBVIOUS
<1> HIDE DEF before, after
<1>6. /\ first \in Seq(S) /\ Len(first) = p + 1
      /\ \A k \in 1 .. p : first[k] = before[k]
      /\ \A k \in 1 .. 1 : first[p + k] = <<i>>[k]
  <2>0. before \in Seq(S) /\ <<i>> \in Seq(S)
    BY <1>2, <1>5
  <2>1. /\ first \in Seq(S) /\ Len(first) = Len(before) + Len(<<i>>)
        /\ \A k \in 1 .. Len(before) : first[k] = before[k]
        /\ \A k \in 1 .. Len(<<i>>) : first[Len(before) + k] = <<i>>[k]
    BY <2>0, JoinEntries
  <2> HIDE DEF first
  <2> QED
    BY <2>1, <1>2, <1>5
<1> HIDE DEF first
<1>7. (\A k \in 1 .. p : first[k] = s[k]) /\ first[p + 1] = i
  BY <1>2, <1>5, <1>6
<1>8. /\ r \in Seq(S) /\ Len(r) = (p + 1) + n
      /\ \A k \in 1 .. p + 1 : r[k] = first[k]
      /\ \A k \in 1 .. n : r[(p + 1) + k] = after[k]
  <2>0. first \in Seq(S) /\ after \in Seq(S)
    BY <1>3, <1>6
  <2>1. /\ r \in Seq(S) /\ Len(r) = Len(first) + Len(after)
        /\ \A k \in 1 .. Len(first) : r[k] = first[k]
        /\ \A k \in 1 .. Len(after) : r[Len(first) + k] = after[k]
    BY <2>0, JoinEntries
  <2> HIDE DEF n
  <2> QED
    BY <2>1, <1>3, <1>6
<1> HIDE DEF r
<1>9. ASSUME NEW k \in p + 2 .. Len(s) + 1 PROVE r[k] = s[k - 1]
  <2>1. /\ (p + 1) + (k - (p + 1)) = k /\ k - (p + 1) \in 1 .. n
        /\ p + (k - (p + 1)) = k - 1
    BY <1>1
  <2> HIDE DEF n
  <2> QED
    BY <1>3, <1>8, <2>1
<1>10. Len(r) = Len(s) + 1
  BY <1>1, <1>8
<1>11. (\A k \in 1 .. p : r[k] = s[k]) /\ r[p + 1] = i
  BY <1>1, <1>7, <1>8
<1> QED
  BY <1>4, <1>8, <1>9, <1>10, <1>11

(* What RemoveAt returns.                                                  *)
LEMMA RemoveAtEntries ==
  ASSUME NEW S, NEW s \in Seq(S), NEW p \in 0 .. Len(s) - 1
  PROVE  /\ RemoveAt(s, p + 1) \in Seq(S)
         /\ Len(RemoveAt(s, p + 1)) = Len(s) - 1
         /\ \A k \in 1 .. p : RemoveAt(s, p + 1)[k] = s[k]
         /\ \A k \in p + 1 .. Len(s) - 1 : RemoveAt(s, p + 1)[k] = s[k + 1]
<1> DEFINE before == SubSeq(s, 1, p)
           after == SubSeq(s, p + 2, Len(s))
           r == before \o after
           n == (Len(s) - p) - 1
<1>1. /\ Len(s) \in Nat /\ p \in Nat /\ p < Len(s) /\ n \in Nat
      /\ \A k \in 1 .. Len(s) : s[k] \in S
  BY LenProperties
<1>2. /\ before \in Seq(S) /\ Len(before) = p
      /\ \A k \in 1 .. p : before[k] = s[k]
  <2>1. \A k \in 1 .. p : s[k] \in S /\ 1 + k - 1 = k
    BY <1>1
  <2> QED
    BY <1>1, <2>1, SubSeqProperties
<1>3. after \in Seq(S) /\ Len(after) = n /\ \A k \in 1 .. n : after[k] = s[p + k + 1]
  <2>1. /\ (Len(s) - (p + 2)) + 1 = n
        /\ \A k \in 1 .. n : ((p + 2) + k) - 1 = p + k + 1
        /\ p + 2 \in 1 .. Len(s) + 1
    BY <1>1
  <2> HIDE DEF n
  <2> QED
    BY <1>1, <2>1, SuffixEntries
<1>4. RemoveAt(s, p + 1) = r
  <2>1. (p + 1) - 1 = p /\ (p + 1) + 1 = p + 2
    BY <1>1
  <2>2. RemoveAt(s, p + 1) = SubSeq(s, 1, (p + 1) - 1) \o SubSeq(s, (p + 1) + 1, Len(s))
    BY DEF RemoveAt
  <2> QED
    BY <2>1, <2>2
<1> HIDE DEF before, after
<1>5. /\ r \in Seq(S) /\ Len(r) = p + n
      /\ \A k \in 1 .. p : r[k] = before[k]
      /\ \A k \in 1 .. n : r[p + k] = after[k]
  <2>0. before \in Seq(S) /\ after \in Seq(S)
    BY <1>2, <1>3
  <2>1. /\ r \in Seq(S) /\ Len(r) = Len(before) + Len(after)
        /\ \A k \in 1 .. Len(before) : r[k] = before[k]
        /\ \A k \in 1 .. Len(after) : r[Len(before) + k] = after[k]
    BY <2>0, JoinEntries
  <2> HIDE DEF n
  <2> QED
    BY <2>1, <1>2, <1>3
<1> HIDE DEF r
<1>6. ASSUME NEW k \in p + 1 .. Len(s) - 1 PROVE r[k] = s[k + 1]
  <2>1. p + (k - p) = k /\ k - p \in 1 .. n /\ p + (k - p) + 1 = k + 1
    BY <1>1
  <2> HIDE DEF n
  <2> QED
    BY <1>3, <1>5, <2>1
<1>7. Len(r) = Len(s) - 1
  BY <1>1, <1>5
<1>8. \A k \in 1 .. p : r[k] = s[k]
  BY <1>2, <1>5
<1> QED
  BY <1>4, <1>5, <1>6, <1>7, <1>8

(* The length and the entries of a sequence that something is inserted     *)
(* into.                                                                   *)
LEMMA InsertLength ==
  ASSUME NEW S, NEW s \in Seq(S), NEW q \in 1 .. Len(s) + 1, NEW i \in S
  PROVE  Len(InsertAt(s, q, i)) = Len(s) + 1
BY InsertAtEntries

LEMMA InsertSet ==
  ASSUME NEW S, NEW s \in Seq(S), NEW q \in 1 .. Len(s) + 1, NEW i \in S
  PROVE  ToSet(InsertAt(s, q, i)) = ToSet(s) \cup {i}
<1> DEFINE r == InsertAt(s, q, i)
<1>1. Len(s) \in Nat /\ q \in Nat /\ DOMAIN s = 1 .. Len(s)
  BY LenProperties
<1>2. /\ r \in Seq(S) /\ Len(r) = Len(s) + 1
      /\ \A k \in 1 .. q - 1 : r[k] = s[k]
      /\ r[q] = i
      /\ \A k \in q + 1 .. Len(s) + 1 : r[k] = s[k - 1]
  <2>1. s \in Seq(S) /\ q \in 1 .. Len(s) + 1 /\ i \in S
    OBVIOUS
  <2>2. /\ InsertAt(s, q, i) \in Seq(S) /\ Len(InsertAt(s, q, i)) = Len(s) + 1
        /\ \A k \in 1 .. q - 1 : InsertAt(s, q, i)[k] = s[k]
        /\ InsertAt(s, q, i)[q] = i
        /\ \A k \in q + 1 .. Len(s) + 1 : InsertAt(s, q, i)[k] = s[k - 1]
    BY <2>1, InsertAtEntries
  <2> QED
    BY <2>2
<1> HIDE DEF r
<1>3. DOMAIN r = 1 .. Len(s) + 1
  BY <1>2, LenProperties
<1>4. ASSUME NEW k \in 1 .. Len(s) + 1 PROVE r[k] \in ToSet(s) \cup {i}
  <2>1. CASE k < q
    BY <1>1, <1>2, <2>1 DEF ToSet
  <2>2. CASE k = q
    BY <1>2, <2>2
  <2>3. CASE k > q
    <3>1. k \in q + 1 .. Len(s) + 1 /\ k - 1 \in 1 .. Len(s)
      BY <1>1, <2>3
    <3> QED
      BY <1>1, <1>2, <3>1 DEF ToSet
  <2> QED
    BY <1>1, <2>1, <2>2, <2>3
<1>5. ASSUME NEW k \in 1 .. Len(s) PROVE s[k] \in ToSet(r)
  <2>1. CASE k < q
    <3>1. k \in 1 .. q - 1 /\ k \in 1 .. Len(s) + 1
      BY <1>1, <2>1
    <3> QED
      BY <1>2, <1>3, <3>1 DEF ToSet
  <2>2. CASE k >= q
    <3>1. k + 1 \in q + 1 .. Len(s) + 1 /\ (k + 1) - 1 = k /\ k + 1 \in 1 .. Len(s) + 1
      BY <1>1, <2>2
    <3> QED
      BY <1>2, <1>3, <3>1 DEF ToSet
  <2> QED
    BY <1>1, <2>1, <2>2
<1>6. i \in ToSet(r)
  BY <1>1, <1>2, <1>3 DEF ToSet
<1>7. ToSet(r) = {r[k] : k \in 1 .. Len(s) + 1} /\ ToSet(s) = {s[k] : k \in 1 .. Len(s)}
  BY <1>1, <1>3 DEF ToSet
<1>8. ToSet(r) = ToSet(s) \cup {i}
  BY <1>4, <1>5, <1>6, <1>7
<1> QED
  BY <1>8 DEF r

(* ... and of one that something is removed from.                          *)
LEMMA RemoveSet ==
  ASSUME NEW S, NEW s \in Seq(S), NEW p \in 0 .. Len(s) - 1,
         \A j, k \in 1 .. Len(s) : s[j] = s[k] => j = k
  PROVE  ToSet(RemoveAt(s, p + 1)) = ToSet(s) \ {s[p + 1]}
<1> DEFINE r == RemoveAt(s, p + 1)
<1>1. /\ Len(s) \in Nat /\ p \in Nat /\ p < Len(s)
      /\ DOMAIN s = 1 .. Len(s) /\ p + 1 \in 1 .. Len(s)
  BY LenProperties
<1>2. /\ r \in Seq(S) /\ Len(r) = Len(s) - 1
      /\ \A k \in 1 .. p : r[k] = s[k]
      /\ \A k \in p + 1 .. Len(s) - 1 : r[k] = s[k + 1]
  BY RemoveAtEntries
<1> HIDE DEF r
<1>3. DOMAIN r = 1 .. Len(s) - 1
  BY <1>2, LenProperties
<1>4. ASSUME NEW k \in 1 .. Len(s) - 1 PROVE r[k] \in ToSet(s) /\ r[k] # s[p + 1]
  <2>1. CASE k <= p
    <3>1. k \in 1 .. p /\ k \in 1 .. Len(s) /\ k # p + 1
      BY <1>1, <2>1
    <3> QED
      BY <1>1, <1>2, <3>1 DEF ToSet
  <2>2. CASE k > p
    <3>1. k \in p + 1 .. Len(s) - 1 /\ k + 1 \in 1 .. Len(s) /\ k + 1 # p + 1
      BY <1>1, <2>2
    <3> QED
      BY <1>1, <1>2, <3>1 DEF ToSet
  <2> QED
    BY <1>1, <2>1, <2>2
<1>5. ASSUME NEW k \in 1 .. Len(s), k # p + 1 PROVE s[k] \in ToSet(r)
  <2>1. CASE k <= p
    <3>1. k \in 1 .. p /\ k \in 1 .. Len(s) - 1
      BY <1>1, <2>1
    <3> QED
      BY <1>2, <1>3, <3>1 DEF ToSet
  <2>2. CASE k > p
    <3>1. k - 1 \in p + 1 .. Len(s) - 1 /\ (k - 1) + 1 = k /\ k - 1 \in 1 .. Len(s) - 1
      BY <1>1, <1>5, <2>2
    <3>2. r[k - 1] = s[(k - 1) + 1]
      BY <1>2, <3>1
    <3> QED
      BY <1>3, <3>1, <3>2 DEF ToSet
  <2> QED
    BY <1>1, <2>1, <2>2
<1>6. ToSet(r) = {r[k] : k \in 1 .. Len(s) - 1} /\ ToSet(s) = {s[k] : k \in 1 .. Len(s)}
  BY <1>1, <1>3 DEF ToSet
<1>7. ToSet(r) = ToSet(s) \ {s[p + 1]}
  <2>1. ASSUME NEW x \in ToSet(r) PROVE x \in ToSet(s) \ {s[p + 1]}
    BY <1>4, <1>6
  <2>2. ASSUME NEW x \in ToSet(s), x # s[p + 1] PROVE x \in ToSet(r)
    <3>1. PICK k \in 1 .. Len(s) : x = s[k]
      BY <1>6
    <3> QED
      BY <1>5, <2>2, <3>1
  <2> QED
    BY <2>1, <2>2
<1> QED
  BY <1>7 DEF r

(* A path, cell by cell.                                                   *)
LEMMA PathFacts ==
  ASSUME NEW next, NEW c, NEW s, Path(next, c, s)
  PROVE  /\ s \in Seq(Items) /\ Len(s) \in Nat /\ DOMAIN s = 1 .. Len(s)
         /\ \A k \in 1 .. Len(s) : s[k] \in Items /\ s[k] # c
         /\ \A i : i \in ToSet(s) <=> \E k \in 1 .. Len(s) : s[k] = i
         /\ next[c] = IF Len(s) > 0 THEN s[1] ELSE Null
         /\ \A k \in 1 .. Len(s) : next[s[k]] = IF k < Len(s) THEN s[k + 1] ELSE Null
         /\ \A p, q \in 1 .. Len(s) : s[p] = s[q] => p = q
<1>1. /\ s \in Seq(Items) /\ Len(s) \in Nat /\ DOMAIN s = 1 .. Len(s)
      /\ \A k \in 1 .. Len(s) : s[k] \in Items
  BY LenProperties DEF Path
<1>2. \A i : i \in ToSet(s) <=> \E k \in 1 .. Len(s) : s[k] = i
  BY <1>1 DEF ToSet
<1>3. next[Cell(c, s, 0)] = Succ(s, 0)
  BY <1>1 DEF Path
<1>4. ASSUME NEW k \in 1 .. Len(s)
      PROVE  next[s[k]] = IF k < Len(s) THEN s[k + 1] ELSE Null
  <2>1. next[Cell(c, s, k)] = Succ(s, k)
    BY <1>1 DEF Path
  <2> QED
    BY <1>1, <2>1 DEF Cell, Succ
<1> QED
  BY <1>1, <1>2, <1>3, <1>4 DEF Path, Cell, Succ

(* ... and what makes one.                                                 *)
LEMMA PathIf ==
  ASSUME NEW next, NEW c, NEW s \in Seq(Items),
         \A k \in 1 .. Len(s) : s[k] # c,
         next[c] = IF Len(s) > 0 THEN s[1] ELSE Null,
         \A k \in 1 .. Len(s) : next[s[k]] = IF k < Len(s) THEN s[k + 1] ELSE Null,
         \A p, q \in 1 .. Len(s) : s[p] = s[q] => p = q
  PROVE  Path(next, c, s)
<1>1. Len(s) \in Nat /\ DOMAIN s = 1 .. Len(s)
  BY LenProperties
<1>2. c \notin ToSet(s)
  BY <1>1 DEF ToSet
<1>3. ASSUME NEW p \in 0 .. Len(s) PROVE next[Cell(c, s, p)] = Succ(s, p)
  <2>1. CASE p = 0
    BY <1>1, <2>1 DEF Cell, Succ
  <2>2. CASE p # 0
    BY <1>1, <2>2 DEF Cell, Succ
  <2> QED
    BY <2>1, <2>2
<1> QED
  BY <1>2, <1>3 DEF Path

(* A path does not depend on the other cells.                              *)
LEMMA PathElsewhere ==
  ASSUME NEW next, NEW g, NEW c, NEW s, Path(next, c, s),
         g[c] = next[c], \A i \in ToSet(s) : g[i] = next[i]
  PROVE  Path(g, c, s)
<1>1. ASSUME NEW k \in 1 .. Len(s) PROVE g[s[k]] = next[s[k]]
  BY PathFacts
<1> QED
  BY <1>1, PathFacts, PathIf

(* The cells of a path are numbered from 0 on, and each of its nodes is    *)
(* pointed to by one of them.                                              *)
LEMMA PathCells ==
  ASSUME NEW next, NEW c \in Cells, NEW s, Path(next, c, s)
  PROVE  /\ \A d : d = c \/ d \in ToSet(s) <=> \E p \in 0 .. Len(s) : d = Cell(c, s, p)
         /\ \A p \in 0 .. Len(s) : Cell(c, s, p) \in Cells
         /\ \A p \in 0 .. Len(s) :
              next[Cell(c, s, p)] = IF p < Len(s) THEN s[p + 1] ELSE Null
         /\ \A p \in 0 .. Len(s) : next[Cell(c, s, p)] # Null <=> p < Len(s)
         /\ \A i \in ToSet(s) : \E d \in Cells : next[d] = i
<1>1. /\ Len(s) \in Nat
      /\ \A k \in 1 .. Len(s) : s[k] \in Items
      /\ \A i : i \in ToSet(s) <=> \E k \in 1 .. Len(s) : s[k] = i
  BY PathFacts
<1>2. ASSUME NEW p \in 0 .. Len(s)
      PROVE  /\ Cell(c, s, p) = IF p = 0 THEN c ELSE s[p]
             /\ Cell(c, s, p) \in Cells
             /\ next[Cell(c, s, p)] = IF p < Len(s) THEN s[p + 1] ELSE Null
             /\ p < Len(s) => s[p + 1] \in Items /\ s[p + 1] # Null
  BY <1>1, ListAssumption DEF Cell, Cells, Path, Succ
<1>3. ASSUME NEW d
      PROVE  d = c \/ d \in ToSet(s) <=> \E p \in 0 .. Len(s) : d = Cell(c, s, p)
  <2>1. ASSUME NEW p \in 0 .. Len(s), d = Cell(c, s, p) PROVE d = c \/ d \in ToSet(s)
    BY <1>1, <1>2, <2>1
  <2>2. d = c => d = Cell(c, s, 0) /\ 0 \in 0 .. Len(s)
    BY <1>1 DEF Cell
  <2>3. ASSUME d \in ToSet(s) PROVE \E p \in 0 .. Len(s) : d = Cell(c, s, p)
    <3>1. PICK k \in 1 .. Len(s) : s[k] = d
      BY <1>1, <2>3
    <3>2. k \in 0 .. Len(s) /\ k # 0
      BY <1>1
    <3> QED
      BY <1>2, <3>1, <3>2
  <2> QED
    BY <2>1, <2>2, <2>3
<1>4. ASSUME NEW i \in ToSet(s) PROVE \E d \in Cells : next[d] = i
  <2>1. PICK k \in 1 .. Len(s) : s[k] = i
    BY <1>1
  <2>2. k - 1 \in 0 .. Len(s) /\ k - 1 < Len(s) /\ (k - 1) + 1 = k
    BY <1>1
  <2>3. next[Cell(c, s, k - 1)] = s[(k - 1) + 1] /\ Cell(c, s, k - 1) \in Cells
    BY <1>2, <2>2
  <2> QED
    BY <2>1, <2>2, <2>3
<1> QED
  BY <1>2, <1>3, <1>4

(* The path from the next cell on: the step of a traversal.                *)
LEMMA PathRest ==
  ASSUME NEW next, NEW c, NEW s, Path(next, c, s), next[c] # Null
  PROVE  /\ s # <<>> /\ Head(s) = next[c] /\ next[c] \in Items
         /\ Path(next, next[c], Tail(s))
         /\ ToSet(s) = {next[c]} \cup ToSet(Tail(s))
<1> DEFINE r == Tail(s)
<1>1. /\ s \in Seq(Items) /\ Len(s) \in Nat /\ Len(s) > 0 /\ next[c] = s[1] /\ s[1] \in Items
      /\ s # <<>> /\ Head(s) = s[1]
      /\ \A k, q \in 1 .. Len(s) : s[k] = s[q] => k = q
  BY PathFacts, EmptySeq
<1>2. /\ r \in Seq(Items) /\ Len(r) = Len(s) - 1
      /\ \A k \in 1 .. Len(s) - 1 : r[k] = s[k + 1]
  BY <1>1, HeadTailProperties
<1> HIDE DEF r
<1>3. ASSUME NEW k \in 1 .. Len(r)
      PROVE  /\ r[k] # s[1]
             /\ next[r[k]] = IF k < Len(r) THEN r[k + 1] ELSE Null
  <2>1. k + 1 \in 1 .. Len(s) /\ k \in 1 .. Len(s) - 1 /\ k + 1 # 1 /\ 1 \in 1 .. Len(s)
    BY <1>1, <1>2
  <2>2. r[k] = s[k + 1] /\ (k < Len(r) => r[k + 1] = s[(k + 1) + 1])
    BY <1>1, <1>2, <2>1
  <2> QED
    BY <1>1, <1>2, <2>1, <2>2, PathFacts
<1>4. next[s[1]] = IF Len(r) > 0 THEN r[1] ELSE Null
  <2>1. next[s[1]] = IF 1 < Len(s) THEN s[1 + 1] ELSE Null
    BY <1>1, PathFacts
  <2> QED
    BY <1>1, <1>2, <2>1
<1>5. ASSUME NEW p \in 1 .. Len(r), NEW q \in 1 .. Len(r), r[p] = r[q]
      PROVE  p = q
  <2>1. /\ p + 1 \in 1 .. Len(s) /\ q + 1 \in 1 .. Len(s)
        /\ r[p] = s[p + 1] /\ r[q] = s[q + 1]
    BY <1>1, <1>2
  <2>2. p + 1 = q + 1
    BY <1>1, <1>5, <2>1
  <2> QED
    BY <1>1, <1>2, <2>2
<1>6. Path(next, s[1], r)
  BY <1>2, <1>3, <1>4, <1>5, PathIf
<1>7. ASSUME NEW i PROVE i \in ToSet(s) <=> i = s[1] \/ i \in ToSet(r)
  <2>1. i \in ToSet(s) <=> \E k \in 1 .. Len(s) : s[k] = i
    BY PathFacts
  <2>2. i \in ToSet(r) <=> \E k \in 1 .. Len(r) : r[k] = i
    BY <1>6, PathFacts
  <2>3. ASSUME NEW k \in 1 .. Len(s), s[k] = i PROVE i = s[1] \/ \E j \in 1 .. Len(r) : r[j] = i
    <3>1. CASE k = 1
      BY <2>3, <3>1
    <3>2. CASE k # 1
      <4>1. k - 1 \in 1 .. Len(r) /\ r[k - 1] = s[(k - 1) + 1] /\ (k - 1) + 1 = k
        BY <1>1, <1>2, <3>2
      <4> QED
        BY <2>3, <4>1
    <3> QED
      BY <3>1, <3>2
  <2>4. ASSUME NEW j \in 1 .. Len(r), r[j] = i PROVE \E k \in 1 .. Len(s) : s[k] = i
    BY <1>1, <1>2, <2>4
  <2>5. i = s[1] => \E k \in 1 .. Len(s) : s[k] = i
    BY <1>1
  <2> QED
    BY <2>1, <2>2, <2>3, <2>4, <2>5
<1> QED
  BY <1>1, <1>6, <1>7 DEF r

(* The store of a push: the new node, whose next cell points to what the   *)
(* cell at p pointed to, is linked behind that cell.                       *)
LEMMA PathInsert ==
  ASSUME NEW next \in [Cells -> Nodes], NEW c \in Cells, NEW s, Path(next, c, s),
         NEW p \in 0 .. Len(s), NEW i \in Items, i \notin ToSet(s), i # c
  PROVE  LET g == [next EXCEPT ![i] = next[Cell(c, s, p)], ![Cell(c, s, p)] = i]
         IN  Path(g, c, InsertAt(s, p + 1, i))
<1> DEFINE d == Cell(c, s, p)
           g == [next EXCEPT ![i] = next[d], ![d] = i]
           r == InsertAt(s, p + 1, i)
<1>1. /\ s \in Seq(Items) /\ Len(s) \in Nat
      /\ \A k \in 1 .. Len(s) : s[k] \in Items /\ s[k] # c /\ s[k] # i
      /\ next[c] = IF Len(s) > 0 THEN s[1] ELSE Null
      /\ \A k \in 1 .. Len(s) : next[s[k]] = IF k < Len(s) THEN s[k + 1] ELSE Null
      /\ \A k, q \in 1 .. Len(s) : s[k] = s[q] => k = q
  BY PathFacts
<1>. p \in Nat /\ p <= Len(s)
  BY <1>1
<1>2. /\ r \in Seq(Items) /\ Len(r) = Len(s) + 1
      /\ \A k \in 1 .. p : r[k] = s[k]
      /\ r[p + 1] = i
      /\ \A k \in p + 2 .. Len(s) + 1 : r[k] = s[k - 1]
  <2>1. s \in Seq(Items)
    BY <1>1
  <2> DEFINE q == p + 1
             ins == InsertAt(s, q, i)
  <2>2. q \in 1 .. Len(s) + 1
    BY <1>1
  <2>4. q - 1 = p /\ q + 1 = p + 2
    BY <1>1
  <2> HIDE DEF q
  <2>3. /\ ins \in Seq(Items) /\ Len(ins) = Len(s) + 1
        /\ \A k \in 1 .. q - 1 : ins[k] = s[k]
        /\ ins[q] = i
        /\ \A k \in q + 1 .. Len(s) + 1 : ins[k] = s[k - 1]
    BY <2>1, <2>2, InsertAtEntries
  <2> QED
    BY <2>3, <2>4 DEF q
<1>3. d = IF p = 0 THEN c ELSE s[p]
  BY DEF Cell
<1>4. d \in Cells /\ i \in Cells /\ d # i
  BY <1>1, <1>3 DEF Cells
<1>5. next[d] = IF p < Len(s) THEN s[p + 1] ELSE Null
  BY <1>1, <1>3
<1>6. g[d] = i /\ g[i] = next[d] /\ \A e \in Cells : e # d /\ e # i => g[e] = next[e]
  BY <1>4
<1> HIDE DEF r, d, g
<1>7. \A k \in 1 .. Len(r) : r[k] # c
  <2> TAKE k \in 1 .. Len(r)
  <2>1. CASE k <= p
    BY <1>1, <1>2, <2>1
  <2>2. CASE k = p + 1
    BY <1>2, <2>2
  <2>3. CASE k > p + 1
    <3>1. k \in p + 2 .. Len(s) + 1 /\ k - 1 \in 1 .. Len(s)
      BY <1>1, <1>2, <2>3
    <3> QED
      BY <1>1, <1>2, <3>1
  <2> QED
    BY <1>1, <1>2, <2>1, <2>2, <2>3
<1>8. g[c] = IF Len(r) > 0 THEN r[1] ELSE Null
  <2>1. CASE p = 0
    BY <1>1, <1>2, <1>3, <1>6, <2>1
  <2>2. CASE p > 0
    <3>1. c # d /\ r[1] = s[1]
      BY <1>1, <1>2, <1>3, <2>2
    <3> QED
      BY <1>1, <1>2, <1>6, <2>2, <3>1
  <2> QED
    BY <2>1, <2>2
<1>9. ASSUME NEW k \in 1 .. Len(r)
      PROVE  g[r[k]] = IF k < Len(r) THEN r[k + 1] ELSE Null
  <2>1. CASE k < p
    <3>1. /\ r[k] = s[k] /\ s[k] # d /\ s[k] # i /\ s[k] \in Cells
          /\ r[k + 1] = s[k + 1] /\ k < Len(s) /\ k \in 1 .. Len(s)
      BY <1>1, <1>2, <1>3, <2>1 DEF Cells
    <3> QED
      BY <1>1, <1>2, <1>6, <3>1
  <2>2. CASE k = p
    BY <1>1, <1>2, <1>3, <1>6, <2>2
  <2>3. CASE k = p + 1
    <3>1. p < Len(s) => r[(p + 1) + 1] = s[p + 1]
      BY <1>1, <1>2
    <3> QED
      BY <1>1, <1>2, <1>5, <1>6, <2>3, <3>1
  <2>4. CASE k > p + 1
    <3>1. k - 1 \in 1 .. Len(s) /\ (k - 1) + 1 = k /\ k - 1 > p /\ r[k] = s[k - 1]
      BY <1>1, <1>2, <2>4
    <3>2. s[k - 1] # d /\ s[k - 1] # i /\ s[k - 1] \in Cells
      BY <1>1, <1>3, <3>1 DEF Cells
    <3>3. g[r[k]] = IF k - 1 < Len(s) THEN s[(k - 1) + 1] ELSE Null
      BY <1>1, <1>6, <3>1, <3>2
    <3>4. ASSUME k < Len(r) PROVE r[k + 1] = s[k]
      <4>1. k + 1 \in p + 2 .. Len(s) + 1 /\ (k + 1) - 1 = k
        BY <1>1, <1>2, <2>4, <3>4
      <4> QED
        BY <1>2, <4>1
    <3> QED
      BY <1>1, <1>2, <3>1, <3>3, <3>4
  <2> QED
    BY <1>1, <1>2, <2>1, <2>2, <2>3, <2>4
<1>10. ASSUME NEW a \in 1 .. Len(r), NEW b \in 1 .. Len(r), r[a] = r[b]
       PROVE  a = b
  <2> DEFINE From(k) == IF k <= p THEN k ELSE k - 1
  <2>1. ASSUME NEW k \in 1 .. Len(r), k # p + 1
        PROVE  From(k) \in 1 .. Len(s) /\ r[k] = s[From(k)] /\ r[k] # i
    BY <1>1, <1>2, <2>1
  <2>2. CASE a # p + 1 /\ b # p + 1
    <3>1. From(a) = From(b)
      BY <1>1, <1>10, <2>1, <2>2
    <3> QED
      BY <1>1, <1>2, <2>2, <3>1
  <2>3. CASE a = p + 1 \/ b = p + 1
    BY <1>2, <1>10, <2>1, <2>3
  <2> QED
    BY <2>2, <2>3
<1>11. Path(g, c, r)
  BY <1>2, <1>7, <1>8, <1>9, <1>10, PathIf
<1> QED
  BY <1>11 DEF g, r, d

(* The store of pop and remove_count: what the cell at p points to is      *)
(* skipped.                                                                *)
LEMMA PathRemove ==
  ASSUME NEW next \in [Cells -> Nodes], NEW c \in Cells, NEW s, Path(next, c, s),
         NEW p \in 0 .. Len(s) - 1
  PROVE  LET g == [next EXCEPT ![Cell(c, s, p)] = next[s[p + 1]]]
         IN  Path(g, c, RemoveAt(s, p + 1))
<1> DEFINE d == Cell(c, s, p)
           g == [next EXCEPT ![d] = next[s[p + 1]]]
           r == RemoveAt(s, p + 1)
<1>1. /\ s \in Seq(Items) /\ Len(s) \in Nat
      /\ \A k \in 1 .. Len(s) : s[k] \in Items /\ s[k] # c
      /\ next[c] = IF Len(s) > 0 THEN s[1] ELSE Null
      /\ \A k \in 1 .. Len(s) : next[s[k]] = IF k < Len(s) THEN s[k + 1] ELSE Null
      /\ \A k, q \in 1 .. Len(s) : s[k] = s[q] => k = q
  BY PathFacts
<1>. p \in Nat /\ p < Len(s) /\ p + 1 \in 1 .. Len(s)
  BY <1>1
<1>2. /\ r \in Seq(Items) /\ Len(r) = Len(s) - 1
      /\ \A k \in 1 .. p : r[k] = s[k]
      /\ \A k \in p + 1 .. Len(s) - 1 : r[k] = s[k + 1]
  BY <1>1, RemoveAtEntries
<1>3. d = IF p = 0 THEN c ELSE s[p]
  BY DEF Cell
<1>4. d \in Cells
  BY <1>1, <1>3 DEF Cells
<1>5. next[s[p + 1]] = IF p + 1 < Len(s) THEN s[(p + 1) + 1] ELSE Null
  BY <1>1
<1>6. g[d] = next[s[p + 1]] /\ \A e \in Cells : e # d => g[e] = next[e]
  BY <1>4
<1> HIDE DEF r, d, g
<1>7. \A k \in 1 .. Len(r) : r[k] # c
  <2> TAKE k \in 1 .. Len(r)
  <2>1. CASE k <= p
    BY <1>1, <1>2, <2>1
  <2>2. CASE k > p
    BY <1>1, <1>2, <2>2
  <2> QED
    BY <1>1, <1>2, <2>1, <2>2
<1>8. g[c] = IF Len(r) > 0 THEN r[1] ELSE Null
  <2>1. CASE p = 0
    BY <1>1, <1>2, <1>3, <1>5, <1>6, <2>1
  <2>2. CASE p > 0
    <3>1. c # d /\ r[1] = s[1]
      BY <1>1, <1>2, <1>3, <2>2
    <3> QED
      BY <1>1, <1>2, <1>6, <2>2, <3>1
  <2> QED
    BY <2>1, <2>2
<1>9. ASSUME NEW k \in 1 .. Len(r)
      PROVE  g[r[k]] = IF k < Len(r) THEN r[k + 1] ELSE Null
  <2>1. CASE k < p
    <3>1. /\ r[k] = s[k] /\ s[k] # d /\ s[k] \in Cells
          /\ r[k + 1] = s[k + 1] /\ k < Len(s) /\ k \in 1 .. Len(s)
      BY <1>1, <1>2, <1>3, <2>1 DEF Cells
    <3> QED
      BY <1>1, <1>2, <1>6, <2>1, <3>1
  <2>2. CASE k = p
    <3>1. g[r[k]] = next[s[p + 1]]
      BY <1>1, <1>2, <1>3, <1>6, <2>2
    <3>2. p < Len(r) => r[p + 1] = s[(p + 1) + 1]
      BY <1>1, <1>2
    <3> QED
      BY <1>1, <1>2, <1>5, <2>2, <3>1, <3>2
  <2>3. CASE k > p
    <3>1. k + 1 \in 1 .. Len(s) /\ k + 1 > p /\ r[k] = s[k + 1]
      BY <1>1, <1>2, <2>3
    <3>2. s[k + 1] # d /\ s[k + 1] \in Cells
      BY <1>1, <1>3, <3>1 DEF Cells
    <3>3. g[r[k]] = IF k + 1 < Len(s) THEN s[(k + 1) + 1] ELSE Null
      BY <1>1, <1>6, <3>1, <3>2
    <3>4. k < Len(r) => r[k + 1] = s[(k + 1) + 1]
      BY <1>1, <1>2, <2>3
    <3> QED
      BY <1>1, <1>2, <3>1, <3>3, <3>4
  <2> QED
    BY <1>1, <1>2, <2>1, <2>2, <2>3
<1>10. ASSUME NEW a \in 1 .. Len(r), NEW b \in 1 .. Len(r), r[a] = r[b]
       PROVE  a = b
  <2> DEFINE From(k) == IF k <= p THEN k ELSE k + 1
  <2>1. ASSUME NEW k \in 1 .. Len(r)
        PROVE  From(k) \in 1 .. Len(s) /\ r[k] = s[From(k)]
    BY <1>1, <1>2, <2>1
  <2>2. From(a) = From(b)
    <3> HIDE DEF From
    <3> QED
      BY <1>1, <1>10, <2>1
  <2> QED
    BY <1>1, <1>2, <2>2
<1>11. Path(g, c, r)
  BY <1>2, <1>7, <1>8, <1>9, <1>10, PathIf
<1> QED
  BY <1>11 DEF g, r, d
=============================================================================
