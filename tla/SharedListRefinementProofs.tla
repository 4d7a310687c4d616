--------------------- MODULE SharedListRefinementProofs ---------------------
(***************************************************************************)
(* Proofs about SharedList, for the clients of SharedListAtomicProofs: len *)
(* is what its counts leave to count, and each call takes effect in one    *)
(* step of the list that AbstractList specifies.                           *)
(***************************************************************************)
EXTENDS SharedListAtomicProofs

-----------------------------------------------------------------------------
(* len.                                                                    *)

(* A number has one remainder.                                             *)
LEMMA OneRemainder ==
  ASSUME NEW m \in Nat \ {0}, NEW q \in Int, NEW r \in 0 .. m - 1, NEW s \in 0 .. m - 1,
         r - s = q * m
  PROVE  r = s
<1>1. q >= 1 => q * m >= m
  OBVIOUS
<1>2. q <= -1 => q * m <= -m
  OBVIOUS
<1>3. -m < r - s /\ r - s < m
  OBVIOUS
<1>4. q = 0 => r - s = 0
  OBVIOUS
<1> QED
  BY <1>1, <1>2, <1>3, <1>4

(* ... and numbers that differ by a multiple have the same one.            *)
LEMMA SameRemainder ==
  ASSUME NEW m \in Nat \ {0}, NEW a \in Int, NEW b \in Int, NEW q \in Int, a - b = q * m
  PROVE  a % m = b % m
<1> DEFINE x == a \div m
           y == b \div m
           r == a % m
           s == b % m
<1>1. x \in Int /\ r \in 0 .. m - 1 /\ a = x * m + r
  OBVIOUS
<1>2. y \in Int /\ s \in 0 .. m - 1 /\ b = y * m + s
  OBVIOUS
<1> HIDE DEF x, y, r, s
<1>3. r - s = ((q - x) + y) * m
  BY <1>1, <1>2
<1>4. (q - x) + y \in Int
  BY <1>1, <1>2
<1> DEFINE z == (q - x) + y
<1> HIDE DEF z
<1>5. r - s = z * m /\ z \in Int
  BY <1>3, <1>4 DEF z
<1>6. r = s
  BY <1>1, <1>2, <1>5, OneRemainder
<1> QED
  BY <1>6 DEF r, s

(* A set that one element may have entered or left.                        *)
LEMMA CountStep ==
  ASSUME NEW S, IsFiniteSet(S), NEW t \in S, NEW A \in SUBSET S, NEW B \in SUBSET S,
         A \ {t} = B \ {t}
  PROVE  /\ Cardinality(A) \in Nat /\ Cardinality(B) \in Nat
         /\ Cardinality(B) - (IF t \in B THEN 1 ELSE 0)
              = Cardinality(A) - (IF t \in A THEN 1 ELSE 0)
<1>1. ASSUME NEW C \in SUBSET S
      PROVE  /\ Cardinality(C) \in Nat
             /\ Cardinality(C) - (IF t \in C THEN 1 ELSE 0) = Cardinality(C \ {t})
  <2>1. IsFiniteSet(C) /\ Cardinality(C) \in Nat
    BY FS_Subset, FS_CardinalityType
  <2>2. Cardinality(C \ {t}) = IF t \in C THEN Cardinality(C) - 1 ELSE Cardinality(C)
    BY <2>1, FS_RemoveElement
  <2> QED
    BY <2>1, <2>2
<1> QED
  BY <1>1

(* What a thread adds to the balance of len: its places where the list and *)
(* len do not agree.                                                       *)
Owes(t) == IF t \in PushesUncounted THEN 1 ELSE 0
Ahead(t) == IF t \in PopsAhead THEN 1 ELSE 0
Due(t) == IF t \in RemovesUncounted THEN 1 ELSE 0

Balance ==
  len + Cardinality(PushesUncounted) + Cardinality(PopsAhead)
    - Len(Listing) - Cardinality(RemovesUncounted)
LenInv == \E q \in Int : Balance = q * LenMod

(* len changes by one, wrapping around at LenMod.                          *)
LEMMA Wraps ==
  ASSUME NEW m \in Nat \ {0}, NEW a \in 0 .. m - 1
  PROVE  /\ (a + 1) % m = IF a + 1 = m THEN 0 ELSE a + 1
         /\ ((a + m) - 1) % m = IF a = 0 THEN m - 1 ELSE a - 1
<1>1. \A b \in 0 .. m - 1 : b % m = b
  <2> TAKE b \in 0 .. m - 1
  <2>1. b % m \in 0 .. m - 1 /\ b = (b \div m) * m + (b % m) /\ b \div m \in Int
    OBVIOUS
  <2> DEFINE r == b % m
             y == b \div m
  <2> HIDE DEF r, y
  <2>2. b - r = y * m /\ r \in 0 .. m - 1 /\ y \in Int
    BY <2>1 DEF r, y
  <2>3. b = r
    BY <2>2, OneRemainder
  <2> QED
    BY <2>3 DEF r
<1>2. m % m = 0 % m
  <2>1. m - 0 = 1 * m
    OBVIOUS
  <2> QED
    BY <2>1, SameRemainder
<1>3. ((a + m) - 1) % m = IF a = 0 THEN m - 1 ELSE a - 1
  <2>1. CASE a = 0
    <3>1. (a + m) - 1 = m - 1 /\ m - 1 \in 0 .. m - 1
      BY <2>1
    <3> QED
      BY <1>1, <2>1, <3>1
  <2>2. CASE a # 0
    <3>1. /\ a - 1 \in 0 .. m - 1 /\ ((a + m) - 1) - (a - 1) = 1 * m
          /\ (a + m) - 1 \in Int /\ a - 1 \in Int
      BY <2>2
    <3>2. ((a + m) - 1) % m = (a - 1) % m
      <4> DEFINE x == (a + m) - 1
                 y == a - 1
      <4>1. x \in Int /\ y \in Int /\ x - y = 1 * m /\ 1 \in Int
        BY <3>1
      <4> HIDE DEF x, y
      <4>2. x % m = y % m
        BY <4>1, SameRemainder
      <4> QED
        BY <4>2 DEF x, y
    <3> QED
      BY <1>1, <2>2, <3>1, <3>2
  <2> QED
    BY <2>1, <2>2
<1>4. (a + 1) % m = IF a + 1 = m THEN 0 ELSE a + 1
  <2>1. CASE a + 1 = m
    <3>1. (a + 1) % m = m % m /\ 0 \in 0 .. m - 1
      BY <2>1
    <3> QED
      BY <1>1, <1>2, <2>1, <3>1
  <2>2. CASE a + 1 # m
    <3>1. a + 1 \in 0 .. m - 1
      BY <2>2
    <3> QED
      BY <1>1, <2>2, <3>1
  <2> QED
    BY <2>1, <2>2
<1> QED
  BY <1>3, <1>4

(* A push that has stored owes a count, a pop counts ahead of its store.   *)
LEMMA LenEffect ==
  ASSUME CInv, StackClients \/ OneWriter, NEW t \in Threads, Proceed(t)
  PROVE  LET before == len + Owes(t) + Ahead(t) - Len(Listing) - Due(t)
             after == len' + Owes(t)' + Ahead(t)' - Len(Listing') - Due(t)'
         IN  after - before \in {0, LenMod, -LenMod}
<1>. TInv /\ GInv /\ OnPath /\ Fresh /\ Copies /\ Found /\ Shape
  BY DEF CInv, GInv, AInv
<1>. \A u \in Threads \ {t} :
       pc'[u] = pc[u] /\ call'[u] = call[u] /\ reg'[u] = reg[u]
  BY Elsewhere DEF TInv
<1>. /\ pc \in [Threads -> Places] /\ call \in [Threads -> Calls]
     /\ reg \in [Threads -> Regs]
  BY DEF TInv, TypeOK
<1>1. len \in 0 .. LenMod - 1 /\ LenMod \in Nat \ {0} /\ Len(Listing) \in Nat
  BY ListAssumption, PathFacts DEF TInv, TypeOK, Shape
<1>2. /\ Owes(t) = IF /\ call[t].method \in {"pushHead", "pushOrdered"}
                      /\ pc[t] \in {"setFreeImm", "setFreeMut", "unlock", "pushCount"} THEN 1 ELSE 0
      /\ Ahead(t) = IF call[t].method = "pop" /\ pc[t] = "store" THEN 1 ELSE 0
      /\ Due(t) = IF pc[t] = "removeCount" THEN 1 ELSE 0
  BY DEF Owes, Ahead, Due, PushesUncounted, PopsAhead, RemovesUncounted, Pushes,
     Doing, At
<1>3. /\ Owes(t)' = IF /\ call'[t].method \in {"pushHead", "pushOrdered"}
                       /\ pc'[t] \in {"setFreeImm", "setFreeMut", "unlock", "pushCount"} THEN 1 ELSE 0
      /\ Ahead(t)' = IF call'[t].method = "pop" /\ pc'[t] = "store" THEN 1 ELSE 0
      /\ Due(t)' = IF pc'[t] = "removeCount" THEN 1 ELSE 0
  BY DEF Owes, Ahead, Due, PushesUncounted, PopsAhead, RemovesUncounted, Pushes,
     Doing, At
<1>4. /\ inner' = inner => Listing' = Listing
      /\ Inserts(t) => Len(Listing') = Len(Listing) + 1
      /\ Removes(t) => Len(Listing') = Len(Listing) - 1
  <2>1. Inserts(t) \/ Removes(t) => Linked(cur(t))
    BY DEF Found, Inserts, Removes
  <2>2. inner' = inner => Listing' = Listing
    BY DEF Listing
  <2> QED
    BY <2>1, <2>2, Inserted, Removed
<1>5. /\ inner' = inner \/ Inserts(t) \/ Removes(t)
      /\ PushStore(t) \/ SetStore(t) => Inserts(t)
      /\ PopStore(t) \/ RemoveStore(t) => Removes(t)
  BY StoreEffect
<1>6. /\ Inserts(t) => PushStore(t) \/ SetStore(t)
      /\ Removes(t) => PopStore(t) \/ RemoveStore(t)
      /\ PushStore(t) \/ SetStore(t) \/ RemoveStore(t) \/ PopStore(t) => len' = len
  BY DEF Inserts, Removes, PushStore, SetStore, PopStore, RemoveStore
<1> HIDE DEF Inserts, Removes
<1> DEFINE o1 == Owes(t)
           o2 == Owes(t)'
           a1 == Ahead(t)
           a2 == Ahead(t)'
           d1 == Due(t)
           d2 == Due(t)'
           l1 == Len(Listing)
           l2 == Len(Listing')
<1> SUFFICES (len' + o2 + a2 - l2 - d2) - (len + o1 + a1 - l1 - d1) \in {0, LenMod, -LenMod}
  OBVIOUS
<1>7. o1 \in {0, 1} /\ a1 \in {0, 1} /\ d1 \in {0, 1} /\ l1 \in Nat
  BY <1>1, <1>2
<1> HIDE DEF o1, o2, a1, a2, d1, d2, l1, l2
<1>8. CASE PushStore(t) \/ SetStore(t)
  <2>1. o1 = 0 /\ o2 = 1 /\ a1 = 0 /\ a2 = 0 /\ d1 = 0 /\ d2 = 0
    BY <1>2, <1>3, <1>8, MethodAt DEF PushStore, SetStore, Step, At, Goto,
       Pushes, o1, o2, a1, a2, d1, d2
  <2>2. l2 = l1 + 1 /\ len' = len
    BY <1>4, <1>5, <1>6, <1>8 DEF l1, l2
  <2> QED
    BY <1>1, <1>7, <2>1, <2>2
<1>9. CASE PopStore(t)
  <2>1. o1 = 0 /\ o2 = 0 /\ a1 = 1 /\ a2 = 0 /\ d1 = 0 /\ d2 = 0
    BY <1>2, <1>3, <1>9 DEF PopStore, Step, At, Goto, Doing, o1, o2, a1, a2, d1, d2
  <2>2. l2 = l1 - 1 /\ len' = len
    BY <1>4, <1>5, <1>6, <1>9 DEF l1, l2
  <2> QED
    BY <1>1, <1>7, <2>1, <2>2
<1>10. CASE RemoveStore(t)
  <2>1. o1 = 0 /\ o2 = 0 /\ a1 = 0 /\ a2 = 0 /\ d1 = 0 /\ d2 = 1
    BY <1>2, <1>3, <1>10 DEF RemoveStore, Step, At, Goto, Doing, o1, o2, a1, a2,
       d1, d2
  <2>2. l2 = l1 - 1 /\ len' = len
    BY <1>4, <1>5, <1>6, <1>10 DEF l1, l2
  <2> QED
    BY <1>1, <1>7, <2>1, <2>2
<1>11. CASE PushCount(t) \/ PopCount(t) \/ RemoveCount(t)
  <2>1. l2 = l1
    BY <1>4, <1>11 DEF PushCount, PopCount, RemoveCount, cells, l1, l2
  <2>2. \/ /\ o1 = 1 /\ o2 = 0 /\ a1 = 0 /\ a2 = 0 /\ d1 = 0 /\ d2 = 0
           /\ len' = (len + 1) % LenMod
        \/ /\ o1 = 0 /\ o2 = 0 /\ a2 - a1 = 1 /\ d1 = 0 /\ d2 = 0
           /\ len' = (len + LenMod - 1) % LenMod
        \/ /\ o1 = 0 /\ o2 = 0 /\ a1 = 0 /\ a2 = 0 /\ d1 = 1 /\ d2 = 0
           /\ len' = (len + LenMod - 1) % LenMod
    <3>1. CASE PushCount(t)
      BY <1>2, <1>3, <3>1, MethodAt DEF PushCount, Return, NoCall, Step, At,
         Goto, Doing, o1, o2, a1, a2, d1, d2
    <3>2. CASE PopCount(t)
      BY <1>2, <1>3, <3>2, MethodAt DEF PopCount, Decrement, Step, At, Goto,
         Doing, o1, o2, a1, a2, d1, d2
    <3>3. CASE RemoveCount(t)
      BY <1>2, <1>3, <3>3, MethodAt DEF RemoveCount, Decrement, Step, At, Goto,
         Doing, Calls, o1, o2, a1, a2, d1, d2
    <3> QED
      BY <1>11, <3>1, <3>2, <3>3
  <2>3. /\ (len + 1) % LenMod \in {len + 1, (len + 1) - LenMod}
        /\ (len + LenMod - 1) % LenMod \in {len - 1, (len - 1) + LenMod}
    BY <1>1, Wraps
  <2> DEFINE up == (len + 1) % LenMod
             down == (len + LenMod - 1) % LenMod
  <2>4. /\ len' = up \/ len' = down
        /\ up \in {len + 1, (len + 1) - LenMod} /\ down \in {len - 1, (len - 1) + LenMod}
        /\ \/ /\ o1 = 1 /\ o2 = 0 /\ a1 = 0 /\ a2 = 0 /\ d1 = 0 /\ d2 = 0
              /\ len' = up
           \/ /\ o1 = 0 /\ o2 = 0 /\ a2 - a1 = 1 /\ d1 = 0 /\ d2 = 0
              /\ len' = down
           \/ /\ o1 = 0 /\ o2 = 0 /\ a1 = 0 /\ a2 = 0 /\ d1 = 1 /\ d2 = 0
              /\ len' = down
    BY <2>2, <2>3
  <2>5. a2 \in {0, 1}
    BY <1>3 DEF a2
  <2> HIDE DEF up, down
  <2> QED
    BY <1>1, <1>7, <2>1, <2>4, <2>5
<1>12. CASE ~(PushStore(t) \/ SetStore(t) \/ PopStore(t) \/ RemoveStore(t)
              \/ PushCount(t) \/ PopCount(t) \/ RemoveCount(t))
  <2>1. l2 = l1
    BY <1>4, <1>5, <1>6, <1>12 DEF l1, l2
  <2>2. o2 = o1 /\ a2 = a1 /\ d2 = d1 /\ len' = len
    <3>. /\ pc[t] \in {"decideWait", "decide", "setLock", "setImm", "setStore", "setFreeImm",
                      "setFreeMut", "noneq"} => call[t].method = "pushOrdered"
         /\ pc[t] = "reload" => call[t].method \in {"pushHead", "pushOrdered"}
         /\ pc[t] = "next" => call[t].method \in {"pop", "remove_count"}
         /\ pc[t] = "move" => call[t].method \in {"pushOrdered", "remove_count"}
      BY MethodAt
    <3> USE <1>2, <1>3 DEF Goto, Step, At, Doing, o1, o2, a1, a2, d1, d2
    <3>1. CASE WaitImm(t)
      BY <3>1 DEF WaitImm, Tests
    <3>2. CASE Decide(t)
      BY <3>2 DEF Decide, Calls
    <3>3. CASE Lock(t) \/ SetLock(t) \/ SetImm(t)
      BY <3>3 DEF Lock, SetLock, SetImm
    <3>4. CASE SetFreeImm(t) \/ SetFreeMut(t) \/ MutLock(t)
      BY <3>4 DEF SetFreeImm, SetFreeMut, MutLock
    <3>5. CASE LoadNext(t)
      BY <3>5 DEF LoadNext
    <3>6. CASE Move(t) \/ FindNext(t) \/ MutDrop(t) \/ MutLoad(t) \/ Reload(t)
      BY <3>6 DEF Move, FindNext, MutDrop, MutLoad, Reload
    <3>7. CASE GetTest(t) \/ GetNull(t) \/ GetPanic(t)
      BY <3>7 DEF GetTest, GetNull, GetPanic, NodeGone, Panic
    <3>8. CASE PushSkip(t) \/ PushCompare(t)
      BY <3>8 DEF PushSkip, PushCompare, Calls
    <3>9. CASE PushFind(t) \/ PopFind(t) \/ RemoveFind(t) \/ MutFind(t)
      BY <3>9 DEF PushFind, PopFind, RemoveFind, MutFind, Got
    <3>10. CASE Test(t)
      BY <3>10 DEF Test, Return, AtEnd, AtNode, NoCall
    <3>11. CASE Unlock(t) \/ FindHit(t)
      BY <3>11 DEF Unlock, FindHit, Return, NoCall, Pushes
    <3> QED
      BY <1>12, <3>1, <3>2, <3>3, <3>4, <3>5, <3>6, <3>7, <3>8, <3>9, <3>10,
         <3>11 DEF Proceed
  <2> QED
    BY <1>1, <1>7, <2>1, <2>2
<1> QED
  BY <1>8, <1>9, <1>10, <1>11, <1>12

(* The balance is a multiple of what len is counted by.                    *)
LEMMA CountsFinite ==
  /\ IsFiniteSet(Threads)
  /\ PushesUncounted \in SUBSET Threads /\ PopsAhead \in SUBSET Threads
  /\ RemovesUncounted \in SUBSET Threads
  /\ Cardinality(PushesUncounted) \in Nat /\ Cardinality(PopsAhead) \in Nat
  /\ Cardinality(RemovesUncounted) \in Nat
<1>1. /\ PushesUncounted \in SUBSET Threads /\ PopsAhead \in SUBSET Threads
      /\ RemovesUncounted \in SUBSET Threads /\ IsFiniteSet(Threads)
  BY ListAssumption DEF PushesUncounted, PopsAhead, RemovesUncounted
<1>2. ASSUME NEW S \in SUBSET Threads PROVE Cardinality(S) \in Nat
  BY <1>1, FS_Subset, FS_CardinalityType
<1> QED
  BY <1>1, <1>2

(* The steps of a call keep it one ...                                     *)
LEMMA LenProceed ==
  ASSUME CInv, StackClients \/ OneWriter, LenInv, NEW t \in Threads, Proceed(t)
  PROVE  LenInv'
<1>. TInv /\ Shape
  BY DEF CInv, AInv
<1>. \A u \in Threads \ {t} :
       pc'[u] = pc[u] /\ call'[u] = call[u] /\ reg'[u] = reg[u]
  BY Elsewhere DEF TInv
<1>. /\ pc \in [Threads -> Places] /\ call \in [Threads -> Calls]
     /\ reg \in [Threads -> Regs]
  BY DEF TInv, TypeOK
<1>1. CInv'
  BY ClientsStep DEF Next
<1>2. /\ len \in Nat /\ len' \in Nat /\ Len(Listing) \in Nat /\ Len(Listing') \in Nat
      /\ LenMod \in Nat \ {0}
  <2>1. /\ len \in 0 .. LenMod - 1 /\ len' \in 0 .. LenMod - 1
        /\ Path(inner, head, Listing) /\ Path(inner', head, Listing')
    BY <1>1 DEF CInv, TInv, TypeOK, AInv, Shape
  <2> QED
    BY <2>1, ListAssumption, PathFacts
<1>3. /\ PushesUncounted \ {t} = PushesUncounted' \ {t}
      /\ PopsAhead \ {t} = PopsAhead' \ {t}
      /\ RemovesUncounted \ {t} = RemovesUncounted' \ {t}
  BY DEF PushesUncounted, PopsAhead, RemovesUncounted, Doing, At
<1>4. /\ PushesUncounted' \in SUBSET Threads /\ PopsAhead' \in SUBSET Threads
      /\ RemovesUncounted' \in SUBSET Threads
  BY DEF PushesUncounted, PopsAhead, RemovesUncounted
<1> DEFINE n1 == Cardinality(PushesUncounted)
           n2 == Cardinality(PushesUncounted')
           p1 == Cardinality(PopsAhead)
           p2 == Cardinality(PopsAhead')
           r1 == Cardinality(RemovesUncounted)
           r2 == Cardinality(RemovesUncounted')
           l1 == Len(Listing)
           l2 == Len(Listing')
<1>5. /\ n1 \in Nat /\ n2 \in Nat /\ n2 - Owes(t)' = n1 - Owes(t)
      /\ p1 \in Nat /\ p2 \in Nat /\ p2 - Ahead(t)' = p1 - Ahead(t)
      /\ r1 \in Nat /\ r2 \in Nat /\ r2 - Due(t)' = r1 - Due(t)
  <2>1. n1 \in Nat /\ n2 \in Nat /\ n2 - Owes(t)' = n1 - Owes(t)
    BY <1>3, <1>4, CountsFinite, CountStep DEF Owes
  <2>2. p1 \in Nat /\ p2 \in Nat /\ p2 - Ahead(t)' = p1 - Ahead(t)
    BY <1>3, <1>4, CountsFinite, CountStep DEF Ahead
  <2>3. r1 \in Nat /\ r2 \in Nat /\ r2 - Due(t)' = r1 - Due(t)
    BY <1>3, <1>4, CountsFinite, CountStep DEF Due
  <2> QED
    BY <2>1, <2>2, <2>3
<1>6. /\ Owes(t) \in {0, 1} /\ Owes(t)' \in {0, 1} /\ Ahead(t) \in {0, 1}
      /\ Ahead(t)' \in {0, 1} /\ Due(t) \in {0, 1} /\ Due(t)' \in {0, 1}
  BY DEF Owes, Ahead, Due
<1> DEFINE before == len + Owes(t) + Ahead(t) - l1 - Due(t)
           after == len' + Owes(t)' + Ahead(t)' - l2 - Due(t)'
<1>7. after - before \in {0, LenMod, -LenMod}
  BY LenEffect
<1> HIDE DEF n1, n2, p1, p2, r1, r2, l1, l2
<1>8. (len' + n2 + p2 - l2 - r2) - (len + n1 + p1 - l1 - r1) = after - before
  <2> DEFINE o1 == Owes(t)
             o2 == Owes(t)'
             a1 == Ahead(t)
             a2 == Ahead(t)'
             d1 == Due(t)
             d2 == Due(t)'
  <2>1. /\ o1 \in {0, 1} /\ o2 \in {0, 1} /\ n2 - o2 = n1 - o1 /\ n1 \in Nat /\ n2 \in Nat
        /\ a1 \in {0, 1} /\ a2 \in {0, 1} /\ p2 - a2 = p1 - a1 /\ p1 \in Nat /\ p2 \in Nat
        /\ d1 \in {0, 1} /\ d2 \in {0, 1} /\ r2 - d2 = r1 - d1 /\ r1 \in Nat /\ r2 \in Nat
        /\ len \in Nat /\ len' \in Nat /\ l1 \in Nat /\ l2 \in Nat
    BY <1>2, <1>5, <1>6 DEF l1, l2
  <2> HIDE DEF o1, o2, a1, a2, d1, d2
  <2>2. /\ o1 \in Int /\ o2 \in Int /\ a1 \in Int /\ a2 \in Int /\ d1 \in Int /\ d2 \in Int
        /\ len \in Int /\ len' \in Int /\ l1 \in Int /\ l2 \in Int
        /\ n1 \in Int /\ n2 = n1 + (o2 - o1)
        /\ p1 \in Int /\ p2 = p1 + (a2 - a1)
        /\ r1 \in Int /\ r2 = r1 + (d2 - d1)
    BY <2>1
  <2>3. (len' + n2 + p2 - l2 - r2) - (len + n1 + p1 - l1 - r1)
          = (len' + o2 + a2 - l2 - d2) - (len + o1 + a1 - l1 - d1)
    BY <2>2
  <2> QED
    BY <2>3 DEF o1, o2, a1, a2, d1, d2
<1>9. PICK q \in Int : len + n1 + p1 - l1 - r1 = q * LenMod
  BY DEF LenInv, Balance, n1, p1, l1, r1
<1> HIDE DEF after, before
<1>10. \E p \in Int : len' + n2 + p2 - l2 - r2 = p * LenMod
  <2> DEFINE x == len' + n2 + p2 - l2 - r2
             y == len + n1 + p1 - l1 - r1
  <2>1. x \in Int /\ y \in Int
    BY <1>2, <1>5 DEF l1, l2
  <2>2. x - y \in {0, LenMod, -LenMod} /\ y = q * LenMod
    BY <1>7, <1>8, <1>9
  <2> HIDE DEF x, y
  <2>3. x = q * LenMod \/ x = (q + 1) * LenMod \/ x = (q - 1) * LenMod
    BY <1>2, <2>1, <2>2
  <2>4. \E p \in Int : x = p * LenMod
    BY <2>3
  <2> QED
    BY <2>4 DEF x
<1> QED
  BY <1>10 DEF LenInv, Balance, n2, p2, l2, r2

(* ... as it is at the start ...                                           *)
LEMMA LenInit == Init => LenInv
<1> SUFFICES ASSUME Init PROVE LenInv
  OBVIOUS
<1>1. /\ PushesUncounted = {} /\ PopsAhead = {} /\ RemovesUncounted = {}
  BY DEF Init, PushesUncounted, PopsAhead, RemovesUncounted, At
<1>2. CInv
  BY ClientsInit
<1>3. Path(inner, head, Listing) /\ inner[head] = Null
  BY <1>2 DEF CInv, AInv, Shape, Init, CellsInit, Cells
<1>4. Len(Listing) = 0
  BY <1>3, PathFacts, ListAssumption
<1>5. len = 0 /\ Cardinality({}) = 0
  BY FS_EmptySet DEF Init
<1>6. Balance = 0 * LenMod
  BY <1>1, <1>4, <1>5, ListAssumption DEF Balance
<1> QED
  BY <1>6 DEF LenInv

(* ... and as every step leaves it.                                        *)
LEMMA LenStep ==
  ASSUME CInv, StackClients \/ OneWriter, LenInv, [Next]_vars
  PROVE  LenInv'
<1>1. ASSUME NEW t \in Threads, Call(t) PROVE LenInv'
  <2>1. /\ len' = len /\ inner' = inner
        /\ PushesUncounted' = PushesUncounted /\ PopsAhead' = PopsAhead
        /\ RemovesUncounted' = RemovesUncounted
    <3>1. CASE Starts(t)
      <4>1. /\ len' = len /\ inner' = inner /\ pc[t] = "idle" /\ Entry(pc'[t], call'[t].method)
            /\ \A u \in Threads \ {t} : pc'[u] = pc[u] /\ call'[u] = call[u]
        BY <3>1, StartShape DEF CInv
      <4>2. pc'[t] \in {"decideWait", "lock", "testWait"}
        BY <4>1 DEF Entry
      <4> QED
        BY <4>1, <4>2 DEF PushesUncounted, PopsAhead, RemovesUncounted, Doing, At
    <3>2. CASE SetEnforceNoneq(t)
      BY <3>2 DEF SetEnforceNoneq, PushesUncounted, PopsAhead, RemovesUncounted,
         Doing, At, cells
    <3> QED
      BY <1>1, <3>1, <3>2, CallStarts DEF CInv
  <2> QED
    BY <2>1 DEF LenInv, Balance, Listing
<1>2. ASSUME NEW t \in Threads, Proceed(t) PROVE LenInv'
  BY <1>2, LenProceed
<1>3. CASE UNCHANGED vars
  BY <1>3 DEF LenInv, Balance, Listing, PushesUncounted, PopsAhead,
     RemovesUncounted, Doing, At, vars, cells
<1> QED
  BY <1>1, <1>2, <1>3 DEF Next

(* len is exact, modulo 2^w, but for the calls that have stored and not    *)
(* counted yet, or (pop) counted and not stored: no path through a push,   *)
(* pop or remove_count counts twice or not at all, and the wrapping        *)
(* fetch_sub of a pop that counts before a push does is made good by it.   *)
THEOREM LenCounts ==
  ASSUME StackClients \/ OneWriter
  PROVE  Spec => []LenExact
<1> DEFINE Inv == CInv /\ LenInv
<1>1. Init => Inv
  BY ClientsInit, LenInit
<1>2. Inv /\ [Next]_vars => Inv'
  BY ClientsStep, LenStep
<1>3. Inv => LenExact
  <2> SUFFICES ASSUME Inv PROVE LenExact
    OBVIOUS
  <2> DEFINE n == Cardinality(PushesUncounted)
             p == Cardinality(PopsAhead)
             r == Cardinality(RemovesUncounted)
             l == Len(Listing)
             x == len + n
             y == l + LenMod - p + r
  <2>1. /\ len \in Nat /\ n \in Nat /\ p \in Nat /\ r \in Nat /\ l \in Nat
        /\ LenMod \in Nat \ {0}
    BY CountsFinite, ListAssumption, PathFacts DEF CInv, TInv, TypeOK, AInv, Shape
  <2>2. PICK q \in Int : len + n + p - l - r = q * LenMod
    BY DEF LenInv, Balance
  <2> HIDE DEF n, p, r, l
  <2>3. /\ x \in Int /\ y \in Int /\ q - 1 \in Int /\ x - y = q * LenMod - LenMod
    BY <2>1, <2>2
  <2>4. q * LenMod - LenMod = (q - 1) * LenMod
    BY <2>1
  <2> HIDE DEF x, y
  <2>5. x % LenMod = y % LenMod
    <3> DEFINE k == q - 1
    <3> HIDE DEF k
    <3>1. x \in Int /\ y \in Int /\ k \in Int /\ x - y = k * LenMod
      BY <2>3, <2>4 DEF k
    <3> QED
      BY <2>1, <3>1, SameRemainder
  <2> QED
    BY <2>5 DEF x, y, n, p, r, l, LenExact
<1> QED
  BY <1>1, <1>2, <1>3, PTL DEF Spec, SafetySpec

-----------------------------------------------------------------------------
(* The list that AbstractList specifies.                                   *)

(* Its operators are those of SharedList.                                  *)
LEMMA SameOperators ==
  /\ \A s, q, i : Abstract!InsertAt(s, q, i) = InsertAt(s, q, i)
  /\ \A s, q : Abstract!RemoveAt(s, q) = RemoveAt(s, q)
  /\ \A s : Abstract!ToSet(s) = ToSet(s)
  /\ \A S : Abstract!Cardinality(S) = Cardinality(S)
<1>1. \A s, q, i : Abstract!InsertAt(s, q, i) = InsertAt(s, q, i)
  BY DEF InsertAt, Abstract!InsertAt
<1>2. \A s, q : Abstract!RemoveAt(s, q) = RemoveAt(s, q)
  BY DEF RemoveAt, Abstract!RemoveAt
<1>3. \A s : Abstract!ToSet(s) = ToSet(s)
  BY DEF ToSet, Abstract!ToSet
<1>4. \A S : Abstract!Cardinality(S) = Cardinality(S)
  BY DEF Cardinality, Abstract!Cardinality
<1> QED
  BY <1>1, <1>2, <1>3, <1>4

(* Where links ascend, so do the nodes of a path, neighbours or not.       *)
LEMMA PathAscends ==
  ASSUME NEW next, NEW c, NEW s, Path(next, c, s),
         \A i \in Items : next[i] # Null => Key[i] <= Key[next[i]]
  PROVE  \A j, k \in 1 .. Len(s) : j <= k => Key[s[j]] <= Key[s[k]]
<1>1. /\ Len(s) \in Nat
      /\ \A k \in 1 .. Len(s) : s[k] \in Items /\ s[k] # Null /\ Key[s[k]] \in Nat
      /\ \A k \in 1 .. Len(s) : next[s[k]] = IF k < Len(s) THEN s[k + 1] ELSE Null
  BY PathFacts, ListAssumption
<1> DEFINE Ascend(n) == \A j \in 1 .. Len(s) : j + n <= Len(s) => Key[s[j]] <= Key[s[j + n]]
           S == {n \in Nat : Ascend(n)}
<1>2. 0 \in S
  BY <1>1
<1>3. ASSUME NEW n \in Nat, n \in S PROVE n + 1 \in S
  <2> SUFFICES ASSUME NEW j \in 1 .. Len(s), j + (n + 1) <= Len(s)
               PROVE  Key[s[j]] <= Key[s[j + (n + 1)]]
    OBVIOUS
  <2>1. j + n \in 1 .. Len(s) /\ j + n < Len(s) /\ (j + n) + 1 = j + (n + 1)
        /\ (j + n) + 1 \in 1 .. Len(s)
    BY <1>1
  <2>2. Key[s[j]] <= Key[s[j + n]]
    BY <1>3, <2>1
  <2>3. next[s[j + n]] = s[(j + n) + 1] /\ s[j + n] \in Items /\ s[(j + n) + 1] # Null
    BY <1>1, <2>1
  <2>4. Key[s[j + n]] <= Key[s[(j + n) + 1]]
    BY <2>3
  <2> DEFINE a == Key[s[j]]
             b == Key[s[j + n]]
             d == Key[s[(j + n) + 1]]
  <2>5. a \in Nat /\ b \in Nat /\ d \in Nat
    BY <1>1, <2>1
  <2> HIDE DEF a, b, d
  <2>6. a <= d
    BY <2>2, <2>4, <2>5, SMTT(30) DEF a, b, d
  <2> QED
    BY <2>1, <2>6 DEF a, d
<1>4. Nat \subseteq S
  <2> HIDE DEF S
  <2> QED
    BY <1>2, <1>3, SetInduction
<1> SUFFICES ASSUME NEW j \in 1 .. Len(s), NEW k \in 1 .. Len(s), j <= k
             PROVE  Key[s[j]] <= Key[s[k]]
  OBVIOUS
<1>5. k - j \in Nat /\ j + (k - j) = k
  BY <1>1
<1>6. Ascend(k - j)
  <2> HIDE DEF Ascend
  <2> QED
    BY <1>4, <1>5
<1> QED
  BY <1>1, <1>5, <1>6

(* The numbers up to p.                                                    *)
LEMMA Numbers ==
  ASSUME NEW p \in Nat
  PROVE  Cardinality(1 .. p) = p
<1>1. Cardinality(1 .. p) = IF 1 > p THEN 0 ELSE (p - 1) + 1
  BY FS_Interval
<1> QED
  BY <1>1

(* An item goes behind the entries that do not exceed it.                  *)
LEMMA EntriesBelow ==
  ASSUME NEW s \in Seq(Items), NEW p \in 0 .. Len(s), NEW i \in Items,
         \A j, k \in 1 .. Len(s) : j <= k => Key[s[j]] <= Key[s[k]],
         p > 0 => Key[s[p]] <= Key[i],
         p < Len(s) => Key[i] < Key[s[p + 1]]
  PROVE  Cardinality({k \in DOMAIN s : Key[s[k]] <= Key[i]}) = p
<1>1. /\ Len(s) \in Nat /\ p \in Nat /\ p <= Len(s) /\ DOMAIN s = 1 .. Len(s)
      /\ \A k \in 1 .. Len(s) : Key[s[k]] \in Nat
      /\ Key[i] \in Nat
  BY LenProperties, ListAssumption
<1>2. ASSUME NEW k \in 1 .. Len(s) PROVE k <= p <=> Key[s[k]] <= Key[i]
  <2>1. CASE k <= p
    <3>1. p \in 1 .. Len(s) /\ p > 0
      BY <1>1, <2>1
    <3>2. /\ Key[s[k]] <= Key[s[p]] /\ Key[s[p]] <= Key[i]
          /\ Key[s[p]] \in Nat /\ Key[s[k]] \in Nat
      BY <1>1, <2>1, <3>1
    <3> QED
      BY <1>1, <2>1, <3>2
  <2>2. CASE k > p
    <3>1. p + 1 \in 1 .. Len(s) /\ p < Len(s) /\ p + 1 <= k
      BY <1>1, <2>2
    <3>2. /\ Key[s[p + 1]] <= Key[s[k]] /\ Key[i] < Key[s[p + 1]]
          /\ Key[s[p + 1]] \in Nat /\ Key[s[k]] \in Nat
      BY <1>1, <3>1
    <3> QED
      BY <1>1, <2>2, <3>2
  <2> QED
    BY <1>1, <2>1, <2>2
<1>3. {k \in DOMAIN s : Key[s[k]] <= Key[i]} = 1 .. p
  BY <1>1, <1>2
<1> QED
  BY <1>1, <1>3, Numbers

(* What clients see of the other threads stays the same.                   *)
LEMMA OthersHold ==
  ASSUME TInv, NEW t \in Threads, Proceed(t), NEW u \in Threads \ {t}
  PROVE  PopHolds(u)' = PopHolds(u) /\ reg'[u].got = reg[u].got
<1>1. pc'[u] = pc[u] /\ call'[u] = call[u] /\ reg'[u] = reg[u]
  BY Elsewhere DEF TInv
<1> QED
  BY <1>1 DEF PopHolds, Doing, At

(* A push takes effect with its store: it puts its item at the head or, in *)
(* an ordered list, behind the entries that do not exceed it.              *)
LEMMA PushTakesEffect ==
  ASSUME TInv, GInv, AInv, NEW t \in Threads, Inserts(t)
  PROVE  Abstract!Push(call[t].item)
<1> DEFINE i == call[t].item
           s == Listing
<1>. OnPath /\ Fresh /\ Found /\ Shape /\ OrderKnown
  BY DEF GInv, AInv
<1>1. /\ Busy(t) /\ i \in Items /\ Key[i] \in Nat
      /\ \/ pc[t] = "store" /\ call[t].method \in {"pushHead", "pushOrdered"}
         \/ pc[t] = "setStore" /\ call[t].method = "pushOrdered"
  BY ListAssumption, MethodAt DEF Inserts, PushStore, SetStore, Step, At, Pushes
<1>2. PICK p \in 0 .. Len(s) :
        /\ cur(t) = Cell(head, s, p)
        /\ Listing' = InsertAt(s, p + 1, i)
        /\ i \notin ToSet(s)
  <2>1. Linked(cur(t))
    BY <1>1 DEF Found
  <2> QED
    BY <2>1, Inserted
<1>3. /\ Path(inner, head, s) /\ s \in Seq(Items) /\ Len(s) \in Nat
      /\ \A k \in 1 .. Len(s) : s[k] \in Items /\ s[k] # head /\ Key[s[k]] \in Nat
      /\ \A j : j \in ToSet(s) <=> \E k \in 1 .. Len(s) : s[k] = j
      /\ inner[head] = IF Len(s) > 0 THEN s[1] ELSE Null
      /\ head \in Cells
  <2>1. Path(inner, head, s)
    BY DEF Shape
  <2>2. /\ s \in Seq(Items) /\ Len(s) \in Nat
        /\ \A k \in 1 .. Len(s) : s[k] \in Items /\ s[k] # head
        /\ \A j : j \in ToSet(s) <=> \E k \in 1 .. Len(s) : s[k] = j
        /\ inner[head] = IF Len(s) > 0 THEN s[1] ELSE Null
    <3> HIDE DEF s, i
    <3> QED
      BY <2>1, PathFacts
  <2>3. \A j \in Items : Key[j] \in Nat
    BY ListAssumption
  <2>4. head \in Cells
    BY DEF Cells
  <2> HIDE DEF s, i
  <2> QED
    BY <2>1, <2>2, <2>3, <2>4
<1>4. /\ cur(t) = IF p = 0 THEN head ELSE s[p]
      /\ inner[cur(t)] = IF p < Len(s) THEN s[p + 1] ELSE Null
      /\ inner[cur(t)] # Null <=> p < Len(s)
  <2> HIDE DEF s, i
  <2>1. /\ inner[Cell(head, s, p)] = IF p < Len(s) THEN s[p + 1] ELSE Null
        /\ inner[Cell(head, s, p)] # Null <=> p < Len(s)
    BY <1>3, PathCells
  <2>2. cur(t) = Cell(head, s, p)
    BY <1>2
  <2> QED
    BY <2>1, <2>2 DEF Cell
<1> HIDE DEF s, i
<1>5. cur(t) = head => p = 0
  BY <1>3, <1>4
<1>6. ASSUME Ordered, ~edited
      PROVE  /\ \A j, k \in 1 .. Len(s) : j <= k => Key[s[j]] <= Key[s[k]]
             /\ p > 0 => Key[s[p]] <= Key[i] /\ (enforce => Key[s[p]] # Key[i])
             /\ p < Len(s) => Key[i] < Key[s[p + 1]]
  <2>1. \A j, k \in 1 .. Len(s) : j <= k => Key[s[j]] <= Key[s[k]]
    BY <1>3, <1>6, PathAscends DEF AInv, LinksAscend
  <2>2. CASE call[t].method = "pushHead"
    <3>1. inner[head] = Null /\ cur(t) = head
      BY <1>1, <1>6, <2>2 DEF OrderKnown, Fresh, Doing
    <3>2. Len(s) = 0
      BY <1>3, <3>1, ListAssumption
    <3> QED
      BY <1>3, <2>1, <3>2
  <2>3. CASE call[t].method = "pushOrdered"
    <3>1. /\ cur(t) = head \/ Below(t, cur(t))
          /\ pc[t] = "store" => inner[cur(t)] # Null /\ Key[i] < Key[inner[cur(t)]]
      BY <1>1, <1>6, <2>3 DEF OrderKnown, Doing, i
    <3>2. p > 0 => Key[s[p]] <= Key[i] /\ (enforce => Key[s[p]] # Key[i])
      BY <1>3, <1>4, <3>1 DEF Below, i
    <3>3. pc[t] = "setStore" => p = Len(s)
      BY <1>1, <1>3, <1>4, <2>3 DEF Found
    <3>4. p < Len(s) => Key[i] < Key[s[p + 1]]
      BY <1>1, <1>3, <1>4, <3>1, <3>3
    <3> QED
      BY <2>1, <3>2, <3>4
  <2> QED
    BY <1>1, <2>2, <2>3
<1>7. Ordered /\ enforce /\ ~edited => \A j \in ToSet(s) : Key[j] # Key[i]
  <2> SUFFICES ASSUME Ordered, ~edited, enforce, NEW k \in 1 .. Len(s)
               PROVE  Key[s[k]] # Key[i]
    BY <1>3
  <2>1. CASE k <= p
    <3>1. p \in 1 .. Len(s) /\ p > 0
      BY <1>3, <2>1
    <3>2. /\ Key[s[k]] <= Key[s[p]] /\ Key[s[p]] <= Key[i] /\ Key[s[p]] # Key[i]
          /\ Key[s[p]] \in Nat /\ Key[s[k]] \in Nat
      BY <1>3, <1>6, <2>1, <3>1
    <3> QED
      BY <1>1, <3>2 DEF i
  <2>2. CASE k > p
    <3>1. p + 1 \in 1 .. Len(s) /\ p < Len(s) /\ p + 1 <= k
      BY <1>3, <2>2
    <3>2. /\ Key[s[p + 1]] <= Key[s[k]] /\ Key[i] < Key[s[p + 1]]
          /\ Key[s[p + 1]] \in Nat /\ Key[s[k]] \in Nat
      BY <1>3, <1>6, <3>1
    <3> QED
      BY <1>1, <3>2 DEF i
  <2> QED
    BY <1>3, <2>1, <2>2
<1>8. p + 1 \in Abstract!Positions(i)
  <2>1. CASE Ordered /\ ~edited
    <3>1. i \in Items
      BY <1>1 DEF i
    <3>2. Cardinality({k \in DOMAIN s : Key[s[k]] <= Key[i]}) = p
      BY <1>3, <1>6, <2>1, <3>1, EntriesBelow
    <3>3. Abstract!Positions(i) = {1 + Cardinality({k \in DOMAIN s : Key[s[k]] <= Key[i]})}
      BY <2>1, SameOperators DEF Abstract!Positions, s
    <3> QED
      BY <1>3, <3>2, <3>3
  <2>2. CASE Ordered /\ edited
    <3>1. Abstract!Positions(i) = 1 .. Len(s) + 1
      BY <2>2 DEF Abstract!Positions, s
    <3> QED
      BY <1>3, <3>1
  <2>3. CASE ~Ordered
    <3>1. cur(t) = head
      BY <1>1, <2>3, MethodAt DEF Fresh
    <3> QED
      BY <1>5, <2>3, <3>1 DEF Abstract!Positions
  <2> QED
    BY <2>1, <2>2, <2>3
<1>9. /\ enforce' = enforce /\ edited' = edited
      /\ \A u \in Threads : PopHolds(u)' = PopHolds(u) /\ reg'[u].got = reg[u].got
  <2>1. /\ Proceed(t) /\ enforce' = enforce /\ edited' = edited
        /\ call' = call /\ reg' = reg
    BY DEF Inserts, PushStore, SetStore, Proceed
  <2>2. PopHolds(t)' = PopHolds(t)
    BY <1>1, <2>1 DEF PopHolds, Doing
  <2> QED
    BY <2>1, <2>2, OthersHold
<1>10. \E q \in Abstract!Positions(i) : Listing' = Abstract!InsertAt(Listing, q, i)
  BY <1>2, <1>8, SameOperators DEF s
<1>11. /\ i \notin Abstract!ToSet(Listing)
       /\ Ordered /\ enforce /\ ~edited => \A j \in Abstract!ToSet(Listing) : Key[j] # Key[i]
  BY <1>2, <1>7, SameOperators DEF s
<1> QED
  BY <1>9, <1>10, <1>11 DEF Abstract!Push, i

(* A removal without a position before it takes the first entry.           *)
LEMMA FirstRemoved ==
  ASSUME NEW S, NEW s \in Seq(S), Len(s) > 0
  PROVE  RemoveAt(s, 1) = Tail(s) /\ Head(s) = s[1] /\ s # <<>>
<1>1. /\ Len(s) \in Nat /\ s # <<>>
      /\ RemoveAt(s, 1) = SubSeq(s, 1, 0) \o SubSeq(s, 2, Len(s))
  BY LenProperties, EmptySeq DEF RemoveAt
<1>2. SubSeq(s, 1, 0) = <<>>
  BY <1>1, SubSeqEmpty
<1>3. SubSeq(s, 2, Len(s)) = Tail(s) /\ Tail(s) \in Seq(S) /\ Head(s) = s[1]
  BY <1>1, HeadTailProperties, TailIsSubSeq
<1> QED
  BY <1>1, <1>2, <1>3, ConcatEmptySeq

(* A pop or remove_count takes effect with its store: it takes the node    *)
(* that its cell points to, pop the first.                                 *)
LEMMA TakeTakesEffect ==
  ASSUME CInv, NEW t \in Threads, Removes(t)
  PROVE  Abstract!Pop(t) \/ \E k \in DOMAIN Listing : Abstract!Take(t, k)
<1> DEFINE s == Listing
<1>. TInv /\ GInv /\ OnPath /\ Fresh /\ Found /\ Shape
  BY DEF CInv, GInv, AInv
<1>. /\ pc \in [Threads -> Places] /\ call \in [Threads -> Calls]
     /\ reg \in [Threads -> Regs]
  BY DEF TInv, TypeOK
<1>1. PICK p \in 0 .. Len(s) - 1 :
        /\ cur(t) = Cell(head, s, p)
        /\ inner[cur(t)] = s[p + 1]
        /\ Listing' = RemoveAt(s, p + 1)
  <2>1. Linked(cur(t))
    BY DEF Found, Removes
  <2> QED
    BY <2>1, Removed
<1>2. /\ s \in Seq(Items) /\ Len(s) \in Nat /\ DOMAIN s = 1 .. Len(s)
      /\ \A k \in 1 .. Len(s) : s[k] \in Items /\ s[k] # head
  BY PathFacts DEF Shape
<1> HIDE DEF s
<1>3. p + 1 \in 1 .. Len(s) /\ Len(s) > 0 /\ (p # 0 => p \in 1 .. Len(s))
  BY <1>2
<1>4. /\ reg[t].node = s[p + 1] /\ pc[t] = "store"
      /\ enforce' = enforce /\ edited' = edited
  BY <1>1 DEF Removes, PopStore, RemoveStore, Step, At
<1>5. /\ Proceed(t)
      /\ \A u \in Threads \ {t} : PopHolds(u)' = PopHolds(u) /\ reg'[u].got = reg[u].got
  <2>1. Proceed(t)
    BY DEF Removes, Proceed
  <2> QED
    BY <2>1, OthersHold
<1>6. CASE PopStore(t)
  <2>1. p = 0
    <3>1. call[t].method = "pop" /\ cur(t) = head
      BY <1>6 DEF PopStore, Doing, Fresh
    <3> QED
      BY <1>1, <1>2, <1>3, <3>1 DEF Cell
  <2>2. Listing' = Tail(s) /\ Head(s) = s[1] /\ s # <<>>
    BY <1>1, <1>2, <1>3, <2>1, FirstRemoved
  <2>3. PopHolds(t)' = Head(s) /\ PopHolds(t) = Null /\ reg' = reg
    BY <1>4, <1>6, <2>1, <2>2 DEF PopHolds, PopStore, Doing, Step, Goto, At
  <2>4. Abstract!Pop(t)
    BY <1>4, <1>5, <2>2, <2>3 DEF Abstract!Pop, s
  <2> QED
    BY <2>4
<1>7. CASE RemoveStore(t)
  <2>1. PopHolds(t)' = PopHolds(t) /\ reg'[t].got = reg[t].got \cup {s[p + 1]}
    BY <1>4, <1>7 DEF PopHolds, RemoveStore, Doing, Step, Goto, At, Regs
  <2>2. Abstract!Take(t, p + 1)
    BY <1>1, <1>4, <1>5, <2>1, SameOperators DEF Abstract!Take, s
  <2> QED
    BY <1>2, <1>3, <2>2 DEF s
<1> QED
  BY <1>6, <1>7 DEF Removes

(* The other steps are a return of the call, the end of a guard that may   *)
(* have changed its node, or change nothing that clients see.              *)
LEMMA OthersStutter ==
  ASSUME CInv, NEW t \in Threads, Proceed(t),
         ~(PushStore(t) \/ SetStore(t) \/ PopStore(t) \/ RemoveStore(t))
  PROVE  /\ Listing' = Listing /\ enforce' = enforce
         /\ \/ PopHolds(t)' = PopHolds(t) /\ reg'[t].got = reg[t].got
            \/ PopHolds(t)' = Null /\ reg'[t].got = {} /\ edited' = edited
<1>. TInv /\ GInv /\ OnPath /\ Fresh /\ Copies /\ Found
  BY DEF CInv, GInv, AInv
<1>. /\ pc \in [Threads -> Places] /\ call \in [Threads -> Calls]
     /\ reg \in [Threads -> Regs]
  BY DEF TInv, TypeOK
<1>1. inner' = inner
  BY StoreEffect DEF Inserts, Removes
<1>2. Listing' = Listing
  BY <1>1 DEF Listing
<1> DEFINE Holds == IF call[t].method = "pop" /\ pc[t] = "unlock" THEN reg[t].node ELSE Null
<1> SUFFICES /\ enforce' = enforce
             /\ \/ Holds' = Holds /\ reg'[t].got = reg[t].got
                \/ Holds' = Null /\ reg'[t].got = {} /\ edited' = edited
  BY <1>2 DEF PopHolds, Doing, At
<1>. /\ pc[t] \in {"mutLoad", "mutDrop"} => call[t].method = "iter_mut"
     /\ pc[t] \in {"decideWait", "decide", "noneq", "setLock", "setImm", "setStore", "setFreeImm",
                  "setFreeMut"} => call[t].method = "pushOrdered"
     /\ call[t].method = "pop" /\ pc[t] = "test" => reg[t].node = Null
  BY MethodAt DEF Fresh, Doing, At, NoReg
<1> USE DEF Goto, Step, At, Doing
<1>3. CASE WaitImm(t) \/ Decide(t) \/ Lock(t) \/ SetLock(t) \/ SetImm(t) \/
           SetFreeImm(t) \/ SetFreeMut(t) \/ PopCount(t) \/ MutLock(t)
  BY <1>3 DEF WaitImm, Decide, Lock, SetLock, SetImm, SetFreeImm,
      SetFreeMut, PopCount, MutLock, Tests, Calls
<1>4. CASE GetTest(t) \/ GetNull(t) \/ GetPanic(t)
  BY <1>4 DEF GetTest, GetNull, GetPanic, NodeGone, Panic
<1>5. CASE LoadNext(t) \/ Reload(t) \/ MutLoad(t) \/ Move(t) \/ FindNext(t)
  BY <1>5 DEF LoadNext, Reload, MutLoad, Move, FindNext, Regs
<1>6. CASE RemoveCount(t)
  BY <1>6 DEF RemoveCount, Calls
<1>7. CASE PushSkip(t) \/ PushCompare(t) \/ PushFind(t) \/ PopFind(t) \/ RemoveFind(t) \/
           MutFind(t)
  BY <1>7 DEF PushSkip, PushCompare, PushFind, PopFind, RemoveFind, MutFind, Got, Regs,
      Calls
<1>8. CASE Test(t) \/ PushCount(t) \/ Unlock(t) \/ FindHit(t)
  BY <1>8 DEF Test, PushCount, Unlock, FindHit, Return, NoCall, NoReg,
      AtEnd, AtNode, Pushes
<1>9. CASE MutDrop(t)
  BY <1>9 DEF MutDrop, Regs
<1> QED
  BY <1>3, <1>4, <1>5, <1>6, <1>7, <1>8, <1>9 DEF Proceed

(* Each step of a list is a step of the abstract list, or nothing that its *)
(* clients see.                                                            *)
LEMMA ProceedRefines ==
  ASSUME CInv, NEW t \in Threads, Proceed(t)
  PROVE  [Abstract!Next]_(Abstract!vars)
<1>1. CASE PushStore(t) \/ SetStore(t)
  <2>1. Inserts(t)
    BY <1>1, StoreEffect DEF CInv, AInv
  <2>2. Abstract!Push(call[t].item) /\ call[t].item \in Items
    BY <2>1, PushTakesEffect DEF CInv, Inserts
  <2> QED
    BY <2>2 DEF Abstract!Next
<1>2. CASE PopStore(t) \/ RemoveStore(t)
  <2>1. Removes(t)
    BY <1>2, StoreEffect DEF CInv, AInv
  <2>2. Abstract!Pop(t) \/ \E k \in DOMAIN Listing : Abstract!Take(t, k)
    BY <2>1, TakeTakesEffect
  <2> QED
    BY <2>2 DEF Abstract!Next
<1>3. CASE ~(PushStore(t) \/ SetStore(t) \/ PopStore(t) \/ RemoveStore(t))
  <2>1. /\ Listing' = Listing /\ enforce' = enforce
        /\ \/ PopHolds(t)' = PopHolds(t) /\ reg'[t].got = reg[t].got
           \/ PopHolds(t)' = Null /\ reg'[t].got = {} /\ edited' = edited
    BY <1>3, OthersStutter
  <2>2. \A u \in Threads \ {t} : PopHolds(u)' = PopHolds(u) /\ reg'[u].got = reg[u].got
    BY OthersHold DEF CInv
  <2>3. CASE PopHolds(t)' = PopHolds(t) /\ reg'[t].got = reg[t].got
    <3>1. CASE edited' = edited
      <4>1. UNCHANGED Abstract!vars
        BY <2>1, <2>2, <2>3, <3>1 DEF Abstract!vars
      <4> QED
        BY <4>1
    <3>2. CASE edited' # edited
      <4>1. edited' = TRUE
        <5>1. edited \in BOOLEAN /\ MutDrop(t)
          BY <3>2, KeptNarrows DEF CInv, TInv, TypeOK
        <5> QED
          BY <3>2, <5>1 DEF MutDrop
      <4>2. Abstract!Edit
        BY <2>1, <2>2, <2>3, <4>1 DEF Abstract!Edit
      <4> QED
        BY <4>2 DEF Abstract!Next
    <3> QED
      BY <3>1, <3>2
  <2>4. CASE PopHolds(t)' = Null /\ reg'[t].got = {} /\ edited' = edited
    <3>1. Abstract!Return(t)
      BY <2>1, <2>2, <2>4 DEF Abstract!Return
    <3> QED
      BY <3>1 DEF Abstract!Next
  <2> QED
    BY <2>1, <2>3, <2>4
<1> QED
  BY <1>1, <1>2, <1>3

(* No call takes effect when it starts.                                    *)
LEMMA CallRefines ==
  ASSUME CInv, NEW t \in Threads, Call(t)
  PROVE  [Abstract!Next]_(Abstract!vars)
<1>1. CASE Starts(t)
  <2>1. /\ inner' = inner /\ reg' = reg /\ enforce' = enforce /\ edited' = edited
        /\ pc[t] = "idle" /\ Entry(pc'[t], call'[t].method)
        /\ \A u \in Threads \ {t} : pc'[u] = pc[u] /\ call'[u] = call[u]
    BY <1>1, StartShape DEF CInv
  <2>2. pc'[t] # "unlock"
    BY <2>1 DEF Entry
  <2>3. \A u \in Threads : PopHolds(u)' = PopHolds(u)
    BY <2>1, <2>2 DEF PopHolds, Doing, At
  <2>4. UNCHANGED Abstract!vars
    BY <2>1, <2>3 DEF Abstract!vars, Listing
  <2> QED
    BY <2>4
<1>2. CASE SetEnforceNoneq(t)
  <2>1. /\ inner' = inner /\ reg' = reg /\ pc' = pc /\ call' = call
        /\ enforce' \in BOOLEAN /\ edited' = edited
    BY <1>2 DEF SetEnforceNoneq, cells
  <2>2. Abstract!SetNoneq
    BY <2>1 DEF Abstract!SetNoneq, Listing, PopHolds, Doing, At
  <2> QED
    BY <2>2 DEF Abstract!Next
<1> QED
  BY <1>1, <1>2, CallStarts DEF CInv

(* Each push, pop and remove_count takes effect at one moment between its  *)
(* call and its return, its store: the list is a stack without an order    *)
(* function and, with one, sorted, equal items in the order of their       *)
(* pushes or, while enforce_noneq is set, at most one of them let in, until*)
(* a guard of iter_mut changes what the order function compares.           *)
THEOREM ListRefinement ==
  ASSUME StackClients \/ OneWriter
  PROVE  Spec => ImplementsAbstractList
<1>1. Init => Abstract!Init
  <2> SUFFICES ASSUME Init PROVE Abstract!Init
    OBVIOUS
  <2>1. CInv /\ enforce \in BOOLEAN
    BY ClientsInit DEF CInv, TInv, TypeOK
  <2>2. Path(inner, head, Listing) /\ inner[head] = Null
    BY <2>1 DEF CInv, AInv, Shape, Init, CellsInit, Cells
  <2>3. Listing = <<>>
    <3>1. Listing \in Seq(Items) /\ Len(Listing) = 0
      BY <2>2, PathFacts, ListAssumption
    <3> QED
      BY <3>1, EmptySeq
  <2>4. edited = FALSE /\ \A t \in Threads : PopHolds(t) = Null /\ reg[t].got = {}
    BY DEF Init, PopHolds, Doing, At, NoReg
  <2> QED
    BY <2>1, <2>3, <2>4 DEF Abstract!Init
<1>2. CInv /\ [Next]_vars => [Abstract!Next]_(Abstract!vars)
  <2> SUFFICES ASSUME CInv, [Next]_vars PROVE [Abstract!Next]_(Abstract!vars)
    OBVIOUS
  <2>1. CASE UNCHANGED vars
    BY <2>1 DEF vars, cells, Abstract!vars, Listing, PopHolds, Doing, At
  <2> QED
    BY <2>1, ProceedRefines, CallRefines DEF Next
<1> QED
  BY <1>1, <1>2, ClientsSafe, PTL DEF Spec, SafetySpec, ImplementsAbstractList,
     Abstract!Spec
=============================================================================
