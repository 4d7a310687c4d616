---------------------------- MODULE BitSetProofs ----------------------------
(***************************************************************************)
(* Proofs about BitSet, for any bit sets and any indices: the list of      *)
(* bytes represents the set of indices, and matches and is_subset compare  *)
(* what the lists represent.                                               *)
(***************************************************************************)
EXTENDS BitSet, SequenceTheorems, TLAPS

(* An index is one bit of one byte, and the other way round.               *)
LEMMA IndexSplits ==
  ASSUME NEW idx \in Nat
  PROVE  /\ Segment(idx) \in Nat \ {0}
         /\ Bit(idx) \in 0 .. 7
         /\ idx = 8 * (Segment(idx) - 1) + Bit(idx)
BY DEF Segment, Bit

LEMMA IndexJoins ==
  ASSUME NEW k \in Nat \ {0}, NEW b \in 0 .. 7
  PROVE  /\ 8 * (k - 1) + b \in Nat
         /\ Segment(8 * (k - 1) + b) = k
         /\ Bit(8 * (k - 1) + b) = b
BY DEF Segment, Bit

(* insert and remove change one bit, and make no byte but those of gaps.   *)
LEMMA InsertBits ==
  ASSUME NEW bytes \in Seq(Bytes), NEW idx \in Nat
  PROVE  LET new == insert(bytes, idx)
         IN  /\ new \in Seq(Bytes)
             /\ \A j \in Nat : contains(new, j) <=> j = idx \/ contains(bytes, j)
<1> DEFINE new == insert(bytes, idx)
<1>1. Segment(idx) \in Nat \ {0} /\ Bit(idx) \in 0 .. 7
  BY IndexSplits
<1>2. CASE Segment(idx) \in DOMAIN bytes
  <2>1. new = [bytes EXCEPT ![Segment(idx)] = @ \cup {Bit(idx)}]
    BY <1>2 DEF insert
  <2>2. new \in Seq(Bytes) /\ DOMAIN new = DOMAIN bytes
    BY <1>1, <1>2, <2>1 DEF Bytes
  <2>3. \A j \in Nat : contains(new, j) <=> j = idx \/ contains(bytes, j)
    BY <1>1, <1>2, <2>1, <2>2, IndexSplits DEF contains
  <2> QED
    BY <2>2, <2>3
<1>3. CASE Segment(idx) \notin DOMAIN bytes
  <2>1. new = [k \in 1 .. Segment(idx) |->
                 IF k <= Len(bytes) THEN bytes[k]
                 ELSE IF k = Segment(idx) THEN {Bit(idx)} ELSE {}]
    BY <1>3 DEF insert
  <2>2. \A k \in 1 .. Segment(idx) : new[k] \in Bytes
    BY <1>1, <2>1 DEF Bytes
  <2>3. new \in Seq(Bytes) /\ DOMAIN new = 1 .. Segment(idx)
    <3>1. new \in [1 .. Segment(idx) -> Bytes]
      BY <2>1, <2>2
    <3> HIDE DEF new
    <3> QED
      BY <1>1, <3>1, SeqDef
  <2>4. Len(bytes) < Segment(idx) /\ DOMAIN bytes = 1 .. Len(bytes) /\ Len(bytes) \in Nat
    BY <1>1, <1>3
  <2>5. ASSUME NEW j \in Nat
        PROVE  contains(new, j) <=> j = idx \/ contains(bytes, j)
    <3>1. Segment(j) \in Nat \ {0} /\ (Segment(j) = Segment(idx) /\ Bit(j) = Bit(idx) <=> j = idx)
      BY IndexSplits
    <3>2. CASE Segment(j) > Segment(idx)
      BY <1>1, <2>3, <2>4, <3>1, <3>2 DEF contains
    <3>3. CASE Segment(j) <= Segment(idx)
      <4>1. Segment(j) \in 1 .. Segment(idx)
        BY <1>1, <3>1, <3>3
      <4>2. new[Segment(j)] = IF Segment(j) <= Len(bytes) THEN bytes[Segment(j)]
                              ELSE IF Segment(j) = Segment(idx) THEN {Bit(idx)} ELSE {}
        BY <2>1, <4>1
      <4> HIDE DEF new
      <4> QED
        BY <1>1, <2>3, <2>4, <3>1, <4>1, <4>2 DEF contains
    <3> QED
      BY <1>1, <3>1, <3>2, <3>3
  <2> QED
    BY <2>3, <2>5
<1> QED
  BY <1>2, <1>3

LEMMA RemoveBits ==
  ASSUME NEW bytes \in Seq(Bytes), NEW idx \in Nat
  PROVE  LET new == remove(bytes, idx)
         IN  /\ new \in Seq(Bytes)
             /\ \A j \in Nat : contains(new, j) <=> j # idx /\ contains(bytes, j)
<1> DEFINE new == remove(bytes, idx)
<1>1. Segment(idx) \in Nat \ {0} /\ Bit(idx) \in 0 .. 7
  BY IndexSplits
<1>2. CASE Segment(idx) \in DOMAIN bytes
  <2>1. new = [bytes EXCEPT ![Segment(idx)] = @ \ {Bit(idx)}]
    BY <1>2 DEF remove
  <2>2. new \in Seq(Bytes) /\ DOMAIN new = DOMAIN bytes
    BY <1>1, <1>2, <2>1 DEF Bytes
  <2>3. \A j \in Nat : contains(new, j) <=> j # idx /\ contains(bytes, j)
    BY <1>1, <1>2, <2>1, <2>2, IndexSplits DEF contains
  <2> QED
    BY <2>2, <2>3
<1>3. CASE Segment(idx) \notin DOMAIN bytes
  BY <1>3, IndexSplits DEF remove, contains
<1> QED
  BY <1>2, <1>3

-----------------------------------------------------------------------------
(* The inductive invariant: bytes and history agree on every index there   *)
(* is, not only on those of Indices.                                       *)
Represents ==
  \A s \in Sets : \A j \in Nat : contains(internal[s], j) <=> j \in members[s]

IInv == TypeOK /\ Represents

LEMMA IInvInit == Init => IInv
BY IndicesNat DEF Init, IInv, TypeOK, Represents, contains

LEMMA IInvStep == IInv /\ [Next]_vars => IInv'
<1> SUFFICES ASSUME IInv, [Next]_vars PROVE IInv'
  OBVIOUS
<1> USE IndicesNat
<1>1. ASSUME NEW s \in Sets, NEW idx \in Indices, Insert(s, idx)
      PROVE  IInv'
  <2>1. /\ insert(internal[s], idx) \in Seq(Bytes)
        /\ \A j \in Nat : contains(insert(internal[s], idx), j)
                            <=> j = idx \/ contains(internal[s], j)
    BY InsertBits DEF IInv, TypeOK
  <2>2. TypeOK'
    BY <1>1, <2>1 DEF Insert, IInv, TypeOK
  <2>3. Represents'
    BY <1>1, <2>1 DEF Insert, IInv, TypeOK, Represents
  <2> QED
    BY <2>2, <2>3 DEF IInv
<1>2. ASSUME NEW s \in Sets, NEW idx \in Indices, Remove(s, idx)
      PROVE  IInv'
  <2>1. /\ remove(internal[s], idx) \in Seq(Bytes)
        /\ \A j \in Nat : contains(remove(internal[s], idx), j)
                            <=> j # idx /\ contains(internal[s], j)
    BY RemoveBits DEF IInv, TypeOK
  <2>2. TypeOK'
    BY <1>2, <2>1 DEF Remove, IInv, TypeOK
  <2>3. Represents'
    BY <1>2, <2>1 DEF Remove, IInv, TypeOK, Represents
  <2> QED
    BY <2>2, <2>3 DEF IInv
<1>3. ASSUME NEW s \in Sets, NEW from \in Sets, Clone(s, from)
      PROVE  IInv'
  BY <1>3 DEF Clone, IInv, TypeOK, Represents
<1>4. CASE UNCHANGED vars
  BY <1>4 DEF vars, IInv, TypeOK, Represents
<1> QED
  BY <1>1, <1>2, <1>3, <1>4 DEF Next

THEOREM Invariance == Spec => []IInv
BY IInvInit, IInvStep, PTL DEF Spec

-----------------------------------------------------------------------------
(* Bytes as sets of indices.                                               *)

LEMMA ByteHolds ==
  ASSUME IInv, NEW s \in Sets, NEW k \in DOMAIN internal[s], NEW b \in 0 .. 7
  PROVE  b \in internal[s][k] <=> 8 * (k - 1) + b \in members[s]
<1>1. k \in Nat \ {0}
  BY DEF IInv, TypeOK
<1> QED
  <2> DEFINE j == 8 * (k - 1) + b
  <2>1. j \in Nat /\ Segment(j) = k /\ Bit(j) = b
    BY <1>1, IndexJoins
  <2> HIDE DEF j
  <2>2. b \in internal[s][k] <=> j \in members[s]
    BY <2>1 DEF IInv, Represents, contains
  <2> QED
    BY <2>2 DEF j

LEMMA ByteBits ==
  ASSUME IInv, NEW s \in Sets, NEW k \in DOMAIN internal[s]
  PROVE  internal[s][k] \subseteq 0 .. 7
BY DEF IInv, TypeOK, Bytes

LEMMA MemberHolds ==
  ASSUME IInv, NEW s \in Sets, NEW j \in members[s]
  PROVE  /\ Segment(j) \in DOMAIN internal[s]
         /\ Bit(j) \in internal[s][Segment(j)]
BY IndicesNat DEF IInv, TypeOK, Represents, contains

LEMMA HeldIsMember ==
  ASSUME IInv, NEW s \in Sets, NEW j \in Nat, Segment(j) \in DOMAIN internal[s],
         Bit(j) \in internal[s][Segment(j)]
  PROVE  j \in members[s]
BY DEF IInv, Represents, contains

LEMMA LongerMatches ==
  ASSUME IInv, NEW s \in Sets, NEW u \in Sets, Len(internal[s]) >= Len(internal[u])
  PROVE  matchLonger(internal[s], internal[u]) <=> members[s] = members[u]
<1>1. /\ members[s] \subseteq Nat /\ members[u] \subseteq Nat
      /\ DOMAIN internal[u] \subseteq DOMAIN internal[s]
  <2>1. members[s] \in SUBSET Indices /\ members[u] \in SUBSET Indices
    BY DEF IInv, TypeOK
  <2>2. internal[s] \in Seq(Bytes) /\ internal[u] \in Seq(Bytes)
    BY DEF IInv, TypeOK
  <2>3. /\ DOMAIN internal[s] = 1 .. Len(internal[s]) /\ Len(internal[s]) \in Nat
        /\ DOMAIN internal[u] = 1 .. Len(internal[u]) /\ Len(internal[u]) \in Nat
    BY <2>2
  <2>4. DOMAIN internal[u] \subseteq DOMAIN internal[s]
    BY <2>3
  <2> QED
    BY <2>1, <2>4, IndicesNat
<1>2. ASSUME matchLonger(internal[s], internal[u])
      PROVE  members[s] = members[u]
  <2>1. ASSUME NEW j \in members[s] PROVE j \in members[u]
    BY <1>1, <1>2, MemberHolds, HeldIsMember DEF matchLonger
  <2>2. ASSUME NEW j \in members[u] PROVE j \in members[s]
    BY <1>1, <1>2, MemberHolds, HeldIsMember DEF matchLonger
  <2> QED
    BY <2>1, <2>2
<1>3. ASSUME members[s] = members[u], NEW k \in DOMAIN internal[s]
      PROVE  IF k \in DOMAIN internal[u] THEN internal[s][k] = internal[u][k]
                                         ELSE internal[s][k] = {}
  <2>1. CASE k \in DOMAIN internal[u]
    <3>1. \A b \in 0 .. 7 : b \in internal[s][k] <=> b \in internal[u][k]
      BY <1>3, <2>1, ByteHolds
    <3>2. internal[s][k] \subseteq 0 .. 7 /\ internal[u][k] \subseteq 0 .. 7
      BY <2>1, ByteBits
    <3>3. internal[s][k] = internal[u][k]
      BY <3>1, <3>2
    <3> QED
      BY <2>1, <3>3
  <2>2. CASE k \notin DOMAIN internal[u]
    <3>1. ASSUME NEW b \in internal[s][k] PROVE FALSE
      <4>1. b \in 0 .. 7 /\ k \in Nat \ {0}
        BY ByteBits DEF IInv, TypeOK
      <4>2. 8 * (k - 1) + b \in members[u]
        BY <1>3, <4>1, ByteHolds
      <4> QED
        <5>1. Segment(8 * (k - 1) + b) = k
          BY <4>1, IndexJoins
        <5>2. Segment(8 * (k - 1) + b) \in DOMAIN internal[u]
          BY <4>2, MemberHolds
        <5> QED
          BY <2>2, <5>1, <5>2
    <3> QED
      BY <2>2, <3>1
  <2> QED
    BY <2>1, <2>2
<1> QED
  BY <1>2, <1>3 DEF matchLonger

-----------------------------------------------------------------------------
(* The theorems.                                                           *)

(* Whatever is inserted, removed and cloned, the bytes are bytes.          *)
THEOREM TypeCorrect == Spec => []TypeOK
<1>1. IInv => TypeOK
  BY DEF IInv
<1> QED
  BY <1>1, Invariance, PTL

(* contains answers for what was inserted and not removed since.           *)
THEOREM ContainsIsExact == Spec => []ContainsExact
<1>1. IInv => ContainsExact
  BY IndicesNat DEF IInv, Represents, ContainsExact
<1> QED
  BY <1>1, Invariance, PTL

(* No byte holds a bit that was never inserted.                            *)
THEOREM BytesHoldNoMore == Spec => []NoStrayBits
<1>1. IInv => NoStrayBits
  BY ByteHolds, ByteBits DEF NoStrayBits
<1> QED
  BY <1>1, Invariance, PTL

(* matches is equality of the sets of indices.                             *)
THEOREM MatchesIsEquality == Spec => []MatchesExact
<1>1. ASSUME IInv PROVE MatchesExact
  <2>1. \A s \in Sets : Len(internal[s]) \in Nat
    BY <1>1 DEF IInv, TypeOK
  <2> QED
    BY <1>1, <2>1, LongerMatches DEF MatchesExact, matches
<1> QED
  BY <1>1, Invariance, PTL

(* is_subset finds subsets only, and every one that has no more bytes.     *)
THEOREM SubsetIsSound == Spec => []SubsetSound
<1>1. ASSUME IInv PROVE SubsetSound
  <2>1. ASSUME NEW s \in Sets, NEW u \in Sets, is_subset(internal[s], internal[u]),
               NEW j \in members[s]
        PROVE  j \in members[u]
    BY <1>1, <2>1, IndicesNat, MemberHolds, HeldIsMember DEF is_subset, IInv, TypeOK
  <2>2. ASSUME NEW s \in Sets, NEW u \in Sets, members[s] \subseteq members[u],
               Len(internal[s]) <= Len(internal[u])
        PROVE  is_subset(internal[s], internal[u])
    <3>1. DOMAIN internal[s] \subseteq DOMAIN internal[u]
      BY <1>1, <2>2 DEF IInv, TypeOK
    <3>2. ASSUME NEW k \in DOMAIN internal[s]
          PROVE  internal[s][k] \subseteq internal[u][k]
      BY <1>1, <2>2, <3>1, ByteHolds, ByteBits
    <3> QED
      BY <3>1, <3>2 DEF is_subset
  <2> QED
    BY <2>1, <2>2 DEF SubsetSound
<1> QED
  BY <1>1, Invariance, PTL
=============================================================================
