-------------------------------- MODULE BitSet --------------------------------
(***************************************************************************)
(* BitSet of src/src/bit_set.rs: a set of u32 indices in a list of bytes.  *)
(* A byte is the set of its bits that are 1, so |= 1 << b, &= !(1 << b)    *)
(* and & are union, difference and intersection.  The list has no byte     *)
(* for the indices behind the last one that was ever inserted, and keeps   *)
(* bytes that removals have emptied.                                       *)
(*                                                                         *)
(* Two bit sets that are filled, thinned out, cloned and compared.         *)
(***************************************************************************)
EXTENDS Integers, Sequences

CONSTANTS
  Sets,       \* the bit sets
  Indices     \* the indices inserted and removed

ASSUME IndicesNat == Indices \subseteq Nat

VARIABLES
  internal,   \* BitSet::internal of each bit set
  members     \* history: the indices inserted and not removed since

vars == <<internal, members>>

Bytes == SUBSET (0 .. 7)

(* Positions in the list count from 1.                                     *)
Segment(idx) == idx \div 8 + 1
BitUnmasked(idx) == idx
Bit(idx) == idx % 8

contains(bytes, idx) ==
  Segment(idx) \in DOMAIN bytes /\ Bit(idx) \in bytes[Segment(idx)]

(* A byte that is not there yet is put behind the zero bytes of the gap.   *)
insertWithoutGap(bytes, idx) ==
  IF Segment(idx) \in DOMAIN bytes
  THEN [bytes EXCEPT ![Segment(idx)] = @ \cup {Bit(idx)}]
  ELSE Append(bytes, {Bit(idx)})

insert(bytes, idx) ==
  IF Segment(idx) \in DOMAIN bytes
  THEN [bytes EXCEPT ![Segment(idx)] = @ \cup {Bit(idx)}]
  ELSE [k \in 1 .. Segment(idx) |->
          IF k <= Len(bytes) THEN bytes[k]
          ELSE IF k = Segment(idx) THEN {Bit(idx)} ELSE {}]

removeByte(bytes, idx) ==
  IF Segment(idx) \in DOMAIN bytes
  THEN [bytes EXCEPT ![Segment(idx)] = {}] ELSE bytes

remove(bytes, idx) ==
  IF Segment(idx) \in DOMAIN bytes
  THEN [bytes EXCEPT ![Segment(idx)] = @ \ {Bit(idx)}] ELSE bytes

(* The loop of matches, which ends with the longer list and returns false  *)
(* in the first turn that finds a difference.                              *)
matchLonger(longer, shorter) ==
  \A k \in DOMAIN longer :
    IF k \in DOMAIN shorter THEN longer[k] = shorter[k] ELSE longer[k] = {}

matchesPrefix(self, other) ==
  \A k \in DOMAIN self \cap DOMAIN other : self[k] = other[k]

matches(self, other) ==
  IF Len(self) < Len(other) THEN matchLonger(other, self)
                            ELSE matchLonger(self, other)

(* The loop of is_subset, which ends with self and returns false in the    *)
(* first turn that finds a bit the other has not got, or finds no byte of  *)
(* the other to compare an empty byte with.                                *)
is_subsetPrefix(self, super_set) ==
  \A k \in DOMAIN self \cap DOMAIN super_set : self[k] \subseteq super_set[k]

is_subset(self, super_set) ==
  \A k \in DOMAIN self :
    IF k \in DOMAIN super_set
    THEN self[k] \subseteq super_set[k]
    ELSE self[k] # {} /\ self[k] \subseteq {}

-----------------------------------------------------------------------------
Init ==
  /\ internal = [s \in Sets |-> <<>>]
  /\ members = [s \in Sets |-> {}]

(* insert; insert_all and insert_slice are repeated inserts.               *)
Insert(s, idx) ==
  /\ internal' = [internal EXCEPT ![s] = insert(@, idx)]
  /\ members' = [members EXCEPT ![s] = @ \cup {idx}]

Remove(s, idx) ==
  /\ internal' = [internal EXCEPT ![s] = remove(@, idx)]
  /\ members' = [members EXCEPT ![s] = @ \ {idx}]

(* The derived Clone.                                                      *)
Clone(s, from) ==
  /\ internal' = [internal EXCEPT ![s] = internal[from]]
  /\ members' = [members EXCEPT ![s] = members[from]]

Next ==
  \E s \in Sets :
    \/ \E idx \in Indices : Insert(s, idx) \/ Remove(s, idx)
    \/ \E from \in Sets : Clone(s, from)

Spec == Init /\ [][Next]_vars

-----------------------------------------------------------------------------
(* Properties.                                                             *)

(* The types of the variables; the bits of a byte are below eight.         *)
TypeOK ==
  /\ internal \in [Sets -> Seq(Bytes)]
  /\ members \in [Sets -> SUBSET Indices]

(* contains answers for the indices that were inserted and not removed     *)
(* since, whatever gaps and emptied bytes the calls have left.             *)
ContainsExact ==
  \A s \in Sets, idx \in Indices :
    contains(internal[s], idx) <=> idx \in members[s]

(* No byte holds a bit of an index that was never inserted.                *)
NoStrayBits ==
  \A s \in Sets : \A k \in DOMAIN internal[s] : \A b \in internal[s][k] :
    8 * (k - 1) + b \in members[s]

(* matches tells whether two bit sets hold the same indices, in whatever   *)
(* order they are given and whatever the lengths their histories left.     *)
MatchesExact ==
  \A s, u \in Sets : matches(internal[s], internal[u]) <=> members[s] = members[u]

(* is_subset never takes for a subset what is none, and recognises every   *)
(* subset whose list of bytes is not the longer one.                       *)
SubsetSound ==
  \A s, u \in Sets :
    /\ is_subset(internal[s], internal[u]) => members[s] \subseteq members[u]
    /\ members[s] \subseteq members[u] /\ Len(internal[s]) <= Len(internal[u])
         => is_subset(internal[s], internal[u])

(* bit_set.rs:103: is_subset "returns true if self is a subset of the      *)
(* given super set".  The code breaks it when self has an emptied byte     *)
(* behind the last byte of the super set.                                  *)
SubsetExact ==
  \A s, u \in Sets :
    members[s] \subseteq members[u] => is_subset(internal[s], internal[u])
=============================================================================
