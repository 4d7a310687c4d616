----------------------------- MODULE SharedMap -----------------------------
(***************************************************************************)
(* SharedMap<K, V> of src/src/shared_map.rs, on the accesses of SharedList *)
(* that its methods are made of.  An entry (hash, key, value) is an item   *)
(* of the list, ordered by its hash.                                       *)
(*                                                                         *)
(* A key's bucket is hash % capacity, which never changes, and a method    *)
(* goes to one bucket only: buckets share nothing, and this is one of      *)
(* them, with all the keys it gets (a map made by with_capacity(1)).  iter *)
(* is the find of SharedList that stops nowhere, bucket after bucket.      *)
(***************************************************************************)
EXTENDS SharedList

CONSTANTS
  Keys,
  KeyOf,        \* the key of an entry: [Items -> Keys]
  HashOf,       \* hash_key: [Keys -> Nat], not always injective
  MapOpsOf,     \* the methods each thread calls: [Threads -> SUBSET MapOps]
  KeysOf        \* the keys each thread asks for: [Threads -> SUBSET Keys]

MapOps == {"insert", "get", "contains", "remove", "compute_if_absent"}

(* What the closures match: get and the first find of compute_if_absent    *)
(* compare keys, everything else hashes.                                   *)
Entries(k) == {i \in Items : KeyOf[i] = k}
Colliding(k) == {i \in Items : HashOf[KeyOf[i]] = HashOf[k]}

ASSUME MapAssumption ==
  /\ Null \notin Keys
  /\ KeyOf \in [Items -> Keys]
  /\ HashOf \in [Keys -> Nat]
  /\ Key = [i \in Items |-> HashOf[KeyOf[i]]]
  /\ Ordered
  /\ \A k \in Keys : {Entries(k), Colliding(k)} \subseteq Predicates
  /\ MapOpsOf \in [Threads -> SUBSET MapOps]
  /\ KeysOf \in [Threads -> SUBSET Keys]

VARIABLES
  op,         \* the map call of each thread: its arguments and its list call
  found,      \* what a list call of it has returned
  began       \* history: when the call began, the entries in the map or, for
              \* get and contains, those that had left it

mapVars == <<vars, op, found, began>>

(* The list calls: insert is evict (remove_all) and put (push), get,       *)
(* contains and remove are one call, compute_if_absent is seek (find),     *)
(* fill (push) and again (find), with func, its closure, after seek.       *)
Stages == {"evict", "put", "get", "contains", "remove", "seek", "func", "fill", "again"}

NoOp == [stage |-> "none", key |-> Null, item |-> Null]
AtStage(t, stage) == op[t].stage = stage
key(t) == op[t].key

(* u32::MAX, a count that is never used up.                                *)
All == Cardinality(Items) + 1

MapInitUnenforced ==
  /\ Init /\ ~enforce
  /\ op = [t \in Threads |-> NoOp]
  /\ found = [t \in Threads |-> {}]
  /\ began = [t \in Threads |-> {}]

(* with_capacity sets enforce_noneq before anybody else has the list.      *)
MapInit ==
  /\ Init /\ enforce
  /\ op = [t \in Threads |-> NoOp]
  /\ found = [t \in Threads |-> {}]
  /\ began = [t \in Threads |-> {}]

-----------------------------------------------------------------------------
Enter(t, method, stage, k, i) ==
  /\ method \in MapOpsOf[t]
  /\ op[t] = NoOp
  /\ op' = [op EXCEPT ![t] = [stage |-> stage, key |-> k, item |-> i]]
  /\ UNCHANGED found

Update(t, method, stage, i) ==
  /\ i \in ItemsOf[t] \cap unused
  /\ unused' = unused \ {i}
  /\ Enter(t, method, stage, KeyOf[i], i)
  /\ began' = [began EXCEPT ![t] = Listed]
  /\ UNCHANGED calls

MapInsertNotEvicting(t, i) ==
  /\ Update(t, "insert", "put", i)
  /\ StartPush(t, i)

MapInsert(t, i) ==
  /\ Update(t, "insert", "evict", i)
  /\ StartRemove(t, Colliding(KeyOf[i]), All)

ComputeIfAbsent(t, i) ==
  /\ Update(t, "compute_if_absent", "seek", i)
  /\ StartFind(t, Entries(KeyOf[i]))

CountedEnter(t, method, k) ==
  /\ calls < MaxCalls
  /\ calls' = calls + 1
  /\ Enter(t, method, method, k, Null)
  /\ UNCHANGED unused

MapRemove(t, k) ==
  /\ CountedEnter(t, "remove", k)
  /\ StartRemove(t, Colliding(k), 1)
  /\ began' = [began EXCEPT ![t] = Listed]

Left == Items \ (unused \cup Listed \cup {op[u].item : u \in Threads})
Query(t, method, k, want) ==
  /\ CountedEnter(t, method, k)
  /\ StartFind(t, want)
  /\ began' = [began EXCEPT ![t] = Left]

MapGet(t, k) == Query(t, "get", k, Entries(k))
MapContains(t, k) == Query(t, "contains", k, Colliding(k))

-----------------------------------------------------------------------------
(* An access of the list call, and what it returns if it is the last one.  *)
Outcome(t) ==
  CASE At(t, "unlock") /\ Doing(t, "remove_count")            -> reg[t].got
    [] At(t, "getLoad") /\ Doing(t, "find") /\ Matches(t)     -> {Node(t)}
    [] OTHER                                                  -> found[t]

ListStep(t) ==
  /\ Proceed(t)
  /\ found' = [found EXCEPT ![t] = Outcome(t)]
  /\ UNCHANGED <<op, began>>

(* From one list call to the next.                                         *)
Then(t, stage, next) ==
  /\ At(t, "idle") /\ AtStage(t, stage)
  /\ op' = [op EXCEPT ![t].stage = next]
  /\ UNCHANGED <<unused, calls, found, began>>

InsertPut(t) == Then(t, "evict", "put") /\ StartPush(t, op[t].item)

(* The closure of compute_if_absent is called, and returns or panics.  The *)
(* thread holds no lock meanwhile: what func itself does to the map is     *)
(* what another thread may do between these steps.                         *)
ComputeCall(t) ==
  /\ found[t] = {}
  /\ Then(t, "seek", "func")
  /\ UNCHANGED <<cells, len, enforce, pc, call, reg, kept, leaked, edited>>

ComputePanic(t) ==
  /\ AtStage(t, "func")
  /\ Step(t, "idle", "panicked")
  /\ UNCHANGED <<cells, len, enforce, call, reg, unused, calls, kept, leaked, edited,
                 op, found, began>>

ComputeFill(t) == Then(t, "func", "fill") /\ StartPush(t, op[t].item)

ComputeAgainByKey(t) ==
  /\ Then(t, "fill", "again")
  /\ StartFind(t, Entries(key(t)))

ComputeAgain(t) ==
  /\ Then(t, "fill", "again")
  /\ StartFind(t, Colliding(key(t)))

Answers(t) ==
  /\ At(t, "idle")
  /\ \/ op[t].stage \in {"put", "get", "contains", "remove", "again"}
     \/ AtStage(t, "seek") /\ found[t] # {}

Leave(t) ==
  /\ op' = [op EXCEPT ![t] = NoOp]
  /\ found' = [found EXCEPT ![t] = {}]
  /\ began' = [began EXCEPT ![t] = {}]
  /\ kept' = [kept EXCEPT ![t] = {}]
  /\ UNCHANGED pc

(* The call returns what its list calls have found, which the last find of *)
(* compute_if_absent unwraps.                                              *)
Answer(t) ==
  /\ Answers(t)
  /\ IF AtStage(t, "again") /\ found[t] = {}
     THEN Goto(t, "panicked") /\ UNCHANGED <<kept, op, found, began>>
     ELSE Leave(t)
  /\ UNCHANGED <<cells, len, enforce, call, reg, unused, calls, leaked, edited>>

MapCall(t) ==
  \/ \E i \in Items : MapInsert(t, i) \/ ComputeIfAbsent(t, i)
  \/ \E k \in KeysOf[t] : MapGet(t, k) \/ MapContains(t, k) \/ MapRemove(t, k)

MapProceed(t) ==
  \/ ListStep(t)
  \/ InsertPut(t) \/ ComputeCall(t) \/ ComputePanic(t) \/ ComputeFill(t) \/ ComputeAgain(t)
  \/ Answer(t)

MapNext == \E t \in Threads : MapCall(t) \/ MapProceed(t)

MapSpec ==
  /\ MapInit /\ [][MapNext]_mapVars
  /\ \A t \in Threads : WF_mapVars(MapProceed(t))

-----------------------------------------------------------------------------
(* Properties.                                                             *)

(* The types of the variables of the map.                                  *)
MapTypeOK ==
  /\ op \in [Threads -> [stage : Stages \cup {"none"}, key : Keys \cup {Null},
                         item : Nodes]]
  /\ found \in [Threads -> SUBSET Items]
  /\ began \in [Threads -> SUBSET Items]

(* The map as its clients see it: a removal holds what it has unlinked     *)
(* until it answers.                                                       *)
Holds(t) ==
  IF Doing(t, "remove_count") THEN reg[t].got
  ELSE IF op[t].stage \in {"evict", "put", "remove"} THEN found[t] ELSE {}
MapView == INSTANCE AbstractMap WITH
             Hash <- Key, content <- Listed,
             taken <- [t \in Threads |-> Holds(t)]

(* The lists of a map, with one writer, keep at most one entry for each    *)
(* hash though no method looks for a duplicate under the lock it pushes    *)
(* with, and nobody takes an entry that is not there.                      *)
ImplementsAbstractMap == MapView!Spec

(* Nobody writes beside the calls of t, its own func included.             *)
SoleWriter(t) ==
  \A u \in Threads \ {t} : ItemsOf[u] = {} /\ "remove" \notin MapOpsOf[u]

(* What the methods answer for their key: insert replaces and answers for  *)
(* its entry, remove takes it, compute_if_absent returns it, or else the   *)
(* new one.  remove and insert look for the hash of the key, so all of it  *)
(* goes for calls that begin with no other key of that hash in the map;    *)
(* OwnKeyOnly says what becomes of the others.                             *)
Undisputed(t) == began[t] \cap Colliding(key(t)) \subseteq Entries(key(t))
Did(t, content) ==
  LET was == began[t]
      same == was \cap Entries(key(t))
  IN  CASE AtStage(t, "put")    -> found[t] = same /\ content = (was \ same) \cup {op[t].item}
        [] AtStage(t, "remove") -> found[t] = same /\ content = was \ same
        [] AtStage(t, "seek")   -> found[t] = same /\ content = was
        [] AtStage(t, "again")  -> found[t] = {op[t].item} /\ content = was \cup {op[t].item}
        [] OTHER                -> TRUE

WriterAnswers ==
  \A t \in Threads :
    Answers(t) /\ SoleWriter(t) /\ Undisputed(t) => Did(t, Listed)

(* An entry leaves the map only by a call that was given its key: the      *)
(* doc comment of remove (shared_map.rs:110-111).                          *)
OwnKeyOnly ==
  [][\A i \in Listed \ Listed' :
       \E t \in Threads : op[t].stage \in {"evict", "remove"} /\ key(t) = KeyOf[i]]_mapVars

(* get and contains, beside a writer, answer for no entry that had left    *)
(* the map before they were called, get for no other key, contains for no  *)
(* key of another hash, and both miss no entry of their key that is there  *)
(* from beginning to end.                                                  *)
Wanted(t) == IF AtStage(t, "get") THEN Entries(key(t)) ELSE Colliding(key(t))
ReaderAnswers ==
  \A t \in Threads :
    Answers(t) /\ op[t].stage \in {"get", "contains"} =>
      /\ found[t] \subseteq Wanted(t) \ began[t]
      /\ found[t] = {} => kept[t] \cap Entries(key(t)) = {}

(* The unwrap of compute_if_absent does not fail as long as nobody else    *)
(* removes: whatever kept the push from inserting is found instead.        *)
ComputeNeverPanics ==
  \A t \in Threads : SoleWriter(t) /\ At(t, "panicked") => ~AtStage(t, "again")

(* Every call of the map returns or panics: its list calls end, each with  *)
(* the locks free that the next one waits for.                             *)
MapCallsEnd == \A t \in Threads : op[t] # NoOp ~> op[t] = NoOp \/ At(t, "panicked")
=============================================================================
