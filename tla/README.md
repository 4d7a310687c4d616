# A TLA+ model of mutual

`mutual` (`src/`) is a Rust library of data structures that threads share: a
reader/writer spin lock, a copy-on-write cell, a linked list made of such cells,
a hash map and a set made of such lists, and a sequential bit set. Everything
that is concurrent is built from atomics, spin loops and `ArcSwap`; there is no
queue, no I/O and nothing that survives a crash. What is hard is the
interleaving of short sequences of atomic accesses, and that is what the modules
model: **one action per atomic access**.

## The system

| component | source | state | operations |
|---|---|---|---|
| RelaxedMutex | `relaxed_mutex.rs` | `refs` (counter of guards), `locked`, the data | `lock_ref`, `lock_mut`, the cast variants, the drops of four kinds of guard |
| CowData | `cow_data.rs` | `inner` (an `ArcSwap<Option<T>>`), `mut_lock`, `imm_lock`, all shared by clones | `set`, `set_null`, `bump_into_null`, `swap`, `get_ref`, `get_mut` and its guard, `create_lock`/`remove_lock`, `is_null`, `get_arc_swap` |
| SharedList | `shared_list2.rs` | `head` and one `next` per node (lock protected `CowData`), `len`, `enforce_noneq`, the order function | `push`, `extend`, `pop`, `drain`, `remove`, `remove_search`, `remove_all`, `remove_count`, `find`, `find_map`, `contains`, `iter`, `iter_mut` |
| SharedMap | `shared_map.rs` | a fixed array of ordered SharedLists | `insert`, `get`, `contains`, `remove`, `compute_if_absent`, `iter` |
| SharedSet | `shared_set.rs` | a SharedMap with unit values | forwards to SharedMap |
| BitSet | `bit_set.rs` | a list of bytes | `insert`, `insert_all`, `remove`, `contains`, `matches`, `is_subset`, `is_superset` |
| guards and traits | `lib.rs` | none | type-erased `Ref` and `Mut`, trait declarations |
| shared_list.rs | `shared_list.rs` | | not compiled: `lib.rs` does not declare it |

How they interact. SharedList calls `CowData` method by method, and takes the
`mut_lock` of a cell by `create_lock` around its own loads and stores of
`get_arc_swap()`; readers take no lock. SharedMap calls SharedList method by
method and holds nothing between two calls. RelaxedMutex and BitSet stand alone.
The library calls its clients back in three places: the order function of a list
and the predicates of its searches, which the model takes to be pure, and `func`
of `compute_if_absent`, which may take its time, panic, or call the map again:
no lock is held while it runs.

What makes each component correct, and where it is hard:

* *RelaxedMutex*: `refs` counts exactly the guards there are, although the
  writer's drop clears the flag first and uncounts itself later; writers are
  alone when they are granted; nobody waits for ever. The gap between a reader's
  test of the flag and its increment is the hard part.
* *CowData*: `mut_lock` is one mutex around differently shaped critical
  sections; `imm_lock` must be free once nobody uses it, although its loop
  (`while !imm_lock.swap(true)`) is inverted: it is left when the flag *was*
  set, so it admits any number of threads. A guard of `get_mut` leaves `mut_lock`
  set for good; nothing else may.
* *SharedList*: calls take effect at one moment, `len` counts each exactly once,
  readers do not overlook items while nodes are unlinked and cells are
  refilled under them, and every exit of a walk frees the lock it holds. A guard
  of `iter_mut` stores a changed copy of a node, which can break the order.
* *SharedMap*: at most one entry per hash, and answers that fit what was in the
  map, between list calls that are atomic at best one by one. `get` compares
  keys, everything else hashes, so a key whose hash is another's is the hard
  input: there the code does not do what its comments say (`OwnKeyOnly`); an insert beside a removal is the hard interleaving.
* *BitSet*: two lists of different lengths may be the same set.

`PROJECT.json` lists the hazards line by line, with the properties that watch
each.

## The modules

| module | models | remarks |
|---|---|---|
| `AccessLock` | what RelaxedMutex delivers | abstract: guards and updates, no counter |
| `RelaxedMutex` | `relaxed_mutex.rs` | `ImplementsAccessLock` refines AccessLock |
| `RelaxedMutexProofs` | | its theorems |
| `CowCells` | the storage of `cow_data.rs` | variables and atomic accesses, no methods: CowData and SharedList put them together |
| `CowData` | the methods of `cow_data.rs` | EXTENDS CowCells |
| `CowDataProofs` | | its theorems |
| `AbstractList` | what SharedList promises | abstract: a sequence |
| `SharedList` | `shared_list2.rs` | INSTANCEs CowCells, refines AbstractList |
| `SharedListProofs` | | theorems about any clients: types, locks, panics |
| `SharedListPaths` | | lemmas about sequences and paths of cells, used by the next two |
| `SharedListAtomicProofs` | | theorems about the shape of the list and what finds see |
| `SharedListRefinementProofs` | | theorems about `len`, and the refinement of AbstractList |
| `AbstractMap` | what SharedMap promises | abstract: a set of entries |
| `SharedMap` | `shared_map.rs` | EXTENDS SharedList: its actions start list calls and take their results; refines AbstractMap |
| `SharedMapProofs` | | its theorems |
| `SharedSet` | `shared_set.rs` | EXTENDS SharedMap, three of its calls |
| `BitSet` | `bit_set.rs` | methods as operators, then a state machine of two sets |
| `BitSetProofs` | | its theorems |
| `MC*` | | constants for TLC |

Conventions. `pc[t]` is the access thread `t` makes next; a place is named after
it, and `Step(t, from, to)` makes the access. A spin loop is an action that is enabled when the loop would be left; its
failing turns change nothing (the loops on `imm_lock` do change the flag and are
modelled turn by turn). `At`, `Goto`, `Step` and `Return` read and move `pc`. An operator
whose name is that of an action plus a past participle or a qualifier
(`MutDropUncounted`, `LockSkipped`, `removeByte`) is a deliberately wrong variant
of it, not used by the specification: each property is known to fail when one of
these takes the action's place.

**RelaxedMutex.** `RefCheck`, `RefInc`, `RefDrop` are the load, the `fetch_add`
and the `fetch_sub` of a reader; `MutSwap`, `MutInc`, `MutGrant` those of
`create_mut_lock`; `MutUnlock` and `MutDrop` the two steps of the guard's drop.
`MutLoad` and `MutStore` are one `*guard += 1`, in two steps so that a lost
update could be seen. A thread has one guard at a time, as the examples of
`src/README.md:51-57` require.

**CowCells, CowData.** `inner[c]`, `mutLock[c]`, `immLock[c]` are the three
fields of a cell; clones of a CowData are the same cell. `ArcSwap` is an atomic
register. `TakeMutLock` succeeds at once on cells that are not lock protected.
Each method is a path through the places; `set`, `set_null` and
`bump_into_null` share one, with `nullWait`, `nullLoad` before it and `fill` in
it for the latter. `reg[t]` is what the thread has loaded or holds in its guard.
`None` can be stored by `set_null` and through `get_arc_swap`. `leaked` is
history: the protected cells that a guard was dropped on. `MethodsOf` and
`CellsOf` say what each thread of an instance calls on which cells.

**SharedList.** A push allocates one node and one cell, so the model names both
after the item, and `inner[i]` is the cell *behind* item `i`. All methods use
the accesses they have in common (`Lock`, `Test`, `GetTest`, `Unlock`, ...) and
differ in where they go next. `PushFind`, `PopFind`, `RemoveFind`,
`FindHit`/`FindNext`, `MutFind` are the load of a `get_ref` with what each
method does with the node; `PushSkip` and `PushCompare` the load of
`enforce_noneq` that follows in a push, and the order function. `rank[c]` is what
the order function compares of the node that is in cell `c` now: the `Key` of the
item, until a guard of `iter_mut` is dropped (`MutDrop`), whose client may have
given its copy any rank of `Edits`. A copy shares the `next` cell of its original
and keeps its name, so predicates, `kept` and the listing take it for the same
item: they stand for what looks at parts that a write leaves alone. A guard
without a value panics when it is dropped (`GetPanic`). Where a panic unwinds
into the drop of another panicking guard the process aborts; the model stops the
thread.
`kept`, `leaked` and `edited` are history: the items listed
ever since a find began, the cells left locked by a dropped `MutCowData`, and
whether one has changed a rank; no guard of an action reads them. `len` wraps at
`LenMod`.

**SharedMap, SharedSet.** An entry `(hash, key, value)` is an item of the list:
`KeyOf` is its key, `HashOf` the hash of a key, by which the list is ordered. A
method goes to the bucket `hash % capacity`, `capacity` never changes and buckets
have nothing in common, so the module is one bucket with all the keys it gets,
the map of `with_capacity(1)`. `op[t].stage` is the list call a method is in:
`insert` is `evict` (`remove_all`) and `put` (`push`), `get`, `contains` and
`remove` are one call, `compute_if_absent` is `seek`, `func` (its closure runs),
`fill` and `again`. `ComputeCall` calls the closure, which returns
(`ComputeFill`) or panics (`ComputePanic`); between the two any other thread may
do what the closure itself would do to the map.
`ListStep` is any access of SharedList; `found[t]` is what the last find or
removal has returned; `InsertPut`, `ComputeFill` and `ComputeAgain` go from one
list call to the next, and `Answer` returns, or panics at the `unwrap` of
`compute_if_absent`. `All` stands for the count `u32::MAX` of `remove_all`.
`began` is history: what was in the map when a writer's call began, or had left
it when a reader's did. `iter` is the iteration of SharedList, bucket after
bucket, and has no action of its own.

**BitSet.** A byte is the set of its 1 bits, so `|`, `&` and masks are set
operations; loops are quantifiers over the turns they make. `members` is
history.

## The runs

| run | instance | shows |
|---|---|---|
| `relaxed_mutex` | 3 threads, 2 updates | counter exact, writers exclude each other, no lost update (refinement), writers admitted, lock never left closed |
| `relaxed_mutex_readers` | 2 threads | *violation*: a reader and a writer hold guards together |
| `cow_data` | 3 threads (every method; `set` and `swap`; `get_ref` of the protected cell), a protected and an unprotected cell, a value and None, any number of calls | `mut_lock` is a mutex that only guards of `get_mut` leak, and protects the cell from all but the lock-free writes; `imm_lock` is always cleared; `is_null` goes on when the updates pause |
| `list_stack` | 3 threads (two writers, one reader), 3 items, 3 other calls, unordered | the list is a linearizable stack, `len` exact, finds complete, writers never panic, calls end |
| `list_ordered` | a writer with every method beside a reader, 3 items two of them equal, 2 other calls, with and without `enforce_noneq` | the list is a sorted list, with and without duplicates; every walk frees its locks; guards of `iter_mut` write ranks 0 and 3, below and above all others |
| `list_panic` | a find beside a push and a pop | *violation*: the find panics |
| `list_order` | two pushes, ordered, empty list | *violation*: the list ends unsorted |
| `map` | a writer with `insert`, `remove` and `compute_if_absent` beside a reader with `get` and `contains`, 4 entries of 3 keys, two keys with one hash, 1 call that inserts nothing | at most one entry per hash, nothing taken twice, the writer's calls answer by their contract unless keys collide, the reader's always, `compute_if_absent` never panics by itself, calls end |
| `map_collision` | an insert beside a remove of another key with the same hash | *violation*: the entry of the other key is removed |
| `set_hang` | two threads with every method, 2 values, 1 call that inserts nothing | *violation*: an insert beside a remove waits for itself |
| `bit_set` | 2 sets, indices 0, 7, 8, 15, 24 | bytes represent sets, `matches` is equality, `is_subset` sound |
| `bit_set_subset` | the same | *violation*: a subset with an emptied last byte is denied |

Bounds. `Threads`: three in RelaxedMutex, because its hardest moment needs a
writer being granted, another one half dropped and a reader admitted earlier;
the theorems cover any number. `MaxData` = 2: an update is lost by two. In
CowData each call touches two cells at most, and nothing bounds the number of
calls: a thread between calls keeps nothing, so the states are finite. Two
threads that update give every crossing of two swaps, or of a swap and a method
that takes `mut_lock`, and the third waits for them; one value and None make the
cells differ, and a guard load None. Two threads with every method are what
`MutLockIsMutex` and its neighbours prove, for any number.
Initial states range over all contents. In SharedList three items make a head, a
middle and a tail; with two of them equal, pushed in all orders, they meet every
position of a sorted list and a duplicate; `MaxCalls` bounds the calls other than
push: with three in the unordered list two pops, of one thread or two, come
between any steps of a find; with two in the ordered one a `remove_count`, which
may remove every item, does. `Counts` = {1, 5} is "the first match" and "all". `LenMod` = 4 exceeds the
three items, so that a wrap is one below zero and never an overflow. In SharedMap two entries have
one key, and two other keys share the hash that comes after it: a replacement at
the head, a collision, and a second position in the bucket. Inserts remove, too,
so that with `MaxCalls` = 1 a reader can still meet removals at each of its
accesses, of the entry it stands on and of the one behind it, and the one other
call of the writer meets every content of the map; the reader asks for a key that
is behind the replaced entry, and that another key's entry may take the place of.
The indices
of BitSet are both ends of two bytes and one behind a gap; the theorems cover all.

Fairness is `WF_vars(Proceed(t))` (`MapProceed` in SharedMap and SharedSet) for every thread: the operating system runs
every thread, so a thread inside a call makes its next access, and guards are
dropped some day. It does not promise that a particular spinning thread wins a
lock. `WriterAdmitted` needs no more, because the flag keeps new readers out.
Nothing keeps new updates from overtaking a reader of CowData, so `ReadersReturn`
says "or calls keep coming to the `imm_lock`s for ever", and the calls of its run
are unbounded: without that clause TLC finds readers starved by a stream of
swaps, and even by swaps of *another* cell, which hold up a swap between its two
loops. `CallsEnd` and `MapCallsEnd` hold because the number of calls is bounded.
Calls, and further writes through a guard, carry no fairness.

Runs in which threads may stop for good (a panic, a leaked lock) have the
deadlock check off; `CallsEnd` and `ReadersReturn` say what must not stop.

## The proofs

All theorems are for arbitrary constants.

**RelaxedMutexProofs** (assumes `Threads` finite, `MaxData` a number). The
inductive invariant `IInv` is `TypeOK`, `RefsCountGuards`, `WriterExclusion` and
`FreshCopy` ("a writer about to write back has the latest value"). None is
inductive alone: a guard is granted alone because `refs` counts guards
(`CountedAlone`: a count of one leaves only the caller), writers exclude each
other because the flag has one owner, and an update is not lost because of that.
From it: `TypeCorrect`, `Accounting`, `MutualExclusion` and `Refinement`, that
every step is a step of AccessLock or a stutter.

**CowDataProofs** (assumes `Protected ⊆ Cells`, `Null ∈ Contents`, known methods
and cells). `IInv` is `TypeOK`, `MutLockMutex`, `ImmLockAccounted`,
`OnlyGuardsLeak`, and `UnprotectedFree`: no call sets the flag of an unprotected
cell, and none would clear it. The types carry the fact the rest stands on: a thread inside
a call has the cells of the call, and they do not change before it returns. From
them: `TypeCorrect`, `MutLockIsMutex`, `ImmLockCleared`, `GuardsAloneLeak`, and `OwnerNotDisturbed`,
an action property: only six actions store into a cell, three of them as the
owner of its `mut_lock`, who is unique, and the other three are the writes that
take no lock.

**BitSetProofs** (assumes indices are natural numbers). `Represents` says that
bytes and history agree on *every* number; it follows from what `insert` and
`remove` do to one bit (`InsertBits`, `RemoveBits`), which rest on the division
of an index into byte and bit. From it: `ContainsIsExact`, `BytesHoldNoMore`,
`MatchesIsEquality`, `SubsetIsSound`.

**SharedListProofs** (assumes that `head`, `Null` and the items differ, and that
the constants have their types). `TypeCorrect` is for every list. Its invariant
`TInv` adds to `TypeOK` that a method follows or stores a node only after it has
found one (`NodeKnown`), that `remove_count` counts down from above zero
(`CountPositive`), and which places belong to one method (`MethodKnown`): without
them, `cur` could move on to `Null` and `count` go below zero. `WritersSafe` is
for lists without an order function, with any number of threads that call every
method. What must hold is `NodeStays`: the cell that a `pop` or a `remove_count`
has found non-null stays so until it has loaded it. That needs `OneHolder` (the
lock of a cell has one holder, and whoever stores what may be `Null` into a cell
holds its lock) and `PendingNowhere`: a push writes a second cell, that of its
new node, without a lock, which disturbs nobody because the node is nowhere in
the list yet. `OnPath`, the places each method comes to, ties them together.
Both are checked access by access: `Elsewhere` and `InnerKept` say what an access
leaves alone. With an order function a push frees locks that it does not hold,
so `OneHolder` is false and the argument ends there.

The other theorems about SharedList speak of the list that the cells make, and
hold for two kinds of clients, whose instances the runs `list_stack` and
`list_ordered` check:

* `StackClients`: no order function, nobody calls `remove_count`; any number of
  threads push, pop, find and iterate mutably;
* `OneWriter`: one thread calls every method, on a list with or without an order
  function, and any number of threads find beside it.

Beyond them they are false: a `pop` beside a `remove_count` undoes its removal,
and two ordered pushes lose an item (see below). They assume that `Threads` and
`Items` are finite, because AbstractList and `LenExact` count them.

**SharedListPaths.** The listing is a fold over the cells, `ListOf`, whose bound
is `Cardinality(Items)`. `Path(next, c, s)` says without recursion that `s` is
what is met from cell `c` on, without repetitions and up to a null cell;
`PathListed` proves, by the pigeonhole of `PathLength`, that the listing is the
only path from `head`, and `PathInsert`, `PathRemove`, `PathRest`,
`PathElsewhere` what a store does to one. `InsertSet` and `RemoveSet` are about the sets of
their entries. From there on no proof opens the recursion.

**SharedListAtomicProofs.** The invariant is `CInv`. `Shape` (the listing is a
path) is preserved by a store only if the store is `Inserts` (it links a new node
behind `cur`) or `Removes` (it skips the node after `cur`), `StoreEffect`, and
that only if what the writer has loaded is what is there: `Found`. `Found` in turn needs that
nobody else stores meanwhile, `Alone`. It is not assumed: it follows from
`OneHolder` for stack clients, all of whose writers hold the lock of `head`
while they are `Busy`, and from `Apart` for one writer (`AloneHolds`). `Copies` says that
what a dropped `MutCowData` stores is what the cell points to already, `Fresh`
which locals have not been set, `OrderKnown` where an ordered push has come to.
For readers `ReaderSees` says that from the cell a find has come to there is a path
to all the items that it must not miss, *even if that cell has left the list*:
the path is not a suffix of the listing, and a store must be traced along both
(`AheadInserted`, `AheadRemoved`). From them: `ListIsPath`, `FindsMissNothing`,
`LinksStayAscending`, and for one writer `OneWriterSorts` and `OneWriterSafe`.

**SharedListRefinementProofs.** `LenCounts`: the accounting of `len` is invariant
modulo `LenMod`, in the form `Balance = q * LenMod` for some integer `q`, so that
a step changes it by the wrap of one addition (`Wraps`). `ListRefinement`: `Init`
maps to `Init`, and each access is a step of AbstractList or a stutter. A push is
`Push` at its store (`PushTakesEffect`: the position at which the path grows is
the one that AbstractList counts out, which needs that the entries before `cur`
are below the new one, and those after it above), a `pop` is `Pop` and each removal
of `remove_count` `Take` (`TakeTakesEffect`), the return is `Return`, and
the other accesses stutter.

**SharedMapProofs** (assumes of the closures that they are among the predicates
of the list, and that `Key` is the hash of an entry's key). A map call is a
sequence of list calls, so the invariants of the list are carried over from
those of one list call to the next and need a bridge: what a list call returns
to its map call, and that the next one starts on the list as it is then.

* For *any clients*, `MInv` adds to the invariants `TInv` and `GInv` of the list
  that each list call is the one its stage makes, with the key's closures
  (`Fits`), and that the entry which a call is to insert is its own and nowhere
  in the list until it is pushed (`Held`): without it a push could link a node
  that is linked already. `MapTypeCorrect` says so of every map.
* The other theorems are for *one thread that inserts, removes and computes,
  beside any number that get and ask* (`SoleWriter(w)`, the clients of the run
  `map`; others do break them, see below). `UInv(w)` says that the others are in
  no call but a get or a contains (`OnlyReads`), whence the list has one writer
  and `AInv` holds. `MapRefinement`: a push lets in an entry only if none has its
  hash (`PushFits`), which the refinement of the list says of the *sorted*
  list, and a removal takes what is there (`TakeFits`).
* `ReadersServed` needs more than that a find misses nothing: `Gone` says that
  what had left the map when a call began stays away (it is neither unused nor the
  entry of a call), and `Seeks` that the path ahead of a reader, which may stand
  on a node no longer listed, leads to nothing that had left. `QInv` is for
  the readers what `ReaderSees` is for finds, with that second half.
* `WriterServed` and `ComputeSafe` follow the calls of `w` from stage to stage
  (`Updates`). `Removing`: a removal has taken only what has the hash of its key,
  and what is left of it lies on the path ahead. Since `Distinct` says that an
  entry is the only one of its hash, it is done when it has taken one, which is
  why the count 1 of `remove` and the `u32::MAX` of `remove_all` come to the same.
  `Putting`: after the removal of `insert` no entry is equal to the pushed one, so
  that its push is not given up. `Filling`: a push of `compute_if_absent` is given
  up exactly if there is an entry of the hash, so that in either case the last
  find (`Looking`) finds the only one there is (`FoundAgain`). That is in terms of
  hashes (`DidByHash`); for a key whose hash no other key in the map has it is
  what the methods promise (`ByKey`). The two theorems
  need no hypothesis: the properties say of which threads and calls they speak.

Only model-checked: the liveness properties (`WriterAdmitted`, `NeverAbandoned`,
`ReadersReturn`, `CallsEnd`, `MapCallsEnd`), because liveness under fairness is
beyond the prover. Every safety invariant, action property and refinement that a
passing run checks is a theorem, with these restrictions: `WritersNeverPanic` is
proved of lists without an order function and of one writer; what concerns the
order, `len`, finds and the refinement of a list of the two kinds of clients
above; the map's refinement and readers with one thread that updates. There the
runs check no more than the theorems do. `TypeCorrect` of CowData and of
SharedList and `MapTypeCorrect` are proved only: as properties of a run they
would say little.

## What the checks found

* *RelaxedMutex* (`relaxed_mutex_readers`): the promise that a mutable guard
  blocks immutable ones is not kept, see `ReadersExcluded`. What is kept is that
  a writer that has the flag is admitted, whatever readers come (`WriterAdmitted`).
* *CowData*: `MutCowData::drop` cannot clear `mut_lock`, so a
  lock protected cell stays locked after its first `get_mut`, although a mutable
  access "will be blocked until previous mutable locks are dropped"
  (`cow_data.rs:10-11`). `iter_mut` of a list therefore locks every cell it visits
  for good. No run is needed to see it (`leaked` grows at each `MutDrop`);
  `OnlyGuardsLeak` shows that nothing else leaks.
* *SharedList* (`list_panic`): readers test and load in two accesses; a pop in
  between makes them panic. (`list_order`): `push` decides whether to order its
  item before it takes the lock.
* *SharedMap, SharedSet* (`set_hang`): that look at the head is stale in another
  way, too. If a remove empties the bucket before the push has locked it, the
  push meets the end of the list at the head and calls `current.set`, which waits
  for the lock that the push holds. The bucket is lost to every later writer.
* *SharedMap* (`map_collision`): `remove` "attempts to remove a value for the given
  key" and "if none is found, nothing is removed" (`shared_map.rs:110-111`), but it
  looks for the hash of the key and takes the entry of any key that has it. So do
  `insert` when it replaces, and `contains` ("a value for the given key",
  `shared_map.rs:101-102`) when it answers; only `get`, and the first find of
  `compute_if_absent`, compare keys.
* *BitSet* (`bit_set_subset`): see `SubsetExact`.

Seen while modelling, without a run: `current_thread_using` of RelaxedMutex
always returns false; `may_block_ref` and
`may_block_mut` of CowData return false though `get_ref` and `get_mut` spin;
`len()` is below zero, which is a huge number, while a pop has counted and a push
has not; an ordered `push` frees the lock of every cell it leaves, whoever holds
it; concurrent ordered pushes at one cell can lose an item; a `pop` beside a
`remove_count` can undo its removal and return an item twice. Of the map: two
inserts of one key into an empty bucket leave two entries; a `get` between the
two list calls of an `insert` misses a key that was there before and is there
after; the `unwrap` of `compute_if_absent` panics if a `remove` comes between its
push and its find; if `func` inserts the key itself, the push is dropped in
silence and the value of `func` lost; with colliding hashes the other key's value
is returned.

## Not modelled

* Weak memory. The modules are sequentially consistent. The reader's drop of
  RelaxedMutex is `fetch_sub(Acquire)`, which releases nothing; a module of
  release and acquire edges is planned.
* The inside of `ArcSwap` and `Arc`, a dependency: an atomic register, and
  garbage that nobody frees.
* Order functions and predicates that change their answers, or call the list.
  Writes through `iter_mut` are modelled by what the order function compares; that
  they change what a *predicate* looks at is not.
* Threads that hold two guards at once, or call `remove_lock` without
  `create_lock`: misuse, against the library's own examples.
* `Ref`, `Mut` and the traits of `lib.rs`: no shared state. Encoding of BitSet:
  a copy of the bytes. `shared_list.rs`: not compiled.
* `with_capacity(0)`, which divides by zero in every method. `hash_key` is the
  constant `HashOf`, injective or not.

## Plan

Done, in this order: RelaxedMutex (the lock everything promises to be like),
CowCells and CowData (the cell the list is made of), SharedList on CowCells,
BitSet, SharedMap on SharedList, SharedSet. Next:

1. More clients of SharedList and SharedMap: `pop` beside `remove_count` (the
   store after a removal of the next node), two ordered pushes that meet in the
   middle of a list, two inserts of one key. All are instances of the existing
   modules.
2. Proofs about more clients: what remains true of a list with two ordered
   writers, or with a `pop` beside a `remove_count`, and SharedSet on
   SharedMapProofs.
3. Memory order of RelaxedMutex: vector clocks for the release and acquire edges
   of `refs` and `locked`, and the absence of a data race between a reader's
   guard and the next writer's, on two threads.
