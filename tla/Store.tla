-------------------------------- MODULE Store --------------------------------
(***************************************************************************)
(* The sharded store of src/store.go, which holds the response cache.      *)
(*                                                                         *)
(* Get and the locked part of Add are atomic (each holds its shard's lock);*)
(* the total n is raised after the unlock, in a step of its own. The steps *)
(* belong to the goroutines of the module that uses the store: here are    *)
(* the state they share and what each step does to it.                     *)
(*                                                                         *)
(* A key is a natural number, and key & (shards-1) is key % Shards.        *)
(***************************************************************************)
EXTENDS Integers, FiniteSets

CONSTANTS
  Keys,             \* hashes that occur, a set of numbers
  Shards,           \* number of shards
  Capacity,         \* capacity asked for; zero or less asks for the default
  DefaultCapacity,
  NoItem            \* what an absent key maps to

ASSUME StoreAssumption ==
  /\ Keys \subseteq Nat
  /\ IsFiniteSet(Keys)
  /\ Shards \in Nat \ {0}
  /\ Capacity \in Int
  /\ DefaultCapacity \in Nat \ {0}

VARIABLES
  items,  \* item of each key, over all shards
  n       \* total number of items, as far as counted

storeVars == <<items, n>>

\* newStore: the capacity is divided among the shards, rounded up.
ShardSize ==
  LET asked == IF Capacity <= 0 THEN DefaultCapacity ELSE Capacity
      size  == (asked + Shards - 1) \div Shards
  IN  IF size < 1 THEN 1 ELSE size

Shard(k) == k % Shards

Present == {k \in Keys : items[k] # NoItem}

InShard(s) == {k \in Present : Shard(k) = s}

StoreInit ==
  /\ items = [k \in Keys |-> NoItem]
  /\ n = 0

FullLate(k) == k \notin Present /\ Cardinality(InShard(Shard(k))) > ShardSize

\* A new key finds its shard full: an arbitrary item makes room.
Full(k) == k \notin Present /\ Cardinality(InShard(Shard(k))) >= ShardSize

GrowsOnEviction(k) == k \notin Present

\* Whether adding k makes the store larger: one out, one in does not.
Grows(k) == k \notin Present /\ ~Full(k)

\* The locked part of Add.
Insert(k, item) ==
  \E victim \in IF Full(k) THEN InShard(Shard(k)) ELSE {k} :
    items' = [j \in Keys |-> IF j = k THEN item
                             ELSE IF j = victim THEN NoItem ELSE items[j]]

-----------------------------------------------------------------------------
\* No shard outgrows its share of the capacity.
ShardsBounded == \A k \in Keys : Cardinality(InShard(Shard(k))) <= ShardSize
=============================================================================
