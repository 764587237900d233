---------------------------- MODULE RelationCache ----------------------------
(***************************************************************************)
(* internal/containers/relationcache.go: the relations a replication slot  *)
(* has described, in a slice that is indexed by relation id less the       *)
(* smallest id seen, and that moves and grows when an id lies outside.     *)
(***************************************************************************)
EXTENDS Integers

CONSTANTS
  Oids,      \* relation ids
  Values,    \* what is stored for them
  Missing,   \* a nil element of the slice
  MaxUint    \* the largest uint32

(***************************************************************************)
(* PostgreSQL gives no relation the id 0, and the ids of one database lie  *)
(* close enough together for the size of the slice to be a uint32.         *)
(***************************************************************************)
ASSUME OidAssumption ==
  /\ MaxUint \in Nat
  /\ Oids \subseteq 1 .. MaxUint
  /\ \A a, b \in Oids : 3 * (b - a + 1) <= 2 * MaxUint

ASSUME MissingAssumption == Missing \notin Values

VARIABLES
  cache,       \* the slice, a function from 0 .. size - 1
  size,        \* its length
  lowerBound,  \* 0 as long as nothing is stored
  upperBound

cacheVars == <<cache, size, lowerBound, upperBound>>

(***************************************************************************)
(* A slice as make() returns it.                                           *)
(***************************************************************************)
Nils(n) == [i \in 0 .. n - 1 |-> Missing]

NewRelationCache ==
  /\ size = 0
  /\ cache = Nils(0)
  /\ lowerBound = 0
  /\ upperBound = 0

location(oid, lower) == oid - lower

Bounded(oid) == lowerBound <= oid /\ oid <= upperBound

(***************************************************************************)
(* The value of an id, or Missing.                                         *)
(***************************************************************************)
Get(oid) ==
  IF Bounded(oid) /\ size # 0 THEN cache[location(oid, lowerBound)] ELSE Missing

NewLower(oid) == IF lowerBound = 0 \/ lowerBound > oid THEN oid ELSE lowerBound
NewUpper(oid) == IF upperBound < oid THEN oid ELSE upperBound

NeedsResizing(oid) == lowerBound = 0 \/ lowerBound > oid \/ upperBound < oid

(***************************************************************************)
(* A faulty variant: the span of the bounds for the number of ids.         *)
(***************************************************************************)
NewCacheSizeShort(lower, upper) == ((3 * (upper - lower)) \div 2) % (MaxUint + 1)

(***************************************************************************)
(* The number of ids between the bounds and half as many again, cut off to *)
(* a whole number and to its width.                                        *)
(***************************************************************************)
NewCacheSize(lower, upper) == ((3 * (upper - lower + 1)) \div 2) % (MaxUint + 1)

(***************************************************************************)
(* A faulty variant: the elements stay where they are.                     *)
(***************************************************************************)
DiffNone(lower) == 0

(***************************************************************************)
(* How far the old elements move up.                                       *)
(***************************************************************************)
Diff(lower) == IF lowerBound > lower THEN lowerBound - lower ELSE 0

(***************************************************************************)
(* copy() stops where the shorter slice ends.                              *)
(***************************************************************************)
Moved(n, diff) ==
  [i \in 0 .. n - 1 |-> IF i >= diff /\ i - diff < size THEN cache[i - diff] ELSE Missing]

Resized(oid) ==
  IF NeedsResizing(oid)
    THEN Moved(NewCacheSize(NewLower(oid), NewUpper(oid)), Diff(NewLower(oid)))
    ELSE cache

Set(oid, value) ==
  /\ lowerBound' = NewLower(oid)
  /\ upperBound' = NewUpper(oid)
  /\ size' = IF NeedsResizing(oid) THEN NewCacheSize(NewLower(oid), NewUpper(oid)) ELSE size
  /\ cache' = [Resized(oid) EXCEPT ![location(oid, NewLower(oid))] = value]

CacheNext == \E oid \in Oids, value \in Values : Set(oid, value)

CacheSpec == NewRelationCache /\ [][CacheNext]_cacheVars

(***************************************************************************)
(* The bounds, the length and the elements are what their types allow.     *)
(***************************************************************************)
CacheTypeOK ==
  /\ lowerBound \in 0 .. MaxUint
  /\ upperBound \in 0 .. MaxUint
  /\ size \in 0 .. MaxUint
  /\ cache \in [0 .. size - 1 -> Values \cup {Missing}]

(***************************************************************************)
(* Neither Get (relationcache.go:61) nor Set (relationcache.go:97) of any  *)
(* id reaches outside the slice: every id between the bounds has a place.  *)
(***************************************************************************)
InBounds == \A oid \in Oids : Bounded(oid) => location(oid, lowerBound) \in 0 .. size - 1

(***************************************************************************)
(* What the bounds say of the slice: every id between them has a place,    *)
(* and the places behind the last one are free, so that an id that widens  *)
(* the bounds does not uncover what another one left there.                *)
(***************************************************************************)
CacheInv ==
  /\ CacheTypeOK
  /\ lowerBound = 0 => upperBound = 0 /\ size = 0
  /\ lowerBound # 0 => /\ lowerBound \in Oids /\ upperBound \in Oids
                       /\ lowerBound <= upperBound
                       /\ upperBound - lowerBound < size
  /\ \A i \in 0 .. size - 1 : upperBound - lowerBound < i => cache[i] = Missing

(***************************************************************************)
(* Growing at either end keeps what is stored: the slice implements a map. *)
(***************************************************************************)
Map == INSTANCE RelationMap WITH known <- [oid \in Oids |-> Get(oid)]

ImplementsMap == Map!Spec

===============================================================================
