------------------------------- MODULE HashMap -------------------------------
(***************************************************************************)
(* The chained hash map of utils/hashmap.c, which holds every symbol table *)
(* of the compiler: the scopes of the checker (variables, values, types)   *)
(* and those of the code generator (variables, parameters).                *)
(*                                                                         *)
(* buckets[i] is the chain hanging off slot i, as a sequence of nodes; the *)
(* empty sequence is the NULL slot.  last[i] is the `last' pointer of the  *)
(* chain's first node, named by the key of the node it points at.          *)
(*                                                                         *)
(* map_resize leaves behind slots the program does not own: `stale' slots  *)
(* still hold the address of a node that is being, or has been, freed, and *)
(* `unset' slots are the part of the array realloc added and nobody wrote. *)
(* Reading an unset slot may find NULL or rubbish; following rubbish or a  *)
(* freed node is undefined behaviour, after which nothing is claimed.      *)
(***************************************************************************)
EXTENDS Integers, Sequences, FiniteSets, SequencesExt

CONSTANTS Keys,          \* the strings used as keys
          Values,        \* the void* values, Null among them
          Null,          \* the NULL pointer
          Hash,          \* map->function, the hash of each key
          InitSize,      \* the 16 slots init_hashmap allocates
          MaxCollisions, \* HASHMAP_MAX_COLLISIONS
          ShrinkDivisor, \* 32, the `>> 5' of map_removen
          MaxItems       \* bound: no key is added once item_count is this high

ASSUME KeysAssumption == Null \in Values /\ Null \notin Keys
ASSUME HashAssumption == Hash \in [Keys -> Nat]
ASSUME SizeAssumption == /\ InitSize \in Nat \ {0}
                         /\ MaxCollisions \in Nat
                         /\ ShrinkDivisor \in Nat \ {0, 1}
                         /\ MaxItems \in Nat

VARIABLES buckets,         \* the chain of every slot
          last,            \* first->last of every chain
          stale,           \* slots left pointing at nodes map_resize frees
          unset,           \* slots realloc added, not yet read or written
          buckets_size, item_count, bucket_count, collision_count,
          pending,         \* all_buckets: the nodes map_resize has yet to
                           \* re-add, under the slot they come from
          call,            \* the map_addn or map_removen that is resizing
          status,          \* "ok", "deleted", or "undefined"
          reply            \* the last operation, its key, and the value it was given
                           \* or returned

counters == <<item_count, bucket_count, collision_count>>
table == <<buckets, last, stale, unset, buckets_size>>
vars == <<buckets, last, stale, unset, buckets_size, item_count, bucket_count,
          collision_count, pending, call, status, reply>>

Node == [key : Keys, value : Values]
NoCall == [op |-> "none", key |-> Null, value |-> Null]
Call == {NoCall} \cup [op : {"add", "remove"}, key : Keys, value : Values]

Answer(o, k, r) == [op |-> o, key |-> k, out |-> r]
NoAnswer == Answer("none", Null, Null)

Slots == 0 .. buckets_size - 1
Index(k) == Hash[k] % buckets_size

\* Where the chain walk finds key k in chain c: 0 when it reaches the end.
Find(c, k) == IF \E j \in 1 .. Len(c) : c[j].key = k
              THEN CHOOSE j \in 1 .. Len(c) : c[j].key = k
              ELSE 0

NoNodes == [i \in {} |-> <<>>]
AllRehashed == \A i \in DOMAIN pending : pending[i] = <<>>

Running == status = "ok"
Resizing == call # NoCall
Idle == Running /\ ~Resizing

\* As the two checks would be with the comparison off by one.
GrowDueEarly == collision_count >= MaxCollisions
ShrinkDueEarly == item_count <= buckets_size \div ShrinkDivisor

GrowDue == collision_count > MaxCollisions
ShrinkDue == item_count < buckets_size \div ShrinkDivisor

-----------------------------------------------------------------------------
Init == /\ buckets = [i \in 0 .. InitSize - 1 |-> <<>>]
        /\ last = [i \in 0 .. InitSize - 1 |-> Null]
        /\ stale = {} /\ unset = {}
        /\ buckets_size = InitSize
        /\ item_count = 0 /\ bucket_count = 0 /\ collision_count = 0
        /\ pending = NoNodes /\ call = NoCall
        /\ status = "ok" /\ reply = NoAnswer

\* The slot of k is followed although nobody knows what it points at.
Undefined(k) == /\ Index(k) \in stale \cup unset
                /\ status' = "undefined"
                /\ UNCHANGED <<table, counters, pending, call, reply>>

\* The slot of k is owned, or is unset memory that happens to hold NULL.
Readable(k) == /\ Index(k) \notin stale
               /\ unset' = unset \ {Index(k)}
               /\ UNCHANGED <<stale, buckets_size, status>>

-----------------------------------------------------------------------------
(* map_addn after its resize check: the three ways the walk can end.       *)

NewBucket(k, v) ==
    /\ buckets[Index(k)] = <<>>
    /\ buckets' = [buckets EXCEPT ![Index(k)] = <<[key |-> k, value |-> v]>>]
    /\ last' = [last EXCEPT ![Index(k)] = k]
    /\ bucket_count' = bucket_count + 1
    /\ item_count' = item_count + 1
    /\ UNCHANGED collision_count

\* As Overwrite would be if it wrote to the first node of the chain.
OverwriteFirst(k, v) ==
    /\ Find(buckets[Index(k)], k) # 0
    /\ buckets' = [buckets EXCEPT ![Index(k)][1].value = v]
    /\ UNCHANGED <<last, counters>>

Overwrite(k, v) ==
    /\ Find(buckets[Index(k)], k) # 0
    /\ buckets' = [buckets EXCEPT ![Index(k)][Find(buckets[Index(k)], k)].value = v]
    /\ UNCHANGED <<last, counters>>

\* As Collide would be if it counted the collision as a bucket.
CollideAsBucket(k, v) ==
    /\ buckets[Index(k)] # <<>>
    /\ Find(buckets[Index(k)], k) = 0
    /\ buckets' = [buckets EXCEPT ![Index(k)] = Append(@, [key |-> k, value |-> v])]
    /\ last' = [last EXCEPT ![Index(k)] = k]
    /\ item_count' = item_count + 1
    /\ bucket_count' = bucket_count + 1
    /\ UNCHANGED collision_count

Collide(k, v) ==
    /\ buckets[Index(k)] # <<>>
    /\ Find(buckets[Index(k)], k) = 0
    /\ buckets' = [buckets EXCEPT ![Index(k)] = Append(@, [key |-> k, value |-> v])]
    /\ last' = [last EXCEPT ![Index(k)] = k]
    /\ item_count' = item_count + 1
    /\ collision_count' = collision_count + 1
    /\ UNCHANGED bucket_count

Insert(k, v) == Readable(k) /\ (NewBucket(k, v) \/ Overwrite(k, v) \/ Collide(k, v))

\* As Unlink would be if `last' stayed where it is.
UnlinkLastStays(k) ==
    LET i == Index(k)
        c == buckets[i]
        j == Find(c, k)
    IN  /\ Readable(k)
        /\ buckets' = IF j = 0 THEN buckets ELSE [buckets EXCEPT ![i] = RemoveAt(c, j)]
        /\ UNCHANGED <<last, counters>>

\* As Unlink would be if it counted a bucket less, whether there is such a node or not.
UnlinkCounted(k) ==
    LET i == Index(k)
        c == buckets[i]
        j == Find(c, k)
    IN  /\ Readable(k)
        /\ IF j = 0 THEN UNCHANGED <<buckets, last>>
           ELSE /\ buckets' = [buckets EXCEPT ![i] = RemoveAt(c, j)]
                /\ last' = [last EXCEPT ![i] = IF Len(c) = 1 THEN Null
                                               ELSE IF j = Len(c) THEN c[j - 1].key
                                               ELSE @]
        /\ item_count' = item_count - 1 /\ bucket_count' = bucket_count - 1
        /\ UNCHANGED collision_count

\* map_removen after its resize check: unlink the node, if there is one.  The
\* counters are left alone; `last' moves when the last node of several goes.
Unlink(k) ==
    LET i == Index(k)
        c == buckets[i]
        j == Find(c, k)
    IN  /\ Readable(k)
        /\ IF j = 0 THEN UNCHANGED <<buckets, last>>
           ELSE /\ buckets' = [buckets EXCEPT ![i] = RemoveAt(c, j)]
                /\ last' = [last EXCEPT ![i] = IF Len(c) = 1 THEN Null
                                               ELSE IF j = Len(c) THEN c[j - 1].key
                                               ELSE @]
        /\ UNCHANGED counters

-----------------------------------------------------------------------------
(* map_resize.  The loop that links the chains follows all_buckets->last   *)
(* and then current->last, so an empty slot after a chain is a NULL        *)
(* dereference, and so may be a slot that is stale or was never written.   *)
(* realloc keeps the old pointers and clears nothing it adds.              *)

Gap == \E i, j \in Slots : i < j /\ buckets[i] # <<>> /\ buckets[j] = <<>>

BeginResize(newSize, c) ==
    \/ /\ Gap \/ stale # {} \/ unset # {}
       /\ status' = "undefined"
       /\ UNCHANGED <<table, counters, pending, call, reply>>
    \/ /\ ~Gap /\ stale = {}
       /\ pending' = buckets
       /\ buckets_size' = newSize
       /\ buckets' = [i \in 0 .. newSize - 1 |-> IF i \in Slots THEN buckets[i] ELSE <<>>]
       /\ last' = [i \in 0 .. newSize - 1 |-> IF i \in Slots THEN last[i] ELSE Null]
       /\ stale' = {i \in 0 .. newSize - 1 : i \in Slots /\ buckets[i] # <<>>}
       /\ unset' = {i \in 0 .. newSize - 1 : i \notin Slots}
       /\ call' = c
       /\ UNCHANGED <<counters, status, reply>>

\* The node being re-added is the very one its stale slot points at: it finds
\* itself, nothing is inserted, and the node is freed under the slot.
FindsItself(n) == /\ Index(n.key) \in stale
                  /\ Head(buckets[Index(n.key)]) = n

\* As RehashNode would be if the loop did not move on from a node that finds itself.
RehashNodeStays(i) ==
    LET n == Head(pending[i])
    IN  \/ /\ ~FindsItself(n)
           /\ Insert(n.key, n.value)
           /\ pending' = [pending EXCEPT ![i] = Tail(@)]
           /\ UNCHANGED <<call, reply>>
        \/ /\ ~FindsItself(n)
           /\ Undefined(n.key)

\* One turn of the loop that re-adds a node, in slot order, and frees it.
RehashNode(i) ==
    LET n == Head(pending[i])
    IN  \/ /\ Insert(n.key, n.value)
           /\ pending' = [pending EXCEPT ![i] = Tail(@)]
           /\ UNCHANGED <<call, reply>>
        \/ /\ FindsItself(n)
           /\ pending' = [pending EXCEPT ![i] = Tail(@)]
           /\ UNCHANGED <<table, counters, call, status, reply>>
        \/ /\ ~FindsItself(n)
           /\ Undefined(n.key)

Rehash == /\ Running /\ Resizing
          /\ \E i \in DOMAIN pending :
                /\ pending[i] # <<>>
                /\ \A j \in DOMAIN pending : j < i => pending[j] = <<>>
                /\ RehashNode(i)

-----------------------------------------------------------------------------
(* The operations of hashmap.h.                                            *)

MapAdd(k, v) == /\ Idle /\ ~GrowDue
                /\ \/ /\ Insert(k, v)
                      /\ reply' = Answer("add", k, v)
                      /\ UNCHANGED <<pending, call>>
                   \/ Undefined(k)

MapAddGrows(k, v) == /\ Idle /\ GrowDue
                     /\ BeginResize(2 * buckets_size,
                                    [op |-> "add", key |-> k, value |-> v])

MapRemove(k) == /\ Idle /\ ~ShrinkDue
                /\ \/ /\ Unlink(k)
                      /\ reply' = Answer("remove", k, Null)
                      /\ UNCHANGED <<pending, call>>
                   \/ Undefined(k)

MapRemoveShrinks(k) == /\ Idle /\ ShrinkDue
                       /\ BeginResize(buckets_size \div 2,
                                      [op |-> "remove", key |-> k, value |-> Null])

\* The call that had to resize does its own work once every node is re-added.
Resume == /\ Running /\ Resizing /\ AllRehashed
          /\ \/ /\ \/ call.op = "add" /\ Insert(call.key, call.value)
                   \/ call.op = "remove" /\ Unlink(call.key)
                /\ call' = NoCall
                /\ pending' = NoNodes
                /\ reply' = Answer(call.op, call.key, call.value)
             \/ Undefined(call.key)

MapGet(k) ==
    /\ Idle
    /\ \/ /\ Readable(k)
          /\ LET c == buckets[Index(k)]
             IN  reply' = Answer("get", k, IF Find(c, k) = 0 THEN Null ELSE c[Find(c, k)].value)
          /\ UNCHANGED <<buckets, last, counters, pending, call>>
       \/ Undefined(k)

\* As MapContains would be if it looked at the first node alone.
MapContainsFirst(k) ==
    /\ Idle
    /\ \/ /\ Readable(k)
          /\ reply' = Answer("contains", k, Find(buckets[Index(k)], k) = 1)
          /\ UNCHANGED <<buckets, last, counters, pending, call>>
       \/ Undefined(k)

MapContains(k) ==
    /\ Idle
    /\ \/ /\ Readable(k)
          /\ reply' = Answer("contains", k, Find(buckets[Index(k)], k) # 0)
          /\ UNCHANGED <<buckets, last, counters, pending, call>>
       \/ Undefined(k)

\* Every slot is followed: the keys listed are those of the nodes met.
Listed == {k \in Keys : \E i \in Slots : Find(buckets[i], k) # 0}

MapKeys == /\ Idle
           /\ IF stale = {} /\ unset = {}
              THEN /\ reply' = Answer("keys", Null, Listed)
                   /\ UNCHANGED <<table, counters, pending, call, status>>
              ELSE /\ status' = "undefined"
                   /\ UNCHANGED <<table, counters, pending, call, reply>>

DelHashmap == /\ Idle
              /\ status' = IF stale = {} /\ unset = {} THEN "deleted" ELSE "undefined"
              /\ UNCHANGED <<table, counters, pending, call, reply>>

Add == /\ item_count < MaxItems
       /\ \E k \in Keys, v \in Values : MapAdd(k, v) \/ MapAddGrows(k, v)
Delete == \E k \in Keys : MapRemove(k) \/ MapRemoveShrinks(k)
Query == (\E k \in Keys : MapGet(k) \/ MapContains(k)) \/ MapKeys

Next == Add \/ Delete \/ Query \/ Rehash \/ Resume \/ DelHashmap

Spec == Init /\ [][Next]_vars

\* A call that has begun to resize runs to its end: the loops of map_resize and
\* the rest of the call are the program's own steps, and nothing waits in them.
FairSpec == Spec /\ WF_vars(Rehash) /\ WF_vars(Resume)

\* How the compiler uses its symbol tables: nothing is ever removed.
AddOnlyNext == Add \/ Query \/ Rehash \/ Resume \/ DelHashmap
AddOnlySpec == Init /\ [][AddOnlyNext]_vars
-----------------------------------------------------------------------------
(* Properties.                                                             *)

TableOK ==
    /\ buckets_size \in Nat \ {0}
    /\ buckets \in [Slots -> Seq(Node)]
    /\ last \in [Slots -> Keys \cup {Null}]
    /\ stale \subseteq Slots /\ unset \subseteq Slots
    /\ item_count \in Nat /\ bucket_count \in Nat /\ collision_count \in Nat

ControlOK ==
    /\ DOMAIN pending \subseteq Nat
    /\ pending \in [DOMAIN pending -> Seq(Node)]
    /\ call \in Call
    /\ status \in {"ok", "deleted", "undefined"}

TypeOK == TableOK /\ ControlOK

\* The chain c of slot i is one a lookup can rely on: every key is in the slot its
\* hash selects, no key is there twice, and first->last, l, is the chain's end.
SoundChain(i, c, l) ==
    /\ \A j \in 1 .. Len(c) : Index(c[j].key) = i
    /\ \A j, m \in 1 .. Len(c) : c[j].key = c[m].key => j = m
    /\ l = IF c = <<>> THEN Null ELSE c[Len(c)].key

\* Whatever sequence of adds, removals and resizes has run, the chains of the
\* slots map_resize has not left dangling are sound: map_removen's upkeep of
\* `next' and `last' (hashmap.c:240-256) and map_addn's (:103-128) agree.
ChainsSound == \A i \in Slots \ stale : SoundChain(i, buckets[i], last[i])

\* Removals never correct the counters, yet the growth check cannot miss a long
\* chain: collision_count counts at least the collisions of any one chain.
CollisionsCounted == \A i \in Slots \ stale : Len(buckets[i]) <= collision_count + 1

\* item_count and the two counters it is made of are updated together on every
\* path of map_addn, resizes included.
CountersAgree == item_count = bucket_count + collision_count

\* The keys in the slots that no resize has left dangling.
Owned == {k \in Keys : Index(k) \notin stale /\ Find(buckets[Index(k)], k) # 0}

\* Removals do not correct item_count either (hashmap.c:234-261), and map_addn takes it
\* up again from there: the shrink check (:232) may find too many items, but whatever
\* was removed, overwritten or removed twice, never fewer than the map holds.
ItemsCounted == Cardinality(Owned) <= item_count

\* The map holds no pointer it does not own and no resize is under way.
Pristine == Idle /\ stale = {} /\ unset = {}

Stored == {k \in Keys : Find(buckets[Index(k)], k) # 0}
Contents == [k \in Stored |-> LET c == buckets[Index(k)] IN c[Find(c, k)].value]

D == INSTANCE Dictionary WITH dict <- Contents

\* As long as no resize has left dangling slots behind, every operation does to
\* the bindings, and answers, exactly what the dictionary operation does: the
\* refinement of Dictionary, restricted to where the code is defined.
StepsAsDictionary == [][Pristine /\ Pristine' => D!DictNext]_<<Contents, reply>>

\* The whole map is a dictionary, from start to end: the claim for the runs in
\* which the map stays too small to be resized.
ImplementsDictionary == D!DictSpec

\* No call has had to resize and none has followed a pointer it does not own:
\* what a symbol table of at most MaxCollisions + 1 names can count on.
NeverResized == status # "undefined" /\ ~Resizing /\ buckets_size = InitSize

\* The loop of map_resize takes nodes from a list whose pointers it rewrites as it
\* re-adds them, and the call that resized still has its own work to do: it
\* returns, unless a pointer nobody owns was followed.
ResizeEnds == Resizing ~> (~Resizing \/ ~Running)

\* hashmap.h:42 says of item_count "The number of items in the bucket list.
\* (Includes collisions.)": so it is while nothing is removed.
ItemCountIsItems == Pristine => item_count = Cardinality(Stored)

\* hashmap.c:55 says of map_resize "Resizes a hashmap and rehashes all the
\* children": when its loop has ended (hashmap.c:78-82) every node hangs off the
\* slot it was rehashed to, and no slot still holds one that has been freed.
RehashesAllChildren == Running /\ Resizing /\ AllRehashed => stale = {}
=============================================================================
