---------------------------- MODULE HashMapProofs ----------------------------
(***************************************************************************)
(* Proofs about HashMap, for every set of keys, every hash function and    *)
(* every table size and collision limit.                                   *)
(***************************************************************************)
EXTENDS HashMap, FiniteSetTheorems, SequenceTheorems, TLAPS

-----------------------------------------------------------------------------
(* Lemmas about the operators of HashMap.                                  *)

\* The chain walk finds a node of the key if and only if there is one.
LEMMA FindProperties ==
  ASSUME NEW ch \in Seq(Node), NEW k \in Keys
  PROVE  /\ Find(ch, k) \in 0 .. Len(ch)
         /\ Find(ch, k) # 0 => ch[Find(ch, k)].key = k
         /\ Find(ch, k) = 0 <=> \A j \in 1 .. Len(ch) : ch[j].key # k
<1>. Len(ch) \in Nat
  BY LenProperties
<1>1. CASE \E j \in 1 .. Len(ch) : ch[j].key = k
  <2>1. Find(ch, k) = CHOOSE j \in 1 .. Len(ch) : ch[j].key = k
    BY <1>1 DEF Find
  <2>2. Find(ch, k) \in 1 .. Len(ch) /\ ch[Find(ch, k)].key = k
    BY <1>1, <2>1
  <2>. QED  BY <2>2
<1>2. CASE ~ \E j \in 1 .. Len(ch) : ch[j].key = k
  BY <1>2 DEF Find
<1>. QED  BY <1>1, <1>2

\* Unlinking a node keeps the others, in their order.
LEMMA RemoveAtProperties ==
  ASSUME NEW S, NEW ch \in Seq(S), NEW i \in 1 .. Len(ch)
  PROVE  /\ RemoveAt(ch, i) \in Seq(S)
         /\ Len(RemoveAt(ch, i)) = Len(ch) - 1
         /\ \A j \in 1 .. Len(ch) - 1 :
              RemoveAt(ch, i)[j] = IF j < i THEN ch[j] ELSE ch[j + 1]
<1>. DEFINE front == SubSeq(ch, 1, i - 1)
            back == SubSeq(ch, i + 1, Len(ch))
<1>. HIDE DEF front, back
<1>1. /\ Len(ch) \in Nat
      /\ \A j \in 1 .. Len(ch) : ch[j] \in S
  BY LenProperties, ElementOfSeq
<1>2. /\ front \in Seq(S)
      /\ Len(front) = i - 1
      /\ \A j \in 1 .. i - 1 : front[j] = ch[j]
  <2>1. \A j \in 1 .. i - 1 : ch[j] \in S
    BY <1>1
  <2>2. /\ front \in Seq(S)
        /\ Len(front) = IF 1 <= i - 1 THEN (i - 1) - 1 + 1 ELSE 0
        /\ \A j \in 1 .. (i - 1) - 1 + 1 : front[j] = ch[1 + j - 1]
    BY <2>1, <1>1, SubSeqProperties DEF front
  <2>. QED  BY <2>2, <1>1
<1>3. /\ back \in Seq(S)
      /\ Len(back) = Len(ch) - i
      /\ \A j \in 1 .. Len(ch) - i : back[j] = ch[j + i]
  <2>1. \A j \in i + 1 .. Len(ch) : ch[j] \in S
    BY <1>1
  <2>2. /\ back \in Seq(S)
        /\ Len(back) = IF i + 1 <= Len(ch) THEN Len(ch) - (i + 1) + 1 ELSE 0
        /\ \A j \in 1 .. Len(ch) - (i + 1) + 1 : back[j] = ch[(i + 1) + j - 1]
    BY <2>1, <1>1, SubSeqProperties DEF back
  <2>. QED  BY <2>2, <1>1
<1>4. RemoveAt(ch, i) = front \o back
  BY DEF RemoveAt, front, back
<1>5. /\ front \o back \in Seq(S)
      /\ Len(front \o back) = Len(front) + Len(back)
      /\ \A j \in 1 .. Len(front) + Len(back) : (front \o back)[j] =
                  IF j <= Len(front) THEN front[j] ELSE back[j - Len(front)]
  BY <1>2, <1>3, ConcatProperties
<1>6. ASSUME NEW j \in 1 .. Len(ch) - 1
      PROVE  (front \o back)[j] = IF j < i THEN ch[j] ELSE ch[j + 1]
  <2>1. CASE j < i
    BY <2>1, <1>1, <1>2, <1>3, <1>5
  <2>2. CASE ~(j < i)
    <3>1. j - Len(front) \in 1 .. Len(ch) - i
      BY <2>2, <1>1, <1>2
    <3>2. back[j - Len(front)] = ch[(j - Len(front)) + i]
      BY <3>1, <1>3
    <3>3. (j - Len(front)) + i = j + 1
      BY <1>1, <1>2
    <3>4. (front \o back)[j] = back[j - Len(front)]
      BY <2>2, <1>1, <1>2, <1>3, <1>5
    <3>. QED  BY <2>2, <3>2, <3>3, <3>4
  <2>. QED  BY <2>1, <2>2
<1>. QED  BY <1>1, <1>2, <1>3, <1>4, <1>5, <1>6

\* A key's slot is a slot of the table, whatever its hash.
LEMMA IndexInSlots ==
  ASSUME NEW k \in Keys, buckets_size \in Nat \ {0}
  PROVE  Index(k) \in Slots
<1>1. Hash[k] \in Nat
  BY HashAssumption
<1>. QED  BY <1>1 DEF Index, Slots

\* A table that is due to shrink has at least two slots to halve.
LEMMA ShrinkLeavesSlots ==
  ASSUME buckets_size \in Nat \ {0}, item_count \in Nat, ShrinkDue
  PROVE  buckets_size \div 2 \in Nat \ {0}
<1>1. buckets_size \div ShrinkDivisor # 0
  BY SizeAssumption DEF ShrinkDue
<1>2. buckets_size # 1
  BY <1>1, SizeAssumption
<1>. QED  BY <1>2

-----------------------------------------------------------------------------
(* The inductive invariant, and what each part of an operation does to it. *)

TableInv == TableOK /\ ChainsSound /\ CollisionsCounted /\ CountersAgree

\* Replacing one chain by a sound one leaves every chain sound.
LEMMA OneChainReplaced ==
  ASSUME TableOK, ChainsSound,
         NEW i \in Slots, NEW ch \in Seq(Node), NEW l \in Keys \cup {Null},
         SoundChain(i, ch, l),
         buckets' = [buckets EXCEPT ![i] = ch],
         last' = [last EXCEPT ![i] = l],
         buckets_size' = buckets_size, stale' = stale
  PROVE  ChainsSound'
<1>1. Slots' = Slots /\ \A k : Index(k)' = Index(k)
  BY DEF Slots, Index
<1>2. ASSUME NEW m \in Slots \ stale
      PROVE  SoundChain(m, buckets'[m], last'[m])
  <2>1. CASE m = i
    BY <2>1 DEF TableOK
  <2>2. CASE m # i
    BY <2>2 DEF TableOK, ChainsSound
  <2>. QED  BY <2>1, <2>2
<1>3. ASSUME NEW m \in Slots \ stale
      PROVE  SoundChain(m, buckets[m], last[m])'
  BY <1>1, <1>2 DEF SoundChain
<1>. QED  BY <1>1, <1>3 DEF ChainsSound

\* Each way map_addn can end keeps the table sound and its counters in step.
LEMMA InsertPreserves ==
  ASSUME NEW k \in Keys, NEW v \in Values, TableInv, Insert(k, v)
  PROVE  TableInv'
<1>. DEFINE i == Index(k)
            ch == buckets[i]
            n == [key |-> k, value |-> v]
<1>1. i \in Slots /\ i \notin stale /\ n \in Node
  BY IndexInSlots DEF TableInv, TableOK, Insert, Readable, Node
<1>2. /\ ch \in Seq(Node) /\ Len(ch) \in Nat
      /\ SoundChain(i, ch, last[i])
      /\ Len(ch) <= collision_count + 1
  BY <1>1, LenProperties DEF TableInv, TableOK, ChainsSound, CollisionsCounted
<1>3. /\ buckets_size' = buckets_size /\ stale' = stale /\ unset' \subseteq unset
      /\ Slots' = Slots
  BY DEF Insert, Readable, Slots
<1>4. CASE NewBucket(k, v)
  <2>1. /\ <<n>> \in Seq(Node) /\ Len(<<n>>) = 1 /\ <<n>> # <<>>
        /\ <<n>>[1] = n
    BY <1>1
  <2>2. SoundChain(i, <<n>>, k)
    BY <2>1 DEF SoundChain
  <2>3. buckets' = [buckets EXCEPT ![i] = <<n>>] /\ last' = [last EXCEPT ![i] = k]
    BY <1>4 DEF NewBucket
  <2>4. ChainsSound'
    BY <1>1, <1>3, <2>1, <2>2, <2>3, OneChainReplaced DEF TableInv
  <2>5. TableOK'
    BY <1>1, <1>3, <1>4, <2>1, <2>3 DEF TableInv, TableOK, NewBucket
  <2>6. CollisionsCounted'
    BY <1>1, <1>3, <1>4, <2>1, <2>3 DEF TableInv, TableOK, CollisionsCounted, NewBucket
  <2>7. CountersAgree'
    BY <1>4 DEF TableInv, TableOK, CountersAgree, NewBucket
  <2>. QED  BY <2>4, <2>5, <2>6, <2>7 DEF TableInv
<1>5. CASE Overwrite(k, v)
  <2>. DEFINE j == Find(ch, k)
              new == [ch EXCEPT ![j] = n]
  <2>1. j \in 1 .. Len(ch) /\ ch[j].key = k /\ ch[j] \in Node
    BY <1>2, <1>5, FindProperties, ElementOfSeq DEF Overwrite
  <2>2. /\ new \in Seq(Node) /\ Len(new) = Len(ch)
        /\ \A m \in 1 .. Len(ch) : new[m] = IF m = j THEN n ELSE ch[m]
    BY <1>1, <1>2, <2>1, ExceptSeq
  <2>3. \A m \in 1 .. Len(ch) : new[m].key = ch[m].key
    BY <2>1, <2>2
  <2>4. ch # <<>> /\ new # <<>>
    BY <1>2, <2>1, <2>2
  <2>5. SoundChain(i, new, last[i])
    BY <1>2, <2>2, <2>3, <2>4 DEF SoundChain
  <2>6. [ch[j] EXCEPT !.value = v] = n
    BY <2>1 DEF Node
  <2>7. buckets' = [buckets EXCEPT ![i] = new]
    <3>1. buckets' = [buckets EXCEPT ![i] = [ch EXCEPT ![j] = [ch[j] EXCEPT !.value = v]]]
      BY <1>5 DEF Overwrite
    <3>. QED  BY <3>1, <2>6
  <2>8. last' = [last EXCEPT ![i] = last[i]] /\ last' = last
    BY <1>1, <1>5 DEF Overwrite, TableInv, TableOK
  <2>9. last[i] \in Keys \cup {Null}
    BY <1>1 DEF TableInv, TableOK
  <2>. HIDE DEF new, j, ch, i, n
  <2>10. ChainsSound'
    BY <1>1, <1>3, <2>2, <2>5, <2>7, <2>8, <2>9, OneChainReplaced DEF TableInv
  <2>11. TableOK'
    BY <1>1, <1>3, <1>5, <2>2, <2>7 DEF TableInv, TableOK, Overwrite, counters
  <2>12. CollisionsCounted'
    BY <1>1, <1>2, <1>3, <1>5, <2>2, <2>7
    DEF TableInv, TableOK, CollisionsCounted, Overwrite, counters
  <2>13. CountersAgree'
    BY <1>5 DEF TableInv, CountersAgree, Overwrite, counters
  <2>. QED  BY <2>10, <2>11, <2>12, <2>13 DEF TableInv
<1>6. CASE Collide(k, v)
  <2>. DEFINE new == Append(ch, n)
  <2>1. ch # <<>> /\ \A m \in 1 .. Len(ch) : ch[m].key # k
    BY <1>2, <1>6, FindProperties DEF Collide
  <2>2. /\ new \in Seq(Node) /\ new # <<>> /\ Len(new) = Len(ch) + 1
        /\ \A m \in 1 .. Len(ch) : new[m] = ch[m]
        /\ new[Len(ch) + 1] = n
    BY <1>1, <1>2, AppendProperties
  <2>3. buckets' = [buckets EXCEPT ![i] = new] /\ last' = [last EXCEPT ![i] = k]
    BY <1>6 DEF Collide
  <2>. HIDE DEF new
  <2>4. SoundChain(i, new, k)
    <3>1. n.key = k
      OBVIOUS
    <3>2. \A m \in 1 .. Len(new) : m \in 1 .. Len(ch) \/ m = Len(ch) + 1
      BY <1>2, <2>2
    <3>3. \A m \in 1 .. Len(new) : Index(new[m].key) = i
      BY <1>2, <2>2, <3>1, <3>2 DEF SoundChain
    <3>4. \A m, o \in 1 .. Len(new) : new[m].key = new[o].key => m = o
      BY <1>2, <2>1, <2>2, <3>1, <3>2 DEF SoundChain
    <3>. QED  BY <2>2, <3>1, <3>3, <3>4 DEF SoundChain
  <2>5. ChainsSound'
    BY <1>1, <1>3, <2>2, <2>3, <2>4, OneChainReplaced DEF TableInv
  <2>6. TableOK'
    BY <1>1, <1>3, <1>6, <2>2, <2>3 DEF TableInv, TableOK, Collide
  <2>7. CollisionsCounted'
    BY <1>1, <1>2, <1>3, <1>6, <2>2, <2>3
    DEF TableInv, TableOK, CollisionsCounted, Collide
  <2>8. CountersAgree'
    BY <1>6 DEF TableInv, TableOK, CountersAgree, Collide
  <2>. QED  BY <2>5, <2>6, <2>7, <2>8 DEF TableInv
<1>. QED  BY <1>4, <1>5, <1>6 DEF Insert

\* Unlinking a node keeps the table sound: `last' follows the end of the chain.
LEMMA UnlinkPreserves ==
  ASSUME NEW k \in Keys, TableInv, Unlink(k)
  PROVE  TableInv'
<1>. DEFINE i == Index(k)
            ch == buckets[i]
            j == Find(ch, k)
            new == RemoveAt(ch, j)
            l == IF Len(ch) = 1 THEN Null
                 ELSE IF j = Len(ch) THEN ch[j - 1].key ELSE last[i]
<1>1. i \in Slots /\ i \notin stale
  BY IndexInSlots DEF TableInv, TableOK, Unlink, Readable
<1>2. /\ ch \in Seq(Node) /\ Len(ch) \in Nat
      /\ SoundChain(i, ch, last[i])
      /\ Len(ch) <= collision_count + 1
      /\ \A m \in 1 .. Len(ch) : ch[m] \in Node
  BY <1>1, LenProperties, ElementOfSeq
  DEF TableInv, TableOK, ChainsSound, CollisionsCounted
<1>3. /\ buckets_size' = buckets_size /\ stale' = stale /\ unset' \subseteq unset
      /\ Slots' = Slots /\ UNCHANGED counters
  BY DEF Unlink, Readable, Slots
<1>4. CountersAgree'
  BY <1>3 DEF TableInv, CountersAgree, counters
<1>5. CASE j = 0
  <2>1. UNCHANGED <<buckets, last>>
    BY <1>5 DEF Unlink
  <2>2. ChainsSound'
    BY <1>3, <2>1 DEF TableInv, ChainsSound, SoundChain, Index, Slots
  <2>3. TableOK' /\ CollisionsCounted'
    BY <1>3, <2>1 DEF TableInv, TableOK, CollisionsCounted, counters
  <2>. QED  BY <1>4, <2>2, <2>3 DEF TableInv
<1>6. CASE j # 0
  <2>1. j \in 1 .. Len(ch)
    BY <1>2, <1>6, FindProperties
  <2>2. /\ new \in Seq(Node)
        /\ Len(new) = Len(ch) - 1
        /\ \A m \in 1 .. Len(ch) - 1 : new[m] = IF m < j THEN ch[m] ELSE ch[m + 1]
    BY <1>2, <2>1, RemoveAtProperties
  <2>3. buckets' = [buckets EXCEPT ![i] = new] /\ last' = [last EXCEPT ![i] = l]
    <3>1. last' = [last EXCEPT ![i] = IF Len(ch) = 1 THEN Null
                                      ELSE IF j = Len(ch) THEN ch[j - 1].key ELSE @]
      BY <1>6 DEF Unlink
    <3>2. buckets' = [buckets EXCEPT ![i] = RemoveAt(ch, j)]
      BY <1>6 DEF Unlink
    <3>. QED  BY <3>1, <3>2
  <2>. HIDE DEF new, l, j, ch, i
  <2>4. l \in Keys \cup {Null}
    <3>1. last[i] \in Keys \cup {Null}
      BY <1>1 DEF TableInv, TableOK
    <3>2. CASE Len(ch) # 1 /\ j = Len(ch)
      <4>1. j - 1 \in 1 .. Len(ch)
        BY <1>2, <2>1, <3>2
      <4>2. ch[j - 1].key \in Keys
        BY <1>2, <4>1 DEF Node
      <4>. QED  BY <3>2, <4>2 DEF l
    <3>. QED  BY <3>1, <3>2 DEF l
  <2>5. SoundChain(i, new, l)
    <3>1. ASSUME NEW m \in 1 .. Len(new)
          PROVE  Index(new[m].key) = i
      <4>1. \E x \in 1 .. Len(ch) : new[m] = ch[x]
        BY <1>2, <2>1, <2>2
      <4>. QED  BY <1>2, <4>1 DEF SoundChain
    <3>2. \A m, o \in 1 .. Len(new) : new[m].key = new[o].key => m = o
      <4>. SUFFICES ASSUME NEW m \in 1 .. Len(new), NEW o \in 1 .. Len(new),
                           new[m].key = new[o].key
                    PROVE  m = o
        OBVIOUS
      <4>. DEFINE at(x) == IF x < j THEN x ELSE x + 1
      <4>1. /\ at(m) \in 1 .. Len(ch) /\ new[m] = ch[at(m)]
            /\ at(o) \in 1 .. Len(ch) /\ new[o] = ch[at(o)]
        BY <1>2, <2>1, <2>2
      <4>2. at(m) = at(o)
        <5>. HIDE DEF at
        <5>. QED  BY <1>2, <4>1 DEF SoundChain
      <4>. QED  BY <2>1, <2>2, <4>2
    <3>3. l = IF new = <<>> THEN Null ELSE new[Len(new)].key
      <4>1. CASE Len(ch) = 1
        <5>1. new = <<>>
          BY <2>2, <4>1, EmptySeq
        <5>. QED  BY <4>1, <5>1 DEF l
      <4>2. CASE Len(ch) # 1 /\ j = Len(ch)
        <5>1. new # <<>> /\ new[Len(new)] = ch[j - 1]
          BY <1>2, <2>1, <2>2, <4>2, EmptySeq
        <5>. QED  BY <4>2, <5>1 DEF l
      <4>3. CASE Len(ch) # 1 /\ j # Len(ch)
        <5>1. new # <<>> /\ new[Len(new)] = ch[Len(ch)]
          BY <1>2, <2>1, <2>2, <4>3, EmptySeq
        <5>2. l = last[i] /\ ch # <<>>
          BY <1>2, <2>1, <4>3, EmptySeq DEF l
        <5>. QED  BY <1>2, <5>1, <5>2 DEF SoundChain
      <4>. QED  BY <4>1, <4>2, <4>3
    <3>. QED  BY <3>1, <3>2, <3>3 DEF SoundChain
  <2>6. ChainsSound'
    BY <1>1, <1>3, <2>2, <2>3, <2>4, <2>5, OneChainReplaced DEF TableInv
  <2>7. TableOK'
    BY <1>1, <1>3, <2>2, <2>3, <2>4 DEF TableInv, TableOK, counters
  <2>8. CollisionsCounted'
    BY <1>1, <1>2, <1>3, <2>2, <2>3 DEF TableInv, TableOK, CollisionsCounted, counters
  <2>. QED  BY <1>4, <2>6, <2>7, <2>8 DEF TableInv
<1>. QED  BY <1>5, <1>6

\* map_resize starts with every slot it keeps either empty or stale, so that
\* nothing is claimed of a chain it leaves behind.
LEMMA ResizePreserves ==
  ASSUME NEW size \in Nat \ {0}, NEW cl \in Call, TableInv, ControlOK,
         BeginResize(size, cl)
  PROVE  TableInv' /\ ControlOK'
<1>1. CASE status' = "undefined" /\ UNCHANGED <<table, counters, pending, call, reply>>
  BY <1>1 DEF TableInv, ControlOK, TableOK, ChainsSound, CollisionsCounted,
              CountersAgree, SoundChain, Index, Slots, table, counters
<1>2. CASE /\ pending' = buckets
           /\ buckets_size' = size
           /\ buckets' = [i \in 0 .. size - 1 |-> IF i \in Slots THEN buckets[i] ELSE <<>>]
           /\ last' = [i \in 0 .. size - 1 |-> IF i \in Slots THEN last[i] ELSE Null]
           /\ stale' = {i \in 0 .. size - 1 : i \in Slots /\ buckets[i] # <<>>}
           /\ unset' = {i \in 0 .. size - 1 : i \notin Slots}
           /\ call' = cl
           /\ UNCHANGED <<counters, status, reply>>
           /\ stale = {}
  <2>1. Slots' = 0 .. size - 1
    BY <1>2 DEF Slots
  <2>2. TableOK'
    BY <1>2, <2>1, EmptySeq DEF TableInv, TableOK, counters
  <2>3. ASSUME NEW i \in Slots' \ stale'
        PROVE  buckets'[i] = <<>> /\ last'[i] = Null
    <3>1. CASE i \in Slots
      <4>1. buckets[i] = <<>>
        BY <1>2, <2>1, <2>3, <3>1
      <4>2. last[i] = Null
        BY <1>2, <3>1, <4>1 DEF TableInv, ChainsSound, SoundChain
      <4>. QED  BY <1>2, <2>1, <2>3, <3>1, <4>1, <4>2
    <3>2. CASE i \notin Slots
      BY <1>2, <2>1, <2>3, <3>2
    <3>. QED  BY <3>1, <3>2
  <2>4. ChainsSound'
    <3>1. Len(<<>>) = 0
      OBVIOUS
    <3>2. \A i \in Slots' \ stale' : SoundChain(i, buckets[i], last[i])'
      BY <2>3, <3>1 DEF SoundChain
    <3>. QED  BY <3>2 DEF ChainsSound
  <2>5. CollisionsCounted'
    <3>1. Len(<<>>) = 0 /\ collision_count' \in Nat
      BY <1>2 DEF TableInv, TableOK, counters
    <3>2. \A i \in Slots' \ stale' : Len(buckets'[i]) <= collision_count' + 1
      BY <2>3, <3>1
    <3>. QED  BY <3>2 DEF CollisionsCounted
  <2>6. CountersAgree'
    BY <1>2 DEF TableInv, CountersAgree, counters
  <2>7. ControlOK'
    <3>1. DOMAIN buckets = Slots
      BY DEF TableInv, TableOK
    <3>. QED  BY <1>2, <3>1 DEF TableInv, TableOK, ControlOK, Slots
  <2>. QED  BY <2>2, <2>4, <2>5, <2>6, <2>7 DEF TableInv
<1>. QED  BY <1>1, <1>2 DEF BeginResize

Inv == TableInv /\ ControlOK

LEMMA InitEstablishes == Init => Inv
<1>. SUFFICES ASSUME Init PROVE Inv
  OBVIOUS
<1>1. Slots = 0 .. InitSize - 1 /\ \A i \in Slots : buckets[i] = <<>> /\ last[i] = Null
  BY DEF Init, Slots
<1>2. Len(<<>>) = 0 /\ <<>> \in Seq(Node)
  BY EmptySeq
<1>3. TableOK
  BY <1>1, <1>2, SizeAssumption DEF Init, TableOK
<1>4. ChainsSound
  BY <1>1, <1>2 DEF ChainsSound, SoundChain
<1>5. CollisionsCounted /\ CountersAgree
  BY <1>1, <1>2 DEF Init, CollisionsCounted, CountersAgree
<1>6. ControlOK
  BY DEF Init, ControlOK, NoNodes, Call
<1>. QED  BY <1>3, <1>4, <1>5, <1>6 DEF Inv, TableInv

\* Nothing is claimed of the table that a step leaves alone.
LEMMA TableUnchanged ==
  ASSUME TableInv, UNCHANGED <<table, counters>>
  PROVE  TableInv'
BY DEF TableInv, TableOK, ChainsSound, CollisionsCounted, CountersAgree,
       SoundChain, Index, Slots, table, counters

\* Reading a slot settles what an unset slot holds and changes no chain.
LEMMA ReadPreserves ==
  ASSUME NEW k \in Keys, TableInv, Readable(k), UNCHANGED <<buckets, last, counters>>
  PROVE  TableInv'
<1>1. /\ buckets_size' = buckets_size /\ stale' = stale /\ unset' \subseteq unset
      /\ Slots' = Slots
  BY DEF Readable, Slots
<1>2. TableOK'
  BY <1>1 DEF TableInv, TableOK, counters
<1>3. ChainsSound'
  BY <1>1 DEF TableInv, ChainsSound, SoundChain, Index
<1>4. CollisionsCounted' /\ CountersAgree'
  BY <1>1 DEF TableInv, CollisionsCounted, CountersAgree, counters
<1>. QED  BY <1>2, <1>3, <1>4 DEF TableInv

LEMMA NextPreserves == Inv /\ [Next]_vars => Inv'
<1>. SUFFICES ASSUME Inv, [Next]_vars PROVE Inv'
  OBVIOUS
<1>. USE DEF Inv
<1>1. ASSUME NEW k \in Keys, Undefined(k) PROVE Inv'
  BY <1>1, TableUnchanged DEF Undefined, ControlOK
<1>2. ASSUME NEW k \in Keys, NEW v \in Values, MapAdd(k, v) PROVE Inv'
  <2>1. CASE Insert(k, v) /\ UNCHANGED <<pending, call>>
    <3>1. ControlOK'
      BY <2>1 DEF ControlOK, Insert, Readable
    <3>. QED  BY <2>1, <3>1, InsertPreserves
  <2>. QED  BY <1>1, <1>2, <2>1 DEF MapAdd
<1>3. ASSUME NEW k \in Keys, NEW v \in Values, MapAddGrows(k, v) PROVE Inv'
  <2>1. [op |-> "add", key |-> k, value |-> v] \in Call
    BY DEF Call
  <2>2. 2 * buckets_size \in Nat \ {0}
    BY DEF TableInv, TableOK
  <2>. QED  BY <1>3, <2>1, <2>2, ResizePreserves DEF MapAddGrows
<1>4. ASSUME NEW k \in Keys, MapRemove(k) PROVE Inv'
  <2>1. CASE Unlink(k) /\ UNCHANGED <<pending, call>>
    <3>1. ControlOK'
      BY <2>1 DEF ControlOK, Unlink, Readable
    <3>. QED  BY <2>1, <3>1, UnlinkPreserves
  <2>. QED  BY <1>1, <1>4, <2>1 DEF MapRemove
<1>5. ASSUME NEW k \in Keys, MapRemoveShrinks(k) PROVE Inv'
  <2>1. [op |-> "remove", key |-> k, value |-> Null] \in Call
    BY KeysAssumption DEF Call
  <2>2. buckets_size \div 2 \in Nat \ {0}
    BY <1>5, ShrinkLeavesSlots DEF TableInv, TableOK, MapRemoveShrinks
  <2>. QED  BY <1>5, <2>1, <2>2, ResizePreserves DEF MapRemoveShrinks
<1>6. ASSUME NEW k \in Keys, MapGet(k) \/ MapContains(k) PROVE Inv'
  <2>1. CASE Readable(k) /\ UNCHANGED <<buckets, last, counters, pending, call>>
    <3>1. ControlOK'
      BY <2>1 DEF ControlOK, Readable
    <3>. QED  BY <2>1, <3>1, ReadPreserves
  <2>. QED  BY <1>1, <1>6, <2>1 DEF MapGet, MapContains
<1>7. CASE MapKeys \/ DelHashmap
  BY <1>7, TableUnchanged DEF MapKeys, DelHashmap, ControlOK
<1>8. CASE Rehash
  <2>1. PICK i \in DOMAIN pending : pending[i] # <<>> /\ RehashNode(i)
    BY <1>8 DEF Rehash
  <2>. DEFINE n == Head(pending[i])
  <2>2. n \in Node /\ n.key \in Keys /\ n.value \in Values /\ Tail(pending[i]) \in Seq(Node)
    <3>1. pending[i] \in Seq(Node)
      BY <2>1 DEF ControlOK
    <3>2. n \in Node /\ Tail(pending[i]) \in Seq(Node)
      BY <2>1, <3>1, HeadTailProperties
    <3>. QED  BY <3>2 DEF Node
  <2>3. ASSUME pending' = [pending EXCEPT ![i] = Tail(@)], call' = call,
               status' = status
        PROVE  ControlOK'
    BY <2>1, <2>2, <2>3 DEF ControlOK
  <2>4. CASE /\ Insert(n.key, n.value)
             /\ pending' = [pending EXCEPT ![i] = Tail(@)]
             /\ UNCHANGED <<call, reply>>
    <3>1. ControlOK'
      BY <2>3, <2>4 DEF Insert, Readable
    <3>. QED  BY <2>2, <2>4, <3>1, InsertPreserves
  <2>5. CASE /\ pending' = [pending EXCEPT ![i] = Tail(@)]
             /\ UNCHANGED <<table, counters, call, status, reply>>
    BY <2>3, <2>5, TableUnchanged
  <2>6. CASE Undefined(n.key)
    BY <1>1, <2>2, <2>6
  <2>. QED  BY <2>1, <2>4, <2>5, <2>6 DEF RehashNode
<1>9. CASE Resume
  <2>1. call.key \in Keys /\ call.value \in Values
    BY <1>9 DEF Resume, Resizing, ControlOK, Call
  <2>2. ASSUME call' = NoCall, pending' = NoNodes, status' = status PROVE ControlOK'
    BY <2>2 DEF ControlOK, NoNodes, Call
  <2>3. CASE /\ Insert(call.key, call.value) /\ call' = NoCall /\ pending' = NoNodes
    <3>1. ControlOK'
      BY <2>2, <2>3 DEF Insert, Readable
    <3>. QED  BY <2>1, <2>3, <3>1, InsertPreserves
  <2>4. CASE /\ Unlink(call.key) /\ call' = NoCall /\ pending' = NoNodes
    <3>1. ControlOK'
      BY <2>2, <2>4 DEF Unlink, Readable
    <3>. QED  BY <2>1, <2>4, <3>1, UnlinkPreserves
  <2>5. CASE Undefined(call.key)
    BY <1>1, <2>1, <2>5
  <2>. QED  BY <1>9, <2>3, <2>4, <2>5 DEF Resume
<1>10. CASE UNCHANGED vars
  BY <1>10, TableUnchanged DEF vars, table, counters, ControlOK
<1>. QED  BY <1>2, <1>3, <1>4, <1>5, <1>6, <1>7, <1>8, <1>9, <1>10
          DEF Next, Add, Delete, Query

\* Every reachable state of the map satisfies the inductive invariant.
THEOREM Invariance == Spec => []Inv
<1>. QED  BY InitEstablishes, NextPreserves, PTL DEF Spec

\* The state of the map always has its type, resizes and all.
THEOREM TypeCorrect == Spec => []TypeOK
<1>1. Inv => TypeOK
  BY DEF Inv, TableInv, TypeOK
<1>. QED  BY <1>1, Invariance, PTL

\* The upkeep of `next' and `last' by map_addn and map_removen is right: no key is
\* lost to a wrong slot, none is there twice, and first->last ends the chain.
THEOREM ChainsAlwaysSound == Spec => []ChainsSound
<1>1. Inv => ChainsSound
  BY DEF Inv, TableInv
<1>. QED  BY <1>1, Invariance, PTL

\* The growth check of map_addn cannot miss a long chain, although removals leave
\* the counter it reads alone.
THEOREM CollisionsAlwaysCounted == Spec => []CollisionsCounted
<1>1. Inv => CollisionsCounted
  BY DEF Inv, TableInv
<1>. QED  BY <1>1, Invariance, PTL

\* The three counters never drift apart: map_resize, which counts all over again
\* while it adds node by node, leaves none behind.
THEOREM CountersAlwaysAgree == Spec => []CountersAgree
<1>1. Inv => CountersAgree
  BY DEF Inv, TableInv
<1>. QED  BY <1>1, Invariance, PTL

-----------------------------------------------------------------------------
(* The map implements the dictionary.                                      *)

\* In a sound chain the walk stops at the only node of the key.
LEMMA FindsTheNode ==
  ASSUME NEW i, NEW ch \in Seq(Node), NEW l, SoundChain(i, ch, l),
         NEW x \in Keys, NEW j \in 1 .. Len(ch), ch[j].key = x
  PROVE  Find(ch, x) = j
<1>1. Len(ch) \in Nat
  BY LenProperties
<1>2. Find(ch, x) \in 1 .. Len(ch) /\ ch[Find(ch, x)].key = x
  BY <1>1, FindProperties
<1>. QED  BY <1>2 DEF SoundChain

Bound(k) == Find(buckets[Index(k)], k) # 0
ValueOf(k) == LET ch == buckets[Index(k)] IN ch[Find(ch, k)].value

LEMMA ContentsAre ==
  /\ Stored = {k \in Keys : Bound(k)}
  /\ Contents = [k \in Stored |-> ValueOf(k)]
BY DEF Stored, Contents, Bound, ValueOf

\* map_addn binds its key to its value and leaves the other bindings alone.
LEMMA InsertBinds ==
  ASSUME NEW k \in Keys, NEW v \in Values, TableInv, Insert(k, v)
  PROVE  /\ Bound(k)' /\ ValueOf(k)' = v
         /\ \A x \in Keys \ {k} : Index(x) \notin stale =>
               /\ Bound(x)' <=> Bound(x)
               /\ Bound(x) => ValueOf(x)' = ValueOf(x)
<1>. DEFINE i == Index(k)
            ch == buckets[i]
            new == buckets'[i]
            n == [key |-> k, value |-> v]
            f == Find(ch, k)
<1>1. /\ buckets_size' = buckets_size /\ stale' = stale
      /\ i \in Slots /\ i \notin stale /\ Slots' = Slots
      /\ \A x : Index(x)' = Index(x)
  BY IndexInSlots DEF TableInv, TableOK, Insert, Readable, Index, Slots
<1>2. TableInv'
  BY InsertPreserves
<1>3. /\ ch \in Seq(Node) /\ Len(ch) \in Nat /\ SoundChain(i, ch, last[i])
      /\ n \in Node
  BY <1>1, LenProperties DEF TableInv, TableOK, ChainsSound, Node
<1>4. /\ new \in Seq(Node) /\ Len(new) \in Nat /\ SoundChain(i, new, last'[i])
  BY <1>1, <1>2, LenProperties DEF TableInv, TableOK, ChainsSound, SoundChain
<1>5. /\ \E j \in 1 .. Len(new) : new[j] = n
      /\ \A j \in 1 .. Len(new) : new[j] # n => j \in 1 .. Len(ch) /\ new[j] = ch[j]
      /\ \A j \in 1 .. Len(ch) : ch[j].key # k => j \in 1 .. Len(new) /\ new[j] = ch[j]
  <2>1. CASE NewBucket(k, v)
    <3>1. ch = <<>> /\ new = <<n>>
      BY <1>1, <2>1 DEF NewBucket, TableInv, TableOK
    <3>. HIDE DEF ch, new, n
    <3>2. Len(ch) = 0 /\ Len(new) = 1 /\ new[1] = n
      BY <3>1
    <3>. QED  BY <3>2
  <2>2. CASE Overwrite(k, v)
    <3>1. f \in 1 .. Len(ch) /\ ch[f].key = k /\ ch[f] \in Node
      BY <1>3, <2>2, FindProperties, ElementOfSeq DEF Overwrite
    <3>2. new = [ch EXCEPT ![f] = n]
      <4>1. new = [ch EXCEPT ![f] = [ch[f] EXCEPT !.value = v]]
        BY <1>1, <2>2 DEF Overwrite, TableInv, TableOK
      <4>2. [ch[f] EXCEPT !.value = v] = n
        BY <3>1 DEF Node
      <4>. QED  BY <4>1, <4>2
    <3>. HIDE DEF ch, new, n, f
    <3>3. /\ Len(new) = Len(ch)
          /\ \A j \in 1 .. Len(ch) : new[j] = IF j = f THEN n ELSE ch[j]
      BY <1>3, <3>1, <3>2, ExceptSeq
    <3>. QED  BY <3>1, <3>3
  <2>3. CASE Collide(k, v)
    <3>1. new = Append(ch, n)
      BY <1>1, <2>3 DEF Collide, TableInv, TableOK
    <3>. HIDE DEF ch, new, n
    <3>2. /\ Len(new) = Len(ch) + 1 /\ new[Len(ch) + 1] = n
          /\ \A j \in 1 .. Len(ch) : new[j] = ch[j]
      BY <1>3, <3>1, AppendProperties
    <3>. QED  BY <1>3, <3>2
  <2>. QED  BY <2>1, <2>2, <2>3 DEF Insert
<1>6. n.key = k /\ n.value = v
  OBVIOUS
<1>7. Bound(k)' /\ ValueOf(k)' = v
  <2>1. PICK j \in 1 .. Len(new) : new[j] = n
    BY <1>5
  <2>2. Find(new, k) = j
    BY <1>4, <1>6, <2>1, FindsTheNode
  <2>. QED  BY <1>1, <1>6, <2>1, <2>2 DEF Bound, ValueOf
<1>8. ASSUME NEW x \in Keys \ {k}, Index(x) \notin stale
      PROVE  /\ Bound(x)' <=> Bound(x)
             /\ Bound(x) => ValueOf(x)' = ValueOf(x)
  <2>1. CASE Index(x) # i
    <3>1. Index(x) \in Slots
      BY IndexInSlots DEF TableInv, TableOK
    <3>2. buckets'[Index(x)] = buckets[Index(x)]
      BY <2>1, <3>1 DEF Insert, NewBucket, Overwrite, Collide, TableInv, TableOK
    <3>. QED  BY <1>1, <3>2 DEF Bound, ValueOf
  <2>2. CASE Index(x) = i
    <3>. HIDE DEF i, ch, new, n, f
    <3>1. ASSUME Find(ch, x) # 0
          PROVE  Find(new, x) = Find(ch, x) /\ new[Find(ch, x)] = ch[Find(ch, x)]
      <4>1. Find(ch, x) \in 1 .. Len(ch) /\ ch[Find(ch, x)].key = x
        BY <1>3, <3>1, FindProperties
      <4>2. Find(ch, x) \in 1 .. Len(new) /\ new[Find(ch, x)] = ch[Find(ch, x)]
        BY <1>5, <4>1
      <4>. QED  BY <1>4, <4>1, <4>2, FindsTheNode
    <3>2. ASSUME Find(new, x) # 0
          PROVE  Find(ch, x) # 0
      <4>1. Find(new, x) \in 1 .. Len(new) /\ new[Find(new, x)].key = x
        BY <1>4, <3>2, FindProperties
      <4>2. Find(new, x) \in 1 .. Len(ch) /\ ch[Find(new, x)].key = x
        BY <1>5, <1>6, <4>1
      <4>. QED  BY <1>3, <4>2, FindProperties
    <3>3. ch = buckets[Index(x)] /\ new = buckets'[Index(x)']
      BY <1>1, <2>2 DEF ch, new
    <3>. QED  BY <3>1, <3>2, <3>3 DEF Bound, ValueOf
  <2>. QED  BY <2>1, <2>2
<1>. QED  BY <1>7, <1>8

\* map_removen unbinds its key and leaves the other bindings alone.
LEMMA UnlinkUnbinds ==
  ASSUME NEW k \in Keys, TableInv, Unlink(k)
  PROVE  /\ ~Bound(k)'
         /\ \A x \in Keys \ {k} : Index(x) \notin stale =>
               /\ Bound(x)' <=> Bound(x)
               /\ Bound(x) => ValueOf(x)' = ValueOf(x)
<1>. DEFINE i == Index(k)
            ch == buckets[i]
            new == buckets'[i]
            f == Find(ch, k)
            old(j) == IF j < f THEN j ELSE j + 1
<1>1. /\ buckets_size' = buckets_size /\ stale' = stale
      /\ i \in Slots /\ i \notin stale /\ Slots' = Slots
      /\ \A x : Index(x)' = Index(x)
  BY IndexInSlots DEF TableInv, TableOK, Unlink, Readable, Index, Slots
<1>2. TableInv'
  BY UnlinkPreserves
<1>3. ch \in Seq(Node) /\ Len(ch) \in Nat /\ SoundChain(i, ch, last[i])
  BY <1>1, LenProperties DEF TableInv, TableOK, ChainsSound
<1>4. new \in Seq(Node) /\ Len(new) \in Nat /\ SoundChain(i, new, last'[i])
  BY <1>1, <1>2, LenProperties DEF TableInv, TableOK, ChainsSound, SoundChain
<1>5. CASE f = 0
  <2>1. UNCHANGED buckets
    BY <1>5 DEF Unlink
  <2>. QED  BY <1>1, <1>5, <2>1 DEF Bound, ValueOf
<1>6. CASE f # 0
  <2>1. f \in 1 .. Len(ch) /\ ch[f].key = k
    BY <1>3, <1>6, FindProperties
  <2>2. new = RemoveAt(ch, f)
    BY <1>1, <1>6 DEF Unlink, TableInv, TableOK
  <2>3. ASSUME NEW x \in Keys, Index(x) # i
        PROVE  buckets'[Index(x)] = buckets[Index(x)]
    <3>1. Index(x) \in Slots
      BY IndexInSlots DEF TableInv, TableOK
    <3>. QED  BY <1>6, <2>3, <3>1 DEF Unlink, TableInv, TableOK
  <2>. HIDE DEF i, ch, new, f
  <2>4. /\ Len(new) = Len(ch) - 1
        /\ \A j \in 1 .. Len(ch) - 1 : new[j] = ch[old(j)]
    BY <1>3, <2>1, <2>2, RemoveAtProperties
  <2>5. \A j \in 1 .. Len(new) : old(j) \in 1 .. Len(ch) /\ old(j) # f /\ new[j] = ch[old(j)]
    BY <1>3, <2>1, <2>4
  <2>6. ~Bound(k)'
    <3>1. \A j \in 1 .. Len(new) : new[j].key # k
      BY <1>3, <2>1, <2>5 DEF SoundChain
    <3>2. Find(new, k) = 0
      BY <1>4, <3>1, FindProperties
    <3>. QED  BY <1>1, <3>2 DEF Bound, new, i
  <2>7. ASSUME NEW x \in Keys \ {k}, Index(x) \notin stale
        PROVE  /\ Bound(x)' <=> Bound(x)
               /\ Bound(x) => ValueOf(x)' = ValueOf(x)
    <3>1. CASE Index(x) # i
      BY <1>1, <2>3, <3>1 DEF Bound, ValueOf
    <3>2. CASE Index(x) = i
      <4>1. ASSUME Find(ch, x) # 0
            PROVE  Find(new, x) # 0 /\ new[Find(new, x)] = ch[Find(ch, x)]
        <5>. DEFINE g == Find(ch, x)
                    j == IF g < f THEN g ELSE g - 1
        <5>1. g \in 1 .. Len(ch) /\ ch[g].key = x /\ g # f
          BY <1>3, <2>1, <4>1, FindProperties
        <5>. HIDE DEF g
        <5>2. j \in 1 .. Len(new) /\ old(j) = g /\ j # 0
          BY <1>3, <2>1, <2>4, <5>1
        <5>. HIDE DEF j, old
        <5>3. new[j] = ch[g]
          BY <2>5, <5>2
        <5>4. Find(new, x) = j
          BY <1>4, <5>1, <5>2, <5>3, FindsTheNode
        <5>. QED  BY <5>2, <5>3, <5>4 DEF g
      <4>2. ASSUME Find(new, x) # 0
            PROVE  Find(ch, x) # 0
        <5>. HIDE DEF old
        <5>1. Find(new, x) \in 1 .. Len(new) /\ new[Find(new, x)].key = x
          BY <1>4, <4>2, FindProperties
        <5>2. \E m \in 1 .. Len(ch) : ch[m].key = x
          BY <2>5, <5>1
        <5>. QED  BY <1>3, <5>2, FindProperties
      <4>3. ch = buckets[Index(x)] /\ new = buckets'[Index(x)']
        BY <1>1, <3>2 DEF ch, new
      <4>. QED  BY <4>1, <4>2, <4>3 DEF Bound, ValueOf
    <3>. QED  BY <3>1, <3>2
  <2>. QED  BY <2>6, <2>7
<1>. QED  BY <1>5, <1>6

\* Reading a slot neither binds nor unbinds anything.
LEMMA ReadKeepsContents ==
  ASSUME NEW k \in Keys, Readable(k), UNCHANGED buckets
  PROVE  Contents' = Contents
BY DEF Contents, Stored, Index, Readable

\* The effect of map_addn and of map_removen, as the dictionary describes it.
LEMMA InsertIsPut ==
  ASSUME NEW k \in Keys, NEW v \in Values, TableInv, stale = {}, Insert(k, v)
  PROVE  Contents' = [x \in Stored \cup {k} |-> IF x = k THEN v ELSE Contents[x]]
<1>1. Bound(k)' /\ ValueOf(k)' = v
  BY InsertBinds
<1>2. \A x \in Keys \ {k} : /\ Bound(x)' <=> Bound(x)
                            /\ Bound(x) => ValueOf(x)' = ValueOf(x)
  BY InsertBinds
<1>3. /\ Stored' = {x \in Keys : Bound(x)'}
      /\ Contents' = [x \in Stored' |-> ValueOf(x)']
  BY DEF Stored, Contents, Bound, ValueOf
<1>4. Stored' = Stored \cup {k}
  BY <1>1, <1>2, <1>3, ContentsAre
<1>5. \A x \in Stored \cup {k} : ValueOf(x)' = IF x = k THEN v ELSE Contents[x]
  BY <1>1, <1>2, ContentsAre
<1>. QED  BY <1>3, <1>4, <1>5

LEMMA UnlinkIsRemove ==
  ASSUME NEW k \in Keys, TableInv, stale = {}, Unlink(k)
  PROVE  Contents' = [x \in Stored \ {k} |-> Contents[x]]
<1>1. ~Bound(k)'
  BY UnlinkUnbinds
<1>2. \A x \in Keys \ {k} : /\ Bound(x)' <=> Bound(x)
                            /\ Bound(x) => ValueOf(x)' = ValueOf(x)
  BY UnlinkUnbinds
<1>3. /\ Stored' = {x \in Keys : Bound(x)'}
      /\ Contents' = [x \in Stored' |-> ValueOf(x)']
  BY DEF Stored, Contents, Bound, ValueOf
<1>4. Stored' = Stored \ {k}
  BY <1>1, <1>2, <1>3, ContentsAre
<1>5. \A x \in Stored \ {k} : ValueOf(x)' = Contents[x]
  BY <1>2, ContentsAre
<1>. QED  BY <1>3, <1>4, <1>5

\* map_keys meets the nodes of every slot, which are those of the bound keys.
LEMMA ListedAreStored == ASSUME TableInv, stale = {} PROVE Listed = Stored
<1>1. ASSUME NEW k \in Keys, NEW i \in Slots, Find(buckets[i], k) # 0
      PROVE  i = Index(k)
  <2>1. buckets[i] \in Seq(Node) /\ SoundChain(i, buckets[i], last[i])
    BY DEF TableInv, TableOK, ChainsSound
  <2>2. /\ Find(buckets[i], k) \in 1 .. Len(buckets[i])
        /\ buckets[i][Find(buckets[i], k)].key = k
    BY <1>1, <2>1, FindProperties, LenProperties
  <2>. QED  BY <2>1, <2>2 DEF SoundChain
<1>2. \A k \in Keys : Index(k) \in Slots
  BY IndexInSlots DEF TableInv, TableOK
<1>. QED  BY <1>1, <1>2 DEF Listed, Stored

\* A step that starts and ends with a map whose pointers are all its own is a
\* step of the dictionary.
LEMMA PristineStep ==
  ASSUME Inv, Next, Pristine, Pristine'
  PROVE  [D!DictNext]_<<Contents, reply>>
<1>1. /\ TableInv /\ stale = {} /\ unset = {} /\ status = "ok" /\ status' = "ok"
      /\ call = NoCall /\ call' = NoCall
  BY DEF Inv, Pristine, Idle, Running, Resizing
<1>2. DOMAIN Contents = Stored
  BY DEF Contents
<1>3. \A k : ~Undefined(k)
  BY <1>1 DEF Undefined
<1>4. \A size, cl : BeginResize(size, cl) => call' = cl
  BY <1>1 DEF BeginResize
<1>5. ASSUME NEW k \in Keys, NEW v \in Values, MapAdd(k, v) PROVE D!Put(k, v)
  <2>1. Insert(k, v) /\ reply' = Answer("add", k, v)
    BY <1>3, <1>5 DEF MapAdd
  <2>. QED  BY <1>1, <1>2, <2>1, InsertIsPut
            DEF D!Put, D!Bound, D!Answer, Answer
<1>6. ASSUME NEW k \in Keys, MapRemove(k) PROVE D!Remove(k)
  <2>1. Unlink(k) /\ reply' = Answer("remove", k, Null)
    BY <1>3, <1>6 DEF MapRemove
  <2>. QED  BY <1>1, <1>2, <2>1, UnlinkIsRemove
            DEF D!Remove, D!Bound, D!Answer, Answer
<1>7. ASSUME NEW k \in Keys, MapGet(k) PROVE D!Get(k)
  <2>1. Contents' = Contents
    BY <1>3, <1>7, ReadKeepsContents DEF MapGet
  <2>2. reply' = Answer("get", k, IF Bound(k) THEN ValueOf(k) ELSE Null)
    BY <1>3, <1>7 DEF MapGet, Bound, ValueOf
  <2>. QED  BY <1>2, <2>1, <2>2, ContentsAre DEF D!Get, D!Bound, D!Answer, Answer
<1>8. ASSUME NEW k \in Keys, MapContains(k) PROVE D!Contains(k)
  <2>1. Contents' = Contents
    BY <1>3, <1>8, ReadKeepsContents DEF MapContains
  <2>2. reply' = Answer("contains", k, Bound(k))
    BY <1>3, <1>8 DEF MapContains, Bound
  <2>3. Bound(k) = (k \in Stored)
    BY DEF Stored, Bound
  <2>4. reply' = Answer("contains", k, k \in Stored)
    BY <2>2, <2>3
  <2>. QED  BY <1>2, <2>1, <2>4, Zenon DEF D!Contains, D!Bound, D!Answer, Answer
<1>9. CASE MapKeys
  <2>1. Contents' = Contents
    BY <1>1, <1>9 DEF MapKeys, Contents, Stored, Index, table
  <2>2. reply' = Answer("keys", Null, Stored)
    BY <1>1, <1>9, ListedAreStored DEF MapKeys
  <2>. QED  BY <1>2, <2>1, <2>2 DEF D!DictNext, D!KeyList, D!Bound, D!Answer, Answer
<1>10. ~ \E k \in Keys, v \in Values : MapAddGrows(k, v)
  BY <1>1, <1>4 DEF MapAddGrows, NoCall
<1>11. ~ \E k \in Keys : MapRemoveShrinks(k)
  BY <1>1, <1>4 DEF MapRemoveShrinks, NoCall
<1>12. ~Rehash /\ ~Resume /\ ~DelHashmap
  BY <1>1 DEF Rehash, Resume, DelHashmap, Resizing
<1>. QED  BY <1>5, <1>6, <1>7, <1>8, <1>9, <1>10, <1>11, <1>12
          DEF Next, Add, Delete, Query, D!DictNext

\* Until a resize leaves it with pointers it does not own, the map is a
\* dictionary, for any keys, hash function and table size.
THEOREM ImplementsDictionaryUntilResized == Spec => StepsAsDictionary
<1>1. Inv /\ [Next]_vars => [Pristine /\ Pristine' => D!DictNext]_<<Contents, reply>>
  <2>1. UNCHANGED vars => UNCHANGED <<Contents, reply>>
    BY DEF vars, Contents, Stored, Index
  <2>2. ASSUME Inv, Next, Pristine, Pristine'
        PROVE  D!DictNext \/ UNCHANGED <<Contents, reply>>
    BY <2>2, PristineStep
  <2>. QED  BY <2>1, <2>2
<1>. QED  BY <1>1, Invariance, PTL DEF Spec, StepsAsDictionary

-----------------------------------------------------------------------------
(* item_count, which removals leave alone and a resize counts up again.    *)

CountInv == IsFiniteSet(Owned) /\ Cardinality(Owned) <= item_count

\* A key that is new to the map is counted, whichever way map_addn ends.
LEMMA InsertOwns ==
  ASSUME NEW k \in Keys, NEW v \in Values, TableInv, CountInv, Insert(k, v)
  PROVE  CountInv'
<1>1. Owned = {x \in Keys : Index(x) \notin stale /\ Bound(x)}
  BY DEF Owned, Bound
<1>2. /\ Index(k) \notin stale /\ stale' = stale /\ \A x : Index(x)' = Index(x)
      /\ item_count \in Nat
  BY DEF Insert, Readable, Index, TableInv, TableOK
<1>3. Bound(k)' /\ \A x \in Keys \ {k} : Index(x) \notin stale => (Bound(x)' <=> Bound(x))
  BY InsertBinds
<1>4. Owned' = Owned \cup {k}
  <2>1. Owned' = {x \in Keys : Index(x)' \notin stale' /\ Bound(x)'}
    BY DEF Owned, Bound
  <2>. QED  BY <1>1, <1>2, <1>3, <2>1
<1>5. CASE k \in Owned
  <2>1. Owned' = Owned
    BY <1>4, <1>5
  <2>2. item_count' \in {item_count, item_count + 1}
    BY DEF Insert, NewBucket, Overwrite, Collide, counters
  <2>3. Cardinality(Owned) \in Nat
    BY FS_CardinalityType DEF CountInv
  <2>. QED  BY <1>2, <2>1, <2>2, <2>3 DEF CountInv
<1>6. CASE k \notin Owned
  <2>1. Find(buckets[Index(k)], k) = 0
    BY <1>2, <1>6 DEF Owned
  <2>2. item_count' = item_count + 1
    BY <2>1 DEF Insert, NewBucket, Overwrite, Collide
  <2>3. IsFiniteSet(Owned') /\ Cardinality(Owned') = Cardinality(Owned) + 1
    BY <1>4, <1>6, FS_AddElement DEF CountInv
  <2>4. Cardinality(Owned) \in Nat
    BY FS_CardinalityType DEF CountInv
  <2>. QED  BY <1>2, <2>2, <2>3, <2>4 DEF CountInv
<1>. QED  BY <1>5, <1>6

\* A removal leaves fewer keys, or as many, and the count as it is.
LEMMA UnlinkOwns ==
  ASSUME NEW k \in Keys, TableInv, CountInv, Unlink(k)
  PROVE  CountInv'
<1>1. /\ stale' = stale /\ item_count' = item_count /\ item_count \in Nat
      /\ \A x : Index(x)' = Index(x)
  BY DEF Unlink, Readable, Index, TableInv, TableOK, counters
<1>2. ~Bound(k)' /\ \A x \in Keys \ {k} : Index(x) \notin stale => (Bound(x)' <=> Bound(x))
  BY UnlinkUnbinds
<1>3. Owned' \subseteq Owned
  <2>1. Owned = {x \in Keys : Index(x) \notin stale /\ Bound(x)}
    BY DEF Owned, Bound
  <2>2. Owned' = {x \in Keys : Index(x)' \notin stale' /\ Bound(x)'}
    BY DEF Owned, Bound
  <2>. QED  BY <1>1, <1>2, <2>1, <2>2
<1>4. /\ IsFiniteSet(Owned') /\ Cardinality(Owned') <= Cardinality(Owned)
      /\ Cardinality(Owned') \in Nat /\ Cardinality(Owned) \in Nat
  BY <1>3, FS_Subset, FS_CardinalityType DEF CountInv
<1>. QED  BY <1>1, <1>4 DEF CountInv

\* What a step does not change is still counted.
LEMMA OwnedUnchanged ==
  ASSUME CountInv, UNCHANGED <<buckets, buckets_size, stale, counters>>
  PROVE  CountInv'
BY DEF CountInv, Owned, Index, counters

\* When map_resize begins, each slot that has a node is left dangling.
LEMMA ResizeOwns ==
  ASSUME NEW size \in Nat \ {0}, NEW c, TableInv, CountInv, BeginResize(size, c)
  PROVE  CountInv'
<1>1. CASE UNCHANGED <<table, counters>>
  BY <1>1, OwnedUnchanged DEF table
<1>2. CASE /\ buckets_size' = size
           /\ buckets' = [i \in 0 .. size - 1 |-> IF i \in Slots THEN buckets[i] ELSE <<>>]
           /\ stale' = {i \in 0 .. size - 1 : i \in Slots /\ buckets[i] # <<>>}
           /\ UNCHANGED counters
  <2>1. ASSUME NEW x \in Keys, Index(x)' \notin stale' PROVE Find(buckets[Index(x)], x)' = 0
    <3>1. Index(x)' \in 0 .. size - 1
      <4>1. Hash[x] \in Nat
        BY HashAssumption
      <4>. QED  BY <1>2, <4>1 DEF Index
    <3>2. buckets'[Index(x)'] = <<>>
      BY <1>2, <2>1, <3>1
    <3>3. Len(<<>>) = 0
      OBVIOUS
    <3>. QED  BY <3>2, <3>3 DEF Find
  <2>2. Owned' = {}
    BY <2>1 DEF Owned
  <2>3. Cardinality(Owned') = 0 /\ IsFiniteSet(Owned')
    BY <2>2, FS_EmptySet
  <2>4. item_count' \in Nat
    BY <1>2 DEF TableInv, TableOK, counters
  <2>. QED  BY <2>3, <2>4 DEF CountInv
<1>. QED  BY <1>1, <1>2 DEF BeginResize

LEMMA CountStep == Inv /\ CountInv /\ [Next]_vars => CountInv'
<1>. SUFFICES ASSUME Inv, CountInv, [Next]_vars PROVE CountInv'
  OBVIOUS
<1>1. TableInv /\ ControlOK
  BY DEF Inv
<1>2. ASSUME UNCHANGED <<table, counters>> PROVE CountInv'
  BY <1>2, OwnedUnchanged DEF table
<1>3. \A k : Undefined(k) => CountInv'
  BY <1>2 DEF Undefined
<1>4. ASSUME NEW k \in Keys, NEW v \in Values, MapAdd(k, v) \/ MapAddGrows(k, v) PROVE CountInv'
  <2>1. 2 * buckets_size \in Nat \ {0}
    BY <1>1 DEF TableInv, TableOK
  <2>. QED  BY <1>1, <1>3, <1>4, <2>1, InsertOwns, ResizeOwns DEF MapAdd, MapAddGrows
<1>5. ASSUME NEW k \in Keys, MapRemove(k) PROVE CountInv'
  BY <1>1, <1>3, <1>5, UnlinkOwns DEF MapRemove
<1>6. ASSUME NEW k \in Keys, MapRemoveShrinks(k) PROVE CountInv'
  <2>1. buckets_size \div 2 \in Nat \ {0}
    BY <1>1, <1>6, ShrinkLeavesSlots DEF TableInv, TableOK, MapRemoveShrinks
  <2>. QED  BY <1>1, <1>6, <2>1, ResizeOwns DEF MapRemoveShrinks
<1>7. ASSUME NEW k \in Keys, MapGet(k) \/ MapContains(k) PROVE CountInv'
  <2>1. CASE Readable(k) /\ UNCHANGED <<buckets, counters>>
    BY <2>1, OwnedUnchanged DEF Readable
  <2>. QED  BY <1>3, <1>7, <2>1 DEF MapGet, MapContains
<1>8. CASE MapKeys \/ DelHashmap
  BY <1>2, <1>8 DEF MapKeys, DelHashmap
<1>9. CASE Rehash
  <2>1. PICK i \in DOMAIN pending : pending[i] # <<>> /\ RehashNode(i)
    BY <1>9 DEF Rehash
  <2>. DEFINE n == Head(pending[i])
  <2>2. n.key \in Keys /\ n.value \in Values
    <3>1. pending[i] \in Seq(Node)
      BY <1>1, <2>1 DEF ControlOK
    <3>2. n \in Node
      BY <2>1, <3>1, HeadTailProperties
    <3>. QED  BY <3>2 DEF Node
  <2>. HIDE DEF n
  <2>3. Insert(n.key, n.value) \/ UNCHANGED <<table, counters>> \/ Undefined(n.key)
    BY <2>1 DEF RehashNode, n
  <2>. QED  BY <1>1, <1>2, <1>3, <2>2, <2>3, InsertOwns
<1>10. CASE Resume
  <2>1. call.key \in Keys /\ call.value \in Values
    BY <1>1, <1>10 DEF Resume, Resizing, ControlOK, Call
  <2>2. Insert(call.key, call.value) \/ Unlink(call.key) \/ Undefined(call.key)
    BY <1>10 DEF Resume
  <2>. QED  BY <1>1, <1>3, <2>1, <2>2, InsertOwns, UnlinkOwns
<1>11. CASE UNCHANGED vars
  BY <1>2, <1>11 DEF vars, table, counters
<1>. QED  BY <1>4, <1>5, <1>6, <1>7, <1>8, <1>9, <1>10, <1>11 DEF Next, Add, Delete, Query

\* The shrink check of map_removen never finds fewer items counted than a lookup can
\* reach, whatever has been removed before and however often the map was resized.
THEOREM ItemsAlwaysCounted == Spec => []ItemsCounted
<1>1. Init => CountInv
  <2> SUFFICES ASSUME Init PROVE CountInv
    OBVIOUS
  <2>1. buckets_size \in Nat \ {0} /\ Slots = 0 .. InitSize - 1 /\ item_count = 0
    BY SizeAssumption DEF Init, Slots
  <2>2. \A k \in Keys : Len(buckets[Index(k)]) = 0
    BY <2>1, IndexInSlots DEF Init
  <2>3. Owned = {}
    BY <2>2 DEF Owned, Find
  <2>4. IsFiniteSet(Owned) /\ Cardinality(Owned) = 0
    BY <2>3, FS_EmptySet
  <2>. QED  BY <2>1, <2>4 DEF CountInv
<1>2. CountInv => ItemsCounted
  BY DEF CountInv, ItemsCounted
<1>. QED  BY <1>1, <1>2, CountStep, Invariance, PTL DEF Spec

-----------------------------------------------------------------------------
(* Maps of few names: the symbol tables of the compiler, which only add.   *)

SmallInv == /\ Inv
            /\ status \in {"ok", "deleted"} /\ call = NoCall
            /\ stale = {} /\ unset = {} /\ buckets_size = InitSize
            /\ item_count = Cardinality(Stored)
            /\ item_count > 0 => bucket_count > 0

\* An add makes the count of items follow the set of bound keys.
LEMMA InsertCounts ==
  ASSUME IsFiniteSet(Keys), NEW k \in Keys, NEW v \in Values, SmallInv, Insert(k, v)
  PROVE  /\ item_count' = Cardinality(Stored')
         /\ item_count' > 0 => bucket_count' > 0
<1>1. /\ TableInv /\ stale = {} /\ item_count \in Nat /\ bucket_count \in Nat
      /\ item_count = Cardinality(Stored)
      /\ item_count > 0 => bucket_count > 0
  BY DEF SmallInv, Inv, TableInv, TableOK
<1>2. Stored' = Stored \cup {k}
  <2>1. Contents' = [x \in Stored \cup {k} |-> IF x = k THEN v ELSE Contents[x]]
    BY <1>1, InsertIsPut
  <2>2. DOMAIN Contents' = Stored'
    BY DEF Contents
  <2>. QED  BY <2>1, <2>2
<1>3. IsFiniteSet(Stored)
  BY FS_Subset DEF Stored
<1>4. CASE NewBucket(k, v) \/ Collide(k, v)
  <2>1. k \notin Stored /\ item_count' = item_count + 1
    <3>1. CASE NewBucket(k, v)
      <4>1. Len(buckets[Index(k)]) = 0
        BY <3>1 DEF NewBucket
      <4>2. Find(buckets[Index(k)], k) = 0
        BY <4>1 DEF Find
      <4>. QED  BY <3>1, <4>2 DEF NewBucket, Stored
    <3>2. CASE Collide(k, v)
      BY <3>2 DEF Collide, Stored
    <3>. QED  BY <1>4, <3>1, <3>2
  <2>2. Cardinality(Stored') = Cardinality(Stored) + 1
    BY <1>2, <1>3, <2>1, FS_AddElement
  <2>3. bucket_count' > 0
    <3>1. CASE NewBucket(k, v)
      BY <1>1, <3>1 DEF NewBucket
    <3>2. CASE Collide(k, v)
      <4>. DEFINE ch == buckets[Index(k)]
      <4>1. ch \in Seq(Node) /\ ch # <<>> /\ Index(k) \in Slots /\ Index(k) \notin stale
        BY <1>1, <3>2, IndexInSlots DEF Collide, TableInv, TableOK
      <4>2. 1 \in 1 .. Len(ch) /\ ch[1].key \in Keys /\ Index(ch[1].key) = Index(k)
        <5>1. SoundChain(Index(k), ch, last[Index(k)])
          BY <1>1, <4>1 DEF TableInv, ChainsSound
        <5>. HIDE DEF ch
        <5>2. Len(ch) \in Nat \ {0}
          BY <4>1, EmptySeq, LenProperties
        <5>3. ch[1] \in Node
          BY <4>1, <5>2, ElementOfSeq
        <5>4. Index(ch[1].key) = Index(k)
          BY <5>1, <5>2 DEF SoundChain
        <5>. QED  BY <5>2, <5>3, <5>4 DEF Node
      <4>3. Find(ch, ch[1].key) # 0
        BY <4>1, <4>2, FindProperties
      <4>4. ch[1].key \in Stored
        BY <4>2, <4>3 DEF Stored
      <4>5. Cardinality(Stored) # 0
        BY <1>3, <4>4, FS_EmptySet
      <4>. QED  BY <1>1, <3>2, <4>5 DEF Collide
    <3>. QED  BY <1>4, <3>1, <3>2
  <2>. QED  BY <1>1, <2>1, <2>2, <2>3
<1>5. CASE Overwrite(k, v)
  <2>1. k \in Stored /\ UNCHANGED counters
    BY <1>5 DEF Overwrite, Stored
  <2>. QED  BY <1>1, <1>2, <2>1 DEF counters
<1>. QED  BY <1>4, <1>5 DEF Insert

\* With at most MaxCollisions + 1 keys the growth check never fires.
LEMMA SmallNeverGrows ==
  ASSUME IsFiniteSet(Keys), Cardinality(Keys) <= MaxCollisions + 1, SmallInv
  PROVE  ~GrowDue
<1>1. IsFiniteSet(Stored) /\ Cardinality(Stored) <= Cardinality(Keys)
  BY FS_Subset DEF Stored
<1>2. Cardinality(Keys) \in Nat /\ Cardinality(Stored) \in Nat
  BY <1>1, FS_CardinalityType
<1>3. /\ item_count = bucket_count + collision_count
      /\ item_count \in Nat /\ bucket_count \in Nat /\ collision_count \in Nat
      /\ item_count = Cardinality(Stored)
      /\ item_count > 0 => bucket_count > 0
  BY DEF SmallInv, Inv, TableInv, TableOK, CountersAgree
<1>. QED  BY <1>1, <1>2, <1>3, SizeAssumption DEF GrowDue

\* One step of an add-only map of few keys.
LEMMA SmallStep ==
  ASSUME IsFiniteSet(Keys), Cardinality(Keys) <= MaxCollisions + 1,
         SmallInv, [AddOnlyNext]_vars
  PROVE  SmallInv' /\ [D!DictNext]_<<Contents, reply>>
<1>1. Inv'
  <2>1. [Next]_vars
    BY DEF AddOnlyNext, Next
  <2>. QED  BY <2>1, NextPreserves DEF SmallInv
<1>2. \A k : ~Undefined(k)
  BY DEF SmallInv, Undefined
<1>3. Running' /\ UNCHANGED <<stale, unset, call, buckets_size>> => Pristine'
  BY DEF SmallInv, Pristine, Idle, Resizing, Running
<1>4. Idle => Pristine
  BY DEF SmallInv, Pristine, Idle
<1>5. ASSUME NEW k \in Keys, NEW v \in Values, MapAdd(k, v), item_count < MaxItems
      PROVE  SmallInv' /\ [D!DictNext]_<<Contents, reply>>
  <2>1. Insert(k, v) /\ UNCHANGED <<pending, call>>
    BY <1>2, <1>5 DEF MapAdd
  <2>2. /\ buckets_size' = buckets_size /\ stale' = stale /\ unset' \subseteq unset
        /\ status' = status
    BY <2>1 DEF Insert, Readable
  <2>3. SmallInv'
    BY <1>1, <2>1, <2>2, InsertCounts DEF SmallInv
  <2>4. Pristine /\ Pristine'
    BY <1>4, <1>5, <2>1, <2>2, <2>3 DEF MapAdd, SmallInv, Pristine, Idle, Running, Resizing
  <2>5. Next
    BY <1>5 DEF Next, Add
  <2>. QED  BY <2>3, <2>4, <2>5, PristineStep DEF SmallInv
<1>6. ~ \E k \in Keys, v \in Values : MapAddGrows(k, v)
  BY SmallNeverGrows DEF MapAddGrows
<1>7. ASSUME Query
      PROVE  SmallInv' /\ [D!DictNext]_<<Contents, reply>>
  <2>1. /\ UNCHANGED <<buckets, last, counters, pending, call, buckets_size, stale, status>>
        /\ unset' \subseteq unset /\ Idle
    BY <1>2, <1>7 DEF Query, MapGet, MapContains, MapKeys, Readable, SmallInv, table
  <2>2. Stored' = Stored
    BY <2>1 DEF Stored, Index
  <2>3. SmallInv'
    BY <1>1, <2>1, <2>2 DEF SmallInv, counters
  <2>4. Pristine /\ Pristine'
    BY <1>4, <2>1, <2>3 DEF SmallInv, Pristine, Idle, Running, Resizing
  <2>5. Next
    BY <1>7 DEF Next
  <2>. QED  BY <2>3, <2>4, <2>5, PristineStep DEF SmallInv
<1>8. CASE Rehash \/ Resume
  BY <1>8 DEF Rehash, Resume, Resizing, SmallInv
<1>9. CASE DelHashmap
  <2>1. /\ status' = "deleted" /\ UNCHANGED <<table, counters, pending, call, reply>>
    BY <1>9 DEF DelHashmap, SmallInv
  <2>2. Contents' = Contents /\ Stored' = Stored
    BY <2>1 DEF Contents, Stored, Index, table
  <2>. QED  BY <1>1, <2>1, <2>2 DEF SmallInv, table, counters
<1>10. CASE UNCHANGED vars
  <2>1. Contents' = Contents /\ Stored' = Stored
    BY <1>10 DEF Contents, Stored, Index, vars
  <2>. QED  BY <1>1, <1>10, <2>1 DEF SmallInv, vars
<1>. QED  BY <1>5, <1>6, <1>7, <1>8, <1>9, <1>10 DEF AddOnlyNext, Add

\* The map init_hashmap returns is empty, and small.
LEMMA SmallInit ==
  ASSUME Init PROVE SmallInv /\ D!DictInit
<1>1. Inv
  BY InitEstablishes
<1>2. Stored = {}
  <2>1. \A k \in Keys : Index(k) \in 0 .. InitSize - 1
    <3>1. buckets_size \in Nat \ {0}
      BY <1>1 DEF Inv, TableInv, TableOK
    <3>2. Slots = 0 .. InitSize - 1
      BY DEF Init, Slots
    <3>. QED  BY <3>1, <3>2, IndexInSlots
  <2>2. \A k \in Keys : Len(buckets[Index(k)]) = 0
    BY <2>1 DEF Init
  <2>. QED  BY <2>2 DEF Stored, Find
<1>3. Contents = [k \in {} |-> Null]
  BY <1>2 DEF Contents
<1>4. Cardinality(Stored) = 0
  BY <1>2, FS_EmptySet
<1>. QED  BY <1>1, <1>3, <1>4 DEF Init, SmallInv, D!DictInit, NoAnswer, D!NoAnswer, Answer, D!Answer

\* A symbol table that only ever adds, of at most MaxCollisions + 1 different
\* names (nine in the code), is never resized, whatever the hash function does.
THEOREM SmallMapsNeverResize ==
  ASSUME IsFiniteSet(Keys), Cardinality(Keys) <= MaxCollisions + 1
  PROVE  AddOnlySpec => []NeverResized
<1>1. Init => SmallInv
  BY SmallInit
<1>2. SmallInv /\ [AddOnlyNext]_vars => SmallInv'
  BY SmallStep
<1>3. SmallInv => NeverResized
  BY DEF SmallInv, NeverResized, Resizing
<1>. QED  BY <1>1, <1>2, <1>3, PTL DEF AddOnlySpec

\* And the item_count of such a symbol table is the number of its items, although
\* a name is added again and again.
THEOREM SmallMapsCountTheirItems ==
  ASSUME IsFiniteSet(Keys), Cardinality(Keys) <= MaxCollisions + 1
  PROVE  AddOnlySpec => []ItemCountIsItems
<1>1. Init => SmallInv
  BY SmallInit
<1>2. SmallInv /\ [AddOnlyNext]_vars => SmallInv'
  BY SmallStep
<1>3. SmallInv => ItemCountIsItems
  BY DEF SmallInv, ItemCountIsItems
<1>. QED  BY <1>1, <1>2, <1>3, PTL DEF AddOnlySpec

\* Such a symbol table is a dictionary from start to end: every map_add binds,
\* every map_get and map_contains answers what was last bound.
THEOREM SmallMapsImplementDictionary ==
  ASSUME IsFiniteSet(Keys), Cardinality(Keys) <= MaxCollisions + 1
  PROVE  AddOnlySpec => ImplementsDictionary
<1>1. Init => SmallInv /\ D!DictInit
  BY SmallInit
<1>2. SmallInv /\ [AddOnlyNext]_vars => SmallInv' /\ [D!DictNext]_<<Contents, reply>>
  BY SmallStep
<1>. QED  BY <1>1, <1>2, PTL DEF AddOnlySpec, ImplementsDictionary, D!DictSpec, D!dictVars
=============================================================================
