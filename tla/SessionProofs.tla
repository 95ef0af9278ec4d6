--------------------------- MODULE SessionProofs ----------------------------
(***************************************************************************)
(* Proofs about the globals of a session, for every set of names, and every *)
(* checker and code generator that keep the Contract of Session.           *)
(***************************************************************************)
EXTENDS Session, FiniteSetTheorems, SequenceTheorems, WellFoundedInduction, TLAPS

-----------------------------------------------------------------------------
(* Lists of globals: h is such a list, n a global.                         *)

NoRepeats(h) == \A i, j \in DOMAIN h : h[i] = h[j] => i = j
Members(h) == {h[i] : i \in DOMAIN h}
PlaceIn(h, n) == CHOOSE i \in DOMAIN h : h[i] = n

\* The variables, not counting repl.last, that have a place before i.
Before(h, i) == {j \in 1 .. i - 1 : j \in DOMAIN h /\ h[j] # ReplLast}

\* A global of a list without repetitions is where one finds it.
LEMMA PlaceOf ==
  ASSUME NEW h \in Seq(Globals), NoRepeats(h), NEW i \in DOMAIN h
  PROVE  PlaceIn(h, h[i]) = i
BY DEF NoRepeats, PlaceIn

\* Removing from a list keeps the others, in their order.
LEMMA RemovedAt ==
  ASSUME NEW h \in Seq(Globals), NEW r \in 1 .. Len(h)
  PROVE  /\ RemoveAt(h, r) \in Seq(Globals)
         /\ Len(RemoveAt(h, r)) = Len(h) - 1
         /\ \A j \in 1 .. Len(h) - 1 :
              RemoveAt(h, r)[j] = IF j < r THEN h[j] ELSE h[j + 1]
<1>. DEFINE front == SubSeq(h, 1, r - 1)
            back == SubSeq(h, r + 1, Len(h))
<1>1. Len(h) \in Nat /\ \A j \in 1 .. Len(h) : h[j] \in Globals
  BY LenProperties, ElementOfSeq
<1>2. /\ front \in Seq(Globals)
      /\ Len(front) = r - 1
      /\ \A j \in 1 .. r - 1 : front[j] = h[j]
  <2>1. \A j \in 1 .. r - 1 : h[j] \in Globals
    BY <1>1
  <2>2. /\ front \in Seq(Globals)
        /\ Len(front) = IF 1 <= r - 1 THEN (r - 1) - 1 + 1 ELSE 0
        /\ \A j \in 1 .. (r - 1) - 1 + 1 : front[j] = h[1 + j - 1]
    BY <2>1, <1>1, SubSeqProperties
  <2>. QED  BY <2>2, <1>1
<1>3. /\ back \in Seq(Globals)
      /\ Len(back) = Len(h) - r
      /\ \A j \in 1 .. Len(h) - r : back[j] = h[j + r]
  <2>1. \A j \in r + 1 .. Len(h) : h[j] \in Globals
    BY <1>1
  <2>2. /\ back \in Seq(Globals)
        /\ Len(back) = IF r + 1 <= Len(h) THEN Len(h) - (r + 1) + 1 ELSE 0
        /\ \A j \in 1 .. Len(h) - (r + 1) + 1 : back[j] = h[(r + 1) + j - 1]
    BY <2>1, <1>1, SubSeqProperties
  <2>. QED  BY <2>2, <1>1
<1>4. RemoveAt(h, r) = front \o back
  BY DEF RemoveAt
<1>. HIDE DEF front, back
<1>5. /\ front \o back \in Seq(Globals)
      /\ Len(front \o back) = Len(front) + Len(back)
      /\ \A j \in 1 .. Len(front) + Len(back) : (front \o back)[j] =
                  IF j <= Len(front) THEN front[j] ELSE back[j - Len(front)]
  BY <1>2, <1>3, ConcatProperties
<1>6. ASSUME NEW j \in 1 .. Len(h) - 1
      PROVE  (front \o back)[j] = IF j < r THEN h[j] ELSE h[j + 1]
  <2>1. CASE j < r
    BY <2>1, <1>1, <1>2, <1>3, <1>5
  <2>2. CASE ~(j < r)
    <3>1. j - (r - 1) \in 1 .. Len(h) - r
      BY <2>2, <1>1
    <3>2. back[j - (r - 1)] = h[j - (r - 1) + r]
      BY <3>1, <1>3
    <3>. QED  BY <2>2, <3>1, <3>2, <1>1, <1>2, <1>3, <1>5
  <2>. QED  BY <2>1, <2>2
<1>. QED  BY <1>1, <1>2, <1>3, <1>4, <1>5, <1>6

\* A list stays without repetitions when a new global is added to its end, and
\* each of the others has the same variables before it.
LEMMA AppendKeeps ==
  ASSUME NEW h \in Seq(Globals), NoRepeats(h), NEW g \in Globals \ Members(h)
  PROVE  LET h2 == Append(h, g)
         IN  /\ h2 \in Seq(Globals) /\ NoRepeats(h2)
             /\ Members(h2) = Members(h) \cup {g}
             /\ \A n \in Members(h) : Before(h2, PlaceIn(h2, n)) = Before(h, PlaceIn(h, n))
<1>. DEFINE h2 == Append(h, g)
<1>1. /\ Len(h) \in Nat /\ DOMAIN h = 1 .. Len(h)
      /\ h2 \in Seq(Globals) /\ DOMAIN h2 = 1 .. Len(h) + 1
      /\ \A i \in 1 .. Len(h) : h2[i] = h[i]
      /\ h2[Len(h) + 1] = g
  BY AppendProperties, LenProperties
<1>. HIDE DEF h2
<1>2. \A i \in 1 .. Len(h) : h[i] # g
  BY <1>1 DEF Members
<1>3. NoRepeats(h2)
  BY <1>1, <1>2 DEF NoRepeats
<1>4. Members(h2) = Members(h) \cup {g}
  <2>1. ASSUME NEW x \in Members(h2) PROVE x \in Members(h) \cup {g}
    BY <1>1 DEF Members
  <2>2. ASSUME NEW x \in Members(h) \cup {g} PROVE x \in Members(h2)
    <3>1. CASE x = g
      BY <3>1, <1>1 DEF Members
    <3>2. CASE x \in Members(h)
      <4>1. PICK i \in 1 .. Len(h) : h[i] = x
        BY <3>2, <1>1 DEF Members
      <4>. QED  BY <4>1, <1>1 DEF Members
    <3>. QED  BY <3>1, <3>2
  <2>. QED  BY <2>1, <2>2
<1>5. ASSUME NEW n \in Members(h)
      PROVE  Before(h2, PlaceIn(h2, n)) = Before(h, PlaceIn(h, n))
  <2>1. PICK i \in 1 .. Len(h) : h[i] = n
    BY <1>1 DEF Members
  <2>2. PlaceIn(h, n) = i
    BY <1>1, <2>1, PlaceOf
  <2>3. PlaceIn(h2, n) = i
    BY <1>1, <1>3, <2>1, PlaceOf
  <2>. QED  BY <1>1, <2>1, <2>2, <2>3 DEF Before
<1>. QED  BY <1>1, <1>3, <1>4, <1>5 DEF h2

\* So it does when repl.last is removed; the variables before each of the others
\* may have moved, but they are as many.
LEMMA RemoveLastKeeps ==
  ASSUME NEW h \in Seq(Globals), NoRepeats(h), NEW r \in DOMAIN h, h[r] = ReplLast
  PROVE  LET h2 == RemoveAt(h, r)
         IN  /\ h2 \in Seq(Globals) /\ NoRepeats(h2)
             /\ Members(h2) = Members(h) \ {ReplLast}
             /\ \A n \in Members(h2) : Cardinality(Before(h2, PlaceIn(h2, n)))
                                        = Cardinality(Before(h, PlaceIn(h, n)))
<1>. DEFINE h2 == RemoveAt(h, r)
            Old(j) == IF j < r THEN j ELSE j + 1
<1>1. /\ Len(h) \in Nat \ {0} /\ DOMAIN h = 1 .. Len(h) /\ r \in 1 .. Len(h)
      /\ h2 \in Seq(Globals) /\ DOMAIN h2 = 1 .. Len(h) - 1
      /\ \A j \in 1 .. Len(h) - 1 : h2[j] = h[Old(j)]
  <2>1. Len(h) \in Nat /\ DOMAIN h = 1 .. Len(h)
    BY LenProperties
  <2>2. r \in 1 .. Len(h)
    BY <2>1
  <2>3. /\ h2 \in Seq(Globals) /\ Len(h2) = Len(h) - 1
        /\ \A j \in 1 .. Len(h) - 1 : h2[j] = IF j < r THEN h[j] ELSE h[j + 1]
    BY <2>2, RemovedAt
  <2>4. DOMAIN h2 = 1 .. Len(h2)
    BY <2>3, LenProperties
  <2>. HIDE DEF h2
  <2>. QED  BY <2>1, <2>2, <2>3, <2>4
<1>. HIDE DEF h2
<1>2. \A j \in 1 .. Len(h) - 1 : Old(j) \in 1 .. Len(h) /\ Old(j) # r
  BY <1>1
<1>3. \A i \in 1 .. Len(h) : i # r => \E j \in 1 .. Len(h) - 1 : Old(j) = i
  <2>1. ASSUME NEW i \in 1 .. Len(h), i # r
        PROVE  \E j \in 1 .. Len(h) - 1 : Old(j) = i
    <3>1. CASE i < r
      <4>1. i \in 1 .. Len(h) - 1 /\ Old(i) = i
        BY <3>1, <1>1
      <4>. QED  BY <4>1
    <3>2. CASE i > r
      <4>1. i - 1 \in 1 .. Len(h) - 1 /\ Old(i - 1) = i
        BY <3>2, <1>1
      <4>. QED  BY <4>1
    <3>. QED  BY <2>1, <3>1, <3>2, <1>1
  <2>. QED  BY <2>1
<1>4. \A j, m \in 1 .. Len(h) - 1 : (Old(j) = Old(m) => j = m) /\ (j < m <=> Old(j) < Old(m))
  BY <1>1
<1>. HIDE DEF Old
<1>5. NoRepeats(h2)
  BY <1>1, <1>2, <1>4 DEF NoRepeats
<1>6. \A j \in 1 .. Len(h) - 1 : h2[j] # ReplLast
  BY <1>1, <1>2 DEF NoRepeats
<1>7. Members(h2) = Members(h) \ {ReplLast}
  <2>1. ASSUME NEW x \in Members(h2) PROVE x \in Members(h) \ {ReplLast}
    <3>1. PICK j \in 1 .. Len(h) - 1 : h2[j] = x
      BY <1>1 DEF Members
    <3>2. x = h[Old(j)] /\ Old(j) \in DOMAIN h /\ x # ReplLast
      BY <3>1, <1>1, <1>2, <1>6
    <3>. QED  BY <3>2 DEF Members
  <2>2. ASSUME NEW x \in Members(h) \ {ReplLast} PROVE x \in Members(h2)
    <3>1. PICK i \in 1 .. Len(h) : h[i] = x
      BY <1>1 DEF Members
    <3>2. PICK j \in 1 .. Len(h) - 1 : Old(j) = i
      BY <3>1, <1>3
    <3>3. x = h2[j] /\ j \in DOMAIN h2
      BY <3>1, <3>2, <1>1
    <3>. QED  BY <3>3 DEF Members
  <2>. QED  BY <2>1, <2>2
<1>8. ASSUME NEW n \in Members(h2)
      PROVE  Cardinality(Before(h2, PlaceIn(h2, n))) = Cardinality(Before(h, PlaceIn(h, n)))
  <2>1. PICK p \in 1 .. Len(h) - 1 : h2[p] = n
    BY <1>1 DEF Members
  <2>2. PlaceIn(h2, n) = p
    BY <1>1, <1>5, <2>1, PlaceOf
  <2>3. PlaceIn(h, n) = Old(p)
    <3>1. Old(p) \in DOMAIN h /\ h[Old(p)] = n
      BY <1>1, <1>2, <2>1
    <3>. QED  BY <3>1, PlaceOf
  <2>. DEFINE new == Before(h2, p)
              old == Before(h, Old(p))
              f == [j \in new |-> Old(j)]
  <2>4. \A j : j \in new <=> j \in 1 .. Len(h) - 1 /\ j < p
    BY <1>1, <1>6, <2>1 DEF Before
  <2>5. \A i : i \in old <=> i \in 1 .. Len(h) /\ i < Old(p) /\ i # r
    <3>1. Old(p) \in 1 .. Len(h)
      BY <1>2
    <3>2. \A i \in 1 .. Len(h) : h[i] # ReplLast <=> i # r
      BY <1>1 DEF NoRepeats
    <3>. QED  BY <1>1, <3>1, <3>2 DEF Before
  <2>. HIDE DEF new, old
  <2>6. IsFiniteSet(new)
    <3>1. new \subseteq 1 .. Len(h) - 1
      BY <2>4
    <3>2. IsFiniteSet(1 .. Len(h) - 1)
      BY <1>1, FS_Interval
    <3>. QED  BY <3>1, <3>2, FS_Subset
  <2>7. \A j \in new : Old(j) \in old
    BY <1>2, <1>4, <2>4, <2>5, <2>1
  <2>8. \A j, m \in new : Old(j) = Old(m) => j = m
    BY <1>4, <2>4
  <2>9. \A i \in old : \E j \in new : Old(j) = i
    <3>1. ASSUME NEW i \in old PROVE \E j \in new : Old(j) = i
      <4>1. i \in 1 .. Len(h) /\ i < Old(p) /\ i # r
        BY <2>5
      <4>2. PICK j \in 1 .. Len(h) - 1 : Old(j) = i
        BY <4>1, <1>3
      <4>3. j < p
        BY <4>1, <4>2, <1>4, <2>1
      <4>. QED  BY <4>2, <4>3, <2>4
    <3>. QED  BY <3>1
  <2>10. f \in Bijection(new, old)
    <3>1. f \in [new -> old] /\ \A j \in new : f[j] = Old(j)
      BY <2>7
    <3>. HIDE DEF f
    <3>. QED  BY <3>1, <2>8, <2>9 DEF Bijection, Injection, Surjection, IsInjective
  <2>11. Cardinality(old) = Cardinality(new)
    BY <2>6, <2>10, FS_Bijection DEF ExistsBijection
  <2>. QED  BY <2>2, <2>3, <2>11 DEF new, old
<1>. QED  BY <1>1, <1>5, <1>7, <1>8 DEF h2

-----------------------------------------------------------------------------
(* The steps of the session, as edits of the list of globals.              *)

GlobalsOK == /\ header \in Seq(Globals)
             /\ global_type \in [Globals -> LlvmTypes \cup {Absent}]
             /\ HeaderSound

Keeps == UNCHANGED <<header, global_type>>
Renews == \E t \in LlvmTypes : /\ header' = Append(LastDeleted, ReplLast)
                               /\ global_type' = [global_type EXCEPT ![ReplLast] = t]
Creates == \E n \in Names, t \in LlvmTypes : /\ global_type[n] = Absent
                                             /\ header' = Append(header, n)
                                             /\ global_type' = [global_type EXCEPT ![n] = t]

\* No variable moves to another slot.
SlotsKept == \A n \in Names : n \in Named => n \in Named' /\ Slot(n)' = Slot(n)

\* What the session counts on, with the S expressions of the chunk in progress.
SessionInv(SExprs) ==
    /\ scopes = <<scopes[1]>> /\ scopes[1] \in RootScopes
    /\ ir \in Seq(SExprs)
    /\ phase = "check" => ir # <<>>
    /\ GlobalsOK

\* The slot of a variable, the named globals and HeaderSound, now and after a
\* step, in terms of the list alone.
LEMMA SlotIs ==
  ASSUME NEW n
  PROVE  /\ Slot(n) = Cardinality(Before(header, PlaceIn(header, n)))
         /\ Slot(n)' = Cardinality(Before(header', PlaceIn(header', n)))
<1>1. \A i : {j \in 1 .. i - 1 : IsNamed(j)} = Before(header, i)
  BY DEF IsNamed, Before
<1>2. \A i : {j \in 1 .. i - 1 : IsNamed(j)'} = Before(header', i)
  BY DEF IsNamed, Before
<1>. QED  BY <1>1, <1>2 DEF Slot, Place, PlaceIn

LEMMA NamedAre ==
  /\ Named = Members(header) \ {ReplLast}
  /\ Named' = Members(header') \ {ReplLast}
BY DEF Named, IsNamed, Members

LEMMA HeaderSoundIs ==
  /\ HeaderSound <=> /\ NoRepeats(header)
                     /\ \A n \in Globals : global_type[n] # Absent <=> n \in Members(header)
  /\ HeaderSound' <=> /\ NoRepeats(header')
                      /\ \A n \in Globals : global_type'[n] # Absent <=> n \in Members(header')
BY DEF HeaderSound, NoRepeats, Members

\* Any edit keeps the list in step with the symbol table, and the slots.
LEMMA EditsKeep ==
  ASSUME GlobalsOK, Keeps \/ Renews \/ Creates
  PROVE  GlobalsOK' /\ SlotsKept
<1>. USE SlotIs, NamedAre, HeaderSoundIs
<1>1. /\ header \in Seq(Globals) /\ global_type \in [Globals -> LlvmTypes \cup {Absent}]
      /\ NoRepeats(header)
      /\ \A n \in Globals : global_type[n] # Absent <=> n \in Members(header)
  BY DEF GlobalsOK
<1>2. ReplLast \in Globals /\ ReplLast \notin Names /\ Names \subseteq Globals
      /\ Members(header) \subseteq Globals
  BY <1>1, NamesAssumption, ElementOfSeq DEF Globals, Members
<1>3. Absent \notin LlvmTypes
  BY DEF Absent, LlvmTypes, MachineTypes
<1>4. CASE Keeps
  BY <1>4, <1>1 DEF Keeps, GlobalsOK, SlotsKept, Slot, Place, IsNamed, Named, HeaderSound
<1>5. CASE Creates
  <2>1. PICK n \in Names, t \in LlvmTypes :
               /\ global_type[n] = Absent
               /\ header' = Append(header, n)
               /\ global_type' = [global_type EXCEPT ![n] = t]
    BY <1>5 DEF Creates
  <2>2. n \in Globals \ Members(header)
    BY <2>1, <1>1, <1>2
  <2>3. /\ header' \in Seq(Globals) /\ NoRepeats(header')
        /\ Members(header') = Members(header) \cup {n}
        /\ \A m \in Members(header) :
              Before(header', PlaceIn(header', m)) = Before(header, PlaceIn(header, m))
    BY <2>1, <2>2, <1>1, AppendKeeps
  <2>4. /\ global_type' \in [Globals -> LlvmTypes \cup {Absent}]
        /\ \A m \in Globals : global_type'[m] # Absent <=> m \in Members(header')
    BY <2>1, <2>2, <2>3, <1>1, <1>3
  <2>5. GlobalsOK'
    BY <2>3, <2>4 DEF GlobalsOK
  <2>6. SlotsKept
    BY <2>3, <1>2 DEF SlotsKept
  <2>. QED  BY <2>5, <2>6
<1>6. CASE Renews
  <2>1. PICK t \in LlvmTypes : /\ header' = Append(LastDeleted, ReplLast)
                              /\ global_type' = [global_type EXCEPT ![ReplLast] = t]
    BY <1>6 DEF Renews
  <2>2. /\ LastDeleted \in Seq(Globals) /\ NoRepeats(LastDeleted)
        /\ Members(LastDeleted) = Members(header) \ {ReplLast}
        /\ \A n \in Members(LastDeleted) :
              Cardinality(Before(LastDeleted, PlaceIn(LastDeleted, n)))
              = Cardinality(Before(header, PlaceIn(header, n)))
    <3>1. CASE \E i \in DOMAIN header : header[i] = ReplLast
      <4>1. /\ PlaceIn(header, ReplLast) \in DOMAIN header
            /\ header[PlaceIn(header, ReplLast)] = ReplLast
        BY <3>1 DEF PlaceIn
      <4>2. LastDeleted = RemoveAt(header, PlaceIn(header, ReplLast))
        BY <3>1 DEF LastDeleted, Place, PlaceIn
      <4>. QED  BY <4>1, <4>2, <1>1, RemoveLastKeeps
    <3>2. CASE ~ \E i \in DOMAIN header : header[i] = ReplLast
      <4>1. LastDeleted = header /\ ReplLast \notin Members(header)
        BY <3>2 DEF LastDeleted, Members
      <4>. QED  BY <4>1, <1>1
    <3>. QED  BY <3>1, <3>2
  <2>3. /\ header' \in Seq(Globals) /\ NoRepeats(header')
        /\ Members(header') = Members(LastDeleted) \cup {ReplLast}
        /\ \A n \in Members(LastDeleted) :
              Before(header', PlaceIn(header', n)) = Before(LastDeleted, PlaceIn(LastDeleted, n))
    <3>1. ReplLast \in Globals \ Members(LastDeleted)
      BY <2>2, <1>2
    <3>. QED  BY <2>1, <2>2, <3>1, AppendKeeps
  <2>4. /\ global_type' \in [Globals -> LlvmTypes \cup {Absent}]
        /\ \A m \in Globals : global_type'[m] # Absent <=> m \in Members(header')
    BY <2>1, <2>2, <2>3, <1>1, <1>2, <1>3
  <2>5. GlobalsOK'
    BY <2>3, <2>4 DEF GlobalsOK
  <2>6. SlotsKept
    BY <2>2, <2>3, <1>2 DEF SlotsKept
  <2>. QED  BY <2>5, <2>6
<1>. QED  BY <1>4, <1>5, <1>6

-----------------------------------------------------------------------------
(* The steps of the session.                                               *)

\* Every step of the session keeps what it counts on, and is an edit or none.
LEMMA StepIsEdit ==
  ASSUME NEW SExprs, Contract(SExprs), SessionInv(SExprs), Next
  PROVE  /\ Keeps \/ Renews \/ Creates
         /\ scopes' = <<scopes'[1]>> /\ scopes'[1] \in RootScopes
         /\ ir' \in Seq(SExprs)
         /\ phase' = "check" => ir' # <<>>
<1>. DEFINE Rest == /\ scopes' = <<scopes'[1]>> /\ scopes'[1] \in RootScopes
                    /\ ir' \in Seq(SExprs)
                    /\ phase' = "check" => ir' # <<>>
<1>1. /\ scopes = <<scopes[1]>> /\ scopes[1] \in RootScopes
      /\ ir \in Seq(SExprs)
      /\ phase = "check" => ir # <<>>
      /\ global_type \in [Globals -> LlvmTypes \cup {Absent}]
  BY DEF SessionInv, GlobalsOK
<1>2. \A i \in DOMAIN ir : ir[i] \in SExprs
  BY <1>1
<1>3. ASSUME UNCHANGED <<scopes, header, global_type, ir>>, phase' = "check" => phase = "check"
      PROVE  Keeps /\ Rest
  BY <1>1, <1>3 DEF Keeps
<1>4. ASSUME NEW s, Ends(s) PROVE Keeps /\ Rest
  BY <1>3, <1>4 DEF Ends, process
<1>5. ASSUME NEW chunk \in Chunks, ReadChunk(chunk) PROVE Keeps /\ Rest
  <2>1. CASE \E i \in DOMAIN chunk : chunk[i].tag = "unsupported"
    BY <1>4, <1>5, <2>1 DEF ReadChunk
  <2>2. CASE ~ \E i \in DOMAIN chunk : chunk[i].tag = "unsupported"
    <3>1. ir' \in Seq(SExprs) \ {<<>>}
      BY <1>5, <2>2 DEF ReadChunk, Contract
    <3>2. UNCHANGED <<scopes, header, global_type>>
      BY <1>5, <2>2 DEF ReadChunk
    <3>. QED  BY <1>1, <3>1, <3>2 DEF Keeps
  <2>. QED  BY <2>1, <2>2
<1>6. CASE CheckNext
  <2>. DEFINE r == Checked(ir[pos], scopes)
  <2>1. /\ r.scopes[1] \in RootScopes
        /\ r.ok => r.sexpr \in SExprs /\ r.scopes = <<r.scopes[1]>>
    <3>1. ir[pos] \in SExprs
      BY <1>2, <1>6 DEF CheckNext
    <3>2. r = Checked(ir[pos], <<scopes[1]>>)
      BY <1>1
    <3>. QED  BY <1>1, <3>1, <3>2 DEF Contract
  <2>5. CASE r.undefined
    BY <1>4, <1>6, <2>5 DEF CheckNext
  <2>2. Keeps
    BY <1>4, <1>6 DEF CheckNext, Keeps
  <2>3. CASE ~r.undefined /\ r.ok
    <3>1. scopes' = r.scopes /\ ir' = [ir EXCEPT ![pos] = r.sexpr] /\ pos \in DOMAIN ir
      BY <1>6, <2>3 DEF CheckNext
    <3>. HIDE DEF r
    <3>2. ir' \in Seq(SExprs) /\ ir' # <<>>
      BY <1>1, <2>1, <2>3, <3>1
    <3>. QED  BY <2>1, <2>2, <2>3, <3>1, <3>2
  <2>4. CASE ~r.undefined /\ ~r.ok
    <3>1. scopes' = <<r.scopes[1]>> /\ ir' = <<>> /\ phase' = "read"
      BY <1>6, <2>4 DEF CheckNext, RootOf, GoTo
    <3>. HIDE DEF r
    <3>. QED  BY <2>1, <2>2, <3>1
  <2>. QED  BY <2>3, <2>4, <2>5
<1>7. CASE BeginModule
  <2>. DEFINE t == LlvmType(ir[Len(ir)].type)
  <2>1. t \in LlvmTypes \cup {"void"}
    <3>1. ir # <<>>
      BY <1>1, <1>7 DEF BeginModule, In
    <3>2. ir[Len(ir)] \in SExprs
      BY <1>1, <3>1
    <3>. QED  BY <3>2 DEF Contract
  <2>2. CASE t = "void"
    BY <1>4, <1>7, <2>2 DEF BeginModule
  <2>3. CASE t # "void"
    <3>1. /\ header' = Append(LastDeleted, ReplLast)
          /\ global_type' = [global_type EXCEPT ![ReplLast] = t]
          /\ phase' = "build" /\ UNCHANGED <<scopes, ir>>
      BY <1>7, <2>3 DEF BeginModule, LastTyped, GoTo
    <3>. HIDE DEF t
    <3>2. Renews
      BY <2>1, <2>3, <3>1 DEF Renews
    <3>. QED  BY <1>1, <3>1, <3>2
  <2>. QED  BY <2>2, <2>3
<1>8. ASSUME NEW n \in Names, NEW v, v.type \in LlvmTypes, SaveValue(n, v)
      PROVE  (Keeps \/ Creates) /\ Rest
  <2>1. CASE global_type[n] \notin {Absent, v.type}
    BY <1>4, <1>8, <2>1 DEF SaveValue
  <2>2. CASE global_type[n] \in {Absent, v.type}
    <3>1. UNCHANGED <<scopes, ir>> /\ phase' = "build"
      BY <1>8, <2>2 DEF SaveValue, GoTo
    <3>2. Keeps \/ Creates
      BY <1>8, <2>2 DEF SaveValue, Keeps, Creates
    <3>. QED  BY <1>1, <3>1, <3>2
  <2>. QED  BY <2>1, <2>2
<1>9. CASE BuildNext
  <2>. DEFINE e == ir[pos]
              v == Built(e, global_type)
  <2>1. e \in SExprs
    BY <1>2, <1>9 DEF BuildNext
  <2>2. CASE e.tag = "assign" /\ v # Bad
    <3>1. e.name \in Names /\ v.type \in LlvmTypes
      BY <1>1, <2>1, <2>2 DEF Contract
    <3>2. SaveValue(e.name, v)
      BY <1>9, <2>2 DEF BuildNext
    <3>. HIDE DEF e, v
    <3>. QED  BY <1>8, <3>1, <3>2
  <2>3. CASE e.tag # "declare" /\ v = Bad
    <3>1. Ends("undefined")
      BY <1>9, <2>3 DEF BuildNext
    <3>. QED  BY <1>4, <3>1
  <2>4. CASE e.tag = "declare" \/ (e.tag # "assign" /\ v # Bad)
    <3>1. UNCHANGED <<scopes, header, global_type, ir>> /\ phase' = "build"
      BY <1>9, <2>4 DEF BuildNext, GoTo
    <3>. QED  BY <1>3, <3>1
  <2>. QED  BY <2>2, <2>3, <2>4
<1>10. CASE FinishModule
  BY <1>3, <1>4, <1>10 DEF FinishModule, GoTo
<1>11. CASE MapGlobals
  BY <1>3, <1>11 DEF MapGlobals, GoTo
<1>12. CASE RunMain
  <2>1. CASE \E n \in Touched : mapped[n] >= globals_count /\ Ends("corrupt")
    BY <1>4, <2>1
  <2>2. CASE ir' = <<>> /\ phase' = "read" /\ UNCHANGED <<scopes, header, global_type>>
    BY <1>1, <2>2 DEF Keeps
  <2>. QED  BY <1>4, <1>12, <2>2 DEF RunMain, GoTo
<1>13. CASE Quit
  BY <1>4, <1>13 DEF Quit
<1>. QED  BY <1>5, <1>6, <1>7, <1>9, <1>10, <1>11, <1>12, <1>13 DEF Next

LEMMA InvStep ==
  ASSUME NEW SExprs, Contract(SExprs), SessionInv(SExprs), [Next]_vars
  PROVE  SessionInv(SExprs)' /\ SlotsKept
<1>1. CASE Next
  BY <1>1, StepIsEdit, EditsKeep DEF SessionInv
<1>2. CASE UNCHANGED vars
  BY <1>2 DEF vars, SessionInv, GlobalsOK, HeaderSound, SlotsKept, Slot, Place, IsNamed, Named
<1>. QED  BY <1>1, <1>2

LEMMA InitInv ==
  ASSUME NEW SExprs, Init
  PROVE  SessionInv(SExprs)
BY DEF Init, SessionInv, GlobalsOK, HeaderSound, RootScopes

\* Whatever chunks are read, checked, built and run, the list of globals that the
\* mapping loop of main.c walks holds the globals of the symbol table, once each.
THEOREM GlobalsListedOnce ==
  ASSUME NEW SExprs, Contract(SExprs)
  PROVE  Spec => []HeaderSound
<1>1. Init => SessionInv(SExprs)
  BY InitInv
<1>2. SessionInv(SExprs) /\ [Next]_vars => SessionInv(SExprs)'
  BY InvStep
<1>3. SessionInv(SExprs) => HeaderSound
  BY DEF SessionInv, GlobalsOK
<1>. QED  BY <1>1, <1>2, <1>3, PTL DEF Spec

\* And no variable ever moves to another slot of global_vals, although the slots
\* are counted anew, in another list, for every chunk.
THEOREM SlotsNeverMove ==
  ASSUME NEW SExprs, Contract(SExprs)
  PROVE  Spec => SlotsStable
<1>1. Init => SessionInv(SExprs)
  BY InitInv
<1>2. SessionInv(SExprs) /\ [Next]_vars => SessionInv(SExprs)' /\ [SlotsKept]_vars
  BY InvStep
<1>. QED  BY <1>1, <1>2, PTL DEF Spec, SlotsStable, SlotsKept
-----------------------------------------------------------------------------
(* What the engine executes: a recursive function over the instructions.    *)

\* What holds of 0 and of the next of each holds of every number.
LEMMA InductiveSet ==
  ASSUME NEW M \in SUBSET Nat, 0 \in M, \A k \in M : k + 1 \in M
  PROVE  M = Nat
<1> DEFINE G == Nat \ M
           Less == {p \in Nat \X Nat : p[1] < p[2]}
<1>1. IsWellFoundedOn(Less, Nat)
  BY NatLessThanWellFounded DEF OpToRel
<1>2. ASSUME G # {} PROVE FALSE
  <2>1. G \subseteq Nat
    OBVIOUS
  <2>2. PICK x \in G : \A y \in G : ~(<<y, x>> \in Less)
    <3> HIDE DEF G, Less
    <3> QED  BY <1>1, <1>2, <2>1, WFMin
  <2>3. x \in Nat \ {0} /\ x - 1 \in Nat /\ (x - 1) + 1 = x /\ x - 1 < x
    OBVIOUS
  <2>4. x - 1 \notin M
    BY <2>3
  <2>5. <<x - 1, x>> \in Less
    BY <2>3
  <2> QED  BY <2>2, <2>3, <2>4, <2>5
<1> QED  BY <1>2

Instructed(k, f) == IF k = 0 THEN [vals |-> global_vals, last |-> NoValue] ELSE Execute(f[k - 1], body[k])
IsExecuted(f, n) == f = [k \in 0 .. n |-> Instructed(k, f)]

\* There is such a function, for a main of any length.
LEMMA ExecutedExists ==
  ASSUME NEW n \in Nat
  PROVE  \E f : IsExecuted(f, n)
<1> DEFINE M == {k \in Nat : \E f : IsExecuted(f, k)}
<1>1. 0 \in M
  <2> DEFINE f == [k \in 0 .. 0 |-> [vals |-> global_vals, last |-> NoValue]]
  <2>1. \A k \in 0 .. 0 : k = 0
    OBVIOUS
  <2>2. IsExecuted(f, 0)
    BY <2>1 DEF IsExecuted, Instructed
  <2> QED  BY <2>2
<1>2. ASSUME NEW k \in M PROVE k + 1 \in M
  <2>1. PICK f : IsExecuted(f, k)
    OBVIOUS
  <2>2. f = [j \in 0 .. k |-> Instructed(j, f)]
    BY <2>1 DEF IsExecuted
  <2> DEFINE g == [j \in 0 .. k + 1 |-> IF j = k + 1 THEN Execute(f[k], body[k + 1]) ELSE f[j]]
  <2>3. /\ k \in Nat /\ k + 1 \in Nat /\ k + 1 # 0 /\ (k + 1) - 1 = k /\ k \in 0 .. k + 1 /\ k # k + 1
        /\ \A j \in 0 .. k + 1 : j = k + 1 \/ (j \in 0 .. k /\ j # k + 1)
        /\ \A j \in 0 .. k : j # 0 => j - 1 \in 0 .. k + 1 /\ j - 1 # k + 1
    OBVIOUS
  <2>4. ASSUME NEW j \in 0 .. k + 1 PROVE g[j] = Instructed(j, g)
    <3>1. CASE j = k + 1
      <4>1. g[j] = Execute(f[k], body[k + 1]) /\ g[k] = f[k]
        BY <3>1, <2>3
      <4> HIDE DEF g
      <4> QED  BY <3>1, <4>1, <2>3 DEF Instructed
    <3>2. CASE j # k + 1
      <4>1. j \in 0 .. k /\ g[j] = f[j] /\ (j # 0 => g[j - 1] = f[j - 1])
        BY <3>2, <2>3
      <4>2. f[j] = Instructed(j, f)
        BY <2>2, <4>1
      <4> HIDE DEF g
      <4> QED  BY <4>1, <4>2 DEF Instructed
    <3> QED  BY <3>1, <3>2
  <2>5. g = [j \in 0 .. k + 1 |-> g[j]]
    OBVIOUS
  <2> HIDE DEF g
  <2>6. IsExecuted(g, k + 1)
    BY <2>4, <2>5 DEF IsExecuted
  <2> QED  BY <2>3, <2>6
<1>3. M = Nat
  <2>1. M \subseteq Nat
    OBVIOUS
  <2> HIDE DEF M
  <2> QED  BY <1>1, <1>2, <2>1, InductiveSet
<1> QED  BY <1>3

\* The k-th instruction is executed on what the ones before it have left.
LEMMA ExecutedIs ==
  ASSUME Len(body) \in Nat
  PROVE  /\ Executed[0] = [vals |-> global_vals, last |-> NoValue]
         /\ \A k \in 1 .. Len(body) : Executed[k] = Execute(Executed[k - 1], body[k])
<1>1. PICK f : IsExecuted(f, Len(body))
  BY ExecutedExists
<1>2. Executed = CHOOSE g : IsExecuted(g, Len(body))
  BY DEF Executed, IsExecuted, Instructed
<1>3. IsExecuted(Executed, Len(body))
  BY <1>1, <1>2
<1>4. \A k \in 0 .. Len(body) : Executed[k] = Instructed(k, Executed)
  BY <1>3 DEF IsExecuted
<1>5. 0 \in 0 .. Len(body) /\ \A k \in 1 .. Len(body) : k \in 0 .. Len(body) /\ k # 0
  OBVIOUS
<1> QED  BY <1>4, <1>5 DEF Instructed

\* It stores to slots there are, or none.
LEMMA ExecutedDomain ==
  ASSUME Len(body) \in Nat
  PROVE  \A k \in 0 .. Len(body) : DOMAIN Executed[k].vals = DOMAIN global_vals
<1> DEFINE M == {k \in Nat : k <= Len(body) => DOMAIN Executed[k].vals = DOMAIN global_vals}
<1>1. 0 \in M
  BY ExecutedIs
<1>2. ASSUME NEW k \in M PROVE k + 1 \in M
  <2>1. k + 1 \in Nat /\ (k + 1) - 1 = k /\ (k + 1 <= Len(body) => k <= Len(body) /\ k + 1 \in 1 .. Len(body))
    OBVIOUS
  <2>2. ASSUME k + 1 <= Len(body) PROVE DOMAIN Executed[k + 1].vals = DOMAIN global_vals
    <3>1. DOMAIN Executed[k].vals = DOMAIN global_vals
      BY <2>1, <2>2
    <3>2. Executed[k + 1] = Execute(Executed[k], body[k + 1])
      BY <2>1, <2>2, ExecutedIs
    <3>3. \A r, instr : DOMAIN Execute(r, instr).vals = DOMAIN r.vals
      BY DEF Execute
    <3> QED  BY <3>1, <3>2, <3>3
  <2> QED  BY <2>1, <2>2
<1>3. M = Nat
  <2>1. M \subseteq Nat
    OBVIOUS
  <2> HIDE DEF M
  <2> QED  BY <1>1, <1>2, <2>1, InductiveSet
<1> QED  BY <1>3
-----------------------------------------------------------------------------
(* Types.                                                                  *)

\* What is being built is a sequence.
BodyOK == \E S : body \in Seq(S)

\* An instruction is put behind the others.
LEMMA BodyAppended ==
  ASSUME BodyOK, NEW x, body' = Append(body, x)
  PROVE  BodyOK'
<1>1. PICK S : body \in Seq(S)
  BY DEF BodyOK
<1>2. body \in Seq(S \cup {x})
  BY <1>1
<1>3. Append(body, x) \in Seq(S \cup {x})
  BY <1>2, AppendProperties
<1> QED  BY <1>3 DEF BodyOK

\* The state of a session besides the list of globals, step by step.
Places == /\ leaked \in Nat /\ globals_count \in Nat
          /\ phase \in {"read", "check", "build", "map", "run"} /\ pos \in 0 .. Len(ir) + 1
          /\ DOMAIN mapped \subseteq Names
          /\ DOMAIN global_vals = 0 .. SlotBound
          /\ status \in {"running", "exited", "undefined", "corrupt"}

LEMMA NamedInNames ==
  ASSUME header \in Seq(Globals)
  PROVE  Named \subseteq Names /\ Cardinality(Named) \in Nat
<1>1. Named \subseteq Names
  BY ElementOfSeq DEF Named, IsNamed, Globals
<1>2. IsFiniteSet(Named)
  BY <1>1, NamesAssumption, FS_Subset
<1> QED  BY <1>1, <1>2, FS_CardinalityType

LEMMA PlacesStep ==
  ASSUME NEW SExprs, Contract(SExprs), SessionInv(SExprs), Places, BodyOK, Next
  PROVE  Places' /\ BodyOK'
<1>1. /\ scopes = <<scopes[1]>> /\ scopes[1] \in RootScopes
      /\ ir \in Seq(SExprs) /\ Len(ir) \in Nat /\ header \in Seq(Globals)
  BY LenProperties DEF SessionInv, GlobalsOK
<1>2. ASSUME NEW s \in {"exited", "undefined", "corrupt"}, Ends(s) PROVE Places' /\ BodyOK'
  <2>1. /\ UNCHANGED <<leaked, globals_count, phase, pos, ir, mapped, global_vals, body>>
        /\ status' = s
    BY <1>2 DEF Ends, process, memory
  <2> QED  BY <2>1 DEF Places, BodyOK
<1>3. ASSUME NEW chunk \in Chunks, ReadChunk(chunk) PROVE Places' /\ BodyOK'
  <2>1. CASE \E i \in DOMAIN chunk : chunk[i].tag = "unsupported"
    BY <1>2, <1>3, <2>1 DEF ReadChunk
  <2>2. CASE ~ \E i \in DOMAIN chunk : chunk[i].tag = "unsupported"
    <3>1. chunk \in Seq(SExprs)
      BY <1>3, <2>2 DEF Contract
    <3>2. /\ ir' = chunk /\ phase' = "check" /\ pos' = 1
          /\ UNCHANGED <<leaked, globals_count, mapped, global_vals, status, body>>
      BY <1>3, <2>2 DEF ReadChunk, GoTo, memory
    <3>3. 1 \in 0 .. Len(chunk) + 1
      BY <3>1, LenProperties
    <3> QED  BY <3>2, <3>3 DEF Places, BodyOK
  <2> QED  BY <2>1, <2>2
<1>4. CASE CheckNext
  <2> DEFINE r == Checked(ir[pos], scopes)
  <2>1. r.scopes \in Seq(RootScopes) \ {<<>>}
    <3>1. ir[pos] \in SExprs
      BY <1>1, <1>4 DEF CheckNext
    <3>2. r = Checked(ir[pos], <<scopes[1]>>)
      BY <1>1
    <3> QED  BY <1>1, <3>1, <3>2 DEF Contract
  <2>2. pos \in 1 .. Len(ir)
    BY <1>1, <1>4 DEF CheckNext
  <2>3. CASE r.undefined
    BY <1>2, <1>4, <2>3 DEF CheckNext
  <2>4. CASE ~r.undefined /\ r.ok
    <3>1. /\ ir' = [ir EXCEPT ![pos] = r.sexpr] /\ phase' = "check" /\ pos' = pos + 1
          /\ UNCHANGED <<leaked, globals_count, mapped, global_vals, status, body>>
      BY <1>4, <2>4 DEF CheckNext, RootOf, GoTo, memory
    <3> HIDE DEF r
    <3>2. Len(ir') = Len(ir)
      BY <1>1, <3>1
    <3>3. pos + 1 \in 0 .. Len(ir) + 1
      BY <1>1, <2>2
    <3> QED  BY <3>1, <3>2, <3>3 DEF Places, BodyOK
  <2>5. CASE ~r.undefined /\ ~r.ok
    <3>1. /\ leaked' = leaked + Len(r.scopes) - 1
          /\ ir' = <<>> /\ phase' = "read" /\ pos' = 0
          /\ UNCHANGED <<globals_count, mapped, global_vals, status, body>>
      BY <1>4, <2>5 DEF CheckNext, RootOf, GoTo, memory
    <3>2. Len(r.scopes) \in Nat \ {0}
      BY <2>1, LenProperties, EmptySeq
    <3> HIDE DEF r
    <3>3. leaked' \in Nat
      BY <3>1, <3>2 DEF Places
    <3>4. 0 \in 0 .. Len(ir') + 1
      BY <3>1
    <3> QED  BY <3>1, <3>3, <3>4 DEF Places, BodyOK
  <2> QED  BY <2>3, <2>4, <2>5
<1>5. CASE BeginModule
  <2>1. CASE LlvmType(ir[Len(ir)].type) = "void"
    BY <1>2, <1>5, <2>1 DEF BeginModule
  <2>2. CASE LlvmType(ir[Len(ir)].type) # "void"
    <3>1. /\ body' = <<>> /\ phase' = "build" /\ pos' = 1
          /\ UNCHANGED <<ir, leaked, globals_count, mapped, global_vals, status>>
      BY <1>5, <2>2 DEF BeginModule, LastTyped, GoTo, memory
    <3>2. BodyOK' /\ 1 \in 0 .. Len(ir) + 1
      BY <1>1, <3>1 DEF BodyOK
    <3> QED  BY <3>1, <3>2 DEF Places
  <2> QED  BY <2>1, <2>2
<1>6. ASSUME pos \in DOMAIN ir, phase' = "build", pos' = pos + 1,
             UNCHANGED <<ir, leaked, globals_count, mapped, global_vals, status>>
      PROVE  Places'
  <2>1. pos + 1 \in 0 .. Len(ir) + 1
    BY <1>1, <1>6
  <2> QED  BY <1>6, <2>1 DEF Places
<1>7. ASSUME NEW n, NEW v, pos \in DOMAIN ir, SaveValue(n, v) PROVE Places' /\ BodyOK'
  <2>1. CASE global_type[n] \notin {Absent, v.type}
    BY <1>2, <1>7, <2>1 DEF SaveValue
  <2>2. CASE ~(global_type[n] \notin {Absent, v.type})
    BY <1>6, <1>7, <2>2, BodyAppended DEF SaveValue, GoTo, memory
  <2> QED  BY <2>1, <2>2
<1>8. CASE BuildNext
  <2> DEFINE e == ir[pos]
             v == Built(e, global_type)
  <2>1. pos \in DOMAIN ir
    BY <1>8 DEF BuildNext
  <2>2. CASE e.tag = "declare"
    BY <1>6, <1>8, <2>1, <2>2 DEF BuildNext, GoTo, memory, BodyOK
  <2>3. CASE e.tag # "declare" /\ v = Bad
    BY <1>2, <1>8, <2>3 DEF BuildNext
  <2>4. CASE e.tag = "assign" /\ v # Bad
    BY <1>7, <1>8, <2>1, <2>4 DEF BuildNext
  <2>5. CASE e.tag # "declare" /\ e.tag # "assign" /\ v # Bad
    <3>1. /\ body' = Append(body, Instr(ReplLast, v)) /\ phase' = "build" /\ pos' = pos + 1
          /\ UNCHANGED <<ir, leaked, globals_count, mapped, global_vals, status>>
      BY <1>8, <2>5 DEF BuildNext, GoTo, memory
    <3> QED  BY <1>6, <2>1, <3>1, BodyAppended
  <2> QED  BY <2>2, <2>3, <2>4, <2>5
<1>9. ASSUME phase' \in {"read", "map", "run"}, pos' = 0, ir' = ir \/ ir' = <<>>
      PROVE  phase' \in {"read", "check", "build", "map", "run"} /\ pos' \in 0 .. Len(ir') + 1
  BY <1>1, <1>9
<1>10. CASE FinishModule
  <2>1. CASE /\ phase' = "map" /\ pos' = 0
             /\ UNCHANGED <<ir, leaked, globals_count, mapped, global_vals, status, body>>
    BY <1>9, <2>1 DEF Places, BodyOK
  <2> QED  BY <1>2, <1>10, <2>1 DEF FinishModule, GoTo, memory
<1>11. CASE MapGlobals
  <2>1. /\ mapped' = [n \in Named |-> Slot(n)] /\ phase' = "run" /\ pos' = 0
        /\ globals_count' = IF globals_count = 0 THEN 0 ELSE globals_count + Cardinality(Named)
        /\ UNCHANGED <<ir, leaked, global_vals, status, body>>
    BY <1>11 DEF MapGlobals, GoTo
  <2>2. DOMAIN mapped' \subseteq Names /\ globals_count' \in Nat
    BY <1>1, <2>1, NamedInNames DEF Places
  <2> QED  BY <1>9, <2>1, <2>2 DEF Places, BodyOK
<1>12. CASE RunMain
  <2>1. CASE /\ global_vals' = Executed[Len(body)].vals
             /\ phase' = "read" /\ pos' = 0 /\ ir' = <<>> /\ body' = <<>> /\ mapped' = NoMapping
             /\ UNCHANGED <<leaked, status, globals_count>>
    <3>1. Len(body) \in Nat
      BY LenProperties DEF BodyOK
    <3>2. DOMAIN global_vals' = DOMAIN global_vals
      BY <2>1, <3>1, ExecutedDomain
    <3>3. DOMAIN mapped' \subseteq Names /\ BodyOK'
      BY <2>1 DEF NoMapping, BodyOK
    <3> QED  BY <1>9, <2>1, <3>2, <3>3 DEF Places, SlotBound
  <2> QED  BY <1>2, <1>12, <2>1 DEF RunMain, GoTo
<1>13. CASE Quit
  BY <1>2, <1>13 DEF Quit
<1> QED  BY <1>3, <1>4, <1>5, <1>8, <1>10, <1>11, <1>12, <1>13 DEF Next

LEMMA InitTyped ==
  ASSUME NEW SExprs, Init
  PROVE  SessionInv(SExprs) /\ Places /\ BodyOK
<1>1. SessionInv(SExprs)
  BY InitInv
<1>2. /\ ir = <<>> /\ body = <<>> /\ pos = 0 /\ leaked = 0 /\ globals_count = 0
      /\ phase = "read" /\ status = "running" /\ mapped = NoMapping
      /\ DOMAIN global_vals = 0 .. SlotBound
  BY DEF Init
<1>3. Places /\ BodyOK
  BY <1>2 DEF Places, BodyOK, NoMapping
<1> QED  BY <1>1, <1>3

LEMMA TypedStep ==
  ASSUME NEW SExprs, Contract(SExprs), SessionInv(SExprs), Places, BodyOK, [Next]_vars
  PROVE  (SessionInv(SExprs) /\ Places /\ BodyOK)'
<1>1. SessionInv(SExprs)'
  BY InvStep
<1>2. CASE Next
  BY <1>1, <1>2, PlacesStep
<1>3. CASE UNCHANGED vars
  BY <1>1, <1>3 DEF vars, process, memory, Places, BodyOK
<1> QED  BY <1>2, <1>3

\* For any chunks, and any checker and code generator that keep the Contract, the
\* variables of a session have their types; main stores to slots there are.
THEOREM SessionTyped ==
  ASSUME NEW SExprs, Contract(SExprs)
  PROVE  Spec => []TypeOK
<1> DEFINE J == SessionInv(SExprs) /\ Places /\ BodyOK
<1>1. Init => J
  BY InitTyped
<1>2. J /\ [Next]_vars => J'
  BY TypedStep
<1>3. J => TypeOK
  <2> SUFFICES ASSUME J PROVE TypeOK
    OBVIOUS
  <2>1. scopes = <<scopes[1]>> /\ scopes[1] \in RootScopes /\ GlobalsOK
    BY DEF SessionInv
  <2>2. scopes # <<>> /\ \A i \in DOMAIN scopes : scopes[i] \in RootScopes
    <3>1. \A x : <<x>> # <<>> /\ DOMAIN <<x>> = {1}
      OBVIOUS
    <3> QED  BY <2>1, <3>1
  <2> QED  BY <2>1, <2>2 DEF TypeOK, Places, GlobalsOK
<1> QED  BY <1>1, <1>2, <1>3, PTL DEF Spec
-----------------------------------------------------------------------------
(* Sessions of single statements that a sound compiler is given.           *)

\* A statement has passed, and its code is not built yet.
HasPassed(Roots) == \E root \in Roots : /\ Agree(root, global_type) /\ SoundIn(ir[1], root)
                                     /\ scopes[1] = Assigned(ir[1], root)

\* Checker and code generator agree on the variables but between the check of a
\* statement and the end of its code, where the former is one assignment ahead.
SoundInv(Roots) ==
    /\ scopes[1] \in Roots /\ status # "undefined"
    /\ phase \in {"check", "build"} => Len(ir) = 1
    /\ phase \in {"read", "map", "run"} => Agree(scopes[1], global_type)
    /\ phase = "check" => \/ pos = 1 /\ ir \in Chunks /\ Agree(scopes[1], global_type)
                          \/ pos = 2 /\ HasPassed(Roots)
    /\ phase = "build" => \/ /\ pos = 1 /\ HasPassed(Roots) /\ body = <<>>
                             /\ global_type[ReplLast] = LlvmType(ir[1].type)
                          \/ /\ pos = 2 /\ Agree(scopes[1], global_type) /\ body # <<>>
                             /\ body[Len(body)].value.type = global_type[ReplLast]

\* Nothing is put behind others but is the last.
LEMMA LastAppended ==
  ASSUME BodyOK, NEW x
  PROVE  Append(body, x) # <<>> /\ Append(body, x)[Len(Append(body, x))] = x
<1>1. PICK S : body \in Seq(S)
  BY DEF BodyOK
<1>2. body \in Seq(S \cup {x})
  BY <1>1
<1>3. Len(body) \in Nat /\ Len(Append(body, x)) = Len(body) + 1 /\ Append(body, x)[Len(body) + 1] = x
  BY <1>2, AppendProperties, LenProperties
<1> QED  BY <1>3, EmptySeq

\* The check of a statement.
LEMMA SoundCheck ==
  ASSUME NEW SExprs, NEW Roots, Contract(SExprs), SoundContract(Roots), SessionInv(SExprs),
         SoundInv(Roots), CheckNext
  PROVE  SoundInv(Roots)'
<1> DEFINE r == Checked(ir[1], <<scopes[1]>>)
<1>1. /\ phase = "check" /\ status = "running" /\ pos \in DOMAIN ir /\ Len(ir) = 1
      /\ ir \in Seq(SExprs) /\ scopes = <<scopes[1]>> /\ scopes[1] \in Roots
      /\ scopes[1] \in [Names -> Types \cup {NoType}]
  BY DEF CheckNext, In, SoundInv, SessionInv, RootScopes
<1>2. pos = 1 /\ ir \in Chunks /\ Agree(scopes[1], global_type) /\ ir[1] \in SExprs
  <2>1. DOMAIN ir = {1}
    BY <1>1
  <2>2. pos = 1
    BY <1>1, <2>1
  <2>3. ir[1] \in SExprs
    <3>1. ir \in Seq(SExprs) /\ 1 \in 1 .. Len(ir)
      BY <1>1
    <3> QED  BY <3>1, ElementOfSeq
  <2>4. phase = "check"
    BY <1>1
  <2>5. (pos = 1 /\ ir \in Chunks /\ Agree(scopes[1], global_type)) \/ (pos = 2 /\ HasPassed(Roots))
    BY <2>4 DEF SoundInv
  <2> QED  BY <2>2, <2>3, <2>5
<1>3. /\ ~r.undefined /\ r.scopes[1] \in Roots
      /\ ~r.ok => r.scopes[1] = scopes[1]
      /\ r.ok => r.scopes[1] = Assigned(r.sexpr, scopes[1]) /\ SoundIn(r.sexpr, scopes[1])
  BY <1>1, <1>2 DEF SoundContract
<1>4. r = Checked(ir[pos], scopes)
  BY <1>1, <1>2
<1>5. CASE r.ok
  <2>1. /\ scopes' = r.scopes /\ ir' = [ir EXCEPT ![1] = r.sexpr] /\ phase' = "check" /\ pos' = 2
        /\ UNCHANGED <<header, global_type, body, status>>
    BY <1>2, <1>3, <1>4, <1>5 DEF CheckNext, RootOf, GoTo
  <2>2. r.sexpr \in SExprs
    BY <1>1, <1>2, <1>5 DEF Contract, SessionInv
  <2> HIDE DEF r
  <2>3. Len(ir') = 1 /\ ir'[1] = r.sexpr
    BY <1>1, <2>1
  <2>4. HasPassed(Roots)'
    BY <1>1, <1>2, <1>3, <1>5, <2>1, <2>3 DEF HasPassed, Agree, SoundIn, Assigned, Built
  <2> QED  BY <1>1, <1>3, <2>1, <2>3, <2>4 DEF SoundInv
<1>6. CASE ~r.ok
  <2>1. /\ scopes' = <<r.scopes[1]>> /\ phase' = "read"
        /\ UNCHANGED <<header, global_type, body, status>>
    BY <1>2, <1>3, <1>4, <1>6 DEF CheckNext, RootOf, GoTo
  <2>2. scopes'[1] = scopes[1]
    BY <1>3, <1>6, <2>1
  <2> QED  BY <1>1, <1>2, <2>1, <2>2 DEF SoundInv, Agree
<1> QED  BY <1>5, <1>6

\* The code of a statement that has passed can be built, and its globals are those of
\* the scope again.
LEMMA SoundBuild ==
  ASSUME NEW SExprs, NEW Roots, Contract(SExprs), SoundContract(Roots), SessionInv(SExprs),
         BodyOK, SoundInv(Roots), BuildNext
  PROVE  SoundInv(Roots)'
<1> DEFINE e == ir[1]
           v == Built(e, global_type)
<1>1. /\ phase = "build" /\ status = "running" /\ pos \in DOMAIN ir /\ Len(ir) = 1
      /\ ir \in Seq(SExprs) /\ scopes[1] \in Roots
      /\ scopes[1] \in RootScopes
      /\ global_type \in [Globals -> LlvmTypes \cup {Absent}]
  BY DEF BuildNext, In, SoundInv, SessionInv, GlobalsOK
<1>2. pos = 1 /\ e \in SExprs
  <2>1. DOMAIN ir = {1}
    BY <1>1
  <2> QED  BY <1>1, <2>1
<1>3. HasPassed(Roots) /\ global_type[ReplLast] = LlvmType(e.type)
  <2>1. (pos = 1 /\ HasPassed(Roots) /\ global_type[ReplLast] = LlvmType(e.type)) \/ pos = 2
    BY <1>1 DEF SoundInv
  <2> QED  BY <1>2, <2>1
<1>4. PICK root \in Roots : /\ Agree(root, global_type) /\ SoundIn(e, root)
                            /\ scopes[1] = Assigned(e, root)
  BY <1>3 DEF HasPassed
<1>5. /\ v # Bad /\ v.type = LlvmType(e.type) /\ e.tag # "declare" /\ e.type # NoType
      /\ LlvmType(e.type) \in LlvmTypes
      /\ e.tag = "assign" => e.name \in Names /\ root[e.name] \in {NoType, e.type}
  BY <1>1, <1>2, <1>4 DEF SoundIn, Contract
<1>6. UNCHANGED <<scopes, ir>>
  BY <1>2, <1>5 DEF BuildNext, SaveValue, Ends, process
<1>7. ASSUME NEW n, body' = Append(body, Instr(n, v)), phase' = "build", pos' = 2, UNCHANGED status,
             Agree(scopes'[1], global_type'), global_type'[ReplLast] = LlvmType(e.type)
      PROVE  SoundInv(Roots)'
  <2>1. Instr(n, v).value = v
    BY DEF Instr
  <2>2. body' # <<>> /\ body'[Len(body')].value = v
    BY <1>7, <2>1, LastAppended
  <2> HIDE DEF e, v
  <2> QED  BY <1>1, <1>5, <1>6, <1>7, <2>2 DEF SoundInv
<1>8. CASE e.tag = "assign"
  <2>1. SaveValue(e.name, v)
    BY <1>2, <1>5, <1>8 DEF BuildNext
  <2>2. global_type[e.name] = IF root[e.name] = NoType THEN Absent ELSE v.type
    BY <1>4, <1>5, <1>8 DEF Agree
  <2>3. /\ global_type' = IF global_type[e.name] = Absent
                          THEN [global_type EXCEPT ![e.name] = v.type] ELSE global_type
        /\ body' = Append(body, Instr(e.name, v)) /\ phase' = "build" /\ pos' = 2 /\ UNCHANGED status
    <3> HIDE DEF e, v
    <3> QED  BY <1>2, <2>1, <2>2 DEF SaveValue, GoTo
  <2>4. /\ root \in [Names -> Types \cup {NoType}]
        /\ scopes'[1] = [root EXCEPT ![e.name] = e.type]
        /\ e.name \in Names /\ e.name \in Globals /\ ReplLast \in Globals /\ e.name # ReplLast
    BY <1>4, <1>5, <1>6, <1>8, NamesAssumption DEF Assigned, SoundContract, RootScopes, Globals
  <2> HIDE DEF e, v
  <2>5. ASSUME NEW m \in Names
        PROVE  global_type'[m] = IF scopes'[1][m] = NoType THEN Absent ELSE LlvmType(scopes'[1][m])
    <3>1. m \in Globals /\ global_type[m] = IF root[m] = NoType THEN Absent ELSE LlvmType(root[m])
      BY <1>4 DEF Agree, Globals
    <3>2. CASE m = e.name
      <4>1. scopes'[1][m] = e.type
        BY <2>4, <3>2
      <4>2. global_type'[m] = v.type
        BY <1>1, <2>2, <2>3, <3>1, <3>2
      <4> QED  BY <1>5, <4>1, <4>2
    <3>3. CASE m # e.name
      <4>1. scopes'[1][m] = root[m] /\ global_type'[m] = global_type[m]
        BY <1>1, <2>3, <2>4, <3>3
      <4> QED  BY <3>1, <4>1
    <3> QED  BY <3>2, <3>3
  <2>6. Agree(scopes'[1], global_type')
    BY <2>5 DEF Agree
  <2>7. global_type'[ReplLast] = global_type[ReplLast]
    BY <1>1, <2>3, <2>4
  <2> QED  BY <1>3, <1>7, <2>3, <2>6, <2>7
<1>9. CASE e.tag # "assign"
  <2>1. /\ body' = Append(body, Instr(ReplLast, v)) /\ phase' = "build" /\ pos' = 2
        /\ UNCHANGED <<status, global_type>>
    BY <1>2, <1>5, <1>9 DEF BuildNext, GoTo
  <2>2. scopes'[1] = root
    BY <1>4, <1>6, <1>9 DEF Assigned
  <2>3. Agree(scopes'[1], global_type')
    BY <1>4, <2>1, <2>2
  <2> QED  BY <1>3, <1>7, <2>1, <2>3
<1> QED  BY <1>8, <1>9

\* The steps of a sound session.
LEMMA SoundStep ==
  ASSUME NEW SExprs, NEW Roots, Contract(SExprs), SoundContract(Roots), SessionInv(SExprs),
         BodyOK, SoundInv(Roots), Next
  PROVE  SoundInv(Roots)'
<1>1. /\ scopes = <<scopes[1]>> /\ scopes[1] \in Roots /\ status # "undefined"
      /\ global_type \in [Globals -> LlvmTypes \cup {Absent}]
  BY DEF SessionInv, SoundInv, GlobalsOK
<1>2. ASSUME NEW s \in {"exited", "corrupt"}, Ends(s) PROVE SoundInv(Roots)'
  <2>1. UNCHANGED <<scopes, phase, pos, ir, global_type, body>> /\ status' # "undefined"
    BY <1>2 DEF Ends, process
  <2> QED  BY <2>1 DEF SoundInv, HasPassed, Agree, SoundIn, Assigned, Built
<1>3. ASSUME NEW chunk \in Chunks, ReadChunk(chunk) PROVE SoundInv(Roots)'
  <2>1. chunk = <<chunk[1]>> /\ chunk[1].tag # "unsupported"
    BY DEF SoundContract
  <2>2. DOMAIN chunk = {1} /\ Len(chunk) = 1
    BY <2>1
  <2>3. /\ ir' = chunk /\ phase' = "check" /\ pos' = 1
        /\ UNCHANGED <<scopes, global_type, status>> /\ phase = "read"
    BY <1>3, <2>1, <2>2 DEF ReadChunk, GoTo, In
  <2>4. Agree(scopes[1], global_type)
    BY <2>3 DEF SoundInv
  <2> QED  BY <1>1, <2>2, <2>3, <2>4 DEF SoundInv, Agree
<1>4. CASE CheckNext
  BY <1>4, SoundCheck
<1>5. CASE BeginModule
  <2>1. /\ phase = "check" /\ status = "running" /\ pos = Len(ir) + 1 /\ Len(ir) = 1
        /\ pos = 1 \/ (pos = 2 /\ HasPassed(Roots))
    BY <1>5 DEF BeginModule, In, SoundInv
  <2>2. HasPassed(Roots)
    BY <2>1
  <2>3. PICK root \in Roots : /\ Agree(root, global_type) /\ SoundIn(ir[1], root)
                              /\ scopes[1] = Assigned(ir[1], root)
    BY <2>2 DEF HasPassed
  <2> DEFINE t == LlvmType(ir[1].type)
  <2>4. t # "void"
    BY <2>3 DEF SoundIn
  <2>5. /\ global_type' = [global_type EXCEPT ![ReplLast] = t] /\ body' = <<>>
        /\ phase' = "build" /\ pos' = 1 /\ UNCHANGED <<scopes, ir, status>>
    BY <1>5, <2>1, <2>4 DEF BeginModule, LastTyped, GoTo
  <2> HIDE DEF t
  <2>6. global_type'[ReplLast] = t /\ \A n \in Names : global_type'[n] = global_type[n]
    BY <1>1, <2>5, NamesAssumption DEF Globals
  <2>7. Agree(root, global_type')
    BY <2>3, <2>6 DEF Agree
  <2>8. SoundIn(ir'[1], root) /\ scopes'[1] = Assigned(ir'[1], root)
    BY <2>3, <2>5
  <2>9. HasPassed(Roots)'
    BY <2>7, <2>8 DEF HasPassed, Agree, SoundIn, Assigned, Built
  <2> QED  BY <1>1, <2>1, <2>5, <2>6, <2>9 DEF SoundInv, t
<1>6. CASE BuildNext
  BY <1>6, SoundBuild
<1>7. ASSUME UNCHANGED <<scopes, global_type, status>>, phase' \in {"read", "map", "run"},
             Agree(scopes[1], global_type)
      PROVE  SoundInv(Roots)'
  BY <1>1, <1>7 DEF SoundInv, Agree
<1>8. CASE FinishModule
  <2>1. /\ phase = "build" /\ pos = Len(ir) + 1 /\ Len(ir) = 1
        /\ \/ pos = 1
           \/ /\ pos = 2 /\ Agree(scopes[1], global_type) /\ body # <<>>
              /\ body[Len(body)].value.type = global_type[ReplLast]
    BY <1>8 DEF FinishModule, In, SoundInv
  <2>2. /\ Agree(scopes[1], global_type) /\ body # <<>>
        /\ body[Len(body)].value.type = global_type[ReplLast]
    BY <2>1
  <2>3. \/ UNCHANGED <<scopes, global_type, status>> /\ phase' = "map"
        \/ Ends("exited")
    BY <1>8, <2>2 DEF FinishModule, GoTo
  <2> QED  BY <1>2, <1>7, <2>2, <2>3
<1>9. CASE MapGlobals
  <2>1. UNCHANGED <<scopes, global_type, status>> /\ phase' = "run" /\ phase = "map"
    BY <1>9 DEF MapGlobals, GoTo, In
  <2>2. Agree(scopes[1], global_type)
    BY <2>1 DEF SoundInv
  <2> QED  BY <1>7, <2>1, <2>2
<1>10. CASE RunMain
  <2>1. Agree(scopes[1], global_type)
    BY <1>10 DEF RunMain, In, SoundInv
  <2>2. \/ UNCHANGED <<scopes, global_type, status>> /\ phase' = "read"
        \/ Ends("corrupt")
    BY <1>10 DEF RunMain, GoTo
  <2> QED  BY <1>2, <1>7, <2>1, <2>2
<1>11. CASE Quit
  BY <1>2, <1>11 DEF Quit
<1> QED  BY <1>3, <1>4, <1>5, <1>6, <1>8, <1>9, <1>10, <1>11 DEF Next

SoundlyTyped(SExprs, Roots) == SessionInv(SExprs) /\ Places /\ BodyOK /\ SoundInv(Roots)

LEMMA InitSound ==
  ASSUME NEW SExprs, NEW Roots, SoundContract(Roots), Init
  PROVE  SoundlyTyped(SExprs, Roots)
<1>1. SessionInv(SExprs) /\ Places /\ BodyOK
  BY InitTyped
<1>2. /\ phase = "read" /\ status = "running" /\ scopes[1] = [n \in Names |-> NoType]
      /\ global_type = [n \in Globals |-> Absent]
  BY DEF Init
<1>3. Agree(scopes[1], global_type)
  BY <1>2 DEF Agree, Globals
<1>4. SoundInv(Roots)
  BY <1>2, <1>3 DEF SoundInv, SoundContract
<1> QED  BY <1>1, <1>4 DEF SoundlyTyped

LEMMA SoundlyTypedStep ==
  ASSUME NEW SExprs, NEW Roots, Contract(SExprs), SoundContract(Roots),
         SoundlyTyped(SExprs, Roots), [Next]_vars
  PROVE  SoundlyTyped(SExprs, Roots)'
<1> USE DEF SoundlyTyped
<1>1. (SessionInv(SExprs) /\ Places /\ BodyOK)'
  BY TypedStep
<1>2. CASE Next
  BY <1>1, <1>2, SoundStep
<1>3. CASE UNCHANGED vars
  BY <1>1, <1>3 DEF vars, process, SoundInv, HasPassed, Agree, SoundIn, Assigned, Built
<1> QED  BY <1>2, <1>3

\* If the checker and the code generator are sound for each statement in the scopes that
\* come up, then in every session of single statements, however long, what passes the
\* check is built (main.c:158), and no instruction is ill-typed.
THEOREM CheckedCodeAlwaysBuilds ==
  ASSUME NEW SExprs, NEW Roots, Contract(SExprs), SoundContract(Roots)
  PROVE  Spec => []CheckedCodeBuilds
<1>1. Init => SoundlyTyped(SExprs, Roots)
  BY InitSound
<1>2. SoundlyTyped(SExprs, Roots) /\ [Next]_vars => SoundlyTyped(SExprs, Roots)'
  BY SoundlyTypedStep
<1>3. SoundlyTyped(SExprs, Roots) => CheckedCodeBuilds
  BY DEF SoundlyTyped, SoundInv, CheckedCodeBuilds
<1> QED  BY <1>1, <1>2, <1>3, PTL DEF Spec

\* And between chunks checker and code generator know the same variables, with the same
\* types, although one keeps them in a scope and the other in a module it makes anew.
THEOREM NamesAlwaysAgree ==
  ASSUME NEW SExprs, NEW Roots, Contract(SExprs), SoundContract(Roots)
  PROVE  Spec => []NamesAgree
<1>1. Init => SoundlyTyped(SExprs, Roots)
  BY InitSound
<1>2. SoundlyTyped(SExprs, Roots) /\ [Next]_vars => SoundlyTyped(SExprs, Roots)'
  BY SoundlyTypedStep
<1>3. SoundlyTyped(SExprs, Roots) => NamesAgree
  BY DEF SoundlyTyped, SoundInv, NamesAgree
<1> QED  BY <1>1, <1>2, <1>3, PTL DEF Spec
=============================================================================
