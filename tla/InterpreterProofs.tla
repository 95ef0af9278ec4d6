-------------------------- MODULE InterpreterProofs -------------------------
(***************************************************************************)
(* Proof that a session is an interpreter of the chunks it executes, for   *)
(* every checker and code generator that keep the contracts of Session.    *)
(***************************************************************************)
EXTENDS SessionProofs, CompilerProofs

-----------------------------------------------------------------------------
(* Slots.                                                                  *)

\* No two variables of a list have as many before them, and none has more before it
\* than there are names.
LEMMA BeforeDistinct ==
  ASSUME NEW h \in Seq(Globals), NoRepeats(h),
         NEW n \in Members(h) \ {ReplLast}
  PROVE  /\ Cardinality(Before(h, PlaceIn(h, n))) \in 0 .. SlotBound
         /\ \A m \in Members(h) \ {ReplLast} : m # n =>
              Cardinality(Before(h, PlaceIn(h, m))) # Cardinality(Before(h, PlaceIn(h, n)))
<1>1. Len(h) \in Nat /\ DOMAIN h = 1 .. Len(h) /\ \A j \in 1 .. Len(h) : h[j] \in Globals
  BY LenProperties, ElementOfSeq
<1>2. ASSUME NEW i \in 1 .. Len(h) PROVE IsFiniteSet(Before(h, i))
  <2>1. Before(h, i) \subseteq 1 .. Len(h)
    BY <1>1 DEF Before
  <2>2. IsFiniteSet(1 .. Len(h))
    BY <1>1, FS_Interval
  <2> QED  BY <2>1, <2>2, FS_Subset
<1>3. ASSUME NEW i \in 1 .. Len(h), NEW j \in 1 .. Len(h), i < j, h[i] # ReplLast
      PROVE  Cardinality(Before(h, i)) # Cardinality(Before(h, j))
  <2>1. Before(h, i) \subseteq Before(h, j) /\ i \in Before(h, j) /\ i \notin Before(h, i)
    BY <1>1, <1>3 DEF Before
  <2> QED  BY <1>2, <2>1, FS_Subset
<1>4. ASSUME NEW m \in Members(h) PROVE PlaceIn(h, m) \in 1 .. Len(h) /\ h[PlaceIn(h, m)] = m
  BY <1>1 DEF Members, PlaceIn
<1>5. ASSUME NEW m \in Members(h) \ {ReplLast}, m # n
      PROVE  Cardinality(Before(h, PlaceIn(h, m))) # Cardinality(Before(h, PlaceIn(h, n)))
  <2> DEFINE i == PlaceIn(h, m)
             j == PlaceIn(h, n)
  <2>1. i \in 1 .. Len(h) /\ j \in 1 .. Len(h) /\ h[i] = m /\ h[j] = n
    BY <1>4
  <2> HIDE DEF i, j
  <2>2. i < j \/ j < i
    BY <1>1, <1>5, <2>1
  <2> QED  BY <1>3, <1>5, <2>1, <2>2 DEF i, j
<1>6. Cardinality(Before(h, PlaceIn(h, n))) \in 0 .. SlotBound
  <2> DEFINE B == Before(h, PlaceIn(h, n))
             f == [j \in B |-> h[j]]
  <2>1. \A j \in B : j \in 1 .. Len(h) /\ h[j] \in Names
    BY <1>1 DEF Before, Globals
  <2>2. f \in Injection(B, Names)
    <3>1. f \in [B -> Names] /\ \A j, k \in B : f[j] = f[k] => j = k
      BY <1>1, <2>1 DEF NoRepeats
    <3> HIDE DEF f, B
    <3> QED  BY <3>1 DEF Injection, IsInjective
  <2> HIDE DEF f, B
  <2>3. IsFiniteSet(B) /\ Cardinality(B) <= Cardinality(Names)
    BY <2>2, NamesAssumption, FS_Injection
  <2>4. Cardinality(B) \in Nat /\ Cardinality(Names) \in Nat
    BY <2>3, NamesAssumption, FS_CardinalityType
  <2> QED  BY <2>3, <2>4 DEF SlotBound, B
<1> QED  BY <1>5, <1>6

\* Where no variable is, there is no value.
SlotsFresh == \A i \in 0 .. SlotBound : (\A n \in Named : Slot(n) # i) => global_vals[i] = NoValue

\* Every variable has a slot of its own.
LEMMA SlotsDistinct ==
  ASSUME GlobalsOK
  PROVE  /\ Named \subseteq Names
         /\ \A n \in Named : Slot(n) \in 0 .. SlotBound
         /\ \A n, m \in Named : n # m => Slot(n) # Slot(m)
<1>1. header \in Seq(Globals) /\ NoRepeats(header)
  BY HeaderSoundIs DEF GlobalsOK
<1> QED  BY <1>1, BeforeDistinct, NamedAre, NamedInNames, SlotIs

\* Likewise after a step.
LEMMA SlotsDistinctNext ==
  ASSUME GlobalsOK'
  PROVE  /\ (Named \subseteq Names)'
         /\ \A n \in Named' : Slot(n)' \in 0 .. SlotBound
         /\ \A n, m \in Named' : n # m => Slot(n)' # Slot(m)'
<1>1. header' \in Seq(Globals) /\ NoRepeats(header')
  BY HeaderSoundIs DEF GlobalsOK
<1>2. Members(header') \ {ReplLast} \subseteq Names
  BY <1>1, ElementOfSeq DEF Members, Globals
<1> QED  BY <1>1, <1>2, BeforeDistinct, NamedAre, SlotIs

\* An edit of the list of globals changes no variable's value: a new variable gets a
\* slot that nothing was stored in.
LEMMA HeldKept ==
  ASSUME GlobalsOK, SlotsFresh, Keeps \/ Renews \/ Creates, UNCHANGED global_vals
  PROVE  Held' = Held /\ SlotsFresh' /\ Named \subseteq Named'
<1>1. GlobalsOK' /\ SlotsKept
  BY EditsKeep
<1>2. /\ Named \subseteq Names /\ Named' \subseteq Names
      /\ \A n \in Named : Slot(n) \in 0 .. SlotBound
      /\ \A n \in Named' : Slot(n)' \in 0 .. SlotBound
      /\ \A n, m \in Named' : n # m => Slot(n)' # Slot(m)'
  BY <1>1, SlotsDistinct, SlotsDistinctNext
<1>3. \A n \in Named : n \in Named' /\ Slot(n)' = Slot(n)
  BY <1>1, <1>2 DEF SlotsKept
<1>4. SlotsFresh'
  BY <1>3 DEF SlotsFresh
<1>5. ASSUME NEW n \in Names
      PROVE  (IF n \in Named THEN global_vals[Slot(n)] ELSE NoValue)'
             = IF n \in Named THEN global_vals[Slot(n)] ELSE NoValue
  <2>1. CASE n \in Named
    BY <1>3, <2>1
  <2>2. CASE n \notin Named /\ n \notin Named'
    BY <2>2
  <2>3. CASE n \notin Named /\ n \in Named'
    <3>1. \A m \in Named : Slot(m) # Slot(n)'
      BY <1>2, <1>3, <2>3
    <3>2. global_vals[Slot(n)'] = NoValue
      BY <1>2, <2>3, <3>1 DEF SlotsFresh
    <3> QED  BY <2>3, <3>2
  <2> QED  BY <2>1, <2>2, <2>3
<1>6. Held' = Held
  BY <1>5 DEF Held
<1> QED  BY <1>3, <1>4, <1>6
-----------------------------------------------------------------------------
(* Values.                                                                 *)

TypesAre(m) == \A n \in Names : global_type[n] = TypesOf(m)[n]

\* Types of values; NoValue has none of the machine's.
LEMMA ValueFields ==
  /\ \A t, x : Value(t, x).type = t /\ Value(t, x).term = x
  /\ \A t, x : [Value(t, x) EXCEPT !.type = LanguageType(@)] = Value(LanguageType(t), x)
  /\ NoValue.type \notin MachineTypes /\ Absent \notin MachineTypes
  /\ MachineTypes \subseteq LlvmTypes
  /\ [NoValue EXCEPT !.type = LanguageType(@)] = NoValue
BY DEF Value, NoValue, MachineTypes, LlvmTypes, Absent, LanguageType

\* A variable has no global yet, or a value of the global's type.
LEMMA HeldIs ==
  ASSUME NEW SExprs, NEW Memories, ValueContract(SExprs, Memories), NEW m \in Memories
  PROVE  /\ m = [n \in Names |-> m[n]]
         /\ \A n \in Names : \/ m[n] = NoValue /\ TypesOf(m)[n] = Absent
                             \/ /\ m[n] # NoValue /\ m[n].type \in MachineTypes
                                /\ m[n] = Value(m[n].type, m[n].term) /\ TypesOf(m)[n] = m[n].type
<1>1. m = [n \in Names |-> m[n]]
  BY DEF ValueContract
<1>2. ASSUME NEW n \in Names
      PROVE  \/ m[n] = NoValue /\ TypesOf(m)[n] = Absent
             \/ /\ m[n] # NoValue /\ m[n].type \in MachineTypes
                /\ m[n] = Value(m[n].type, m[n].term) /\ TypesOf(m)[n] = m[n].type
  <2>1. TypesOf(m)[n] = IF m[n] # NoValue THEN m[n].type ELSE Absent
    BY DEF TypesOf, Globals
  <2>2. m[n] = NoValue \/ \E t \in MachineTypes : m[n] = Value(t, m[n].term)
    BY DEF ValueContract
  <2>3. CASE m[n] = NoValue
    BY <2>1, <2>3
  <2>4. CASE m[n] # NoValue
    <3>1. PICK t \in MachineTypes : m[n] = Value(t, m[n].term)
      BY <2>2, <2>4
    <3>2. m[n].type = t
      BY <3>1, ValueFields
    <3> QED  BY <2>1, <2>4, <3>1, <3>2
  <2> QED  BY <2>3, <2>4
<1> QED  BY <1>1, <1>2

\* What is built does not depend on the type of repl.last.
LEMMA BuiltForTypes ==
  ASSUME NEW SExprs, NEW Memories, ValueContract(SExprs, Memories), NEW m \in Memories,
         NEW e \in SExprs, e.tag # "declare",
         global_type \in [Globals -> LlvmTypes \cup {Absent}],
         global_type[ReplLast] \in LlvmTypes, TypesAre(m)
  PROVE  Built(e, global_type) = Built(e, TypesOf(m))
<1>1. global_type = [TypesOf(m) EXCEPT ![ReplLast] = global_type[ReplLast]]
  <2>1. TypesOf(m) = [n \in Globals |-> TypesOf(m)[n]]
    BY DEF TypesOf
  <2>2. \A n \in Globals : n \in Names \/ n = ReplLast
    BY DEF Globals
  <2> QED  BY <2>1, <2>2 DEF TypesAre
<1>2. Translated(e, m, Memories)
  BY DEF ValueContract
<1>3. \A t \in LlvmTypes : Built(e, [TypesOf(m) EXCEPT ![ReplLast] = t]) = Built(e, TypesOf(m))
  BY <1>2 DEF Translated
<1> QED  BY <1>1, <1>3

\* What is built for a statement computes what it means, from the variables that have a
\* value and any others; that is also what the variable holds that it is assigned to.
LEMMA ComputesMeaning ==
  ASSUME NEW SExprs, NEW Memories, ValueContract(SExprs, Memories), NEW m \in Memories,
         NEW e \in SExprs, e.tag # "declare", NEW v, v = Built(e, TypesOf(m)), v # Bad,
         NEW D \in SUBSET Names, {n \in Names : m[n] # NoValue} \subseteq D
  PROVE  /\ v.type \in MachineTypes
         /\ Result(e, m) = Value(v.type, Computes(v.term, [n \in D |-> m[n]]))
         /\ Means(Operand(e), <<View(m)>>)
              = Value(LanguageType(v.type), Computes(v.term, [n \in D |-> m[n]]))
<1>1. Translated(e, m, Memories) /\ m = [n \in Names |-> m[n]]
  BY DEF ValueContract
<1>2. /\ v.type \in MachineTypes
      /\ \A E \in SUBSET Names : {n \in Names : m[n] # NoValue} \subseteq E =>
            Value(LanguageType(v.type), Computes(v.term, [n \in E |-> m[n]]))
            = Means(Operand(e), <<View(m)>>)
  BY <1>1 DEF Translated
<1>3. Names \in SUBSET Names /\ {n \in Names : m[n] # NoValue} \subseteq Names
  OBVIOUS
<1>4. Value(LanguageType(v.type), Computes(v.term, [n \in Names |-> m[n]]))
        = Value(LanguageType(v.type), Computes(v.term, [n \in D |-> m[n]]))
  BY <1>2, <1>3
<1>5. Computes(v.term, [n \in Names |-> m[n]]) = Computes(v.term, [n \in D |-> m[n]])
  BY <1>4, ValueFields
<1>6. Computes(v.term, m) = Computes(v.term, [n \in D |-> m[n]])
  BY <1>1, <1>5
<1> QED  BY <1>2, <1>6 DEF Result

-----------------------------------------------------------------------------
(* The chunk in progress: its S expressions mean what was typed, and the   *)
(* instructions built so far follow them, from what the variables hold.    *)

Linked(SExprs, Memories) ==
    \E chunk \in Chunks \cap Seq(SExprs) :
        Len(chunk) = Len(ir) /\ \A i \in 1 .. Len(ir) : Alike(ir[i], chunk[i], Memories)

\* held and count are what the variables hold, and how many instructions there are,
\* before the i-th statement and after it.
Follows(i, held, count) ==
    LET e == ir[i]
        v == Built(e, TypesOf(held[i - 1]))
    IN  /\ held[i] = After(e, held[i - 1])
        /\ e.tag = "declare" => count[i] = count[i - 1]
        /\ e.tag # "declare" =>
              /\ v # Bad /\ count[i] = count[i - 1] + 1
              /\ body[count[i]] = Instr(IF e.tag = "assign" THEN e.name ELSE ReplLast, v)

Traced(p, held, count, Memories) ==
    /\ held \in [0 .. p -> Memories] /\ count \in [0 .. p -> 0 .. Len(body)]
    /\ held[0] = Held /\ count[0] = 0 /\ count[p] = Len(body)
    /\ \A i \in 1 .. p : Follows(i, held, count)
    /\ \A i \in 0 .. p, n \in Names : held[i][n] # NoValue => n \in Named
    /\ TypesAre(held[p])

\* The trace goes on with the next statement.
LEMMA TraceGoesOn ==
  ASSUME NEW Memories, BodyOK, NEW p \in Nat, NEW held, NEW count,
         Traced(p, held, count, Memories),
         Held' = Held, ir' = ir, Named \subseteq Named',
         NEW m \in Memories, m = After(ir[p + 1], held[p]),
         \A n \in Names : m[n] # NoValue => n \in Named', TypesAre(m)',
         NEW v, v = Built(ir[p + 1], TypesOf(held[p])), NEW body2, body' = body2,
         \/ ir[p + 1].tag = "declare" /\ body2 = body
         \/ /\ ir[p + 1].tag # "declare" /\ v # Bad
            /\ body2 = Append(body, Instr(IF ir[p + 1].tag = "assign" THEN ir[p + 1].name ELSE ReplLast, v))
  PROVE  \E held2, count2 : Traced(p + 1, held2, count2, Memories)'
<1> DEFINE e == ir[p + 1]
           held2 == [i \in 0 .. p + 1 |-> IF i = p + 1 THEN m ELSE held[i]]
           count2 == [i \in 0 .. p + 1 |-> IF i = p + 1 THEN Len(body2) ELSE count[i]]
<1>1. /\ held \in [0 .. p -> Memories] /\ count \in [0 .. p -> 0 .. Len(body)]
      /\ held[0] = Held /\ count[0] = 0 /\ count[p] = Len(body)
      /\ \A i \in 1 .. p : Follows(i, held, count)
      /\ \A i \in 0 .. p, n \in Names : held[i][n] # NoValue => n \in Named
  BY DEF Traced
<1>2. /\ p + 1 \in 0 .. p + 1 /\ (p + 1) - 1 = p /\ p \in 0 .. p + 1 /\ p # p + 1
      /\ 0 \in 0 .. p + 1 /\ 0 # p + 1 /\ 0 \in 0 .. p /\ p \in 0 .. p
      /\ \A i \in 0 .. p + 1 : i = p + 1 \/ (i \in 0 .. p /\ i # p + 1)
      /\ \A i \in 1 .. p + 1 : i = p + 1 \/ i \in 1 .. p
      /\ \A i \in 1 .. p : /\ i \in 0 .. p /\ i - 1 \in 0 .. p
                           /\ i \in 0 .. p + 1 /\ i # p + 1 /\ i - 1 \in 0 .. p + 1 /\ i - 1 # p + 1
  OBVIOUS
<1>3. /\ Len(body) \in Nat /\ Len(body2) \in Nat
      /\ \A i \in 1 .. Len(body) : body2[i] = body[i]
      /\ e.tag = "declare" => Len(body2) = Len(body)
      /\ e.tag # "declare" =>
            /\ v # Bad /\ Len(body2) = Len(body) + 1
            /\ body2[Len(body) + 1] = Instr(IF e.tag = "assign" THEN e.name ELSE ReplLast, v)
  <2>1. PICK S : body \in Seq(S)
    BY DEF BodyOK
  <2>2. CASE e.tag = "declare"
    BY <2>1, <2>2, LenProperties
  <2>3. CASE e.tag # "declare"
    <3> DEFINE x == Instr(IF e.tag = "assign" THEN e.name ELSE ReplLast, v)
    <3>1. body2 = Append(body, x) /\ v # Bad
      BY <2>3
    <3>2. body \in Seq(S \cup {x})
      BY <2>1
    <3> HIDE DEF x, e
    <3>3. /\ Len(body) \in Nat /\ Len(body2) = Len(body) + 1 /\ body2[Len(body) + 1] = x
          /\ \A i \in 1 .. Len(body) : body2[i] = body[i]
      BY <3>1, <3>2, AppendProperties, LenProperties
    <3> QED  BY <2>3, <3>1, <3>3 DEF x
  <2> QED  BY <2>2, <2>3
<1>4. /\ held2[p + 1] = m /\ count2[p + 1] = Len(body2)
      /\ \A i \in 0 .. p : held2[i] = held[i] /\ count2[i] = count[i]
  BY <1>2
<1>5. held2 \in [0 .. p + 1 -> Memories]
  BY <1>1, <1>2
<1>6. count2 \in [0 .. p + 1 -> 0 .. Len(body2)]
  <2>1. \A i \in 0 .. p : count[i] \in 0 .. Len(body2)
    BY <1>1, <1>3
  <2>2. Len(body2) \in 0 .. Len(body2)
    BY <1>3
  <2> QED  BY <1>2, <2>1, <2>2
<1> HIDE DEF held2, count2
<1>7. held2[0] = Held' /\ count2[0] = 0 /\ count2[p + 1] = Len(body2)
  BY <1>1, <1>2, <1>4
<1>8. ASSUME NEW i \in 1 .. p + 1 PROVE Follows(i, held2, count2)'
  <2>1. CASE i = p + 1
    <3>1. ir'[i] = e /\ held2[i - 1] = held[p] /\ count2[i - 1] = Len(body) /\ held2[i] = m
          /\ count2[i] = Len(body2)
      BY <1>1, <1>2, <1>4, <2>1
    <3>2. Built(e, TypesOf(held[p])) = v
      OBVIOUS
    <3>3. m = After(e, held[p])
      OBVIOUS
    <3> HIDE DEF e
    <3> QED  BY <1>3, <3>1, <3>2, <3>3 DEF Follows
  <2>2. CASE i \in 1 .. p
    <3>1. Follows(i, held, count)
      BY <1>1, <2>2
    <3>2. held2[i] = held[i] /\ held2[i - 1] = held[i - 1] /\ count2[i] = count[i] /\ count2[i - 1] = count[i - 1]
      BY <1>2, <1>4, <2>2
    <3>3. ir[i].tag # "declare" => count[i] \in 1 .. Len(body)
      <4>1. count[i] \in 0 .. Len(body) /\ count[i - 1] \in 0 .. Len(body)
        BY <1>1, <1>2, <2>2
      <4> QED  BY <1>3, <3>1, <4>1 DEF Follows
    <3> QED  BY <1>3, <3>1, <3>2, <3>3 DEF Follows
  <2> QED  BY <1>2, <2>1, <2>2
<1>9. \A i \in 0 .. p + 1, n \in Names : held2[i][n] # NoValue => n \in Named'
  BY <1>1, <1>2, <1>4
<1>10. TypesAre(held2[p + 1])'
  BY <1>4 DEF TypesAre
<1>11. Traced(p + 1, held2, count2, Memories)'
  BY <1>5, <1>6, <1>7, <1>8, <1>9, <1>10 DEF Traced
<1> QED  BY <1>11
-----------------------------------------------------------------------------
(* The steps of the session, but those of main.                            *)

\* The code of the chunk is complete, and ends with a value of its type.
Finished(Memories) ==
    /\ \E p \in Nat : p = Len(ir) /\ \E held, count : Traced(p, held, count, Memories)
    /\ body # <<>> /\ body[Len(body)].value.type = LlvmType(ir[Len(ir)].type)

ChunkInv(SExprs, Memories) ==
    /\ SlotsFresh /\ Held \in Memories
    /\ phase \in {"read", "check"} => TypesAre(Held)
    /\ phase # "read" => Linked(SExprs, Memories)
    /\ phase = "build" => /\ pos \in 1 .. Len(ir) + 1
                          /\ global_type[ReplLast] = LlvmType(ir[Len(ir)].type)
                          /\ global_type[ReplLast] \in LlvmTypes
                          /\ \E p \in Nat : p = pos - 1 /\ \E held, count : Traced(p, held, count, Memories)
    /\ phase \in {"map", "run"} => Finished(Memories)
    /\ phase = "run" => mapped = [n \in Named |-> Slot(n)]

SessionOK(SExprs, Memories) ==
    /\ SessionInv(SExprs) /\ Places /\ BodyOK
    /\ status = "running" => ChunkInv(SExprs, Memories)

\* A step that changes neither values nor code keeps the trace.
LEMMA TraceKept ==
  ASSUME NEW Memories, NEW p, NEW held, NEW count, Traced(p, held, count, Memories),
         Held' = Held, UNCHANGED <<ir, body, global_type, header>>
  PROVE  Traced(p, held, count, Memories)'
<1>1. Named' = Named
  BY NamedAre
<1>2. \A i : Follows(i, held, count)' <=> Follows(i, held, count)
  BY DEF Follows
<1>3. TypesAre(held[p])' <=> TypesAre(held[p])
  BY DEF TypesAre
<1> QED  BY <1>1, <1>2, <1>3 DEF Traced

\* What has a value has a global, where the types are those of the values.
LEMMA ValuesNamed ==
  ASSUME NEW SExprs, NEW Memories, ValueContract(SExprs, Memories), NEW m \in Memories,
         GlobalsOK', TypesAre(m)'
  PROVE  \A n \in Names : m[n] # NoValue => n \in Named'
<1> SUFFICES ASSUME NEW n \in Names, m[n] # NoValue PROVE n \in Named'
  OBVIOUS
<1>1. TypesOf(m)[n] \in MachineTypes
  BY HeldIs
<1>2. global_type'[n] # Absent
  BY <1>1, ValueFields DEF TypesAre
<1>3. n \in Globals /\ n # ReplLast
  BY NamesAssumption DEF Globals
<1> QED  BY <1>2, <1>3, HeaderSoundIs, NamedAre DEF GlobalsOK

\* What was typed is the chunk, each statement being like itself.
LEMMA ReadStep ==
  ASSUME NEW SExprs, NEW Memories, Contract(SExprs), SessionOK(SExprs, Memories),
         NEW chunk \in Chunks, ReadChunk(chunk), status' = "running",
         Held' = Held, SlotsFresh'
  PROVE  ChunkInv(SExprs, Memories)'
<1>1. phase = "read" /\ status = "running" /\ ChunkInv(SExprs, Memories)
  BY DEF ReadChunk, In, SessionOK
<1>2. ~ \E i \in DOMAIN chunk : chunk[i].tag = "unsupported"
  BY DEF ReadChunk, Ends
<1>3. chunk \in Seq(SExprs)
  BY <1>2 DEF Contract
<1>4. ir' = chunk /\ phase' = "check" /\ UNCHANGED global_type
  BY <1>2 DEF ReadChunk, GoTo
<1>5. Linked(SExprs, Memories)'
  <2>1. \A i \in 1 .. Len(chunk) : Alike(chunk[i], chunk[i], Memories)
    BY DEF Alike
  <2>2. Len(chunk) = Len(ir') /\ \A i \in 1 .. Len(ir') : Alike(ir'[i], chunk[i], Memories)
    BY <1>4, <2>1
  <2> QED  BY <1>3, <2>2 DEF Linked, Alike
<1>6. TypesAre(Held)'
  BY <1>1, <1>4 DEF ChunkInv, TypesAre
<1> QED  BY <1>1, <1>4, <1>5, <1>6 DEF ChunkInv

\* A statement that passes is like the one before its check, hence like what was typed.
LEMMA CheckStep ==
  ASSUME NEW SExprs, NEW Memories, Contract(SExprs), ValueContract(SExprs, Memories),
         SessionOK(SExprs, Memories), CheckNext, status' = "running",
         Held' = Held, SlotsFresh'
  PROVE  ChunkInv(SExprs, Memories)'
<1> DEFINE r == Checked(ir[pos], scopes)
<1>1. /\ phase = "check" /\ status = "running" /\ ChunkInv(SExprs, Memories) /\ pos \in DOMAIN ir
      /\ ir \in Seq(SExprs) /\ scopes = <<scopes[1]>> /\ scopes[1] \in RootScopes
  BY DEF CheckNext, In, SessionOK, SessionInv
<1>2. ~r.undefined /\ UNCHANGED global_type
  BY DEF CheckNext, Ends
<1>3. TypesAre(Held)'
  BY <1>1, <1>2 DEF ChunkInv, TypesAre
<1>4. CASE ~r.ok
  <2>1. phase' = "read"
    BY <1>2, <1>4 DEF CheckNext, GoTo
  <2> QED  BY <1>1, <1>3, <2>1 DEF ChunkInv
<1>5. CASE r.ok
  <2>1. ir' = [ir EXCEPT ![pos] = r.sexpr] /\ phase' = "check"
    BY <1>2, <1>5 DEF CheckNext, GoTo
  <2>2. Alike(r.sexpr, ir[pos], Memories)
    <3>1. ir[pos] \in SExprs /\ r = Checked(ir[pos], <<scopes[1]>>)
      BY <1>1
    <3> QED  BY <1>1, <1>5, <3>1 DEF ValueContract
  <2> HIDE DEF r
  <2>3. PICK chunk \in Chunks \cap Seq(SExprs) :
           Len(chunk) = Len(ir) /\ \A i \in 1 .. Len(ir) : Alike(ir[i], chunk[i], Memories)
    BY <1>1 DEF ChunkInv, Linked
  <2>4. Len(ir') = Len(ir) /\ \A i \in 1 .. Len(ir) : ir'[i] = IF i = pos THEN r.sexpr ELSE ir[i]
    BY <1>1, <2>1
  <2>5. ASSUME NEW i \in 1 .. Len(ir) PROVE Alike(ir'[i], chunk[i], Memories)
    <3>1. CASE i = pos
      BY <2>2, <2>3, <2>4, <3>1 DEF Alike
    <3>2. CASE i # pos
      BY <2>3, <2>4, <3>2
    <3> QED  BY <3>1, <3>2
  <2>6. Linked(SExprs, Memories)'
    BY <2>3, <2>4, <2>5 DEF Linked, Alike
  <2> QED  BY <1>1, <1>3, <2>1, <2>6 DEF ChunkInv
<1> QED  BY <1>4, <1>5

\* The new module has no code, and the globals of the old one but repl.last.
LEMMA BeginStep ==
  ASSUME NEW SExprs, NEW Memories, Contract(SExprs), ValueContract(SExprs, Memories),
         SessionOK(SExprs, Memories), BeginModule, status' = "running",
         Held' = Held, SlotsFresh', GlobalsOK'
  PROVE  ChunkInv(SExprs, Memories)'
<1> DEFINE t == LlvmType(ir[Len(ir)].type)
<1>1. /\ phase = "check" /\ status = "running" /\ ChunkInv(SExprs, Memories) /\ pos = Len(ir) + 1
      /\ ir \in Seq(SExprs) /\ ir # <<>> /\ Len(ir) \in Nat \ {0}
      /\ global_type \in [Globals -> LlvmTypes \cup {Absent}]
  BY LenProperties, EmptySeq DEF BeginModule, In, SessionOK, SessionInv, GlobalsOK
<1>2. t \in LlvmTypes
  <2>1. ir[Len(ir)] \in SExprs
    BY <1>1
  <2>2. t # "void"
    BY DEF BeginModule, Ends
  <2> QED  BY <2>1, <2>2 DEF Contract
<1>3. /\ global_type' = [global_type EXCEPT ![ReplLast] = t] /\ body' = <<>>
      /\ phase' = "build" /\ pos' = 1 /\ ir' = ir
  BY DEF BeginModule, Ends, LastTyped, GoTo
<1>4. global_type'[ReplLast] = t /\ \A n \in Names : global_type'[n] = global_type[n]
  BY <1>1, <1>3, NamesAssumption DEF Globals
<1>5. PICK m \in Memories : m = Held
  BY <1>1 DEF ChunkInv
<1>6. TypesAre(m)'
  <2>1. TypesAre(m)
    BY <1>1, <1>5 DEF ChunkInv
  <2> QED  BY <1>4, <2>1 DEF TypesAre
<1>7. \A n \in Names : m[n] # NoValue => n \in Named'
  BY <1>6, ValuesNamed
<1>8. \E p \in Nat : p = pos' - 1 /\ \E held, count : Traced(p, held, count, Memories)'
  <2> DEFINE held == [i \in 0 .. 0 |-> m]
             count == [i \in 0 .. 0 |-> 0]
  <2>1. /\ held \in [0 .. 0 -> Memories] /\ count \in [0 .. 0 -> 0 .. 0]
        /\ held[0] = m /\ count[0] = 0 /\ \A i \in 0 .. 0 : i = 0
    OBVIOUS
  <2>2. Len(body') = 0 /\ pos' - 1 = 0 /\ \A i \in 1 .. 0 : FALSE
    BY <1>3
  <2> HIDE DEF held, count
  <2>3. held[0] = Held'
    BY <1>5, <2>1
  <2>4. TypesAre(held[0])'
    BY <1>6, <2>1
  <2>5. \A i \in 0 .. 0, n \in Names : held[i][n] # NoValue => n \in Named'
    BY <1>7, <2>1
  <2>6. Traced(0, held, count, Memories)'
    BY <2>1, <2>2, <2>3, <2>4, <2>5 DEF Traced
  <2> QED  BY <2>2, <2>6
<1>9. Linked(SExprs, Memories)'
  BY <1>1, <1>3 DEF ChunkInv, Linked, Alike
<1>10. Held' \in Memories
  BY <1>5
<1>11. pos' \in 1 .. Len(ir') + 1
  BY <1>1, <1>3
<1> HIDE DEF t
<1> QED  BY <1>2, <1>3, <1>4, <1>8, <1>9, <1>10, <1>11 DEF ChunkInv, t

\* The trace goes on with the statement that is built.
LEMMA BuildStep ==
  ASSUME NEW SExprs, NEW Memories, Contract(SExprs), ValueContract(SExprs, Memories),
         SessionOK(SExprs, Memories), BuildNext, status' = "running",
         Held' = Held, SlotsFresh', GlobalsOK', Named \subseteq Named'
  PROVE  ChunkInv(SExprs, Memories)'
<1> DEFINE e == ir[pos]
           v == Built(e, global_type)
<1>1. /\ phase = "build" /\ status = "running" /\ ChunkInv(SExprs, Memories) /\ pos \in DOMAIN ir
      /\ ir \in Seq(SExprs) /\ BodyOK /\ Len(ir) \in Nat
      /\ global_type \in [Globals -> LlvmTypes \cup {Absent}]
  BY LenProperties DEF BuildNext, In, SessionOK, SessionInv, GlobalsOK
<1>2. e \in SExprs /\ pos \in 1 .. Len(ir) /\ pos - 1 \in Nat /\ (pos - 1) + 1 = pos
  BY <1>1
<1>p. PICK p \in Nat : p = pos - 1 /\ \E held, count : Traced(p, held, count, Memories)
  BY <1>1 DEF ChunkInv
<1>3. PICK held, count : Traced(p, held, count, Memories)
  BY <1>p
<1> DEFINE m == held[p]
<1>4. m \in Memories /\ TypesAre(m)
  BY <1>3 DEF Traced
<1>5. global_type[ReplLast] \in LlvmTypes /\ global_type[ReplLast] = LlvmType(ir[Len(ir)].type)
  BY <1>1 DEF ChunkInv
<1>6. e.tag # "declare" => v = Built(e, TypesOf(m))
  BY <1>1, <1>2, <1>4, <1>5, BuiltForTypes
<1>7. e.tag # "declare" => v # Bad
  BY DEF BuildNext, Ends
<1>8. /\ phase' = "build" /\ pos' = pos + 1 /\ ir' = ir
      /\ e.tag = "declare" => body' = body
      /\ e.tag # "declare" => body' = Append(body, Instr(IF e.tag = "assign" THEN e.name ELSE ReplLast, v))
      /\ e.tag # "assign" => global_type' = global_type
      /\ e.tag = "assign" => /\ global_type[e.name] \in {Absent, v.type}
                             /\ global_type' = IF global_type[e.name] = Absent
                                    THEN [global_type EXCEPT ![e.name] = v.type] ELSE global_type
  BY <1>7 DEF BuildNext, SaveValue, Ends, GoTo
<1> HIDE DEF e, v, m
<1>9. PICK m2 : m2 = After(e, m)
  OBVIOUS
<1>10. m2 \in Memories /\ TypesAre(m2)' /\ global_type'[ReplLast] = global_type[ReplLast]
  <2>1. CASE e.tag # "assign"
    BY <1>4, <1>8, <1>9, <2>1 DEF After, TypesAre
  <2>2. CASE e.tag = "assign"
    <3>1. e.name \in Names /\ e.tag # "declare" /\ v = Built(e, TypesOf(m)) /\ v # Bad
      BY <1>2, <1>6, <1>7, <2>2 DEF Contract
    <3>2. Translated(e, m, Memories)
      BY <1>2, <1>4, <3>1 DEF ValueContract
    <3>3. v.type \in MachineTypes
      BY <3>1, <3>2 DEF Translated
    <3>4. /\ m = [n \in Names |-> m[n]]
          /\ \/ m[e.name] = NoValue /\ TypesOf(m)[e.name] = Absent
             \/ m[e.name].type \in MachineTypes /\ TypesOf(m)[e.name] = m[e.name].type
      BY <1>4, <3>1, HeldIs
    <3>5. global_type[e.name] = TypesOf(m)[e.name]
      BY <1>4, <3>1 DEF TypesAre
    <3>6. m[e.name].type \in {NoValue.type, v.type}
      BY <1>8, <2>2, <3>4, <3>5, ValueFields
    <3>7. m2 \in Memories
      BY <1>9, <2>2, <3>1, <3>2, <3>6 DEF Translated
    <3>8. m2 = [m EXCEPT ![e.name] = Result(e, m)]
      BY <1>9, <2>2 DEF After
    <3>9. Result(e, m).type = v.type /\ Result(e, m) # NoValue
      BY <3>1, <3>3, ValueFields DEF Result
    <3>10. e.name \in Globals /\ ReplLast \in Globals /\ e.name # ReplLast
      BY <3>1, NamesAssumption DEF Globals
    <3>11. ASSUME NEW n \in Names PROVE global_type'[n] = TypesOf(m2)[n]
      <4>1. n \in Globals /\ TypesOf(m2)[n] = IF m2[n] # NoValue THEN m2[n].type ELSE Absent
        BY DEF TypesOf, Globals
      <4>2. CASE n = e.name
        <5>1. m2[n] = Result(e, m)
          BY <3>1, <3>4, <3>8, <4>2
        <5>2. global_type'[n] = v.type
          BY <1>1, <1>8, <2>2, <3>10, <4>2
        <5> QED  BY <3>9, <4>1, <5>1, <5>2
      <4>3. CASE n # e.name
        <5>1. m2[n] = m[n]
          BY <3>4, <3>8, <4>3
        <5>2. global_type'[n] = global_type[n]
          BY <1>1, <1>8, <2>2, <4>1, <4>3
        <5>3. TypesOf(m)[n] = IF m[n] # NoValue THEN m[n].type ELSE Absent
          BY DEF TypesOf, Globals
        <5> QED  BY <1>4, <4>1, <5>1, <5>2, <5>3 DEF TypesAre
      <4> QED  BY <4>2, <4>3
    <3>12. global_type'[ReplLast] = global_type[ReplLast]
      BY <1>1, <1>8, <2>2, <3>10
    <3> QED  BY <3>7, <3>11, <3>12 DEF TypesAre
  <2> QED  BY <2>1, <2>2
<1>11. \A n \in Names : m2[n] # NoValue => n \in Named'
  BY <1>10, ValuesNamed
<1>12. \E p2 \in Nat : p2 = pos' - 1 /\ \E held2, count2 : Traced(p2, held2, count2, Memories)'
  <2>1. PICK v2 : v2 = Built(ir[p + 1], TypesOf(held[p]))
    OBVIOUS
  <2>2. PICK body2 : body' = body2
    OBVIOUS
  <2>3. ir[p + 1] = e /\ m2 = After(ir[p + 1], held[p]) /\ ir' = ir /\ p + 1 \in Nat /\ p + 1 = pos' - 1
    BY <1>2, <1>p, <1>8, <1>9 DEF e, m
  <2>4. e.tag # "declare" => v2 = v /\ v2 # Bad
    BY <1>6, <1>7, <2>1, <2>3 DEF m
  <2>5. \/ ir[p + 1].tag = "declare" /\ body2 = body
        \/ /\ ir[p + 1].tag # "declare" /\ v2 # Bad
           /\ body2 = Append(body, Instr(IF ir[p + 1].tag = "assign"
                                         THEN ir[p + 1].name ELSE ReplLast, v2))
    BY <1>8, <2>2, <2>3, <2>4
  <2>6. \E held2, count2 : Traced(p + 1, held2, count2, Memories)'
    BY <1>1, <1>3, <1>10, <1>11, <2>1, <2>2, <2>3, <2>5, TraceGoesOn
  <2> QED  BY <2>3, <2>6
<1>13. Linked(SExprs, Memories)'
  BY <1>1, <1>8 DEF ChunkInv, Linked, Alike
<1>14. pos' \in 1 .. Len(ir') + 1
  BY <1>2, <1>8
<1>15. Held' \in Memories
  BY <1>1 DEF ChunkInv
<1> QED  BY <1>5, <1>8, <1>10, <1>12, <1>13, <1>14, <1>15 DEF ChunkInv

\* With the last statement the code is complete.
LEMMA FinishStep ==
  ASSUME NEW SExprs, NEW Memories, SessionOK(SExprs, Memories), FinishModule, status' = "running",
         Held' = Held, SlotsFresh'
  PROVE  ChunkInv(SExprs, Memories)'
<1>1. /\ phase = "build" /\ status = "running" /\ ChunkInv(SExprs, Memories) /\ pos = Len(ir) + 1
      /\ Len(ir) \in Nat
  BY LenProperties DEF FinishModule, In, SessionOK, SessionInv
<1>2. /\ body # <<>> /\ body[Len(body)].value.type = global_type[ReplLast]
      /\ phase' = "map" /\ UNCHANGED <<ir, body, global_type, header>>
  BY DEF FinishModule, Ends, GoTo
<1>p. PICK p \in Nat : p = pos - 1 /\ \E held, count : Traced(p, held, count, Memories)
  BY <1>1 DEF ChunkInv
<1>3. PICK held, count : Traced(p, held, count, Memories)
  BY <1>p
<1>4. Traced(p, held, count, Memories)' /\ p = Len(ir')
  BY <1>1, <1>2, <1>3, <1>p, TraceKept
<1>5. Finished(Memories)'
  BY <1>1, <1>2, <1>4 DEF ChunkInv, Finished
<1>6. Linked(SExprs, Memories)'
  BY <1>1, <1>2 DEF ChunkInv, Linked, Alike
<1> QED  BY <1>1, <1>2, <1>5, <1>6 DEF ChunkInv

\* Every variable is given the slot it is read from.
LEMMA MapStep ==
  ASSUME NEW SExprs, NEW Memories, SessionOK(SExprs, Memories), MapGlobals,
         Held' = Held, SlotsFresh'
  PROVE  ChunkInv(SExprs, Memories)'
<1>1. phase = "map" /\ status = "running" /\ ChunkInv(SExprs, Memories)
  BY DEF MapGlobals, In, SessionOK
<1>2. /\ phase' = "run" /\ UNCHANGED <<ir, body, global_type, header>>
      /\ mapped' = [n \in Named |-> Slot(n)]
  BY DEF MapGlobals, GoTo
<1>3. mapped' = [n \in Named' |-> Slot(n)']
  BY <1>2, SlotIs, NamedAre
<1>p. PICK p \in Nat : p = Len(ir) /\ \E held, count : Traced(p, held, count, Memories)
  BY <1>1 DEF ChunkInv, Finished
<1>4. PICK held, count : Traced(p, held, count, Memories)
  BY <1>p
<1>5. Traced(p, held, count, Memories)' /\ p = Len(ir')
  BY <1>2, <1>4, <1>p, TraceKept
<1>6. Finished(Memories)'
  BY <1>1, <1>2, <1>5 DEF ChunkInv, Finished
<1>7. Linked(SExprs, Memories)'
  BY <1>1, <1>2 DEF ChunkInv, Linked, Alike
<1> QED  BY <1>1, <1>2, <1>3, <1>6, <1>7 DEF ChunkInv
-----------------------------------------------------------------------------
(* What main does.                                                         *)

AsLanguage(v) == [v EXCEPT !.type = LanguageType(@)]

\* The slots hold m, and nothing else.
Holds(vals, m) ==
    /\ DOMAIN vals = 0 .. SlotBound
    /\ \A n \in Named : vals[Slot(n)] = m[n]
    /\ \A i \in 0 .. SlotBound : (\A n \in Named : Slot(n) # i) => vals[i] = NoValue

\* A statement is executed as it was built: its loads see what the variables hold, and
\* its store changes its variable and no other.
LEMMA StatementExecuted ==
  ASSUME NEW SExprs, NEW Memories, Contract(SExprs), ValueContract(SExprs, Memories),
         GlobalsOK, BodyOK, mapped = [n \in Named |-> Slot(n)],
         NEW p \in Nat, NEW held, NEW count, Traced(p, held, count, Memories),
         NEW k \in 1 .. p, ir[k] \in SExprs, Holds(Executed[count[k - 1]].vals, held[k - 1])
  PROVE  /\ Holds(Executed[count[k]].vals, held[k])
         /\ ir[k].tag = "declare" => count[k] = count[k - 1]
         /\ ir[k].tag # "declare" =>
               /\ count[k] # 0 /\ Executed[count[k]].last = Result(ir[k], held[k - 1])
               /\ Result(ir[k], held[k - 1]).type \in MachineTypes
               /\ AsLanguage(Result(ir[k], held[k - 1])) = Means(Operand(ir[k]), <<View(held[k - 1])>>)
<1> DEFINE e == ir[k]
           m == held[k - 1]
           v == Built(e, TypesOf(m))
           c == count[k - 1]
<1>1. k \in 0 .. p /\ k - 1 \in 0 .. p
  OBVIOUS
<1>2. /\ m \in Memories /\ c \in 0 .. Len(body) /\ count[k] \in 0 .. Len(body)
      /\ Follows(k, held, count)
      /\ \A n \in Names : m[n] # NoValue => n \in Named
      /\ \A n \in Names : held[k][n] # NoValue => n \in Named
  BY <1>1 DEF Traced
<1>3. /\ held[k] = After(e, m)
      /\ e.tag = "declare" => count[k] = c
      /\ e.tag # "declare" =>
            /\ v # Bad /\ count[k] = c + 1
            /\ body[count[k]] = Instr(IF e.tag = "assign" THEN e.name ELSE ReplLast, v)
  BY <1>2 DEF Follows
<1>4. Len(body) \in Nat
  BY LenProperties DEF BodyOK
<1>5. /\ Named \subseteq Names
      /\ \A n \in Named : Slot(n) \in 0 .. SlotBound
      /\ \A n, o \in Named : n # o => Slot(n) # Slot(o)
  BY SlotsDistinct
<1>6. CASE e.tag = "declare"
  BY <1>3, <1>6 DEF After
<1>7. CASE e.tag # "declare"
  <2> DEFINE w == Result(e, m)
             r == Executed[c]
             instr == Instr(IF e.tag = "assign" THEN e.name ELSE ReplLast, v)
  <2>1. count[k] = c + 1 /\ count[k] \in 1 .. Len(body) /\ count[k] - 1 = c /\ v # Bad
    BY <1>2, <1>3, <1>4, <1>7
  <2>2. Executed[count[k]] = Execute(r, instr)
    <3>1. Executed[count[k]] = Execute(Executed[count[k] - 1], body[count[k]])
      BY <1>4, <2>1, ExecutedIs
    <3> QED  BY <1>3, <1>7, <2>1, <3>1
  <2>3. /\ v.type \in MachineTypes
        /\ w = Value(v.type, Computes(v.term, [n \in Named |-> m[n]]))
        /\ Means(Operand(e), <<View(m)>>)
             = Value(LanguageType(v.type), Computes(v.term, [n \in Named |-> m[n]]))
    <3>1. {n \in Names : m[n] # NoValue} \subseteq Named /\ Named \in SUBSET Names
      BY <1>2, <1>5
    <3> HIDE DEF v
    <3>2. v = Built(e, TypesOf(m))
      BY DEF v
    <3> QED  BY <1>2, <1>7, <2>1, <3>1, <3>2, ComputesMeaning
  <2>4. AsLanguage(w) = Means(Operand(e), <<View(m)>>) /\ w.type = v.type
    BY <2>3, ValueFields DEF AsLanguage
  <2>5. [n \in DOMAIN mapped |-> r.vals[mapped[n]]] = [n \in Named |-> m[n]]
    <3>1. \A n \in Named : r.vals[mapped[n]] = m[n]
      BY DEF Holds
    <3> HIDE DEF r, m
    <3> QED  BY <3>1
  <2> HIDE DEF e, m, v, w, r
  <2>6. /\ instr.value = v /\ instr.name = IF e.tag = "assign" THEN e.name ELSE ReplLast
    BY DEF Instr
  <2> HIDE DEF instr
  <2>7. /\ Executed[count[k]].last = w
        /\ Executed[count[k]].vals = IF instr.name = ReplLast THEN r.vals
                                     ELSE [r.vals EXCEPT ![mapped[instr.name]] = w]
    <3>1. [type |-> v.type, term |-> Computes(v.term, [n \in Named |-> m[n]])] = w
      BY <2>3 DEF Value
    <3>2. Execute(r, instr) = [vals |-> IF instr.name = ReplLast THEN r.vals
                                        ELSE [r.vals EXCEPT ![mapped[instr.name]] = w],
                               last |-> w]
      BY <2>5, <2>6, <3>1 DEF Execute
    <3> QED  BY <2>2, <3>2
  <2>8. Holds(Executed[count[k]].vals, held[k])
    <3>0. Holds(r.vals, m)
      BY DEF r, m
    <3>1. CASE e.tag # "assign"
      BY <1>3, <2>6, <2>7, <3>0, <3>1 DEF After
    <3>2. CASE e.tag = "assign"
      <4>1. e.name \in Names /\ e.name # ReplLast
        BY <3>2, NamesAssumption DEF Contract, e
      <4>2. held[k] = [m EXCEPT ![e.name] = w] /\ DOMAIN m = Names
        <5>1. m = [n \in Names |-> m[n]]
          BY <1>2, HeldIs
        <5> QED  BY <1>3, <3>2, <5>1 DEF After, w
      <4>3. e.name \in Named
        <5>1. held[k][e.name] = w
          BY <4>1, <4>2
        <5>2. w # NoValue
          BY <2>3, <2>4, ValueFields
        <5> QED  BY <1>2, <4>1, <5>1, <5>2
      <4>4. Executed[count[k]].vals = [r.vals EXCEPT ![Slot(e.name)] = w]
        BY <2>6, <2>7, <3>2, <4>1, <4>3
      <4> DEFINE vals == r.vals
                 vals2 == Executed[count[k]].vals
      <4> HIDE DEF vals, vals2
      <4>5. vals2 = [vals EXCEPT ![Slot(e.name)] = w]
        BY <4>4 DEF vals, vals2
      <4>6. /\ DOMAIN vals = 0 .. SlotBound
            /\ \A n \in Named : vals[Slot(n)] = m[n]
            /\ \A i \in 0 .. SlotBound : (\A n \in Named : Slot(n) # i) => vals[i] = NoValue
        BY <3>0 DEF Holds, vals
      <4>7. DOMAIN vals2 = 0 .. SlotBound
        BY <4>5, <4>6
      <4>8. ASSUME NEW n \in Named PROVE vals2[Slot(n)] = held[k][n]
        <5>1. Slot(n) \in DOMAIN vals /\ n \in DOMAIN m
          BY <1>5, <4>2, <4>6
        <5>2. CASE n = e.name
          <6>1. vals2[Slot(n)] = w
            BY <4>5, <5>1, <5>2
          <6> QED  BY <4>2, <5>1, <5>2, <6>1
        <5>3. CASE n # e.name
          <6>1. Slot(n) # Slot(e.name)
            BY <1>5, <4>3, <5>3
          <6>2. vals2[Slot(n)] = vals[Slot(n)]
            BY <4>5, <5>1, <6>1
          <6> QED  BY <4>2, <4>6, <5>1, <5>3, <6>2
        <5> QED  BY <5>2, <5>3
      <4>9. ASSUME NEW i \in 0 .. SlotBound, \A n \in Named : Slot(n) # i PROVE vals2[i] = NoValue
        BY <4>3, <4>5, <4>6, <4>9
      <4> QED  BY <4>7, <4>8, <4>9 DEF Holds, vals2
    <3> QED  BY <3>1, <3>2
  <2> QED  BY <1>4, <1>7, <2>1, <2>3, <2>4, <2>7, <2>8 DEF e, m, v, w
<1> QED  BY <1>6, <1>7

\* Both modules take the same value for none.
LEMMA NoValueIs == I!NoValue = NoValue
BY DEF I!NoValue, I!Value, I!Const, NoValue, Value, Const

\* The interpreter's own recursion, where a function that follows it is known.
LEMMA RunIs ==
  ASSUME NEW chunk, Len(chunk) \in Nat, NEW f, f = [k \in 0 .. Len(chunk) |-> f[k]],
         f[0] = [env |-> Env, value |-> NoValue],
         \A k \in 1 .. Len(chunk) : f[k] = I!Step(f[k - 1], chunk[k])
  PROVE  I!Run(chunk)[Len(chunk)] = f[Len(chunk)]
<1> DEFINE Turn(g, k) == IF k = 0 THEN [env |-> Env, value |-> NoValue] ELSE I!Step(g[k - 1], chunk[k])
           IsRun(g) == g = [k \in 0 .. Len(chunk) |-> Turn(g, k)]
           run == I!Run(chunk)
<1>1. IsRun(f)
  <2>1. \A k \in 0 .. Len(chunk) : f[k] = Turn(f, k)
    <3>1. \A k \in 0 .. Len(chunk) : k = 0 \/ (k # 0 /\ k \in 1 .. Len(chunk))
      OBVIOUS
    <3> QED  BY <3>1
  <2> HIDE DEF Turn
  <2> QED  BY <2>1
<1>2. run = CHOOSE g : IsRun(g)
  BY NoValueIs DEF I!Run
<1> HIDE DEF IsRun, run
<1>3. IsRun(run)
  BY <1>1, <1>2
<1>4. \A k \in 0 .. Len(chunk) : run[k] = Turn(run, k)
  <2> HIDE DEF Turn
  <2> QED  BY <1>3 DEF IsRun
<1> DEFINE M == {k \in Nat : k <= Len(chunk) => run[k] = f[k]}
<1>5. 0 \in M
  BY <1>4
<1>6. ASSUME NEW k \in M PROVE k + 1 \in M
  <2>1. k + 1 \in Nat /\ (k + 1) - 1 = k /\ k + 1 # 0
        /\ (k + 1 <= Len(chunk) => k <= Len(chunk) /\ k + 1 \in 0 .. Len(chunk) /\ k + 1 \in 1 .. Len(chunk))
    OBVIOUS
  <2>2. ASSUME k + 1 <= Len(chunk) PROVE run[k + 1] = f[k + 1]
    <3>1. run[k] = f[k]
      BY <2>1, <2>2
    <3>2. run[k + 1] = I!Step(run[k], chunk[k + 1])
      BY <1>4, <2>1, <2>2
    <3>3. f[k + 1] = I!Step(f[k], chunk[k + 1])
      BY <2>1, <2>2
    <3> QED  BY <3>1, <3>2, <3>3
  <2> QED  BY <2>1, <2>2
<1>7. M = Nat
  <2>1. M \subseteq Nat
    OBVIOUS
  <2> HIDE DEF M
  <2> QED  BY <1>5, <1>6, <2>1, InductiveSet
<1> QED  BY <1>7 DEF run
\* The interpreter takes the step that the code of a statement takes.
LEMMA StatementMeant ==
  ASSUME NEW SExprs, NEW Memories, Contract(SExprs), ValueContract(SExprs, Memories),
         NEW e \in SExprs, NEW d, Alike(e, d, Memories), NEW m \in Memories, NEW x,
         e.tag # "declare" => AsLanguage(Result(e, m)) = Means(Operand(e), <<View(m)>>),
         NEW y, y = IF e.tag = "declare" THEN x ELSE AsLanguage(Result(e, m)),
         NEW r, r = [env |-> View(m), value |-> x],
         NEW r2, r2 = [env |-> View(After(e, m)), value |-> y]
  PROVE  I!Step(r, d) = r2
<1>1. d.tag = e.tag /\ Means(Operand(d), <<View(m)>>) = Means(Operand(e), <<View(m)>>)
  BY DEF Alike
<1>2. CASE e.tag = "declare"
  BY <1>1, <1>2 DEF I!Step, After
<1>3. CASE e.tag = "assign"
  <2> DEFINE w == Result(e, m)
             v == AsLanguage(w)
  <2>1. d.name = e.name /\ e.name \in Names
    BY <1>3 DEF Alike, Contract
  <2>2. Means(d.value, <<View(m)>>) = v
    BY <1>1, <1>3 DEF Operand
  <2>3. After(e, m) = [m EXCEPT ![e.name] = w] /\ m = [n \in Names |-> m[n]]
    BY <1>3, HeldIs DEF After
  <2> HIDE DEF w
  <2>4. [View(m) EXCEPT ![e.name] = v] = View(After(e, m))
    <3>1. /\ View(m) = [n \in Names |-> AsLanguage(m[n])]
          /\ View(After(e, m)) = [n \in Names |-> AsLanguage(After(e, m)[n])]
      BY DEF View, AsLanguage
    <3>2. \A n \in Names : After(e, m)[n] = IF n = e.name THEN w ELSE m[n]
      BY <2>1, <2>3
    <3> QED  BY <3>1, <3>2
  <2> HIDE DEF v
  <2>5. I!Step([env |-> View(m), value |-> x], d)
          = [env |-> [View(m) EXCEPT ![e.name] = v], value |-> v]
    BY <1>1, <1>3, <2>1, <2>2 DEF I!Step
  <2> QED  BY <1>3, <2>4, <2>5 DEF v, w
<1>4. CASE e.tag # "declare" /\ e.tag # "assign"
  <2>1. Means(d, <<View(m)>>) = AsLanguage(Result(e, m)) /\ After(e, m) = m
    BY <1>1, <1>4 DEF Operand, After
  <2>2. d.tag # "declare" /\ d.tag # "assign"
    BY <1>1, <1>4
  <2> DEFINE v == AsLanguage(Result(e, m))
             env == View(m)
  <2> HIDE DEF v, env
  <2>3. I!Step([env |-> env, value |-> x], d) = [env |-> env, value |-> v]
    <3>1. Means(d, <<env>>) = v
      BY <2>1 DEF v, env
    <3> QED  BY <2>2, <3>1 DEF I!Step
  <2> QED  BY <1>4, <2>1, <2>3 DEF v, env
<1> QED  BY <1>2, <1>3, <1>4

\* Main takes the interpreter through the chunk, and leaves its variables and its value.
LEMMA RunStep ==
  ASSUME NEW SExprs, NEW Memories, Contract(SExprs), ValueContract(SExprs, Memories),
         SessionOK(SExprs, Memories), RunMain, status' = "running"
  PROVE  ChunkInv(SExprs, Memories)' /\ \E chunk \in Chunks : I!Execute(chunk)
<1>1. /\ phase = "run" /\ status = "running" /\ ChunkInv(SExprs, Memories)
      /\ ir \in Seq(SExprs) /\ BodyOK /\ GlobalsOK /\ DOMAIN global_vals = 0 .. SlotBound
  BY DEF RunMain, In, SessionOK, SessionInv, Places
<1>2. /\ global_vals' = Executed[Len(body)].vals
      /\ printed' = [type |-> ir[Len(ir)].type.name, term |-> Executed[Len(body)].last.term]
      /\ phase' = "read" /\ UNCHANGED <<header, global_type>>
  BY DEF RunMain, Ends, GoTo
<1>3. /\ mapped = [n \in Named |-> Slot(n)] /\ SlotsFresh /\ body # <<>>
      /\ body[Len(body)].value.type = LlvmType(ir[Len(ir)].type)
  BY <1>1 DEF ChunkInv, Finished
<1>p. PICK p \in Nat : p = Len(ir) /\ \E held, count : Traced(p, held, count, Memories)
  BY <1>1 DEF ChunkInv, Finished
<1>4. PICK held, count : Traced(p, held, count, Memories)
  BY <1>p
<1>5. PICK chunk \in Chunks \cap Seq(SExprs) :
         Len(chunk) = Len(ir) /\ \A i \in 1 .. Len(ir) : Alike(ir[i], chunk[i], Memories)
  BY <1>1 DEF ChunkInv, Linked
<1>6. /\ held \in [0 .. p -> Memories] /\ held[0] = Held /\ count[0] = 0 /\ count[p] = Len(body)
      /\ \A i \in 1 .. p : held[i] = After(ir[i], held[i - 1])
      /\ \A n \in Names : held[p][n] # NoValue => n \in Named
      /\ TypesAre(held[p])
  BY <1>4 DEF Traced, Follows
<1>7. /\ Named \subseteq Names
      /\ \A n \in Named : Slot(n) \in 0 .. SlotBound
  BY <1>1, SlotsDistinct
<1>8. Len(body) \in Nat \ {0} /\ \A i \in 1 .. p : ir[i] \in SExprs
  <2>1. \A i \in 1 .. p : ir[i] \in SExprs
    BY <1>1, <1>p
  <2> QED  BY <1>1, <1>3, <2>1, LenProperties, EmptySeq DEF BodyOK
<1> DEFINE Done(k) == /\ Holds(Executed[count[k]].vals, held[k])
                      /\ count[k] # 0 => Executed[count[k]].last.type \in MachineTypes
           M == {k \in Nat : k <= p => Done(k)}
<1>9. Done(0)
  <2>1. Executed[0].vals = global_vals
    BY <1>8, ExecutedIs
  <2>2. \A n \in Named : global_vals[Slot(n)] = Held[n]
    BY <1>7 DEF Held
  <2> QED  BY <1>1, <1>3, <1>6, <2>1, <2>2 DEF Holds, SlotsFresh
<1>10. ASSUME NEW k \in 1 .. p, Done(k - 1)
       PROVE  /\ Done(k)
              /\ ir[k].tag = "declare" => count[k] = count[k - 1]
              /\ ir[k].tag # "declare" =>
                    /\ count[k] # 0 /\ Executed[count[k]].last = Result(ir[k], held[k - 1])
                    /\ AsLanguage(Result(ir[k], held[k - 1]))
                         = Means(Operand(ir[k]), <<View(held[k - 1])>>)
  <2>1. Holds(Executed[count[k - 1]].vals, held[k - 1]) /\ ir[k] \in SExprs
    BY <1>8, <1>10
  <2>2. /\ Holds(Executed[count[k]].vals, held[k])
        /\ ir[k].tag = "declare" => count[k] = count[k - 1]
        /\ ir[k].tag # "declare" =>
              /\ count[k] # 0 /\ Executed[count[k]].last = Result(ir[k], held[k - 1])
              /\ Result(ir[k], held[k - 1]).type \in MachineTypes
              /\ AsLanguage(Result(ir[k], held[k - 1])) = Means(Operand(ir[k]), <<View(held[k - 1])>>)
    BY <1>1, <1>3, <1>4, <2>1, StatementExecuted
  <2> QED  BY <1>10, <2>2
<1>11. M = Nat
  <2>1. 0 \in M /\ M \subseteq Nat
    BY <1>9
  <2>2. ASSUME NEW k \in M PROVE k + 1 \in M
    <3>1. k + 1 \in Nat /\ (k + 1) - 1 = k /\ (k + 1 <= p => k <= p /\ k + 1 \in 1 .. p)
      OBVIOUS
    <3>2. k <= p => Done(k)
      OBVIOUS
    <3> HIDE DEF Done
    <3>3. k + 1 <= p => Done(k + 1)
      <4>1. ASSUME NEW j \in 1 .. p, Done(j - 1) PROVE Done(j)
        BY <1>10, <4>1
      <4> QED  BY <3>1, <3>2, <4>1
    <3> QED  BY <3>1, <3>3
  <2> HIDE DEF M
  <2> QED  BY <2>1, <2>2, InductiveSet
<1>12. \A k \in 0 .. p : Done(k)
  <2>1. \A k \in 0 .. p : k \in M /\ k <= p
    BY <1>11
  <2> HIDE DEF Done
  <2> QED  BY <2>1
<1>13. PICK f : f = [k \in 0 .. p |-> [env |-> View(held[k]),
                          value |-> IF count[k] = 0 THEN NoValue ELSE AsLanguage(Executed[count[k]].last)]]
  OBVIOUS
<1>14. ASSUME NEW k \in 0 .. p
       PROVE  f[k] = [env |-> View(held[k]),
                      value |-> IF count[k] = 0 THEN NoValue ELSE AsLanguage(Executed[count[k]].last)]
  BY <1>13
<1>15. f[0] = [env |-> Env, value |-> NoValue]
  <2>1. 0 \in 0 .. p
    OBVIOUS
  <2> QED  BY <1>6, <1>14, <2>1 DEF Env
<1>16. ASSUME NEW k \in 1 .. p PROVE f[k] = I!Step(f[k - 1], chunk[k])
  <2> DEFINE x == IF count[k - 1] = 0 THEN NoValue ELSE AsLanguage(Executed[count[k - 1]].last)
             y == IF count[k] = 0 THEN NoValue ELSE AsLanguage(Executed[count[k]].last)
             e == ir[k]
             m == held[k - 1]
  <2>1. k \in 0 .. p /\ k - 1 \in 0 .. p
    OBVIOUS
  <2>2. /\ e.tag = "declare" => count[k] = count[k - 1]
        /\ e.tag # "declare" =>
              /\ count[k] # 0 /\ Executed[count[k]].last = Result(e, m)
              /\ AsLanguage(Result(e, m)) = Means(Operand(e), <<View(m)>>)
    <3>1. Done(k - 1)
      BY <1>12, <2>1
    <3> HIDE DEF Done
    <3> QED  BY <1>10, <3>1
  <2>3. f[k - 1] = [env |-> View(m), value |-> x]
    BY <1>14, <2>1
  <2>4. m \in Memories /\ e \in SExprs /\ Alike(e, chunk[k], Memories) /\ held[k] = After(e, m)
    BY <1>5, <1>6, <1>8, <1>p, <2>1
  <2>5. f[k] = [env |-> View(held[k]), value |-> y]
    BY <1>14, <2>1
  <2>6. y = IF e.tag = "declare" THEN x ELSE AsLanguage(Result(e, m))
    BY <2>2
  <2> HIDE DEF x, y, e, m
  <2>7. e.tag # "declare" => AsLanguage(Result(e, m)) = Means(Operand(e), <<View(m)>>)
    BY <2>2
  <2>8. f[k] = [env |-> View(After(e, m)), value |-> y]
    BY <2>4, <2>5
  <2> DEFINE r == f[k - 1]
             r2 == f[k]
             d == chunk[k]
  <2>9. /\ r = [env |-> View(m), value |-> x] /\ r2 = [env |-> View(After(e, m)), value |-> y]
        /\ Alike(e, d, Memories)
    BY <2>3, <2>4, <2>8
  <2> HIDE DEF r, r2, d
  <2>10. I!Step(r, d) = r2
    BY <2>4, <2>6, <2>7, <2>9, StatementMeant
  <2> QED  BY <2>10 DEF r, r2, d
<1>17. I!Run(chunk)[p] = f[p]
  <2>1. p = Len(chunk) /\ Len(chunk) \in Nat /\ f = [k \in 0 .. Len(chunk) |-> f[k]]
    BY <1>5, <1>p, <1>13
  <2> QED  BY <1>15, <1>16, <2>1, RunIs
<1>18. f[p] = [env |-> View(held[p]), value |-> AsLanguage(Executed[Len(body)].last)]
  <2>1. p \in 0 .. p
    OBVIOUS
  <2> QED  BY <1>6, <1>8, <1>14, <2>1
<1>19. Holds(global_vals', held[p]) /\ Executed[Len(body)].last.type \in MachineTypes
  <2>1. Done(p)
    BY <1>12
  <2> QED  BY <1>2, <1>6, <1>8, <2>1
<1>20. held[p] \in Memories
  BY <1>6
<1>21. Named' = Named /\ \A n : Slot(n)' = Slot(n)
  BY <1>2, SlotIs, NamedAre
<1>22. Held' = held[p]
  <2>1. \A n \in Names : (IF n \in Named THEN global_vals[Slot(n)] ELSE NoValue)' = held[p][n]
    BY <1>6, <1>19, <1>21 DEF Holds
  <2>2. held[p] = [n \in Names |-> held[p][n]]
    BY <1>20, HeldIs
  <2>3. Held' = [n \in Names |-> held[p][n]]
    BY <2>1 DEF Held
  <2> QED  BY <2>2, <2>3
<1>23. ChunkInv(SExprs, Memories)'
  <2>1. SlotsFresh'
    BY <1>19, <1>21 DEF SlotsFresh, Holds
  <2>2. TypesAre(Held)'
    BY <1>2, <1>6, <1>22 DEF TypesAre
  <2> QED  BY <1>2, <1>20, <1>22, <2>1, <2>2 DEF ChunkInv
<1>24. printed' = AsLanguage(Executed[Len(body)].last)
  <2> DEFINE last == Executed[Len(body)].last
             t == LlvmType(ir[Len(ir)].type)
  <2>1. last = [type |-> body[Len(body)].value.type, term |-> last.term]
    <3>1. Len(body) \in 1 .. Len(body)
      BY <1>8
    <3>2. Executed[Len(body)] = Execute(Executed[Len(body) - 1], body[Len(body)])
      BY <1>8, <3>1, ExecutedIs
    <3> QED  BY <3>2 DEF Execute
  <2>2. t = last.type /\ t \in MachineTypes
    BY <1>3, <1>19, <2>1
  <2>3. ir[Len(ir)].type.name = LanguageType(t)
    <3>1. ir[Len(ir)] \in SExprs
      <4>1. p # 0
        BY <1>6, <1>8
      <4> QED  BY <1>8, <1>p, <4>1
    <3> QED  BY <2>2, <3>1 DEF ValueContract
  <2> HIDE DEF last
  <2>4. AsLanguage(last) = [type |-> LanguageType(t), term |-> last.term]
    BY <1>3, <2>1, <2>2 DEF AsLanguage
  <2> QED  BY <1>2, <2>3, <2>4 DEF last
<1>25. I!Execute(chunk)
  <2>1. I!Run(chunk)[Len(chunk)] = [env |-> Env', value |-> printed']
    <3>1. Env' = View(held[p])
      BY <1>22 DEF Env
    <3> QED  BY <1>5, <1>p, <1>17, <1>18, <1>24, <3>1
  <2>2. [env |-> Env', value |-> printed'].env = Env' /\ [env |-> Env', value |-> printed'].value = printed'
    OBVIOUS
  <2> HIDE DEF Done
  <2> QED  BY <2>1, <2>2 DEF I!Execute
<1> QED  BY <1>23, <1>25

-----------------------------------------------------------------------------
(* The refinement.                                                         *)

\* Nothing is held at first, as in the interpreter.
LEMMA InitOK ==
  ASSUME NEW SExprs, NEW Memories, ValueContract(SExprs, Memories), Init
  PROVE  SessionOK(SExprs, Memories) /\ I!InterpreterInit
<1>1. SessionInv(SExprs) /\ Places /\ BodyOK
  BY InitTyped
<1>2. /\ header = <<>> /\ global_type = [n \in Globals |-> Absent] /\ phase = "read"
      /\ global_vals = [i \in 0 .. SlotBound |-> NoValue] /\ printed = NoValue
  BY DEF Init
<1>3. Named = {}
  BY <1>2 DEF Named, IsNamed
<1>4. Held = [n \in Names |-> NoValue]
  BY <1>3 DEF Held
<1>5. TypesAre(Held)
  BY <1>2, <1>4 DEF TypesAre, TypesOf, Globals
<1>6. ChunkInv(SExprs, Memories)
  BY <1>2, <1>4, <1>5 DEF ChunkInv, SlotsFresh, ValueContract
<1>7. View(Held) = [n \in Names |-> NoValue]
  BY <1>4, ValueFields DEF View
<1> QED  BY <1>1, <1>2, <1>6, <1>7, NoValueIs DEF SessionOK, I!InterpreterInit, Env

\* Every step keeps the invariant, and is a step of the interpreter or none at all.
LEMMA StepOK ==
  ASSUME NEW SExprs, NEW Memories, Contract(SExprs), ValueContract(SExprs, Memories),
         SessionOK(SExprs, Memories), Next
  PROVE  /\ SessionOK(SExprs, Memories)'
         /\ UNCHANGED <<Env, printed>> \/ I!InterpreterNext
<1>1. (SessionInv(SExprs) /\ Places /\ BodyOK)' /\ GlobalsOK /\ GlobalsOK'
  BY TypedStep DEF SessionOK, SessionInv
<1>2. Keeps \/ Renews \/ Creates
  BY StepIsEdit DEF SessionOK
<1>3. status = "running" => ChunkInv(SExprs, Memories)
  BY DEF SessionOK
<1>4. CASE RunMain
  <2>1. CASE status' = "running"
    BY <1>1, <1>4, <2>1, RunStep DEF SessionOK, I!InterpreterNext
  <2>2. CASE status' # "running"
    <3>1. Ends("corrupt")
      BY <1>4, <2>2 DEF RunMain, In
    <3>2. UNCHANGED <<header, global_vals, printed>>
      BY <3>1 DEF Ends, memory
    <3>3. Held' = Held
      BY <3>2, SlotIs, NamedAre DEF Held
    <3> QED  BY <1>1, <2>2, <3>2, <3>3 DEF SessionOK, Env
  <2> QED  BY <2>1, <2>2
<1>5. ASSUME status = "running", UNCHANGED <<global_vals, printed>>,
             Held' = Held /\ SlotsFresh' /\ Named \subseteq Named' /\ status' = "running"
               => ChunkInv(SExprs, Memories)'
      PROVE  SessionOK(SExprs, Memories)' /\ UNCHANGED <<Env, printed>>
  <2>1. Held' = Held /\ SlotsFresh' /\ Named \subseteq Named'
    BY <1>1, <1>2, <1>3, <1>5, HeldKept DEF ChunkInv
  <2> QED  BY <1>1, <1>5, <2>1 DEF SessionOK, Env
<1>6. ASSUME NEW chunk \in Chunks, ReadChunk(chunk)
      PROVE  SessionOK(SExprs, Memories)' /\ UNCHANGED <<Env, printed>>
  <2>1. status = "running" /\ UNCHANGED <<global_vals, printed>>
    BY <1>6 DEF ReadChunk, In, Ends, memory
  <2> QED  BY <1>5, <1>6, <2>1, ReadStep
<1>7. CASE CheckNext
  <2>1. status = "running" /\ UNCHANGED <<global_vals, printed>>
    BY <1>7 DEF CheckNext, In, Ends, memory
  <2> QED  BY <1>5, <1>7, <2>1, CheckStep
<1>8. CASE BeginModule
  <2>1. status = "running" /\ UNCHANGED <<global_vals, printed>>
    BY <1>8 DEF BeginModule, In, Ends, memory
  <2> QED  BY <1>1, <1>5, <1>8, <2>1, BeginStep
<1>9. CASE BuildNext
  <2>1. status = "running" /\ UNCHANGED <<global_vals, printed>>
    BY <1>9 DEF BuildNext, SaveValue, In, Ends, memory
  <2> QED  BY <1>1, <1>5, <1>9, <2>1, BuildStep
<1>10. CASE FinishModule
  <2>1. status = "running" /\ UNCHANGED <<global_vals, printed>>
    BY <1>10 DEF FinishModule, In, Ends, memory
  <2> QED  BY <1>5, <1>10, <2>1, FinishStep
<1>11. CASE MapGlobals
  <2>1. status = "running" /\ UNCHANGED <<global_vals, printed>>
    BY <1>11 DEF MapGlobals, In
  <2> QED  BY <1>5, <1>11, <2>1, MapStep
<1>12. CASE Quit
  <2>1. status = "running" /\ UNCHANGED <<global_vals, printed>> /\ status' = "exited"
    BY <1>12 DEF Quit, In, Ends, memory
  <2> QED  BY <1>5, <2>1
<1> QED  BY <1>4, <1>6, <1>7, <1>8, <1>9, <1>10, <1>11, <1>12 DEF Next

\* Whatever is typed, and however long the session: if the checker keeps the meaning of
\* statements and the code built for one computes it, then through all the bookkeeping in
\* between (globals made anew, slots counted anew, memory mapped anew) the variables have
\* the values an interpreter would give them, and what is printed is what it would print.
THEOREM SessionInterprets ==
  ASSUME NEW SExprs, NEW Memories, Contract(SExprs), ValueContract(SExprs, Memories)
  PROVE  Spec => ImplementsInterpreter
<1>1. Init => SessionOK(SExprs, Memories) /\ I!InterpreterInit
  BY InitOK
<1>2. SessionOK(SExprs, Memories) /\ [Next]_vars
        => SessionOK(SExprs, Memories)' /\ [I!InterpreterNext]_<<Env, printed>>
  <2>1. CASE Next
    BY <2>1, StepOK
  <2>2. ASSUME SessionOK(SExprs, Memories), UNCHANGED vars
        PROVE  SessionOK(SExprs, Memories)' /\ UNCHANGED <<Env, printed>>
    <3>1. UNCHANGED <<scopes, leaked, header, global_type, ir, phase, pos, body, mapped,
                      global_vals, globals_count, printed, status>>
      BY <2>2 DEF vars, process, memory
    <3>2. (SessionInv(SExprs) /\ Places /\ BodyOK)'
      BY <2>2, <3>1 DEF SessionOK, SessionInv, GlobalsOK, HeaderSound, Places, BodyOK
    <3>3. Held' = Held /\ Named' = Named /\ \A n : Slot(n)' = Slot(n)
      BY <3>1, SlotIs, NamedAre DEF Held
    <3>4. (status = "running" => ChunkInv(SExprs, Memories))'
      BY <2>2, <3>1, <3>3, TraceKept
         DEF SessionOK, ChunkInv, Finished, Linked, SlotsFresh, TypesAre, Alike
    <3> QED  BY <3>1, <3>2, <3>3, <3>4 DEF SessionOK, Env
  <2> QED  BY <2>1, <2>2
<1> QED  BY <1>1, <1>2, PTL DEF Spec, ImplementsInterpreter, I!InterpreterSpec

-----------------------------------------------------------------------------
(* The contracts are kept.                                                 *)

\* The types of S expressions in a session, and what its variables may hold.
SessionTypes == Types \cup {NoType}
Everything(X) == [Names -> {NoValue} \cup {Value(t, x) : t \in MachineTypes, x \in X}]

\* The session is given the checker of check.c, the code generator of codegen.c and the
\* meaning of programs, where S are the S expressions over its types and X are the terms;
\* and it is fed such S expressions, if not syntax that convert_ast_to_ir does not know.
CompilesWith(S, depth, X) ==
    /\ Language(S, SessionTypes, depth) /\ AreLanguageTypes(SessionTypes)
    /\ AreTerms(X)
    /\ ChecksIs(S) /\ BuildsIs(S) /\ MeansIs(S) /\ ComputesIs(X)
    /\ \A t \in SessionTypes : LlvmType(t) = InternalTypeToLlvm(t)
    /\ \A chunk \in Chunks : \/ chunk \in Seq(S) \ {<<>>}
                             \/ \E i \in DOMAIN chunk : chunk[i].tag = "unsupported"

\* The LLVM types of values.
LEMMA LlvmTypesAre ==
  /\ AreTypes(LlvmTypes)
  /\ \A t : InternalTypeToLlvm(t) \in LlvmTypes \cup {"void"}
  /\ \A t : InternalTypeToLlvm(t) \in MachineTypes => t.name = LanguageType(InternalTypeToLlvm(t))
BY DEF AreTypes, LlvmTypes, MachineTypes, InternalTypeToLlvm, LanguageType, IntType, FloatType, BoolType,
       Primitive, TypeOf

\* A scope that a session's stack is made of.
LEMMA OneScope ==
  ASSUME NEW V, NEW f \in [Names -> V]
  PROVE  <<f>> \in Stacks(V) /\ Len(<<f>>) = 1 /\ <<f>>[1] = f /\ <<f>> \in Seq([Names -> V])
BY EmptySeq DEF Stacks

\* A statement that passes the check keeps its meaning, and leaves one root scope.
LEMMA CheckedKeeps ==
  ASSUME NEW S, NEW depth, NEW X, CompilesWith(S, depth, X), NEW e \in S, NEW root \in RootScopes
  PROVE  Keeping(Checked(e, <<root>>), e, <<root>>, S, SessionTypes, X)
<1>1. PICK b : b = TRUE
  OBVIOUS
<1>2. Checked(e, <<root>>) = Checks(e, <<root>>, b)
  BY <1>1 DEF Checked
<1>3. <<root>> \in Stacks(SessionTypes)
  BY OneScope DEF RootScopes, SessionTypes
<1>4. \A d \in S, s \in Stacks(SessionTypes) : Keeping(Checks(d, s, b), d, s, S, SessionTypes, X)
  BY CheckKeeps DEF CompilesWith
<1> QED  BY <1>2, <1>3, <1>4

\* What is assigned, or else the statement itself.
LEMMA OperandIs ==
  ASSUME NEW S, NEW depth, NEW X, CompilesWith(S, depth, X), NEW e \in S
  PROVE  Operand(e) \in S /\ (e.tag = "assign" => e.name \in Names) /\ e.type \in SessionTypes
BY FormOf DEF CompilesWith, Language, Operand, Literals

\* What is built has a type.
LEMMA BuiltTyped ==
  ASSUME NEW S, NEW depth, NEW X, CompilesWith(S, depth, X), NEW e \in S,
         NEW types, GlobalsTyped(types, LlvmTypes)
  PROVE  Built(e, types) \in Machine(X, LlvmTypes)
<1>1. <<>> \in Locals(X, LlvmTypes)
  BY DEF Locals
<1>2. Operand(e) \in S
  BY OperandIs
<1>3. \A d \in S, local \in Locals(X, LlvmTypes) : Builds(d, local, types) \in Machine(X, LlvmTypes)
  BY BuildTyped, LlvmTypesAre DEF CompilesWith
<1> QED  BY <1>1, <1>2, <1>3 DEF Built

\* The checker and the code generator keep the contract the session rests on.
LEMMA ContractKept ==
  ASSUME NEW S, NEW depth, NEW X, CompilesWith(S, depth, X)
  PROVE  Contract(S)
<1>1. ASSUME NEW e \in S, NEW root \in RootScopes
      PROVE  LET r == Checked(e, <<root>>)
             IN  /\ r.scopes \in Seq(RootScopes) \ {<<>>}
                 /\ r.ok => r.sexpr \in S /\ r.scopes = <<r.scopes[1]>>
  <2> DEFINE r == Checked(e, <<root>>)
  <2>1. Keeping(r, e, <<root>>, S, SessionTypes, X)
    BY CheckedKeeps
  <2>2. RootScopes = [Names -> SessionTypes] /\ Len(<<root>>) = 1
    BY OneScope DEF RootScopes, SessionTypes
  <2> HIDE DEF r
  <2>3. r.scopes \in Seq(RootScopes) \ {<<>>} /\ r.sexpr \in S /\ (r.ok => Len(r.scopes) = 1)
    BY <2>1, <2>2 DEF Keeping, Results, Stacks
  <2>4. r.ok => r.scopes = <<r.scopes[1]>>
    BY <2>3
  <2> QED  BY <2>3, <2>4 DEF r
<1>2. ASSUME NEW e \in S
      PROVE  /\ LlvmType(e.type) \in LlvmTypes \cup {"void"}
             /\ e.tag = "assign" => e.name \in Names
  BY OperandIs, LlvmTypesAre DEF CompilesWith
<1>3. ASSUME NEW e \in S, NEW types \in [Globals -> LlvmTypes \cup {Absent}], e.tag = "assign"
      PROVE  Built(e, types) = Bad \/ Built(e, types).type \in LlvmTypes
  <2>1. GlobalsTyped(types, LlvmTypes)
    BY DEF GlobalsTyped, Globals
  <2>2. Built(e, types) \in Machine(X, LlvmTypes)
    BY <2>1, BuiltTyped
  <2> QED  BY <2>2, ValueIs, LlvmTypesAre
<1> QED  BY <1>1, <1>2, <1>3 DEF Contract, CompilesWith

\* What variables hold, as the language has it.
LEMMA ViewIs ==
  ASSUME NEW X, AreTerms(X), NEW m \in Everything(X)
  PROVE  /\ m = [n \in Names |-> m[n]]
         /\ \A n \in Names : \/ m[n] = NoValue /\ View(m)[n] = NoValue
                             \/ /\ m[n] # NoValue /\ m[n].type \in MachineTypes /\ m[n].term \in X
                                /\ m[n] = Value(m[n].type, m[n].term)
                                /\ View(m)[n] = Value(LanguageType(m[n].type), m[n].term)
         /\ View(m) \in [Names -> Spoken(X)]
<1>1. ASSUME NEW n \in Names
      PROVE  \/ m[n] = NoValue /\ View(m)[n] = NoValue
             \/ /\ m[n] # NoValue /\ m[n].type \in MachineTypes /\ m[n].term \in X
                /\ m[n] = Value(m[n].type, m[n].term)
                /\ View(m)[n] = Value(LanguageType(m[n].type), m[n].term)
  <2>1. View(m)[n] = [m[n] EXCEPT !.type = LanguageType(@)]
    BY DEF View
  <2>2. CASE m[n] = NoValue
    BY <2>1, <2>2, ValueFields
  <2>3. CASE m[n] # NoValue
    <3>1. PICK t \in MachineTypes, x \in X : m[n] = Value(t, x)
      BY <2>3 DEF Everything
    <3> QED  BY <2>1, <2>3, <3>1, ValueFields
  <2> QED  BY <2>2, <2>3
<1>2. View(m) \in [Names -> Spoken(X)]
  <2>1. \A t \in MachineTypes : LanguageType(t) \in SpokenTypes
    BY DEF MachineTypes, LanguageType, SpokenTypes
  <2>2. \A n \in Names : View(m)[n] \in Spoken(X)
    BY <1>1, <2>1, NoValueIn, SpokenIs
  <2>3. View(m) = [n \in Names |-> View(m)[n]]
    BY DEF View
  <2> QED  BY <2>2, <2>3
<1>3. m = [n \in Names |-> m[n]]
  BY DEF Everything
<1> QED  BY <1>1, <1>2, <1>3

\* In a session the globals are those of the variables that hold something; of those
\* the memory has the values.
LEMMA SessionRelated ==
  ASSUME NEW X, AreTerms(X), NEW m \in Everything(X), NEW types, AlikeFor(types, TypesOf(m)), NEW mem,
         \A n \in Names : m[n] # NoValue => mem[n] = m[n], ComputesIs(X)
  PROVE  Related(<<>>, types, <<View(m)>>, mem)
<1>1. ASSUME NEW n \in Names
      PROVE  Sound(Found(<<>>, types, n), Looked(<<View(m)>>, n, NoValue), mem)
  <2>1. Looked(<<>>, n, NoValue) = NoValue
    BY DEF Looked, Innermost
  <2>2. Looked(<<View(m)>>, n, NoValue) = View(m)[n]
    <3> DEFINE v == View(m)
               stack == <<v>>
    <3>1. DOMAIN stack = 1 .. 1 /\ stack[1] = v /\ 1 \in Nat /\ 1 \in 1 .. 1 /\ \A j \in 1 .. 1 : j = 1
      OBVIOUS
    <3> HIDE DEF v, stack
    <3>2. CASE v[n] = NoValue
      <4>1. IsLast(0, 1, stack, n, NoValue)
        BY <3>1, <3>2 DEF IsLast
      <4>2. Innermost(stack, n, NoValue) = 0
        BY <3>1, <4>1, InnermostOnly
      <4> QED  BY <3>2, <4>2 DEF Looked, v, stack
    <3>3. CASE v[n] # NoValue
      <4>1. IsLast(1, 1, stack, n, NoValue)
        BY <3>1, <3>3 DEF IsLast
      <4>2. Innermost(stack, n, NoValue) = 1
        BY <3>1, <4>1, InnermostOnly
      <4>3. Looked(stack, n, NoValue) = v[n]
        BY <3>1, <4>2 DEF Looked
      <4> QED  BY <4>3 DEF v, stack
    <3> QED  BY <3>2, <3>3
  <2>3. Found(<<>>, types, n) = Global(types, n)
    BY <2>1 DEF Found
  <2>4. types[n] = IF m[n] # NoValue THEN m[n].type ELSE Absent
    BY DEF AlikeFor, TypesOf, Globals
  <2>5. CASE m[n] = NoValue
    BY <2>3, <2>4, <2>5 DEF Global, Sound
  <2>6. CASE m[n] # NoValue
    <3> DEFINE t == m[n].type
    <3>1. t \in MachineTypes /\ View(m)[n] = Value(LanguageType(t), m[n].term) /\ types[n] = t /\ t # Absent
      BY <2>4, <2>6, ViewIs, ValueFields
    <3>2. Found(<<>>, types, n) = Value(t, Load(n))
      BY <2>3, <3>1 DEF Global
    <3>3. Computes(Load(n), mem) = m[n].term
      BY <2>6, Computed
    <3> HIDE DEF t
    <3> QED  BY <2>2, <3>1, <3>2, <3>3, ValueIs DEF Sound, Same
  <2> QED  BY <2>5, <2>6
<1> QED  BY <1>1 DEF Related

\* The globals of the variables have types.
LEMMA TypesOfTyped ==
  ASSUME NEW X, AreTerms(X), NEW m \in Everything(X)
  PROVE  GlobalsTyped(TypesOf(m), LlvmTypes)
BY ViewIs, ValueFields DEF GlobalsTyped, TypesOf, Globals

\* What is built for a statement computes what it means.
LEMMA TranslatedAll ==
  ASSUME NEW S, NEW depth, NEW X, CompilesWith(S, depth, X), NEW e \in S, NEW m \in Everything(X)
  PROVE  Translated(e, m, Everything(X))
<1> DEFINE v == Built(e, TypesOf(m))
           w == Means(Operand(e), <<View(m)>>)
           M == Everything(X)
<1>0. AreTerms(X) /\ ComputesIs(X)
  BY DEF CompilesWith
<1>1. GlobalsTyped(TypesOf(m), LlvmTypes) /\ AreTypes(LlvmTypes)
  BY <1>0, TypesOfTyped, LlvmTypesAre
<1>2. Operand(e) \in S /\ <<>> \in Locals(X, LlvmTypes) /\ <<View(m)>> \in Seq([Names -> Spoken(X)])
  BY <1>0, OperandIs, ViewIs, OneScope DEF Locals
<1>3. ASSUME NEW t \in LlvmTypes PROVE Built(e, [TypesOf(m) EXCEPT ![ReplLast] = t]) = v
  <2> DEFINE types == [TypesOf(m) EXCEPT ![ReplLast] = t]
  <2>1. \A n \in Names : types[n] = TypesOf(m)[n]
    BY NamesAssumption DEF TypesOf, Globals
  <2>2. GlobalsTyped(types, LlvmTypes) /\ AlikeFor(TypesOf(m), types)
    BY <1>1, <2>1 DEF GlobalsTyped, AlikeFor
  <2> HIDE DEF types
  <2>3. \A d \in S, local \in Locals(X, LlvmTypes) : Builds(d, local, TypesOf(m)) = Builds(d, local, types)
    BY <1>1, <2>2, BuildIndependent DEF CompilesWith
  <2> QED  BY <1>2, <2>3 DEF Built, types
<1>4. ASSUME NEW mem, \A n \in Names : m[n] # NoValue => mem[n] = m[n] PROVE Sound(v, w, mem)
  <2>1. Related(<<>>, TypesOf(m), <<View(m)>>, mem)
    BY <1>0, <1>4, SessionRelated DEF AlikeFor
  <2>2. \A d \in S, local \in Locals(X, LlvmTypes), env \in Seq([Names -> Spoken(X)]) :
           Related(local, TypesOf(m), env, mem) => Sound(Builds(d, local, TypesOf(m)), Means(d, env), mem)
    BY <1>1, BuildSound DEF CompilesWith
  <2> QED  BY <1>2, <2>1, <2>2 DEF Built
<1>5. w \in Spoken(X)
  <2>1. \A d \in S, env \in Seq([Names -> Spoken(X)]) : Means(d, env) \in Spoken(X)
    BY MeansTyped DEF CompilesWith
  <2> QED  BY <1>2, <2>1
<1>6. v # Bad => v.type \in MachineTypes /\ Same(v, w, m)
  <2>1. Sound(v, w, m)
    BY <1>4
  <2> HIDE DEF v, w
  <2> QED  BY <2>1 DEF Sound, Same
<1>7. ASSUME NEW D \in SUBSET Names, {n \in Names : m[n] # NoValue} \subseteq D, v # Bad
      PROVE  Value(LanguageType(v.type), Computes(v.term, [n \in D |-> m[n]])) = w
  <2> DEFINE mem == [n \in D |-> m[n]]
  <2>1. \A n \in Names : m[n] # NoValue => mem[n] = m[n]
    BY <1>7
  <2> HIDE DEF mem
  <2>2. Sound(v, w, mem)
    BY <1>4, <2>1
  <2> HIDE DEF v, w
  <2> QED  BY <1>7, <2>2 DEF Sound, Same, mem
<1>8. ASSUME v # Bad, e.tag = "assign" PROVE After(e, m) \in M
  <2> DEFINE x == Value(v.type, Computes(v.term, m))
  <2>1. x = Result(e, m) /\ After(e, m) = [m EXCEPT ![e.name] = x] /\ e.name \in Names
    BY <1>8, OperandIs DEF After, Result
  <2>2. v.type \in MachineTypes /\ Computes(v.term, m) \in X
    <3>1. Value(LanguageType(v.type), Computes(v.term, m)) = w
      BY <1>6, <1>8 DEF Same
    <3> HIDE DEF v, w
    <3> QED  BY <1>5, <1>6, <1>8, <3>1, SpokenIs, ValueFields
  <2> HIDE DEF v
  <2>3. x \in {NoValue} \cup {Value(t, y) : t \in MachineTypes, y \in X}
    BY <2>2
  <2> HIDE DEF x
  <2> QED  BY <2>1, <2>3 DEF Everything
<1> HIDE DEF v, w, M
<1>9. v # Bad =>
        /\ v.type \in MachineTypes
        /\ \A D \in SUBSET Names : {n \in Names : m[n] # NoValue} \subseteq D =>
              Value(LanguageType(v.type), Computes(v.term, [n \in D |-> m[n]])) = w
        /\ e.tag = "assign" /\ m[e.name].type \in {NoValue.type, v.type} => After(e, m) \in M
  BY <1>6, <1>7, <1>8
<1> QED  BY <1>3, <1>9 DEF Translated, v, w, M

\* And that about values.
LEMMA ValueContractKept ==
  ASSUME NEW S, NEW depth, NEW X, CompilesWith(S, depth, X)
  PROVE  ValueContract(S, Everything(X))
<1> DEFINE M == Everything(X)
<1>0. AreTerms(X)
  BY DEF CompilesWith
<1>1. [n \in Names |-> NoValue] \in M
  BY DEF Everything
<1>2. ASSUME NEW m \in M
      PROVE  /\ m = [n \in Names |-> m[n]]
             /\ \A n \in Names : m[n] = NoValue \/ \E t \in MachineTypes : m[n] = Value(t, m[n].term)
  BY <1>0, ViewIs
<1>3. ASSUME NEW e \in S
      PROVE  /\ LlvmType(e.type) \in MachineTypes => e.type.name = LanguageType(LlvmType(e.type))
             /\ \A m \in M : Translated(e, m, M)
  BY TranslatedAll, OperandIs, LlvmTypesAre DEF CompilesWith
<1>4. ASSUME NEW e \in S, NEW root \in RootScopes, Checked(e, <<root>>).ok
      PROVE  Alike(Checked(e, <<root>>).sexpr, e, M)
  <2> DEFINE d == Checked(e, <<root>>).sexpr
  <2>1. Kept(d, e, X)
    BY <1>4, CheckedKeeps DEF Keeping
  <2> HIDE DEF d
  <2>2. d.tag = e.tag /\ (e.tag = "assign" => d.name = e.name)
    BY <2>1 DEF Kept
  <2>3. ASSUME NEW m \in M PROVE Means(Operand(d), <<View(m)>>) = Means(Operand(e), <<View(m)>>)
    <3>1. <<View(m)>> \in Seq([Names -> Spoken(X)])
      BY <1>0, ViewIs, OneScope
    <3>2. Means(d, <<View(m)>>) = Means(e, <<View(m)>>)
          /\ (e.tag = "assign" => Means(d.value, <<View(m)>>) = Means(e.value, <<View(m)>>))
      BY <2>1, <3>1 DEF Kept
    <3> QED  BY <2>2, <3>2 DEF Operand
  <2> QED  BY <2>2, <2>3 DEF Alike, d
<1>5. ASSUME NEW e \in S
      PROVE  LET checks == {Checked(e, <<root>>) : root \in RootScopes}
             IN  \A d \in {r.sexpr : r \in {c \in checks : c.ok}} : Alike(d, e, M)
  BY <1>4
<1> HIDE DEF M
<1> QED  BY <1>1, <1>2, <1>3, <1>5 DEF ValueContract, M

\* Whatever is typed, of whatever size, and however long the session: the variables have
\* the values an interpreter would give them, and what is printed is what it would print,
\* with the checker of check.c and the code generator of codegen.c.
THEOREM CurlyInterprets ==
  ASSUME NEW S, NEW depth, NEW X, CompilesWith(S, depth, X)
  PROVE  Spec => ImplementsInterpreter
BY ContractKept, ValueContractKept, SessionInterprets

\* With them, the list of globals and the symbol table of the module stay in step.
THEOREM CurlyListsGlobals ==
  ASSUME NEW S, NEW depth, NEW X, CompilesWith(S, depth, X)
  PROVE  Spec => []HeaderSound /\ SlotsStable /\ []TypeOK
<1>1. Contract(S)
  BY ContractKept
<1>2. Spec => []HeaderSound
  BY <1>1, GlobalsListedOnce
<1>3. Spec => SlotsStable
  BY <1>1, SlotsNeverMove
<1>4. Spec => []TypeOK
  BY <1>1, SessionTyped
<1> QED  BY <1>2, <1>3, <1>4

-----------------------------------------------------------------------------
(* The types of variables.                                                 *)

\* The scopes of s are still there, below others it may be, and what had a type in
\* one of them has it still.
Steady(q, s) == /\ Len(q) >= Len(s)
                /\ \A j \in 1 .. Len(s), n \in Names : s[j][n] # NoType => q[j][n] = s[j][n]

\* The length of a stack.
LEMMA StackLength ==
  ASSUME NEW T, NEW s \in Stacks(T)
  PROVE  Len(s) \in Nat /\ Len(s) # 0 /\ s \in Seq([Names -> T]) /\ Len(s) \in 1 .. Len(s)
<1>1. Len(s) \in Nat /\ Len(s) # 0 /\ s \in Seq([Names -> T])
  BY LenProperties, EmptySeq DEF Stacks
<1> QED  BY <1>1

LEMMA SteadyTwice ==
  ASSUME NEW T, NEW p \in Stacks(T), NEW q \in Stacks(T), NEW s \in Stacks(T), Steady(p, q), Steady(q, s)
  PROVE  Steady(p, s)
<1>1. Len(p) \in Nat /\ Len(q) \in Nat /\ Len(s) \in Nat
  BY StackLength
<1>2. Len(p) >= Len(s) /\ \A j \in 1 .. Len(s) : j \in 1 .. Len(q)
  BY <1>1 DEF Steady
<1> QED  BY <1>2 DEF Steady

LEMMA SteadyRefl ==
  ASSUME NEW T, NEW s \in Stacks(T)
  PROVE  Steady(s, s)
BY StackLength DEF Steady

\* A name is bound to the type it has, or had none.
LEMMA BoundSteady ==
  ASSUME NEW T, NEW q \in Stacks(T), NEW s \in Stacks(T), Steady(q, s), Len(q) = Len(s),
         NEW n \in Names, NEW t \in T, q[Len(s)][n] \in {NoType, t}
  PROVE  Steady(Bind(q, n, t), s)
<1> DEFINE p == Bind(q, n, t)
           k == Len(s)
<1>1. /\ k \in Nat /\ k \in 1 .. k /\ Len(p) = k
      /\ \A j \in 1 .. k : p[j] = IF j = k THEN [q[j] EXCEPT ![n] = t] ELSE q[j]
  <2>1. k \in Nat /\ k \in 1 .. k
    BY StackLength
  <2>2. /\ Len(p) = Len(q)
        /\ \A j \in 1 .. Len(q) : p[j] = IF j = Len(q) THEN [q[j] EXCEPT ![n] = t] ELSE q[j]
    BY StackBound
  <2> QED  BY <2>1, <2>2
<1>2. \A j \in 1 .. k : q[j] \in [Names -> T]
  BY ElementOfSeq, StackLength
<1> HIDE DEF p
<1>3. ASSUME NEW j \in 1 .. k, NEW m \in Names, s[j][m] # NoType PROVE p[j][m] = s[j][m]
  <2>1. q[j][m] = s[j][m]
    BY <1>3 DEF Steady
  <2>2. CASE j = k /\ m = n
    BY <1>1, <1>2, <1>3, <2>1, <2>2
  <2>3. CASE ~(j = k /\ m = n)
    BY <1>1, <1>2, <2>1, <2>3
  <2> QED  BY <2>2, <2>3
<1>4. Len(p) >= Len(s)
  BY <1>1
<1> QED  BY <1>3, <1>4 DEF Steady, p

\* What holds above a scope that was pushed holds without it.
LEMMA PushedSteady ==
  ASSUME NEW T, NoType \in T, NEW q \in Stacks(T), NEW s \in Stacks(T), Steady(q, PushScope(s))
  PROVE  Steady(q, s)
<1> DEFINE k == Len(s)
           p == PushScope(s)
           empty == [n \in Names |-> NoType]
<1>1. k \in Nat /\ s \in Seq([Names -> T]) /\ empty \in [Names -> T] /\ Len(q) \in Nat
  BY StackLength
<1>2. p = Append(s, empty)
  BY DEF PushScope
<1> HIDE DEF p, empty
<1>3. Len(p) = k + 1 /\ \A j \in 1 .. k : p[j] = s[j]
  BY <1>1, <1>2, AppendProperties
<1>4. /\ Len(q) >= k + 1
      /\ \A j \in 1 .. k + 1, n \in Names : p[j][n] # NoType => q[j][n] = p[j][n]
  BY <1>3 DEF Steady, p
<1>5. Len(q) >= k /\ \A j \in 1 .. k : j \in 1 .. k + 1
  BY <1>1, <1>4
<1> QED  BY <1>3, <1>4, <1>5 DEF Steady

LEMMA PoppedSteady ==
  ASSUME NEW T, NEW q \in Stacks(T), NEW s \in Stacks(T), Steady(q, s), Len(q) = Len(s) + 1
  PROVE  Steady(PopScope(q), s)
<1> DEFINE k == Len(s)
           p == PopScope(q)
<1>1. k \in Nat /\ k # 0 /\ q \in Seq([Names -> T]) /\ k \in Int /\ 1 \in Int /\ Len(q) - 1 = k
  <2>1. k \in Nat /\ k # 0
    BY StackLength
  <2>2. q \in Seq([Names -> T])
    BY StackLength
  <2> QED  BY <2>1, <2>2
<1>2. \A i \in 1 .. Len(q) : q[i] \in [Names -> T]
  BY <1>1, ElementOfSeq
<1>3. p = SubSeq(q, 1, k)
  BY <1>1 DEF PopScope
<1>4. \A i \in 1 .. k : q[i] \in [Names -> T]
  BY <1>1, <1>2
<1>5. /\ Len(p) = (IF 1 <= k THEN k - 1 + 1 ELSE 0)
      /\ \A i \in 1 .. k - 1 + 1 : p[i] = q[1 + i - 1]
  BY <1>1, <1>3, <1>4, SubSeqProperties
<1>6. Len(p) = k /\ \A i \in 1 .. k : p[i] = q[i]
  <2> HIDE DEF p, k
  <2>1. Len(p) = k /\ k - 1 + 1 = k /\ \A i \in 1 .. k : 1 + i - 1 = i
    BY <1>1, <1>5
  <2> QED  BY <1>5, <2>1
<1> HIDE DEF p
<1>7. Len(p) >= Len(s)
  BY <1>1, <1>6
<1> QED  BY <1>6, <1>7 DEF Steady, p

\* So it is if several are checked one after the other, each of which is steady.
LEMMA EachSteady ==
  ASSUME NEW S, NEW T, NEW X, NEW es, Len(es) \in Nat, NEW b, EachKeeps(es, b, S, T, X), NEW s \in Stacks(T),
         \A i \in 1 .. Len(es) : \A q \in Stacks(T) : Steady(Checks(es[i], q, b).scopes, q)
  PROVE  Steady(CheckEach(es, s, b).scopes, s)
<1> DEFINE n == Len(es)
<1>1. PICK r : CheckedOneByOne(es, s, b, S, T, r)
  BY CheckEachIs
<1>2. n \in Nat /\ n \in 0 .. n /\ 0 \in 0 .. n /\ \A k \in 1 .. n : k \in 0 .. n /\ k - 1 \in 0 .. n
  <2>1. n \in Nat
    OBVIOUS
  <2> HIDE DEF n
  <2> QED  BY <2>1
<1> DEFINE M == {k \in 0 .. n : Steady(r[k].scopes, s)}
<1>3. 0 \in M
  <2>1. r[0].scopes = s
    BY <1>1 DEF CheckedOneByOne, Accepted
  <2> QED  BY <1>2, <2>1, SteadyRefl
<1>4. ASSUME NEW k \in 1 .. n, k - 1 \in M PROVE k \in M
  <2> DEFINE q == r[k - 1]
             c == Checks(es[k], q.scopes, b)
  <2>1. /\ q \in Results(Seq(S), T) /\ r[k] = CheckTurn(es, b, k, q) /\ r[k] \in Results(Seq(S), T)
        /\ Steady(q.scopes, s)
    BY <1>1, <1>2, <1>4 DEF CheckedOneByOne
  <2> HIDE DEF q
  <2>2. (~q.ok => r[k] = q) /\ (q.ok => r[k].scopes = c.scopes)
    BY <2>1, CheckTurnIs
  <2>3. q.scopes \in Stacks(T) /\ r[k].scopes \in Stacks(T)
    BY <2>1 DEF Results
  <2>4. Steady(c.scopes, q.scopes)
    BY <2>3
  <2> HIDE DEF c
  <2>5. Steady(r[k].scopes, s)
    BY <2>1, <2>2, <2>3, <2>4, SteadyTwice
  <2> QED  BY <1>2, <2>5
<1>5. 0 .. n \subseteq M
  <2> HIDE DEF M, n
  <2> QED  BY <1>2, <1>3, <1>4, NumbersUpTo
<1>6. CheckEach(es, s, b) = r[n] /\ n \in M
  BY <1>1, <1>2, <1>5 DEF CheckedOneByOne
<1> QED  BY <1>6

\* Two of them.
LEMMA PairSteady ==
  ASSUME NEW S, NEW T, NEW X, NEW x, NEW y, NEW b, NEW s \in Stacks(T),
         \A q \in Stacks(T) : /\ Keeping(Checks(x, q, b), x, q, S, T, X) /\ Steady(Checks(x, q, b).scopes, q)
                              /\ Keeping(Checks(y, q, b), y, q, S, T, X) /\ Steady(Checks(y, q, b).scopes, q)
  PROVE  Steady(CheckEach(<<x, y>>, s, b).scopes, s)
<1> DEFINE es == <<x, y>>
<1>1. Len(es) = 2 /\ es[1] = x /\ es[2] = y /\ 1 .. Len(es) = {1, 2} /\ Len(es) \in Nat
  OBVIOUS
<1> HIDE DEF es
<1>2. EachKeeps(es, b, S, T, X)
  BY <1>1 DEF EachKeeps
<1>3. \A i \in 1 .. Len(es) : \A q \in Stacks(T) : Steady(Checks(es[i], q, b).scopes, q)
  BY <1>1
<1>4. Steady(CheckEach(es, s, b).scopes, s)
  BY <1>1, <1>2, <1>3, EachSteady
<1> QED  BY <1>4 DEF es

\* Expressions without a declaration among their parts, or the parts of these.
Undeclaring(D) == \A e \in D : e.tag # "declare" /\ Parts(e) \subseteq D

\* Checking such an expression gives no variable that has a type another, whether it
\* passes, fails or goes astray.
LEMMA CheckSteady ==
  ASSUME NEW S, NEW T, NEW depth, Language(S, T, depth), ChecksIs(S), MeansIs(S), NEW X, AreTerms(X),
         AreLanguageTypes(T), NEW D \in SUBSET S, Undeclaring(D), NEW b
  PROVE  \A e \in D, s \in Stacks(T) : Steady(Checks(e, s, b).scopes, s)
<1> DEFINE G == {e \in S : e \in D => \A s \in Stacks(T) : Steady(Checks(e, s, b).scopes, s)}
<1>1. S = Forms(S, T) /\ (\A e \in S : depth[e] \in Nat) /\ \A e \in S : \A p \in Parts(e) : depth[p] < depth[e]
  BY DEF Language
<1>2. NoType \in T
  BY DEF AreLanguageTypes
<1>3. \A e \in S, s \in Stacks(T) : Keeping(Checks(e, s, b), e, s, S, T, X)
  BY CheckKeeps
<1>4. ASSUME NEW e \in D, \A p \in S : depth[p] < depth[e] => p \in G, NEW s \in Stacks(T)
      PROVE  Steady(Checks(e, s, b).scopes, s)
  <2> DEFINE r == Checks(e, s, b)
  <2>1. r = Check(e, s, b) /\ e \in S
    BY DEF ChecksIs
  <2>2. ASSUME NEW p \in Parts(e)
        PROVE  /\ p \in S
               /\ \A q \in Stacks(T) : /\ Steady(Checks(p, q, b).scopes, q)
                                       /\ Keeping(Checks(p, q, b), p, q, S, T, X)
                                       /\ Checks(p, q, b).scopes \in Stacks(T)
    <3>1. p \in D /\ p \in S /\ depth[p] < depth[e]
      BY <1>1, <2>1 DEF Undeclaring
    <3>2. p \in G
      BY <1>4, <3>1
    <3>3. \A q \in Stacks(T) : Keeping(Checks(p, q, b), p, q, S, T, X)
      BY <1>3, <3>1
    <3> QED  BY <3>1, <3>2, <3>3 DEF Keeping, Results
  <2>3. Steady(s, s)
    BY SteadyRefl
  <2>4. ASSUME NEW x, NEW q PROVE /\ Accepted(x, q).scopes = q /\ Failed(x, q).scopes = q
                                  /\ Undefined(x, q).scopes = q /\ Passed(x, q).scopes = q
    BY DEF Accepted, Failed, Undefined, Passed
  <2>5. ASSUME NEW E, NEW c \in Results(E, T), NEW x PROVE Unsuccessful(c, x).scopes = c.scopes
    BY DEF Unsuccessful, Results
  <2> HIDE DEF r
  <2>l. CASE e.tag \in Literals \cup {"symbol", "func", "unsupported"}
    <3>1. r.scopes = s
      BY <2>1, <2>4, <2>l DEF Check, Literals
    <3> QED  BY <2>3, <3>1 DEF r
  <2>a. CASE e.tag = "assign"
    <3> DEFINE c == Checks(e.value, s, b)
               known == c.scopes[Len(s)][e.name]
               type == IF known = NoType THEN c.sexpr.type ELSE known
    <3>1. e.value \in Parts(e) /\ e.name \in Names
      BY <1>1, <2>1, <2>a, FormOf DEF Parts, Literals
    <3>2. Steady(c.scopes, s) /\ Keeping(c, e.value, s, S, T, X) /\ c.scopes \in Stacks(T)
      BY <2>2, <3>1
    <3>3. r = CheckAssign(e, s, b)
      BY <2>1, <2>a DEF Check, Literals
    <3>4. \/ r = Unsuccessful(c, e)
          \/ r = Failed(e, c.scopes)
          \/ c.ok /\ r.scopes = Bind(c.scopes, e.name, type)
      BY <2>4, <3>3 DEF CheckAssign
    <3> HIDE DEF c
    <3>5. c \in Results(S, T) /\ c.sexpr \in S /\ (c.ok => Len(c.scopes) = Len(s))
      BY <3>2 DEF Keeping, Results
    <3>6. CASE r = Unsuccessful(c, e)
      BY <2>5, <3>2, <3>5, <3>6 DEF r
    <3>7. CASE r = Failed(e, c.scopes)
      BY <2>4, <3>2, <3>7 DEF r
    <3>8. CASE c.ok /\ r.scopes = Bind(c.scopes, e.name, type)
      <4>1. Len(c.scopes) = Len(s) /\ c.scopes \in Seq([Names -> T]) /\ Len(s) \in 1 .. Len(c.scopes)
        <5>1. Len(c.scopes) = Len(s)
          BY <3>5, <3>8
        <5>2. Len(s) \in 1 .. Len(s)
          BY StackLength
        <5>3. c.scopes \in Seq([Names -> T])
          BY <3>2, StackLength
        <5> QED  BY <5>1, <5>2, <5>3
      <4>2. c.scopes[Len(s)] \in [Names -> T]
        BY <4>1, ElementOfSeq
      <4>3. known \in T /\ c.sexpr.type \in T
        BY <1>1, <3>1, <3>5, <4>2, FormOf
      <4>4. type \in T /\ known \in {NoType, type}
        BY <4>3
      <4> HIDE DEF type
      <4>5. Steady(Bind(c.scopes, e.name, type), s)
        BY <3>1, <3>2, <4>1, <4>4, BoundSteady
      <4> QED  BY <3>8, <4>5 DEF r
    <3> QED  BY <3>4, <3>6, <3>7, <3>8
  <2>c. CASE e.tag = "local_scope"
    <3> DEFINE as == CheckEach(e.assigns, PushScope(s), b)
               v == Checks(e.value, as.scopes, b)
    <3>1. e.assigns \in Seq(S) /\ e.value \in S
      BY <1>1, <2>1, <2>c, FormOf DEF Literals
    <3>2. Len(e.assigns) \in Nat /\ DOMAIN e.assigns = 1 .. Len(e.assigns)
      BY <3>1, LenProperties
    <3>3. e.value \in Parts(e) /\ \A i \in 1 .. Len(e.assigns) : e.assigns[i] \in Parts(e)
      BY <2>c, <3>2 DEF Parts
    <3>4. EachKeeps(e.assigns, b, S, T, X)
      BY <2>2, <3>3 DEF EachKeeps
    <3>5. PushScope(s) \in Stacks(T) /\ Len(PushScope(s)) = Len(s) + 1
      BY <1>2, ScopePushed
    <3>6. AllKept(as, e.assigns, PushScope(s), S, T, X)
      BY <3>2, <3>4, <3>5, CheckEachKeeps
    <3>7. \A i \in 1 .. Len(e.assigns) : \A q \in Stacks(T) : Steady(Checks(e.assigns[i], q, b).scopes, q)
      BY <2>2, <3>3
    <3>8. Steady(as.scopes, PushScope(s))
      BY <3>2, <3>4, <3>5, <3>7, EachSteady
    <3>9. r = CheckLocalScope(e, s, b)
      BY <2>1, <2>c DEF Check, Literals
    <3>10. \/ r = Unsuccessful(as, e)
           \/ r = Unsuccessful(v, e)
           \/ as.ok /\ v.ok /\ r.scopes = PopScope(v.scopes)
      BY <2>4, <3>9 DEF CheckLocalScope
    <3> HIDE DEF as
    <3>11. as \in Results(Seq(S), T) /\ as.scopes \in Stacks(T) /\ (as.ok => Len(as.scopes) = Len(s) + 1)
      BY <3>5, <3>6 DEF AllKept, Results
    <3>12. Steady(as.scopes, s)
      BY <1>2, <3>8, <3>11, PushedSteady
    <3>13. Steady(v.scopes, as.scopes) /\ Keeping(v, e.value, as.scopes, S, T, X) /\ v.scopes \in Stacks(T)
      BY <2>2, <3>3, <3>11
    <3> HIDE DEF v
    <3>14. Steady(v.scopes, s) /\ v \in Results(S, T) /\ (v.ok => Len(v.scopes) = Len(as.scopes))
      BY <3>11, <3>12, <3>13, SteadyTwice DEF Keeping
    <3>15. CASE r = Unsuccessful(as, e)
      BY <2>5, <3>11, <3>12, <3>15 DEF r
    <3>16. CASE r = Unsuccessful(v, e)
      BY <2>5, <3>14, <3>16 DEF r
    <3>17. CASE as.ok /\ v.ok /\ r.scopes = PopScope(v.scopes)
      <4>1. Len(v.scopes) = Len(s) + 1
        BY <3>11, <3>14, <3>17
      <4>2. Steady(PopScope(v.scopes), s)
        BY <3>13, <3>14, <4>1, PoppedSteady
      <4> QED  BY <3>17, <4>2 DEF r
    <3> QED  BY <3>10, <3>15, <3>16, <3>17
  <2>i. CASE e.tag = "if"
    <3> DEFINE c == Checks(e.cond, s, b)
               bs == CheckEach(<<e.then, e.elsy>>, c.scopes, b)
    <3>1. e.cond \in Parts(e) /\ e.then \in Parts(e) /\ e.elsy \in Parts(e)
      BY <2>i DEF Parts
    <3>2. Steady(c.scopes, s) /\ Keeping(c, e.cond, s, S, T, X) /\ c.scopes \in Stacks(T)
      BY <2>2, <3>1
    <3>3. r = CheckIf(e, s, b)
      BY <2>1, <2>i DEF Check, Literals
    <3>4. \/ r = Unsuccessful(c, e) \/ r = Unsuccessful(bs, e)
          \/ r.scopes \in {c.scopes, bs.scopes}
      BY <2>4, <3>3 DEF CheckIf
    <3> HIDE DEF c
    <3>5. c \in Results(S, T)
      BY <3>2 DEF Keeping
    <3>6. /\ Steady(bs.scopes, c.scopes)
          /\ AllKept(bs, <<e.then, e.elsy>>, c.scopes, S, T, X) /\ bs.scopes \in Stacks(T)
      <4>1. \A q \in Stacks(T) :
               /\ Keeping(Checks(e.then, q, b), e.then, q, S, T, X) /\ Steady(Checks(e.then, q, b).scopes, q)
               /\ Keeping(Checks(e.elsy, q, b), e.elsy, q, S, T, X) /\ Steady(Checks(e.elsy, q, b).scopes, q)
        BY <2>2, <3>1
      <4>2. e.then \in S /\ e.elsy \in S
        BY <2>2, <3>1
      <4> QED  BY <3>2, <4>1, <4>2, PairSteady, PairKeeps
    <3> HIDE DEF bs
    <3>7. Steady(bs.scopes, s) /\ bs \in Results(Seq(S), T)
      BY <3>2, <3>6, SteadyTwice DEF AllKept
    <3>8. CASE r = Unsuccessful(c, e)
      BY <2>5, <3>2, <3>5, <3>8 DEF r
    <3>9. CASE r = Unsuccessful(bs, e)
      BY <2>5, <3>7, <3>9 DEF r
    <3>10. CASE r.scopes \in {c.scopes, bs.scopes}
      BY <3>2, <3>7, <3>10 DEF r
    <3> QED  BY <3>4, <3>8, <3>9, <3>10
  <2>x. CASE e.tag = "infix"
    <3> DEFINE bs == CheckEach(<<e.left, e.right>>, s, b)
    <3>1. e.left \in Parts(e) /\ e.right \in Parts(e)
      BY <2>x DEF Parts
    <3>2. Steady(bs.scopes, s) /\ AllKept(bs, <<e.left, e.right>>, s, S, T, X)
      <4>1. \A q \in Stacks(T) :
               /\ Keeping(Checks(e.left, q, b), e.left, q, S, T, X) /\ Steady(Checks(e.left, q, b).scopes, q)
               /\ Keeping(Checks(e.right, q, b), e.right, q, S, T, X) /\ Steady(Checks(e.right, q, b).scopes, q)
        BY <2>2, <3>1
      <4>2. e.left \in S /\ e.right \in S
        BY <2>2, <3>1
      <4> QED  BY <4>1, <4>2, PairSteady, PairKeeps
    <3>3. r = CheckInfix(e, s, b)
      BY <2>1, <2>x DEF Check, Literals
    <3>4. r = Unsuccessful(bs, e) \/ r.scopes = bs.scopes
      BY <2>4, <3>3 DEF CheckInfix
    <3> HIDE DEF bs
    <3>5. bs \in Results(Seq(S), T)
      BY <3>2 DEF AllKept
    <3> QED  BY <2>5, <3>2, <3>4, <3>5 DEF r
  <2>p. CASE e.tag = "prefix"
    <3> DEFINE c == Checks(e.operand, s, b)
    <3>1. e.operand \in Parts(e)
      BY <2>p DEF Parts
    <3>2. Steady(c.scopes, s) /\ Keeping(c, e.operand, s, S, T, X)
      BY <2>2, <3>1
    <3>3. r = CheckPrefix(e, s, b)
      BY <2>1, <2>p DEF Check, Literals
    <3>4. r = Unsuccessful(c, e) \/ r.scopes = c.scopes
      BY <2>4, <3>3 DEF CheckPrefix
    <3> HIDE DEF c
    <3>5. c \in Results(S, T)
      BY <3>2 DEF Keeping
    <3> QED  BY <2>5, <3>2, <3>4, <3>5 DEF r
  <2>6. e.tag # "declare"
    BY DEF Undeclaring
  <2> QED  BY <1>1, <2>1, <2>l, <2>a, <2>c, <2>i, <2>x, <2>p, <2>6, FormOf DEF r
<1>5. S \subseteq G
  <2>1. \A e \in S : (\A p \in S : depth[p] < depth[e] => p \in G) => e \in G
    BY <1>4
  <2> HIDE DEF G
  <2> QED  BY <2>1, ByDepth
<1> QED  BY <1>5

\* What of a chunk is not checked yet has no declaration.
UncheckedIn(D) == phase = "check" => \A i \in DOMAIN ir : i >= pos => ir[i] \in D

\* The sessions in which nothing is declared.
Undeclared(S, D) == SessionInv(S) /\ Places /\ BodyOK /\ UncheckedIn(D)

\* No variable that has a type gets another in a step.
FixedTypes == \A n \in Names : scopes[1][n] # NoType => scopes'[1][n] = scopes[1][n]

\* The steps of such a session.
LEMMA UndeclaredStep ==
  ASSUME NEW S, NEW depth, NEW X, CompilesWith(S, depth, X), NEW D \in SUBSET S, Undeclaring(D),
         \A chunk \in Chunks : chunk \in Seq(D) \/ \E i \in DOMAIN chunk : chunk[i].tag = "unsupported",
         Undeclared(S, D), Next
  PROVE  UncheckedIn(D)' /\ FixedTypes
<1>1. scopes = <<scopes[1]>> /\ scopes[1] \in RootScopes /\ ir \in Seq(S)
  BY DEF Undeclared, SessionInv
<1>2. ASSUME NEW t, Ends(t) PROVE UncheckedIn(D)' /\ FixedTypes
  BY <1>2 DEF Ends, process, Undeclared, UncheckedIn, FixedTypes
<1>3. ASSUME UNCHANGED scopes, phase' # "check" PROVE UncheckedIn(D)' /\ FixedTypes
  BY <1>3 DEF UncheckedIn, FixedTypes
<1>4. ASSUME NEW chunk \in Chunks, ReadChunk(chunk) PROVE UncheckedIn(D)' /\ FixedTypes
  <2>1. CASE \E i \in DOMAIN chunk : chunk[i].tag = "unsupported"
    BY <1>2, <1>4, <2>1 DEF ReadChunk
  <2>2. CASE ~\E i \in DOMAIN chunk : chunk[i].tag = "unsupported"
    <3>1. chunk \in Seq(D) /\ ir' = chunk /\ UNCHANGED scopes
      BY <1>4, <2>2 DEF ReadChunk
    <3>2. \A i \in DOMAIN chunk : chunk[i] \in D
      BY <3>1
    <3> QED  BY <3>1, <3>2 DEF UncheckedIn, FixedTypes
  <2> QED  BY <2>1, <2>2
<1>5. CASE CheckNext
  <2> DEFINE r == Checked(ir[pos], scopes)
             root == scopes[1]
  <2>1. phase = "check" /\ pos \in DOMAIN ir /\ DOMAIN ir = 1 .. Len(ir) /\ Len(ir) \in Nat
    BY <1>1, <1>5 DEF CheckNext, In
  <2>2. ir[pos] \in D
    BY <2>1 DEF Undeclared, UncheckedIn
  <2>3. /\ <<root>> \in Stacks(SessionTypes) /\ Len(<<root>>) = 1 /\ <<root>>[1] = root
    BY <1>1, OneScope DEF RootScopes, SessionTypes
  <2>4. Steady(r.scopes, <<root>>)
    <3>1. PICK b : b = TRUE
      OBVIOUS
    <3>2. \A e \in D, s \in Stacks(SessionTypes) : Steady(Checks(e, s, b).scopes, s)
      BY CheckSteady DEF CompilesWith
    <3>3. r = Checks(ir[pos], <<root>>, b)
      BY <1>1, <3>1 DEF Checked
    <3> QED  BY <2>2, <2>3, <3>2, <3>3
  <2>5. \A n \in Names : root[n] # NoType => r.scopes[1][n] = root[n]
    BY <2>3, <2>4 DEF Steady
  <2>6. \/ Ends("undefined")
        \/ /\ scopes' = r.scopes /\ ir' = [ir EXCEPT ![pos] = r.sexpr] /\ pos' = pos + 1
        \/ /\ scopes' = <<r.scopes[1]>> /\ phase' = "read"
    BY <1>5 DEF CheckNext, GoTo, RootOf
  <2> HIDE DEF r
  <2>7. CASE Ends("undefined")
    BY <1>2, <2>7
  <2>8. CASE scopes' = r.scopes /\ ir' = [ir EXCEPT ![pos] = r.sexpr] /\ pos' = pos + 1
    <3>1. ASSUME NEW i \in DOMAIN ir', i >= pos' PROVE ir'[i] \in D
      <4>1. i \in DOMAIN ir /\ i >= pos /\ i # pos
        BY <2>1, <2>8, <3>1
      <4> QED  BY <2>1, <2>8, <4>1 DEF Undeclared, UncheckedIn
    <3> QED  BY <2>5, <2>8, <3>1 DEF UncheckedIn, FixedTypes
  <2>9. CASE scopes' = <<r.scopes[1]>> /\ phase' = "read"
    BY <2>5, <2>9 DEF UncheckedIn, FixedTypes
  <2> QED  BY <2>6, <2>7, <2>8, <2>9
<1>6. CASE BeginModule
  BY <1>2, <1>3, <1>6 DEF BeginModule, GoTo
<1>7. CASE BuildNext
  <2>1. \/ Ends("undefined")
        \/ UNCHANGED scopes /\ phase' \in {"read", "build"}
    BY <1>7 DEF BuildNext, SaveValue, GoTo
  <2> QED  BY <1>2, <1>3, <2>1
<1>8. CASE FinishModule
  BY <1>2, <1>3, <1>8 DEF FinishModule, GoTo
<1>9. CASE MapGlobals
  BY <1>3, <1>9 DEF MapGlobals, GoTo
<1>10. CASE RunMain
  BY <1>2, <1>3, <1>10 DEF RunMain, GoTo
<1>11. CASE Quit
  BY <1>2, <1>11 DEF Quit
<1> QED  BY <1>4, <1>5, <1>6, <1>7, <1>8, <1>9, <1>10, <1>11 DEF Next

\* A variable keeps its type (design.curly:2) in every session, with the checker of
\* check.c, if no declaration is among what is typed or its parts: not by an assignment,
\* nor one in a local scope or a branch, nor by a chunk that is rejected half way.
THEOREM CurlyFixesTypes ==
  ASSUME NEW S, NEW depth, NEW X, CompilesWith(S, depth, X), NEW D \in SUBSET S, Undeclaring(D),
         \A chunk \in Chunks : chunk \in Seq(D) \/ \E i \in DOMAIN chunk : chunk[i].tag = "unsupported"
  PROVE  Spec => TypesFixed
<1>1. Contract(S)
  BY ContractKept
<1>2. Init => Undeclared(S, D)
  <2> SUFFICES ASSUME Init PROVE Undeclared(S, D)
    OBVIOUS
  <2>1. SessionInv(S) /\ Places /\ BodyOK
    BY InitTyped
  <2>2. phase = "read"
    BY DEF Init
  <2> QED  BY <2>1, <2>2 DEF Undeclared, UncheckedIn
<1>3. Undeclared(S, D) /\ [Next]_vars => Undeclared(S, D)' /\ [FixedTypes]_vars
  <2> SUFFICES ASSUME Undeclared(S, D), [Next]_vars PROVE Undeclared(S, D)' /\ [FixedTypes]_vars
    OBVIOUS
  <2>1. (SessionInv(S) /\ Places /\ BodyOK)'
    BY <1>1, TypedStep DEF Undeclared
  <2>2. CASE Next
    BY <2>1, <2>2, UndeclaredStep DEF Undeclared
  <2>3. CASE UNCHANGED vars
    BY <2>1, <2>3 DEF Undeclared, UncheckedIn, vars, process
  <2> QED  BY <2>2, <2>3
<1> QED  BY <1>2, <1>3, PTL DEF Spec, TypesFixed, FixedTypes
=============================================================================
