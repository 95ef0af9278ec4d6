---------------------------- MODULE CompileProofs ----------------------------
(***************************************************************************)
(* Proofs about Compile, for programs of any length, and expressions and   *)
(* types of any depth: from the trees of a text to S expressions, through  *)
(* the checker and the code generator to the memory main leaves.  A chunk  *)
(* is followed to the end of the check.                                    *)
(***************************************************************************)
EXTENDS Compile, CompilerProofs

-----------------------------------------------------------------------------
(* Types, and what is written of them.                                     *)

\* T has the types that generate_type makes of types of T, and their fields.
TypeLanguage(T, tdepth) ==
    /\ AreLanguageTypes(T) /\ Primitives \subseteq T
    /\ tdepth \in [T -> Nat]
    /\ \A t \in T : t.fields \in Seq(T) /\ \A i \in DOMAIN t.fields : tdepth[t.fields[i]] < tdepth[t]
    /\ \A t \in T, n \in Names : Product(<<t>>, <<n>>) \in T
    /\ \A t, u \in T : Function(t, u) \in T
    /\ \A ts \in Seq(T) :
          /\ ProductOf(ts) \in T
          /\ \A k \in Nat : UnionOf(ts, k) \in T
          /\ (\A i \in DOMAIN ts : ts[i].kind # "PRIMITIVE") => IntersectionOf(ts) \in T

\* K has the trees of expressions and statements, U those of types, of finite height.
Trees(K, U, height) ==
    /\ height \in [K -> Nat] /\ U \subseteq K
    /\ \A t \in K :
          /\ t.kids \in Seq(K) /\ \A i \in DOMAIN t.kids : height[t.kids[i]] < height[t]
          /\ Grammatical(t)
          /\ t.label = ":" => t.kids[2] \in U
    /\ \A u \in U : GrammaticalType(u) /\ (u.label # ":" => u.kids \in Seq(U))

\* What a constant stands for.
GeneratesIs(U) == \A u \in U : \A b, m : Generates(u, b, m) = GenerateType(u, b, m)
DescendsIs(U) == \A u \in U : \A label : Descends(u, label) = Spine(u, label)

\* Induction over trees.
LEMMA ByHeight ==
  ASSUME NEW K, NEW height \in [K -> Nat], NEW G,
         \A t \in K : (\A p \in K : height[p] < height[t] => p \in G) => t \in G
  PROVE  K \subseteq G
<1> DEFINE M == {k \in Nat : \A t \in K : height[t] < k => t \in G}
<1>1. \A t \in K : height[t] \in Nat
  OBVIOUS
<1>2. 0 \in M /\ M \subseteq Nat
  BY <1>1
<1>3. ASSUME NEW k \in M PROVE k + 1 \in M
  <2>1. k \in Nat /\ k + 1 \in Nat
    OBVIOUS
  <2>2. ASSUME NEW t \in K, height[t] < k + 1 PROVE t \in G
    <3>1. \A p \in K : height[p] < height[t] => height[p] < k
      BY <1>1, <2>1, <2>2
    <3> QED  BY <2>1, <3>1
  <2> QED  BY <2>1, <2>2
<1>4. M = Nat
  <2> HIDE DEF M
  <2> QED  BY <1>2, <1>3, AllNumbers
<1>5. \A t \in K : height[t] + 1 \in M /\ height[t] < height[t] + 1
  BY <1>1, <1>4
<1> QED  BY <1>5

\* The children of a tree.
LEMMA KidsAre ==
  ASSUME NEW K, NEW U, NEW height, Trees(K, U, height), NEW t \in K
  PROVE  /\ Len(t.kids) \in Nat /\ DOMAIN t.kids = 1 .. Len(t.kids) /\ t.kids \in Seq(K)
         /\ \A i \in 1 .. Len(t.kids) : t.kids[i] \in K /\ height[t.kids[i]] < height[t]
         /\ t.kids = <<>> <=> Len(t.kids) = 0
<1>1. t.kids \in Seq(K) /\ \A i \in DOMAIN t.kids : height[t.kids[i]] < height[t]
  BY DEF Trees
<1>2. Len(t.kids) \in Nat /\ DOMAIN t.kids = 1 .. Len(t.kids)
  BY <1>1, LenProperties
<1>3. \A i \in 1 .. Len(t.kids) : t.kids[i] \in K
  BY <1>1, ElementOfSeq
<1>4. t.kids = <<>> <=> Len(t.kids) = 0
  BY <1>1, EmptySeq
<1> QED  BY <1>1, <1>2, <1>3, <1>4

\* And those of the tree of a type.
LEMMA TypeKidsAre ==
  ASSUME NEW K, NEW U, NEW height, Trees(K, U, height), NEW u \in U
  PROVE  /\ u \in K
         /\ u.label = ":" => Len(u.kids) = 2 /\ u.kids[1].label \in Names /\ u.kids[2] \in U
         /\ u.label # ":" => u.kids \in Seq(U) /\ \A i \in 1 .. Len(u.kids) : u.kids[i] \in U
         /\ u.label \in {"*", "|", "&", "->"} => Len(u.kids) >= 2
<1>1. u \in K /\ Grammatical(u) /\ GrammaticalType(u) /\ (u.label # ":" => u.kids \in Seq(U))
      /\ (u.label = ":" => u.kids[2] \in U)
  BY DEF Trees
<1>2. u.label # ":" => \A i \in 1 .. Len(u.kids) : u.kids[i] \in U
  BY <1>1, ElementOfSeq
<1> QED  BY <1>1, <1>2 DEF Grammatical, GrammaticalType

GenerateTurn(ts, b, k, p) ==
    IF ~p.ok THEN p
    ELSE LET g == Generates(ts[k], b, p.made)
         IN  [ok |-> g.type # NoType, types |-> Append(p.types, g.type), made |-> g.made]

NoneGenerated(m) == [ok |-> TRUE, types |-> <<>>, made |-> m]

\* r are the results after each of ts.
GeneratedOneByOne(ts, b, m, r) ==
    /\ r[0] = NoneGenerated(m)
    /\ \A k \in 1 .. Len(ts) : r[k] = GenerateTurn(ts, b, k, r[k - 1])
    /\ GenerateEach(ts, b, m) = r[Len(ts)]

\* The types of trees are generated one after the other.
LEMMA GenerateEachIs ==
  ASSUME NEW ts, Len(ts) \in Nat, NEW b, NEW m
  PROVE  \E r : GeneratedOneByOne(ts, b, m, r)
<1> DEFINE n == Len(ts)
           start == NoneGenerated(m)
           Turn(k, p) == GenerateTurn(ts, b, k, p)
           IsRun(f) == f = [k \in 0 .. n |-> IF k = 0 THEN start ELSE Turn(k, f[k - 1])]
           Fits(top, f) == f[0] = start /\ \A k \in 1 .. top : f[k] = Turn(k, f[k - 1])
           M == {top \in 0 .. n : \E f : Fits(top, f)}
           run == CHOOSE f : IsRun(f)
<1>1. n \in Nat
  OBVIOUS
<1>2. GenerateEach(ts, b, m) = run[n]
  BY DEF GenerateEach, GenerateTurn, NoneGenerated
<1> HIDE DEF n, start, Turn
<1>3. 0 \in M
  <2> DEFINE f == [k \in 0 .. 0 |-> start]
  <2>1. f[0] = start /\ \A k \in 1 .. 0 : FALSE
    OBVIOUS
  <2> HIDE DEF f
  <2> QED  BY <1>1, <2>1
<1>4. ASSUME NEW top \in 1 .. n, top - 1 \in M PROVE top \in M
  <2>1. PICK f : Fits(top - 1, f)
    BY <1>4
  <2> DEFINE g == [k \in 0 .. top |-> IF k = top THEN Turn(top, f[top - 1]) ELSE f[k]]
  <2>2. /\ top - 1 \in 0 .. top /\ top # 0 /\ top - 1 # top /\ 0 \in 0 .. top /\ top \in 0 .. top /\ top \in 0 .. n
        /\ \A k \in 1 .. top : k = top \/ k \in 1 .. top - 1
        /\ \A k \in 1 .. top - 1 : k \in 0 .. top /\ k # top /\ k - 1 \in 0 .. top /\ k - 1 # top
    BY <1>1
  <2>3. g[0] = start /\ g[top] = Turn(top, g[top - 1])
    BY <2>1, <2>2
  <2>4. \A k \in 1 .. top - 1 : g[k] = f[k] /\ g[k - 1] = f[k - 1] /\ f[k] = Turn(k, f[k - 1])
    BY <2>1, <2>2
  <2> HIDE DEF g
  <2>5. Fits(top, g)
    BY <2>2, <2>3, <2>4
  <2> QED  BY <2>2, <2>5
<1>5. n \in M
  <2>1. 0 .. n \subseteq M
    <3> HIDE DEF M
    <3> QED  BY <1>1, <1>3, <1>4, NumbersUpTo
  <2>2. n \in 0 .. n
    BY <1>1
  <2> HIDE DEF M
  <2> QED  BY <2>1, <2>2
<1>6. PICK f : Fits(n, f)
  BY <1>5
<1>7. \A k \in 0 .. n : k = 0 \/ (k # 0 /\ k \in 1 .. n /\ k - 1 \in 0 .. n)
  BY <1>1
<1>8. \A k \in 1 .. n : k # 0 /\ k \in 0 .. n /\ k - 1 \in 0 .. n
  BY <1>1
<1>9. IsRun(run)
  <2> DEFINE h == [k \in 0 .. n |-> f[k]]
  <2>1. ASSUME NEW k \in 0 .. n PROVE h[k] = IF k = 0 THEN start ELSE Turn(k, h[k - 1])
    <3>1. k # 0 => h[k - 1] = f[k - 1]
      BY <1>7
    <3> QED  BY <1>6, <1>7, <3>1
  <2>2. IsRun(h)
    BY <2>1
  <2> HIDE DEF h, IsRun
  <2> QED  BY <2>2
<1> HIDE DEF run
<1>10. \A k \in 0 .. n : run[k] = IF k = 0 THEN start ELSE Turn(k, run[k - 1])
  BY <1>9
<1>11. run[0] = start /\ \A k \in 1 .. n : run[k] = Turn(k, run[k - 1])
  <2>1. 0 \in 0 .. n
    BY <1>1
  <2> HIDE DEF IsRun
  <2> QED  BY <1>8, <1>10, <2>1
<1> QED  BY <1>2, <1>11 DEF n, start, Turn, GeneratedOneByOne


Generations(T) == [type : T, made : Nat]

\* A type is generated of each of ts.
EachGenerates(ts, b, T) == \A i \in 1 .. Len(ts), m \in Nat : Generates(ts[i], b, m) \in Generations(T)

\* So the types of all of them are.
LEMMA GenerateEachTyped ==
  ASSUME NEW T, NEW ts, Len(ts) \in Nat, NEW b, EachGenerates(ts, b, T), NEW m \in Nat
  PROVE  LET r == GenerateEach(ts, b, m)
         IN  /\ r.ok \in BOOLEAN /\ r.types \in Seq(T) /\ r.made \in Nat
             /\ r.ok => Len(r.types) = Len(ts)
             /\ (\A i \in 1 .. Len(ts) : Generates(ts[i], b, m).made = m) => r.made = m
<1> DEFINE n == Len(ts)
           Unmade == \A i \in 1 .. n : Generates(ts[i], b, m).made = m
           Fits(q, k) == /\ q.ok \in BOOLEAN /\ q.types \in Seq(T) /\ q.made \in Nat
                         /\ q.ok => Len(q.types) = k
                         /\ Unmade => q.made = m
<1>0. PICK r : GeneratedOneByOne(ts, b, m, r)
  BY GenerateEachIs
<1>1. /\ r[0] = NoneGenerated(m)
      /\ \A k \in 1 .. n : r[k] = GenerateTurn(ts, b, k, r[k - 1])
      /\ GenerateEach(ts, b, m) = r[n]
  BY <1>0 DEF GeneratedOneByOne
<1>n. n \in Nat
  OBVIOUS
<1> DEFINE M == {k \in 0 .. n : Fits(r[k], k)}
<1>2. 0 \in M
  <2>1. r[0].ok = TRUE /\ r[0].types = <<>> /\ r[0].made = m
    BY <1>1 DEF NoneGenerated
  <2> HIDE DEF n, Unmade
  <2>2. 0 \in 0 .. n /\ <<>> \in Seq(T) /\ Len(<<>>) = 0
    BY <1>n
  <2> QED  BY <2>1, <2>2
<1>3. ASSUME NEW k \in 1 .. n, k - 1 \in M PROVE k \in M
  <2> DEFINE q == r[k - 1]
             p == r[k]
             g == Generates(ts[k], b, q.made)
             longer == Append(q.types, g.type)
  <2>1. k \in Nat /\ k \in 0 .. n /\ (k - 1) + 1 = k
    BY <1>n
  <2>2. Fits(q, k - 1) /\ p = GenerateTurn(ts, b, k, q)
    BY <1>1, <1>3
  <2> HIDE DEF p, q, Unmade
  <2>3. CASE ~q.ok
    <3>1. p = q
      BY <2>2, <2>3 DEF GenerateTurn
    <3> QED  BY <2>1, <2>2, <2>3, <3>1 DEF p
  <2>4. CASE q.ok
    <3>1. p = [ok |-> g.type # NoType, types |-> longer, made |-> g.made]
      BY <2>2, <2>4 DEF GenerateTurn
    <3>2. g \in Generations(T)
      BY <2>2 DEF EachGenerates
    <3>3. Unmade => g.made = m
      BY <2>2 DEF Unmade
    <3> HIDE DEF g
    <3>4. g.type \in T /\ g.made \in Nat
      BY <3>2 DEF Generations
    <3>5. longer \in Seq(T) /\ Len(longer) = k
      BY <2>1, <2>2, <2>4, <3>4, AppendProperties
    <3> HIDE DEF longer
    <3>6. Fits(p, k)
      BY <3>1, <3>3, <3>4, <3>5
    <3> QED  BY <2>1, <3>6 DEF p
  <2> QED  BY <2>3, <2>4
<1>4. n \in M
  <2> HIDE DEF M
  <2>1. n \in 0 .. n
    BY <1>n
  <2> HIDE DEF n
  <2> QED  BY <1>n, <1>2, <1>3, <2>1, NumbersUpTo
<1>5. Fits(r[n], n)
  BY <1>4
<1> QED  BY <1>1, <1>5

\* The operands of a nested operator are types less high than it.
LEMMA SpineIs ==
  ASSUME NEW K, NEW U, NEW height, Trees(K, U, height), DescendsIs(U), NEW label \in {"*", "|", "&"}
  PROVE  \A u \in U : /\ Spine(u, label) \in Seq(U)
                      /\ \A i \in 1 .. Len(Spine(u, label)) :
                           /\ height[Spine(u, label)[i]] <= height[u]
                           /\ u.label = label => height[Spine(u, label)[i]] < height[u]
<1> DEFINE Fits(u, s) == /\ s \in Seq(U)
                         /\ \A i \in 1 .. Len(s) : /\ height[s[i]] <= height[u]
                                                   /\ u.label = label => height[s[i]] < height[u]
           G == {u \in K : u \in U => Fits(u, Spine(u, label))}
<1>0. height \in [K -> Nat] /\ U \subseteq K
  BY DEF Trees
<1>1. ASSUME NEW u \in K, \A p \in K : height[p] < height[u] => p \in G, u \in U
      PROVE  Fits(u, Spine(u, label))
  <2>1. CASE u.label # label
    <3> DEFINE s == <<u>>
    <3>1. Spine(u, label) = s
      BY <2>1 DEF Spine
    <3>2. s \in Seq(U) /\ Len(s) = 1 /\ s[1] = u
      BY <1>1
    <3>3. \A i \in 1 .. 1 : i = 1
      OBVIOUS
    <3>4. height[u] \in Nat
      BY <1>0
    <3> HIDE DEF s
    <3>5. Fits(u, s)
      BY <2>1, <3>2, <3>3, <3>4
    <3> QED  BY <3>1, <3>5
  <2>2. CASE u.label = label
    <3> DEFINE x == u.kids[1]
               y == u.kids[2]
               rest == Spine(x, label)
               s == <<y>> \o rest
    <3>1. Len(u.kids) >= 2 /\ Len(u.kids) \in Nat
      BY <1>1, <2>2, TypeKidsAre, KidsAre
    <3>2. 1 \in 1 .. Len(u.kids) /\ 2 \in 1 .. Len(u.kids)
      BY <3>1
    <3>3. x \in U /\ y \in U
      BY <1>1, <2>2, <3>2, TypeKidsAre
    <3>4. height[x] < height[u] /\ height[y] < height[u] /\ x \in K /\ y \in K
      BY <3>2, KidsAre
    <3>5. Spine(u, label) = s
      <4>1. Descends(x, label) = rest
        BY <3>3 DEF DescendsIs
      <4>2. Spine(u, label) = <<y>> \o Descends(x, label)
        BY <2>2 DEF Spine
      <4> QED  BY <4>1, <4>2
    <3> HIDE DEF x, y
    <3>6. Fits(x, rest)
      BY <1>1, <3>3, <3>4
    <3> HIDE DEF rest
    <3>7. rest \in Seq(U) /\ Len(rest) \in Nat
      BY <3>6, LenProperties
    <3>8. s \in Seq(U) /\ Len(s) = 1 + Len(rest) /\ \A i \in 1 .. Len(s) : s[i] = IF i = 1 THEN y ELSE rest[i - 1]
      <4>1. <<y>> \in Seq(U) /\ Len(<<y>>) = 1 /\ <<y>>[1] = y
        BY <3>3
      <4> DEFINE z == <<y>>
      <4> HIDE DEF z
      <4>2. /\ z \o rest \in Seq(U) /\ Len(z \o rest) = Len(z) + Len(rest)
            /\ \A i \in 1 .. Len(z) + Len(rest) : (z \o rest)[i] = IF i <= Len(z) THEN z[i] ELSE rest[i - Len(z)]
        BY <3>7, <4>1, ConcatProperties DEF z
      <4>3. \A i \in 1 .. 1 + Len(rest) : i <= 1 <=> i = 1
        BY <3>7
      <4> QED  BY <4>1, <4>2, <4>3 DEF z
    <3> HIDE DEF s
    <3>9. ASSUME NEW i \in 1 .. Len(s) PROVE height[s[i]] < height[u] /\ height[s[i]] <= height[u]
      <4>1. height[u] \in Nat /\ height[x] \in Nat /\ height[y] \in Nat
        BY <1>0, <3>4
      <4>2. CASE i = 1
        BY <3>4, <3>8, <4>1, <4>2
      <4>3. CASE i # 1
        <5>1. i - 1 \in 1 .. Len(rest) /\ s[i] = rest[i - 1]
          BY <3>7, <3>8, <4>3
        <5>2. height[rest[i - 1]] <= height[x] /\ rest[i - 1] \in K
          BY <1>0, <3>6, <3>7, <5>1, ElementOfSeq
        <5>3. height[rest[i - 1]] \in Nat
          BY <1>0, <5>2
        <5> QED  BY <3>4, <4>1, <5>1, <5>2, <5>3
      <4> QED  BY <4>2, <4>3
    <3> QED  BY <3>5, <3>8, <3>9
  <2> QED  BY <2>1, <2>2
<1>2. K \subseteq G
  <2>1. \A t \in K : (\A p \in K : height[p] < height[t] => p \in G) => t \in G
    BY <1>1
  <2> HIDE DEF G
  <2> QED  BY <1>0, <2>1, ByHeight
<1> QED  BY <1>0, <1>2

\* Of the tree of a type a type is made; a name makes none.
TypesGenerated(T, U, b) ==
    \A u \in U, m \in Nat :
       /\ GenerateType(u, b, m) \in Generations(T)
       /\ u.kids = <<>> => GenerateType(u, b, m).made = m

\* So generate_type does.
LEMMA GenerateTyped ==
  ASSUME NEW T, NEW tdepth, TypeLanguage(T, tdepth), NEW K, NEW U, NEW height, Trees(K, U, height),
         GeneratesIs(U), DescendsIs(U), NEW b
  PROVE  TypesGenerated(T, U, b)
<1> DEFINE Fits(u, m) == /\ GenerateType(u, b, m) \in Generations(T)
                         /\ u.kids = <<>> => GenerateType(u, b, m).made = m
           G == {u \in K : u \in U => \A m \in Nat : Fits(u, m)}
<1>0. height \in [K -> Nat] /\ U \subseteq K
  BY DEF Trees
<1>t. /\ NoType \in T /\ Primitives \subseteq T
      /\ \A t \in T, n \in Names : Product(<<t>>, <<n>>) \in T
      /\ \A t, u \in T : Function(t, u) \in T
      /\ \A ts \in Seq(T) :
            /\ ProductOf(ts) \in T
            /\ \A k \in Nat : UnionOf(ts, k) \in T
            /\ (\A i \in DOMAIN ts : ts[i].kind # "PRIMITIVE") => IntersectionOf(ts) \in T
  BY DEF TypeLanguage, AreLanguageTypes
<1>g. \A t \in T, k \in Nat : Generated(t, k) \in Generations(T) /\ Generated(t, k).made = k
  BY DEF Generated, Generations
<1>1. ASSUME NEW u \in K, \A p \in K : height[p] < height[u] => p \in G, u \in U, NEW m \in Nat
      PROVE  Fits(u, m)
  <2> DEFINE g == GenerateType(u, b, m)
  <2>0. m + 1 \in Nat
    OBVIOUS
  <2>k. /\ Len(u.kids) \in Nat /\ DOMAIN u.kids = 1 .. Len(u.kids) /\ (u.kids = <<>> <=> Len(u.kids) = 0)
        /\ \A i \in 1 .. Len(u.kids) : u.kids[i] \in K /\ height[u.kids[i]] < height[u]
    BY KidsAre
  <2>i. ASSUME NEW p \in U, height[p] < height[u], NEW k \in Nat
        PROVE  Generates(p, b, k) \in Generations(T)
    <3>1. GenerateType(p, b, k) \in Generations(T)
      BY <1>0, <1>1, <2>i
    <3> QED  BY <3>1 DEF GeneratesIs
  <2>1. CASE u.label = ":"
    <3>1. Len(u.kids) = 2 /\ u.kids[1].label \in Names /\ u.kids[2] \in U
      BY <1>1, <2>1, TypeKidsAre
    <3>2. 2 \in 1 .. Len(u.kids)
      BY <3>1
    <3> DEFINE h == Generates(u.kids[2], b, m + 1)
    <3>3. h \in Generations(T)
      BY <2>0, <2>i, <2>k, <3>1, <3>2
    <3>4. g = Generated(Product(<<h.type>>, <<u.kids[1].label>>), h.made)
      BY <2>1 DEF GenerateType, GenerateField
    <3> HIDE DEF g, h
    <3>5. h.type \in T /\ h.made \in Nat
      BY <3>3 DEF Generations
    <3>6. Product(<<h.type>>, <<u.kids[1].label>>) \in T
      BY <1>t, <3>1, <3>5
    <3>7. g \in Generations(T)
      BY <1>g, <3>4, <3>5, <3>6
    <3> QED  BY <2>k, <3>1, <3>7 DEF g
  <2>2. CASE u.label \in {"*", "|", "&"}
    <3> DEFINE ts == Spine(u, u.label)
               r == GenerateEach(ts, b, m + 1)
               types == Reverse(r.types)
    <3>1. g = IF ~r.ok THEN Generated(NoType, r.made)
              ELSE CASE u.label = "*" -> Generated(ProductOf(types), r.made)
                     [] u.label = "|" -> Generated(UnionOf(types, m), r.made)
                     [] u.label = "&" ->
                           Generated(IF \E i \in DOMAIN types : types[i].kind = "PRIMITIVE" THEN NoType
                                     ELSE IntersectionOf(types), r.made)
      BY <2>2 DEF GenerateType, GenerateOperands
    <3>2. ts \in Seq(U) /\ \A i \in 1 .. Len(ts) : height[ts[i]] < height[u]
      BY <1>1, <2>2, SpineIs
    <3> HIDE DEF g, ts
    <3>3. EachGenerates(ts, b, T)
      <4>1. \A i \in 1 .. Len(ts) : ts[i] \in U /\ height[ts[i]] < height[u]
        BY <3>2, ElementOfSeq
      <4> QED  BY <2>i, <4>1 DEF EachGenerates
    <3>4. r.types \in Seq(T) /\ r.made \in Nat
      <4>1. Len(ts) \in Nat
        BY <3>2, LenProperties
      <4> HIDE DEF r
      <4> QED  BY <2>0, <3>3, <4>1, GenerateEachTyped DEF r
    <3> HIDE DEF r
    <3>5. types \in Seq(T)
      <4> DEFINE q == r.types
      <4>1. q \in Seq(T) /\ Len(q) \in Nat
        BY <3>4, LenProperties
      <4> HIDE DEF q
      <4>2. \A i \in 1 .. Len(q) : Len(q) - i + 1 \in 1 .. Len(q)
        BY <4>1
      <4>3. \A i \in 1 .. Len(q) : q[(Len(q) - i) + 1] \in T
        BY <4>1, <4>2, ElementOfSeq
      <4>4. Reverse(q) \in [1 .. Len(q) -> T]
        BY <4>3 DEF Reverse
      <4>5. Reverse(q) \in Seq(T)
        BY <4>1, <4>4, SeqDef
      <4> QED  BY <4>5 DEF q
    <3> HIDE DEF types
    <3>6. \/ g = Generated(NoType, r.made) \/ g = Generated(ProductOf(types), r.made)
          \/ g = Generated(UnionOf(types, m), r.made)
          \/ (\A i \in DOMAIN types : types[i].kind # "PRIMITIVE") /\ g = Generated(IntersectionOf(types), r.made)
      BY <2>2, <3>1
    <3>7. ProductOf(types) \in T /\ UnionOf(types, m) \in T
          /\ ((\A i \in DOMAIN types : types[i].kind # "PRIMITIVE") => IntersectionOf(types) \in T)
      BY <1>t, <3>5
    <3>8. g \in Generations(T)
      <4> DEFINE p == ProductOf(types)
                 q == UnionOf(types, m)
                 s == IntersectionOf(types)
      <4> HIDE DEF p, q, s
      <4> QED  BY <1>t, <1>g, <3>4, <3>6, <3>7 DEF p, q, s
    <3>9. u.kids # <<>>
      BY <1>1, <2>2, <2>k, TypeKidsAre
    <3> QED  BY <3>8, <3>9 DEF g
  <2>3. CASE u.label = "->"
    <3> DEFINE ts == SubSeq(u.kids, 1, 2)
               r == GenerateEach(ts, b, m + 1)
    <3>1. u.kids \in Seq(U) /\ Len(u.kids) >= 2
      BY <1>1, <2>3, TypeKidsAre
    <3>2. ts \in Seq(U) /\ Len(ts) = 2 /\ \A i \in 1 .. 2 : ts[i] = u.kids[i]
      <4> DEFINE q == u.kids
      <4>1. q \in Seq(U) /\ Len(q) >= 2 /\ Len(q) \in Nat
        BY <2>k, <3>1
      <4> HIDE DEF q
      <4>2. SubSeq(q, 1, 2) \in Seq(U) /\ Len(SubSeq(q, 1, 2)) = 2 /\ \A i \in 1 .. 2 : SubSeq(q, 1, 2)[i] = q[i]
        BY <4>1, SubSeqProperties
      <4> QED  BY <4>2 DEF q
    <3> HIDE DEF ts
    <3>3. \A i \in 1 .. Len(ts) : ts[i] \in U /\ height[ts[i]] < height[u]
      <4>1. \A i \in 1 .. 2 : i \in 1 .. Len(u.kids)
        BY <2>k, <3>1
      <4> QED  BY <2>k, <3>2, <4>1, ElementOfSeq
    <3>4. EachGenerates(ts, b, T)
      BY <2>i, <3>3 DEF EachGenerates
    <3>5. r.ok \in BOOLEAN /\ r.types \in Seq(T) /\ r.made \in Nat /\ (r.ok => Len(r.types) = 2)
      <4> HIDE DEF r
      <4> QED  BY <2>0, <3>2, <3>4, GenerateEachTyped DEF r
    <3>6. g = Generated(IF r.ok THEN Function(r.types[1], r.types[2]) ELSE NoType, r.made)
      BY <2>3 DEF GenerateType, GenerateFunction, ts
    <3> HIDE DEF g, r
    <3>7. r.ok => r.types[1] \in T /\ r.types[2] \in T
      <4>0. 1 \in 1 .. 2 /\ 2 \in 1 .. 2
        OBVIOUS
      <4>1. r.ok => 1 \in 1 .. Len(r.types) /\ 2 \in 1 .. Len(r.types)
        BY <3>5, <4>0
      <4> QED  BY <3>5, <4>1, ElementOfSeq
    <3>8. (IF r.ok THEN Function(r.types[1], r.types[2]) ELSE NoType) \in T
      BY <1>t, <3>7
    <3>9. g \in Generations(T)
      BY <1>g, <3>5, <3>6, <3>8
    <3> QED  BY <2>k, <3>1, <3>9 DEF g
  <2>4. CASE u.label \notin {":", "*", "|", "&", "->"}
    <3>1. g = Generated(NoType, m) \/ g = Generated(GenerateSymbol(u.label, b), m)
      BY <2>4 DEF GenerateType
    <3>2. GenerateSymbol(u.label, b) \in T
      BY <1>t DEF GenerateSymbol, TypeNames, Primitives, IntType, FloatType, BoolType, StringType, EnumType, Primitive, TypeOf
    <3> HIDE DEF g
    <3>3. g \in Generations(T) /\ g.made = m
      BY <1>t, <1>g, <3>1, <3>2
    <3> QED  BY <3>3 DEF g
  <2> QED  BY <2>1, <2>2, <2>3, <2>4
<1>2. K \subseteq G
  <2>1. \A t \in K : (\A p \in K : height[p] < height[t] => p \in G) => t \in G
    BY <1>1
  <2> HIDE DEF G
  <2> QED  BY <1>0, <2>1, ByHeight
<1> QED  BY <1>0, <1>2 DEF TypesGenerated
-----------------------------------------------------------------------------
(* What passes the check has a type.                                       *)

\* The builtin types are there.
Finds(b) == \A t : LookupType(b, t) = t

\* Checks keep meanings, as CheckKeeps has it.
EveryKept(S, T, X, b) == \A e \in S, s \in Stacks(T) : Keeping(Checks(e, s, b), e, s, S, T, X)

\* e has a type if it passes.
Typed(e, T, b) == \A s \in Stacks(T) : Checks(e, s, b).ok => Checks(e, s, b).sexpr.type # NoType

\* Builtin types are types.
LEMMA BuiltinTypes == \A t : Primitive(t) # NoType
BY DEF Primitive, NoType, TypeOf

\* What returns of a check say.
LEMMA Returned ==
  /\ \A e, s : Accepted(e, s).sexpr = e /\ Passed(e, s).sexpr = e /\ ~Failed(e, s).ok /\ ~Undefined(e, s).ok
  /\ \A e, s : Passed(e, s).ok => e.type # NoType
BY DEF Accepted, Passed, Failed, Undefined

\* What is passed on of a failure is one.
LEMMA FailurePassedOn ==
  ASSUME NEW E, NEW T, NEW r \in Results(E, T), ~r.ok, NEW e
  PROVE  ~Unsuccessful(r, e).ok
BY DEF Results, Unsuccessful

\* A literal has a type, and a symbol that is known.
LEMMA LeafTyped ==
  ASSUME NEW S, NEW T, NEW X, S = Forms(S, T), ChecksIs(S), NEW b, Finds(b), EveryKept(S, T, X, b),
         NEW e \in S, e.tag \in Literals \cup {"symbol"}
  PROVE  Typed(e, T, b)
<1> SUFFICES ASSUME NEW s \in Stacks(T), Checks(e, s, b).ok
             PROVE  Checks(e, s, b).sexpr.type # NoType
  BY DEF Typed
<1> DEFINE r == Checks(e, s, b)
<1>1. r = Check(e, s, b)
  BY DEF ChecksIs
<1>2. CASE e.tag \in Literals
  <2> DEFINE t == LookupType(b, Primitive(e.tag))
             d == Retyped(e, t)
  <2>0. t # NoType
    BY BuiltinTypes DEF Finds
  <2>1. r = Accepted(d, s)
    <3> HIDE DEF r
    <3> QED  BY <1>1, <1>2 DEF Check, Literals, Retyped
  <2> HIDE DEF t
  <2>2. e \in [tag : Literals, type : T, literal : Texts]
    BY <1>2, RecordOf
  <2>3. d.type = t
    BY <2>2 DEF Retyped
  <2> HIDE DEF d, r
  <2>4. r.sexpr = d
    BY <2>1, Returned
  <2> QED  BY <2>0, <2>3, <2>4 DEF r
<1>3. CASE e.tag = "symbol"
  <2> DEFINE d == Retyped(e, LookupVarType(s, e.name))
  <2>1. r = Passed(d, s)
    <3> HIDE DEF r
    <3> QED  BY <1>1, <1>3 DEF Check, Literals, Retyped
  <2> HIDE DEF d, r
  <2>2. r.sexpr = d /\ (r.ok => d.type # NoType)
    BY <2>1, Returned
  <2> QED  BY <2>2 DEF r
<1> QED  BY <1>2, <1>3

\* So has what an infix operator makes.
LEMMA InfixTyped ==
  ASSUME NEW S, NEW T, NEW X, S = Forms(S, T), ChecksIs(S), NEW b, Finds(b), EveryKept(S, T, X, b),
         NEW e \in S, e.tag = "infix"
  PROVE  Typed(e, T, b)
<1> SUFFICES ASSUME NEW s \in Stacks(T), Checks(e, s, b).ok
             PROVE  Checks(e, s, b).sexpr.type # NoType
  BY DEF Typed
<1> DEFINE r == Checks(e, s, b)
<1> DEFINE bs == CheckEach(<<e.left, e.right>>, s, b)
           x == bs.sexpr[1]
           y == bs.sexpr[2]
           bool == LookupType(b, BoolType)
           out == LookupInfix(b, e.op, x.type, y.type)
           m == InfixOf(e, x, y, bool)
           p == InfixOf(e, x, y, out)
<1>1. r = CheckInfix(e, s, b)
  BY DEF ChecksIs, Check, Literals
<1>2. \/ ~bs.ok /\ r = Unsuccessful(bs, e)
      \/ r = Accepted(m, bs.scopes)
      \/ r = Failed(e, bs.scopes)
      \/ r = Undefined(e, bs.scopes)
      \/ r = Passed(p, bs.scopes)
  <2> HIDE DEF r, bs
  <2> QED  BY <1>1 DEF CheckInfix, InfixOf, bs
<1>3. bool # NoType
  BY BuiltinTypes DEF Finds, BoolType
<1>4. m.type = bool
  <2>1. e \in [tag : {"infix"}, type : T, op : Operators, left : S, right : S]
    BY RecordOf
  <2> HIDE DEF bool, x, y
  <2> QED  BY <2>1 DEF InfixOf
<1>5. bs \in Results(Seq(S), T)
  <2>1. e.left \in S /\ e.right \in S
    BY FormOf DEF Literals
  <2> DEFINE u == e.left
             w == e.right
  <2>2. u \in S /\ w \in S /\ \A l \in Stacks(T) : Keeping(Checks(u, l, b), u, l, S, T, X) /\ Keeping(Checks(w, l, b), w, l, S, T, X)
    BY <2>1 DEF EveryKept
  <2> HIDE DEF u, w
  <2>3. AllKept(CheckEach(<<u, w>>, s, b), <<u, w>>, s, S, T, X)
    BY <2>2, PairKeeps
  <2> QED  BY <2>3 DEF AllKept, u, w
<1> HIDE DEF r, bs, bool, m, p
<1>6. ~bs.ok => ~Unsuccessful(bs, e).ok
  BY <1>5, FailurePassedOn
<1>7. r.ok
  BY DEF r
<1>8. r.sexpr.type # NoType
  BY <1>2, <1>3, <1>4, <1>6, <1>7, Returned
<1> QED  BY <1>8 DEF r

\* And what a prefix operator makes.
LEMMA PrefixTyped ==
  ASSUME NEW S, NEW T, NEW X, S = Forms(S, T), ChecksIs(S), NEW b, Finds(b), EveryKept(S, T, X, b),
         NEW e \in S, e.tag = "prefix"
  PROVE  Typed(e, T, b)
<1> SUFFICES ASSUME NEW s \in Stacks(T), Checks(e, s, b).ok
             PROVE  Checks(e, s, b).sexpr.type # NoType
  BY DEF Typed
<1> DEFINE r == Checks(e, s, b)
<1> DEFINE c == Checks(e.operand, s, b)
           x == c.sexpr
           out == LookupPrefix(b, x.type)
           curry == Curry(x.type.fields)
           m == PrefixOf(e, x, curry)
           p == PrefixOf(e, x, out)
<1>1. r = CheckPrefix(e, s, b)
  BY DEF ChecksIs, Check, Literals
<1>2. \/ ~c.ok /\ r = Unsuccessful(c, e)
      \/ r = Passed(p, c.scopes)
      \/ r = Undefined(e, c.scopes)
      \/ r = Failed(e, c.scopes)
      \/ r = Accepted(m, c.scopes)
  <2> HIDE DEF r
  <2> QED  BY <1>1 DEF CheckPrefix, PrefixOf
<1>3. curry # NoType
  BY DEF Curry, NoType, TypeOf
<1>4. m.type = curry
  <2>1. e \in [tag : {"prefix"}, type : T, op : {"neg", "span"}, operand : S]
    BY RecordOf
  <2> HIDE DEF curry, x
  <2> QED  BY <2>1 DEF PrefixOf
<1>5. c \in Results(S, T)
  <2>1. e.operand \in S
    BY FormOf DEF Literals
  <2>2. Keeping(c, e.operand, s, S, T, X)
    BY <2>1 DEF EveryKept
  <2> QED  BY <2>2 DEF Keeping
<1> HIDE DEF r, c, curry, m, p
<1>6. ~c.ok => ~Unsuccessful(c, e).ok
  BY <1>5, FailurePassedOn
<1>7. r.ok
  BY DEF r
<1>8. r.sexpr.type # NoType
  BY <1>2, <1>3, <1>4, <1>6, <1>7, Returned
<1> QED  BY <1>8 DEF r

\* Where the value of an assignment has a type, the assignment has, and it admits
\* that of the value.
LEMMA AssignTypedIs ==
  ASSUME NEW S, NEW T, NEW X, S = Forms(S, T), ChecksIs(S), NEW b, Finds(b), EveryKept(S, T, X, b),
         NEW e \in S, e.tag = "assign", Typed(e.value, T, b)
  PROVE  Typed(e, T, b)
<1> SUFFICES ASSUME NEW s \in Stacks(T), Checks(e, s, b).ok
             PROVE  Checks(e, s, b).sexpr.type # NoType
  BY DEF Typed
<1> DEFINE r == Checks(e, s, b)
<1> DEFINE c == Checks(e.value, s, b)
           known == c.scopes[Len(s)][e.name]
           type == IF known = NoType THEN c.sexpr.type ELSE known
           d == AssignOf(e, c.sexpr, type)
<1>1. r = CheckAssign(e, s, b)
  BY DEF ChecksIs, Check, Literals
<1>2. \/ ~c.ok /\ r = Unsuccessful(c, e)
      \/ r = Failed(e, c.scopes)
      \/ c.ok /\ r = Accepted(d, Bind(c.scopes, e.name, type))
  <2> HIDE DEF r
  <2> QED  BY <1>1 DEF CheckAssign, AssignOf
<1>3. c.ok => type # NoType
  BY DEF Typed
<1>4. d.type = type
  <2>1. e \in [tag : {"assign"}, type : T, annotation : T, name : Names, value : S]
    BY RecordOf
  <2> HIDE DEF c, type
  <2> QED  BY <2>1 DEF AssignOf
<1>5. c \in Results(S, T)
  <2>1. e.value \in S
    BY FormOf DEF Literals
  <2>2. Keeping(c, e.value, s, S, T, X)
    BY <2>1 DEF EveryKept
  <2> QED  BY <2>2 DEF Keeping
<1> HIDE DEF r, c, type, d
<1>6. ~c.ok => ~Unsuccessful(c, e).ok
  BY <1>5, FailurePassedOn
<1>7. r.ok
  BY DEF r
<1>8. r.sexpr.type # NoType
  BY <1>2, <1>3, <1>4, <1>6, <1>7, Returned
<1> QED  BY <1>8 DEF r

\* A reference to a function has none.
LEMMA FuncFails ==
  ASSUME NEW S, ChecksIs(S), NEW e \in S, e.tag = "func", NEW T, NEW b
  PROVE  Typed(e, T, b)
<1>1. ASSUME NEW s PROVE Checks(e, s, b) = Failed(e, s)
  BY DEF ChecksIs, Check, Literals
<1> QED  BY <1>1, Returned DEF Typed

\* Where the value of a local scope has a type, the scope has.
LEMMA ScopeTyped ==
  ASSUME NEW S, NEW T, NEW X, S = Forms(S, T), ChecksIs(S), NEW b, Finds(b), EveryKept(S, T, X, b),
         NoType \in T, NEW e \in S, e.tag = "local_scope", Typed(e.value, T, b)
  PROVE  Typed(e, T, b)
<1> SUFFICES ASSUME NEW s \in Stacks(T), Checks(e, s, b).ok
             PROVE  Checks(e, s, b).sexpr.type # NoType
  BY DEF Typed
<1> DEFINE r == Checks(e, s, b)
<1> DEFINE as == CheckEach(e.assigns, PushScope(s), b)
           v == Checks(e.value, as.scopes, b)
           t == v.sexpr.type
           d == ScopeOf(e, as.sexpr, v.sexpr, t)
<1>1. r = CheckLocalScope(e, s, b)
  BY DEF ChecksIs, Check, Literals
<1>2. \/ ~as.ok /\ r = Unsuccessful(as, e)
      \/ ~v.ok /\ r = Unsuccessful(v, e)
      \/ v.ok /\ r = Accepted(d, PopScope(v.scopes))
  <2> HIDE DEF r
  <2> QED  BY <1>1 DEF CheckLocalScope, ScopeOf
<1>e. e.assigns \in Seq(S) /\ e.value \in S
  BY FormOf DEF Literals
<1>3. as \in Results(Seq(S), T) /\ as.scopes \in Stacks(T)
  <2>1. Len(e.assigns) \in Nat /\ \A i \in 1 .. Len(e.assigns) : e.assigns[i] \in S
    BY <1>e, LenProperties, ElementOfSeq
  <2>2. EachKeeps(e.assigns, b, S, T, X)
    BY <2>1 DEF EachKeeps, EveryKept
  <2>3. PushScope(s) \in Stacks(T)
    BY ScopePushed
  <2>4. AllKept(as, e.assigns, PushScope(s), S, T, X)
    <3> DEFINE q == PushScope(s)
    <3> HIDE DEF q
    <3>1. AllKept(CheckEach(e.assigns, q, b), e.assigns, q, S, T, X)
      BY <2>1, <2>2, <2>3, CheckEachKeeps DEF q
    <3> QED  BY <3>1 DEF q
  <2> HIDE DEF as
  <2> QED  BY <2>4 DEF AllKept, Results
<1> HIDE DEF as
<1>4. v \in Results(S, T)
  BY <1>e, <1>3 DEF EveryKept, Keeping
<1>5. v.ok => t # NoType
  BY <1>3 DEF Typed
<1>6. d.type = t
  <2>1. e \in [tag : {"local_scope"}, type : T, assigns : Seq(S), value : S]
    BY RecordOf
  <2> HIDE DEF v, t
  <2> QED  BY <2>1 DEF ScopeOf
<1> HIDE DEF r, v, t, d
<1>7. (~as.ok => ~Unsuccessful(as, e).ok) /\ (~v.ok => ~Unsuccessful(v, e).ok)
  BY <1>3, <1>4, FailurePassedOn
<1>8. r.ok
  BY DEF r
<1>9. r.sexpr.type # NoType
  <2>1. v.ok /\ r = Accepted(d, PopScope(v.scopes))
    BY <1>2, <1>7, <1>8
  <2>2. r.sexpr = d
    BY <2>1, Returned
  <2> QED  BY <1>5, <1>6, <2>1, <2>2
<1> QED  BY <1>9 DEF r

\* Where the first of two S expressions has a type, the first of the results has.
LEMMA FirstTyped ==
  ASSUME NEW S, NEW T, NEW X, NEW b, EveryKept(S, T, X, b),
         NEW u \in S, NEW w \in S, Typed(u, T, b), NEW s \in Stacks(T)
  PROVE  LET r == CheckEach(<<u, w>>, s, b) IN r \in Results(Seq(S), T) /\ (r.ok => r.sexpr[1].type # NoType)
<1> DEFINE pair == <<u, w>>
           r == CheckEach(pair, s, b)
           x == Checks(u, s, b)
<1>1. pair \in Seq(S) /\ Len(pair) = 2 /\ pair[1] = u /\ pair[2] = w /\ 1 .. Len(pair) = {1, 2}
  BY PairIs
<1> HIDE DEF pair
<1>2. EachKeeps(pair, b, S, T, X)
  BY <1>1 DEF EachKeeps, EveryKept
<1>3. PICK q : CheckedOneByOne(pair, s, b, S, T, q)
  BY <1>1, <1>2, CheckEachIs
<1>n. 0 \in 0 .. 2 /\ 1 \in 0 .. 2 /\ 2 \in 0 .. 2 /\ 1 \in 1 .. 2 /\ 2 \in 1 .. 2 /\ 1 - 1 = 0 /\ 2 - 1 = 1
  OBVIOUS
<1>4. /\ q[0] = Accepted(<<>>, s) /\ r = q[2]
      /\ q[1] = CheckTurn(pair, b, 1, q[0]) /\ q[2] = CheckTurn(pair, b, 2, q[1])
  BY <1>1, <1>3, <1>n DEF CheckedOneByOne
<1>5. q[0] \in Results(Seq(S), T) /\ q[1] \in Results(Seq(S), T) /\ q[2] \in Results(Seq(S), T)
  BY <1>1, <1>3, <1>n DEF CheckedOneByOne
<1>6. 1 \in 1 .. Len(pair) /\ 2 \in 1 .. Len(pair)
  BY <1>1
<1>7. q[0].ok /\ q[0].scopes = s /\ q[0].sexpr = <<>>
  BY <1>4 DEF Accepted
<1> HIDE DEF r
<1>8. q[1].ok = x.ok /\ q[1].sexpr = Append(<<>>, x.sexpr) /\ Keeping(x, u, s, S, T, X)
  BY <1>1, <1>2, <1>4, <1>5, <1>6, <1>7, CheckTurnIs
<1> HIDE DEF x
<1> DEFINE q1 == q[1]
           q2 == q[2]
           y == Checks(w, q1.scopes, b)
<1>9. /\ ~q1.ok => q2 = q1
      /\ q1.ok => q2.sexpr = Append(q1.sexpr, y.sexpr)
  <2>1. q1 \in Results(Seq(S), T) /\ q2 = CheckTurn(pair, b, 2, q1) /\ pair[2] = w
    BY <1>1, <1>4, <1>5
  <2> HIDE DEF q1, q2
  <2>2. /\ ~q1.ok => CheckTurn(pair, b, 2, q1) = q1
        /\ q1.ok => CheckTurn(pair, b, 2, q1).sexpr = Append(q1.sexpr, Checks(pair[2], q1.scopes, b).sexpr)
    BY <1>2, <1>6, <2>1, CheckTurnIs
  <2> QED  BY <2>1, <2>2
<1> HIDE DEF y
<1>10. ASSUME r.ok PROVE r.sexpr[1].type # NoType
  <2>1. q[1].ok
    BY <1>4, <1>9, <1>10
  <2>2. r.sexpr = Append(q[1].sexpr, y.sexpr) /\ q[1].sexpr = <<x.sexpr>>
    BY <1>4, <1>8, <1>9, <2>1
  <2>3. r.sexpr[1] = x.sexpr
    <3> DEFINE g == x.sexpr
               h == y.sexpr
    <3> HIDE DEF g, h
    <3>1. Append(<<g>>, h)[1] = g
      OBVIOUS
    <3> QED  BY <2>2, <3>1 DEF g, h
  <2>4. x.ok
    BY <1>8, <2>1
  <2>5. x.sexpr.type # NoType
    BY <2>4 DEF Typed, x
  <2> QED  BY <2>3, <2>5
<1>11. r \in Results(Seq(S), T)
  BY <1>4, <1>5
<1> QED  BY <1>10, <1>11 DEF r, pair

\* Where the first branch of an if has a type, the if has.
LEMMA IfTyped ==
  ASSUME NEW S, NEW T, NEW X, S = Forms(S, T), ChecksIs(S), NEW b, Finds(b), EveryKept(S, T, X, b),
         NEW e \in S, e.tag = "if", Typed(e.then, T, b)
  PROVE  Typed(e, T, b)
<1> SUFFICES ASSUME NEW s \in Stacks(T), Checks(e, s, b).ok
             PROVE  Checks(e, s, b).sexpr.type # NoType
  BY DEF Typed
<1> DEFINE r == Checks(e, s, b)
<1> DEFINE c == Checks(e.cond, s, b)
           bs == CheckEach(<<e.then, e.elsy>>, c.scopes, b)
           t == bs.sexpr[1].type
           d == IfOf(e, c.sexpr, bs.sexpr[1], bs.sexpr[2], t)
<1>1. r = CheckIf(e, s, b)
  BY DEF ChecksIs, Check, Literals
<1>2. \/ ~c.ok /\ r = Unsuccessful(c, e)
      \/ r = Failed(e, c.scopes)
      \/ ~bs.ok /\ r = Unsuccessful(bs, e)
      \/ r = Failed(e, bs.scopes)
      \/ bs.ok /\ r = Accepted(d, bs.scopes)
  <2> HIDE DEF r
  <2> QED  BY <1>1 DEF CheckIf, IfOf
<1>3. e.cond \in S /\ e.then \in S /\ e.elsy \in S
  BY FormOf DEF Literals
<1>4. c \in Results(S, T) /\ c.scopes \in Stacks(T)
  <2>1. Keeping(c, e.cond, s, S, T, X)
    BY <1>3 DEF EveryKept
  <2> HIDE DEF c
  <2> QED  BY <2>1 DEF Keeping, Results
<1> HIDE DEF c
<1>5. bs \in Results(Seq(S), T) /\ (bs.ok => t # NoType)
  <2> DEFINE u == e.then
             w == e.elsy
             l == c.scopes
  <2>1. u \in S /\ w \in S /\ l \in Stacks(T) /\ Typed(u, T, b)
    BY <1>3, <1>4
  <2> HIDE DEF u, w, l
  <2>2. /\ CheckEach(<<u, w>>, l, b) \in Results(Seq(S), T)
        /\ CheckEach(<<u, w>>, l, b).ok => CheckEach(<<u, w>>, l, b).sexpr[1].type # NoType
    BY <2>1, FirstTyped
  <2> QED  BY <2>2 DEF u, w, l
<1>6. d.type = t
  <2>1. e \in [tag : {"if"}, type : T, cond : S, then : S, elsy : S]
    BY RecordOf
  <2> HIDE DEF bs, t
  <2> QED  BY <2>1 DEF IfOf
<1> HIDE DEF r, bs, t, d
<1>7. (~c.ok => ~Unsuccessful(c, e).ok) /\ (~bs.ok => ~Unsuccessful(bs, e).ok)
  BY <1>4, <1>5, FailurePassedOn
<1>8. r.ok
  BY DEF r
<1>9. r.sexpr.type # NoType
  BY <1>2, <1>5, <1>6, <1>7, <1>8, Returned
<1> QED  BY <1>9 DEF r
-----------------------------------------------------------------------------
(* From trees to S expressions.                                            *)

ConvertsIs(K) == \A t \in K : \A b, m : Converts(t, b, m) = Convert(t, b, m)
TreeMeansIs(K) == \A t \in K : \A env : TreeMeans(t, env) = TreeMeaning(t, env)
WithinIs(K) == \A t \in K : Within(t) = Subtrees(t)

\* The sets of the language, and what the constants stand for on them.
Compiler(S, T, depth, tdepth, X, K, U, height) ==
    /\ Language(S, T, depth) /\ TypeLanguage(T, tdepth) /\ AreTerms(X) /\ Trees(K, U, height)
    /\ ChecksIs(S) /\ MeansIs(S) /\ BuildsIs(S) /\ ComputesIs(X)
    /\ ConvertsIs(K) /\ GeneratesIs(U) /\ DescendsIs(U) /\ TreeMeansIs(K) /\ WithinIs(K)

\* e is what t is to be converted to, wherever the names of X mean something.
Understood(e, t, X) ==
    /\ e.tag = "declare" <=> t.label = ":"
    /\ e.tag = "assign" <=> t.label = "="
    /\ e.tag = "assign" => e.name = NameOf(t.kids[1])
    /\ \A env \in Seq([Names -> Spoken(X)]) :
          /\ Means(e, env) = TreeMeans(t, env)
          /\ e.tag = "assign" => Means(e.value, env) = AssignedMeaning(t, env)

Typable(t) == t.label # ":" /\ ~DeclaresInBranch(t)
WillBeTyped(e, T) == \A b : Finds(b) => Typed(e, T, b)

Conversions(S) == [ok : BOOLEAN, sexpr : S, made : Nat]

\* c is a conversion of t after m types were made.
Translates(c, t, m, S, T, X) ==
    /\ c \in Conversions(S)
    /\ c.ok => /\ Understood(c.sexpr, t, X)
               /\ Typable(t) => WillBeTyped(c.sexpr, T)
               /\ MakesType(t) \/ c.made = m

EachTranslates(ts, b, S, T, X) ==
    \A i \in 1 .. Len(ts), m \in Nat : Translates(Converts(ts[i], b, m), ts[i], m, S, T, X)

ConvertTurn(ts, b, k, p) ==
    LET c == Converts(ts[k], b, p.made)
    IN  [ok |-> p.ok /\ c.ok, sexprs |-> Append(p.sexprs, c.sexpr), made |-> c.made]

NoneConverted(m) == [ok |-> TRUE, sexprs |-> <<>>, made |-> m]

\* r are the results after each of ts.
ConvertedOneByOne(ts, b, m, r) ==
    /\ r[0] = NoneConverted(m)
    /\ \A k \in 1 .. Len(ts) : r[k] = ConvertTurn(ts, b, k, r[k - 1])
    /\ ConvertEach(ts, b, m) = r[Len(ts)]

\* Trees are converted one after the other.
LEMMA ConvertEachIs ==
  ASSUME NEW ts, Len(ts) \in Nat, NEW b, NEW m
  PROVE  \E r : ConvertedOneByOne(ts, b, m, r)
<1> DEFINE n == Len(ts)
           start == NoneConverted(m)
           Turn(k, p) == ConvertTurn(ts, b, k, p)
           IsRun(f) == f = [k \in 0 .. n |-> IF k = 0 THEN start ELSE Turn(k, f[k - 1])]
           Fits(top, f) == f[0] = start /\ \A k \in 1 .. top : f[k] = Turn(k, f[k - 1])
           M == {top \in 0 .. n : \E f : Fits(top, f)}
           run == CHOOSE f : IsRun(f)
<1>1. n \in Nat
  OBVIOUS
<1>2. ConvertEach(ts, b, m) = run[n]
  BY DEF ConvertEach, ConvertTurn, NoneConverted
<1> HIDE DEF n, start, Turn
<1>3. 0 \in M
  <2> DEFINE f == [k \in 0 .. 0 |-> start]
  <2>1. f[0] = start /\ \A k \in 1 .. 0 : FALSE
    OBVIOUS
  <2> HIDE DEF f
  <2> QED  BY <1>1, <2>1
<1>4. ASSUME NEW top \in 1 .. n, top - 1 \in M PROVE top \in M
  <2>1. PICK f : Fits(top - 1, f)
    BY <1>4
  <2> DEFINE g == [k \in 0 .. top |-> IF k = top THEN Turn(top, f[top - 1]) ELSE f[k]]
  <2>2. /\ top - 1 \in 0 .. top /\ top # 0 /\ top - 1 # top /\ 0 \in 0 .. top /\ top \in 0 .. top /\ top \in 0 .. n
        /\ \A k \in 1 .. top : k = top \/ k \in 1 .. top - 1
        /\ \A k \in 1 .. top - 1 : k \in 0 .. top /\ k # top /\ k - 1 \in 0 .. top /\ k - 1 # top
    BY <1>1
  <2>3. g[0] = start /\ g[top] = Turn(top, g[top - 1])
    BY <2>1, <2>2
  <2>4. \A k \in 1 .. top - 1 : g[k] = f[k] /\ g[k - 1] = f[k - 1] /\ f[k] = Turn(k, f[k - 1])
    BY <2>1, <2>2
  <2> HIDE DEF g
  <2>5. Fits(top, g)
    BY <2>2, <2>3, <2>4
  <2> QED  BY <2>2, <2>5
<1>5. n \in M
  <2>1. 0 .. n \subseteq M
    <3> HIDE DEF M
    <3> QED  BY <1>1, <1>3, <1>4, NumbersUpTo
  <2>2. n \in 0 .. n
    BY <1>1
  <2> HIDE DEF M
  <2> QED  BY <2>1, <2>2
<1>6. PICK f : Fits(n, f)
  BY <1>5
<1>7. \A k \in 0 .. n : k = 0 \/ (k # 0 /\ k \in 1 .. n /\ k - 1 \in 0 .. n)
  BY <1>1
<1>8. \A k \in 1 .. n : k # 0 /\ k \in 0 .. n /\ k - 1 \in 0 .. n
  BY <1>1
<1>9. IsRun(run)
  <2> DEFINE h == [k \in 0 .. n |-> f[k]]
  <2>1. ASSUME NEW k \in 0 .. n PROVE h[k] = IF k = 0 THEN start ELSE Turn(k, h[k - 1])
    <3>1. k # 0 => h[k - 1] = f[k - 1]
      BY <1>7
    <3> QED  BY <1>6, <1>7, <3>1
  <2>2. IsRun(h)
    BY <2>1
  <2> HIDE DEF h, IsRun
  <2> QED  BY <2>2
<1> HIDE DEF run
<1>10. \A k \in 0 .. n : run[k] = IF k = 0 THEN start ELSE Turn(k, run[k - 1])
  BY <1>9
<1>11. run[0] = start /\ \A k \in 1 .. n : run[k] = Turn(k, run[k - 1])
  <2>1. 0 \in 0 .. n
    BY <1>1
  <2> HIDE DEF IsRun
  <2> QED  BY <1>8, <1>10, <2>1
<1> QED  BY <1>2, <1>11 DEF n, start, Turn, ConvertedOneByOne

\* r are the S expressions of ts.
AllTranslated(r, ts, m, S, T, X) ==
    /\ r.ok \in BOOLEAN /\ r.sexprs \in Seq(S) /\ r.made \in Nat /\ Len(r.sexprs) = Len(ts)
    /\ r.ok => /\ \A i \in 1 .. Len(ts) : /\ Understood(r.sexprs[i], ts[i], X)
                                          /\ Typable(ts[i]) => WillBeTyped(r.sexprs[i], T)
               /\ (\E i \in 1 .. Len(ts) : MakesType(ts[i])) \/ r.made = m

\* If each tree is converted to what it stands for, all are.
LEMMA ConvertEachTranslates ==
  ASSUME NEW S, NEW T, NEW X, NEW ts, Len(ts) \in Nat, NEW b, EachTranslates(ts, b, S, T, X), NEW m \in Nat
  PROVE  AllTranslated(ConvertEach(ts, b, m), ts, m, S, T, X)
<1> DEFINE n == Len(ts)
           Made == \E i \in 1 .. n : MakesType(ts[i])
           Done(q, i) == Understood(q.sexprs[i], ts[i], X) /\ (Typable(ts[i]) => WillBeTyped(q.sexprs[i], T))
           Fits(q, k) == /\ q.ok \in BOOLEAN /\ q.sexprs \in Seq(S) /\ q.made \in Nat /\ Len(q.sexprs) = k
                         /\ q.ok => (\A i \in 1 .. k : Done(q, i)) /\ (Made \/ q.made = m)
<1>0. PICK r : ConvertedOneByOne(ts, b, m, r)
  BY ConvertEachIs
<1>1. /\ r[0] = NoneConverted(m)
      /\ \A k \in 1 .. n : r[k] = ConvertTurn(ts, b, k, r[k - 1])
      /\ ConvertEach(ts, b, m) = r[n]
  BY <1>0 DEF ConvertedOneByOne
<1>n. n \in Nat
  OBVIOUS
<1> DEFINE M == {k \in 0 .. n : Fits(r[k], k)}
<1>2. 0 \in M
  <2>1. r[0].ok = TRUE /\ r[0].sexprs = <<>> /\ r[0].made = m
    BY <1>1 DEF NoneConverted
  <2> HIDE DEF n, Made, Done
  <2>2. 0 \in 0 .. n /\ <<>> \in Seq(S) /\ Len(<<>>) = 0 /\ 1 .. 0 = {}
    BY <1>n
  <2> QED  BY <2>1, <2>2
<1>3. ASSUME NEW k \in 1 .. n, k - 1 \in M PROVE k \in M
  <2> DEFINE q == r[k - 1]
             p == r[k]
             c == Converts(ts[k], b, q.made)
             longer == Append(q.sexprs, c.sexpr)
  <2>1. k \in Nat /\ k \in 0 .. n /\ (k - 1) + 1 = k /\ k - 1 \in Nat
        /\ \A i \in 1 .. k : i = k \/ (i \in 1 .. k - 1 /\ i # k)
    BY <1>n
  <2>2. Fits(q, k - 1) /\ p = ConvertTurn(ts, b, k, q)
    BY <1>1, <1>3
  <2> HIDE DEF p, q, Made, Done
  <2>3. Translates(c, ts[k], q.made, S, T, X)
    BY <2>2 DEF EachTranslates
  <2>4. p = [ok |-> q.ok /\ c.ok, sexprs |-> longer, made |-> c.made]
    BY <2>2 DEF ConvertTurn
  <2> HIDE DEF c
  <2>5. c.ok \in BOOLEAN /\ c.sexpr \in S /\ c.made \in Nat
    BY <2>3 DEF Translates, Conversions
  <2>6. c.ok => Understood(c.sexpr, ts[k], X) /\ (Typable(ts[k]) => WillBeTyped(c.sexpr, T))
                /\ (MakesType(ts[k]) \/ c.made = q.made)
    BY <2>3 DEF Translates
  <2>7. longer \in Seq(S) /\ Len(longer) = k /\ longer[k] = c.sexpr /\ \A i \in 1 .. k - 1 : longer[i] = q.sexprs[i]
    BY <2>1, <2>2, <2>5, AppendProperties
  <2> HIDE DEF longer
  <2>8. p.ok = (q.ok /\ c.ok) /\ p.sexprs = longer /\ p.made = c.made
    BY <2>4
  <2>9. p.ok => q.ok /\ c.ok
    BY <2>8
  <2>10. p.ok \in BOOLEAN
    BY <2>8
  <2>11. ASSUME p.ok PROVE (\A i \in 1 .. k : Done(p, i)) /\ (Made \/ p.made = m)
    <3>1. ASSUME NEW i \in 1 .. k PROVE Done(p, i)
      <4>1. CASE i = k
        BY <2>6, <2>7, <2>8, <2>9, <2>11, <4>1 DEF Done
      <4>2. CASE i # k
        <5>1. i \in 1 .. k - 1 /\ p.sexprs[i] = q.sexprs[i]
          BY <2>1, <2>7, <2>8, <4>2
        <5>2. Done(q, i)
          BY <2>2, <2>9, <2>11, <5>1
        <5> QED  BY <5>1, <5>2 DEF Done
      <4> QED  BY <4>1, <4>2
    <3>2. Made \/ p.made = m
      <4>1. MakesType(ts[k]) => Made
        BY DEF Made
      <4> QED  BY <2>2, <2>6, <2>8, <2>9, <2>11, <4>1
    <3> QED  BY <3>1, <3>2
  <2>12. Fits(p, k)
    BY <2>5, <2>7, <2>8, <2>10, <2>11
  <2> QED  BY <2>1, <2>12 DEF p
<1>4. n \in M
  <2> HIDE DEF M
  <2>1. n \in 0 .. n
    BY <1>n
  <2> HIDE DEF n
  <2> QED  BY <1>n, <1>2, <1>3, <2>1, NumbersUpTo
<1>5. Fits(r[n], n)
  BY <1>4
<1> QED  BY <1>1, <1>5 DEF AllTranslated
-----------------------------------------------------------------------------
(* What each syntax is converted to.                                       *)

\* What convert_ast_node makes is an S expression.
LEMMA FormsMade ==
  ASSUME NEW S, NEW T, S = Forms(S, T), NoType \in T
  PROVE  /\ \A t \in Literals, l \in Texts : Literal(t, l) \in S
         /\ \A n \in Names : Symbol(n) \in S
         /\ \A o \in Operators, l \in S, r \in S : Infix(o, l, r) \in S
         /\ \A o \in {"neg", "span"}, x \in S : Prefix(o, x) \in S
         /\ \A as \in Seq(S), v \in S : With(as, v) \in S
         /\ \A c, x, y \in S : If(c, x, y) \in S
         /\ \A n \in Names, a \in T, v \in S : AssignTyped(n, a, v) \in S
         /\ \A n \in Names, a \in T : Declare(n, a) \in S
         /\ Func \in S /\ Unsupported \in S
<1>1. /\ [tag : Literals, type : T, literal : Texts] \subseteq S
      /\ [tag : {"symbol"}, type : T, name : Names] \subseteq S
      /\ [tag : {"infix"}, type : T, op : Operators, left : S, right : S] \subseteq S
      /\ [tag : {"prefix"}, type : T, op : {"neg", "span"}, operand : S] \subseteq S
      /\ [tag : {"local_scope"}, type : T, assigns : Seq(S), value : S] \subseteq S
      /\ [tag : {"if"}, type : T, cond : S, then : S, elsy : S] \subseteq S
      /\ [tag : {"assign"}, type : T, annotation : T, name : Names, value : S] \subseteq S
      /\ [tag : {"declare"}, type : T, name : Names] \subseteq S
      /\ [tag : {"func", "unsupported"}, type : T] \subseteq S
  BY DEF Forms
<1>2. \A t \in Literals, l \in Texts : Literal(t, l) \in S
  BY <1>1 DEF Literal
<1>3. \A n \in Names : Symbol(n) \in S
  BY <1>1 DEF Symbol
<1>4. \A o \in Operators, l \in S, r \in S : Infix(o, l, r) \in S
  BY <1>1 DEF Infix
<1>5. \A o \in {"neg", "span"}, x \in S : Prefix(o, x) \in S
  BY <1>1 DEF Prefix
<1>6. \A as \in Seq(S), v \in S : With(as, v) \in S
  BY <1>1 DEF With
<1>7. \A c, x, y \in S : If(c, x, y) \in S
  BY <1>1 DEF If
<1>8. \A n \in Names, a \in T, v \in S : AssignTyped(n, a, v) \in S
  BY <1>1 DEF AssignTyped
<1>9. \A n \in Names, a \in T : Declare(n, a) \in S
  BY <1>1 DEF Declare
<1>10. Func \in S /\ Unsupported \in S
  BY <1>1 DEF Func, Unsupported
<1> QED  BY <1>2, <1>3, <1>4, <1>5, <1>6, <1>7, <1>8, <1>9, <1>10

\* The words of the grammar are no names.
LEMMA WordsAre ==
  /\ \A n \in Names : n \notin {"=", ":", "with", "if"} /\ n \notin InfixLabels /\ n \notin DOMAIN LiteralType
  /\ \A w \in {"=", ":", "with", "if"} : w \notin InfixLabels /\ w \notin DOMAIN LiteralType /\ w \notin Names /\ w \notin {"*", "-"}
  /\ DOMAIN LiteralType = {"1", "0.5", "true"}
  /\ {"*", "-"} \subseteq InfixLabels /\ \A w \in InfixLabels : w \notin DOMAIN LiteralType /\ w \notin Names
  /\ \A w \in DOMAIN LiteralType : w \notin Names
<1>1. DOMAIN LiteralType = {"1", "0.5", "true"}
  BY DEF LiteralType
<1>2. \A w \in {"=", ":", "with", "if"} : w \notin InfixLabels /\ w \notin {"1", "0.5", "true"} /\ w \notin {"*", "-"}
  BY DEF InfixLabels
<1>3. {"*", "-"} \subseteq InfixLabels /\ \A w \in InfixLabels : w \notin {"1", "0.5", "true"}
  BY DEF InfixLabels
<1>4. \A n \in Names : n \notin DOMAIN LiteralType \cup InfixLabels \cup {"=", ":", "with", "if"}
  BY KeywordsAssumption DEF Keywords
<1> QED  BY <1>1, <1>2, <1>3, <1>4

\* A tree has what the trees in it have.
LEMMA Inside ==
  ASSUME NEW K, NEW U, NEW height, Trees(K, U, height), WithinIs(K), NEW t \in K
  PROVE  /\ \A i \in 1 .. Len(t.kids) : /\ DeclaresInBranch(t.kids[i]) => DeclaresInBranch(t)
                                        /\ MakesType(t.kids[i]) => MakesType(t)
         /\ t.label = "if" /\ t.kids[2].label = ":" => DeclaresInBranch(t)
         /\ t.label = ":" /\ t.kids[2].kids # <<>> => MakesType(t)
<1>1. t \in Subtrees(t)
  BY DEF Subtrees
<1>2. ASSUME NEW i \in 1 .. Len(t.kids) PROVE Subtrees(t.kids[i]) \subseteq Subtrees(t)
  <2>1. t.kids[i] \in K /\ i \in DOMAIN t.kids
    BY KidsAre
  <2>2. Within(t.kids[i]) = Subtrees(t.kids[i])
    BY <2>1 DEF WithinIs
  <2>3. Within(t.kids[i]) \subseteq UNION {Within(t.kids[j]) : j \in DOMAIN t.kids}
    BY <2>1
  <2> DEFINE all == UNION {Within(t.kids[j]) : j \in DOMAIN t.kids}
  <2>4. Subtrees(t) = {t} \cup all
    BY DEF Subtrees
  <2> HIDE DEF all
  <2>5. Within(t.kids[i]) \subseteq all
    BY <2>3 DEF all
  <2> QED  BY <2>2, <2>4, <2>5
<1>3. ASSUME NEW i \in 1 .. Len(t.kids)
      PROVE  (DeclaresInBranch(t.kids[i]) => DeclaresInBranch(t)) /\ (MakesType(t.kids[i]) => MakesType(t))
  BY <1>2 DEF DeclaresInBranch, MakesType
<1>4. t.label = "if" /\ t.kids[2].label = ":" => DeclaresInBranch(t)
  BY <1>1 DEF DeclaresInBranch
<1>5. t.label = ":" /\ t.kids[2].kids # <<>> => MakesType(t)
  BY <1>1 DEF MakesType
<1> QED  BY <1>3, <1>4, <1>5

\* What nothing was made of.
LEMMA NothingTranslates ==
  ASSUME NEW S, NEW T, NEW X, Unsupported \in S, NEW t, NEW m
  PROVE  Translates(NotConverted, t, m, S, T, X)
<1>1. NotConverted \in Conversions(S) /\ ~NotConverted.ok
  BY DEF NotConverted, Conversions
<1> QED  BY <1>1 DEF Translates

\* And what something was.
LEMMA SomethingTranslates ==
  ASSUME NEW S, NEW T, NEW X, NEW e \in S, NEW t, NEW m, NEW k \in Nat, Understood(e, t, X),
         Typable(t) => WillBeTyped(e, T), MakesType(t) \/ k = m
  PROVE  Translates(Converted(e, k), t, m, S, T, X)
<1>1. Converted(e, k) \in Conversions(S) /\ Converted(e, k).sexpr = e /\ Converted(e, k).made = k
  BY DEF Converted, Conversions
<1> QED  BY <1>1 DEF Translates

\* S expressions that are neither a declaration nor an assignment, of trees that are
\* not either.
LEMMA ValueUnderstood ==
  ASSUME NEW X, NEW e, NEW t, e.tag \notin {"declare", "assign"}, t.label \notin {":", "="},
         \A env \in Seq([Names -> Spoken(X)]) : Means(e, env) = TreeMeans(t, env)
  PROVE  Understood(e, t, X)
BY DEF Understood

\* What follows from the compiler being what it is.
LEMMA CompilerIs ==
  ASSUME NEW S, NEW T, NEW depth, NEW tdepth, NEW X, NEW K, NEW U, NEW height,
         Compiler(S, T, depth, tdepth, X, K, U, height)
  PROVE  /\ S = Forms(S, T) /\ NoType \in T
         /\ \A b : EveryKept(S, T, X, b)
         /\ \A e \in S, env \in Seq([Names -> Spoken(X)]) : Means(e, env) \in Spoken(X)
         /\ \A e \in S : \A env : Means(e, env) = Meaning(e, env)
         /\ \A t \in K : \A env : TreeMeans(t, env) = TreeMeaning(t, env)
<1>1. Language(S, T, depth) /\ ChecksIs(S) /\ MeansIs(S) /\ AreTerms(X) /\ AreLanguageTypes(T) /\ TreeMeansIs(K)
  BY DEF Compiler, TypeLanguage
<1>2. S = Forms(S, T) /\ NoType \in T
  BY <1>1 DEF Language, AreLanguageTypes
<1>3. ASSUME NEW b PROVE EveryKept(S, T, X, b)
  BY <1>1, CheckKeeps DEF EveryKept
<1>4. \A e \in S, env \in Seq([Names -> Spoken(X)]) : Means(e, env) \in Spoken(X)
  BY <1>1, MeansTyped
<1> QED  BY <1>1, <1>2, <1>3, <1>4 DEF MeansIs, TreeMeansIs

\* A literal.
LEMMA LiteralTranslates ==
  ASSUME NEW S, NEW T, NEW depth, NEW tdepth, NEW X, NEW K, NEW U, NEW height,
         Compiler(S, T, depth, tdepth, X, K, U, height),
         NEW b, NEW t \in K, NEW m \in Nat, t.kids = <<>>, t.label \in DOMAIN LiteralType
  PROVE  Translates(Convert(t, b, m), t, m, S, T, X)
<1>0. S = Forms(S, T) /\ NoType \in T /\ ChecksIs(S)
  BY CompilerIs DEF Compiler
<1>g. /\ (t.kids = <<>> /\ t.label \in DOMAIN LiteralType)
      /\ ~(t.kids = <<>> /\ t.label \in Names)
      /\ ~(Len(t.kids) = 2 /\ t.label \in InfixLabels)
      /\ ~(Len(t.kids) = 1 /\ t.label \in {"*", "-"})
      /\ t.label # "=" /\ t.label # ":" /\ t.label # "with" /\ t.label # "if"
  <2>1. Len(t.kids) = 0
    OBVIOUS
  <2> QED  BY <2>1, WordsAre
<1> DEFINE e == Literal(LiteralType[t.label], t.label)
<1>1. Convert(t, b, m) = Converted(e, m)
  BY <1>g DEF Convert
<1>2. LiteralType[t.label] \in Literals /\ t.label \in Texts
  BY DEF LiteralType, Literals, Texts
<1>3. e \in S
  BY <1>0, <1>2, FormsMade
<1>4. e.tag = LiteralType[t.label] /\ e.literal = t.label
  BY DEF Literal
<1> HIDE DEF e
<1>5. ASSUME NEW env \in Seq([Names -> Spoken(X)]) PROVE Means(e, env) = TreeMeans(t, env)
  <2>1. Means(e, env) = Meaning(e, env) /\ TreeMeans(t, env) = TreeMeaning(t, env)
    BY <1>3 DEF Compiler, MeansIs, TreeMeansIs
  <2>2. Meaning(e, env) = Value(e.tag, Const(e.literal))
    BY <1>2, <1>4 DEF Meaning, Literals
  <2>3. TreeMeaning(t, env) = Value(LiteralType[t.label], Const(t.label))
    BY <1>g DEF TreeMeaning
  <2> QED  BY <1>4, <2>1, <2>2, <2>3
<1>6. e.tag \notin {"declare", "assign"} /\ t.label \notin {":", "="}
  BY <1>2, <1>4, WordsAre DEF Literals
<1>7. Understood(e, t, X)
  BY <1>5, <1>6, ValueUnderstood
<1>8. WillBeTyped(e, T)
  BY <1>0, <1>2, <1>3, <1>4, CompilerIs, LeafTyped DEF WillBeTyped
<1> QED  BY <1>1, <1>3, <1>7, <1>8, SomethingTranslates

\* A symbol.
LEMMA SymbolTranslates ==
  ASSUME NEW S, NEW T, NEW depth, NEW tdepth, NEW X, NEW K, NEW U, NEW height,
         Compiler(S, T, depth, tdepth, X, K, U, height),
         NEW b, NEW t \in K, NEW m \in Nat, t.kids = <<>>, t.label \in Names
  PROVE  Translates(Convert(t, b, m), t, m, S, T, X)
<1>0. S = Forms(S, T) /\ NoType \in T /\ ChecksIs(S)
  BY CompilerIs DEF Compiler
<1>g. /\ ~(t.kids = <<>> /\ t.label \in DOMAIN LiteralType)
      /\ (t.kids = <<>> /\ t.label \in Names)
      /\ ~(Len(t.kids) = 2 /\ t.label \in InfixLabels)
      /\ ~(Len(t.kids) = 1 /\ t.label \in {"*", "-"})
      /\ t.label # "=" /\ t.label # ":" /\ t.label # "with" /\ t.label # "if"
  <2>1. Len(t.kids) = 0
    OBVIOUS
  <2> QED  BY <2>1, WordsAre
<1> DEFINE e == Symbol(t.label)
<1>1. Convert(t, b, m) = Converted(e, m)
  BY <1>g DEF Convert
<1>3. e \in S
  BY <1>0, FormsMade
<1>4. e.tag = "symbol" /\ e.name = t.label
  BY DEF Symbol
<1> HIDE DEF e
<1>5. ASSUME NEW env \in Seq([Names -> Spoken(X)]) PROVE Means(e, env) = TreeMeans(t, env)
  <2>1. Means(e, env) = Meaning(e, env) /\ TreeMeans(t, env) = TreeMeaning(t, env)
    BY <1>3 DEF Compiler, MeansIs, TreeMeansIs
  <2> DEFINE i == Innermost(env, t.label, NoValue)
  <2>2. Meaning(e, env) = IF i = 0 THEN NoValue ELSE env[i][t.label]
    BY <1>4 DEF Meaning, Literals
  <2>3. TreeMeaning(t, env) = IF i = 0 THEN NoValue ELSE env[i][t.label]
    BY <1>g DEF TreeMeaning
  <2> QED  BY <2>1, <2>2, <2>3
<1>6. e.tag \notin {"declare", "assign"} /\ t.label \notin {":", "="}
  BY <1>4, WordsAre
<1>7. Understood(e, t, X)
  BY <1>5, <1>6, ValueUnderstood
<1>8. WillBeTyped(e, T)
  BY <1>0, <1>3, <1>4, CompilerIs, LeafTyped DEF WillBeTyped
<1> QED  BY <1>1, <1>3, <1>7, <1>8, SomethingTranslates

\* r are the S expressions of the children of t.
KidsConverted(r, t, m, S, T, X) ==
    /\ \A i \in 1 .. Len(t.kids) : r.sexprs[i] \in S
    /\ r.sexprs \in Seq(S) /\ Len(r.sexprs) = Len(t.kids) /\ r.made \in Nat /\ (r.ok => MakesType(t) \/ r.made = m)
    /\ r.ok => \A i \in 1 .. Len(t.kids) :
                 /\ Understood(r.sexprs[i], t.kids[i], X)
                 /\ Typable(t.kids[i]) => WillBeTyped(r.sexprs[i], T)

\* The children of a tree, converted.
LEMMA KidsTranslate ==
  ASSUME NEW S, NEW T, NEW depth, NEW tdepth, NEW X, NEW K, NEW U, NEW height,
         Compiler(S, T, depth, tdepth, X, K, U, height),
         NEW b, NEW t \in K, NEW m \in Nat, EachTranslates(t.kids, b, S, T, X)
  PROVE  KidsConverted(ConvertEach(t.kids, b, m), t, m, S, T, X)
<1> DEFINE r == ConvertEach(t.kids, b, m)
<1>0. Trees(K, U, height) /\ WithinIs(K)
  BY DEF Compiler
<1>1. Len(t.kids) \in Nat
  BY <1>0, KidsAre
<1>2. AllTranslated(r, t.kids, m, S, T, X)
  BY <1>1, ConvertEachTranslates
<1> HIDE DEF r
<1>3. r.sexprs \in Seq(S) /\ Len(r.sexprs) = Len(t.kids) /\ r.made \in Nat
  BY <1>2 DEF AllTranslated
<1>4. \A i \in 1 .. Len(t.kids) : r.sexprs[i] \in S
  BY <1>3, ElementOfSeq
<1>5. r.ok => (\E i \in 1 .. Len(t.kids) : MakesType(t.kids[i])) \/ r.made = m
  BY <1>2 DEF AllTranslated
<1>6. r.ok => MakesType(t) \/ r.made = m
  BY <1>0, <1>5, Inside
<1>7. r.ok => \A i \in 1 .. Len(t.kids) :
                 /\ Understood(r.sexprs[i], t.kids[i], X)
                 /\ Typable(t.kids[i]) => WillBeTyped(r.sexprs[i], T)
  BY <1>2 DEF AllTranslated
<1> QED  BY <1>3, <1>4, <1>6, <1>7 DEF KidsConverted, r

\* An infix operator.
LEMMA InfixTranslates ==
  ASSUME NEW S, NEW T, NEW depth, NEW tdepth, NEW X, NEW K, NEW U, NEW height,
         Compiler(S, T, depth, tdepth, X, K, U, height),
         NEW b, NEW t \in K, NEW m \in Nat, Len(t.kids) = 2, t.label \in InfixLabels,
         EachTranslates(t.kids, b, S, T, X)
  PROVE  Translates(Convert(t, b, m), t, m, S, T, X)
<1>0. S = Forms(S, T) /\ NoType \in T /\ ChecksIs(S) /\ Trees(K, U, height)
  BY CompilerIs DEF Compiler
<1>g. /\ ~(t.kids = <<>> /\ t.label \in DOMAIN LiteralType)
      /\ ~(t.kids = <<>> /\ t.label \in Names)
      /\ (Len(t.kids) = 2 /\ t.label \in InfixLabels)
      /\ ~(Len(t.kids) = 1 /\ t.label \in {"*", "-"})
      /\ t.label # "=" /\ t.label # ":" /\ t.label # "with" /\ t.label # "if"
  <2>0. Len(<<>>) = 0
    OBVIOUS
  <2>1. t.kids # <<>>
    BY <2>0
  <2> QED  BY <2>1, WordsAre
<1> DEFINE r == ConvertEach(t.kids, b, m)
           o == OperatorOf(t.label)
           u == t.kids[1]
           w == t.kids[2]
           x == r.sexprs[1]
           y == r.sexprs[2]
           e == Infix(o, x, y)
<1>1. Convert(t, b, m) = IF r.ok THEN Converted(e, r.made) ELSE NotConverted
  BY <1>g DEF Convert, ConvertInfix
<1>k. 1 \in 1 .. Len(t.kids) /\ 2 \in 1 .. Len(t.kids)
  OBVIOUS
<1>2. /\ x \in S /\ y \in S /\ r.made \in Nat /\ (r.ok => MakesType(t) \/ r.made = m)
      /\ r.ok => Understood(x, u, X) /\ Understood(y, w, X)
  <2>1. KidsConverted(r, t, m, S, T, X)
    BY KidsTranslate
  <2> HIDE DEF r
  <2> QED  BY <1>k, <2>1 DEF KidsConverted
<1>3. o \in Operators
  BY DEF OperatorOf, Operators
<1>l. Unsupported \in S /\ e \in S
  BY <1>0, <1>2, <1>3, FormsMade
<1>4. e.tag = "infix" /\ e.op = o /\ e.left = x /\ e.right = y
  BY DEF Infix
<1> HIDE DEF r, x, y, e
<1>5. ASSUME r.ok, NEW env \in Seq([Names -> Spoken(X)]) PROVE Means(e, env) = TreeMeans(t, env)
  <2>1. Means(e, env) = Meaning(e, env) /\ TreeMeans(t, env) = TreeMeaning(t, env)
    BY <1>l DEF Compiler, MeansIs, TreeMeansIs
  <2> DEFINE Both(p, q) == Value(OperatorType(o, p, q), Term(o, Promote(p, q)))
  <2>2. Meaning(e, env) = Both(Means(x, env), Means(y, env))
    BY <1>4 DEF Meaning, Literals
  <2>3. TreeMeaning(t, env) = Both(TreeMeans(u, env), TreeMeans(w, env))
    BY <1>g DEF TreeMeaning
  <2>4. Means(x, env) = TreeMeans(u, env) /\ Means(y, env) = TreeMeans(w, env)
    BY <1>2, <1>5 DEF Understood
  <2> HIDE DEF Both
  <2> QED  BY <2>1, <2>2, <2>3, <2>4
<1>6. e.tag \notin {"declare", "assign"}
  BY <1>4
<1>7. r.ok => Understood(e, t, X)
  BY <1>5, <1>6, <1>g, ValueUnderstood
<1>8. WillBeTyped(e, T)
  BY <1>0, <1>l, <1>4, CompilerIs, InfixTyped DEF WillBeTyped
<1>9. CASE r.ok
  BY <1>1, <1>2, <1>l, <1>7, <1>8, <1>9, SomethingTranslates
<1>10. CASE ~r.ok
  BY <1>1, <1>l, <1>10, NothingTranslates
<1> QED  BY <1>9, <1>10

\* A prefix operator.
LEMMA PrefixTranslates ==
  ASSUME NEW S, NEW T, NEW depth, NEW tdepth, NEW X, NEW K, NEW U, NEW height,
         Compiler(S, T, depth, tdepth, X, K, U, height),
         NEW b, NEW t \in K, NEW m \in Nat, Len(t.kids) = 1, t.label \in {"*", "-"},
         EachTranslates(t.kids, b, S, T, X)
  PROVE  Translates(Convert(t, b, m), t, m, S, T, X)
<1>0. S = Forms(S, T) /\ NoType \in T /\ ChecksIs(S) /\ Trees(K, U, height) /\ WithinIs(K)
  BY CompilerIs DEF Compiler
<1>g. /\ ~(t.kids = <<>> /\ t.label \in DOMAIN LiteralType)
      /\ ~(t.kids = <<>> /\ t.label \in Names)
      /\ ~(Len(t.kids) = 2 /\ t.label \in InfixLabels)
      /\ (Len(t.kids) = 1 /\ t.label \in {"*", "-"})
      /\ t.label # "=" /\ t.label # ":" /\ t.label # "with" /\ t.label # "if"
  <2>0. Len(<<>>) = 0 /\ 0 # 1
    OBVIOUS
  <2>1. t.kids # <<>>
    BY <2>0
  <2> QED  BY <2>1, WordsAre
<1> DEFINE u == t.kids[1]
           r == Converts(u, b, m)
           o == IF t.label = "-" THEN "neg" ELSE "span"
           x == r.sexpr
           e == Prefix(o, x)
<1>1. Convert(t, b, m) = IF r.ok THEN Converted(e, r.made) ELSE NotConverted
  BY <1>g DEF Convert, ConvertPrefix
<1>k. 1 \in 1 .. Len(t.kids)
  OBVIOUS
<1>t. Translates(r, u, m, S, T, X)
  BY <1>k DEF EachTranslates
<1> HIDE DEF r
<1>2. /\ x \in S /\ r.made \in Nat /\ (r.ok => MakesType(u) \/ r.made = m)
      /\ r.ok => Understood(x, u, X)
  BY <1>t DEF Translates, Conversions
<1>m. MakesType(u) => MakesType(t)
  BY <1>0, <1>k, Inside
<1>3. o \in {"neg", "span"}
  OBVIOUS
<1>l. Unsupported \in S /\ e \in S
  BY <1>0, <1>2, <1>3, FormsMade
<1>4. e.tag = "prefix" /\ e.op = o /\ e.operand = x
  BY DEF Prefix
<1> HIDE DEF x, e
<1>5. ASSUME r.ok, NEW env \in Seq([Names -> Spoken(X)]) PROVE Means(e, env) = TreeMeans(t, env)
  <2>1. Means(e, env) = Meaning(e, env) /\ TreeMeans(t, env) = TreeMeaning(t, env)
    BY <1>l DEF Compiler, MeansIs, TreeMeansIs
  <2>2. Meaning(e, env) = Value(Means(x, env).type, Term(o, <<Means(x, env).term>>))
    <3> HIDE DEF o
    <3> QED  BY <1>4 DEF Meaning, Literals
  <2>3. TreeMeaning(t, env) = Value(TreeMeans(u, env).type, Term(o, <<TreeMeans(u, env).term>>))
    BY <1>g DEF TreeMeaning
  <2>4. Means(x, env) = TreeMeans(u, env)
    BY <1>2, <1>5 DEF Understood
  <2> QED  BY <2>1, <2>2, <2>3, <2>4
<1>6. e.tag \notin {"declare", "assign"}
  BY <1>4
<1>7. r.ok => Understood(e, t, X)
  BY <1>5, <1>6, <1>g, ValueUnderstood
<1>8. WillBeTyped(e, T)
  BY <1>0, <1>l, <1>4, CompilerIs, PrefixTyped DEF WillBeTyped
<1>9. CASE r.ok
  BY <1>1, <1>2, <1>m, <1>l, <1>7, <1>8, <1>9, SomethingTranslates
<1>10. CASE ~r.ok
  BY <1>1, <1>l, <1>10, NothingTranslates
<1> QED  BY <1>9, <1>10

\* s are the scopes after each of the statements ts.
TreesOneByOne(ts, env, s) ==
    /\ s[0] = env
    /\ \A k \in 1 .. Len(ts) : s[k] = TreeBind(s[k - 1], ts[k])
    /\ TreesMean(ts, env) = s[Len(ts)]

\* The statements of a program, one after the other.
LEMMA TreesMeanIs ==
  ASSUME NEW ts, Len(ts) \in Nat, NEW env
  PROVE  \E s : TreesOneByOne(ts, env, s)
<1> DEFINE n == Len(ts)
           start == env
           Turn(k, p) == TreeBind(p, ts[k])
           IsRun(f) == f = [k \in 0 .. n |-> IF k = 0 THEN start ELSE Turn(k, f[k - 1])]
           Fits(m, f) == f[0] = start /\ \A k \in 1 .. m : f[k] = Turn(k, f[k - 1])
           M == {m \in 0 .. n : \E f : Fits(m, f)}
           run == CHOOSE f : IsRun(f)
<1>1. n \in Nat
  OBVIOUS
<1>2. TreesMean(ts, env) = run[n]
  BY DEF TreesMean
<1> HIDE DEF n, start, Turn
<1>3. 0 \in M
  <2> DEFINE f == [k \in 0 .. 0 |-> start]
  <2>1. f[0] = start /\ \A k \in 1 .. 0 : FALSE
    OBVIOUS
  <2> HIDE DEF f
  <2> QED  BY <1>1, <2>1
<1>4. ASSUME NEW m \in 1 .. n, m - 1 \in M PROVE m \in M
  <2>1. PICK f : Fits(m - 1, f)
    BY <1>4
  <2> DEFINE g == [k \in 0 .. m |-> IF k = m THEN Turn(m, f[m - 1]) ELSE f[k]]
  <2>2. /\ m - 1 \in 0 .. m /\ m # 0 /\ m - 1 # m /\ 0 \in 0 .. m /\ m \in 0 .. m /\ m \in 0 .. n
        /\ \A k \in 1 .. m : k = m \/ k \in 1 .. m - 1
        /\ \A k \in 1 .. m - 1 : k \in 0 .. m /\ k # m /\ k - 1 \in 0 .. m /\ k - 1 # m
    BY <1>1
  <2>3. g[0] = start /\ g[m] = Turn(m, g[m - 1])
    BY <2>1, <2>2
  <2>4. \A k \in 1 .. m - 1 : g[k] = f[k] /\ g[k - 1] = f[k - 1] /\ f[k] = Turn(k, f[k - 1])
    BY <2>1, <2>2
  <2> HIDE DEF g
  <2>5. Fits(m, g)
    BY <2>2, <2>3, <2>4
  <2> QED  BY <2>2, <2>5
<1>5. n \in M
  <2>1. 0 .. n \subseteq M
    <3> HIDE DEF M
    <3> QED  BY <1>1, <1>3, <1>4, NumbersUpTo
  <2>2. n \in 0 .. n
    BY <1>1
  <2> HIDE DEF M
  <2> QED  BY <2>1, <2>2
<1>6. PICK f : Fits(n, f)
  BY <1>5
<1>7. \A k \in 0 .. n : k = 0 \/ (k # 0 /\ k \in 1 .. n /\ k - 1 \in 0 .. n)
  BY <1>1
<1>8. \A k \in 1 .. n : k # 0 /\ k \in 0 .. n /\ k - 1 \in 0 .. n
  BY <1>1
<1>9. IsRun(run)
  <2> DEFINE h == [k \in 0 .. n |-> f[k]]
  <2>1. ASSUME NEW k \in 0 .. n PROVE h[k] = IF k = 0 THEN start ELSE Turn(k, h[k - 1])
    <3>1. k # 0 => h[k - 1] = f[k - 1]
      BY <1>7
    <3> QED  BY <1>6, <1>7, <3>1
  <2>2. IsRun(h)
    BY <2>1
  <2> HIDE DEF h, IsRun
  <2> QED  BY <2>2
<1> HIDE DEF run
<1>10. \A k \in 0 .. n : run[k] = IF k = 0 THEN start ELSE Turn(k, run[k - 1])
  BY <1>9
<1>11. run[0] = start /\ \A k \in 1 .. n : run[k] = Turn(k, run[k - 1])
  <2>1. 0 \in 0 .. n
    BY <1>1
  <2> HIDE DEF IsRun
  <2> QED  BY <1>8, <1>10, <2>1
<1> QED  BY <1>2, <1>11 DEF n, start, Turn, TreesOneByOne

\* Assignments fill a scope with what the trees they were made of say.
LEMMA AssignsMeanTrees ==
  ASSUME NEW X, AreTerms(X), NEW as, NEW ts, Len(as) \in Nat, Len(ts) = Len(as),
         AssignsHaveMeaning(as, Spoken(X)), \A i \in 1 .. Len(as) : Understood(as[i], ts[i], X),
         NEW env \in Seq([Names -> Spoken(X)])
  PROVE  /\ AssignsMean(as, env) = TreesMean(ts, Append(env, NoValues))
         /\ AssignsMean(as, env) \in Seq([Names -> Spoken(X)])
<1> DEFINE W == Spoken(X)
           n == Len(as)
           start == Append(env, NoValues)
<1>0. NoValue \in W
  BY NoValueIn
<1>1. PICK s : MeantOneByOne(as, W, env, s)
  <2> HIDE DEF W
  <2> QED  BY <1>0, AssignsMeanIs DEF W
<1>2. PICK m : TreesOneByOne(ts, start, m)
  <2> HIDE DEF start
  <2> QED  BY TreesMeanIs
<1>3. /\ n \in Nat /\ 0 \in 0 .. n /\ n \in 0 .. n
      /\ \A k \in 1 .. n : k \in 0 .. n /\ k - 1 \in 0 .. n
  <2>1. n \in Nat
    OBVIOUS
  <2> HIDE DEF n
  <2> QED  BY <2>1
<1> DEFINE M == {k \in 0 .. n : s[k] = m[k]}
<1>4. 0 \in M
  <2>1. s[0] = start
    BY <1>1 DEF MeantOneByOne, NoValues
  <2>2. m[0] = start
    BY <1>2 DEF TreesOneByOne
  <2> QED  BY <1>3, <2>1, <2>2
<1>5. ASSUME NEW k \in 1 .. n, k - 1 \in M PROVE k \in M
  <2> DEFINE l == s[k - 1]
  <2>1. s[k] = MeansTurn(as, k, l) /\ l \in Stacks(W)
    BY <1>1, <1>3 DEF MeantOneByOne
  <2>2. m[k] = TreeBind(l, ts[k])
    BY <1>2, <1>5 DEF TreesOneByOne
  <2> HIDE DEF l
  <2>3. Understood(as[k], ts[k], X) /\ l \in Seq([Names -> W])
    BY <2>1 DEF Stacks
  <2>4. CASE as[k].tag = "assign"
    <3>1. as[k].name = NameOf(ts[k].kids[1]) /\ ts[k].label = "=" /\ Means(as[k].value, l) = AssignedMeaning(ts[k], l)
      BY <2>3, <2>4 DEF Understood
    <3> QED  BY <1>3, <2>1, <2>2, <2>4, <3>1 DEF MeansTurn, TreeBind
  <2>5. CASE as[k].tag # "assign"
    <3>1. ts[k].label # "="
      BY <2>3, <2>5 DEF Understood
    <3> QED  BY <1>3, <2>1, <2>2, <2>5, <3>1 DEF MeansTurn, TreeBind
  <2> QED  BY <2>4, <2>5
<1>6. 0 .. n \subseteq M
  <2> HIDE DEF M, n
  <2> QED  BY <1>3, <1>4, <1>5, NumbersUpTo
<1>7. s[n] = m[n]
  BY <1>3, <1>6
<1>8. AssignsMean(as, env) = s[n] /\ s[n] \in Stacks(W)
  <2> HIDE DEF W
  <2> QED  BY <1>1, <1>3 DEF MeantOneByOne
<1>9. TreesMean(ts, start) = m[n]
  BY <1>2 DEF TreesOneByOne
<1> QED  BY <1>7, <1>8, <1>9 DEF Stacks

\* All but the last of a sequence, and the last.
LEMMA FrontIs ==
  ASSUME NEW A, NEW s \in Seq(A), s # <<>>
  PROVE  /\ Front(s) \in Seq(A) /\ Len(Front(s)) = Len(s) - 1 /\ Len(s) - 1 \in Nat
         /\ \A i \in 1 .. Len(s) - 1 : Front(s)[i] = s[i] /\ i \in 1 .. Len(s)
         /\ Last(s) = s[Len(s)] /\ Last(s) \in A /\ Len(s) \in 1 .. Len(s)
<1> DEFINE n == Len(s)
<1>1. n \in Nat /\ n # 0
  BY LenProperties, EmptySeq
<1>2. \A i \in 1 .. n : s[i] \in A
  BY ElementOfSeq
<1> HIDE DEF n
<1>3. n - 1 \in Nat /\ n \in 1 .. n /\ \A i \in 1 .. n - 1 : i \in 1 .. n
  BY <1>1
<1>4. \A i \in 1 .. n - 1 : s[i] \in A
  BY <1>2, <1>3
<1> DEFINE k == n - 1
<1>5. k \in Nat /\ (1 <= k => (k - 1) + 1 = k) /\ (~(1 <= k) => k = 0) /\ (\A i \in 1 .. k : (1 + i) - 1 = i)
  BY <1>3
<1>6. \A i \in 1 .. k : s[i] \in A
  BY <1>4
<1> HIDE DEF k
<1>7. /\ SubSeq(s, 1, k) \in Seq(A) /\ Len(SubSeq(s, 1, k)) = k
      /\ \A i \in 1 .. k : SubSeq(s, 1, k)[i] = s[i]
  BY <1>5, <1>6, SubSeqProperties
<1>8. Front(s) = SubSeq(s, 1, k) /\ Last(s) = s[n]
  BY DEF Front, Last, k, n
<1> QED  BY <1>2, <1>3, <1>7, <1>8 DEF k, n

\* A with.
LEMMA WithTranslates ==
  ASSUME NEW S, NEW T, NEW depth, NEW tdepth, NEW X, NEW K, NEW U, NEW height,
         Compiler(S, T, depth, tdepth, X, K, U, height),
         NEW b, NEW t \in K, NEW m \in Nat, t.label = "with", EachTranslates(t.kids, b, S, T, X)
  PROVE  Translates(Convert(t, b, m), t, m, S, T, X)
<1>0. S = Forms(S, T) /\ NoType \in T /\ ChecksIs(S) /\ Trees(K, U, height) /\ WithinIs(K) /\ AreTerms(X)
  BY CompilerIs DEF Compiler
<1>g. /\ ~(t.kids = <<>> /\ t.label \in DOMAIN LiteralType)
      /\ ~(t.kids = <<>> /\ t.label \in Names)
      /\ ~(Len(t.kids) = 2 /\ t.label \in InfixLabels)
      /\ ~(Len(t.kids) = 1 /\ t.label \in {"*", "-"})
      /\ t.label # "=" /\ t.label # ":" /\ t.label # "if"
  BY WordsAre
<1> DEFINE r == ConvertEach(t.kids, b, m)
           q == r.sexprs
           as == Front(q)
           v == Last(q)
           e == With(as, v)
           n == Len(t.kids)
           u == Last(t.kids)
           ts == Front(t.kids)
<1>1. Convert(t, b, m) = IF r.ok THEN Converted(e, r.made) ELSE NotConverted
  BY <1>g DEF Convert, ConvertWith
<1>k. t.kids \in Seq(K) /\ t.kids # <<>> /\ u.label # ":"
  BY <1>0 DEF Trees, Grammatical
<1>f. /\ Len(ts) = n - 1 /\ n - 1 \in Nat /\ n \in 1 .. n /\ u = t.kids[n]
      /\ \A i \in 1 .. n - 1 : ts[i] = t.kids[i] /\ i \in 1 .. n
  BY <1>k, FrontIs
<1>2. /\ q \in Seq(S) /\ Len(q) = n /\ r.made \in Nat /\ (r.ok => MakesType(t) \/ r.made = m)
      /\ r.ok => \A i \in 1 .. n : /\ Understood(q[i], t.kids[i], X)
                                   /\ Typable(t.kids[i]) => WillBeTyped(q[i], T)
  <2>1. KidsConverted(r, t, m, S, T, X)
    BY KidsTranslate
  <2> HIDE DEF r
  <2> QED  BY <2>1 DEF KidsConverted
<1> HIDE DEF r, q
<1>3. q # <<>>
  <2>1. n # 0
    BY <1>f
  <2> QED  BY <1>2, <2>1, EmptySeq
<1>h. /\ as \in Seq(S) /\ Len(as) = n - 1 /\ (\A i \in 1 .. n - 1 : as[i] = q[i])
      /\ v = q[n] /\ v \in S
  BY <1>2, <1>3, FrontIs
<1> HIDE DEF as, v
<1>l. Unsupported \in S /\ e \in S
  BY <1>0, <1>h, FormsMade
<1>4. e.tag = "local_scope" /\ e.assigns = as /\ e.value = v
  BY DEF With
<1> HIDE DEF e, u, ts, n
<1>5. ASSUME r.ok, NEW env \in Seq([Names -> Spoken(X)]) PROVE Means(e, env) = TreeMeans(t, env)
  <2>1. Means(e, env) = Meaning(e, env) /\ TreeMeans(t, env) = TreeMeaning(t, env)
    BY <1>l DEF Compiler, MeansIs, TreeMeansIs
  <2>2. Meaning(e, env) = Means(v, AssignsMean(as, env))
    BY <1>4 DEF Meaning, Literals
  <2>3. TreeMeaning(t, env) = TreeMeans(u, TreesMean(ts, Append(env, NoValues)))
    BY <1>g DEF TreeMeaning, u, ts
  <2>4. AssignsHaveMeaning(as, Spoken(X))
    <3>1. ASSUME NEW i \in 1 .. Len(as), as[i].tag = "assign"
          PROVE  as[i].name \in Names /\ \A l \in Stacks(Spoken(X)) : Means(as[i].value, l) \in Spoken(X)
      <4> DEFINE a == as[i]
      <4>1. a \in S /\ a.tag = "assign"
        BY <1>h, <3>1, ElementOfSeq
      <4> HIDE DEF a
      <4>2. a.name \in Names /\ a.value \in S
        BY <1>0, <4>1, FormOf DEF Literals
      <4>3. \A l \in Seq([Names -> Spoken(X)]) : Means(a.value, l) \in Spoken(X)
        BY <4>2, CompilerIs
      <4> QED  BY <4>2, <4>3 DEF a, Stacks
    <3> QED  BY <3>1 DEF AssignsHaveMeaning
  <2>5. \A i \in 1 .. Len(as) : Understood(as[i], ts[i], X)
    BY <1>2, <1>5, <1>f, <1>h
  <2>6. /\ AssignsMean(as, env) = TreesMean(ts, Append(env, NoValues))
        /\ AssignsMean(as, env) \in Seq([Names -> Spoken(X)])
    BY <1>0, <1>f, <1>h, <2>4, <2>5, AssignsMeanTrees
  <2>7. Understood(v, u, X)
    BY <1>2, <1>5, <1>f, <1>h
  <2> DEFINE inner == AssignsMean(as, env)
  <2> HIDE DEF inner
  <2>8. Means(v, inner) = TreeMeans(u, inner)
    BY <2>6, <2>7 DEF Understood, inner
  <2> QED  BY <2>1, <2>2, <2>3, <2>6, <2>8 DEF inner
<1>6. e.tag \notin {"declare", "assign"}
  BY <1>4
<1>7. r.ok => Understood(e, t, X)
  BY <1>5, <1>6, <1>g, ValueUnderstood
<1>8. r.ok /\ Typable(t) => WillBeTyped(e, T)
  <2>1. ASSUME r.ok, Typable(t) PROVE WillBeTyped(v, T)
    <3>1. DeclaresInBranch(u) => DeclaresInBranch(t)
      <4>1. DeclaresInBranch(t.kids[n]) => DeclaresInBranch(t)
        BY <1>0, <1>f, Inside DEF n
      <4> QED  BY <1>f, <4>1
    <3>2. Typable(u)
      BY <1>k, <2>1, <3>1 DEF Typable
    <3> QED  BY <1>2, <1>f, <1>h, <2>1, <3>2
  <2>2. ASSUME WillBeTyped(v, T), NEW bb, Finds(bb) PROVE Typed(e, T, bb)
    <3>1. Typed(e.value, T, bb) /\ EveryKept(S, T, X, bb)
      BY <1>4, <2>2, CompilerIs DEF WillBeTyped
    <3> QED  BY <1>0, <1>4, <1>l, <2>2, <3>1, ScopeTyped
  <2> QED  BY <2>1, <2>2 DEF WillBeTyped
<1>9. CASE r.ok
  BY <1>1, <1>2, <1>l, <1>7, <1>8, <1>9, SomethingTranslates
<1>10. CASE ~r.ok
  BY <1>1, <1>l, <1>10, NothingTranslates
<1> QED  BY <1>9, <1>10

\* An if.
LEMMA IfTranslates ==
  ASSUME NEW S, NEW T, NEW depth, NEW tdepth, NEW X, NEW K, NEW U, NEW height,
         Compiler(S, T, depth, tdepth, X, K, U, height),
         NEW b, NEW t \in K, NEW m \in Nat, t.label = "if", EachTranslates(t.kids, b, S, T, X)
  PROVE  Translates(Convert(t, b, m), t, m, S, T, X)
<1>0. S = Forms(S, T) /\ NoType \in T /\ ChecksIs(S) /\ Trees(K, U, height) /\ WithinIs(K)
  BY CompilerIs DEF Compiler
<1>g. /\ ~(t.kids = <<>> /\ t.label \in DOMAIN LiteralType)
      /\ ~(t.kids = <<>> /\ t.label \in Names)
      /\ ~(Len(t.kids) = 2 /\ t.label \in InfixLabels)
      /\ ~(Len(t.kids) = 1 /\ t.label \in {"*", "-"})
      /\ t.label # "=" /\ t.label # ":" /\ t.label # "with"
  BY WordsAre
<1> DEFINE r == ConvertEach(t.kids, b, m)
           u == t.kids[1]
           w == t.kids[2]
           z == t.kids[3]
           c == r.sexprs[1]
           x == r.sexprs[2]
           y == r.sexprs[3]
           e == If(c, x, y)
<1>1. Convert(t, b, m) = IF r.ok THEN Converted(e, r.made) ELSE NotConverted
  BY <1>g DEF Convert, ConvertIf
<1>j. Len(t.kids) = 3
  BY <1>0 DEF Trees, Grammatical
<1>k. 1 \in 1 .. Len(t.kids) /\ 2 \in 1 .. Len(t.kids) /\ 3 \in 1 .. Len(t.kids)
  BY <1>j
<1>2. /\ c \in S /\ x \in S /\ y \in S /\ r.made \in Nat /\ (r.ok => MakesType(t) \/ r.made = m)
      /\ r.ok => Understood(c, u, X) /\ Understood(x, w, X) /\ Understood(y, z, X)
      /\ r.ok => (Typable(w) => WillBeTyped(x, T))
  <2>1. KidsConverted(r, t, m, S, T, X)
    BY KidsTranslate
  <2> HIDE DEF r
  <2> QED  BY <1>k, <2>1 DEF KidsConverted
<1>l. Unsupported \in S /\ e \in S
  BY <1>0, <1>2, FormsMade
<1>4. e.tag = "if" /\ e.cond = c /\ e.then = x /\ e.elsy = y
  BY DEF If
<1>i. (DeclaresInBranch(w) => DeclaresInBranch(t)) /\ (w.label = ":" => DeclaresInBranch(t))
  BY <1>0, <1>k, Inside
<1> HIDE DEF r, c, x, y, e
<1>5. ASSUME r.ok, NEW env \in Seq([Names -> Spoken(X)]) PROVE Means(e, env) = TreeMeans(t, env)
  <2>1. Means(e, env) = Meaning(e, env) /\ TreeMeans(t, env) = TreeMeaning(t, env)
    BY <1>l DEF Compiler, MeansIs, TreeMeansIs
  <2> DEFINE All(g, h, i) == Value(h.type, Term("if", <<g.term, h.term, i.term>>))
  <2>2. Meaning(e, env) = All(Means(c, env), Means(x, env), Means(y, env))
    BY <1>4 DEF Meaning, Literals
  <2>3. TreeMeaning(t, env) = All(TreeMeans(u, env), TreeMeans(w, env), TreeMeans(z, env))
    BY <1>g DEF TreeMeaning
  <2>4. Means(c, env) = TreeMeans(u, env) /\ Means(x, env) = TreeMeans(w, env) /\ Means(y, env) = TreeMeans(z, env)
    BY <1>2, <1>5 DEF Understood
  <2> HIDE DEF All
  <2> QED  BY <2>1, <2>2, <2>3, <2>4
<1>6. e.tag \notin {"declare", "assign"}
  BY <1>4
<1>7. r.ok => Understood(e, t, X)
  BY <1>5, <1>6, <1>g, ValueUnderstood
<1>8. r.ok /\ Typable(t) => WillBeTyped(e, T)
  <2>1. ASSUME r.ok, Typable(t) PROVE WillBeTyped(x, T)
    <3>1. Typable(w)
      BY <1>i, <2>1 DEF Typable
    <3> QED  BY <1>2, <2>1, <3>1
  <2>2. ASSUME WillBeTyped(x, T), NEW bb, Finds(bb) PROVE Typed(e, T, bb)
    <3>1. Typed(e.then, T, bb) /\ EveryKept(S, T, X, bb)
      BY <1>4, <2>2, CompilerIs DEF WillBeTyped
    <3> QED  BY <1>0, <1>4, <1>l, <2>2, <3>1, IfTyped
  <2> QED  BY <2>1, <2>2 DEF WillBeTyped
<1>9. CASE r.ok
  BY <1>1, <1>2, <1>l, <1>7, <1>8, <1>9, SomethingTranslates
<1>10. CASE ~r.ok
  BY <1>1, <1>l, <1>10, NothingTranslates
<1> QED  BY <1>9, <1>10

\* The children of an assignment and of a declaration.
LEMMA TwoKids ==
  ASSUME NEW K, NEW U, NEW height, Trees(K, U, height), NEW t \in K, t.label \in {":", "="}
  PROVE  /\ Len(t.kids) = 2 /\ 1 \in 1 .. Len(t.kids) /\ 2 \in 1 .. Len(t.kids)
         /\ t.kids[1] \in K /\ t.kids[2] \in K
         /\ t.label = ":" => t.kids[1].label \in Names /\ t.kids[2] \in U
         /\ t.label = "=" => t.kids[2].label # ":"
<1>1. Grammatical(t) /\ (t.label = ":" => t.kids[2] \in U)
  BY DEF Trees
<1>2. Len(t.kids) = 2 /\ 1 \in 1 .. Len(t.kids) /\ 2 \in 1 .. Len(t.kids)
  BY <1>1 DEF Grammatical
<1>3. \A i \in 1 .. Len(t.kids) : t.kids[i] \in K
  BY KidsAre
<1>4. (t.label = ":" => t.kids[1].label \in Names) /\ (t.label = "=" => t.kids[2].label # ":")
  BY <1>1 DEF Grammatical
<1> QED  BY <1>1, <1>2, <1>3, <1>4

\* The type written behind a colon.
LEMMA TypeGenerated ==
  ASSUME NEW S, NEW T, NEW depth, NEW tdepth, NEW X, NEW K, NEW U, NEW height,
         Compiler(S, T, depth, tdepth, X, K, U, height),
         NEW b, NEW u \in U, NEW m \in Nat
  PROVE  LET g == GenerateType(u, b, m)
         IN  /\ g.type \in T /\ g.made \in Nat /\ (u.kids = <<>> => g.made = m)
             /\ Generates(u, b, m) = g /\ g \in Generations(T)
<1>1. TypeLanguage(T, tdepth) /\ Trees(K, U, height) /\ GeneratesIs(U) /\ DescendsIs(U)
  BY DEF Compiler
<1>2. GenerateType(u, b, m) \in Generations(T) /\ (u.kids = <<>> => GenerateType(u, b, m).made = m)
  <2>1. TypesGenerated(T, U, b)
    BY <1>1, GenerateTyped
  <2> QED  BY <2>1 DEF TypesGenerated
<1> DEFINE g == GenerateType(u, b, m)
<1>3. Generates(u, b, m) = g
  BY <1>1 DEF GeneratesIs
<1> HIDE DEF g
<1>4. g.type \in T /\ g.made \in Nat
  BY <1>2 DEF Generations, g
<1> QED  BY <1>2, <1>3, <1>4 DEF g

\* A declaration.
LEMMA DeclareTranslates ==
  ASSUME NEW S, NEW T, NEW depth, NEW tdepth, NEW X, NEW K, NEW U, NEW height,
         Compiler(S, T, depth, tdepth, X, K, U, height),
         NEW b, NEW t \in K, NEW m \in Nat, t.label = ":"
  PROVE  Translates(Convert(t, b, m), t, m, S, T, X)
<1>0. S = Forms(S, T) /\ NoType \in T /\ ChecksIs(S) /\ Trees(K, U, height) /\ WithinIs(K)
  BY CompilerIs DEF Compiler
<1>g. /\ ~(t.kids = <<>> /\ t.label \in DOMAIN LiteralType)
      /\ ~(t.kids = <<>> /\ t.label \in Names)
      /\ ~(Len(t.kids) = 2 /\ t.label \in InfixLabels)
      /\ ~(Len(t.kids) = 1 /\ t.label \in {"*", "-"})
      /\ t.label # "=" /\ t.label # "with" /\ t.label # "if"
  BY WordsAre
<1> DEFINE u == t.kids[2]
           n == t.kids[1].label
           g == GenerateType(u, b, m)
           e == Declare(n, g.type)
<1>1. Convert(t, b, m) = Converted(e, g.made)
  BY <1>g DEF Convert, ConvertDeclare
<1>2. n \in Names /\ u \in U
  BY <1>0, TwoKids
<1>3. g.type \in T /\ g.made \in Nat /\ (u.kids = <<>> => g.made = m)
  BY <1>2, TypeGenerated
<1>4. MakesType(t) \/ u.kids = <<>>
  BY <1>0, Inside
<1> HIDE DEF g
<1>l. e \in S
  BY <1>0, <1>2, <1>3, FormsMade
<1>5. e.tag = "declare"
  BY DEF Declare
<1> HIDE DEF e
<1>6. ASSUME NEW env \in Seq([Names -> Spoken(X)]) PROVE Means(e, env) = TreeMeans(t, env)
  <2>1. Means(e, env) = Meaning(e, env) /\ TreeMeans(t, env) = TreeMeaning(t, env)
    BY <1>l DEF Compiler, MeansIs, TreeMeansIs
  <2>2. Meaning(e, env) = NoValue
    BY <1>5 DEF Meaning, Literals
  <2>3. TreeMeaning(t, env) = NoValue
    BY <1>g DEF TreeMeaning
  <2> QED  BY <2>1, <2>2, <2>3
<1>7. Understood(e, t, X)
  BY <1>5, <1>6 DEF Understood
<1>8. ~Typable(t)
  BY DEF Typable
<1> QED  BY <1>1, <1>3, <1>4, <1>l, <1>7, <1>8, SomethingTranslates

\* v means what is assigned in t.
MeansAssigned(v, t, X) == \A env \in Seq([Names -> Spoken(X)]) : Means(v, env) = AssignedMeaning(t, env)

\* An assignment that is understood.
LEMMA AssignUnderstood ==
  ASSUME NEW S, NEW T, NEW depth, NEW tdepth, NEW X, NEW K, NEW U, NEW height,
         Compiler(S, T, depth, tdepth, X, K, U, height),
         NEW t \in K, t.label = "=", NEW n \in Names, NEW a \in T, NEW v \in S, n = NameOf(t.kids[1]),
         MeansAssigned(v, t, X)
  PROVE  /\ AssignTyped(n, a, v) \in S /\ Understood(AssignTyped(n, a, v), t, X)
         /\ WillBeTyped(v, T) => WillBeTyped(AssignTyped(n, a, v), T)
<1>0. S = Forms(S, T) /\ NoType \in T /\ ChecksIs(S) /\ Trees(K, U, height)
  BY CompilerIs DEF Compiler
<1>g. /\ ~(t.kids = <<>> /\ t.label \in DOMAIN LiteralType)
      /\ ~(t.kids = <<>> /\ t.label \in Names)
      /\ ~(Len(t.kids) = 2 /\ t.label \in InfixLabels)
      /\ ~(Len(t.kids) = 1 /\ t.label \in {"*", "-"})
      /\ t.label # ":" /\ t.label # "with" /\ t.label # "if"
  BY WordsAre
<1> DEFINE e == AssignTyped(n, a, v)
<1>1. e \in S
  BY <1>0, FormsMade
<1>2. e.tag = "assign" /\ e.name = n /\ e.value = v
  BY DEF AssignTyped
<1> HIDE DEF e
<1>3. ASSUME NEW env \in Seq([Names -> Spoken(X)])
      PROVE  Means(e, env) = TreeMeans(t, env) /\ Means(e.value, env) = AssignedMeaning(t, env)
  <2>1. Means(e, env) = Meaning(e, env) /\ TreeMeans(t, env) = TreeMeaning(t, env)
    BY <1>1 DEF Compiler, MeansIs, TreeMeansIs
  <2>2. Meaning(e, env) = NoValue
    BY <1>2 DEF Meaning, Literals
  <2>3. TreeMeaning(t, env) = NoValue
    BY <1>g DEF TreeMeaning
  <2> QED  BY <1>2, <2>1, <2>2, <2>3 DEF MeansAssigned
<1>4. Understood(e, t, X)
  BY <1>2, <1>3 DEF Understood
<1>5. ASSUME WillBeTyped(v, T), NEW bb, Finds(bb) PROVE Typed(e, T, bb)
  <2>1. Typed(e.value, T, bb) /\ EveryKept(S, T, X, bb)
    BY <1>2, <1>5, CompilerIs DEF WillBeTyped
  <2> QED  BY <1>0, <1>1, <1>2, <1>5, <2>1, AssignTypedIs
<1>6. WillBeTyped(v, T) => WillBeTyped(e, T)
  BY <1>5 DEF WillBeTyped
<1> QED  BY <1>1, <1>4, <1>6 DEF e

\* The types of the arguments of a function.
LEMMA ArgumentTypes ==
  ASSUME NEW S, NEW T, NEW depth, NEW tdepth, NEW X, NEW K, NEW U, NEW height,
         Compiler(S, T, depth, tdepth, X, K, U, height),
         NEW b, NEW t \in K, NEW m \in Nat, t.label = "=",
         \A i \in DOMAIN t.kids[1].kids : t.kids[1].kids[i].label = ":"
  PROVE  LET args == t.kids[1].kids
             g == GenerateEach([i \in DOMAIN args |-> args[i].kids[2]], b, m)
         IN  g.made \in Nat /\ (MakesType(t) \/ g.made = m)
<1>0. Trees(K, U, height) /\ WithinIs(K)
  BY DEF Compiler
<1> DEFINE head == t.kids[1]
           args == head.kids
           ts == [i \in DOMAIN args |-> args[i].kids[2]]
           g == GenerateEach(ts, b, m)
<1>1. head \in K /\ (MakesType(head) => MakesType(t))
  <2>1. head \in K /\ 1 \in 1 .. Len(t.kids)
    BY <1>0, TwoKids
  <2> QED  BY <1>0, <2>1, Inside
<1>h. \A i \in DOMAIN args : args[i].label = ":"
  OBVIOUS
<1> HIDE DEF head
<1>2. args \in Seq(K) /\ Len(args) \in Nat /\ DOMAIN args = 1 .. Len(args)
  BY <1>0, <1>1, KidsAre
<1>3. ASSUME NEW i \in 1 .. Len(args)
      PROVE  /\ args[i].kids[2] \in U
             /\ args[i].kids[2].kids # <<>> => MakesType(t)
  <2> DEFINE a == args[i]
  <2>1. a \in K /\ (MakesType(a) => MakesType(head))
    BY <1>0, <1>1, KidsAre, Inside
  <2>2. a.label = ":"
    BY <1>h, <1>2
  <2> HIDE DEF a
  <2>3. a.kids[2] \in U
    BY <1>0, <2>1, <2>2, TwoKids
  <2>4. a.kids[2].kids # <<>> => MakesType(a)
    BY <1>0, <2>1, <2>2, Inside
  <2> QED  BY <1>1, <2>1, <2>3, <2>4 DEF a
<1> HIDE DEF args
<1>4. DOMAIN ts = 1 .. Len(args) /\ \A i \in 1 .. Len(args) : ts[i] = args[i].kids[2]
  BY <1>2
<1>5. Len(ts) = Len(args)
  <2>1. ts \in [1 .. Len(args) -> U]
    BY <1>2, <1>3
  <2>2. ts \in Seq(U)
    BY <1>2, <2>1, SeqDef
  <2> HIDE DEF ts
  <2>3. DOMAIN ts = 1 .. Len(ts) /\ Len(ts) \in Nat
    BY <2>2, LenProperties
  <2> QED  BY <1>2, <1>4, <2>3
<1> HIDE DEF ts
<1>6. \A i \in 1 .. Len(ts), k \in Nat :
         /\ Generates(ts[i], b, k) \in Generations(T)
         /\ ts[i].kids = <<>> => Generates(ts[i], b, k).made = k
  <2>1. ASSUME NEW i \in 1 .. Len(ts), NEW k \in Nat
        PROVE  /\ Generates(ts[i], b, k) \in Generations(T)
               /\ ts[i].kids = <<>> => Generates(ts[i], b, k).made = k
    <3> DEFINE u == ts[i]
    <3>1. u \in U
      BY <1>3, <1>4, <1>5
    <3> HIDE DEF u
    <3>2. /\ GenerateType(u, b, k) \in Generations(T) /\ Generates(u, b, k) = GenerateType(u, b, k)
          /\ u.kids = <<>> => GenerateType(u, b, k).made = k
      BY <3>1, TypeGenerated
    <3> QED  BY <3>2 DEF u
  <2> QED  BY <2>1
<1>7. EachGenerates(ts, b, T)
  BY <1>6 DEF EachGenerates
<1>8. g.made \in Nat /\ ((\A i \in 1 .. Len(ts) : Generates(ts[i], b, m).made = m) => g.made = m)
  <2>1. Len(ts) \in Nat
    BY <1>2, <1>5
  <2>2. LET r == GenerateEach(ts, b, m)
        IN  /\ r.ok \in BOOLEAN /\ r.types \in Seq(T) /\ r.made \in Nat
            /\ r.ok => Len(r.types) = Len(ts)
            /\ (\A i \in 1 .. Len(ts) : Generates(ts[i], b, m).made = m) => r.made = m
    <3> HIDE DEF g
    <3> QED  BY <1>7, <2>1, GenerateEachTyped
  <2> QED  BY <2>2
<1>9. MakesType(t) \/ \A i \in 1 .. Len(ts) : Generates(ts[i], b, m).made = m
  BY <1>3, <1>4, <1>5, <1>6
<1> QED  BY <1>8, <1>9 DEF ts, args, head

\* A function.
LEMMA FunctionTranslates ==
  ASSUME NEW S, NEW T, NEW depth, NEW tdepth, NEW X, NEW K, NEW U, NEW height,
         Compiler(S, T, depth, tdepth, X, K, U, height),
         NEW b, NEW t \in K, NEW m \in Nat, t.label = "=", EachTranslates(t.kids, b, S, T, X),
         t.kids[1].label \in Names, t.kids[1].kids # <<>>
  PROVE  Translates(ConvertFunction(t, b, m), t, m, S, T, X)
<1>0. S = Forms(S, T) /\ NoType \in T /\ ChecksIs(S) /\ Trees(K, U, height) /\ WithinIs(K) /\ MeansIs(S)
  BY CompilerIs DEF Compiler
<1> DEFINE args == t.kids[1].kids
           g == GenerateEach([i \in DOMAIN args |-> args[i].kids[2]], b, m)
           value == Converts(t.kids[2], b, g.made)
           n == t.kids[1].label
           e == AssignTyped(n, NoType, Func)
           All == \A i \in DOMAIN args : args[i].label = ":"
<1>f. ConvertFunction(t, b, m) = NotConverted \/ (All /\ value.ok /\ ConvertFunction(t, b, m) = Converted(e, value.made))
  <2>1. ConvertFunction(t, b, m) = IF \A i \in DOMAIN args : args[i].label = ":" /\ value.ok THEN Converted(e, value.made) ELSE NotConverted
    BY DEF ConvertFunction, Assign
  <2>2. (\A i \in DOMAIN args : args[i].label = ":" /\ value.ok) => All /\ value.ok
    <3>1. DOMAIN args # {}
      <4>1. t.kids[1] \in K
        BY <1>0, TwoKids
      <4>2. Len(args) \in Nat /\ DOMAIN args = 1 .. Len(args) /\ (args = <<>> <=> Len(args) = 0)
        BY <1>0, <4>1, KidsAre
      <4>3. Len(args) # 0
        BY <4>2
      <4> HIDE DEF args
      <4>4. 1 \in 1 .. Len(args)
        BY <4>2, <4>3
      <4> QED  BY <4>2, <4>4
    <3> HIDE DEF args, value
    <3> QED  BY <3>1
  <2> HIDE DEF value, All, e
  <2> QED  BY <2>1, <2>2
<1>1. Func \in S /\ Unsupported \in S
  BY <1>0, FormsMade
<1>2. \A env : Means(Func, env) = NoValue /\ AssignedMeaning(t, env) = NoValue
  <2>1. Func.tag = "func"
    BY DEF Func
  <2>2. \A env : Means(Func, env) = Meaning(Func, env)
    BY <1>0, <1>1 DEF MeansIs
  <2>3. \A env : Meaning(Func, env) = NoValue
    BY <2>1 DEF Meaning, Literals
  <2>4. \A env : AssignedMeaning(t, env) = NoValue
    BY DEF AssignedMeaning
  <2> QED  BY <2>2, <2>3, <2>4
<1>3. n = NameOf(t.kids[1])
  BY WordsAre DEF NameOf
<1>4. WillBeTyped(Func, T)
  <2>1. Func.tag = "func"
    BY DEF Func
  <2>2. \A bb : Typed(Func, T, bb)
    BY <1>0, <1>1, <2>1, FuncFails
  <2> QED  BY <2>2 DEF WillBeTyped
<1>5. e \in S /\ Understood(e, t, X) /\ WillBeTyped(e, T)
  <2> DEFINE v == Func
  <2>1. v \in S /\ MeansAssigned(v, t, X) /\ WillBeTyped(v, T)
    BY <1>1, <1>2, <1>4 DEF MeansAssigned
  <2> HIDE DEF v, n
  <2>2. n \in Names
    BY DEF n
  <2>3. AssignTyped(n, NoType, v) \in S /\ Understood(AssignTyped(n, NoType, v), t, X) /\ WillBeTyped(AssignTyped(n, NoType, v), T)
    BY <1>0, <1>3, <2>1, <2>2, AssignUnderstood
  <2> QED  BY <2>3 DEF v
<1>6. ASSUME All, value.ok PROVE value.made \in Nat /\ (MakesType(t) \/ value.made = m)
  <2>1. g.made \in Nat /\ (MakesType(t) \/ g.made = m)
    <3>1. \A i \in DOMAIN t.kids[1].kids : t.kids[1].kids[i].label = ":"
      BY <1>6
    <3> HIDE DEF value, e, All
    <3> QED  BY <3>1, ArgumentTypes
  <2>2. 2 \in 1 .. Len(t.kids) /\ (MakesType(t.kids[2]) => MakesType(t))
    BY <1>0, TwoKids, Inside
  <2> HIDE DEF g
  <2>3. Translates(value, t.kids[2], g.made, S, T, X)
    BY <2>1, <2>2 DEF EachTranslates
  <2> HIDE DEF value
  <2>4. value.made \in Nat /\ (MakesType(t.kids[2]) \/ value.made = g.made)
    BY <1>6, <2>3 DEF Translates, Conversions
  <2> QED  BY <2>1, <2>2, <2>4
<1> HIDE DEF e, value, All
<1>7. CASE ConvertFunction(t, b, m) = NotConverted
  BY <1>1, <1>7, NothingTranslates
<1>8. CASE All /\ value.ok /\ ConvertFunction(t, b, m) = Converted(e, value.made)
  <2>1. Translates(Converted(e, value.made), t, m, S, T, X)
    BY <1>5, <1>6, <1>8, SomethingTranslates
  <2> QED  BY <1>8, <2>1
<1> QED  BY <1>f, <1>7, <1>8

\* An assignment.
LEMMA AssignTranslates ==
  ASSUME NEW S, NEW T, NEW depth, NEW tdepth, NEW X, NEW K, NEW U, NEW height,
         Compiler(S, T, depth, tdepth, X, K, U, height),
         NEW b, NEW t \in K, NEW m \in Nat, t.label = "=", EachTranslates(t.kids, b, S, T, X)
  PROVE  Translates(Convert(t, b, m), t, m, S, T, X)
<1>0. S = Forms(S, T) /\ NoType \in T /\ ChecksIs(S) /\ Trees(K, U, height) /\ WithinIs(K) /\ Unsupported \in S
  BY CompilerIs, FormsMade DEF Compiler
<1>g. /\ ~(t.kids = <<>> /\ t.label \in DOMAIN LiteralType)
      /\ ~(t.kids = <<>> /\ t.label \in Names)
      /\ ~(Len(t.kids) = 2 /\ t.label \in InfixLabels)
      /\ ~(Len(t.kids) = 1 /\ t.label \in {"*", "-"})
      /\ t.label # ":" /\ t.label # "with" /\ t.label # "if"
  BY WordsAre
<1> DEFINE head == t.kids[1]
           val == t.kids[2]
           type == IF head.label = ":" THEN GenerateType(head.kids[2], b, m) ELSE Generated(NoType, m)
           value == Converts(val, b, type.made)
           n == NameOf(head)
           e == AssignTyped(n, type.type, value.sexpr)
           Fun == head.label \in Names /\ head.kids # <<>>
<1>1. Convert(t, b, m) = IF Fun THEN ConvertFunction(t, b, m)
                         ELSE IF n \in Names /\ value.ok THEN Converted(e, value.made) ELSE NotConverted
  BY <1>g DEF Convert, ConvertAssign, NameOf
<1>2. /\ head \in K /\ val \in K /\ 1 \in 1 .. Len(t.kids) /\ 2 \in 1 .. Len(t.kids) /\ val.label # ":"
      /\ (MakesType(head) => MakesType(t)) /\ (MakesType(val) => MakesType(t))
      /\ (DeclaresInBranch(val) => DeclaresInBranch(t))
  <2>1. head \in K /\ val \in K /\ 1 \in 1 .. Len(t.kids) /\ 2 \in 1 .. Len(t.kids) /\ val.label # ":"
    BY <1>0, TwoKids
  <2> QED  BY <1>0, <2>1, Inside
<1>3. type.type \in T /\ type.made \in Nat /\ (MakesType(t) \/ type.made = m)
  <2>1. CASE head.label = ":"
    <3> HIDE DEF head
    <3>1. head.kids[2] \in U
      BY <1>0, <1>2, <2>1, TwoKids
    <3>2. head.kids[2].kids # <<>> => MakesType(head)
      BY <1>0, <1>2, <2>1, Inside
    <3> DEFINE u == head.kids[2]
               g == GenerateType(u, b, m)
    <3> HIDE DEF u
    <3>3. g.type \in T /\ g.made \in Nat /\ (u.kids = <<>> => g.made = m)
      BY <3>1, TypeGenerated DEF u
    <3>4. type = g
      BY <2>1 DEF u
    <3> HIDE DEF g, type
    <3> QED  BY <1>2, <3>2, <3>3, <3>4 DEF u
  <2>2. CASE head.label # ":"
    <3>1. type.type = NoType /\ type.made = m
      BY <2>2 DEF Generated
    <3> HIDE DEF type
    <3> QED  BY <1>0, <3>1
  <2> QED  BY <2>1, <2>2
<1> HIDE DEF type
<1>4. Translates(value, val, type.made, S, T, X)
  BY <1>2, <1>3 DEF EachTranslates
<1> HIDE DEF value
<1>5. /\ value.sexpr \in S /\ value.made \in Nat
      /\ value.ok => /\ Understood(value.sexpr, val, X) /\ (Typable(val) => WillBeTyped(value.sexpr, T))
                     /\ (MakesType(val) \/ value.made = type.made)
  BY <1>4 DEF Translates, Conversions
<1>6. CASE Fun
  BY <1>1, <1>6, FunctionTranslates
<1>7. CASE ~Fun /\ n \in Names /\ value.ok
  <2> DEFINE v == value.sexpr
             a == type.type
  <2>1. MeansAssigned(v, t, X)
    <3>1. \A env : AssignedMeaning(t, env) = TreeMeans(val, env)
      BY <1>7 DEF AssignedMeaning
    <3>2. Understood(v, val, X)
      BY <1>5, <1>7
    <3> QED  BY <3>1, <3>2 DEF Understood, MeansAssigned
  <2>2. v \in S /\ a \in T
    BY <1>3, <1>5
  <2> HIDE DEF v, a, n
  <2>3. n \in Names /\ n = NameOf(t.kids[1])
    BY <1>7 DEF n
  <2>4. AssignTyped(n, a, v) \in S /\ Understood(AssignTyped(n, a, v), t, X) /\ (WillBeTyped(v, T) => WillBeTyped(AssignTyped(n, a, v), T))
    BY <2>1, <2>2, <2>3, AssignUnderstood
  <2>5. Typable(t) => WillBeTyped(v, T)
    BY <1>2, <1>5, <1>7 DEF Typable, v
  <2>6. MakesType(t) \/ value.made = m
    BY <1>2, <1>3, <1>5, <1>7
  <2>7. Convert(t, b, m) = Converted(AssignTyped(n, a, v), value.made)
    BY <1>1, <1>7 DEF v, a
  <2> DEFINE f == AssignTyped(n, a, v)
  <2>8. f \in S /\ Understood(f, t, X) /\ (Typable(t) => WillBeTyped(f, T))
    BY <2>4, <2>5
  <2> HIDE DEF f
  <2>9. Translates(Converted(f, value.made), t, m, S, T, X)
    BY <1>5, <2>6, <2>8, SomethingTranslates
  <2> QED  BY <2>7, <2>9 DEF f
<1>8. CASE ~Fun /\ ~(n \in Names /\ value.ok)
  <2>1. Convert(t, b, m) = NotConverted
    BY <1>1, <1>8
  <2> QED  BY <1>0, <2>1, NothingTranslates
<1> QED  BY <1>6, <1>7, <1>8

\* Every tree is converted to what it stands for, or not at all.
LEMMA ConvertTranslates ==
  ASSUME NEW S, NEW T, NEW depth, NEW tdepth, NEW X, NEW K, NEW U, NEW height,
         Compiler(S, T, depth, tdepth, X, K, U, height)
  PROVE  \A b : \A t \in K : \A m \in Nat : Translates(Convert(t, b, m), t, m, S, T, X)
<1>0. Trees(K, U, height) /\ ConvertsIs(K) /\ height \in [K -> Nat] /\ Unsupported \in S
  BY CompilerIs, FormsMade DEF Compiler, Trees
<1> SUFFICES ASSUME NEW b PROVE \A t \in K : \A m \in Nat : Translates(Convert(t, b, m), t, m, S, T, X)
  OBVIOUS
<1> DEFINE G == {t \in K : \A m \in Nat : Translates(Convert(t, b, m), t, m, S, T, X)}
<1>1. ASSUME NEW t \in K, \A p \in K : height[p] < height[t] => p \in G, NEW m \in Nat
      PROVE  Translates(Convert(t, b, m), t, m, S, T, X)
  <2>1. EachTranslates(t.kids, b, S, T, X)
    <3>1. \A i \in 1 .. Len(t.kids) : t.kids[i] \in K /\ height[t.kids[i]] < height[t]
      BY <1>0, KidsAre
    <3>2. ASSUME NEW i \in 1 .. Len(t.kids), NEW k \in Nat
          PROVE  Translates(Converts(t.kids[i], b, k), t.kids[i], k, S, T, X)
      <4> DEFINE p == t.kids[i]
      <4>1. p \in K /\ height[p] < height[t]
        BY <3>1
      <4> HIDE DEF p
      <4>2. Translates(Convert(p, b, k), p, k, S, T, X) /\ Converts(p, b, k) = Convert(p, b, k)
        BY <1>0, <1>1, <4>1 DEF ConvertsIs
      <4> QED  BY <4>2 DEF p
    <3> QED  BY <3>2 DEF EachTranslates
  <2>a. CASE t.kids = <<>> /\ t.label \in DOMAIN LiteralType
    BY <2>a, LiteralTranslates
  <2>b. CASE t.kids = <<>> /\ t.label \in Names
    BY <2>b, SymbolTranslates
  <2>c. CASE Len(t.kids) = 2 /\ t.label \in InfixLabels
    BY <2>1, <2>c, InfixTranslates
  <2>d. CASE Len(t.kids) = 1 /\ t.label \in {"*", "-"}
    BY <2>1, <2>d, PrefixTranslates
  <2>e. CASE t.label = "="
    BY <2>1, <2>e, AssignTranslates
  <2>f. CASE t.label = ":"
    BY <2>f, DeclareTranslates
  <2>g. CASE t.label = "with"
    BY <2>1, <2>g, WithTranslates
  <2>h. CASE t.label = "if"
    BY <2>1, <2>h, IfTranslates
  <2>i. CASE /\ ~(t.kids = <<>> /\ t.label \in DOMAIN LiteralType) /\ ~(t.kids = <<>> /\ t.label \in Names)
             /\ ~(Len(t.kids) = 2 /\ t.label \in InfixLabels) /\ ~(Len(t.kids) = 1 /\ t.label \in {"*", "-"})
             /\ t.label # "=" /\ t.label # ":" /\ t.label # "with" /\ t.label # "if"
    <3>1. Convert(t, b, m) = NotConverted
      BY <2>i DEF Convert
    <3> QED  BY <1>0, <3>1, NothingTranslates
  <2> QED  BY <2>a, <2>b, <2>c, <2>d, <2>e, <2>f, <2>g, <2>h, <2>i
<1>2. K \subseteq G
  <2>1. \A t \in K : (\A p \in K : height[p] < height[t] => p \in G) => t \in G
    BY <1>1
  <2> HIDE DEF G
  <2> QED  BY <1>0, <2>1, ByHeight
<1> QED  BY <1>2
-----------------------------------------------------------------------------
(* What main's stores leave in the memory.                                 *)

\* s are the memories after each of the stores.
StoredOneByOne(m, stores, s) ==
    /\ s[0] = m
    /\ \A k \in 1 .. Len(stores) : s[k] = Store(s[k - 1], stores[k])
    /\ Stored(m, stores) = s[Len(stores)]

\* The stores are made one after the other.
LEMMA StoredIs ==
  ASSUME NEW stores, Len(stores) \in Nat, NEW m
  PROVE  \E s : StoredOneByOne(m, stores, s)
<1> DEFINE n == Len(stores)
           start == m
           Turn(k, p) == Store(p, stores[k])
           IsRun(f) == f = [k \in 0 .. n |-> IF k = 0 THEN start ELSE Turn(k, f[k - 1])]
           Fits(j, f) == f[0] = start /\ \A k \in 1 .. j : f[k] = Turn(k, f[k - 1])
           M == {j \in 0 .. n : \E f : Fits(j, f)}
           run == CHOOSE f : IsRun(f)
<1>1. n \in Nat
  OBVIOUS
<1>2. Stored(m, stores) = run[n]
  BY DEF Stored
<1> HIDE DEF n, start, Turn
<1>3. 0 \in M
  <2> DEFINE f == [k \in 0 .. 0 |-> start]
  <2>1. f[0] = start /\ \A k \in 1 .. 0 : FALSE
    OBVIOUS
  <2> HIDE DEF f
  <2> QED  BY <1>1, <2>1
<1>4. ASSUME NEW j \in 1 .. n, j - 1 \in M PROVE j \in M
  <2>1. PICK f : Fits(j - 1, f)
    BY <1>4
  <2> DEFINE g == [k \in 0 .. j |-> IF k = j THEN Turn(j, f[j - 1]) ELSE f[k]]
  <2>2. /\ j - 1 \in 0 .. j /\ j # 0 /\ j - 1 # j /\ 0 \in 0 .. j /\ j \in 0 .. j /\ j \in 0 .. n
        /\ \A k \in 1 .. j : k = j \/ k \in 1 .. j - 1
        /\ \A k \in 1 .. j - 1 : k \in 0 .. j /\ k # j /\ k - 1 \in 0 .. j /\ k - 1 # j
    BY <1>1
  <2>3. g[0] = start /\ g[j] = Turn(j, g[j - 1])
    BY <2>1, <2>2
  <2>4. \A k \in 1 .. j - 1 : g[k] = f[k] /\ g[k - 1] = f[k - 1] /\ f[k] = Turn(k, f[k - 1])
    BY <2>1, <2>2
  <2> HIDE DEF g
  <2>5. Fits(j, g)
    BY <2>2, <2>3, <2>4
  <2> QED  BY <2>2, <2>5
<1>5. n \in M
  <2>1. 0 .. n \subseteq M
    <3> HIDE DEF M
    <3> QED  BY <1>1, <1>3, <1>4, NumbersUpTo
  <2>2. n \in 0 .. n
    BY <1>1
  <2> HIDE DEF M
  <2> QED  BY <2>1, <2>2
<1>6. PICK f : Fits(n, f)
  BY <1>5
<1>7. \A k \in 0 .. n : k = 0 \/ (k # 0 /\ k \in 1 .. n /\ k - 1 \in 0 .. n)
  BY <1>1
<1>8. \A k \in 1 .. n : k # 0 /\ k \in 0 .. n /\ k - 1 \in 0 .. n
  BY <1>1
<1>9. IsRun(run)
  <2> DEFINE h == [k \in 0 .. n |-> f[k]]
  <2>1. ASSUME NEW k \in 0 .. n PROVE h[k] = IF k = 0 THEN start ELSE Turn(k, h[k - 1])
    <3>1. k # 0 => h[k - 1] = f[k - 1]
      BY <1>7
    <3> QED  BY <1>6, <1>7, <3>1
  <2>2. IsRun(h)
    BY <2>1
  <2> HIDE DEF h, IsRun
  <2> QED  BY <2>2
<1> HIDE DEF run
<1>10. \A k \in 0 .. n : run[k] = IF k = 0 THEN start ELSE Turn(k, run[k - 1])
  BY <1>9
<1>11. run[0] = start /\ \A k \in 1 .. n : run[k] = Turn(k, run[k - 1])
  <2>1. 0 \in 0 .. n
    BY <1>1
  <2> HIDE DEF IsRun
  <2> QED  BY <1>8, <1>10, <2>1
<1> QED  BY <1>2, <1>11 DEF n, start, Turn, StoredOneByOne

\* One more store is made after the others.
LEMMA StoredNext ==
  ASSUME NEW V, NEW stores \in Seq(V), NEW x \in V, NEW m
  PROVE  Stored(m, Append(stores, x)) = Store(Stored(m, stores), x)
<1> DEFINE n == Len(stores)
           more == Append(stores, x)
<1>1. /\ n \in Nat /\ Len(more) = n + 1 /\ Len(more) \in Nat /\ more[n + 1] = x
      /\ \A k \in 1 .. n : more[k] = stores[k]
  BY LenProperties, AppendProperties
<1> HIDE DEF more
<1>2. PICK s : StoredOneByOne(m, stores, s)
  BY <1>1, StoredIs
<1>3. PICK r : StoredOneByOne(m, more, r)
  BY <1>1, StoredIs
<1> HIDE DEF n
<1>4. /\ s[0] = m /\ r[0] = m /\ Stored(m, stores) = s[n] /\ Stored(m, more) = r[n + 1]
      /\ \A k \in 1 .. n : s[k] = Store(s[k - 1], stores[k])
      /\ \A k \in 1 .. n + 1 : r[k] = Store(r[k - 1], more[k])
  BY <1>1, <1>2, <1>3 DEF StoredOneByOne, n
<1> DEFINE M == {k \in 0 .. n : r[k] = s[k]}
<1>5. 0 \in M
  BY <1>1, <1>4
<1>6. ASSUME NEW k \in 1 .. n, k - 1 \in M PROVE k \in M
  <2>1. k \in 0 .. n /\ k \in 1 .. n + 1
    BY <1>1
  <2>2. r[k] = Store(r[k - 1], more[k]) /\ s[k] = Store(s[k - 1], stores[k]) /\ more[k] = stores[k]
    BY <1>1, <1>4, <2>1
  <2>3. r[k - 1] = s[k - 1]
    BY <1>6
  <2> QED  BY <2>1, <2>2, <2>3
<1>7. 0 .. n \subseteq M
  <2> HIDE DEF M
  <2> QED  BY <1>1, <1>5, <1>6, NumbersUpTo
<1>8. r[n] = s[n] /\ n + 1 \in 1 .. n + 1 /\ (n + 1) - 1 = n
  <2>1. n \in 0 .. n /\ n + 1 \in 1 .. n + 1 /\ (n + 1) - 1 = n
    BY <1>1
  <2>2. n \in M
    <3> HIDE DEF M
    <3> QED  BY <1>7, <2>1
  <2> QED  BY <2>1, <2>2
<1>9. r[n + 1] = Store(r[n], more[n + 1])
  BY <1>4, <1>8
<1> QED  BY <1>1, <1>4, <1>8, <1>9 DEF more

\* Without stores nothing changes.
LEMMA NothingStored == \A m : Stored(m, <<>>) = m
<1> SUFFICES ASSUME NEW m PROVE Stored(m, <<>>) = m
  OBVIOUS
<1>1. Len(<<>>) = 0 /\ 0 \in Nat
  OBVIOUS
<1>2. PICK s : StoredOneByOne(m, <<>>, s)
  BY <1>1, StoredIs
<1> QED  BY <1>1, <1>2 DEF StoredOneByOne
-----------------------------------------------------------------------------
(* Subtypes have no other values than the type.                            *)

\* What the constants of types stand for.
SubsumesIs(T) == \A t, u \in T : Subsumes(t, u) = TypeSubtype(t, u)
ShapesIs(T) == \A t \in T : ShapesOf(t) = Shapes(t)

\* The fields of a type.
LEMMA FieldsAre ==
  ASSUME NEW T, NEW tdepth, TypeLanguage(T, tdepth), NEW t \in T
  PROVE  /\ DOMAIN t.fields = 1 .. Len(t.fields) /\ Len(t.fields) \in Nat
         /\ \A i \in 1 .. Len(t.fields) : t.fields[i] \in T /\ tdepth[t.fields[i]] < tdepth[t]
<1>1. t.fields \in Seq(T) /\ \A i \in DOMAIN t.fields : tdepth[t.fields[i]] < tdepth[t]
  BY DEF TypeLanguage
<1>2. Len(t.fields) \in Nat /\ DOMAIN t.fields = 1 .. Len(t.fields)
  BY <1>1, LenProperties
<1>3. \A i \in 1 .. Len(t.fields) : t.fields[i] \in T
  BY <1>1, ElementOfSeq
<1> QED  BY <1>1, <1>2, <1>3

\* super allows every value that a type it subsumes does.
Admits(T, super) == \A sub \in T : TypeSubtype(super, sub) => Shapes(sub) \subseteq Shapes(super)

\* A union, whose alternatives do.
LEMMA UnionAdmits ==
  ASSUME NEW T, NEW tdepth, TypeLanguage(T, tdepth), SubsumesIs(T), ShapesIs(T),
         NEW super \in T, super.kind = "UNION", super # NoType,
         \A i \in 1 .. Len(super.fields) : Admits(T, super.fields[i])
  PROVE  Admits(T, super)
<1> SUFFICES ASSUME NEW sub \in T, TypeSubtype(super, sub), NEW x \in Shapes(sub)
             PROVE  x \in Shapes(super)
  BY DEF Admits
<1>1. /\ DOMAIN super.fields = 1 .. Len(super.fields)
      /\ \A i \in 1 .. Len(super.fields) : super.fields[i] \in T
  BY FieldsAre
<1>2. NoType = sub \/ UnionHas(super, sub)
  BY DEF TypeSubtype
<1>3. CASE NoType = sub
  BY <1>3 DEF TypeSubtype
<1>4. CASE super = sub
  BY <1>4
<1>5. CASE \E i \in DOMAIN super.fields : Subsumes(super.fields[i], sub)
  <2>1. PICK i \in DOMAIN super.fields : Subsumes(super.fields[i], sub)
    BY <1>5
  <2>2. super.fields[i] \in T /\ Admits(T, super.fields[i]) /\ TypeSubtype(super.fields[i], sub)
    BY <1>1, <2>1 DEF SubsumesIs
  <2>3. x \in ShapesOf(super.fields[i])
    BY <2>2 DEF Admits, ShapesIs
  <2> QED  BY <2>3 DEF Shapes
<1> QED  BY <1>2, <1>3, <1>4, <1>5 DEF UnionHas

\* Any other type, whose fields do.
LEMMA FieldsAdmit ==
  ASSUME NEW T, NEW tdepth, TypeLanguage(T, tdepth), SubsumesIs(T), ShapesIs(T),
         NEW super \in T, super.kind # "UNION",
         \A i \in 1 .. Len(super.fields) : Admits(T, super.fields[i])
  PROVE  Admits(T, super)
<1> SUFFICES ASSUME NEW sub \in T, TypeSubtype(super, sub), super # sub, NEW x \in Shapes(sub)
             PROVE  x \in Shapes(super)
  BY DEF Admits
<1>1. /\ super.kind = sub.kind /\ Len(super.fields) = Len(sub.fields) /\ super.name = sub.name
      /\ SameFields(super, sub)
  BY DEF TypeSubtype
<1> DEFINE D == 1 .. Len(super.fields)
<1>2. /\ DOMAIN super.fields = D /\ DOMAIN sub.fields = D
      /\ \A i \in D : super.fields[i] \in T /\ sub.fields[i] \in T
  BY <1>1, FieldsAre
<1>3. \A i \in D : Subsumes(super.fields[i], sub.fields[i])
  BY <1>1, <1>2 DEF SameFields
<1> HIDE DEF D
<1>4. ASSUME NEW i \in D PROVE ShapesOf(sub.fields[i]) \subseteq ShapesOf(super.fields[i])
  <2>1. /\ super.fields[i] \in T /\ sub.fields[i] \in T
        /\ TypeSubtype(super.fields[i], sub.fields[i])
    BY <1>2, <1>3 DEF SubsumesIs
  <2>2. Admits(T, super.fields[i])
    BY DEF D
  <2>3. Shapes(sub.fields[i]) \subseteq Shapes(super.fields[i])
    BY <2>1, <2>2 DEF Admits
  <2> QED  BY <2>1, <2>3 DEF ShapesIs
<1> DEFINE Fields(t) == UNION {ShapesOf(t.fields[i]) : i \in D}
           Partings(t) == {p \in [D -> Fields(t)] : \A i \in D : p[i] \in ShapesOf(t.fields[i])}
<1>5. Shapes(sub) = {Shape(sub.kind, sub.name, parts) : parts \in Partings(sub)}
  BY <1>1, <1>2 DEF Shapes
<1>6. Shapes(super) = {Shape(super.kind, super.name, parts) : parts \in Partings(super)}
  BY <1>2 DEF Shapes
<1>7. Partings(sub) \subseteq Partings(super)
  <2>1. ASSUME NEW p \in Partings(sub) PROVE p \in Partings(super)
    <3>1. p \in [D -> Fields(sub)] /\ \A i \in D : p[i] \in ShapesOf(sub.fields[i])
      OBVIOUS
    <3>2. \A i \in D : p[i] \in ShapesOf(super.fields[i])
      BY <1>4, <3>1
    <3>3. \A i \in D : p[i] \in Fields(super)
      BY <3>2
    <3> HIDE DEF Fields
    <3>4. p \in [D -> Fields(super)]
      BY <3>1, <3>3
    <3> QED  BY <3>2, <3>4
  <2> HIDE DEF Partings
  <2> QED  BY <2>1
<1> HIDE DEF Partings
<1> QED  BY <1>1, <1>5, <1>6, <1>7

\* Whatever type_subtype finds to be a subtype has none but values of the type.
LEMMA SubtypesAdmitted ==
  ASSUME NEW T, NEW tdepth, TypeLanguage(T, tdepth), SubsumesIs(T), ShapesIs(T)
  PROVE  \A super \in T : Admits(T, super)
<1> DEFINE G == {t \in T : Admits(T, t)}
<1>1. tdepth \in [T -> Nat]
  BY DEF TypeLanguage
<1>2. ASSUME NEW super \in T, \A p \in T : tdepth[p] < tdepth[super] => p \in G PROVE super \in G
  <2>1. \A i \in 1 .. Len(super.fields) : super.fields[i] \in T /\ tdepth[super.fields[i]] < tdepth[super]
    BY FieldsAre
  <2>2. \A i \in 1 .. Len(super.fields) : Admits(T, super.fields[i])
    BY <1>2, <2>1
  <2>3. CASE super.kind # "UNION"
    BY <2>2, <2>3, FieldsAdmit
  <2>4. CASE super.kind = "UNION"
    <3>1. super # NoType
      BY <2>4 DEF NoType, TypeOf
    <3> QED  BY <2>2, <2>4, <3>1, UnionAdmits
  <2> QED  BY <2>3, <2>4
<1>3. T \subseteq G
  <2> HIDE DEF G
  <2> QED  BY <1>1, <1>2, ByHeight
<1> QED  BY <1>3
-----------------------------------------------------------------------------
(* Assignments.                                                            *)

\* The type of an assignment is that of its value, or one that subsumes it.
Assigns(e) == e.type = e.value.type \/ TypeSubtype(e.type, e.value.type)

\* Once an assignment has passed, its type is so.
LEMMA AssignAdmits ==
  ASSUME NEW S, NEW T, NEW X, S = Forms(S, T), ChecksIs(S), NEW b, EveryKept(S, T, X, b),
         NEW e \in S, e.tag = "assign", NEW s \in Stacks(T), Check(e, s, b).ok
  PROVE  Assigns(Check(e, s, b).sexpr)
<1> DEFINE r == Check(e, s, b)
           c == Checks(e.value, s, b)
           known == c.scopes[Len(s)][e.name]
           type == IF known = NoType THEN c.sexpr.type ELSE known
           d == AssignOf(e, c.sexpr, type)
<1>1. r = CheckAssign(e, s, b)
  BY DEF Check, Literals
<1>2. e.value \in S /\ e.name \in Names
  BY FormOf DEF Literals
<1>3. Keeping(c, e.value, s, S, T, X)
  BY <1>2 DEF EveryKept
<1>4. c \in Results(S, T)
  <2> HIDE DEF c
  <2> QED  BY <1>3 DEF Keeping
<1>5. c.ok
  <2>1. ~c.ok => r = Unsuccessful(c, e)
    <3> HIDE DEF c, r
    <3> QED  BY <1>1 DEF CheckAssign, c
  <2> HIDE DEF c
  <2>2. ~c.ok => ~Unsuccessful(c, e).ok
    BY <1>4, FailurePassedOn
  <2> QED  BY <2>1, <2>2
<1>6. ~(known # NoType /\ ~TypeSubtype(known, c.sexpr.type))
  <2>1. (known # NoType /\ ~TypeSubtype(known, c.sexpr.type)) => r = Failed(e, c.scopes)
    BY <1>1, <1>5 DEF CheckAssign
  <2> HIDE DEF known, c
  <2> QED  BY <2>1, Returned
<1>7. r.sexpr = d
  <2>1. r = Accepted(d, Bind(c.scopes, e.name, type))
    BY <1>1, <1>5, <1>6 DEF CheckAssign, AssignOf
  <2> HIDE DEF d, type, c
  <2> QED  BY <2>1, Returned
<1>8. c.sexpr \in S /\ c.scopes \in Stacks(T) /\ Len(c.scopes) = Len(s)
  <2> HIDE DEF c
  <2> QED  BY <1>3, <1>4, <1>5 DEF Keeping, Results
<1>9. d.type = type /\ d.value = c.sexpr
  <2>1. e \in [tag : {"assign"}, type : T, annotation : T, name : Names, value : S]
    BY RecordOf
  <2> HIDE DEF c, type
  <2> QED  BY <2>1 DEF AssignOf
<1>10. type = c.sexpr.type \/ TypeSubtype(type, c.sexpr.type)
  <2> HIDE DEF known, c
  <2> QED  BY <1>6
<1> HIDE DEF d, type, c, r
<1> QED  BY <1>7, <1>9, <1>10 DEF Assigns, r
-----------------------------------------------------------------------------
(* The globals while main is built.                                        *)

\* The scopes of a program: one.
GlobalScope(env, X) == env \in Seq([Names -> Spoken(X)]) /\ Len(env) = 1

\* Every variable has the value that the statements built so far give it, once the
\* stores that were built have been made, and it has a global of the value's type.
Agrees(types, env, mem) ==
    /\ mem = [n \in Names |-> mem[n]]
    /\ \A n \in Names :
          \/ types[n] = Absent /\ mem[n] = NoValue /\ env[1][n] = NoValue
          \/ /\ types[n] \in MachineTypes
             /\ mem[n] = Value(types[n], mem[n].term)
             /\ env[1][n] = Value(LanguageType(types[n]), mem[n].term)

\* Of the types of the machine.
LEMMA MachineTypesAre ==
  /\ AreTypes(MachineTypes) /\ Absent \notin MachineTypes
  /\ LanguageType(NoValue.type) = NoValue.type /\ NoValue.type \notin MachineTypes
BY DEF AreTypes, MachineTypes, Absent, LanguageType, NoValue, Value

\* What a name has in the scope of a program.
LEMMA LookedOnce ==
  ASSUME NEW X, NEW env, GlobalScope(env, X), NEW n \in Names
  PROVE  Looked(env, n, NoValue) = env[1][n]
<1>1. DOMAIN env = 1 .. 1 /\ 1 \in Nat /\ 1 \in 1 .. 1 /\ \A j \in 1 .. 1 : j = 1
  <2>1. DOMAIN env = 1 .. Len(env)
    BY LenProperties DEF GlobalScope
  <2> QED  BY <2>1 DEF GlobalScope
<1>2. CASE env[1][n] = NoValue
  <2>1. IsLast(0, 1, env, n, NoValue)
    BY <1>1, <1>2 DEF IsLast
  <2>2. Innermost(env, n, NoValue) = 0
    BY <1>1, <2>1, InnermostOnly
  <2> QED  BY <1>2, <2>2 DEF Looked
<1>3. CASE env[1][n] # NoValue
  <2>1. IsLast(1, 1, env, n, NoValue)
    BY <1>1, <1>3 DEF IsLast
  <2>2. Innermost(env, n, NoValue) = 1
    BY <1>1, <2>1, InnermostOnly
  <2> QED  BY <2>2 DEF Looked
<1> QED  BY <1>2, <1>3

\* What is built with these globals means what it says.
LEMMA AgreesRelated ==
  ASSUME NEW X, AreTerms(X), ComputesIs(X), NEW env, GlobalScope(env, X), NEW types, NEW mem,
         Agrees(types, env, mem)
  PROVE  Related(<<>>, types, env, mem)
<1>1. ASSUME NEW n \in Names
      PROVE  Sound(Found(<<>>, types, n), Looked(env, n, NoValue), mem)
  <2>1. Looked(<<>>, n, NoValue) = NoValue
    BY DEF Looked, Innermost
  <2>2. Looked(env, n, NoValue) = env[1][n]
    BY LookedOnce
  <2>3. Found(<<>>, types, n) = Global(types, n)
    BY <2>1 DEF Found
  <2>4. CASE types[n] = Absent
    BY <2>3, <2>4 DEF Global, Sound
  <2>5. CASE types[n] # Absent
    <3> DEFINE t == types[n]
    <3>1. t \in MachineTypes /\ env[1][n] = Value(LanguageType(t), mem[n].term)
      BY <2>5 DEF Agrees
    <3>2. Found(<<>>, types, n) = Value(t, Load(n))
      BY <2>3, <2>5 DEF Global
    <3>3. Computes(Load(n), mem) = mem[n].term
      BY Computed
    <3> HIDE DEF t
    <3> QED  BY <2>2, <3>1, <3>2, <3>3, ValueIs DEF Sound, Same
  <2> QED  BY <2>4, <2>5
<1> QED  BY <1>1 DEF Related

\* A name is bound in the scope of a program.
LEMMA BoundOnce ==
  ASSUME NEW X, NEW env, GlobalScope(env, X), NEW n \in Names, NEW w \in Spoken(X)
  PROVE  /\ GlobalScope(Bind(env, n, w), X)
         /\ \A m \in Names : Bind(env, n, w)[1][m] = IF m = n THEN w ELSE env[1][m]
<1> DEFINE V == Spoken(X)
<1>0. env \in Stacks(V) /\ Len(env) = 1
  <2>1. env \in Seq([Names -> V]) /\ Len(env) = 1 /\ Len(<<>>) = 0 /\ 0 # 1
    BY DEF GlobalScope
  <2> HIDE DEF V
  <2> QED  BY <2>1 DEF Stacks
<1>1. /\ Bind(env, n, w) \in Stacks(V) /\ Len(Bind(env, n, w)) = Len(env)
      /\ \A j \in 1 .. Len(env) :
            Bind(env, n, w)[j] = IF j = Len(env) THEN [env[j] EXCEPT ![n] = w] ELSE env[j]
  <2>1. w \in V
    OBVIOUS
  <2> HIDE DEF V
  <2> QED  BY <1>0, <2>1, StackBound
<1>2. 1 \in 1 .. Len(env)
  BY <1>0
<1>3. Bind(env, n, w)[1] = [env[1] EXCEPT ![n] = w]
  BY <1>0, <1>1, <1>2
<1>4. env[1] \in [Names -> V]
  <2>1. env \in Seq([Names -> V])
    BY DEF GlobalScope
  <2> HIDE DEF V
  <2> QED  BY <1>2, <2>1, ElementOfSeq
<1>5. \A m \in Names : Bind(env, n, w)[1][m] = IF m = n THEN w ELSE env[1][m]
  <2> HIDE DEF V
  <2> QED  BY <1>3, <1>4
<1>6. Bind(env, n, w) \in Seq([Names -> V])
  <2> HIDE DEF V
  <2> QED  BY <1>1 DEF Stacks
<1> QED  BY <1>0, <1>1, <1>5, <1>6 DEF GlobalScope

\* What is built next: a store of what the statement says.
LEMMA AgreesStored ==
  ASSUME NEW X, ComputesIs(X), NEW env, GlobalScope(env, X),
         NEW types \in [Names -> MachineTypes \cup {Absent}], NEW mem, Agrees(types, env, mem),
         NEW n \in Names, NEW v, v.term \in X, NEW w \in Spoken(X), Same(v, w, mem)
  PROVE  /\ Agrees([types EXCEPT ![n] = v.type], Bind(env, n, w), Store(mem, [name |-> n, value |-> v]))
         /\ GlobalScope(Bind(env, n, w), X)
         /\ [types EXCEPT ![n] = v.type] \in [Names -> MachineTypes \cup {Absent}]
<1> DEFINE x == Computes(v.term, mem)
           u == Value(v.type, x)
           mem2 == Store(mem, [name |-> n, value |-> v])
           types2 == [types EXCEPT ![n] = v.type]
           env2 == Bind(env, n, w)
<1>1. v.type \in MachineTypes /\ w = Value(LanguageType(v.type), x)
  BY DEF Same
<1>2. x = Evaluate(v.term, mem)
  BY DEF ComputesIs
<1>3. mem2 = [mem EXCEPT ![n] = u]
  BY <1>2 DEF Store
<1>4. mem = [m \in Names |-> mem[m]]
  BY DEF Agrees
<1>5. /\ mem2 = [m \in Names |-> mem2[m]]
      /\ \A m \in Names : mem2[m] = IF m = n THEN u ELSE mem[m]
  <2> HIDE DEF u, mem2
  <2> QED  BY <1>3, <1>4
<1>6. /\ GlobalScope(env2, X)
      /\ \A m \in Names : env2[1][m] = IF m = n THEN w ELSE env[1][m]
  BY BoundOnce
<1>7. \A m \in Names : types2[m] = IF m = n THEN v.type ELSE types[m]
  OBVIOUS
<1>8. types2 \in [Names -> MachineTypes \cup {Absent}]
  BY <1>1
<1>9. u.term = x /\ u = Value(v.type, x)
  BY ValueIs
<1> HIDE DEF mem2, types2, env2, x, u
<1>10. ASSUME NEW m \in Names
       PROVE  \/ types2[m] = Absent /\ mem2[m] = NoValue /\ env2[1][m] = NoValue
              \/ /\ types2[m] \in MachineTypes
                 /\ mem2[m] = Value(types2[m], mem2[m].term)
                 /\ env2[1][m] = Value(LanguageType(types2[m]), mem2[m].term)
  <2>1. CASE m = n
    <3>1. types2[m] = v.type /\ mem2[m] = u /\ env2[1][m] = w
      BY <1>5, <1>6, <1>7, <2>1
    <3> QED  BY <1>1, <1>9, <3>1
  <2>2. CASE m # n
    <3>1. types2[m] = types[m] /\ mem2[m] = mem[m] /\ env2[1][m] = env[1][m]
      BY <1>5, <1>6, <1>7, <2>2
    <3> QED  BY <3>1 DEF Agrees
  <2> QED  BY <2>1, <2>2
<1>11. Agrees(types2, env2, mem2)
  BY <1>5, <1>10 DEF Agrees
<1> QED  BY <1>6, <1>8, <1>11 DEF mem2, types2, env2

\* Where it agrees, the memory holds what the scope does.
LEMMA AgreesMeans ==
  ASSUME NEW types, NEW env, NEW mem, Agrees(types, env, mem), NEW n \in Names
  PROVE  LanguageValue(mem[n]) = env[1][n]
<1>1. \A t, x : [Value(t, x) EXCEPT !.type = LanguageType(@)] = Value(LanguageType(t), x)
  BY DEF Value
<1>2. NoValue = Value(NoValue.type, Const("none"))
  BY DEF NoValue, Value
<1>3. CASE mem[n] = NoValue /\ env[1][n] = NoValue
  BY <1>1, <1>2, <1>3, MachineTypesAre DEF LanguageValue
<1>4. CASE mem[n] = Value(types[n], mem[n].term) /\ env[1][n] = Value(LanguageType(types[n]), mem[n].term)
  BY <1>1, <1>4 DEF LanguageValue
<1> QED  BY <1>3, <1>4 DEF Agrees

\* Nothing agrees with nothing.
LEMMA NothingAgrees ==
  ASSUME NEW X, AreTerms(X)
  PROVE  /\ Agrees([n \in Names |-> Absent], <<NoValues>>, NoValues)
         /\ GlobalScope(<<NoValues>>, X)
<1>1. NoValues \in [Names -> Spoken(X)]
  BY NoValueIn DEF NoValues
<1>2. <<NoValues>> \in Seq([Names -> Spoken(X)]) /\ Len(<<NoValues>>) = 1 /\ <<NoValues>>[1] = NoValues
  <2> DEFINE V == [Names -> Spoken(X)]
  <2>1. NoValues \in V
    BY <1>1
  <2> HIDE DEF V
  <2> QED  BY <2>1 DEF V
<1>3. NoValues = [n \in Names |-> NoValues[n]] /\ \A n \in Names : NoValues[n] = NoValue
  BY DEF NoValues
<1> QED  BY <1>2, <1>3 DEF Agrees, GlobalScope
-----------------------------------------------------------------------------
(* The inductive invariant.                                                *)

\* The compiler, on programs the parser reads as they were written.
CompilesPrograms(S, T, depth, tdepth, X, K, U, height) ==
    /\ Compiler(S, T, depth, tdepth, X, K, U, height)
    /\ SubsumesIs(T) /\ ShapesIs(T)
    /\ Programs \subseteq Seq(K)
    /\ \A p \in Programs : Parses(SourceOf(p)).ok => Parses(SourceOf(p)).kids = p

Stores(X) == [name : Names, value : Machine(X, MachineTypes)]

Typing(S, T, X) ==
    /\ mode \in {"repl", "file"} /\ written \in Programs /\ source = SourceOf(written)
    /\ ir \in Seq(S) /\ types_made \in Nat /\ builtins \in BOOLEAN
    /\ scopes \in Stacks(T) /\ Len(scopes) = 1
    /\ global_type \in [Names -> MachineTypes \cup {Absent}] /\ body \in Seq(Stores(X))
    /\ phase \in {"parse", "convert", "check", "build", "session"}
    /\ status \in {"running", "rejected", "undefined", "done"}

\* How far the pass has got that the program is in.
Progress ==
    /\ phase = "parse" => pos = 0 /\ tree = <<>> /\ ir = <<>>
    /\ phase # "parse" => tree = written /\ pos \in 1 .. Len(written) + 1
    /\ phase = "convert" => Len(ir) = pos - 1
    /\ phase \in {"check", "build", "session"} => Len(ir) = Len(written)

\* The builtin types are there, or the file makes types: before the check it has made
\* them of the statements that are converted.
TypesThere ==
    /\ mode = "repl" => builtins
    /\ phase \in {"parse", "convert"} =>
          mode = "repl" \/ types_made = 0 \/ \E j \in 1 .. Len(ir) : MakesType(written[j])
    /\ phase \in {"check", "build", "session"} =>
          builtins \/ (mode = "file" /\ \E j \in 1 .. Len(written) : MakesType(written[j]))

\* d is what t has become, whether or not it has passed the check.
Carries(d, t, passed, T, X) ==
    /\ Understood(d, t, X)
    /\ ~passed /\ Typable(t) => WillBeTyped(d, T)
    /\ passed /\ d.tag = "assign" => Assigns(d)
    /\ passed /\ builtins /\ Typable(t) => d.type # NoType

Meant(T, X) == \A i \in 1 .. Len(ir) : Carries(ir[i], written[i], HasPassed(i), T, X)

\* What main does as it is built so far is what the statements so far mean.
BuildsMeaning(X) ==
    \E s : /\ TreesOneByOne(written, <<NoValues>>, s)
           /\ GlobalScope(s[pos - 1], X)
           /\ Agrees(global_type, s[pos - 1], Stored(NoValues, body))

MainBuilt(X) ==
    /\ phase # "build" => global_type = [n \in Names |-> Absent] /\ body = <<>>
    /\ phase = "build" => BuildsMeaning(X)
    /\ status # "done" => memory = NoValues
    /\ status = "done" => phase = "build" /\ pos = Len(ir) + 1 /\ memory = Stored(NoValues, body)

Inv(S, T, X) == Typing(S, T, X) /\ Progress /\ TypesThere /\ Meant(T, X) /\ MainBuilt(X)

\* The statements of a program.
LEMMA ProgramIs ==
  ASSUME NEW S, NEW T, NEW depth, NEW tdepth, NEW X, NEW K, NEW U, NEW height,
         CompilesPrograms(S, T, depth, tdepth, X, K, U, height),
         NEW p \in Programs
  PROVE  /\ Len(p) \in Nat /\ DOMAIN p = 1 .. Len(p) /\ p \in Seq(K)
         /\ \A i \in 1 .. Len(p) : p[i] \in K
<1>1. p \in Seq(K)
  BY DEF CompilesPrograms
<1>2. Len(p) \in Nat /\ DOMAIN p = 1 .. Len(p)
  BY <1>1, LenProperties
<1> QED  BY <1>1, <1>2, ElementOfSeq

\* A statement that only ends the run.
LEMMA EndsKeeps ==
  ASSUME NEW S, NEW T, NEW X, Inv(S, T, X), status = "running",
         Ends("rejected") \/ Ends("undefined")
  PROVE  Inv(S, T, X)'
<1>1. /\ status' \in {"rejected", "undefined"}
      /\ mode' = mode /\ written' = written /\ source' = source /\ tree' = tree /\ ir' = ir
      /\ types_made' = types_made /\ builtins' = builtins /\ scopes' = scopes
      /\ global_type' = global_type /\ body' = body /\ phase' = phase /\ pos' = pos /\ memory' = memory
  BY DEF Ends, text
<1>2. Typing(S, T, X)' /\ Progress' /\ TypesThere'
  BY <1>1 DEF Inv, Typing, Progress, TypesThere
<1>3. Meant(T, X)'
  BY <1>1 DEF Inv, Meant, Carries, HasPassed
<1>4. MainBuilt(X)'
  BY <1>1 DEF Inv, MainBuilt, BuildsMeaning
<1> QED  BY <1>2, <1>3, <1>4 DEF Inv

\* At the start.
LEMMA InitKeeps ==
  ASSUME NEW S, NEW T, NEW depth, NEW tdepth, NEW X, NEW K, NEW U, NEW height,
         CompilesPrograms(S, T, depth, tdepth, X, K, U, height),
         Init
  PROVE  Inv(S, T, X)
<1>1. NoType \in T
  BY CompilerIs DEF CompilesPrograms
<1>2. scopes \in Stacks(T) /\ Len(scopes) = 1
  <2> DEFINE V == [Names -> T]
             v == [n \in Names |-> NoType]
  <2>1. v \in V /\ scopes = <<v>>
    BY <1>1 DEF Init
  <2> HIDE DEF V, v
  <2>2. scopes \in Seq(V) /\ Len(scopes) = 1 /\ scopes # <<>>
    BY <2>1
  <2> QED  BY <2>2 DEF Stacks, V
<1>3. Typing(S, T, X)
  <2>1. types_made \in Nat
    BY DEF Init, PrimativesMade
  <2>2. ir \in Seq(S) /\ body \in Seq(Stores(X))
    <3>1. \A V : <<>> \in Seq(V)
      OBVIOUS
    <3> QED  BY <3>1 DEF Init
  <2> QED  BY <1>2, <2>1, <2>2 DEF Init, Typing
<1>4. Len(ir) = 0
  BY DEF Init
<1>5. Progress /\ TypesThere
  BY DEF Init, Progress, TypesThere
<1>6. Meant(T, X)
  BY <1>4 DEF Meant
<1>7. MainBuilt(X)
  BY DEF Init, MainBuilt, NoValues
<1> QED  BY <1>3, <1>5, <1>6, <1>7 DEF Inv

\* The parser.
LEMMA ParseKeeps ==
  ASSUME NEW S, NEW T, NEW depth, NEW tdepth, NEW X, NEW K, NEW U, NEW height,
         CompilesPrograms(S, T, depth, tdepth, X, K, U, height),
         Inv(S, T, X), ParseSource
  PROVE  Inv(S, T, X)'
<1> DEFINE r == Parses(source)
<1>0. status = "running" /\ phase = "parse"
  BY DEF ParseSource, In
<1>1. CASE Ends("rejected")
  BY <1>0, <1>1, EndsKeeps
<1>2. CASE ~Ends("rejected")
  <2>1. /\ r.ok /\ tree' = r.kids /\ phase' = "convert" /\ pos' = 1 /\ status' = "running"
        /\ mode' = mode /\ written' = written /\ source' = source /\ ir' = ir
        /\ types_made' = types_made /\ builtins' = builtins /\ scopes' = scopes
        /\ global_type' = global_type /\ body' = body /\ memory' = memory
    BY <1>0, <1>2 DEF ParseSource, text, GoTo
  <2>2. written \in Programs /\ source = SourceOf(written) /\ ir = <<>> /\ Len(ir) = 0
    BY <1>0 DEF Inv, Typing, Progress
  <2>3. tree' = written
    BY <2>1, <2>2 DEF CompilesPrograms
  <2>4. Len(written) \in Nat
    BY <2>2, ProgramIs
  <2> HIDE DEF r
  <2>5. Typing(S, T, X)'
    BY <2>1 DEF Inv, Typing
  <2>6. Progress'
    BY <2>1, <2>2, <2>3, <2>4 DEF Progress
  <2>7. TypesThere'
    BY <1>0, <2>1, <2>2 DEF Inv, TypesThere
  <2>8. Meant(T, X)'
    BY <2>1, <2>2 DEF Meant
  <2>9. MainBuilt(X)'
    BY <1>0, <2>1 DEF Inv, MainBuilt
  <2> QED  BY <2>5, <2>6, <2>7, <2>8, <2>9 DEF Inv
<1> QED  BY <1>1, <1>2

\* A turn of the conversion.
LEMMA ConvertKeeps ==
  ASSUME NEW S, NEW T, NEW depth, NEW tdepth, NEW X, NEW K, NEW U, NEW height,
         CompilesPrograms(S, T, depth, tdepth, X, K, U, height),
         Inv(S, T, X), ConvertNext
  PROVE  Inv(S, T, X)'
<1> DEFINE b == mode = "repl"
           c == Convert(tree[pos], b, types_made)
<1>0. /\ status = "running" /\ phase = "convert" /\ pos \in DOMAIN tree
      /\ tree = written /\ Len(ir) = pos - 1 /\ pos \in 1 .. Len(written) + 1
      /\ written \in Programs /\ types_made \in Nat /\ ir \in Seq(S)
  BY DEF ConvertNext, In, Inv, Progress, Typing
<1>1. CASE Ends("undefined")
  BY <1>0, <1>1, EndsKeeps
<1>2. CASE ~Ends("undefined")
  <2>1. /\ c.ok /\ ir' = Append(ir, c.sexpr) /\ types_made' = c.made
        /\ phase' = "convert" /\ pos' = pos + 1 /\ status' = "running"
        /\ mode' = mode /\ written' = written /\ source' = source /\ tree' = tree
        /\ builtins' = builtins /\ scopes' = scopes
        /\ global_type' = global_type /\ body' = body /\ memory' = memory
    BY <1>0, <1>2 DEF ConvertNext, text, GoTo
  <2>2. /\ Len(written) \in Nat /\ pos \in 1 .. Len(written) /\ written[pos] \in K
    <3>1. Len(written) \in Nat /\ DOMAIN written = 1 .. Len(written)
      BY <1>0, ProgramIs
    <3> QED  BY <1>0, <3>1, ProgramIs
  <2>3. Translates(c, written[pos], types_made, S, T, X)
    <3>1. Compiler(S, T, depth, tdepth, X, K, U, height)
      BY DEF CompilesPrograms
    <3>2. \A b2 : \A t \in K : \A m \in Nat : Translates(Convert(t, b2, m), t, m, S, T, X)
      BY <3>1, ConvertTranslates
    <3> HIDE DEF b
    <3> QED  BY <1>0, <2>2, <3>2 DEF b
  <2> DEFINE d == c.sexpr
             t == written[pos]
  <2> HIDE DEF c
  <2>4. /\ d \in S /\ c.made \in Nat /\ Understood(d, t, X)
        /\ Typable(t) => WillBeTyped(d, T)
        /\ MakesType(t) \/ c.made = types_made
    BY <2>1, <2>3 DEF Translates, Conversions
  <2> HIDE DEF d, t
  <2>5. /\ ir' \in Seq(S) /\ Len(ir') = pos /\ ir'[pos] = d
        /\ \A i \in 1 .. Len(ir) : ir'[i] = ir[i]
        /\ \A i \in 1 .. Len(ir') : i = pos \/ i \in 1 .. Len(ir)
    <3>1. ir' = Append(ir, d)
      BY <2>1 DEF d
    <3>2. /\ ir' \in Seq(S) /\ Len(ir') = Len(ir) + 1 /\ ir'[Len(ir) + 1] = d
          /\ \A i \in 1 .. Len(ir) : ir'[i] = ir[i]
      BY <1>0, <2>4, <3>1, AppendProperties
    <3>3. Len(ir) + 1 = pos /\ Len(ir) \in Nat
      BY <1>0, LenProperties
    <3> QED  BY <3>2, <3>3
  <2>6. Typing(S, T, X)'
    BY <2>1, <2>4, <2>5 DEF Inv, Typing
  <2>7. Progress'
    BY <1>0, <2>1, <2>2, <2>5 DEF Progress
  <2>8. TypesThere'
    <3>1. CASE mode = "repl"
      BY <2>1, <3>1 DEF Inv, TypesThere
    <3>2. CASE \E j \in 1 .. Len(ir) : MakesType(written[j])
      <4>1. PICK j \in 1 .. Len(ir) : MakesType(written[j])
        BY <3>2
      <4>2. j \in 1 .. Len(ir')
        BY <1>0, <2>5
      <4> QED  BY <2>1, <4>1, <4>2 DEF Inv, TypesThere
    <3>3. CASE types_made = 0
      <4>1. CASE MakesType(t)
        <5>1. pos \in 1 .. Len(ir')
          BY <2>2, <2>5
        <5> QED  BY <2>1, <4>1, <5>1 DEF Inv, TypesThere, t
      <4>2. CASE c.made = types_made
        BY <2>1, <3>3, <4>2 DEF Inv, TypesThere
      <4> QED  BY <2>4, <4>1, <4>2
    <3> QED  BY <1>0, <3>1, <3>2, <3>3 DEF Inv, TypesThere
  <2>9. Meant(T, X)'
    <3>1. \A i : ~HasPassed(i) /\ ~HasPassed(i)'
      BY <1>0, <2>1 DEF HasPassed
    <3>2. ASSUME NEW i \in 1 .. Len(ir) PROVE Carries(ir[i], written[i], HasPassed(i), T, X)'
      <4>1. Carries(ir[i], written[i], HasPassed(i), T, X)
        BY DEF Inv, Meant
      <4>2. ir'[i] = ir[i]
        BY <2>5
      <4> QED  BY <2>1, <3>1, <4>1, <4>2 DEF Carries
    <3>3. ASSUME NEW i \in 1 .. Len(ir'), i = pos PROVE Carries(ir[i], written[i], HasPassed(i), T, X)'
      <4>1. ir'[i] = d /\ written'[i] = t
        BY <2>1, <2>5, <3>3 DEF t
      <4> QED  BY <2>4, <3>1, <4>1 DEF Carries
    <3> QED  BY <2>5, <3>2, <3>3 DEF Meant
  <2>10. MainBuilt(X)'
    BY <1>0, <2>1 DEF Inv, MainBuilt
  <2> QED  BY <2>6, <2>7, <2>8, <2>9, <2>10 DEF Inv
<1> QED  BY <1>1, <1>2

\* The start of the check.
LEMMA BeginKeeps ==
  ASSUME NEW S, NEW T, NEW depth, NEW tdepth, NEW X, NEW K, NEW U, NEW height,
         CompilesPrograms(S, T, depth, tdepth, X, K, U, height),
         Inv(S, T, X), BeginCheck
  PROVE  Inv(S, T, X)'
<1>1. /\ status = "running" /\ phase = "convert" /\ pos = Len(tree) + 1
      /\ tree = written /\ Len(ir) = pos - 1 /\ written \in Programs
  BY DEF BeginCheck, In, Inv, Progress, Typing
<1>2. /\ phase' = "check" /\ pos' = 1 /\ status' = status
      /\ mode' = mode /\ written' = written /\ source' = source /\ tree' = tree /\ ir' = ir
      /\ scopes' = scopes /\ global_type' = global_type /\ body' = body /\ memory' = memory
      /\ \/ types_made = 0 /\ builtins' = TRUE /\ types_made' = PrimativesMade
         \/ types_made # 0 /\ builtins' = builtins /\ types_made' = types_made
  BY <1>1 DEF BeginCheck, GoTo, text
<1>3. Len(written) \in Nat /\ Len(ir) = Len(written)
  <2>1. Len(written) \in Nat
    BY <1>1, ProgramIs
  <2> QED  BY <1>1, <2>1
<1>4. Typing(S, T, X)'
  <2>1. PrimativesMade \in Nat
    BY DEF PrimativesMade
  <2> QED  BY <1>2, <2>1 DEF Inv, Typing
<1>5. Progress'
  BY <1>1, <1>2, <1>3 DEF Progress
<1>6. TypesThere'
  <2>1. builtins' \/ (mode = "file" /\ \E j \in 1 .. Len(written) : MakesType(written[j]))
    BY <1>1, <1>2, <1>3 DEF Inv, TypesThere, Typing
  <2> QED  BY <1>1, <1>2, <2>1 DEF Inv, TypesThere
<1>7. Meant(T, X)'
  <2>1. ASSUME NEW i \in 1 .. Len(ir) PROVE ~HasPassed(i) /\ ~HasPassed(i)'
    BY <1>1, <1>2 DEF HasPassed
  <2> QED  BY <1>2, <2>1 DEF Inv, Meant, Carries
<1>8. MainBuilt(X)'
  BY <1>1, <1>2 DEF Inv, MainBuilt
<1> QED  BY <1>4, <1>5, <1>6, <1>7, <1>8 DEF Inv

\* A statement that has passed still says what it said.
LEMMA PassedUnderstood ==
  ASSUME NEW X, NEW d, NEW e, NEW t, Kept(d, e, X), Understood(e, t, X)
  PROVE  Understood(d, t, X)
BY DEF Kept, Understood

\* A statement that passes the check.
LEMMA PassedCarries ==
  ASSUME NEW S, NEW T, NEW depth, NEW tdepth, NEW X, NEW K, NEW U, NEW height,
         CompilesPrograms(S, T, depth, tdepth, X, K, U, height),
         NEW e \in S, NEW t, Understood(e, t, X), Typable(t) => WillBeTyped(e, T),
         NEW s \in Stacks(T), NEW b, Check(e, s, b).ok
  PROVE  LET r == Check(e, s, b)
         IN  /\ r.sexpr \in S /\ r.scopes \in Stacks(T) /\ Len(r.scopes) = Len(s)
             /\ Understood(r.sexpr, t, X)
             /\ r.sexpr.tag = "assign" => Assigns(r.sexpr)
             /\ Finds(b) /\ Typable(t) => r.sexpr.type # NoType
<1>0. /\ S = Forms(S, T) /\ ChecksIs(S) /\ EveryKept(S, T, X, b)
  BY CompilerIs DEF CompilesPrograms, Compiler
<1> DEFINE r == Check(e, s, b)
<1>1. Checks(e, s, b) = r
  BY <1>0 DEF ChecksIs
<1>2. Keeping(r, e, s, S, T, X)
  BY <1>0, <1>1 DEF EveryKept
<1>3. r.sexpr.tag = "assign" => Assigns(r.sexpr)
  <2>1. e.tag = "assign" => Assigns(r.sexpr)
    BY <1>0, AssignAdmits
  <2> HIDE DEF r
  <2>2. r.ok
    BY DEF r
  <2> QED  BY <1>2, <2>1, <2>2 DEF Keeping, Kept
<1>4. Finds(b) /\ Typable(t) => r.sexpr.type # NoType
  <2>1. Finds(b) /\ Typable(t) => Typed(e, T, b)
    BY DEF WillBeTyped
  <2> HIDE DEF r
  <2>2. r.ok
    BY DEF r
  <2> QED  BY <1>1, <2>1, <2>2 DEF Typed
<1>5. r.ok
  OBVIOUS
<1> HIDE DEF r
<1>6. r.sexpr \in S /\ r.scopes \in Stacks(T) /\ Len(r.scopes) = Len(s) /\ Kept(r.sexpr, e, X)
  BY <1>2, <1>5 DEF Keeping, Results
<1>7. Understood(r.sexpr, t, X)
  BY <1>6, PassedUnderstood
<1> QED  BY <1>3, <1>4, <1>6, <1>7 DEF r

\* A turn of the check.
LEMMA CheckNextKeeps ==
  ASSUME NEW S, NEW T, NEW depth, NEW tdepth, NEW X, NEW K, NEW U, NEW height,
         CompilesPrograms(S, T, depth, tdepth, X, K, U, height),
         Inv(S, T, X), CheckNext
  PROVE  Inv(S, T, X)'
<1> DEFINE e == ir[pos]
           t == written[pos]
           r == Check(e, scopes, builtins)
<1>0. /\ status = "running" /\ phase = "check" /\ pos \in DOMAIN ir
      /\ tree = written /\ Len(ir) = Len(written) /\ pos \in 1 .. Len(written) + 1
      /\ ir \in Seq(S) /\ scopes \in Stacks(T) /\ Len(scopes) = 1 /\ builtins \in BOOLEAN
  BY DEF CheckNext, In, Inv, Progress, Typing
<1>1. CASE Ends("undefined") \/ Ends("rejected")
  BY <1>0, <1>1, EndsKeeps
<1>2. CASE ~(Ends("undefined") \/ Ends("rejected"))
  <2>1. /\ r.ok /\ scopes' = r.scopes /\ ir' = [ir EXCEPT ![pos] = r.sexpr]
        /\ phase' = "check" /\ pos' = pos + 1 /\ status' = "running"
        /\ mode' = mode /\ written' = written /\ source' = source /\ tree' = tree
        /\ builtins' = builtins /\ types_made' = types_made
        /\ global_type' = global_type /\ body' = body /\ memory' = memory
    BY <1>0, <1>2 DEF CheckNext, text, GoTo
  <2>2. Len(ir) \in Nat /\ DOMAIN ir = 1 .. Len(ir) /\ pos \in 1 .. Len(ir) /\ e \in S
    <3>1. Len(ir) \in Nat /\ DOMAIN ir = 1 .. Len(ir)
      BY <1>0, LenProperties
    <3> QED  BY <1>0, <3>1, ElementOfSeq
  <2>3. Carries(e, t, HasPassed(pos), T, X) /\ ~HasPassed(pos)
    <3>1. ~HasPassed(pos)
      BY <1>0 DEF HasPassed
    <3> QED  BY <2>2, <3>1 DEF Inv, Meant
  <2>4. Understood(e, t, X) /\ (Typable(t) => WillBeTyped(e, T))
    <3> HIDE DEF e, t
    <3> QED  BY <2>3 DEF Carries
  <2> DEFINE d == r.sexpr
  <2>5. /\ d \in S /\ r.scopes \in Stacks(T) /\ Len(r.scopes) = Len(scopes)
        /\ Understood(d, t, X)
        /\ d.tag = "assign" => Assigns(d)
        /\ Finds(builtins) /\ Typable(t) => d.type # NoType
    <3> HIDE DEF e, t
    <3> QED  BY <1>0, <2>1, <2>2, <2>4, PassedCarries
  <2>6. builtins => Finds(builtins)
    BY DEF Finds, LookupType
  <2> HIDE DEF d, r, e, t
  <2>7. /\ ir' \in Seq(S) /\ Len(ir') = Len(ir) /\ ir'[pos] = d
        /\ \A i \in 1 .. Len(ir) : i # pos => ir'[i] = ir[i]
    <3>1. ir' = [ir EXCEPT ![pos] = d]
      BY <2>1 DEF d
    <3> QED  BY <1>0, <2>2, <2>5, <3>1, ExceptSeq
  <2>8. Typing(S, T, X)'
    BY <1>0, <2>1, <2>5, <2>7 DEF Inv, Typing
  <2>9. Progress'
    BY <1>0, <2>1, <2>2, <2>7 DEF Progress
  <2>10. TypesThere'
    BY <1>0, <2>1 DEF Inv, TypesThere
  <2>11. Meant(T, X)'
    <3>1. ASSUME NEW i \in 1 .. Len(ir'), i = pos PROVE Carries(ir[i], written[i], HasPassed(i), T, X)'
      <4>1. ir'[i] = d /\ written'[i] = t /\ HasPassed(i)'
        BY <1>0, <2>1, <2>7, <3>1 DEF t, HasPassed
      <4> QED  BY <2>1, <2>5, <2>6, <4>1 DEF Carries
    <3>2. ASSUME NEW i \in 1 .. Len(ir'), i # pos PROVE Carries(ir[i], written[i], HasPassed(i), T, X)'
      <4>1. i \in 1 .. Len(ir) /\ ir'[i] = ir[i]
        BY <2>7, <3>2
      <4>2. HasPassed(i)' <=> HasPassed(i)
        BY <1>0, <2>1, <2>2, <3>2, <4>1 DEF HasPassed
      <4>3. Carries(ir[i], written[i], HasPassed(i), T, X)
        BY <4>1 DEF Inv, Meant
      <4> QED  BY <2>1, <4>1, <4>2, <4>3 DEF Carries
    <3> QED  BY <3>1, <3>2 DEF Meant
  <2>12. MainBuilt(X)'
    BY <1>0, <2>1 DEF Inv, MainBuilt
  <2> QED  BY <2>8, <2>9, <2>10, <2>11, <2>12 DEF Inv
<1> QED  BY <1>1, <1>2

\* The end of the check.
LEMMA EndCheckKeeps ==
  ASSUME NEW S, NEW T, NEW depth, NEW tdepth, NEW X, NEW K, NEW U, NEW height,
         CompilesPrograms(S, T, depth, tdepth, X, K, U, height),
         Inv(S, T, X), EndCheck
  PROVE  Inv(S, T, X)'
<1>1. /\ status = "running" /\ phase = "check" /\ pos = Len(ir) + 1
      /\ tree = written /\ Len(ir) = Len(written) /\ written \in Programs /\ mode \in {"repl", "file"}
  BY DEF EndCheck, In, Inv, Progress, Typing
<1>2. /\ phase' \in {"build", "session"} /\ pos' = 1 /\ status' = status
      /\ mode' = mode /\ written' = written /\ source' = source /\ tree' = tree /\ ir' = ir
      /\ builtins' = builtins /\ types_made' = types_made
      /\ scopes' = scopes /\ global_type' = global_type /\ body' = body /\ memory' = memory
  BY <1>1 DEF EndCheck, GoTo, text
<1>3. Len(written) \in Nat
  BY <1>1, ProgramIs
<1>4. Typing(S, T, X)' /\ Progress' /\ TypesThere'
  BY <1>1, <1>2, <1>3 DEF Inv, Typing, Progress, TypesThere
<1>5. Meant(T, X)'
  <2>1. ASSUME NEW i \in 1 .. Len(ir) PROVE HasPassed(i) /\ HasPassed(i)'
    BY <1>1, <1>2, <1>3 DEF HasPassed
  <2> QED  BY <1>2, <2>1 DEF Inv, Meant, Carries
<1>6. MainBuilt(X)'
  <2>1. /\ global_type = [n \in Names |-> Absent] /\ body = <<>> /\ memory = NoValues
    BY <1>1 DEF Inv, MainBuilt
  <2>2. PICK s : TreesOneByOne(written, <<NoValues>>, s)
    BY <1>3, TreesMeanIs
  <2>3. s[0] = <<NoValues>> /\ pos' - 1 = 0
    BY <1>2, <2>2 DEF TreesOneByOne
  <2>4. AreTerms(X)
    BY DEF CompilesPrograms, Compiler
  <2>5. GlobalScope(s[0], X) /\ Agrees(global_type, s[0], Stored(NoValues, body))
    <3>1. Stored(NoValues, body) = NoValues
      BY <2>1, NothingStored
    <3> QED  BY <2>1, <2>3, <2>4, <3>1, NothingAgrees
  <2>6. BuildsMeaning(X)'
    BY <1>2, <2>2, <2>3, <2>5 DEF BuildsMeaning
  <2> QED  BY <1>1, <1>2, <2>1, <2>6 DEF MainBuilt
<1> QED  BY <1>4, <1>5, <1>6 DEF Inv

\* What is built of a statement means what was written.
LEMMA BuiltMeans ==
  ASSUME NEW S, NEW T, NEW depth, NEW tdepth, NEW X, NEW K, NEW U, NEW height,
         CompilesPrograms(S, T, depth, tdepth, X, K, U, height),
         NEW types \in [Names -> MachineTypes \cup {Absent}], NEW env, GlobalScope(env, X), NEW mem,
         Agrees(types, env, mem), NEW e \in S
  PROVE  /\ Build(e, <<>>, types) \in Machine(X, MachineTypes)
         /\ Sound(Build(e, <<>>, types), Means(e, env), mem) /\ Means(e, env) \in Spoken(X)
<1>1. Language(S, T, depth) /\ AreTerms(X) /\ BuildsIs(S) /\ MeansIs(S) /\ ComputesIs(X)
  BY DEF CompilesPrograms, Compiler
<1>2. AreTypes(MachineTypes) /\ GlobalsTyped(types, MachineTypes)
  BY MachineTypesAre DEF GlobalsTyped
<1>3. Related(<<>>, types, env, mem)
  BY <1>1, AgreesRelated
<1>4. <<>> \in Locals(X, MachineTypes) /\ env \in Seq([Names -> Spoken(X)])
  BY DEF Locals, GlobalScope
<1>5. Builds(e, <<>>, types) = Build(e, <<>>, types)
  BY <1>1 DEF BuildsIs
<1>6. \A d \in S, local \in Locals(X, MachineTypes) : Builds(d, local, types) \in Machine(X, MachineTypes)
  BY <1>1, <1>2, BuildTyped
<1>7. \A d \in S, local \in Locals(X, MachineTypes), v \in Seq([Names -> Spoken(X)]) :
         Related(local, types, v, mem) => Sound(Builds(d, local, types), Means(d, v), mem)
  BY <1>1, <1>2, BuildSound
<1>8. \A d \in S, v \in Seq([Names -> Spoken(X)]) : Means(d, v) \in Spoken(X)
  BY <1>1, MeansTyped
<1> QED  BY <1>3, <1>4, <1>5, <1>6, <1>7, <1>8

\* A turn of the code generator.
LEMMA BuildNextKeeps ==
  ASSUME NEW S, NEW T, NEW depth, NEW tdepth, NEW X, NEW K, NEW U, NEW height,
         CompilesPrograms(S, T, depth, tdepth, X, K, U, height),
         Inv(S, T, X), BuildNext
  PROVE  Inv(S, T, X)'
<1> DEFINE e == ir[pos]
           t == written[pos]
           x == IF e.tag = "assign" THEN e.value ELSE e
           v == Build(x, <<>>, global_type)
           mem == Stored(NoValues, body)
<1>0. /\ status = "running" /\ phase = "build" /\ pos \in DOMAIN ir
      /\ tree = written /\ Len(ir) = Len(written) /\ pos \in 1 .. Len(written) + 1
      /\ ir \in Seq(S) /\ global_type \in [Names -> MachineTypes \cup {Absent}]
      /\ body \in Seq(Stores(X)) /\ memory = NoValues
  BY DEF BuildNext, In, Inv, Progress, Typing, MainBuilt
<1>1. /\ Len(ir) \in Nat /\ pos \in 1 .. Len(ir) /\ pos \in 1 .. Len(written) /\ e \in S
      /\ pos + 1 \in 1 .. Len(written) + 1 /\ (pos + 1) - 1 = pos
  <2>1. Len(ir) \in Nat /\ DOMAIN ir = 1 .. Len(ir)
    BY <1>0, LenProperties
  <2> QED  BY <1>0, <2>1, ElementOfSeq
<1>2. Understood(e, t, X)
  <2>1. Carries(e, t, HasPassed(pos), T, X)
    BY <1>1 DEF Inv, Meant
  <2> HIDE DEF e, t
  <2> QED  BY <2>1 DEF Carries
<1>3. PICK s : /\ TreesOneByOne(written, <<NoValues>>, s)
               /\ GlobalScope(s[pos - 1], X) /\ Agrees(global_type, s[pos - 1], mem)
  BY <1>0 DEF Inv, MainBuilt, BuildsMeaning
<1> DEFINE env == s[pos - 1]
<1>4. s[pos] = TreeBind(env, t)
  BY <1>1, <1>3 DEF TreesOneByOne
<1> HIDE DEF e, t, env
<1>5. CASE Ends("undefined")
  BY <1>0, <1>5, EndsKeeps
<1>6. CASE ~Ends("undefined") /\ e.tag = "assign"
  <2>1. e.tag # "declare" /\ x = e.value
    BY <1>6
  <2>2. SaveGlobal(e.name, v) /\ v # Bad
    <3>1. LET f == ir[pos]
              u == Build(IF f.tag = "assign" THEN f.value ELSE f, <<>>, global_type)
          IN  IF f.tag # "declare" /\ u = Bad THEN Ends("undefined")
              ELSE IF f.tag = "assign" THEN SaveGlobal(f.name, u)
              ELSE TRUE
      BY DEF BuildNext
    <3> QED  BY <1>6, <2>1, <3>1 DEF e
  <2> HIDE DEF x, v, mem
  <2>3. /\ global_type[e.name] \in {Absent, v.type}
        /\ global_type' = [global_type EXCEPT ![e.name] = v.type]
        /\ body' = Append(body, [name |-> e.name, value |-> v])
        /\ phase' = "build" /\ pos' = pos + 1 /\ status' = "running"
        /\ mode' = mode /\ written' = written /\ source' = source /\ tree' = tree /\ ir' = ir
        /\ builtins' = builtins /\ types_made' = types_made
        /\ scopes' = scopes /\ memory' = memory
    BY <1>0, <1>6, <2>2 DEF SaveGlobal, text, GoTo
  <2>4. e.name \in Names /\ e.value \in S
    <3>1. S = Forms(S, T)
      BY CompilerIs DEF CompilesPrograms
    <3> QED  BY <1>1, <1>6, <3>1, FormOf DEF Literals
  <2> DEFINE m == Means(e.value, env)
             store == [name |-> e.name, value |-> v]
  <2>5. v \in Machine(X, MachineTypes) /\ Sound(v, m, mem) /\ m \in Spoken(X)
    <3>1. v = Build(e.value, <<>>, global_type)
      BY <2>1 DEF v
    <3>2. GlobalScope(env, X) /\ Agrees(global_type, env, mem)
      BY <1>3 DEF env
    <3> QED  BY <1>0, <2>4, <3>1, <3>2, BuiltMeans
  <2>6. m = AssignedMeaning(t, env) /\ e.name = NameOf(t.kids[1]) /\ t.label = "="
    <3>1. env \in Seq([Names -> Spoken(X)])
      BY <1>3 DEF env, GlobalScope
    <3> QED  BY <1>2, <1>6, <3>1 DEF Understood
  <2>7. s[pos] = Bind(env, e.name, m)
    BY <1>4, <2>6 DEF TreeBind
  <2> HIDE DEF m
  <2>8. Same(v, m, mem) /\ v.term \in X
    <3>1. v.type \in MachineTypes /\ v.term \in X
      BY <2>2, <2>5, MachineTypesAre, ValueIs
    <3> QED  BY <2>2, <2>5, <3>1 DEF Sound
  <2>9. ComputesIs(X)
    BY DEF CompilesPrograms, Compiler
  <2>10. /\ Agrees(global_type', s[pos], Store(mem, store))
         /\ GlobalScope(s[pos], X)
         /\ global_type' \in [Names -> MachineTypes \cup {Absent}]
    <3>1. GlobalScope(env, X) /\ Agrees(global_type, env, mem)
      BY <1>3 DEF env
    <3> DEFINE types == [global_type EXCEPT ![e.name] = v.type]
    <3>2. /\ Agrees(types, Bind(env, e.name, m), Store(mem, store))
          /\ GlobalScope(Bind(env, e.name, m), X)
          /\ types \in [Names -> MachineTypes \cup {Absent}]
      BY <1>0, <2>4, <2>5, <2>8, <2>9, <3>1, AgreesStored
    <3>3. global_type' = types
      BY <2>3
    <3> HIDE DEF types, store
    <3> QED  BY <2>7, <3>2, <3>3
  <2>11. store \in Stores(X)
    <3> HIDE DEF store
    <3>1. store = [name |-> e.name, value |-> v]
      BY DEF store
    <3> QED  BY <2>4, <2>5, <3>1 DEF Stores
  <2> HIDE DEF store
  <2>12. body' = Append(body, store) /\ body' \in Seq(Stores(X)) /\ Stored(NoValues, body') = Store(mem, store)
    <3>1. body' = Append(body, store)
      BY <2>3 DEF store
    <3>2. body' \in Seq(Stores(X))
      BY <1>0, <2>11, <3>1, AppendProperties
    <3>3. Stored(NoValues, Append(body, store)) = Store(Stored(NoValues, body), store)
      BY <1>0, <2>11, StoredNext
    <3> QED  BY <3>1, <3>2, <3>3 DEF mem
  <2>13. Typing(S, T, X)'
    BY <2>3, <2>10, <2>12 DEF Inv, Typing
  <2>14. Progress' /\ TypesThere'
    BY <1>0, <1>1, <2>3 DEF Inv, Progress, TypesThere
  <2>15. Meant(T, X)'
    BY <1>0, <2>3 DEF Inv, Meant, Carries, HasPassed
  <2>16. MainBuilt(X)'
    <3>1. BuildsMeaning(X)'
      BY <1>1, <1>3, <2>3, <2>10, <2>12 DEF BuildsMeaning
    <3> QED  BY <1>0, <2>3, <3>1 DEF MainBuilt
  <2> QED  BY <2>13, <2>14, <2>15, <2>16 DEF Inv
<1>7. CASE ~Ends("undefined") /\ e.tag # "assign"
  <2>1. /\ phase' = "build" /\ pos' = pos + 1 /\ status' = "running"
        /\ mode' = mode /\ written' = written /\ source' = source /\ tree' = tree /\ ir' = ir
        /\ builtins' = builtins /\ types_made' = types_made /\ global_type' = global_type /\ body' = body
        /\ scopes' = scopes /\ memory' = memory
    BY <1>0, <1>7 DEF BuildNext, text, GoTo, e
  <2>2. s[pos] = env
    BY <1>2, <1>4, <1>7 DEF Understood, TreeBind
  <2>3. Typing(S, T, X)'
    BY <2>1 DEF Inv, Typing
  <2>4. Progress' /\ TypesThere'
    BY <1>0, <1>1, <2>1 DEF Inv, Progress, TypesThere
  <2>5. Meant(T, X)'
    BY <1>0, <2>1 DEF Inv, Meant, Carries, HasPassed
  <2>6. MainBuilt(X)'
    <3>1. BuildsMeaning(X)'
      BY <1>1, <1>3, <2>1, <2>2 DEF BuildsMeaning, env
    <3> QED  BY <1>0, <2>1, <3>1 DEF MainBuilt
  <2> QED  BY <2>3, <2>4, <2>5, <2>6 DEF Inv
<1> QED  BY <1>5, <1>6, <1>7

\* main runs.
LEMMA RunKeeps ==
  ASSUME NEW S, NEW T, NEW X, Inv(S, T, X), RunFile
  PROVE  Inv(S, T, X)'
<1>1. /\ status = "running" /\ phase = "build" /\ pos = Len(ir) + 1 /\ memory = NoValues
  BY DEF RunFile, In, Inv, MainBuilt
<1>2. /\ memory' = Stored(NoValues, body) /\ status' = "done"
      /\ mode' = mode /\ written' = written /\ source' = source /\ tree' = tree /\ ir' = ir
      /\ types_made' = types_made /\ builtins' = builtins /\ scopes' = scopes
      /\ global_type' = global_type /\ body' = body /\ phase' = phase /\ pos' = pos
  BY <1>1 DEF RunFile, text
<1>3. Typing(S, T, X)' /\ Progress' /\ TypesThere'
  BY <1>2 DEF Inv, Typing, Progress, TypesThere
<1>4. Meant(T, X)'
  BY <1>2 DEF Inv, Meant, Carries, HasPassed
<1>5. MainBuilt(X)'
  BY <1>1, <1>2 DEF Inv, MainBuilt, BuildsMeaning
<1> QED  BY <1>3, <1>4, <1>5 DEF Inv

\* Every step keeps the invariant.
LEMMA StepKeeps ==
  ASSUME NEW S, NEW T, NEW depth, NEW tdepth, NEW X, NEW K, NEW U, NEW height,
         CompilesPrograms(S, T, depth, tdepth, X, K, U, height),
         Inv(S, T, X), [Next]_vars
  PROVE  Inv(S, T, X)'
<1>1. CASE ParseSource
  BY <1>1, ParseKeeps
<1>2. CASE ConvertNext
  BY <1>2, ConvertKeeps
<1>3. CASE BeginCheck
  BY <1>3, BeginKeeps
<1>4. CASE CheckNext
  BY <1>4, CheckNextKeeps
<1>5. CASE EndCheck
  BY <1>5, EndCheckKeeps
<1>6. CASE BuildNext
  BY <1>6, BuildNextKeeps
<1>7. CASE RunFile
  BY <1>7, RunKeeps
<1>8. CASE UNCHANGED vars
  <2>1. Typing(S, T, X)' /\ Progress' /\ TypesThere'
    BY <1>8 DEF vars, text, Inv, Typing, Progress, TypesThere
  <2>2. Meant(T, X)'
    BY <1>8 DEF vars, text, Inv, Meant, Carries, HasPassed
  <2>3. MainBuilt(X)'
    BY <1>8 DEF vars, text, Inv, MainBuilt, BuildsMeaning
  <2> QED  BY <2>1, <2>2, <2>3 DEF Inv
<1> QED  BY <1>1, <1>2, <1>3, <1>4, <1>5, <1>6, <1>7, <1>8 DEF Next

\* So it always holds.
LEMMA AlwaysInv ==
  ASSUME NEW S, NEW T, NEW depth, NEW tdepth, NEW X, NEW K, NEW U, NEW height,
         CompilesPrograms(S, T, depth, tdepth, X, K, U, height)
  PROVE  Spec => []Inv(S, T, X)
<1>1. Init => Inv(S, T, X)
  BY InitKeeps
<1>2. Inv(S, T, X) /\ [Next]_vars => Inv(S, T, X)'
  BY StepKeeps
<1> QED  BY <1>1, <1>2, PTL DEF Spec
-----------------------------------------------------------------------------
(* The theorems.                                                           *)

\* However long the program and deep its expressions, the state has its types.
THEOREM CompileTyped ==
  ASSUME NEW S, NEW T, NEW depth, NEW tdepth, NEW X, NEW K, NEW U, NEW height,
         CompilesPrograms(S, T, depth, tdepth, X, K, U, height)
  PROVE  Spec => []TypeOK
<1>1. Inv(S, T, X) => TypeOK
  <2> SUFFICES ASSUME Inv(S, T, X) PROVE TypeOK
    OBVIOUS
  <2>1. Typing(S, T, X) /\ Progress
    BY DEF Inv
  <2>2. DOMAIN scopes = {1} /\ DOMAIN scopes[1] = Names
    <3> DEFINE V == [Names -> T]
    <3>1. scopes \in Seq(V) /\ Len(scopes) = 1
      BY <2>1 DEF Typing, Stacks
    <3> HIDE DEF V
    <3>2. DOMAIN scopes = 1 .. 1 /\ 1 .. 1 = {1} /\ 1 \in 1 .. Len(scopes)
      BY <3>1, LenProperties
    <3>3. scopes[1] \in V
      BY <3>1, <3>2, ElementOfSeq
    <3> QED  BY <3>2, <3>3 DEF V
  <2>3. Len(written) \in Nat
    BY <2>1, ProgramIs DEF Typing
  <2>4. Len(ir) <= Len(tree) /\ pos \in 0 .. Len(tree) + 1
    <3>1. CASE phase = "parse"
      BY <2>1, <3>1 DEF Progress
    <3>2. CASE phase # "parse"
      <4>1. tree = written /\ pos \in 1 .. Len(written) + 1
        BY <2>1, <3>2 DEF Progress
      <4>2. Len(ir) = pos - 1 \/ Len(ir) = Len(written)
        BY <2>1, <3>2 DEF Progress, Typing
      <4> QED  BY <2>3, <4>1, <4>2
    <3> QED  BY <3>1, <3>2
  <2> QED  BY <2>1, <2>2, <2>4 DEF Typing, TypeOK, MachineTypes
<1>2. Spec => []Inv(S, T, X)
  BY AlwaysInv
<1> QED  BY <1>1, <1>2, PTL

\* Whatever is assigned to a variable has only shapes its type allows, for types
\* however deep.
THEOREM AssignmentsAreAdmitted ==
  ASSUME NEW S, NEW T, NEW depth, NEW tdepth, NEW X, NEW K, NEW U, NEW height,
         CompilesPrograms(S, T, depth, tdepth, X, K, U, height)
  PROVE  Spec => []AssignmentsAdmitted
<1>1. Inv(S, T, X) => AssignmentsAdmitted
  <2> SUFFICES ASSUME Inv(S, T, X), NEW i \in DOMAIN ir, HasPassed(i), ir[i].tag = "assign"
               PROVE  Shapes(ir[i].value.type) \subseteq Shapes(ir[i].type)
    BY DEF AssignmentsAdmitted
  <2> DEFINE d == ir[i]
  <2>1. ir \in Seq(S) /\ DOMAIN ir = 1 .. Len(ir)
    BY LenProperties DEF Inv, Typing
  <2>2. d \in S /\ Assigns(d)
    BY <2>1, ElementOfSeq DEF Inv, Meant, Carries
  <2>3. S = Forms(S, T) /\ TypeLanguage(T, tdepth) /\ SubsumesIs(T) /\ ShapesIs(T)
    BY CompilerIs DEF CompilesPrograms, Compiler
  <2> HIDE DEF d
  <2>4. d.type \in T /\ d.value.type \in T
    <3>1. d.tag = "assign"
      BY DEF d
    <3>2. d.type \in T /\ d.value \in S
      BY <2>2, <2>3, <3>1, FormOf DEF Literals
    <3> QED  BY <2>3, <3>2, FormOf
  <2>5. Admits(T, d.type)
    BY <2>3, <2>4, SubtypesAdmitted
  <2>6. Shapes(d.value.type) \subseteq Shapes(d.type)
    BY <2>2, <2>4, <2>5 DEF Assigns, Admits
  <2> QED  BY <2>6 DEF d
<1>2. Spec => []Inv(S, T, X)
  BY AlwaysInv
<1> QED  BY <1>1, <1>2, PTL

\* What passes the check has a type, unless a file makes types before it, or a branch
\* is a declaration.
THEOREM CheckedAreTyped ==
  ASSUME NEW S, NEW T, NEW depth, NEW tdepth, NEW X, NEW K, NEW U, NEW height,
         CompilesPrograms(S, T, depth, tdepth, X, K, U, height)
  PROVE  Spec => []CheckedIsTyped
<1>1. Inv(S, T, X) => CheckedIsTyped
  <2> SUFFICES ASSUME Inv(S, T, X), phase \in {"build", "session"}, NEW i \in DOMAIN ir
               PROVE  \/ ir[i].type # NoType
                      \/ ir[i].tag = "declare" \/ DeclaresInBranch(written[i])
                      \/ mode = "file" /\ \E j \in DOMAIN written : MakesType(written[j])
    BY DEF CheckedIsTyped
  <2>1. ir \in Seq(S) /\ DOMAIN ir = 1 .. Len(ir) /\ written \in Programs
    BY LenProperties DEF Inv, Typing
  <2>2. Carries(ir[i], written[i], HasPassed(i), T, X) /\ HasPassed(i)
    BY <2>1 DEF Inv, Meant, HasPassed
  <2>3. ir[i].tag = "declare" <=> written[i].label = ":"
    BY <2>2 DEF Carries, Understood
  <2>4. CASE builtins
    BY <2>2, <2>3, <2>4 DEF Carries, Typable
  <2>5. CASE ~builtins
    <3>1. mode = "file" /\ \E j \in 1 .. Len(written) : MakesType(written[j])
      BY <2>5 DEF Inv, TypesThere
    <3>2. DOMAIN written = 1 .. Len(written)
      BY <2>1, ProgramIs
    <3> QED  BY <3>1, <3>2
  <2> QED  BY <2>4, <2>5
<1>2. Spec => []Inv(S, T, X)
  BY AlwaysInv
<1> QED  BY <1>1, <1>2, PTL

\* A file that runs to its end does what it says, however long it is and however deep
\* its expressions: parser, IR generation, checker and code generator keep its meaning.
THEOREM FilesRunAsMeant ==
  ASSUME NEW S, NEW T, NEW depth, NEW tdepth, NEW X, NEW K, NEW U, NEW height,
         CompilesPrograms(S, T, depth, tdepth, X, K, U, height)
  PROVE  Spec => []RunsAsMeant
<1>1. Inv(S, T, X) => RunsAsMeant
  <2> SUFFICES ASSUME Inv(S, T, X), status = "done", NEW n \in Names
               PROVE  LanguageValue(memory[n]) = ProgramMeaning[n]
    BY DEF RunsAsMeant
  <2>1. /\ phase = "build" /\ pos = Len(ir) + 1 /\ memory = Stored(NoValues, body)
        /\ Len(ir) = Len(written) /\ written \in Programs
    BY DEF Inv, MainBuilt, Progress, Typing
  <2>2. PICK s : /\ TreesOneByOne(written, <<NoValues>>, s)
                 /\ Agrees(global_type, s[pos - 1], Stored(NoValues, body))
    BY <2>1 DEF Inv, MainBuilt, BuildsMeaning
  <2>3. pos - 1 = Len(written)
    <3>1. Len(written) \in Nat
      BY <2>1, ProgramIs
    <3> QED  BY <2>1, <3>1
  <2>4. s[pos - 1][1] = ProgramMeaning
    BY <2>2, <2>3 DEF TreesOneByOne, ProgramMeaning
  <2>5. LanguageValue(memory[n]) = s[pos - 1][1][n]
    BY <2>1, <2>2, AgreesMeans
  <2> QED  BY <2>4, <2>5
<1>2. Spec => []Inv(S, T, X)
  BY AlwaysInv
<1> QED  BY <1>1, <1>2, PTL
=============================================================================
