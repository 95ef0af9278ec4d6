--------------------------- MODULE CompilerProofs ---------------------------
(***************************************************************************)
(* Proof that the checker, the code generator and the JIT keep the meaning *)
(* of S expressions, for S expressions of any depth: what is checked means *)
(* what it meant before, and what is built for it, if anything sound is,   *)
(* computes what it means.                                                 *)
(*                                                                         *)
(* The passes call themselves through the constants of SExpressions.  What *)
(* is assumed of those is that they are the passes (the definitions named  *)
(* ...Is below): for the S expressions there are, which have finite depth, *)
(* that determines them.                                                   *)
(***************************************************************************)
EXTENDS Checker, Codegen, Semantics, SequenceTheorems, WellFoundedInduction, TLAPS

-----------------------------------------------------------------------------
(* Induction over numbers.                                                 *)

\* A set that has 0 and with each number the next has them all.
LEMMA AllNumbers ==
  ASSUME NEW M \in SUBSET Nat, 0 \in M, \A k \in M : k + 1 \in M
  PROVE  M = Nat
<1> DEFINE G == Nat \ M
           Less == {p \in Nat \X Nat : p[1] < p[2]}
<1>1. IsWellFoundedOn(Less, Nat)
  BY NatLessThanWellFounded DEF OpToRel
<1>2. ASSUME G # {} PROVE FALSE
  <2>1. G \subseteq Nat
    OBVIOUS
  <2>2. PICK x \in G : \A y \in G : ~(<<y, x>> \in Less)
    <3> HIDE DEF G, Less
    <3> QED  BY <1>1, <1>2, <2>1, WFMin
  <2>3. x \in Nat \ {0} /\ x - 1 \in Nat /\ (x - 1) + 1 = x /\ x - 1 < x
    OBVIOUS
  <2>4. x - 1 \notin M
    BY <2>3
  <2>5. <<x - 1, x>> \in Less
    BY <2>3
  <2> QED  BY <2>2, <2>3, <2>4, <2>5
<1> QED  BY <1>2

\* Likewise for the numbers up to n.
LEMMA NumbersUpTo ==
  ASSUME NEW n \in Nat, NEW M, 0 \in M, \A k \in 1 .. n : k - 1 \in M => k \in M
  PROVE  0 .. n \subseteq M
<1> DEFINE K == {k \in Nat : k <= n => k \in M}
<1>1. 0 \in K /\ K \subseteq Nat
  OBVIOUS
<1>2. ASSUME NEW k \in K PROVE k + 1 \in K
  <2>1. k \in Nat /\ k + 1 \in Nat /\ (k + 1) - 1 = k /\ (k + 1 <= n => k <= n /\ k + 1 \in 1 .. n)
    OBVIOUS
  <2> QED  BY <2>1
<1>3. K = Nat
  <2> HIDE DEF K
  <2> QED  BY <1>1, <1>2, AllNumbers
<1> QED  BY <1>3

\* A number is one of those up to it.
LEMMA NumberUpToItself == \A n \in Nat : n \in 0 .. n
OBVIOUS

\* A set of numbers with a bound has a greatest one, unless it is empty.
LEMMA Greatest ==
  ASSUME NEW n \in Nat, NEW F \in SUBSET (1 .. n), F # {}
  PROVE  \E i \in F : \A j \in F : j <= i
<1> DEFINE M == {k \in 0 .. n : (\E i \in F : i <= k) => \E i \in F : i <= k /\ \A j \in F : j <= k => j <= i}
<1>1. 0 \in M
  OBVIOUS
<1>2. ASSUME NEW k \in 1 .. n, k - 1 \in M PROVE k \in M
  <2>1. k \in 0 .. n /\ k - 1 \in 0 .. n /\ \A j \in F : j \in Int /\ (j <= k <=> j <= k - 1 \/ j = k)
    OBVIOUS
  <2>2. CASE k \in F
    BY <2>1, <2>2
  <2>3. CASE k \notin F
    <3>1. \A j \in F : j <= k <=> j <= k - 1
      BY <2>1, <2>3
    <3> QED  BY <1>2, <2>1, <3>1
  <2> QED  BY <2>2, <2>3
<1>3. 0 .. n \subseteq M
  <2> HIDE DEF M
  <2> QED  BY <1>1, <1>2, NumbersUpTo
<1>4. n \in M /\ \A j \in F : j <= n
  BY <1>3
<1> QED  BY <1>4

\* A loop of n turns over values of V, and what the value is after each turn.
IsLoop(n, V, start, turn) == n \in Nat /\ start \in V /\ turn \in [(1 .. n) \X V -> V]
Iterates(n, V, start, turn, f) ==
    f \in [0 .. n -> V] /\ f[0] = start /\ \A k \in 1 .. n : f[k] = turn[<<k, f[k - 1]>>]

\* Every such loop comes to an end.
LEMMA LoopEnds ==
  ASSUME NEW n, NEW V, NEW start, NEW turn, IsLoop(n, V, start, turn)
  PROVE  \E f : Iterates(n, V, start, turn, f)
<1>0. n \in Nat /\ start \in V /\ turn \in [(1 .. n) \X V -> V]
  BY DEF IsLoop
<1> DEFINE Fits(m, f) == f[0] = start /\ \A k \in 1 .. m : f[k] = turn[<<k, f[k - 1]>>]
           M == {m \in 0 .. n : \E f \in [0 .. m -> V] : Fits(m, f)}
<1>1. 0 \in M
  <2> DEFINE f == [k \in 0 .. 0 |-> start]
  <2>1. f \in [0 .. 0 -> V] /\ Fits(0, f) /\ 0 \in 0 .. n
    BY <1>0
  <2> HIDE DEF f, Fits
  <2> QED  BY <2>1
<1>2. ASSUME NEW m \in 1 .. n, m - 1 \in M PROVE m \in M
  <2>1. PICK f \in [0 .. m - 1 -> V] : Fits(m - 1, f)
    BY <1>2
  <2> DEFINE g == [k \in 0 .. m |-> IF k = m THEN turn[<<m, f[m - 1]>>] ELSE f[k]]
  <2>2. /\ m - 1 \in 0 .. m - 1 /\ m # 0 /\ m - 1 # m /\ m - 1 \in 0 .. m /\ m \in 0 .. n
        /\ 0 \in 0 .. m /\ m \in 0 .. m
        /\ \A k \in 0 .. m : k = m \/ (k \in 0 .. m - 1 /\ k # m)
        /\ \A k \in 1 .. m : k = m \/ k \in 1 .. m - 1
        /\ \A k \in 1 .. m - 1 : k \in 0 .. m /\ k # m /\ k - 1 \in 0 .. m /\ k - 1 # m
    BY <1>0
  <2>3. g \in [0 .. m -> V]
    BY <1>0, <2>1, <2>2
  <2>4. g[0] = start
    BY <2>1, <2>2
  <2>5. ASSUME NEW k \in 1 .. m PROVE g[k] = turn[<<k, g[k - 1]>>]
    <3>1. CASE k = m
      BY <2>2, <3>1
    <3>2. CASE k # m
      <4>1. k \in 1 .. m - 1 /\ g[k] = f[k] /\ g[k - 1] = f[k - 1]
        BY <2>2, <3>2
      <4>2. f[k] = turn[<<k, f[k - 1]>>]
        BY <2>1, <4>1
      <4> HIDE DEF g
      <4> QED  BY <4>1, <4>2
    <3> QED  BY <3>1, <3>2
  <2> HIDE DEF g
  <2>6. Fits(m, g)
    BY <2>4, <2>5
  <2> QED  BY <2>2, <2>3, <2>6
<1>3. 0 .. n \subseteq M
  <2> HIDE DEF M
  <2> QED  BY <1>0, <1>1, <1>2, NumbersUpTo
<1>4. n \in M
  <2>1. n \in 0 .. n
    BY <1>0
  <2> HIDE DEF M
  <2> QED  BY <1>3, <2>1
<1> QED  BY <1>4 DEF Iterates

-----------------------------------------------------------------------------
(* What there is to compile.                                               *)

Operators == {"+", "%", "<", "and", "or", "xor", "none"}

\* What literals are written as.  (The provers do not know the last for strings.)
Texts == STRING \cup {"1", "0.5", "true"}

\* The S expressions over the types T whose parts are in S.
Forms(S, T) ==
    [tag : Literals, type : T, literal : Texts]
    \cup [tag : {"symbol"}, type : T, name : Names]
    \cup [tag : {"infix"}, type : T, op : Operators, left : S, right : S]
    \cup [tag : {"prefix"}, type : T, op : {"neg", "span"}, operand : S]
    \cup [tag : {"local_scope"}, type : T, assigns : Seq(S), value : S]
    \cup [tag : {"if"}, type : T, cond : S, then : S, elsy : S]
    \cup [tag : {"assign"}, type : T, annotation : T, name : Names, value : S]
    \cup [tag : {"declare"}, type : T, name : Names]
    \cup [tag : {"func", "unsupported"}, type : T]

Parts(e) ==
    CASE e.tag = "infix" -> {e.left, e.right}
      [] e.tag = "prefix" -> {e.operand}
      [] e.tag = "local_scope" -> {e.value} \cup {e.assigns[i] : i \in DOMAIN e.assigns}
      [] e.tag = "if" -> {e.cond, e.then, e.elsy}
      [] e.tag = "assign" -> {e.value}
      [] OTHER -> {}

\* S has every S expression over T, each of finite depth.
Language(S, T, depth) == /\ S = Forms(S, T) /\ depth \in [S -> Nat]
                         /\ \A e \in S : \A p \in Parts(e) : depth[p] < depth[e]

\* X has the terms the code generator makes.
TermOps == Operators \cup {"const", "load", "neg", "span", "sitofp", "if"}
AreTerms(X) == [op : TermOps, literal : Texts \cup Names \cup {"", "none"}, args : Seq(X)] \subseteq X

\* What a constant of SExpressions stands for.
ChecksIs(S) == \A e \in S : \A s, b : Checks(e, s, b) = Check(e, s, b)
BuildsIs(S) == \A e \in S : \A local, globals : Builds(e, local, globals) = Build(e, local, globals)
MeansIs(S) == \A e \in S : \A env : Means(e, env) = Meaning(e, env)
ComputesIs(X) == \A x \in X : \A mem : Computes(x, mem) = Evaluate(x, mem)

\* Induction over S expressions: what holds for one whenever it holds for all that
\* are less deep holds for all.
LEMMA ByDepth ==
  ASSUME NEW S, NEW T, NEW depth, Language(S, T, depth), NEW G,
         \A e \in S : (\A p \in S : depth[p] < depth[e] => p \in G) => e \in G
  PROVE  S \subseteq G
<1> DEFINE M == {k \in Nat : \A e \in S : depth[e] < k => e \in G}
<1>1. \A e \in S : depth[e] \in Nat
  BY DEF Language
<1>2. 0 \in M /\ M \subseteq Nat
  BY <1>1
<1>3. ASSUME NEW k \in M PROVE k + 1 \in M
  <2>1. k \in Nat /\ k + 1 \in Nat
    OBVIOUS
  <2>2. ASSUME NEW e \in S, depth[e] < k + 1 PROVE e \in G
    <3>1. \A p \in S : depth[p] < depth[e] => depth[p] < k
      BY <1>1, <2>1, <2>2
    <3> QED  BY <2>1, <3>1
  <2> QED  BY <2>1, <2>2
<1>4. M = Nat
  <2> HIDE DEF M
  <2> QED  BY <1>2, <1>3, AllNumbers
<1>5. \A e \in S : depth[e] + 1 \in M /\ depth[e] < depth[e] + 1
  BY <1>1, <1>4
<1> QED  BY <1>5

\* What an S expression is, by its tag.
LEMMA FormOf ==
  ASSUME NEW S, NEW T, S = Forms(S, T), NEW e \in S
  PROVE  /\ e.type \in T
         /\ \/ e.tag \in Literals /\ e.literal \in Texts
            \/ e.tag = "symbol" /\ e.name \in Names
            \/ e.tag = "infix" /\ e.op \in Operators /\ e.left \in S /\ e.right \in S
            \/ e.tag = "prefix" /\ e.op \in {"neg", "span"} /\ e.operand \in S
            \/ e.tag = "local_scope" /\ e.assigns \in Seq(S) /\ e.value \in S
            \/ e.tag = "if" /\ e.cond \in S /\ e.then \in S /\ e.elsy \in S
            \/ e.tag = "assign" /\ e.annotation \in T /\ e.name \in Names /\ e.value \in S
            \/ e.tag = "declare" /\ e.name \in Names
            \/ e.tag \in {"func", "unsupported"}
BY DEF Forms

-----------------------------------------------------------------------------
(* Stacks of scopes.                                                       *)

\* Of k scopes the i-th is the last that has n, or i is 0 and none has it.
IsLast(i, k, stack, n, none) ==
    \/ i = 0 /\ \A j \in 1 .. k : stack[j][n] = none
    \/ i \in 1 .. k /\ stack[i][n] # none /\ \A j \in 1 .. k : j > i => stack[j][n] = none

\* The innermost scope that has n is the last one that does.
LEMMA InnermostIs ==
  ASSUME NEW k \in Nat, NEW stack, DOMAIN stack = 1 .. k, NEW n, NEW none,
         NEW i, i = Innermost(stack, n, none)
  PROVE  IsLast(i, k, stack, n, none)
<1> DEFINE found == {j \in 1 .. k : stack[j][n] # none}
<1>1. i = IF found = {} THEN 0 ELSE CHOOSE h \in found : \A j \in found : j <= h
  BY DEF Innermost
<1>2. CASE found = {}
  BY <1>1, <1>2 DEF IsLast
<1>3. CASE found # {}
  <2>1. \E h \in found : \A j \in found : j <= h
    <3>1. found \in SUBSET (1 .. k)
      OBVIOUS
    <3> HIDE DEF found
    <3> QED  BY <1>3, <3>1, Greatest
  <2>2. i \in found /\ \A j \in found : j <= i
    <3> HIDE DEF found
    <3> QED  BY <1>1, <1>3, <2>1
  <2> QED  BY <2>2 DEF IsLast
<1> QED  BY <1>2, <1>3

\* There is one such scope.
LEMMA InnermostOnly ==
  ASSUME NEW k \in Nat, NEW stack, DOMAIN stack = 1 .. k, NEW n, NEW none,
         NEW i, IsLast(i, k, stack, n, none)
  PROVE  Innermost(stack, n, none) = i
<1> DEFINE h == Innermost(stack, n, none)
<1>1. IsLast(h, k, stack, n, none)
  BY InnermostIs
<1> HIDE DEF h
<1>2. h = i
  BY <1>1 DEF IsLast
<1> QED  BY <1>2 DEF h

\* What a stack has for n.
Looked(stack, n, none) ==
    LET i == Innermost(stack, n, none) IN IF i = 0 THEN none ELSE stack[i][n]

\* A scope without names hides none.
LEMMA LookedBelow ==
  ASSUME NEW V, NEW stack \in Seq([Names -> V]), NEW none, NEW n \in Names, none \in V
  PROVE  /\ Append(stack, [m \in Names |-> none]) \in Seq([Names -> V])
         /\ Looked(Append(stack, [m \in Names |-> none]), n, none) = Looked(stack, n, none)
<1> DEFINE k == Len(stack)
           i == Innermost(stack, n, none)
           empty == [m \in Names |-> none]
           longer == Append(stack, empty)
<1>1. k \in Nat /\ DOMAIN stack = 1 .. k /\ empty \in [Names -> V]
  BY LenProperties
<1>2. /\ longer \in Seq([Names -> V]) /\ Len(longer) = k + 1 /\ DOMAIN longer = 1 .. k + 1
      /\ longer[k + 1] = empty /\ \A j \in 1 .. k : longer[j] = stack[j]
  BY <1>1, AppendProperties, LenProperties
<1>3. IsLast(i, k, stack, n, none)
  BY <1>1, InnermostIs
<1>4. empty[n] = none /\ \A j \in 1 .. k + 1 : j = k + 1 \/ j \in 1 .. k
  BY <1>1
<1> HIDE DEF k, i, empty, longer
<1>5. IsLast(i, k + 1, longer, n, none)
  BY <1>1, <1>2, <1>3, <1>4 DEF IsLast
<1>6. Innermost(longer, n, none) = i
  <2>1. k + 1 \in Nat
    BY <1>1
  <2> QED  BY <1>2, <1>5, <2>1, InnermostOnly
<1>7. Looked(longer, n, none) = Looked(stack, n, none)
  BY <1>1, <1>2, <1>3, <1>6 DEF Looked, i, IsLast
<1> QED  BY <1>2, <1>7 DEF longer, empty

\* Stacks of scopes that are not empty.
Stacks(V) == Seq([Names -> V]) \ {<<>>}

\* Binding a name leaves a stack of as many scopes.
LEMMA StackBound ==
  ASSUME NEW V, NEW stack \in Stacks(V), NEW n \in Names, NEW x \in V
  PROVE  /\ Bind(stack, n, x) \in Stacks(V) /\ Len(Bind(stack, n, x)) = Len(stack)
         /\ \A j \in 1 .. Len(stack) :
              Bind(stack, n, x)[j] = IF j = Len(stack) THEN [stack[j] EXCEPT ![n] = x] ELSE stack[j]
<1> DEFINE k == Len(stack)
           bound == Bind(stack, n, x)
           last == [stack[k] EXCEPT ![n] = x]
<1>1. /\ k \in Nat \ {0} /\ DOMAIN stack = 1 .. k /\ k \in 1 .. k /\ stack \in Seq([Names -> V])
      /\ \A j \in 1 .. k : stack[j] \in [Names -> V]
  <2>1. k \in Nat /\ DOMAIN stack = 1 .. k /\ k # 0 /\ stack \in Seq([Names -> V])
    BY LenProperties, EmptySeq DEF Stacks
  <2> QED  BY <2>1, ElementOfSeq
<1>2. last \in [Names -> V]
  BY <1>1
<1>3. bound = [stack EXCEPT ![k] = last]
  BY DEF Bind
<1> HIDE DEF bound, last
<1>4. /\ bound \in Seq([Names -> V]) /\ Len(bound) = k
      /\ \A j \in 1 .. k : bound[j] = IF j = k THEN last ELSE stack[j]
  BY <1>1, <1>2, <1>3, ExceptSeq
<1>5. bound # <<>>
  BY <1>1, <1>4, EmptySeq
<1> QED  BY <1>4, <1>5 DEF bound, last, Stacks

\* A name that is bound is found, and no other is lost.
LEMMA LookedBound ==
  ASSUME NEW V, NEW stack \in Stacks(V), NEW none,
         NEW n \in Names, NEW x \in V, NEW m \in Names
  PROVE  /\ n = m /\ x # none => Looked(Bind(stack, n, x), m, none) = x
         /\ n # m => Looked(Bind(stack, n, x), m, none) = Looked(stack, m, none)
<1> DEFINE k == Len(stack)
           bound == Bind(stack, n, x)
<1>1. /\ k \in Nat \ {0} /\ DOMAIN stack = 1 .. k /\ k \in 1 .. k
      /\ \A j \in 1 .. k : stack[j] \in [Names -> V]
  <2>1. k \in Nat /\ DOMAIN stack = 1 .. k /\ k # 0 /\ stack \in Seq([Names -> V])
    BY LenProperties, EmptySeq DEF Stacks
  <2> QED  BY <2>1, ElementOfSeq
<1>2. /\ bound \in Stacks(V) /\ Len(bound) = k
      /\ \A j \in 1 .. k : bound[j] = IF j = k THEN [stack[j] EXCEPT ![n] = x] ELSE stack[j]
  BY StackBound
<1>3. DOMAIN bound = 1 .. k
  BY <1>2, LenProperties DEF Stacks
<1> HIDE DEF k, bound
<1>4. bound[k][n] = x /\ (n # m => bound[k][m] = stack[k][m]) /\ \A j \in 1 .. k : j # k => bound[j] = stack[j]
  BY <1>1, <1>2
<1>5. ASSUME n = m, x # none PROVE Looked(bound, m, none) = x
  <2>1. IsLast(k, k, bound, m, none)
    BY <1>1, <1>4, <1>5 DEF IsLast
  <2>2. Innermost(bound, m, none) = k
    BY <1>1, <1>3, <2>1, InnermostOnly
  <2> QED  BY <1>1, <1>4, <1>5, <2>2 DEF Looked
<1>6. ASSUME n # m PROVE Looked(bound, m, none) = Looked(stack, m, none)
  <2> DEFINE i == Innermost(stack, m, none)
  <2>1. IsLast(i, k, stack, m, none)
    BY <1>1, InnermostIs
  <2>2. \A j \in 1 .. k : bound[j][m] = stack[j][m]
    BY <1>4, <1>6
  <2> HIDE DEF i
  <2>3. Innermost(bound, m, none) = i
    <3>1. IsLast(i, k, bound, m, none)
      BY <2>1, <2>2 DEF IsLast
    <3> QED  BY <1>1, <1>3, <3>1, InnermostOnly
  <2>4. Looked(bound, m, none) = IF i = 0 THEN none ELSE bound[i][m]
    BY <2>3 DEF Looked
  <2>5. Looked(stack, m, none) = IF i = 0 THEN none ELSE stack[i][m]
    BY DEF Looked, i
  <2> QED  BY <2>1, <2>2, <2>4, <2>5 DEF IsLast
<1> QED  BY <1>5, <1>6 DEF bound

\* An empty scope on top of a stack.
LEMMA StackPushed ==
  ASSUME NEW V, NEW stack \in Seq([Names -> V]), NEW none \in V
  PROVE  /\ Append(stack, [m \in Names |-> none]) \in Stacks(V)
         /\ Len(Append(stack, [m \in Names |-> none])) = Len(stack) + 1
<1> DEFINE empty == [m \in Names |-> none]
<1>1. empty \in [Names -> V]
  OBVIOUS
<1> HIDE DEF empty
<1>2. Append(stack, empty) \in Stacks(V) /\ Len(Append(stack, empty)) = Len(stack) + 1
  BY <1>1, AppendProperties DEF Stacks
<1> QED  BY <1>2 DEF empty

-----------------------------------------------------------------------------
(* The loops over the assignments of a local scope.                        *)

BuildTurn(as, globals, k, local) ==
    IF as[k].tag = "assign" THEN SaveLocal(local, as[k].name, Builds(as[k].value, local, globals)) ELSE local

\* What is built of the assignments is in V, wherever the values of the names are.
AssignsBuild(as, V, globals) ==
    \A i \in 1 .. Len(as) : as[i].tag = "assign" =>
        as[i].name \in Names /\ \A l \in Stacks(V) : Builds(as[i].value, l, globals) \in V

\* s are the local scopes after the assignments, one after the other.
BuiltOneByOne(as, V, local, globals, s) ==
    /\ s \in [0 .. Len(as) -> Stacks(V)]
    /\ s[0] = Append(local, NoLocals)
    /\ \A k \in 1 .. Len(as) : s[k] = BuildTurn(as, globals, k, s[k - 1])
    /\ BuildAssigns(as, local, globals) = s[Len(as)]

\* The local scope after each of its assignments has been built.
LEMMA BuildAssignsIs ==
  ASSUME NEW as, Len(as) \in Nat, NEW V, NoValue \in V, NEW local \in Seq([Names -> V]), NEW globals,
         AssignsBuild(as, V, globals)
  PROVE  \E s : BuiltOneByOne(as, V, local, globals, s)
<1> DEFINE n == Len(as)
           start == Append(local, NoLocals)
           Turn(k, l) == BuildTurn(as, globals, k, l)
           turn == [p \in (1 .. n) \X Stacks(V) |-> Turn(p[1], p[2])]
           IsScope(f) == f = [k \in 0 .. n |-> IF k = 0 THEN start ELSE Turn(k, f[k - 1])]
           s == CHOOSE f : IsScope(f)
<1>1. start \in Stacks(V)
  BY StackPushed DEF NoLocals, NoLocal
<1>2. ASSUME NEW k \in 1 .. n, NEW l \in Stacks(V) PROVE Turn(k, l) \in Stacks(V)
  <2>1. CASE as[k].tag # "assign"
    BY <2>1 DEF BuildTurn
  <2>2. CASE as[k].tag = "assign"
    <3> DEFINE v == Builds(as[k].value, l, globals)
    <3>1. v \in V /\ as[k].name \in Names
      BY <2>2 DEF AssignsBuild
    <3> HIDE DEF v
    <3>2. Bind(l, as[k].name, v) \in Stacks(V)
      BY <3>1, StackBound
    <3> QED  BY <2>2, <3>2 DEF BuildTurn, SaveLocal, v
  <2> QED  BY <2>1, <2>2
<1>3. turn \in [(1 .. n) \X Stacks(V) -> Stacks(V)]
  <2> HIDE DEF Turn
  <2> QED  BY <1>2
<1>4. BuildAssigns(as, local, globals) = s[n]
  BY DEF BuildAssigns, BuildTurn
<1>5. \A k \in 1 .. n, l \in Stacks(V) : turn[<<k, l>>] = Turn(k, l)
  OBVIOUS
<1>n. n \in Nat
  OBVIOUS
<1> HIDE DEF n, start, Turn, turn
<1>6. IsScope(s) /\ s \in [0 .. n -> Stacks(V)]
  <2>1. PICK f \in [0 .. n -> Stacks(V)] :
           f[0] = start /\ \A k \in 1 .. n : f[k] = turn[<<k, f[k - 1]>>]
    <3>1. IsLoop(n, Stacks(V), start, turn)
      BY <1>1, <1>3, <1>n DEF IsLoop
    <3>2. \E f : Iterates(n, Stacks(V), start, turn, f)
      BY <3>1, LoopEnds
    <3> QED  BY <3>2 DEF Iterates
  <2>2. \A k \in 0 .. n : k # 0 => k \in 1 .. n /\ k - 1 \in 0 .. n
    BY <1>n
  <2>3. \A k \in 0 .. n : f[k] = IF k = 0 THEN start ELSE turn[<<k, f[k - 1]>>]
    BY <2>1, <2>2
  <2>4. ASSUME NEW k \in 0 .. n PROVE f[k] = IF k = 0 THEN start ELSE Turn(k, f[k - 1])
    <3>1. CASE k = 0
      BY <2>3, <3>1
    <3>2. CASE k # 0
      <4>1. k \in 1 .. n /\ f[k - 1] \in Stacks(V) /\ f[k] = turn[<<k, f[k - 1]>>]
        BY <2>2, <2>3, <3>2
      <4> QED  BY <1>5, <3>2, <4>1
    <3> QED  BY <3>1, <3>2
  <2>5. IsScope(f)
    <3>1. f = [k \in 0 .. n |-> f[k]]
      OBVIOUS
    <3> QED  BY <2>4, <3>1
  <2> HIDE DEF IsScope
  <2>6. IsScope(s)
    BY <2>5
  <2> HIDE DEF s
  <2>7. \A k \in 0 .. n : s[k] = IF k = 0 THEN start ELSE Turn(k, s[k - 1])
    BY <2>6 DEF IsScope
  <2> DEFINE M == {k \in 0 .. n : s[k] \in Stacks(V)}
  <2>8. 0 \in M /\ \A k \in 1 .. n : k - 1 \in M => k \in M
    <3>1. 0 \in 0 .. n /\ \A k \in 1 .. n : k # 0 /\ k \in 0 .. n
      BY <1>n
    <3> QED  BY <1>1, <1>2, <2>7, <3>1
  <2>9. 0 .. n \subseteq M
    <3> HIDE DEF M
    <3> QED  BY <1>n, <2>8, NumbersUpTo
  <2>10. s = [k \in 0 .. n |-> s[k]]
    BY <2>6 DEF IsScope
  <2> QED  BY <2>6, <2>9, <2>10
<1> HIDE DEF s
<1>7. s[0] = start /\ \A k \in 1 .. n : s[k] = Turn(k, s[k - 1])
  <2>1. 0 \in 0 .. n /\ \A k \in 1 .. n : k # 0 /\ k \in 0 .. n
    BY <1>n
  <2>2. \A k \in 0 .. n : s[k] = IF k = 0 THEN start ELSE Turn(k, s[k - 1])
    BY <1>6
  <2> HIDE DEF IsScope
  <2> QED  BY <2>1, <2>2
<1> QED  BY <1>4, <1>6, <1>7 DEF n, Turn, start, BuiltOneByOne

MeansTurn(as, k, env) ==
    IF as[k].tag = "assign" THEN Bind(env, as[k].name, Means(as[k].value, env)) ELSE env

\* What the assignments mean is in V, wherever the values of the names are.
AssignsHaveMeaning(as, V) ==
    \A i \in 1 .. Len(as) : as[i].tag = "assign" =>
        as[i].name \in Names /\ \A l \in Stacks(V) : Means(as[i].value, l) \in V

\* s are the scopes after the assignments, one after the other.
MeantOneByOne(as, V, env, s) ==
    /\ s \in [0 .. Len(as) -> Stacks(V)]
    /\ s[0] = Append(env, [m \in Names |-> NoValue])
    /\ \A k \in 1 .. Len(as) : s[k] = MeansTurn(as, k, s[k - 1])
    /\ AssignsMean(as, env) = s[Len(as)]

\* The scope after each of its assignments.
LEMMA AssignsMeanIs ==
  ASSUME NEW as, Len(as) \in Nat, NEW V, NoValue \in V, NEW env \in Seq([Names -> V]),
         AssignsHaveMeaning(as, V)
  PROVE  \E s : MeantOneByOne(as, V, env, s)
<1> DEFINE n == Len(as)
           start == Append(env, [m \in Names |-> NoValue])
           Turn(k, l) == MeansTurn(as, k, l)
           turn == [p \in (1 .. n) \X Stacks(V) |-> Turn(p[1], p[2])]
           IsScope(f) == f = [k \in 0 .. n |-> IF k = 0 THEN start ELSE Turn(k, f[k - 1])]
           s == CHOOSE f : IsScope(f)
<1>1. start \in Stacks(V)
  BY StackPushed
<1>2. ASSUME NEW k \in 1 .. n, NEW l \in Stacks(V) PROVE Turn(k, l) \in Stacks(V)
  <2>1. CASE as[k].tag # "assign"
    BY <2>1 DEF MeansTurn
  <2>2. CASE as[k].tag = "assign"
    <3> DEFINE v == Means(as[k].value, l)
    <3>1. v \in V /\ as[k].name \in Names
      BY <2>2 DEF AssignsHaveMeaning
    <3> HIDE DEF v
    <3>2. Bind(l, as[k].name, v) \in Stacks(V)
      BY <3>1, StackBound
    <3> QED  BY <2>2, <3>2 DEF MeansTurn, v
  <2> QED  BY <2>1, <2>2
<1>3. turn \in [(1 .. n) \X Stacks(V) -> Stacks(V)]
  <2> HIDE DEF Turn
  <2> QED  BY <1>2
<1>4. AssignsMean(as, env) = s[n]
  BY DEF AssignsMean, MeansTurn
<1>5. \A k \in 1 .. n, l \in Stacks(V) : turn[<<k, l>>] = Turn(k, l)
  OBVIOUS
<1>n. n \in Nat
  OBVIOUS
<1> HIDE DEF n, start, Turn, turn
<1>6. IsScope(s) /\ s \in [0 .. n -> Stacks(V)]
  <2>1. PICK f \in [0 .. n -> Stacks(V)] :
           f[0] = start /\ \A k \in 1 .. n : f[k] = turn[<<k, f[k - 1]>>]
    <3>1. IsLoop(n, Stacks(V), start, turn)
      BY <1>1, <1>3, <1>n DEF IsLoop
    <3>2. \E f : Iterates(n, Stacks(V), start, turn, f)
      BY <3>1, LoopEnds
    <3> QED  BY <3>2 DEF Iterates
  <2>2. \A k \in 0 .. n : k # 0 => k \in 1 .. n /\ k - 1 \in 0 .. n
    BY <1>n
  <2>3. \A k \in 0 .. n : f[k] = IF k = 0 THEN start ELSE turn[<<k, f[k - 1]>>]
    BY <2>1, <2>2
  <2>4. ASSUME NEW k \in 0 .. n PROVE f[k] = IF k = 0 THEN start ELSE Turn(k, f[k - 1])
    <3>1. CASE k = 0
      BY <2>3, <3>1
    <3>2. CASE k # 0
      <4>1. k \in 1 .. n /\ f[k - 1] \in Stacks(V) /\ f[k] = turn[<<k, f[k - 1]>>]
        BY <2>2, <2>3, <3>2
      <4> QED  BY <1>5, <3>2, <4>1
    <3> QED  BY <3>1, <3>2
  <2>5. IsScope(f)
    <3>1. f = [k \in 0 .. n |-> f[k]]
      OBVIOUS
    <3> QED  BY <2>4, <3>1
  <2> HIDE DEF IsScope
  <2>6. IsScope(s)
    BY <2>5
  <2> HIDE DEF s
  <2>7. \A k \in 0 .. n : s[k] = IF k = 0 THEN start ELSE Turn(k, s[k - 1])
    BY <2>6 DEF IsScope
  <2> DEFINE M == {k \in 0 .. n : s[k] \in Stacks(V)}
  <2>8. 0 \in M /\ \A k \in 1 .. n : k - 1 \in M => k \in M
    <3>1. 0 \in 0 .. n /\ \A k \in 1 .. n : k # 0 /\ k \in 0 .. n
      BY <1>n
    <3> QED  BY <1>1, <1>2, <2>7, <3>1
  <2>9. 0 .. n \subseteq M
    <3> HIDE DEF M
    <3> QED  BY <1>n, <2>8, NumbersUpTo
  <2>10. s = [k \in 0 .. n |-> s[k]]
    BY <2>6 DEF IsScope
  <2> QED  BY <2>6, <2>9, <2>10
<1> HIDE DEF s
<1>7. s[0] = start /\ \A k \in 1 .. n : s[k] = Turn(k, s[k - 1])
  <2>1. 0 \in 0 .. n /\ \A k \in 1 .. n : k # 0 /\ k \in 0 .. n
    BY <1>n
  <2>2. \A k \in 0 .. n : s[k] = IF k = 0 THEN start ELSE Turn(k, s[k - 1])
    BY <1>6
  <2> HIDE DEF IsScope
  <2> QED  BY <2>1, <2>2
<1> QED  BY <1>4, <1>6, <1>7 DEF n, Turn, start, MeantOneByOne

-----------------------------------------------------------------------------
(* Values and terms.                                                       *)

\* LLVM values of the types TT, and the values of the language.
Machine(X, TT) == [type : TT, term : X] \cup {Bad}
Local(X, TT) == Machine(X, TT) \cup {NoValue}
Spoken(X) == [type : {"Int", "Float", "Bool", "NULL"}, term : X]

\* Types of LLVM values, among them those the code generator gives its own.
AreTypes(TT) == MachineTypes \subseteq TT /\ {"bad", "NULL"} \cap TT = {}

\* The type and the term of a value; what is none of the machine has a type of its own.
LEMMA ValueIs ==
  /\ \A t, x : Value(t, x).type = t /\ Value(t, x).term = x
  /\ Bad.type = "bad" /\ NoValue.type = "NULL" /\ NoValue # Bad
  /\ \A X, TT : AreTypes(TT) => \A v \in Machine(X, TT) : v = Bad \/ (v.type \in TT /\ v.term \in X /\ v # NoValue)
  /\ \A X, TT : \A t \in TT, x \in X : Value(t, x) \in Machine(X, TT)
  /\ \A X, TT : Bad \in Machine(X, TT)
<1>1. \A t, x : Value(t, x).type = t /\ Value(t, x).term = x
  BY DEF Value
<1>2. Bad.type = "bad" /\ NoValue.type = "NULL" /\ NoValue # Bad
  BY DEF Value, Bad, NoValue
<1>3. ASSUME NEW X, NEW TT, AreTypes(TT), NEW v \in Machine(X, TT)
      PROVE  v = Bad \/ (v.type \in TT /\ v.term \in X /\ v # NoValue)
  <2>1. v = Bad \/ v \in [type : TT, term : X]
    BY DEF Machine
  <2>2. v \in [type : TT, term : X] => v.type \in TT /\ v.term \in X
    OBVIOUS
  <2>3. v.type \in TT => v.type # "NULL"
    BY <1>3 DEF AreTypes
  <2> QED  BY <1>2, <2>1, <2>2, <2>3
<1>4. \A X, TT : \A t \in TT, x \in X : Value(t, x) \in Machine(X, TT)
  BY DEF Value, Machine
<1>5. \A X, TT : Bad \in Machine(X, TT)
  BY DEF Machine
<1> QED  BY <1>1, <1>2, <1>3, <1>4, <1>5

\* The terms of an instruction with up to three operands.
LEMMA TermsAre ==
  ASSUME NEW X, AreTerms(X)
  PROVE  /\ \A l \in Texts : Const(l) \in X
         /\ Const("none") \in X
         /\ \A n \in Names : Load(n) \in X
         /\ \A o \in TermOps, a \in X : Term(o, <<a>>) \in X
         /\ \A o \in TermOps, a, b \in X : Term(o, <<a, b>>) \in X
         /\ \A o \in TermOps, a, b, c \in X : Term(o, <<a, b, c>>) \in X
<1>1. \A o \in TermOps, l \in Texts \cup Names \cup {"", "none"}, as \in Seq(X) : [op |-> o, literal |-> l, args |-> as] \in X
  BY DEF AreTerms
<1>2. <<>> \in Seq(X)
  OBVIOUS
<1>3. \A a, b, c \in X : <<a>> \in Seq(X) /\ <<a, b>> \in Seq(X) /\ <<a, b, c>> \in Seq(X)
  OBVIOUS
<1>4. "const" \in TermOps /\ "load" \in TermOps
  BY DEF TermOps
<1>5. \A l \in Texts \cup {"none"} : Const(l) \in X
  BY <1>1, <1>2, <1>4 DEF Const
<1>6. \A n \in Names : Load(n) \in X
  BY <1>1, <1>2, <1>4 DEF Load
<1>7. \A o \in TermOps, as \in Seq(X) : Term(o, as) \in X
  BY <1>1 DEF Term
<1> QED  BY <1>3, <1>5, <1>6, <1>7

\* What has no value has the meaning of something without one.
LEMMA NoValueIn ==
  ASSUME NEW X, AreTerms(X)
  PROVE  NoValue \in Spoken(X)
<1>1. Const("none") \in X
  BY TermsAre
<1> QED  BY <1>1 DEF NoValue, Value, Spoken

\* What the JIT makes of them.
LEMMA Computed ==
  ASSUME NEW X, AreTerms(X), ComputesIs(X), NEW mem
  PROVE  /\ \A l \in Texts : Computes(Const(l), mem) = Const(l)
         /\ \A n \in Names : Computes(Load(n), mem) = mem[n].term
         /\ \A o \in TermOps \ {"load"}, a \in X : Computes(Term(o, <<a>>), mem) = Term(o, <<Computes(a, mem)>>)
         /\ \A o \in TermOps \ {"load"}, a, b \in X :
               Computes(Term(o, <<a, b>>), mem) = Term(o, <<Computes(a, mem), Computes(b, mem)>>)
         /\ \A o \in TermOps \ {"load"}, a, b, c \in X :
               Computes(Term(o, <<a, b, c>>), mem)
               = Term(o, <<Computes(a, mem), Computes(b, mem), Computes(c, mem)>>)
<1>1. \A x \in X : Computes(x, mem) = Evaluate(x, mem)
  BY DEF ComputesIs
<1>2. ASSUME NEW l \in Texts PROVE Computes(Const(l), mem) = Const(l)
  <2>1. Const(l) \in X
    BY TermsAre
  <2>2. [i \in DOMAIN <<>> |-> Computes(<<>>[i], mem)] = <<>>
    OBVIOUS
  <2>3. Evaluate(Const(l), mem) = [Const(l) EXCEPT !.args = [i \in DOMAIN <<>> |-> Computes(<<>>[i], mem)]]
    BY DEF Evaluate, Const
  <2>4. [Const(l) EXCEPT !.args = <<>>] = Const(l)
    BY DEF Const
  <2> QED  BY <1>1, <2>1, <2>2, <2>3, <2>4
<1>3. ASSUME NEW n \in Names PROVE Computes(Load(n), mem) = mem[n].term
  BY <1>1, TermsAre DEF Evaluate, Load
<1>4. ASSUME NEW o \in TermOps \ {"load"}, NEW as, Term(o, as) \in X
      PROVE  Computes(Term(o, as), mem) = Term(o, [i \in DOMAIN as |-> Computes(as[i], mem)])
  <2>1. Evaluate(Term(o, as), mem) = [Term(o, as) EXCEPT !.args = [i \in DOMAIN as |-> Computes(as[i], mem)]]
    BY DEF Evaluate, Term
  <2> DEFINE bs == [i \in DOMAIN as |-> Computes(as[i], mem)]
  <2> HIDE DEF bs
  <2>2. [Term(o, as) EXCEPT !.args = bs] = Term(o, bs)
    <3>1. \A l : [[op |-> o, literal |-> l, args |-> as] EXCEPT !.args = bs] = [op |-> o, literal |-> l, args |-> bs]
      OBVIOUS
    <3> QED  BY <3>1 DEF Term
  <2> QED  BY <1>1, <1>4, <2>1, <2>2 DEF bs
<1>5. ASSUME NEW o \in TermOps \ {"load"}, NEW a \in X
      PROVE  Computes(Term(o, <<a>>), mem) = Term(o, <<Computes(a, mem)>>)
  <2>1. Term(o, <<a>>) \in X
    BY TermsAre
  <2>2. [i \in DOMAIN <<a>> |-> Computes(<<a>>[i], mem)] = <<Computes(a, mem)>>
    OBVIOUS
  <2> QED  BY <1>4, <2>1, <2>2
<1>6. ASSUME NEW o \in TermOps \ {"load"}, NEW a \in X, NEW b \in X
      PROVE  Computes(Term(o, <<a, b>>), mem) = Term(o, <<Computes(a, mem), Computes(b, mem)>>)
  <2>1. Term(o, <<a, b>>) \in X
    BY TermsAre
  <2>2. [i \in DOMAIN <<a, b>> |-> Computes(<<a, b>>[i], mem)] = <<Computes(a, mem), Computes(b, mem)>>
    OBVIOUS
  <2> QED  BY <1>4, <2>1, <2>2
<1>7. ASSUME NEW o \in TermOps \ {"load"}, NEW a \in X, NEW b \in X, NEW c \in X
      PROVE  Computes(Term(o, <<a, b, c>>), mem)
             = Term(o, <<Computes(a, mem), Computes(b, mem), Computes(c, mem)>>)
  <2>1. Term(o, <<a, b, c>>) \in X
    BY TermsAre
  <2>2. [i \in DOMAIN <<a, b, c>> |-> Computes(<<a, b, c>>[i], mem)]
          = <<Computes(a, mem), Computes(b, mem), Computes(c, mem)>>
    OBVIOUS
  <2> QED  BY <1>4, <2>1, <2>2
<1> QED  BY <1>2, <1>3, <1>5, <1>6, <1>7

\* Of the terms of instructions alone.
LEMMA ComputedTerm ==
  ASSUME NEW X, AreTerms(X), ComputesIs(X), NEW mem
  PROVE  /\ \A o \in TermOps \ {"load"}, a \in X : Computes(Term(o, <<a>>), mem) = Term(o, <<Computes(a, mem)>>)
         /\ \A o \in TermOps \ {"load"}, a, b \in X :
               Computes(Term(o, <<a, b>>), mem) = Term(o, <<Computes(a, mem), Computes(b, mem)>>)
         /\ \A o \in TermOps \ {"load"}, a, b, c \in X :
               Computes(Term(o, <<a, b, c>>), mem)
               = Term(o, <<Computes(a, mem), Computes(b, mem), Computes(c, mem)>>)
BY Computed

\* An instruction over one operand.
LEMMA InstructionOne ==
  ASSUME NEW t, NEW o, NEW v, NEW p
  PROVE  Instruction(t, o, <<v>>, p) = IF v.type = p THEN Value(t, Term(o, <<v.term>>)) ELSE Bad
<1>1. [i \in DOMAIN <<v>> |-> <<v>>[i].term] = <<v.term>>
  OBVIOUS
<1>2. (\A i \in DOMAIN <<v>> : <<v>>[i].type = p) <=> v.type = p
  OBVIOUS
<1> QED  BY <1>1, <1>2 DEF Instruction

\* And over two.
LEMMA InstructionTwo ==
  ASSUME NEW t, NEW o, NEW v, NEW w, NEW p
  PROVE  Instruction(t, o, <<v, w>>, p)
         = IF v.type = p /\ w.type = p THEN Value(t, Term(o, <<v.term, w.term>>)) ELSE Bad
<1>1. [i \in DOMAIN <<v, w>> |-> <<v, w>>[i].term] = <<v.term, w.term>>
  OBVIOUS
<1>2. (\A i \in DOMAIN <<v, w>> : <<v, w>>[i].type = p) <=> v.type = p /\ w.type = p
  OBVIOUS
<1> QED  BY <1>1, <1>2 DEF Instruction

-----------------------------------------------------------------------------
(* The meaning of S expressions.                                           *)

SpokenTypes == {"Int", "Float", "Bool", "NULL"}

\* Values of the language: any of its types with any term.
LEMMA SpokenIs ==
  ASSUME NEW X
  PROVE  /\ \A v \in Spoken(X) : v.type \in SpokenTypes /\ v.term \in X
         /\ \A t \in SpokenTypes, x \in X : Value(t, x) \in Spoken(X)
BY DEF Spoken, SpokenTypes, Value

\* The operands of an infix operator, converted if need be, are terms.
LEMMA PromotedIs ==
  ASSUME NEW X, AreTerms(X), NEW l \in Spoken(X), NEW r \in Spoken(X), NEW o \in Operators
  PROVE  Value(OperatorType(o, l, r), Term(o, Promote(l, r))) \in Spoken(X)
<1>1. l.term \in X /\ r.term \in X /\ o \in TermOps /\ "sitofp" \in TermOps
  BY SpokenIs DEF TermOps
<1>2. Term("sitofp", <<l.term>>) \in X /\ Term("sitofp", <<r.term>>) \in X
  BY <1>1, TermsAre
<1>3. ToFloat(l) \in X /\ ToFloat(r) \in X
  BY <1>1, <1>2 DEF ToFloat
<1>4. Term(o, Promote(l, r)) \in X
  <2>1. Promote(l, r) \in {<<ToFloat(l), ToFloat(r)>>, <<l.term, r.term>>}
    BY DEF Promote
  <2> QED  BY <1>1, <1>3, <2>1, TermsAre
<1>5. OperatorType(o, l, r) \in SpokenTypes
  BY DEF OperatorType, SpokenTypes
<1> QED  BY <1>4, <1>5, SpokenIs

\* A name means what the stack of scopes has for it.
LEMMA SymbolMeans ==
  ASSUME NEW S, MeansIs(S), NEW e \in S, e.tag = "symbol", NEW env
  PROVE  Means(e, env) = Looked(env, e.name, NoValue)
<1>1. e.tag \notin Literals
  BY DEF Literals
<1> QED  BY <1>1 DEF MeansIs, Meaning, Looked

\* What is found in a stack of scopes.
LEMMA LookedIn ==
  ASSUME NEW V, NEW stack \in Seq([Names -> V]), NEW n \in Names, NEW none
  PROVE  Looked(stack, n, none) \in V \cup {none}
<1> DEFINE k == Len(stack)
           i == Innermost(stack, n, none)
<1>1. k \in Nat /\ DOMAIN stack = 1 .. k
  BY LenProperties
<1>2. \A j \in 1 .. k : stack[j] \in [Names -> V]
  BY ElementOfSeq
<1>3. IsLast(i, k, stack, n, none)
  BY <1>1, InnermostIs
<1> HIDE DEF k, i
<1> QED  BY <1>2, <1>3 DEF IsLast, Looked, i

\* Every S expression has a meaning, of a type of the language, wherever names do.
LEMMA MeansTyped ==
  ASSUME NEW S, NEW T, NEW depth, Language(S, T, depth), MeansIs(S), NEW X, AreTerms(X)
  PROVE  \A e \in S, env \in Seq([Names -> Spoken(X)]) : Means(e, env) \in Spoken(X)
<1> DEFINE G == {e \in S : \A env \in Seq([Names -> Spoken(X)]) : Means(e, env) \in Spoken(X)}
<1>1. S = Forms(S, T) /\ (\A e \in S : depth[e] \in Nat) /\ \A e \in S : \A p \in Parts(e) : depth[p] < depth[e]
  BY DEF Language
<1>2. ASSUME NEW e \in S, \A p \in S : depth[p] < depth[e] => p \in G,
             NEW env \in Seq([Names -> Spoken(X)])
      PROVE  Means(e, env) \in Spoken(X)
  <2>1. Means(e, env) = Meaning(e, env)
    BY DEF MeansIs
  <2>2. NoValue \in Spoken(X)
    BY NoValueIn
  <2>3. ASSUME NEW p \in S, depth[p] < depth[e]
        PROVE  \A stack \in Seq([Names -> Spoken(X)]) : Means(p, stack) \in Spoken(X)
    BY <1>2, <2>3
  <2>4. CASE e.tag \in Literals
    <3>1. Const(e.literal) \in X /\ e.tag \in SpokenTypes
      BY <1>1, <2>4, FormOf, TermsAre DEF Literals, SpokenTypes
    <3>2. Means(e, env) = Value(e.tag, Const(e.literal))
      BY <2>1, <2>4 DEF Meaning, Literals
    <3> QED  BY <3>1, <3>2, SpokenIs
  <2>5. CASE e.tag = "symbol"
    <3>1. e.name \in Names
      BY <1>1, <2>5, FormOf DEF Literals
    <3> QED  BY <2>2, <2>5, <3>1, LookedIn, SymbolMeans
  <2>6. CASE e.tag = "infix"
    <3>1. e.op \in Operators /\ e.left \in S /\ e.right \in S
      BY <1>1, <2>6, FormOf DEF Literals
    <3>2. e.left \in Parts(e) /\ e.right \in Parts(e)
      BY <2>6 DEF Parts
    <3> DEFINE l == Means(e.left, env)
               r == Means(e.right, env)
    <3>3. l \in Spoken(X) /\ r \in Spoken(X)
      BY <1>1, <2>3, <3>1, <3>2
    <3>4. Means(e, env) = Value(OperatorType(e.op, l, r), Term(e.op, Promote(l, r)))
      BY <2>1, <2>6 DEF Meaning, Literals
    <3> HIDE DEF l, r
    <3> QED  BY <3>1, <3>3, <3>4, PromotedIs
  <2>7. CASE e.tag = "prefix"
    <3>1. e.op \in {"neg", "span"} /\ e.operand \in S
      BY <1>1, <2>7, FormOf DEF Literals
    <3>2. e.operand \in Parts(e)
      BY <2>7 DEF Parts
    <3> DEFINE x == Means(e.operand, env)
    <3>3. x \in Spoken(X)
      BY <1>1, <2>3, <3>1, <3>2
    <3>4. Means(e, env) = Value(x.type, Term(e.op, <<x.term>>))
      BY <2>1, <2>7 DEF Meaning, Literals
    <3> HIDE DEF x
    <3>5. e.op \in TermOps
      BY <3>1 DEF TermOps
    <3> QED  BY <3>3, <3>4, <3>5, SpokenIs, TermsAre
  <2>8. CASE e.tag = "local_scope"
    <3> DEFINE as == e.assigns
    <3>1. as \in Seq(S) /\ e.value \in S
      BY <1>1, <2>8, FormOf DEF Literals
    <3>2. Len(as) \in Nat /\ DOMAIN as = 1 .. Len(as) /\ \A i \in 1 .. Len(as) : as[i] \in S
      BY <3>1, LenProperties, ElementOfSeq
    <3>3. e.value \in Parts(e) /\ \A i \in 1 .. Len(as) : as[i] \in Parts(e)
      BY <2>8, <3>2 DEF Parts
    <3>4. ASSUME NEW i \in 1 .. Len(as), as[i].tag = "assign"
          PROVE  as[i].name \in Names /\ \A stack \in Stacks(Spoken(X)) : Means(as[i].value, stack) \in Spoken(X)
      <4> DEFINE a == as[i]
      <4>1. a \in S /\ a.tag = "assign" /\ depth[a] < depth[e]
        BY <1>1, <3>2, <3>3, <3>4
      <4> HIDE DEF a
      <4>2. a.name \in Names /\ a.value \in S
        BY <1>1, <4>1, FormOf DEF Literals
      <4>3. a.value \in Parts(a)
        BY <4>1 DEF Parts
      <4>4. depth[a.value] < depth[e]
        BY <1>1, <4>1, <4>2, <4>3
      <4> QED  BY <2>3, <4>2, <4>4 DEF Stacks, a
    <3>5. AssignsMean(as, env) \in Stacks(Spoken(X))
      <4>1. AssignsHaveMeaning(as, Spoken(X))
        BY <3>4 DEF AssignsHaveMeaning
      <4> HIDE DEF as
      <4>2. PICK s : MeantOneByOne(as, Spoken(X), env, s)
        BY <2>2, <3>2, <4>1, AssignsMeanIs
      <4>3. Len(as) \in 0 .. Len(as)
        BY <3>2, NumberUpToItself
      <4> QED  BY <4>2, <4>3 DEF MeantOneByOne
    <3>6. Means(e, env) = Means(e.value, AssignsMean(as, env))
      BY <2>1, <2>8 DEF Meaning, Literals
    <3> HIDE DEF as
    <3> QED  BY <1>1, <2>3, <3>1, <3>3, <3>5, <3>6 DEF Stacks
  <2>9. CASE e.tag = "if"
    <3>1. e.cond \in S /\ e.then \in S /\ e.elsy \in S
      BY <1>1, <2>9, FormOf DEF Literals
    <3>2. e.cond \in Parts(e) /\ e.then \in Parts(e) /\ e.elsy \in Parts(e)
      BY <2>9 DEF Parts
    <3> DEFINE c == Means(e.cond, env)
               t == Means(e.then, env)
               f == Means(e.elsy, env)
    <3>3. c \in Spoken(X) /\ t \in Spoken(X) /\ f \in Spoken(X)
      BY <1>1, <2>3, <3>1, <3>2
    <3>4. Means(e, env) = Value(t.type, Term("if", <<c.term, t.term, f.term>>))
      BY <2>1, <2>9 DEF Meaning, Literals
    <3> HIDE DEF c, t, f
    <3>5. "if" \in TermOps
      BY DEF TermOps
    <3>6. Term("if", <<c.term, t.term, f.term>>) \in X
      BY <3>3, <3>5, SpokenIs, TermsAre
    <3> QED  BY <3>3, <3>4, <3>6, SpokenIs
  <2>10. CASE e.tag \in {"assign", "declare", "func", "unsupported"}
    <3>1. Means(e, env) = NoValue
      BY <2>1, <2>10 DEF Meaning, Literals
    <3> QED  BY <2>2, <3>1
  <2> QED  BY <1>1, <2>4, <2>5, <2>6, <2>7, <2>8, <2>9, <2>10, FormOf
<1>3. S \subseteq G
  <2>1. \A e \in S : (\A p \in S : depth[p] < depth[e] => p \in G) => e \in G
    BY <1>2
  <2> HIDE DEF G
  <2> QED  BY <2>1, ByDepth
<1> QED  BY <1>3

-----------------------------------------------------------------------------
(* What is built for an infix operator.                                    *)

\* v computes the value w of the language.
Same(v, w, mem) == v.type \in MachineTypes /\ Value(LanguageType(v.type), Computes(v.term, mem)) = w

\* v is Bad or computes w.
Sound(v, w, mem) == v = Bad \/ Same(v, w, mem)

\* Values that are the same have types that correspond, and the same term.
LEMMA SameIs ==
  ASSUME NEW v, NEW w, NEW mem, Same(v, w, mem)
  PROVE  /\ v.type \in MachineTypes /\ w.type = LanguageType(v.type) /\ w.term = Computes(v.term, mem)
         /\ v.type = "i64" <=> w.type = "Int"
         /\ v.type = "double" <=> w.type = "Float"
         /\ v.type = "i1" <=> w.type = "Bool"
<1>1. w.type = LanguageType(v.type) /\ w.term = Computes(v.term, mem) /\ v.type \in MachineTypes
  BY ValueIs DEF Same
<1> QED  BY <1>1 DEF LanguageType, MachineTypes

\* A cast converts an Int that meets a Float, and nothing else.
LEMMA CastIs ==
  ASSUME NEW v, NEW t, NEW o
  PROVE  \/ Cast(v, t, o) = Bad
         \/ Cast(v, t, o) = v /\ ~(t = IntType /\ o = FloatType)
         \/ /\ t = IntType /\ o = FloatType /\ v.type = "i64"
            /\ Cast(v, t, o) = Value("double", Term("sitofp", <<v.term>>))
<1>1. Instruction("double", "sitofp", <<v>>, "i64")
        = IF v.type = "i64" THEN Value("double", Term("sitofp", <<v.term>>)) ELSE Bad
  BY InstructionOne
<1> QED  BY <1>1 DEF Cast

\* The types of whole numbers and fractions differ.
LEMMA IntIsNotFloat == IntType # FloatType
BY DEF IntType, FloatType, Primitive, TypeOf

\* The operands of an instruction, as they are or with one of them converted.
Operands(v, w, a, b) ==
    \/ a = v /\ b = w
    \/ v.type = "i64" /\ a = Value("double", Term("sitofp", <<v.term>>)) /\ b = w
    \/ w.type = "i64" /\ b = Value("double", Term("sitofp", <<w.term>>)) /\ a = v

\* Of two operands that are cast to each other, one is converted at most.
LEMMA CastsAre ==
  ASSUME NEW v, NEW w, NEW t, NEW u, NEW a, NEW b, a = Cast(v, t, u), b = Cast(w, u, t)
  PROVE  a = Bad \/ b = Bad \/ Operands(v, w, a, b)
<1>1. \/ a = Bad
      \/ a = v
      \/ t = IntType /\ u = FloatType /\ v.type = "i64" /\ a = Value("double", Term("sitofp", <<v.term>>))
  BY CastIs
<1>2. \/ b = Bad
      \/ b = w
      \/ u = IntType /\ t = FloatType /\ w.type = "i64" /\ b = Value("double", Term("sitofp", <<w.term>>))
  BY CastIs
<1> QED  BY <1>1, <1>2, IntIsNotFloat DEF Operands

\* An instruction on operands of the type p computes the operator on what they mean.
LEMMA Operated ==
  ASSUME NEW X, AreTerms(X), ComputesIs(X), NEW mem, NEW v, NEW w, v.term \in X, w.term \in X,
         NEW l, NEW r, Same(v, l, mem), Same(w, r, mem), NEW a, NEW b, Operands(v, w, a, b),
         NEW p, a.type = p, b.type = p, NEW o \in Operators
  PROVE  /\ Computes(Term(o, <<a.term, b.term>>), mem) = Term(o, Promote(l, r))
         /\ p = "i64" => l.type = "Int" /\ r.type = "Int"
         /\ p = "double" => l.type = "Float" \/ r.type = "Float"
<1>1. /\ v.type \in MachineTypes /\ l.type = LanguageType(v.type) /\ l.term = Computes(v.term, mem)
      /\ w.type \in MachineTypes /\ r.type = LanguageType(w.type) /\ r.term = Computes(w.term, mem)
      /\ (v.type = "i64" <=> l.type = "Int") /\ (v.type = "double" <=> l.type = "Float")
      /\ (w.type = "i64" <=> r.type = "Int") /\ (w.type = "double" <=> r.type = "Float")
  BY SameIs
<1>2. /\ o \in TermOps \ {"load"} /\ "sitofp" \in TermOps \ {"load"}
  BY DEF TermOps, Operators
<1>3. CASE a = v /\ b = w
  <2>1. l.type = r.type
    BY <1>1, <1>3
  <2>2. Promote(l, r) = <<l.term, r.term>>
    BY <2>1 DEF Promote
  <2>3. Computes(Term(o, <<a.term, b.term>>), mem) = Term(o, <<l.term, r.term>>)
    BY <1>1, <1>2, <1>3, ComputedTerm
  <2> QED  BY <1>1, <1>3, <2>2, <2>3
<1>4. CASE v.type = "i64" /\ a = Value("double", Term("sitofp", <<v.term>>)) /\ b = w
  <2>1. a.type = "double" /\ a.term = Term("sitofp", <<v.term>>)
    BY <1>4, ValueIs
  <2>2. l.type = "Int" /\ r.type = "Float" /\ p = "double"
    BY <1>1, <1>4, <2>1
  <2>3. Promote(l, r) = <<Term("sitofp", <<l.term>>), r.term>>
    BY <2>2 DEF Promote, ToFloat
  <2>4. a.term \in X /\ Computes(a.term, mem) = Term("sitofp", <<l.term>>)
    BY <1>1, <1>2, <2>1, TermsAre, ComputedTerm
  <2>5. Computes(Term(o, <<a.term, b.term>>), mem) = Term(o, <<Computes(a.term, mem), Computes(b.term, mem)>>)
    BY <1>2, <1>4, <2>4, ComputedTerm
  <2> QED  BY <1>1, <1>4, <2>2, <2>3, <2>4, <2>5
<1>5. CASE w.type = "i64" /\ b = Value("double", Term("sitofp", <<w.term>>)) /\ a = v
  <2>1. b.type = "double" /\ b.term = Term("sitofp", <<w.term>>)
    BY <1>5, ValueIs
  <2>2. l.type = "Float" /\ r.type = "Int" /\ p = "double"
    BY <1>1, <1>5, <2>1
  <2>3. Promote(l, r) = <<l.term, Term("sitofp", <<r.term>>)>>
    BY <2>2 DEF Promote, ToFloat
  <2>4. b.term \in X /\ Computes(b.term, mem) = Term("sitofp", <<r.term>>)
    BY <1>1, <1>2, <2>1, TermsAre, ComputedTerm
  <2>5. Computes(Term(o, <<a.term, b.term>>), mem) = Term(o, <<Computes(a.term, mem), Computes(b.term, mem)>>)
    BY <1>2, <1>5, <2>4, ComputedTerm
  <2> QED  BY <1>1, <1>5, <2>2, <2>3, <2>4, <2>5
<1> QED  BY <1>3, <1>4, <1>5 DEF Operands

\* x is an instruction for the operator o, of the type t over a and b, of the type p.
Operates(x, o, v, w, a, b, t, p) ==
    /\ x = IF a.type = p /\ b.type = p THEN Value(t, Term(o, <<a.term, b.term>>)) ELSE Bad
    /\ a = Bad \/ b = Bad \/ Operands(v, w, a, b)
    /\ o = "+" => t = p /\ p \in {"i64", "double"}
    /\ o = "%" => t = p /\ p = "i64"
    /\ o \notin {"+", "%"} => t = "i1"
    /\ p \in MachineTypes

\* There is one for every infix operator that there is one for.
LEMMA InfixIs ==
  ASSUME NEW e, e.op \in Operators, NEW v, NEW w, NEW x, x = BuildInfix(e, v, w)
  PROVE  x = Bad \/ \E a, b, t, p : Operates(x, e.op, v, w, a, b, t, p)
<1> DEFINE lt == e.left.type
           rt == e.right.type
           c == Cast(v, lt, rt)
           d == Cast(w, rt, lt)
           number == IF e.type = IntType THEN "i64" ELSE "double"
<1>1. c = Bad \/ d = Bad \/ Operands(v, w, c, d)
  BY CastsAre
<1>2. Operands(v, w, v, w)
  BY DEF Operands
<1>p. "i64" \in MachineTypes /\ "double" \in MachineTypes /\ "i1" \in MachineTypes
  BY DEF MachineTypes
<1> HIDE DEF c, d
<1>3. CASE e.op = "+"
  <2>1. x = Instruction(number, e.op, <<c, d>>, number)
    BY <1>3 DEF BuildInfix, c, d
  <2>2. number \in {"i64", "double"} /\ number \in MachineTypes
    BY <1>p
  <2> HIDE DEF number
  <2>3. Operates(x, e.op, v, w, c, d, number, number)
    BY <1>1, <1>3, <2>1, <2>2, InstructionTwo DEF Operates
  <2> QED  BY <2>3
<1>4. CASE e.op = "%"
  <2>1. x = Instruction("i64", e.op, <<c, d>>, "i64")
    BY <1>4 DEF BuildInfix, c, d
  <2>2. Operates(x, e.op, v, w, c, d, "i64", "i64")
    BY <1>1, <1>4, <1>p, <2>1, InstructionTwo DEF Operates
  <2> QED  BY <2>2
<1>5. CASE e.op = "<"
  <2> DEFINE q == IF {lt, rt} = {IntType} THEN "i64" ELSE "double"
  <2>1. x = Instruction("i1", e.op, <<c, d>>, q)
    BY <1>5 DEF BuildInfix, c, d
  <2>2. q \in MachineTypes
    BY <1>p
  <2> HIDE DEF q
  <2>3. Operates(x, e.op, v, w, c, d, "i1", q)
    BY <1>1, <1>5, <2>1, <2>2, InstructionTwo DEF Operates
  <2> QED  BY <2>3
<1>6. CASE e.op \in {"and", "or"}
  <2>1. x = Instruction("i1", e.op, <<v, w>>, "i1")
    BY <1>6 DEF BuildInfix
  <2> DEFINE o == e.op
  <2>2. o # "+" /\ o # "%" /\ x = Instruction("i1", o, <<v, w>>, "i1")
    BY <1>6, <2>1
  <2> HIDE DEF o
  <2>3. Operates(x, o, v, w, v, w, "i1", "i1")
    BY <1>2, <1>p, <2>2, InstructionTwo DEF Operates
  <2> QED  BY <2>3 DEF o
<1>7. CASE e.op = "xor"
  <2>1. x = Instruction("i1", e.op, <<c, d>>, "i1")
    BY <1>7 DEF BuildInfix, c, d
  <2> DEFINE o == e.op
  <2>2. o # "+" /\ o # "%" /\ x = Instruction("i1", o, <<c, d>>, "i1")
    BY <1>7, <2>1
  <2> HIDE DEF o
  <2>3. Operates(x, o, v, w, c, d, "i1", "i1")
    BY <1>1, <1>p, <2>2, InstructionTwo DEF Operates
  <2> QED  BY <2>3 DEF o
<1>8. CASE e.op = "none"
  BY <1>8 DEF BuildInfix
<1> QED  BY <1>3, <1>4, <1>5, <1>6, <1>7, <1>8 DEF Operators

\* What is built for an infix operator, from what is built for its operands, is Bad or
\* computes the operator on what they mean; and it has a type.
LEMMA InfixBuilt ==
  ASSUME NEW X, AreTerms(X), NEW e, e.op \in Operators, NEW TT, AreTypes(TT),
         NEW v \in Machine(X, TT), NEW w \in Machine(X, TT)
  PROVE  /\ BuildInfix(e, v, w) \in Machine(X, TT)
         /\ \A l, r, mem : ComputesIs(X) /\ Sound(v, l, mem) /\ Sound(w, r, mem) =>
              Sound(BuildInfix(e, v, w), Value(OperatorType(e.op, l, r), Term(e.op, Promote(l, r))), mem)
<1> DEFINE x == BuildInfix(e, v, w)
<1>1. CASE x = Bad
  BY <1>1, ValueIs DEF Sound
<1>2. CASE x # Bad
  <2>0. PICK a, b, t, p : Operates(x, e.op, v, w, a, b, t, p)
    BY <1>2, InfixIs
  <2>1. /\ x = Value(t, Term(e.op, <<a.term, b.term>>))
        /\ a.type = p /\ b.type = p
        /\ a = Bad \/ b = Bad \/ Operands(v, w, a, b)
        /\ e.op = "+" => t = p /\ p \in {"i64", "double"}
        /\ e.op = "%" => t = p /\ p = "i64"
        /\ e.op \notin {"+", "%"} => t = "i1"
        /\ p \in MachineTypes
    <3> HIDE DEF x
    <3> QED  BY <1>2, <2>0 DEF Operates
  <2>2. "bad" \notin MachineTypes /\ MachineTypes \subseteq TT /\ Bad.type = "bad"
    BY ValueIs DEF AreTypes
  <2>3. Operands(v, w, a, b)
    BY <2>1, <2>2
  <2>4. v # Bad /\ w # Bad
    <3>1. "i64" # "bad" /\ "double" \in MachineTypes
      BY DEF MachineTypes
    <3> QED  BY <2>1, <2>2, <2>3, <3>1, ValueIs DEF Operands
  <2>5. v.term \in X /\ w.term \in X
    BY <2>4, ValueIs
  <2>6. x \in Machine(X, TT)
    <3>1. e.op \in TermOps /\ "sitofp" \in TermOps
      BY DEF TermOps
    <3>2. a.term \in X /\ b.term \in X
      <4>1. Term("sitofp", <<v.term>>) \in X /\ Term("sitofp", <<w.term>>) \in X
        BY <2>5, <3>1, TermsAre
      <4> QED  BY <2>3, <2>5, <4>1, ValueIs DEF Operands
    <3>3. Term(e.op, <<a.term, b.term>>) \in X
      BY <3>1, <3>2, TermsAre
    <3>4. t \in TT
      BY <2>1, <2>2 DEF MachineTypes
    <3> QED  BY <2>1, <3>3, <3>4, ValueIs
  <2>7. ASSUME NEW l, NEW r, NEW mem, ComputesIs(X), Sound(v, l, mem), Sound(w, r, mem)
        PROVE  Sound(x, Value(OperatorType(e.op, l, r), Term(e.op, Promote(l, r))), mem)
    <3>1. Same(v, l, mem) /\ Same(w, r, mem)
      BY <2>4, <2>7 DEF Sound
    <3>2. /\ Computes(Term(e.op, <<a.term, b.term>>), mem) = Term(e.op, Promote(l, r))
          /\ p = "i64" => l.type = "Int" /\ r.type = "Int"
          /\ p = "double" => l.type = "Float" \/ r.type = "Float"
      BY <2>1, <2>3, <2>5, <2>7, <3>1, Operated
    <3>3. LanguageType(t) = OperatorType(e.op, l, r) /\ t \in MachineTypes
      <4>1. CASE e.op = "+"
        BY <2>1, <3>2, <4>1 DEF OperatorType, LanguageType, MachineTypes
      <4>2. CASE e.op = "%"
        BY <2>1, <3>2, <4>2 DEF OperatorType, LanguageType, MachineTypes
      <4>3. CASE e.op \in {"<", "and", "or", "xor"}
        BY <2>1, <4>3 DEF OperatorType, LanguageType, MachineTypes
      <4>4. e.op # "none"
        BY <1>2 DEF BuildInfix
      <4> QED  BY <4>1, <4>2, <4>3, <4>4 DEF Operators
    <3> HIDE DEF x
    <3>4. x.type = t /\ x.term = Term(e.op, <<a.term, b.term>>)
      BY <2>1, ValueIs
    <3> QED  BY <3>2, <3>3, <3>4 DEF Sound, Same
  <2> QED  BY <2>6, <2>7
<1> QED  BY <1>1, <1>2

-----------------------------------------------------------------------------
(* What is built has a type.                                               *)

Global(globals, n) == IF globals[n] = Absent THEN Bad ELSE Value(globals[n], Load(n))

\* The value of a name: that of a local scope, or else of a global.
Found(local, globals, n) ==
    IF Looked(local, n, NoValue) # NoValue THEN Looked(local, n, NoValue) ELSE Global(globals, n)

Locals(X, TT) == Seq([Names -> Local(X, TT)])
GlobalsTyped(globals, TT) == \A n \in Names : globals[n] \in TT \cup {Absent}

\* What is built for a symbol is what it is found to be.
LEMMA SymbolBuilds ==
  ASSUME NEW S, BuildsIs(S), NEW e \in S, e.tag = "symbol", e.name \in Names,
         NEW V, NEW local \in Seq([Names -> V]), NEW globals
  PROVE  Builds(e, local, globals) = Found(local, globals, e.name)
<1> DEFINE n == e.name
           k == Len(local)
           i == Innermost(local, n, NoValue)
<1>1. Builds(e, local, globals) = IF i # 0 THEN local[i][n]
                                  ELSE IF globals[n] = Absent THEN Bad ELSE Value(globals[n], Load(n))
  BY DEF BuildsIs, Build, Literals, NoLocal
<1>2. k \in Nat /\ DOMAIN local = 1 .. k
  BY LenProperties
<1>3. IsLast(i, k, local, n, NoValue)
  BY <1>2, InnermostIs
<1>4. Looked(local, n, NoValue) = IF i = 0 THEN NoValue ELSE local[i][n]
  BY DEF Looked
<1> HIDE DEF i, k
<1>5. i # 0 <=> Looked(local, n, NoValue) # NoValue
  BY <1>3, <1>4 DEF IsLast
<1> QED  BY <1>1, <1>4, <1>5 DEF Found, Global

\* A scope without locals hides nothing.
LEMMA NoLocalsPushed ==
  ASSUME NEW V, NoValue \in V, NEW local \in Seq([Names -> V])
  PROVE  /\ Append(local, NoLocals) \in Stacks(V) /\ Append(local, NoLocals) \in Seq([Names -> V])
         /\ \A n \in Names : Looked(Append(local, NoLocals), n, NoValue) = Looked(local, n, NoValue)
<1>1. Append(local, [m \in Names |-> NoValue]) \in Stacks(V)
  BY StackPushed
<1>2. \A n \in Names : Looked(Append(local, [m \in Names |-> NoValue]), n, NoValue) = Looked(local, n, NoValue)
  BY LookedBelow
<1> QED  BY <1>1, <1>2 DEF NoLocals, NoLocal, Stacks

\* What is built of an S expression is Bad or has one of the types there are.
LEMMA BuildTyped ==
  ASSUME NEW S, NEW T, NEW depth, Language(S, T, depth), BuildsIs(S), NEW X, AreTerms(X),
         NEW TT, AreTypes(TT), NEW globals, GlobalsTyped(globals, TT)
  PROVE  \A e \in S, local \in Locals(X, TT) : Builds(e, local, globals) \in Machine(X, TT)
<1> DEFINE G == {e \in S : \A local \in Locals(X, TT) : Builds(e, local, globals) \in Machine(X, TT)}
<1>1. S = Forms(S, T) /\ (\A e \in S : depth[e] \in Nat) /\ \A e \in S : \A p \in Parts(e) : depth[p] < depth[e]
  BY DEF Language
<1>2. NoValue \in Local(X, TT) /\ Machine(X, TT) \subseteq Local(X, TT) /\ Bad \in Machine(X, TT)
  BY ValueIs DEF Local
<1>t. "i64" \in TT /\ "double" \in TT /\ "i1" \in TT
  BY DEF AreTypes, MachineTypes
<1>3. ASSUME NEW e \in S, \A p \in S : depth[p] < depth[e] => p \in G, NEW local \in Locals(X, TT)
      PROVE  Builds(e, local, globals) \in Machine(X, TT)
  <2>1. Builds(e, local, globals) = Build(e, local, globals)
    BY DEF BuildsIs
  <2>2. Append(local, NoLocals) \in Locals(X, TT)
    BY <1>2, NoLocalsPushed DEF Locals
  <2>3. ASSUME NEW p \in S, depth[p] < depth[e]
        PROVE  \A stack \in Locals(X, TT) : Builds(p, stack, globals) \in Machine(X, TT)
    BY <1>3, <2>3
  <2>4. CASE e.tag \in Literals
    <3>1. Const(e.literal) \in X
      BY <1>1, <2>4, FormOf, TermsAre DEF Literals
    <3>2. InternalTypeToLlvm(Primitive(e.tag)) \in TT
      BY <1>t, <2>4 DEF InternalTypeToLlvm, Literals, Primitive, TypeOf, IntType, FloatType, BoolType
    <3>3. Builds(e, local, globals) = Value(InternalTypeToLlvm(Primitive(e.tag)), Const(e.literal))
      BY <2>1, <2>4 DEF Build, Literals
    <3> QED  BY <3>1, <3>2, <3>3, ValueIs
  <2>5. CASE e.tag = "symbol"
    <3> DEFINE n == e.name
    <3>1. n \in Names
      BY <1>1, <2>5, FormOf DEF Literals
    <3>2. Builds(e, local, globals) = Found(local, globals, n)
      BY <2>5, <3>1, SymbolBuilds DEF Locals
    <3> HIDE DEF n
    <3>3. Looked(local, n, NoValue) \in Local(X, TT)
      BY <1>2, <3>1, LookedIn DEF Locals
    <3>4. Global(globals, n) \in Machine(X, TT)
      BY <3>1, TermsAre, ValueIs DEF Global, GlobalsTyped
    <3> QED  BY <3>2, <3>3, <3>4 DEF Found, Local
  <2>6. CASE e.tag = "infix"
    <3>1. e.op \in Operators /\ e.left \in S /\ e.right \in S
      BY <1>1, <2>6, FormOf DEF Literals
    <3>2. e.left \in Parts(e) /\ e.right \in Parts(e)
      BY <2>6 DEF Parts
    <3> DEFINE inner == IF e.op \in {"and", "or"} THEN Append(local, NoLocals) ELSE local
               v == Builds(e.left, local, globals)
               w == Builds(e.right, inner, globals)
    <3>3. inner \in Locals(X, TT)
      BY <2>2
    <3>4. Builds(e, local, globals) = BuildInfix(e, v, w)
      BY <2>1, <2>6 DEF Build, Literals
    <3> HIDE DEF inner
    <3>5. v \in Machine(X, TT) /\ w \in Machine(X, TT)
      BY <1>1, <2>3, <3>1, <3>2, <3>3
    <3> HIDE DEF v, w
    <3> QED  BY <3>1, <3>4, <3>5, InfixBuilt
  <2>7. CASE e.tag = "prefix" /\ e.op = "neg"
    <3>1. e.operand \in S
      BY <1>1, <2>7, FormOf DEF Literals
    <3>2. e.operand \in Parts(e)
      BY <2>7 DEF Parts
    <3> DEFINE v == Builds(e.operand, local, globals)
               number == IF e.operand.type = IntType THEN "i64" ELSE "double"
               o == e.op
    <3>3. v \in Machine(X, TT)
      BY <1>1, <2>3, <3>1, <3>2
    <3>4. Builds(e, local, globals) = Instruction(number, o, <<v>>, number)
      BY <2>1, <2>7 DEF Build, Literals
    <3>5. number \in TT /\ o \in TermOps
      BY <1>t, <2>7 DEF TermOps
    <3> HIDE DEF v, number, o
    <3>6. v.type = number => Term(o, <<v.term>>) \in X
      <4>1. v.type = number => v # Bad
        BY <3>5, ValueIs DEF AreTypes
      <4> QED  BY <3>3, <3>5, <4>1, ValueIs, TermsAre
    <3>7. Builds(e, local, globals) = IF v.type = number THEN Value(number, Term(o, <<v.term>>)) ELSE Bad
      BY <3>4, InstructionOne
    <3> QED  BY <1>2, <3>5, <3>6, <3>7, ValueIs
  <2>8. CASE e.tag = "local_scope"
    <3> DEFINE as == e.assigns
    <3>1. as \in Seq(S) /\ e.value \in S
      BY <1>1, <2>8, FormOf DEF Literals
    <3>2. Len(as) \in Nat /\ DOMAIN as = 1 .. Len(as) /\ \A i \in 1 .. Len(as) : as[i] \in S
      BY <3>1, LenProperties, ElementOfSeq
    <3>3. e.value \in Parts(e) /\ \A i \in 1 .. Len(as) : as[i] \in Parts(e)
      BY <2>8, <3>2 DEF Parts
    <3>4. ASSUME NEW i \in 1 .. Len(as), as[i].tag = "assign"
          PROVE  as[i].name \in Names /\ \A stack \in Stacks(Local(X, TT)) : Builds(as[i].value, stack, globals) \in Local(X, TT)
      <4> DEFINE a == as[i]
      <4>1. a \in S /\ a.tag = "assign" /\ depth[a] < depth[e]
        BY <1>1, <3>2, <3>3, <3>4
      <4> HIDE DEF a
      <4>2. a.name \in Names /\ a.value \in S
        BY <1>1, <4>1, FormOf DEF Literals
      <4>3. a.value \in Parts(a)
        BY <4>1 DEF Parts
      <4>4. depth[a.value] < depth[e]
        BY <1>1, <4>1, <4>2, <4>3
      <4> QED  BY <1>2, <2>3, <4>2, <4>4 DEF Stacks, Locals, a
    <3>5. BuildAssigns(as, local, globals) \in Locals(X, TT)
      <4> DEFINE V == Local(X, TT)
      <4>1. local \in Seq([Names -> V]) /\ NoValue \in V
        BY <1>2 DEF Locals
      <4>2. AssignsBuild(as, V, globals)
        BY <3>4 DEF AssignsBuild
      <4> HIDE DEF as, V
      <4>3. PICK s : BuiltOneByOne(as, V, local, globals, s)
        BY <3>2, <4>1, <4>2, BuildAssignsIs
      <4>4. Len(as) \in 0 .. Len(as)
        BY <3>2, NumberUpToItself
      <4> QED  BY <4>3, <4>4 DEF Stacks, Locals, V, BuiltOneByOne
    <3> DEFINE built == BuildAssigns(as, local, globals)
    <3>6. Builds(e, local, globals) \in {Bad, Builds(e.value, built, globals)}
      BY <2>1, <2>8 DEF Build, Literals
    <3> HIDE DEF as, built
    <3>7. Builds(e.value, built, globals) \in Machine(X, TT)
      BY <1>1, <2>3, <3>1, <3>3, <3>5 DEF built
    <3> QED  BY <1>2, <3>6, <3>7
  <2>9. CASE e.tag = "if"
    <3>1. e.cond \in S /\ e.then \in S /\ e.elsy \in S
      BY <1>1, <2>9, FormOf DEF Literals
    <3>2. e.cond \in Parts(e) /\ e.then \in Parts(e) /\ e.elsy \in Parts(e)
      BY <2>9 DEF Parts
    <3> DEFINE c == Builds(e.cond, local, globals)
               inner == Append(local, NoLocals)
               t == Builds(e.then, inner, globals)
               f == Builds(e.elsy, inner, globals)
    <3>3. c \in Machine(X, TT) /\ t \in Machine(X, TT) /\ f \in Machine(X, TT)
      BY <1>1, <2>2, <2>3, <3>1, <3>2
    <3>4. \/ Builds(e, local, globals) = Bad
          \/ /\ c.type = "i1" /\ t # Bad /\ f # Bad
             /\ Builds(e, local, globals) = Value(t.type, Term("if", <<c.term, t.term, f.term>>))
      BY <2>1, <2>9 DEF Build, Literals
    <3> HIDE DEF c, t, f
    <3>5. c.type = "i1" => c # Bad
      BY ValueIs
    <3>6. "if" \in TermOps
      BY DEF TermOps
    <3>7. c # Bad /\ t # Bad /\ f # Bad => t.type \in TT /\ Term("if", <<c.term, t.term, f.term>>) \in X
      BY <3>3, <3>6, ValueIs, TermsAre
    <3> QED  BY <1>2, <3>4, <3>5, <3>7, ValueIs
  <2>10. CASE e.tag \in {"assign", "declare", "func", "unsupported"} \/ (e.tag = "prefix" /\ e.op # "neg")
    <3>1. Builds(e, local, globals) = Bad
      BY <2>1, <2>10 DEF Build, Literals
    <3> QED  BY <1>2, <3>1
  <2> QED  BY <1>1, <2>4, <2>5, <2>6, <2>7, <2>8, <2>9, <2>10, FormOf
<1>4. S \subseteq G
  <2>1. \A e \in S : (\A p \in S : depth[p] < depth[e] => p \in G) => e \in G
    BY <1>3
  <2> HIDE DEF G
  <2> QED  BY <2>1, ByDepth
<1> QED  BY <1>4

-----------------------------------------------------------------------------
(* What is built computes what is meant.                                   *)

\* What is found for a name is sound.
Related(local, globals, env, mem) ==
    \A n \in Names : Sound(Found(local, globals, n), Looked(env, n, NoValue), mem)

\* A scope without locals changes nothing of that.
LEMMA RelatedPushed ==
  ASSUME NEW V, NoValue \in V, NEW local \in Seq([Names -> V]), NEW globals, NEW env, NEW mem,
         Related(local, globals, env, mem)
  PROVE  Related(Append(local, NoLocals), globals, env, mem)
<1>1. \A n \in Names : Looked(Append(local, NoLocals), n, NoValue) = Looked(local, n, NoValue)
  BY NoLocalsPushed
<1> QED  BY <1>1 DEF Related, Found

\* Nor does one without values.
LEMMA RelatedBelow ==
  ASSUME NEW V, NoValue \in V, NEW env \in Seq([Names -> V]), NEW globals, NEW local, NEW mem,
         Related(local, globals, env, mem)
  PROVE  Related(local, globals, Append(env, [m \in Names |-> NoValue]), mem)
<1>1. \A n \in Names : Looked(Append(env, [m \in Names |-> NoValue]), n, NoValue) = Looked(env, n, NoValue)
  BY LookedBelow
<1> QED  BY <1>1 DEF Related

\* Nor does an assignment, if what is built for it is sound.
LEMMA RelatedSaved ==
  ASSUME NEW X, NEW TT, AreTypes(TT), NEW local \in Stacks(Local(X, TT)), NEW globals,
         NEW env \in Stacks(Spoken(X)), NEW mem, Related(local, globals, env, mem),
         NEW n \in Names, NEW v \in Machine(X, TT), NEW w \in Spoken(X), Sound(v, w, mem)
  PROVE  Related(SaveLocal(local, n, v), globals, Bind(env, n, w), mem)
<1> DEFINE after == SaveLocal(local, n, v)
           meant == Bind(env, n, w)
<1>1. v \in Local(X, TT) /\ v # NoValue
  BY ValueIs DEF Local
<1>2. ASSUME NEW m \in Names, m # n
      PROVE  Sound(Found(after, globals, m), Looked(meant, m, NoValue), mem)
  <2>1. Looked(meant, m, NoValue) = Looked(env, m, NoValue)
    BY <1>2, LookedBound
  <2>2. Looked(Bind(local, n, v), m, NoValue) = Looked(local, m, NoValue)
    BY <1>1, <1>2, LookedBound
  <2>3. Looked(after, m, NoValue) = Looked(local, m, NoValue)
    BY <2>2 DEF SaveLocal
  <2> HIDE DEF after, meant
  <2> QED  BY <2>1, <2>3 DEF Related, Found
<1>3. Sound(Found(after, globals, n), Looked(meant, n, NoValue), mem)
  <2>1. CASE local[Len(local)][n] = Bad
    <3>1. Looked(local, n, NoValue) = Bad
      <4>1. /\ Len(local) \in Nat \ {0} /\ DOMAIN local = 1 .. Len(local)
            /\ Len(local) \in 1 .. Len(local)
        BY LenProperties, EmptySeq DEF Stacks
      <4>2. IsLast(Len(local), Len(local), local, n, NoValue)
        BY <2>1, <4>1, ValueIs DEF IsLast
      <4>3. Innermost(local, n, NoValue) = Len(local)
        BY <4>1, <4>2, InnermostOnly
      <4> QED  BY <2>1, <4>1, <4>3 DEF Looked
    <3>2. after = local
      BY <2>1 DEF SaveLocal
    <3>3. Found(after, globals, n) = Bad
      BY <3>1, <3>2, ValueIs DEF Found
    <3> QED  BY <3>3 DEF Sound
  <2>2. CASE local[Len(local)][n] # Bad
    <3>1. after = Bind(local, n, v)
      BY <2>2 DEF SaveLocal
    <3>2. Looked(after, n, NoValue) = v
      BY <1>1, <3>1, LookedBound
    <3>3. Found(after, globals, n) = v
      BY <1>1, <3>2 DEF Found
    <3>4. CASE v = Bad
      BY <3>3, <3>4 DEF Sound
    <3>5. CASE v # Bad
      <4>1. Same(v, w, mem)
        BY <3>5 DEF Sound
      <4>2. w # NoValue
        <5>1. w.type = LanguageType(v.type) /\ v.type \in MachineTypes
          BY <4>1, SameIs
        <5>2. w.type # "NULL"
          BY <5>1 DEF LanguageType, MachineTypes
        <5> QED  BY <5>2, ValueIs
      <4>3. Looked(meant, n, NoValue) = w
        BY <4>2, LookedBound
      <4> QED  BY <3>3, <4>3
    <3> QED  BY <3>4, <3>5
  <2> QED  BY <2>1, <2>2
<1> QED  BY <1>2, <1>3 DEF Related

\* Nor do the assignments of a local scope, whether they are sound or not.
LEMMA RelatedAssigned ==
  ASSUME NEW X, AreTerms(X), NEW TT, AreTypes(TT), NEW as, Len(as) \in Nat,
         NEW local \in Locals(X, TT), NEW globals, NEW env \in Seq([Names -> Spoken(X)]), NEW mem,
         Related(local, globals, env, mem),
         AssignsBuild(as, Local(X, TT), globals), AssignsHaveMeaning(as, Spoken(X)),
         \A i \in 1 .. Len(as) : as[i].tag = "assign" =>
             \A l \in Stacks(Local(X, TT)), v \in Stacks(Spoken(X)) :
                 /\ Builds(as[i].value, l, globals) \in Machine(X, TT)
                 /\ Related(l, globals, v, mem) =>
                       Sound(Builds(as[i].value, l, globals), Means(as[i].value, v), mem)
  PROVE  /\ BuildAssigns(as, local, globals) \in Locals(X, TT)
         /\ AssignsMean(as, env) \in Seq([Names -> Spoken(X)])
         /\ Related(BuildAssigns(as, local, globals), globals, AssignsMean(as, env), mem)
<1> DEFINE V == Local(X, TT)
           W == Spoken(X)
           n == Len(as)
<1>0. n \in Nat /\ 0 \in 0 .. n /\ \A k \in 1 .. n : k \in 0 .. n /\ k - 1 \in 0 .. n
  <2>1. n \in Nat
    OBVIOUS
  <2> HIDE DEF n
  <2> QED  BY <2>1
<1>1. NoValue \in V /\ NoValue \in W /\ local \in Seq([Names -> V])
  BY NoValueIn DEF Local, Locals
<1>2. \A l \in Stacks(V) : l \in Locals(X, TT)
  BY DEF Stacks, Locals
<1>3. \A l \in Stacks(W) : l \in Seq([Names -> W])
  BY DEF Stacks
<1>4. PICK s : BuiltOneByOne(as, V, local, globals, s)
  <2> HIDE DEF V
  <2> QED  BY <1>1, BuildAssignsIs DEF V
<1>5. PICK m : MeantOneByOne(as, W, env, m)
  <2> HIDE DEF W
  <2> QED  BY <1>1, AssignsMeanIs DEF W
<1> DEFINE M == {k \in 0 .. n : Related(s[k], globals, m[k], mem)}
<1>6. 0 \in M
  <2>1. Related(Append(local, NoLocals), globals, env, mem)
    BY <1>1, RelatedPushed
  <2>2. Related(Append(local, NoLocals), globals, Append(env, [x \in Names |-> NoValue]), mem)
    BY <1>1, <2>1, RelatedBelow
  <2>3. s[0] = Append(local, NoLocals)
    BY <1>4 DEF BuiltOneByOne
  <2>4. m[0] = Append(env, [x \in Names |-> NoValue])
    BY <1>5 DEF MeantOneByOne
  <2>5. 0 \in 0 .. n
    BY <1>0
  <2> QED  BY <2>2, <2>3, <2>4, <2>5
<1>7. ASSUME NEW k \in 1 .. n, k - 1 \in M PROVE k \in M
  <2>1. k \in 0 .. n /\ k - 1 \in 0 .. n
    BY <1>0
  <2> DEFINE l == s[k - 1]
             v == m[k - 1]
  <2>2. l \in Stacks(V) /\ v \in Stacks(W)
    BY <1>4, <1>5, <2>1 DEF BuiltOneByOne, MeantOneByOne
  <2>3. s[k] = BuildTurn(as, globals, k, l) /\ m[k] = MeansTurn(as, k, v)
    BY <1>4, <1>5 DEF BuiltOneByOne, MeantOneByOne
  <2>4. Related(l, globals, v, mem)
    BY <1>7
  <2> HIDE DEF l, v
  <2>5. CASE as[k].tag # "assign"
    BY <2>1, <2>3, <2>4, <2>5 DEF BuildTurn, MeansTurn
  <2>6. CASE as[k].tag = "assign"
    <3> DEFINE x == Builds(as[k].value, l, globals)
               y == Means(as[k].value, v)
               a == as[k].name
    <3>1. x \in Machine(X, TT) /\ Sound(x, y, mem)
      BY <2>2, <2>4, <2>6
    <3>2. y \in W /\ a \in Names
      BY <2>2, <2>6 DEF AssignsHaveMeaning
    <3>3. s[k] = SaveLocal(l, a, x) /\ m[k] = Bind(v, a, y)
      BY <2>3, <2>6 DEF BuildTurn, MeansTurn
    <3> HIDE DEF x, y, a
    <3>4. Related(SaveLocal(l, a, x), globals, Bind(v, a, y), mem)
      BY <2>2, <2>4, <3>1, <3>2, RelatedSaved
    <3> QED  BY <2>1, <3>3, <3>4
  <2> QED  BY <2>5, <2>6
<1>8. 0 .. n \subseteq M /\ n \in 0 .. n
  <2> HIDE DEF M, n
  <2> QED  BY <1>0, <1>6, <1>7, NumbersUpTo, NumberUpToItself
<1>9. /\ BuildAssigns(as, local, globals) = s[n] /\ s[n] \in Stacks(V)
      /\ AssignsMean(as, env) = m[n] /\ m[n] \in Stacks(W)
  <2> HIDE DEF V, W
  <2> QED  BY <1>4, <1>5, <1>8 DEF BuiltOneByOne, MeantOneByOne
<1>10. Related(s[n], globals, m[n], mem)
  BY <1>8
<1> HIDE DEF V, W, n
<1>11. s[n] \in Locals(X, TT) /\ m[n] \in Seq([Names -> Spoken(X)])
  BY <1>2, <1>3, <1>9 DEF W
<1> QED  BY <1>9, <1>10, <1>11

\* What is built of an S expression, where what is found for a name is sound, is Bad or
\* computes what the S expression means.
LEMMA BuildSound ==
  ASSUME NEW S, NEW T, NEW depth, Language(S, T, depth), BuildsIs(S), MeansIs(S),
         NEW X, AreTerms(X), ComputesIs(X), NEW TT, AreTypes(TT),
         NEW globals, GlobalsTyped(globals, TT), NEW mem
  PROVE  \A e \in S, local \in Locals(X, TT), env \in Seq([Names -> Spoken(X)]) :
            Related(local, globals, env, mem) => Sound(Builds(e, local, globals), Means(e, env), mem)
<1> DEFINE G == {e \in S : \A local \in Locals(X, TT), env \in Seq([Names -> Spoken(X)]) :
                     Related(local, globals, env, mem)
                         => Sound(Builds(e, local, globals), Means(e, env), mem)}
<1>1. S = Forms(S, T) /\ (\A e \in S : depth[e] \in Nat) /\ \A e \in S : \A p \in Parts(e) : depth[p] < depth[e]
  BY DEF Language
<1>2. \A e \in S, local \in Locals(X, TT) : Builds(e, local, globals) \in Machine(X, TT)
  BY BuildTyped
<1>3. \A e \in S, env \in Seq([Names -> Spoken(X)]) : Means(e, env) \in Spoken(X)
  BY MeansTyped
<1>4. ASSUME NEW e \in S, \A p \in S : depth[p] < depth[e] => p \in G,
             NEW local \in Locals(X, TT), NEW env \in Seq([Names -> Spoken(X)]),
             Related(local, globals, env, mem)
      PROVE  Sound(Builds(e, local, globals), Means(e, env), mem)
  <2>1. Builds(e, local, globals) = Build(e, local, globals) /\ Means(e, env) = Meaning(e, env)
    BY DEF BuildsIs, MeansIs
  <2>2. /\ Append(local, NoLocals) \in Locals(X, TT)
        /\ Related(Append(local, NoLocals), globals, env, mem)
    <3> DEFINE V == Local(X, TT)
    <3>1. local \in Seq([Names -> V]) /\ NoValue \in V
      BY DEF Local, Locals
    <3> HIDE DEF V
    <3>2. Append(local, NoLocals) \in Seq([Names -> V]) /\ Related(Append(local, NoLocals), globals, env, mem)
      BY <1>4, <3>1, NoLocalsPushed, RelatedPushed
    <3> QED  BY <3>2 DEF V, Locals
  <2>3. ASSUME NEW p \in S, depth[p] < depth[e], NEW l \in Locals(X, TT), NEW v \in Seq([Names -> Spoken(X)]),
               Related(l, globals, v, mem)
        PROVE  Sound(Builds(p, l, globals), Means(p, v), mem)
    BY <1>4, <2>3
  <2>4. CASE e.tag \in Literals
    <3> DEFINE t == InternalTypeToLlvm(Primitive(e.tag))
    <3>1. e.literal \in Texts
      BY <1>1, <2>4, FormOf DEF Literals
    <3>2. t \in MachineTypes /\ LanguageType(t) = e.tag
      BY <2>4 DEF InternalTypeToLlvm, Literals, Primitive, TypeOf, IntType, FloatType, BoolType, MachineTypes, LanguageType
    <3>3. Builds(e, local, globals) = Value(t, Const(e.literal)) /\ Means(e, env) = Value(e.tag, Const(e.literal))
      BY <2>1, <2>4 DEF Build, Meaning, Literals
    <3> HIDE DEF t
    <3>4. Computes(Const(e.literal), mem) = Const(e.literal)
      BY <3>1, Computed
    <3> QED  BY <3>2, <3>3, <3>4, ValueIs DEF Sound, Same
  <2>5. CASE e.tag = "symbol"
    <3>1. e.name \in Names
      BY <1>1, <2>5, FormOf DEF Literals
    <3>2. Builds(e, local, globals) = Found(local, globals, e.name)
      BY <2>5, <3>1, SymbolBuilds DEF Locals
    <3>3. Means(e, env) = Looked(env, e.name, NoValue)
      BY <2>5, SymbolMeans
    <3> QED  BY <1>4, <3>1, <3>2, <3>3 DEF Related
  <2>6. CASE e.tag = "infix"
    <3>1. e.op \in Operators /\ e.left \in S /\ e.right \in S
      BY <1>1, <2>6, FormOf DEF Literals
    <3>2. e.left \in Parts(e) /\ e.right \in Parts(e)
      BY <2>6 DEF Parts
    <3> DEFINE inner == IF e.op \in {"and", "or"} THEN Append(local, NoLocals) ELSE local
               v == Builds(e.left, local, globals)
               w == Builds(e.right, inner, globals)
               l == Means(e.left, env)
               r == Means(e.right, env)
    <3>3. inner \in Locals(X, TT) /\ Related(inner, globals, env, mem)
      BY <1>4, <2>2
    <3>4. Builds(e, local, globals) = BuildInfix(e, v, w)
      BY <2>1, <2>6 DEF Build, Literals
    <3>5. Means(e, env) = Value(OperatorType(e.op, l, r), Term(e.op, Promote(l, r)))
      BY <2>1, <2>6 DEF Meaning, Literals
    <3> HIDE DEF inner
    <3>6. v \in Machine(X, TT) /\ w \in Machine(X, TT)
      BY <1>2, <3>1, <3>3
    <3>7. Sound(v, l, mem) /\ Sound(w, r, mem)
      BY <1>1, <1>4, <2>3, <3>1, <3>2, <3>3
    <3> HIDE DEF v, w, l, r
    <3> QED  BY <3>1, <3>4, <3>5, <3>6, <3>7, InfixBuilt
  <2>7. CASE e.tag = "prefix" /\ e.op = "neg"
    <3>1. e.operand \in S
      BY <1>1, <2>7, FormOf DEF Literals
    <3>2. e.operand \in Parts(e)
      BY <2>7 DEF Parts
    <3> DEFINE v == Builds(e.operand, local, globals)
               x == Means(e.operand, env)
               number == IF e.operand.type = IntType THEN "i64" ELSE "double"
               o == e.op
    <3>3. v \in Machine(X, TT) /\ Sound(v, x, mem)
      BY <1>1, <1>2, <1>4, <2>3, <3>1, <3>2
    <3>4. Builds(e, local, globals) = Instruction(number, o, <<v>>, number)
      BY <2>1, <2>7 DEF Build, Literals
    <3>5. Means(e, env) = Value(x.type, Term(o, <<x.term>>))
      BY <2>1, <2>7 DEF Meaning, Literals
    <3>6. number \in MachineTypes /\ o \in TermOps \ {"load"}
      BY <2>7 DEF TermOps, MachineTypes
    <3> HIDE DEF v, x, number, o
    <3>7. Builds(e, local, globals) = IF v.type = number THEN Value(number, Term(o, <<v.term>>)) ELSE Bad
      BY <3>4, InstructionOne
    <3>8. CASE v.type # number
      BY <3>7, <3>8 DEF Sound
    <3>9. CASE v.type = number
      <4>1. v # Bad
        BY <3>6, <3>9, ValueIs DEF MachineTypes
      <4>2. v.term \in X
        BY <3>3, <4>1, ValueIs
      <4>3. Same(v, x, mem)
        BY <3>3, <4>1 DEF Sound
      <4>4. x.type = LanguageType(number) /\ x.term = Computes(v.term, mem)
        BY <3>9, <4>3, SameIs
      <4>5. Computes(Term(o, <<v.term>>), mem) = Term(o, <<x.term>>)
        BY <3>6, <4>2, <4>4, ComputedTerm
      <4> QED  BY <3>5, <3>6, <3>7, <3>9, <4>4, <4>5, ValueIs DEF Sound, Same
    <3> QED  BY <3>8, <3>9
  <2>8. CASE e.tag = "local_scope"
    <3> DEFINE as == e.assigns
    <3>1. as \in Seq(S) /\ e.value \in S
      BY <1>1, <2>8, FormOf DEF Literals
    <3>2. Len(as) \in Nat /\ DOMAIN as = 1 .. Len(as) /\ \A i \in 1 .. Len(as) : as[i] \in S
      BY <3>1, LenProperties, ElementOfSeq
    <3>3. e.value \in Parts(e) /\ \A i \in 1 .. Len(as) : as[i] \in Parts(e)
      BY <2>8, <3>2 DEF Parts
    <3>4. ASSUME NEW i \in 1 .. Len(as), as[i].tag = "assign"
          PROVE  /\ as[i].name \in Names
                 /\ \A l \in Stacks(Local(X, TT)) : Builds(as[i].value, l, globals) \in Machine(X, TT)
                 /\ \A v \in Stacks(Spoken(X)) : Means(as[i].value, v) \in Spoken(X)
                 /\ \A l \in Stacks(Local(X, TT)), v \in Stacks(Spoken(X)) :
                       Related(l, globals, v, mem) => Sound(Builds(as[i].value, l, globals), Means(as[i].value, v), mem)
      <4> DEFINE a == as[i]
      <4>1. a \in S /\ a.tag = "assign" /\ depth[a] < depth[e]
        BY <1>1, <3>2, <3>3, <3>4
      <4> HIDE DEF a
      <4>2. a.name \in Names /\ a.value \in S
        BY <1>1, <4>1, FormOf DEF Literals
      <4>3. a.value \in Parts(a)
        BY <4>1 DEF Parts
      <4>4. depth[a.value] < depth[e]
        BY <1>1, <4>1, <4>2, <4>3
      <4>5. /\ \A l \in Stacks(Local(X, TT)) : l \in Locals(X, TT)
            /\ \A v \in Stacks(Spoken(X)) : v \in Seq([Names -> Spoken(X)])
        BY DEF Stacks, Locals
      <4> QED  BY <1>2, <1>3, <2>3, <4>2, <4>4, <4>5 DEF a
    <3>5. AssignsBuild(as, Local(X, TT), globals) /\ AssignsHaveMeaning(as, Spoken(X))
      BY <3>4 DEF AssignsBuild, AssignsHaveMeaning, Local
    <3> DEFINE built == BuildAssigns(as, local, globals)
               meant == AssignsMean(as, env)
    <3>6. /\ built \in Locals(X, TT) /\ meant \in Seq([Names -> Spoken(X)])
          /\ Related(built, globals, meant, mem)
      <4> HIDE DEF as
      <4> QED  BY <1>4, <3>2, <3>4, <3>5, RelatedAssigned
    <3>7. Builds(e, local, globals) \in {Bad, Builds(e.value, built, globals)}
      BY <2>1, <2>8 DEF Build, Literals
    <3>8. Means(e, env) = Means(e.value, meant)
      BY <2>1, <2>8 DEF Meaning, Literals
    <3> HIDE DEF as, built, meant
    <3>9. Sound(Builds(e.value, built, globals), Means(e.value, meant), mem)
      BY <1>1, <1>4, <2>3, <3>1, <3>3, <3>6
    <3> QED  BY <3>7, <3>8, <3>9 DEF Sound
  <2>9. CASE e.tag = "if"
    <3>1. e.cond \in S /\ e.then \in S /\ e.elsy \in S
      BY <1>1, <2>9, FormOf DEF Literals
    <3>2. e.cond \in Parts(e) /\ e.then \in Parts(e) /\ e.elsy \in Parts(e)
      BY <2>9 DEF Parts
    <3> DEFINE c == Builds(e.cond, local, globals)
               inner == Append(local, NoLocals)
               t == Builds(e.then, inner, globals)
               f == Builds(e.elsy, inner, globals)
               mc == Means(e.cond, env)
               mt == Means(e.then, env)
               mf == Means(e.elsy, env)
    <3>3. c \in Machine(X, TT) /\ t \in Machine(X, TT) /\ f \in Machine(X, TT)
      BY <1>2, <2>2, <3>1
    <3>4. Sound(c, mc, mem) /\ Sound(t, mt, mem) /\ Sound(f, mf, mem)
      BY <1>1, <1>4, <2>2, <2>3, <3>1, <3>2
    <3>5. \/ Builds(e, local, globals) = Bad
          \/ /\ c.type = "i1" /\ t # Bad /\ f # Bad
             /\ Builds(e, local, globals) = Value(t.type, Term("if", <<c.term, t.term, f.term>>))
      BY <2>1, <2>9 DEF Build, Literals
    <3>6. Means(e, env) = Value(mt.type, Term("if", <<mc.term, mt.term, mf.term>>))
      BY <2>1, <2>9 DEF Meaning, Literals
    <3> HIDE DEF c, t, f, mc, mt, mf
    <3>7. c.type = "i1" => c # Bad
      BY ValueIs
    <3>8. "if" \in TermOps \ {"load"}
      BY DEF TermOps
    <3>9. ASSUME c # Bad, t # Bad, f # Bad
          PROVE  Same(Value(t.type, Term("if", <<c.term, t.term, f.term>>)),
                      Value(mt.type, Term("if", <<mc.term, mt.term, mf.term>>)), mem)
      <4>1. c.term \in X /\ t.term \in X /\ f.term \in X
        BY <3>3, <3>9, ValueIs
      <4>2. Same(c, mc, mem) /\ Same(t, mt, mem) /\ Same(f, mf, mem)
        BY <3>4, <3>9 DEF Sound
      <4>3. /\ mc.term = Computes(c.term, mem) /\ mf.term = Computes(f.term, mem)
            /\ mt.term = Computes(t.term, mem) /\ mt.type = LanguageType(t.type) /\ t.type \in MachineTypes
        BY <4>2, SameIs
      <4>4. Computes(Term("if", <<c.term, t.term, f.term>>), mem) = Term("if", <<mc.term, mt.term, mf.term>>)
        <5> DEFINE o == "if"
                   x == c.term
                   y == t.term
                   z == f.term
        <5>1. o \in TermOps \ {"load"} /\ x \in X /\ y \in X /\ z \in X
          BY <3>8, <4>1
        <5> HIDE DEF o, x, y, z
        <5>2. Computes(Term(o, <<x, y, z>>), mem) = Term(o, <<Computes(x, mem), Computes(y, mem), Computes(z, mem)>>)
          BY <5>1, ComputedTerm
        <5> QED  BY <4>3, <5>2 DEF o, x, y, z
      <4> QED  BY <4>3, <4>4, ValueIs DEF Same
    <3> QED  BY <3>5, <3>6, <3>7, <3>9 DEF Sound
  <2>10. CASE e.tag \in {"assign", "declare", "func", "unsupported"} \/ (e.tag = "prefix" /\ e.op # "neg")
    <3>1. Builds(e, local, globals) = Bad
      BY <2>1, <2>10 DEF Build, Literals
    <3> QED  BY <3>1 DEF Sound
  <2> QED  BY <1>1, <2>4, <2>5, <2>6, <2>7, <2>8, <2>9, <2>10, FormOf
<1>5. S \subseteq G
  <2>1. \A e \in S : (\A p \in S : depth[p] < depth[e] => p \in G) => e \in G
    BY <1>4
  <2> HIDE DEF G
  <2> QED  BY <2>1, ByDepth
<1> QED  BY <1>5

-----------------------------------------------------------------------------
(* What is built depends on no global that is not a name.                  *)

AlikeFor(g, h) == \A n \in Names : g[n] = h[n]

\* Assignments fill the local scope the same way, if the same is built for them.
LEMMA AssignsBuildSame ==
  ASSUME NEW as, Len(as) \in Nat, NEW V, NoValue \in V, NEW local \in Seq([Names -> V]), NEW g, NEW h,
         AssignsBuild(as, V, g), AssignsBuild(as, V, h),
         \A i \in 1 .. Len(as) : as[i].tag = "assign" =>
             \A l \in Stacks(V) : Builds(as[i].value, l, g) = Builds(as[i].value, l, h)
  PROVE  BuildAssigns(as, local, g) = BuildAssigns(as, local, h)
<1> DEFINE n == Len(as)
<1>1. PICK s : BuiltOneByOne(as, V, local, g, s)
  BY BuildAssignsIs
<1>2. PICK m : BuiltOneByOne(as, V, local, h, m)
  BY BuildAssignsIs
<1>3. /\ n \in Nat /\ 0 \in 0 .. n /\ n \in 0 .. n
      /\ \A k \in 1 .. n : k \in 0 .. n /\ k - 1 \in 0 .. n
  <2>1. n \in Nat
    OBVIOUS
  <2> HIDE DEF n
  <2> QED  BY <2>1
<1> DEFINE M == {k \in 0 .. n : s[k] = m[k]}
<1>4. 0 \in M
  <2>1. s[0] = Append(local, NoLocals)
    BY <1>1 DEF BuiltOneByOne
  <2>2. m[0] = Append(local, NoLocals)
    BY <1>2 DEF BuiltOneByOne
  <2> QED  BY <1>3, <2>1, <2>2
<1>5. ASSUME NEW k \in 1 .. n, k - 1 \in M PROVE k \in M
  <2> DEFINE l == s[k - 1]
  <2>1. s[k] = BuildTurn(as, g, k, l) /\ l \in Stacks(V)
    BY <1>1, <1>3 DEF BuiltOneByOne
  <2>2. m[k] = BuildTurn(as, h, k, l)
    BY <1>2, <1>5 DEF BuiltOneByOne
  <2> HIDE DEF l
  <2>3. BuildTurn(as, g, k, l) = BuildTurn(as, h, k, l)
    BY <2>1 DEF BuildTurn
  <2> QED  BY <1>3, <2>1, <2>2, <2>3
<1>6. 0 .. n \subseteq M
  <2> HIDE DEF M, n
  <2> QED  BY <1>3, <1>4, <1>5, NumbersUpTo
<1>7. s[n] = m[n]
  BY <1>3, <1>6
<1>8. BuildAssigns(as, local, g) = s[n]
  BY <1>1 DEF BuiltOneByOne
<1>9. BuildAssigns(as, local, h) = m[n]
  BY <1>2 DEF BuiltOneByOne
<1> QED  BY <1>7, <1>8, <1>9

\* Where the globals of names are the same, the same is built.
LEMMA BuildIndependent ==
  ASSUME NEW S, NEW T, NEW depth, Language(S, T, depth), BuildsIs(S), NEW X, AreTerms(X),
         NEW TT, AreTypes(TT), NEW g, GlobalsTyped(g, TT), NEW h, GlobalsTyped(h, TT), AlikeFor(g, h)
  PROVE  \A e \in S, local \in Locals(X, TT) : Builds(e, local, g) = Builds(e, local, h)
<1> DEFINE G == {e \in S : \A local \in Locals(X, TT) : Builds(e, local, g) = Builds(e, local, h)}
<1>1. S = Forms(S, T) /\ (\A e \in S : depth[e] \in Nat) /\ \A e \in S : \A p \in Parts(e) : depth[p] < depth[e]
  BY DEF Language
<1>2. \A e \in S, local \in Locals(X, TT) : Builds(e, local, g) \in Machine(X, TT) /\ Builds(e, local, h) \in Machine(X, TT)
  BY BuildTyped
<1>3. ASSUME NEW e \in S, \A p \in S : depth[p] < depth[e] => p \in G, NEW local \in Locals(X, TT)
      PROVE  Builds(e, local, g) = Builds(e, local, h)
  <2>1. Builds(e, local, g) = Build(e, local, g) /\ Builds(e, local, h) = Build(e, local, h)
    BY DEF BuildsIs
  <2>2. Append(local, NoLocals) \in Locals(X, TT)
    <3> DEFINE V == Local(X, TT)
    <3>1. local \in Seq([Names -> V]) /\ NoValue \in V
      BY DEF Local, Locals
    <3> HIDE DEF V
    <3>2. Append(local, NoLocals) \in Seq([Names -> V])
      BY <3>1, NoLocalsPushed
    <3> QED  BY <3>2 DEF V, Locals
  <2>3. ASSUME NEW p \in S, depth[p] < depth[e], NEW l \in Locals(X, TT)
        PROVE  Builds(p, l, g) = Builds(p, l, h)
    BY <1>3, <2>3
  <2>4. CASE e.tag \in Literals
    BY <2>1, <2>4 DEF Build, Literals
  <2>5. CASE e.tag = "symbol"
    <3>1. e.name \in Names
      BY <1>1, <2>5, FormOf DEF Literals
    <3>2. Builds(e, local, g) = Found(local, g, e.name) /\ Builds(e, local, h) = Found(local, h, e.name)
      BY <2>5, <3>1, SymbolBuilds DEF Locals
    <3> QED  BY <3>1, <3>2 DEF Found, Global, AlikeFor
  <2>6. CASE e.tag = "infix"
    <3>1. e.left \in S /\ e.right \in S
      BY <1>1, <2>6, FormOf DEF Literals
    <3>2. e.left \in Parts(e) /\ e.right \in Parts(e)
      BY <2>6 DEF Parts
    <3> DEFINE inner == IF e.op \in {"and", "or"} THEN Append(local, NoLocals) ELSE local
    <3>3. inner \in Locals(X, TT)
      BY <2>2
    <3>4. /\ Builds(e, local, g) = BuildInfix(e, Builds(e.left, local, g), Builds(e.right, inner, g))
          /\ Builds(e, local, h) = BuildInfix(e, Builds(e.left, local, h), Builds(e.right, inner, h))
      BY <2>1, <2>6 DEF Build, Literals
    <3> HIDE DEF inner
    <3>5. Builds(e.left, local, g) = Builds(e.left, local, h) /\ Builds(e.right, inner, g) = Builds(e.right, inner, h)
      BY <1>1, <2>3, <3>1, <3>2, <3>3
    <3> QED  BY <3>4, <3>5
  <2>7. CASE e.tag = "prefix" /\ e.op = "neg"
    <3>1. e.operand \in S
      BY <1>1, <2>7, FormOf DEF Literals
    <3>2. e.operand \in Parts(e)
      BY <2>7 DEF Parts
    <3> DEFINE number == IF e.operand.type = IntType THEN "i64" ELSE "double"
    <3>3. Builds(e.operand, local, g) = Builds(e.operand, local, h)
      BY <1>1, <2>3, <3>1, <3>2
    <3>4. /\ Builds(e, local, g) = Instruction(number, e.op, <<Builds(e.operand, local, g)>>, number)
          /\ Builds(e, local, h) = Instruction(number, e.op, <<Builds(e.operand, local, h)>>, number)
      BY <2>1, <2>7 DEF Build, Literals
    <3> QED  BY <3>3, <3>4
  <2>8. CASE e.tag = "local_scope"
    <3> DEFINE as == e.assigns
    <3>1. as \in Seq(S) /\ e.value \in S
      BY <1>1, <2>8, FormOf DEF Literals
    <3>2. Len(as) \in Nat /\ DOMAIN as = 1 .. Len(as) /\ \A i \in 1 .. Len(as) : as[i] \in S
      BY <3>1, LenProperties, ElementOfSeq
    <3>3. e.value \in Parts(e) /\ \A i \in 1 .. Len(as) : as[i] \in Parts(e)
      BY <2>8, <3>2 DEF Parts
    <3>4. ASSUME NEW i \in 1 .. Len(as), as[i].tag = "assign"
          PROVE  /\ as[i].name \in Names
                 /\ \A l \in Stacks(Local(X, TT)) :
                       /\ Builds(as[i].value, l, g) \in Machine(X, TT)
                       /\ Builds(as[i].value, l, g) = Builds(as[i].value, l, h)
      <4> DEFINE a == as[i]
      <4>1. a \in S /\ a.tag = "assign" /\ depth[a] < depth[e]
        BY <1>1, <3>2, <3>3, <3>4
      <4> HIDE DEF a
      <4>2. a.name \in Names /\ a.value \in S
        BY <1>1, <4>1, FormOf DEF Literals
      <4>3. a.value \in Parts(a)
        BY <4>1 DEF Parts
      <4>4. depth[a.value] < depth[e]
        BY <1>1, <4>1, <4>2, <4>3
      <4>5. \A l \in Stacks(Local(X, TT)) : l \in Locals(X, TT)
        BY DEF Stacks, Locals
      <4> QED  BY <1>2, <2>3, <4>2, <4>4, <4>5 DEF a
    <3> DEFINE V == Local(X, TT)
               built == BuildAssigns(as, local, g)
    <3>5. AssignsBuild(as, V, g) /\ AssignsBuild(as, V, h)
      BY <3>4 DEF AssignsBuild, Local
    <3>6. local \in Seq([Names -> V]) /\ NoValue \in V
      BY DEF Local, Locals
    <3>7. \A i \in 1 .. Len(as) : as[i].tag = "assign" =>
             \A l \in Stacks(V) : Builds(as[i].value, l, g) = Builds(as[i].value, l, h)
      BY <3>4
    <3>8. BuildAssigns(as, local, h) = built
      <4> HIDE DEF as, V
      <4> QED  BY <3>2, <3>5, <3>6, <3>7, AssignsBuildSame
    <3>9. built \in Locals(X, TT)
      <4> HIDE DEF as, V
      <4>1. PICK s : BuiltOneByOne(as, V, local, g, s)
        BY <3>2, <3>5, <3>6, BuildAssignsIs
      <4>2. Len(as) \in 0 .. Len(as)
        BY <3>2, NumberUpToItself
      <4> QED  BY <4>1, <4>2 DEF Stacks, Locals, V, BuiltOneByOne
    <3>10. /\ Builds(e, local, g) = IF \E n \in Names : built[Len(built)][n] = Bad THEN Bad
                                     ELSE Builds(e.value, built, g)
           /\ Builds(e, local, h) = IF \E n \in Names : built[Len(built)][n] = Bad THEN Bad
                                     ELSE Builds(e.value, built, h)
      BY <2>1, <2>8, <3>8 DEF Build, Literals
    <3> HIDE DEF as, built
    <3>11. Builds(e.value, built, g) = Builds(e.value, built, h)
      BY <1>1, <2>3, <3>1, <3>3, <3>9
    <3> QED  BY <3>10, <3>11
  <2>9. CASE e.tag = "if"
    <3>1. e.cond \in S /\ e.then \in S /\ e.elsy \in S
      BY <1>1, <2>9, FormOf DEF Literals
    <3>2. e.cond \in Parts(e) /\ e.then \in Parts(e) /\ e.elsy \in Parts(e)
      BY <2>9 DEF Parts
    <3> DEFINE inner == Append(local, NoLocals)
               If3(c, t, f) == IF c.type = "i1" /\ t.type = f.type /\ Bad \notin {t, f}
                               THEN Value(t.type, Term("if", <<c.term, t.term, f.term>>)) ELSE Bad
    <3>3. /\ Builds(e.cond, local, g) = Builds(e.cond, local, h)
          /\ Builds(e.then, inner, g) = Builds(e.then, inner, h)
          /\ Builds(e.elsy, inner, g) = Builds(e.elsy, inner, h)
      BY <1>1, <2>2, <2>3, <3>1, <3>2
    <3>4. /\ Builds(e, local, g) = If3(Builds(e.cond, local, g), Builds(e.then, inner, g), Builds(e.elsy, inner, g))
          /\ Builds(e, local, h) = If3(Builds(e.cond, local, h), Builds(e.then, inner, h), Builds(e.elsy, inner, h))
      BY <2>1, <2>9 DEF Build, Literals
    <3> HIDE DEF If3, inner
    <3> QED  BY <3>3, <3>4
  <2>10. CASE e.tag \in {"assign", "declare", "func", "unsupported"} \/ (e.tag = "prefix" /\ e.op # "neg")
    BY <2>1, <2>10 DEF Build, Literals
  <2> QED  BY <1>1, <2>4, <2>5, <2>6, <2>7, <2>8, <2>9, <2>10, FormOf
<1>4. S \subseteq G
  <2>1. \A e \in S : (\A p \in S : depth[p] < depth[e] => p \in G) => e \in G
    BY <1>3
  <2> HIDE DEF G
  <2> QED  BY <2>1, ByDepth
<1> QED  BY <1>4

-----------------------------------------------------------------------------
(* S expressions that the checker has filled in.                           *)

\* What the checker makes of S expressions are S expressions.
LEMMA RecordOf ==
  ASSUME NEW S, NEW T, S = Forms(S, T), NEW e \in S
  PROVE  /\ e.tag \in Literals => e \in [tag : Literals, type : T, literal : Texts]
         /\ e.tag = "symbol" => e \in [tag : {"symbol"}, type : T, name : Names]
         /\ e.tag = "infix" => e \in [tag : {"infix"}, type : T, op : Operators, left : S, right : S]
         /\ e.tag = "prefix" => e \in [tag : {"prefix"}, type : T, op : {"neg", "span"}, operand : S]
         /\ e.tag = "local_scope" => e \in [tag : {"local_scope"}, type : T, assigns : Seq(S), value : S]
         /\ e.tag = "if" => e \in [tag : {"if"}, type : T, cond : S, then : S, elsy : S]
         /\ e.tag = "assign" => e \in [tag : {"assign"}, type : T, annotation : T, name : Names, value : S]
BY DEF Forms, Literals

Retyped(e, t) == [e EXCEPT !.type = t]

\* A literal or a symbol with its type filled in.
LEMMA RetypedIs ==
  ASSUME NEW S, NEW T, S = Forms(S, T), NEW e \in S, NEW t \in T,
         e.tag \in Literals \cup {"symbol"}
  PROVE  /\ Retyped(e, t) \in S
         /\ Retyped(e, t).tag = e.tag
         /\ Retyped(e, t).type = t
         /\ Retyped(e, t).literal = e.literal
         /\ Retyped(e, t).name = e.name
<1> DEFINE d == Retyped(e, t)
<1>1. CASE e.tag \in Literals
  <2>1. e \in [tag : Literals, type : T, literal : Texts]
    BY <1>1, RecordOf
  <2>2. d \in [tag : Literals, type : T, literal : Texts]
    BY <2>1 DEF Retyped
  <2> QED  BY <1>1, <2>1, <2>2 DEF Forms, Retyped
<1>2. CASE e.tag = "symbol"
  <2>1. e \in [tag : {"symbol"}, type : T, name : Names]
    BY <1>2, RecordOf
  <2>2. d \in [tag : {"symbol"}, type : T, name : Names]
    BY <2>1 DEF Retyped
  <2> QED  BY <1>2, <2>1, <2>2 DEF Forms, Retyped
<1> QED  BY <1>1, <1>2

InfixOf(e, l, r, t) == [e EXCEPT !.left = l, !.right = r, !.type = t]

\* An infix expression with its operands checked.
LEMMA InfixMade ==
  ASSUME NEW S, NEW T, S = Forms(S, T), NEW e \in S, e.tag = "infix", NEW t \in T, NEW l \in S, NEW r \in S
  PROVE  /\ InfixOf(e, l, r, t) \in S
         /\ InfixOf(e, l, r, t).tag = "infix"
         /\ InfixOf(e, l, r, t).type = t
         /\ InfixOf(e, l, r, t).op = e.op
         /\ InfixOf(e, l, r, t).left = l
         /\ InfixOf(e, l, r, t).right = r
<1> DEFINE d == InfixOf(e, l, r, t)
<1>1. e \in [tag : {"infix"}, type : T, op : Operators, left : S, right : S]
  BY RecordOf
<1>2. d \in [tag : {"infix"}, type : T, op : Operators, left : S, right : S]
  BY <1>1 DEF InfixOf
<1>3. [tag : {"infix"}, type : T, op : Operators, left : S, right : S] \subseteq S
  BY DEF Forms
<1>4. d \in S
  BY <1>2, <1>3
<1> QED  BY <1>1, <1>4 DEF InfixOf

PrefixOf(e, x, t) == [e EXCEPT !.operand = x, !.type = t]

\* A prefix expression with its operand checked.
LEMMA PrefixMade ==
  ASSUME NEW S, NEW T, S = Forms(S, T), NEW e \in S, e.tag = "prefix", NEW t \in T, NEW x \in S
  PROVE  /\ PrefixOf(e, x, t) \in S
         /\ PrefixOf(e, x, t).tag = "prefix"
         /\ PrefixOf(e, x, t).type = t
         /\ PrefixOf(e, x, t).op = e.op
         /\ PrefixOf(e, x, t).operand = x
<1> DEFINE d == PrefixOf(e, x, t)
<1>1. e \in [tag : {"prefix"}, type : T, op : {"neg", "span"}, operand : S]
  BY RecordOf
<1>2. d \in [tag : {"prefix"}, type : T, op : {"neg", "span"}, operand : S]
  BY <1>1 DEF PrefixOf
<1>3. [tag : {"prefix"}, type : T, op : {"neg", "span"}, operand : S] \subseteq S
  BY DEF Forms
<1>4. d \in S
  BY <1>2, <1>3
<1> QED  BY <1>1, <1>4 DEF PrefixOf

ScopeOf(e, as, v, t) == [e EXCEPT !.assigns = as, !.value = v, !.type = t]

\* A local scope with its assignments and its value checked.
LEMMA ScopeMade ==
  ASSUME NEW S, NEW T, S = Forms(S, T), NEW e \in S, e.tag = "local_scope", NEW t \in T, NEW as \in Seq(S), NEW v \in S
  PROVE  /\ ScopeOf(e, as, v, t) \in S
         /\ ScopeOf(e, as, v, t).tag = "local_scope"
         /\ ScopeOf(e, as, v, t).type = t
         /\ ScopeOf(e, as, v, t).assigns = as
         /\ ScopeOf(e, as, v, t).value = v
<1> DEFINE d == ScopeOf(e, as, v, t)
<1>1. e \in [tag : {"local_scope"}, type : T, assigns : Seq(S), value : S]
  BY RecordOf
<1>2. d \in [tag : {"local_scope"}, type : T, assigns : Seq(S), value : S]
  BY <1>1 DEF ScopeOf
<1>3. [tag : {"local_scope"}, type : T, assigns : Seq(S), value : S] \subseteq S
  BY DEF Forms
<1>4. d \in S
  BY <1>2, <1>3
<1> QED  BY <1>1, <1>4 DEF ScopeOf

IfOf(e, c, x, y, t) == [e EXCEPT !.cond = c, !.then = x, !.elsy = y, !.type = t]

\* An if expression with its parts checked.
LEMMA IfMade ==
  ASSUME NEW S, NEW T, S = Forms(S, T), NEW e \in S, e.tag = "if", NEW t \in T, NEW c \in S, NEW x \in S, NEW y \in S
  PROVE  /\ IfOf(e, c, x, y, t) \in S
         /\ IfOf(e, c, x, y, t).tag = "if"
         /\ IfOf(e, c, x, y, t).type = t
         /\ IfOf(e, c, x, y, t).cond = c
         /\ IfOf(e, c, x, y, t).then = x
         /\ IfOf(e, c, x, y, t).elsy = y
<1> DEFINE d == IfOf(e, c, x, y, t)
<1>1. e \in [tag : {"if"}, type : T, cond : S, then : S, elsy : S]
  BY RecordOf
<1>2. d \in [tag : {"if"}, type : T, cond : S, then : S, elsy : S]
  BY <1>1 DEF IfOf
<1>3. [tag : {"if"}, type : T, cond : S, then : S, elsy : S] \subseteq S
  BY DEF Forms
<1>4. d \in S
  BY <1>2, <1>3
<1> QED  BY <1>1, <1>4 DEF IfOf

AssignOf(e, v, t) == [e EXCEPT !.value = v, !.type = t]

\* An assignment with its value checked.
LEMMA AssignMade ==
  ASSUME NEW S, NEW T, S = Forms(S, T), NEW e \in S, e.tag = "assign", NEW t \in T, NEW v \in S
  PROVE  /\ AssignOf(e, v, t) \in S
         /\ AssignOf(e, v, t).tag = "assign"
         /\ AssignOf(e, v, t).type = t
         /\ AssignOf(e, v, t).name = e.name
         /\ AssignOf(e, v, t).annotation = e.annotation
         /\ AssignOf(e, v, t).value = v
<1> DEFINE d == AssignOf(e, v, t)
<1>1. e \in [tag : {"assign"}, type : T, annotation : T, name : Names, value : S]
  BY RecordOf
<1>2. d \in [tag : {"assign"}, type : T, annotation : T, name : Names, value : S]
  BY <1>1 DEF AssignOf
<1>3. [tag : {"assign"}, type : T, annotation : T, name : Names, value : S] \subseteq S
  BY DEF Forms
<1>4. d \in S
  BY <1>2, <1>3
<1> QED  BY <1>1, <1>4 DEF AssignOf

-----------------------------------------------------------------------------
(* What the checker makes of an S expression means the same.               *)

\* d means what e does, wherever the names of X mean something.
Kept(d, e, X) ==
    /\ d.tag = e.tag
    /\ e.tag = "assign" => d.name = e.name
    /\ \A env \in Seq([Names -> Spoken(X)]) :
          /\ Means(d, env) = Means(e, env)
          /\ e.tag = "assign" => Means(d.value, env) = Means(e.value, env)

\* An expression keeps its own meaning.
LEMMA KeptRefl == \A e, X : Kept(e, e, X)
BY DEF Kept

\* Types there may be: with a product, its curry.
AreLanguageTypes(T) == /\ {NoType, IntType, FloatType, BoolType} \subseteq T
                       /\ \A t \in T : t # NoType /\ t.kind = "PRODUCT" => Curry(t.fields) \in T

\* What a check may return for elements of E.
Results(E, T) == [ok : BOOLEAN, undefined : BOOLEAN, sexpr : E, scopes : Stacks(T)]

\* The results of a check, by how it returns.
LEMMA ResultIs ==
  ASSUME NEW E, NEW T, NEW e \in E, NEW s \in Stacks(T)
  PROVE  /\ Accepted(e, s) \in Results(E, T) /\ Failed(e, s) \in Results(E, T)
         /\ Undefined(e, s) \in Results(E, T) /\ Passed(e, s) \in Results(E, T)
         /\ Passed(e, s).ok => e.type # NoType
         /\ ~Failed(e, s).ok /\ ~Undefined(e, s).ok
         /\ Accepted(e, s).sexpr = e /\ Accepted(e, s).scopes = s
         /\ Passed(e, s).sexpr = e /\ Passed(e, s).scopes = s
         /\ \A D, r : r \in Results(D, T) => Unsuccessful(r, e) \in Results(E, T) /\ Unsuccessful(r, e).ok = r.ok
BY DEF Accepted, Failed, Undefined, Passed, Unsuccessful, Results

\* A check that succeeds keeps the meaning, and leaves as many scopes.
Keeping(c, e, s, S, T, X) ==
    /\ c \in Results(S, T)
    /\ c.ok => Len(c.scopes) = Len(s) /\ Kept(c.sexpr, e, X)

\* A check that passes with an expression that keeps the meaning.
LEMMA KeepingIs ==
  ASSUME NEW S, NEW T, NEW X, NEW e, NEW s, NEW d \in S, Kept(d, e, X), NEW q \in Stacks(T), Len(q) = Len(s)
  PROVE  Keeping(Accepted(d, q), e, s, S, T, X) /\ Keeping(Passed(d, q), e, s, S, T, X)
<1>1. /\ Accepted(d, q) \in Results(S, T) /\ Passed(d, q) \in Results(S, T)
      /\ Accepted(d, q).sexpr = d /\ Accepted(d, q).scopes = q
      /\ Passed(d, q).sexpr = d /\ Passed(d, q).scopes = q
  BY ResultIs
<1> QED  BY <1>1 DEF Keeping

\* A check that fails has nothing to keep.
LEMMA NothingKept ==
  ASSUME NEW S, NEW T, NEW X, NEW e \in S, NEW s, NEW q \in Stacks(T)
  PROVE  Keeping(Failed(e, q), e, s, S, T, X) /\ Keeping(Undefined(e, q), e, s, S, T, X)
<1>1. Failed(e, q) \in Results(S, T) /\ Undefined(e, q) \in Results(S, T) /\ ~Failed(e, q).ok /\ ~Undefined(e, q).ok
  BY ResultIs
<1> QED  BY <1>1 DEF Keeping

\* Nor has one that passes on the failure of a part.
LEMMA NotSuccessful ==
  ASSUME NEW S, NEW T, NEW X, NEW e \in S, NEW s, NEW D, NEW r \in Results(D, T), ~r.ok
  PROVE  Keeping(Unsuccessful(r, e), e, s, S, T, X)
<1>1. Unsuccessful(r, e) \in Results(S, T) /\ Unsuccessful(r, e).ok = r.ok
  BY DEF Unsuccessful, Results
<1> QED  BY <1>1 DEF Keeping

\* So does it for every S expression of a list, in any stack of scopes.
EachKeeps(es, b, S, T, X) ==
    \A i \in 1 .. Len(es) : \A s \in Stacks(T) : Keeping(Checks(es[i], s, b), es[i], s, S, T, X)

CheckTurn(es, b, k, r) ==
    IF ~r.ok THEN r
    ELSE LET c == Checks(es[k], r.scopes, b) IN [c EXCEPT !.sexpr = Append(r.sexpr, @)]

\* r are the results after the S expressions of es, one after the other.
CheckedOneByOne(es, s, b, S, T, r) ==
    /\ r \in [0 .. Len(es) -> Results(Seq(S), T)]
    /\ r[0] = Accepted(<<>>, s)
    /\ \A k \in 1 .. Len(es) : r[k] = CheckTurn(es, b, k, r[k - 1])
    /\ CheckEach(es, s, b) = r[Len(es)]

\* A turn of the loop over several expressions.
LEMMA CheckTurnIs ==
  ASSUME NEW S, NEW T, NEW X, NEW es, NEW b, EachKeeps(es, b, S, T, X), NEW k \in 1 .. Len(es),
         NEW r \in Results(Seq(S), T)
  PROVE  LET c == Checks(es[k], r.scopes, b)
             q == CheckTurn(es, b, k, r)
         IN  /\ q \in Results(Seq(S), T)
             /\ ~r.ok => q = r
             /\ r.ok => q.ok = c.ok /\ q.scopes = c.scopes /\ q.sexpr = Append(r.sexpr, c.sexpr)
                        /\ Keeping(c, es[k], r.scopes, S, T, X)
<1> DEFINE c == Checks(es[k], r.scopes, b)
           q == CheckTurn(es, b, k, r)
           longer == Append(r.sexpr, c.sexpr)
<1>1. r.scopes \in Stacks(T) /\ r.sexpr \in Seq(S)
  BY DEF Results
<1>2. Keeping(c, es[k], r.scopes, S, T, X)
  BY <1>1 DEF EachKeeps
<1>3. c \in Results(S, T)
  BY <1>2 DEF Keeping
<1>4. longer \in Seq(S)
  BY <1>1, <1>3, AppendProperties DEF Results
<1>5. CASE ~r.ok
  BY <1>5 DEF CheckTurn
<1>6. CASE r.ok
  <2>1. q = [c EXCEPT !.sexpr = longer]
    BY <1>6 DEF CheckTurn
  <2> HIDE DEF q, c, longer
  <2>2. q \in Results(Seq(S), T) /\ q.ok = c.ok /\ q.scopes = c.scopes /\ q.sexpr = longer
    BY <1>3, <1>4, <2>1 DEF Results
  <2> QED  BY <1>2, <1>6, <2>2 DEF q, c, longer
<1> QED  BY <1>5, <1>6

\* The results of checking one S expression after the other.
LEMMA CheckEachIs ==
  ASSUME NEW S, NEW T, NEW X, NEW es, Len(es) \in Nat, NEW b, EachKeeps(es, b, S, T, X), NEW s \in Stacks(T)
  PROVE  \E r : CheckedOneByOne(es, s, b, S, T, r)
<1> DEFINE n == Len(es)
           V == Results(Seq(S), T)
           start == Accepted(<<>>, s)
           Turn(k, l) == CheckTurn(es, b, k, l)
           turn == [p \in (1 .. n) \X V |-> Turn(p[1], p[2])]
           IsRun(f) == f = [k \in 0 .. n |-> IF k = 0 THEN start ELSE Turn(k, f[k - 1])]
           r == CHOOSE f : IsRun(f)
<1>1. start \in V
  <2>1. <<>> \in Seq(S)
    OBVIOUS
  <2> QED  BY <2>1, ResultIs
<1>2. ASSUME NEW k \in 1 .. n, NEW l \in V PROVE Turn(k, l) \in V
  BY CheckTurnIs
<1>3. turn \in [(1 .. n) \X V -> V]
  <2> HIDE DEF Turn, V
  <2> QED  BY <1>2
<1>4. CheckEach(es, s, b) = r[n]
  BY DEF CheckEach, CheckTurn
<1>5. \A k \in 1 .. n, l \in V : turn[<<k, l>>] = Turn(k, l)
  OBVIOUS
<1>n. n \in Nat
  OBVIOUS
<1> HIDE DEF n, start, Turn, turn, V
<1>6. IsRun(r) /\ r \in [0 .. n -> V]
  <2>1. PICK f \in [0 .. n -> V] :
           f[0] = start /\ \A k \in 1 .. n : f[k] = turn[<<k, f[k - 1]>>]
    <3>1. IsLoop(n, V, start, turn)
      BY <1>1, <1>3, <1>n DEF IsLoop
    <3>2. \E f : Iterates(n, V, start, turn, f)
      BY <3>1, LoopEnds
    <3> QED  BY <3>2 DEF Iterates
  <2>2. \A k \in 0 .. n : k # 0 => k \in 1 .. n /\ k - 1 \in 0 .. n
    BY <1>n
  <2>3. \A k \in 0 .. n : f[k] = IF k = 0 THEN start ELSE turn[<<k, f[k - 1]>>]
    BY <2>1, <2>2
  <2>4. ASSUME NEW k \in 0 .. n PROVE f[k] = IF k = 0 THEN start ELSE Turn(k, f[k - 1])
    <3>1. CASE k = 0
      BY <2>3, <3>1
    <3>2. CASE k # 0
      <4>1. k \in 1 .. n /\ f[k - 1] \in V /\ f[k] = turn[<<k, f[k - 1]>>]
        BY <2>2, <2>3, <3>2
      <4> QED  BY <1>5, <3>2, <4>1
    <3> QED  BY <3>1, <3>2
  <2>5. IsRun(f)
    <3>1. f = [k \in 0 .. n |-> f[k]]
      OBVIOUS
    <3> QED  BY <2>4, <3>1
  <2> HIDE DEF IsRun
  <2>6. IsRun(r)
    BY <2>5
  <2> HIDE DEF r
  <2>7. \A k \in 0 .. n : r[k] = IF k = 0 THEN start ELSE Turn(k, r[k - 1])
    BY <2>6 DEF IsRun
  <2> DEFINE M == {k \in 0 .. n : r[k] \in V}
  <2>8. 0 \in M /\ \A k \in 1 .. n : k - 1 \in M => k \in M
    <3>1. 0 \in 0 .. n /\ \A k \in 1 .. n : k # 0 /\ k \in 0 .. n
      BY <1>n
    <3> QED  BY <1>1, <1>2, <2>7, <3>1
  <2>9. 0 .. n \subseteq M
    <3> HIDE DEF M
    <3> QED  BY <1>n, <2>8, NumbersUpTo
  <2>10. r = [k \in 0 .. n |-> r[k]]
    BY <2>6 DEF IsRun
  <2> QED  BY <2>6, <2>9, <2>10
<1> HIDE DEF r
<1>7. r[0] = start /\ \A k \in 1 .. n : r[k] = Turn(k, r[k - 1])
  <2>1. 0 \in 0 .. n /\ \A k \in 1 .. n : k # 0 /\ k \in 0 .. n
    BY <1>n
  <2>2. \A k \in 0 .. n : r[k] = IF k = 0 THEN start ELSE Turn(k, r[k - 1])
    BY <1>6
  <2> HIDE DEF IsRun
  <2> QED  BY <2>1, <2>2
<1> QED  BY <1>4, <1>6, <1>7 DEF n, Turn, start, V, CheckedOneByOne

\* r is the result of checking each, which, if they all succeed, keeps them all.
AllKept(r, es, s, S, T, X) ==
    /\ r \in Results(Seq(S), T)
    /\ r.ok => /\ Len(r.scopes) = Len(s) /\ Len(r.sexpr) = Len(es)
               /\ \A i \in 1 .. Len(es) : Kept(r.sexpr[i], es[i], X)

\* A check that passes on the failure of one of several parts.
LEMMA NotAllSuccessful ==
  ASSUME NEW S, NEW T, NEW X, NEW e \in S, NEW s, NEW es, NEW q, NEW r, AllKept(r, es, q, S, T, X), ~r.ok
  PROVE  Keeping(Unsuccessful(r, e), e, s, S, T, X)
BY NotSuccessful DEF AllKept

\* If each is kept, so are all of them.
LEMMA CheckEachKeeps ==
  ASSUME NEW S, NEW T, NEW X, NEW es, Len(es) \in Nat, NEW b, EachKeeps(es, b, S, T, X), NEW s \in Stacks(T)
  PROVE  AllKept(CheckEach(es, s, b), es, s, S, T, X)
<1> DEFINE n == Len(es)
<1>1. PICK r : CheckedOneByOne(es, s, b, S, T, r)
  BY CheckEachIs
<1>0. /\ n \in Nat /\ 0 \in 0 .. n /\ n \in 0 .. n
      /\ \A k \in 1 .. n : k \in 0 .. n /\ k - 1 \in 0 .. n /\ (k - 1) + 1 = k
      /\ \A k \in 1 .. n : \A i \in 1 .. k : i = k \/ i \in 1 .. k - 1
  <2>1. n \in Nat
    OBVIOUS
  <2> HIDE DEF n
  <2> QED  BY <2>1
<1> DEFINE Fits(k) == r[k].ok => /\ Len(r[k].scopes) = Len(s) /\ Len(r[k].sexpr) = k
                                 /\ \A i \in 1 .. k : Kept(r[k].sexpr[i], es[i], X)
           M == {k \in 0 .. n : Fits(k)}
<1>2. 0 \in M
  <2>1. r[0] = Accepted(<<>>, s)
    BY <1>1 DEF CheckedOneByOne
  <2>2. r[0].sexpr = <<>> /\ r[0].scopes = s
    BY <2>1 DEF Accepted
  <2> HIDE DEF n
  <2> QED  BY <1>0, <2>2
<1>3. ASSUME NEW k \in 1 .. n, k - 1 \in M PROVE k \in M
  <2> DEFINE q == r[k - 1]
             c == Checks(es[k], q.scopes, b)
  <2>1. q \in Results(Seq(S), T) /\ r[k] = CheckTurn(es, b, k, q)
    BY <1>0, <1>1 DEF CheckedOneByOne
  <2> HIDE DEF q
  <2>2. /\ ~q.ok => r[k] = q
        /\ q.ok => /\ r[k].ok = c.ok /\ r[k].scopes = c.scopes /\ r[k].sexpr = Append(q.sexpr, c.sexpr)
                   /\ Keeping(c, es[k], q.scopes, S, T, X)
    BY <2>1, CheckTurnIs
  <2> HIDE DEF c
  <2>3. SUFFICES ASSUME r[k].ok PROVE Fits(k)
    BY <1>0
  <2>4. q.ok /\ c.ok
    BY <2>2, <2>3
  <2>5. /\ Len(q.scopes) = Len(s) /\ Len(q.sexpr) = k - 1
        /\ \A i \in 1 .. k - 1 : Kept(q.sexpr[i], es[i], X)
    BY <1>3, <2>4 DEF q
  <2>6. Len(c.scopes) = Len(q.scopes) /\ Kept(c.sexpr, es[k], X) /\ c.sexpr \in S
    BY <2>2, <2>4 DEF Keeping, Results
  <2>7. q.sexpr \in Seq(S)
    BY <2>1 DEF Results
  <2>8. /\ Len(Append(q.sexpr, c.sexpr)) = k
        /\ Append(q.sexpr, c.sexpr)[k] = c.sexpr
        /\ \A i \in 1 .. k - 1 : Append(q.sexpr, c.sexpr)[i] = q.sexpr[i]
    BY <1>0, <2>5, <2>6, <2>7, AppendProperties
  <2>9. \A i \in 1 .. k : Kept(r[k].sexpr[i], es[i], X)
    <3> HIDE DEF n
    <3> QED  BY <1>0, <2>2, <2>4, <2>5, <2>6, <2>8
  <2> QED  BY <2>2, <2>4, <2>5, <2>6, <2>8, <2>9
<1>4. 0 .. n \subseteq M
  <2> HIDE DEF M, n
  <2> QED  BY <1>0, <1>2, <1>3, NumbersUpTo
<1>5. CheckEach(es, s, b) = r[n] /\ r[n] \in Results(Seq(S), T)
  BY <1>0, <1>1 DEF CheckedOneByOne
<1>6. Fits(n)
  BY <1>0, <1>4
<1> QED  BY <1>5, <1>6 DEF AllKept

\* With the parts an S expression keeps its meaning.
LEMMA InfixKept ==
  ASSUME NEW S, MeansIs(S), NEW X, NEW d \in S, NEW e \in S, d.tag = "infix", e.tag = "infix", d.op = e.op,
         Kept(d.left, e.left, X), Kept(d.right, e.right, X)
  PROVE  Kept(d, e, X)
<1>1. ASSUME NEW env \in Seq([Names -> Spoken(X)]) PROVE Means(d, env) = Means(e, env)
  <2>1. Means(d.left, env) = Means(e.left, env) /\ Means(d.right, env) = Means(e.right, env)
    BY DEF Kept
  <2>2. Means(d, env) = Meaning(d, env) /\ Means(e, env) = Meaning(e, env)
    BY DEF MeansIs
  <2> QED  BY <2>1, <2>2 DEF Meaning, Literals
<1> QED  BY <1>1 DEF Kept

\* A prefix expression keeps its meaning if its operand does.
LEMMA PrefixKept ==
  ASSUME NEW S, MeansIs(S), NEW X, NEW d \in S, NEW e \in S, d.tag = "prefix", e.tag = "prefix", d.op = e.op,
         Kept(d.operand, e.operand, X)
  PROVE  Kept(d, e, X)
<1>1. ASSUME NEW env \in Seq([Names -> Spoken(X)]) PROVE Means(d, env) = Means(e, env)
  <2>1. Means(d.operand, env) = Means(e.operand, env)
    BY DEF Kept
  <2>2. Means(d, env) = Meaning(d, env) /\ Means(e, env) = Meaning(e, env)
    BY DEF MeansIs
  <2> QED  BY <2>1, <2>2 DEF Meaning, Literals
<1> QED  BY <1>1 DEF Kept

\* An if expression keeps its meaning if its parts do.
LEMMA IfKept ==
  ASSUME NEW S, MeansIs(S), NEW X, NEW d \in S, NEW e \in S, d.tag = "if", e.tag = "if",
         Kept(d.cond, e.cond, X), Kept(d.then, e.then, X), Kept(d.elsy, e.elsy, X)
  PROVE  Kept(d, e, X)
<1>1. ASSUME NEW env \in Seq([Names -> Spoken(X)]) PROVE Means(d, env) = Means(e, env)
  <2>1. /\ Means(d.cond, env) = Means(e.cond, env)
        /\ Means(d.then, env) = Means(e.then, env)
        /\ Means(d.elsy, env) = Means(e.elsy, env)
    BY DEF Kept
  <2>2. Means(d, env) = Meaning(d, env) /\ Means(e, env) = Meaning(e, env)
    BY DEF MeansIs
  <2> QED  BY <2>1, <2>2 DEF Meaning, Literals
<1> QED  BY <1>1 DEF Kept

\* An assignment keeps its meaning if its value does.
LEMMA AssignKept ==
  ASSUME NEW S, MeansIs(S), NEW X, NEW d \in S, NEW e \in S, d.tag = "assign", e.tag = "assign",
         d.name = e.name, Kept(d.value, e.value, X)
  PROVE  Kept(d, e, X)
<1>1. ASSUME NEW env \in Seq([Names -> Spoken(X)]) PROVE Means(d, env) = Means(e, env)
  <2>2. Means(d, env) = Meaning(d, env) /\ Means(e, env) = Meaning(e, env)
    BY DEF MeansIs
  <2> QED  BY <2>2 DEF Meaning, Literals
<1> QED  BY <1>1 DEF Kept

\* A literal and a symbol keep their meaning with their text.
LEMMA LeafKept ==
  ASSUME NEW S, MeansIs(S), NEW X, NEW d \in S, NEW e \in S, d.tag = e.tag,
         \/ e.tag \in Literals /\ d.literal = e.literal
         \/ e.tag = "symbol" /\ d.name = e.name
  PROVE  Kept(d, e, X)
<1>1. ASSUME NEW env \in Seq([Names -> Spoken(X)]) PROVE Means(d, env) = Means(e, env)
  <2>2. Means(d, env) = Meaning(d, env) /\ Means(e, env) = Meaning(e, env)
    BY DEF MeansIs
  <2>3. CASE e.tag \in Literals /\ d.literal = e.literal
    BY <2>2, <2>3 DEF Meaning, Literals
  <2>4. CASE e.tag = "symbol" /\ d.name = e.name
    BY <2>2, <2>4 DEF Meaning, Literals
  <2> QED  BY <2>3, <2>4
<1> QED  BY <1>1 DEF Kept, Literals

\* Two lists of assignments whose members mean the same fill a scope the same way.
LEMMA AssignsKept ==
  ASSUME NEW X, AreTerms(X), NEW as, NEW bs, Len(as) \in Nat, Len(bs) = Len(as),
         AssignsHaveMeaning(as, Spoken(X)), AssignsHaveMeaning(bs, Spoken(X)),
         \A i \in 1 .. Len(as) : Kept(bs[i], as[i], X),
         NEW env \in Seq([Names -> Spoken(X)])
  PROVE  AssignsMean(bs, env) = AssignsMean(as, env) /\ AssignsMean(as, env) \in Seq([Names -> Spoken(X)])
<1> DEFINE W == Spoken(X)
           n == Len(as)
<1>0. NoValue \in W
  BY NoValueIn
<1>1. PICK s : MeantOneByOne(as, W, env, s)
  <2> HIDE DEF W
  <2> QED  BY <1>0, AssignsMeanIs DEF W
<1>2. PICK m : MeantOneByOne(bs, W, env, m)
  <2> HIDE DEF W
  <2> QED  BY <1>0, AssignsMeanIs DEF W
<1>3. /\ n \in Nat /\ 0 \in 0 .. n /\ n \in 0 .. n
      /\ \A k \in 1 .. n : k \in 0 .. n /\ k - 1 \in 0 .. n
  <2>1. n \in Nat
    OBVIOUS
  <2> HIDE DEF n
  <2> QED  BY <2>1
<1> DEFINE M == {k \in 0 .. n : s[k] = m[k]}
<1>4. 0 \in M
  <2>1. s[0] = Append(env, [x \in Names |-> NoValue])
    BY <1>1 DEF MeantOneByOne
  <2>2. m[0] = Append(env, [x \in Names |-> NoValue])
    BY <1>2 DEF MeantOneByOne
  <2> QED  BY <1>3, <2>1, <2>2
<1>5. ASSUME NEW k \in 1 .. n, k - 1 \in M PROVE k \in M
  <2> DEFINE l == s[k - 1]
  <2>1. s[k] = MeansTurn(as, k, l) /\ l \in Stacks(W)
    BY <1>1, <1>3 DEF MeantOneByOne
  <2>2. m[k] = MeansTurn(bs, k, l)
    BY <1>2, <1>5 DEF MeantOneByOne
  <2> HIDE DEF l
  <2>3. Kept(bs[k], as[k], X) /\ l \in Seq([Names -> W])
    BY <2>1 DEF Stacks
  <2>4. bs[k].tag = as[k].tag
        /\ (as[k].tag = "assign" => bs[k].name = as[k].name /\ Means(bs[k].value, l) = Means(as[k].value, l))
    BY <2>3 DEF Kept
  <2>5. s[k] = m[k]
    BY <2>1, <2>2, <2>4 DEF MeansTurn
  <2> QED  BY <1>3, <2>5
<1>6. 0 .. n \subseteq M
  <2> HIDE DEF M, n
  <2> QED  BY <1>3, <1>4, <1>5, NumbersUpTo
<1>7. s[n] = m[n]
  BY <1>3, <1>6
<1>8. AssignsMean(as, env) = s[n] /\ s[n] \in Stacks(W)
  <2> HIDE DEF W
  <2> QED  BY <1>1, <1>3 DEF MeantOneByOne
<1>9. AssignsMean(bs, env) = m[n]
  BY <1>2 DEF MeantOneByOne
<1> QED  BY <1>7, <1>8, <1>9 DEF Stacks

\* A local scope keeps its meaning if its assignments and its value do.
LEMMA ScopeKept ==
  ASSUME NEW S, NEW T, NEW depth, Language(S, T, depth), MeansIs(S), NEW X, AreTerms(X),
         NEW d \in S, NEW e \in S, d.tag = "local_scope", e.tag = "local_scope",
         Len(d.assigns) = Len(e.assigns),
         \A i \in 1 .. Len(e.assigns) : Kept(d.assigns[i], e.assigns[i], X),
         Kept(d.value, e.value, X)
  PROVE  Kept(d, e, X)
<1>1. S = Forms(S, T)
  BY DEF Language
<1>2. ASSUME NEW x \in S, x.tag = "local_scope"
      PROVE  /\ Len(x.assigns) \in Nat /\ AssignsHaveMeaning(x.assigns, Spoken(X)) /\ x.value \in S
  <2>1. x.assigns \in Seq(S) /\ x.value \in S
    BY <1>1, <1>2, FormOf DEF Literals
  <2>2. Len(x.assigns) \in Nat /\ \A i \in 1 .. Len(x.assigns) : x.assigns[i] \in S
    BY <2>1, LenProperties, ElementOfSeq
  <2>3. ASSUME NEW a \in S, a.tag = "assign" PROVE a.name \in Names /\ a.value \in S
    BY <1>1, <2>3, FormOf DEF Literals
  <2>4. \A l \in Stacks(Spoken(X)) : l \in Seq([Names -> Spoken(X)])
    BY DEF Stacks
  <2>5. \A y \in S, env \in Seq([Names -> Spoken(X)]) : Means(y, env) \in Spoken(X)
    BY MeansTyped
  <2> QED  BY <2>1, <2>2, <2>3, <2>4, <2>5 DEF AssignsHaveMeaning
<1>3. ASSUME NEW env \in Seq([Names -> Spoken(X)]) PROVE Means(d, env) = Means(e, env)
  <2> DEFINE as == e.assigns
             bs == d.assigns
  <2>1. Len(as) \in Nat /\ Len(bs) = Len(as) /\ AssignsHaveMeaning(as, Spoken(X)) /\ AssignsHaveMeaning(bs, Spoken(X))
    BY <1>2
  <2>2. \A i \in 1 .. Len(as) : Kept(bs[i], as[i], X)
    OBVIOUS
  <2> HIDE DEF as, bs
  <2>3. AssignsMean(bs, env) = AssignsMean(as, env) /\ AssignsMean(as, env) \in Seq([Names -> Spoken(X)])
    BY <2>1, <2>2, AssignsKept
  <2>4. Means(d.value, AssignsMean(as, env)) = Means(e.value, AssignsMean(as, env))
    BY <2>3 DEF Kept
  <2>5. Means(d, env) = Meaning(d, env) /\ Means(e, env) = Meaning(e, env)
    BY DEF MeansIs
  <2>6. Means(d, env) = Means(d.value, AssignsMean(bs, env)) /\ Means(e, env) = Means(e.value, AssignsMean(as, env))
    BY <2>5 DEF Meaning, Literals, as, bs
  <2> QED  BY <2>3, <2>4, <2>6
<1> QED  BY <1>3 DEF Kept

\* The types the checker finds are types there may be.
LEMMA TypesFound ==
  ASSUME NEW T, AreLanguageTypes(T), NEW b
  PROVE  /\ \A s \in Stacks(T), n \in Names : LookupVarType(s, n) \in T
         /\ \A t \in T : LookupType(b, t) \in T /\ LookupPrefix(b, t) \in T
         /\ \A o, l, r : LookupInfix(b, o, l, r) \in T
         /\ \A t \in Literals : Primitive(t) \in T
<1>1. ASSUME NEW s \in Stacks(T), NEW n \in Names PROVE LookupVarType(s, n) \in T
  <2>1. Looked(s, n, NoType) \in T \cup {NoType}
    BY LookedIn DEF Stacks
  <2> QED  BY <2>1 DEF LookupVarType, Looked, AreLanguageTypes
<1>2. ASSUME NEW o, NEW l, NEW r PROVE LookupInfix(b, o, l, r) \in T
  <2> DEFINE fit == {f \in InfixOperators : /\ b /\ f.op = o
                                            /\ TypeSubtype(f.left, l) /\ TypeSubtype(f.right, r)}
             f == CHOOSE f \in fit : TRUE
  <2>1. \A g \in InfixOperators : g.out \in T
    BY DEF InfixOperators, Operator, AreLanguageTypes
  <2>2. LookupInfix(b, o, l, r) = IF fit = {} THEN NoType ELSE f.out
    BY DEF LookupInfix
  <2>3. fit # {} => f \in InfixOperators
    OBVIOUS
  <2> HIDE DEF fit, f
  <2> QED  BY <2>1, <2>2, <2>3 DEF AreLanguageTypes
<1>3. \A t \in T : LookupType(b, t) \in T /\ LookupPrefix(b, t) \in T
  BY DEF LookupType, LookupPrefix, AreLanguageTypes
<1>4. \A t \in Literals : Primitive(t) \in T
  BY DEF Literals, Primitive, AreLanguageTypes, TypeOf, IntType, FloatType, BoolType
<1> QED  BY <1>1, <1>2, <1>3, <1>4

\* A scope pushed and popped.
LEMMA ScopePushed ==
  ASSUME NEW T, NoType \in T, NEW s \in Stacks(T)
  PROVE  PushScope(s) \in Stacks(T) /\ Len(PushScope(s)) = Len(s) + 1
BY StackPushed DEF PushScope, Stacks

\* A scope that is popped leaves those below it.
LEMMA ScopePopped ==
  ASSUME NEW T, NEW s \in Stacks(T), NEW k \in Nat \ {0}, Len(s) = k + 1
  PROVE  PopScope(s) \in Stacks(T) /\ Len(PopScope(s)) = k
<1> DEFINE p == SubSeq(s, 1, Len(s) - 1)
<1>1. s \in Seq([Names -> T]) /\ Len(s) \in Nat
  BY LenProperties DEF Stacks
<1>2. \A i \in 1 .. Len(s) : s[i] \in [Names -> T]
  BY <1>1, ElementOfSeq
<1>3. \A i \in 1 .. Len(s) - 1 : s[i] \in [Names -> T]
  BY <1>1, <1>2
<1>4. Len(s) - 1 = k /\ k - 1 + 1 = k /\ 1 <= k /\ k \in Int
  BY <1>1
<1>5. p \in Seq([Names -> T]) /\ Len(p) = k
  <2>1. /\ SubSeq(s, 1, k) \in Seq([Names -> T])
        /\ Len(SubSeq(s, 1, k)) = IF 1 <= k THEN k - 1 + 1 ELSE 0
    BY <1>1, <1>3, <1>4, SubSeqProperties
  <2> QED  BY <1>4, <2>1
<1>6. p # <<>>
  BY <1>5, EmptySeq
<1> QED  BY <1>5, <1>6 DEF PopScope, Stacks

\* Two S expressions as a list.
LEMMA PairIs ==
  ASSUME NEW S, NEW x \in S, NEW y \in S
  PROVE  /\ <<x, y>> \in Seq(S) /\ Len(<<x, y>>) = 2 /\ <<x, y>>[1] = x /\ <<x, y>>[2] = y
         /\ 1 .. Len(<<x, y>>) = {1, 2}
OBVIOUS

\* Checking two S expressions one after the other.
LEMMA PairKeeps ==
  ASSUME NEW S, NEW T, NEW X, NEW x \in S, NEW y \in S, NEW b, NEW s \in Stacks(T),
         \A l \in Stacks(T) : Keeping(Checks(x, l, b), x, l, S, T, X) /\ Keeping(Checks(y, l, b), y, l, S, T, X)
  PROVE  LET r == CheckEach(<<x, y>>, s, b)
         IN  /\ AllKept(r, <<x, y>>, s, S, T, X) /\ r.scopes \in Stacks(T)
             /\ r.ok => /\ Len(r.scopes) = Len(s) /\ r.sexpr[1] \in S /\ r.sexpr[2] \in S
                        /\ Kept(r.sexpr[1], x, X) /\ Kept(r.sexpr[2], y, X)
<1> DEFINE es == <<x, y>>
           r == CheckEach(es, s, b)
<1>1. es \in Seq(S) /\ Len(es) = 2 /\ es[1] = x /\ es[2] = y /\ 1 .. Len(es) = {1, 2}
  BY PairIs
<1>2. Len(es) \in Nat
  BY <1>1
<1> HIDE DEF es
<1>3. EachKeeps(es, b, S, T, X)
  BY <1>1 DEF EachKeeps
<1>4. AllKept(r, es, s, S, T, X)
  BY <1>2, <1>3, CheckEachKeeps
<1> HIDE DEF r
<1>5. r.scopes \in Stacks(T)
  BY <1>4 DEF AllKept, Results
<1>6. r.ok => /\ r.sexpr \in Seq(S) /\ Len(r.sexpr) = 2 /\ 1 \in 1 .. 2 /\ 2 \in 1 .. 2
              /\ Len(r.scopes) = Len(s) /\ Kept(r.sexpr[1], x, X) /\ Kept(r.sexpr[2], y, X)
  BY <1>1, <1>4 DEF Results, AllKept
<1>7. r.ok => r.sexpr[1] \in S /\ r.sexpr[2] \in S
  BY <1>6, ElementOfSeq
<1> QED  BY <1>4, <1>5, <1>6, <1>7 DEF es, r

\* A check that succeeds keeps the meaning.
LEMMA CheckKeeps ==
  ASSUME NEW S, NEW T, NEW depth, Language(S, T, depth), ChecksIs(S), MeansIs(S), NEW X, AreTerms(X),
         AreLanguageTypes(T), NEW b
  PROVE  \A e \in S, s \in Stacks(T) : Keeping(Checks(e, s, b), e, s, S, T, X)
<1> DEFINE G == {e \in S : \A s \in Stacks(T) : Keeping(Checks(e, s, b), e, s, S, T, X)}
<1>1. S = Forms(S, T) /\ (\A e \in S : depth[e] \in Nat) /\ \A e \in S : \A p \in Parts(e) : depth[p] < depth[e]
  BY DEF Language
<1>2. NoType \in T
  BY DEF AreLanguageTypes
<1>3. ASSUME NEW e \in S, \A p \in S : depth[p] < depth[e] => p \in G, NEW s \in Stacks(T)
      PROVE  Keeping(Checks(e, s, b), e, s, S, T, X)
  <2> DEFINE r == Checks(e, s, b)
  <2>1. r = Check(e, s, b)
    BY DEF ChecksIs
  <2>2. ASSUME NEW p \in S, depth[p] < depth[e]
        PROVE  \A l \in Stacks(T) : Keeping(Checks(p, l, b), p, l, S, T, X)
    BY <1>3, <2>2
  <2>3. e.type \in T
    BY <1>1, FormOf
  <2>4. Len(s) \in Nat \ {0} /\ s \in Seq([Names -> T])
    BY LenProperties, EmptySeq DEF Stacks
  <2> HIDE DEF r
  <2>l. CASE e.tag \in Literals
    <3> DEFINE t == LookupType(b, Primitive(e.tag))
               d == Retyped(e, t)
    <3>1. t \in T
      BY <2>l, TypesFound
    <3>2. r = Accepted(d, s)
      BY <2>1, <2>l DEF Check, Literals, Retyped
    <3> HIDE DEF t
    <3>3. d \in S /\ d.tag = e.tag /\ d.literal = e.literal
      BY <1>1, <2>l, <3>1, RetypedIs
    <3> HIDE DEF d
    <3>4. Kept(d, e, X)
      BY <2>l, <3>3, LeafKept
    <3> QED  BY <3>2, <3>3, <3>4, KeepingIs DEF r
  <2>s. CASE e.tag = "symbol"
    <3> DEFINE t == LookupVarType(s, e.name)
               d == Retyped(e, t)
    <3>1. t \in T
      BY <1>1, <2>s, FormOf, TypesFound DEF Literals
    <3>2. r = Passed(d, s)
      BY <2>1, <2>s DEF Check, Literals, Retyped
    <3> HIDE DEF t
    <3>3. d \in S /\ d.tag = e.tag /\ d.name = e.name
      BY <1>1, <2>s, <3>1, RetypedIs
    <3> HIDE DEF d
    <3>4. Kept(d, e, X)
      BY <2>s, <3>3, LeafKept
    <3> QED  BY <3>2, <3>3, <3>4, KeepingIs DEF r
  <2>a. CASE e.tag = "assign"
    <3>1. e.name \in Names /\ e.value \in S
      BY <1>1, <2>a, FormOf DEF Literals
    <3>2. e.value \in Parts(e)
      BY <2>a DEF Parts
    <3> DEFINE c == Checks(e.value, s, b)
               known == c.scopes[Len(s)][e.name]
               type == IF known = NoType THEN c.sexpr.type ELSE known
               d == AssignOf(e, c.sexpr, type)
    <3>3. r = CheckAssign(e, s, b)
      BY <2>1, <2>a DEF Check, Literals
    <3>4. Keeping(c, e.value, s, S, T, X)
      BY <1>1, <2>2, <3>1, <3>2
    <3>5. r = IF ~c.ok THEN Unsuccessful(c, e)
              ELSE IF known # NoType /\ ~TypeSubtype(known, c.sexpr.type) THEN Failed(e, c.scopes)
              ELSE Accepted(d, Bind(c.scopes, e.name, type))
      BY <3>3 DEF CheckAssign, AssignOf
    <3> HIDE DEF c
    <3>6. c \in Results(S, T) /\ c.sexpr \in S /\ c.scopes \in Stacks(T)
      BY <3>4 DEF Keeping, Results
    <3>7. CASE ~c.ok
      BY <3>5, <3>6, <3>7, NotSuccessful DEF r
    <3>8. CASE c.ok
      <4>1. Len(c.scopes) = Len(s) /\ Kept(c.sexpr, e.value, X)
        BY <3>4, <3>8 DEF Keeping
      <4>2. known \in T /\ c.sexpr.type \in T
        <5>1. c.scopes \in Seq([Names -> T]) /\ Len(s) \in 1 .. Len(c.scopes)
          BY <2>4, <3>6, <4>1 DEF Stacks
        <5>2. c.scopes[Len(s)] \in [Names -> T]
          BY <5>1, ElementOfSeq
        <5> QED  BY <1>1, <3>1, <3>6, <5>2, FormOf
      <4>3. type \in T
        BY <4>2
      <4> HIDE DEF type, known
      <4>4. d \in S /\ d.tag = "assign" /\ d.name = e.name /\ d.value = c.sexpr
        BY <1>1, <2>a, <3>6, <4>3, AssignMade
      <4> HIDE DEF d
      <4>5. Kept(d, e, X)
        BY <2>a, <4>1, <4>4, AssignKept
      <4>6. Bind(c.scopes, e.name, type) \in Stacks(T) /\ Len(Bind(c.scopes, e.name, type)) = Len(s)
        BY <3>1, <3>6, <4>1, <4>3, StackBound
      <4>7. r = Failed(e, c.scopes) \/ r = Accepted(d, Bind(c.scopes, e.name, type))
        BY <3>5, <3>8
      <4> QED  BY <3>6, <4>4, <4>5, <4>6, <4>7, KeepingIs, NothingKept DEF r
    <3> QED  BY <3>7, <3>8
  <2>d. CASE e.tag = "declare"
    <3>1. e.name \in Names
      BY <1>1, <2>d, FormOf DEF Literals
    <3>2. r = Accepted(e, Bind(s, e.name, e.type))
      BY <2>1, <2>d DEF Check, Literals
    <3>3. Bind(s, e.name, e.type) \in Stacks(T) /\ Len(Bind(s, e.name, e.type)) = Len(s)
      BY <2>3, <3>1, StackBound
    <3> QED  BY <3>2, <3>3, KeepingIs, KeptRefl DEF r
  <2>c. CASE e.tag = "local_scope"
    <3>1. e.assigns \in Seq(S) /\ e.value \in S
      BY <1>1, <2>c, FormOf DEF Literals
    <3>2. Len(e.assigns) \in Nat /\ DOMAIN e.assigns = 1 .. Len(e.assigns) /\ \A i \in 1 .. Len(e.assigns) : e.assigns[i] \in S
      BY <3>1, LenProperties, ElementOfSeq
    <3>3. e.value \in Parts(e) /\ \A i \in 1 .. Len(e.assigns) : e.assigns[i] \in Parts(e)
      BY <2>c, <3>2 DEF Parts
    <3>4. EachKeeps(e.assigns, b, S, T, X)
      BY <1>1, <2>2, <3>2, <3>3 DEF EachKeeps
    <3> DEFINE as == CheckEach(e.assigns, PushScope(s), b)
               v == Checks(e.value, as.scopes, b)
               t == v.sexpr.type
               d == ScopeOf(e, as.sexpr, v.sexpr, t)
    <3>5. r = CheckLocalScope(e, s, b)
      BY <2>1, <2>c DEF Check, Literals
    <3>6. r = IF ~as.ok THEN Unsuccessful(as, e)
              ELSE IF ~v.ok THEN Unsuccessful(v, e)
              ELSE Accepted(d, PopScope(v.scopes))
      BY <3>5 DEF CheckLocalScope, ScopeOf
    <3>7. PushScope(s) \in Stacks(T) /\ Len(PushScope(s)) = Len(s) + 1
      BY <1>2, ScopePushed
    <3>8. AllKept(as, e.assigns, PushScope(s), S, T, X)
      BY <3>2, <3>4, <3>7, CheckEachKeeps
    <3> HIDE DEF as
    <3>9. /\ as.sexpr \in Seq(S) /\ as.scopes \in Stacks(T)
          /\ as.ok => /\ Len(as.scopes) = Len(s) + 1 /\ Len(as.sexpr) = Len(e.assigns)
                      /\ \A i \in 1 .. Len(e.assigns) : Kept(as.sexpr[i], e.assigns[i], X)
      BY <3>7, <3>8 DEF Results, AllKept
    <3>10. Keeping(v, e.value, as.scopes, S, T, X)
      BY <1>1, <2>2, <3>1, <3>3, <3>9
    <3> HIDE DEF v
    <3>11. v \in Results(S, T) /\ v.sexpr \in S /\ v.scopes \in Stacks(T)
      BY <3>10 DEF Keeping, Results
    <3>12. CASE ~as.ok
      BY <3>6, <3>8, <3>12, NotAllSuccessful DEF r
    <3>13. CASE as.ok /\ ~v.ok
      BY <3>6, <3>11, <3>13, NotSuccessful DEF r
    <3>14. CASE as.ok /\ v.ok
      <4>1. Len(v.scopes) = Len(s) + 1 /\ Kept(v.sexpr, e.value, X)
        BY <3>9, <3>10, <3>14 DEF Keeping
      <4>2. PopScope(v.scopes) \in Stacks(T) /\ Len(PopScope(v.scopes)) = Len(s)
        BY <2>4, <3>11, <4>1, ScopePopped
      <4>3. t \in T
        BY <1>1, <3>11, FormOf
      <4>4. r = Accepted(d, PopScope(v.scopes))
        BY <3>6, <3>14
      <4> HIDE DEF t
      <4>5. d \in S /\ d.tag = "local_scope" /\ d.assigns = as.sexpr /\ d.value = v.sexpr
        <5> DEFINE p == as.sexpr
                   q == v.sexpr
        <5>1. p \in Seq(S) /\ q \in S
          BY <3>9, <3>11
        <5> HIDE DEF p, q
        <5>2. ScopeOf(e, p, q, t) \in S
          BY <1>1, <2>c, <4>3, <5>1, ScopeMade
        <5>3. ScopeOf(e, p, q, t).tag = "local_scope" /\ ScopeOf(e, p, q, t).assigns = p /\ ScopeOf(e, p, q, t).value = q
          BY <1>1, <2>c, <4>3, <5>1, ScopeMade
        <5> QED  BY <5>2, <5>3 DEF p, q
      <4> HIDE DEF d
      <4>6. Kept(d, e, X)
        BY <2>c, <3>9, <3>14, <4>1, <4>5, ScopeKept
      <4> QED  BY <4>2, <4>4, <4>5, <4>6, KeepingIs DEF r
    <3> QED  BY <3>12, <3>13, <3>14
  <2>i. CASE e.tag = "if"
    <3>1. e.cond \in S /\ e.then \in S /\ e.elsy \in S
      BY <1>1, <2>i, FormOf DEF Literals
    <3>2. e.cond \in Parts(e) /\ e.then \in Parts(e) /\ e.elsy \in Parts(e)
      BY <2>i DEF Parts
    <3> DEFINE c == Checks(e.cond, s, b)
               bs == CheckEach(<<e.then, e.elsy>>, c.scopes, b)
               t == bs.sexpr[1].type
               d == IfOf(e, c.sexpr, bs.sexpr[1], bs.sexpr[2], t)
    <3>3. r = CheckIf(e, s, b)
      BY <2>1, <2>i DEF Check, Literals
    <3>4. r = IF ~c.ok THEN Unsuccessful(c, e)
              ELSE IF ~TypesEqual(c.sexpr.type, LookupType(b, BoolType)) THEN Failed(e, c.scopes)
              ELSE IF ~bs.ok THEN Unsuccessful(bs, e)
              ELSE IF ~TypesEqual(bs.sexpr[1].type, bs.sexpr[2].type) THEN Failed(e, bs.scopes)
              ELSE Accepted(d, bs.scopes)
      BY <3>3 DEF CheckIf, IfOf
    <3>5. Keeping(c, e.cond, s, S, T, X)
      BY <1>1, <2>2, <3>1, <3>2
    <3> HIDE DEF c
    <3>6. c \in Results(S, T) /\ c.sexpr \in S /\ c.scopes \in Stacks(T)
      BY <3>5 DEF Keeping, Results
    <3>7. \A l \in Stacks(T) : /\ Keeping(Checks(e.then, l, b), e.then, l, S, T, X)
                               /\ Keeping(Checks(e.elsy, l, b), e.elsy, l, S, T, X)
      BY <1>1, <2>2, <3>1, <3>2
    <3>8. /\ AllKept(bs, <<e.then, e.elsy>>, c.scopes, S, T, X) /\ bs.scopes \in Stacks(T)
          /\ bs.ok => /\ Len(bs.scopes) = Len(c.scopes) /\ bs.sexpr[1] \in S /\ bs.sexpr[2] \in S
                      /\ Kept(bs.sexpr[1], e.then, X) /\ Kept(bs.sexpr[2], e.elsy, X)
      BY <3>1, <3>6, <3>7, PairKeeps
    <3> HIDE DEF bs
    <3>9. bs.scopes \in Stacks(T)
      BY <3>8
    <3>10. CASE ~c.ok
      BY <3>4, <3>6, <3>10, NotSuccessful DEF r
    <3>11. CASE c.ok /\ ~bs.ok
      BY <3>4, <3>6, <3>8, <3>11, NotAllSuccessful, NothingKept DEF r
    <3>12. CASE c.ok /\ bs.ok
      <4>1. t \in T
        BY <1>1, <3>8, <3>12, FormOf
      <4>2. r = Failed(e, c.scopes) \/ r = Failed(e, bs.scopes) \/ r = Accepted(d, bs.scopes)
        BY <3>4, <3>12
      <4> DEFINE x == bs.sexpr[1]
                 y == bs.sexpr[2]
      <4>3. x \in S /\ y \in S /\ Kept(x, e.then, X) /\ Kept(y, e.elsy, X)
        BY <3>8, <3>12
      <4> HIDE DEF t, x, y
      <4>4. d \in S /\ d.tag = "if" /\ d.cond = c.sexpr /\ d.then = x /\ d.elsy = y
        BY <1>1, <2>i, <3>6, <4>1, <4>3, IfMade DEF x, y
      <4> HIDE DEF d
      <4>5. Len(bs.scopes) = Len(s) /\ Kept(c.sexpr, e.cond, X)
        BY <3>5, <3>8, <3>12 DEF Keeping
      <4>6. Kept(d, e, X)
        BY <2>i, <4>3, <4>4, <4>5, IfKept
      <4> QED  BY <3>6, <3>8, <3>9, <3>12, <4>2, <4>4, <4>5, <4>6, KeepingIs, NothingKept DEF r
    <3> QED  BY <3>10, <3>11, <3>12
  <2>x. CASE e.tag = "infix"
    <3>1. e.left \in S /\ e.right \in S
      BY <1>1, <2>x, FormOf DEF Literals
    <3>2. e.left \in Parts(e) /\ e.right \in Parts(e)
      BY <2>x DEF Parts
    <3> DEFINE bs == CheckEach(<<e.left, e.right>>, s, b)
               x == bs.sexpr[1]
               y == bs.sexpr[2]
               bool == LookupType(b, BoolType)
               out == LookupInfix(b, e.op, x.type, y.type)
               Typed(t) == InfixOf(e, x, y, t)
    <3>3. r = CheckInfix(e, s, b)
      BY <2>1, <2>x DEF Check, Literals
    <3>4. \/ ~bs.ok /\ r = Unsuccessful(bs, e)
          \/ /\ bs.ok
             /\ \/ r = Accepted(Typed(bool), bs.scopes)
                \/ r = Failed(e, bs.scopes)
                \/ r = Undefined(e, bs.scopes)
                \/ r = Passed(Typed(out), bs.scopes)
      BY <3>3 DEF CheckInfix, InfixOf
    <3>5. \A l \in Stacks(T) : /\ Keeping(Checks(e.left, l, b), e.left, l, S, T, X)
                               /\ Keeping(Checks(e.right, l, b), e.right, l, S, T, X)
      BY <1>1, <2>2, <3>1, <3>2
    <3>6. /\ AllKept(bs, <<e.left, e.right>>, s, S, T, X) /\ bs.scopes \in Stacks(T)
          /\ bs.ok => /\ Len(bs.scopes) = Len(s) /\ bs.sexpr[1] \in S /\ bs.sexpr[2] \in S
                      /\ Kept(bs.sexpr[1], e.left, X) /\ Kept(bs.sexpr[2], e.right, X)
      BY <3>1, <3>5, PairKeeps
    <3>7. bool \in T /\ out \in T
      BY TypesFound DEF AreLanguageTypes
    <3> HIDE DEF bs, bool, out
    <3>8. bs.scopes \in Stacks(T)
      BY <3>6
    <3>9. CASE ~bs.ok
      BY <3>4, <3>6, <3>9, NotAllSuccessful DEF r
    <3>10. CASE bs.ok
      <4>1. x \in S /\ y \in S /\ Kept(x, e.left, X) /\ Kept(y, e.right, X) /\ Len(bs.scopes) = Len(s)
        BY <3>6, <3>10
      <4> HIDE DEF x, y
      <4>2. ASSUME NEW t \in T PROVE Typed(t) \in S /\ Kept(Typed(t), e, X)
        <5> DEFINE d == Typed(t)
        <5>1. d \in S /\ d.tag = "infix" /\ d.op = e.op /\ d.left = x /\ d.right = y
          BY <1>1, <2>x, <4>1, <4>2, InfixMade
        <5> HIDE DEF d
        <5>2. Kept(d, e, X)
          BY <2>x, <4>1, <5>1, InfixKept
        <5> QED  BY <5>1, <5>2 DEF d
      <4> HIDE DEF Typed
      <4>3. /\ Typed(bool) \in S /\ Kept(Typed(bool), e, X)
            /\ Typed(out) \in S /\ Kept(Typed(out), e, X)
        BY <3>7, <4>2
      <4>4. \/ r = Accepted(Typed(bool), bs.scopes)
            \/ r = Failed(e, bs.scopes)
            \/ r = Undefined(e, bs.scopes)
            \/ r = Passed(Typed(out), bs.scopes)
        BY <3>4, <3>10
      <4> QED  BY <3>8, <4>1, <4>3, <4>4, KeepingIs, NothingKept DEF r
    <3> QED  BY <3>9, <3>10
  <2>p. CASE e.tag = "prefix"
    <3>1. e.operand \in S
      BY <1>1, <2>p, FormOf DEF Literals
    <3>2. e.operand \in Parts(e)
      BY <2>p DEF Parts
    <3> DEFINE c == Checks(e.operand, s, b)
               x == c.sexpr
               out == LookupPrefix(b, x.type)
               curry == Curry(x.type.fields)
               Typed(t) == PrefixOf(e, x, t)
    <3>3. r = CheckPrefix(e, s, b)
      BY <2>1, <2>p DEF Check, Literals
    <3>4. \/ ~c.ok /\ r = Unsuccessful(c, e)
          \/ /\ c.ok
             /\ \/ r = Passed(Typed(out), c.scopes)
                \/ r = Undefined(e, c.scopes)
                \/ r = Failed(e, c.scopes)
                \/ /\ x.type # NoType /\ x.type.kind = "PRODUCT"
                   /\ r = Accepted(Typed(curry), c.scopes)
      BY <3>3 DEF CheckPrefix, PrefixOf
    <3>5. Keeping(c, e.operand, s, S, T, X)
      BY <1>1, <2>2, <3>1, <3>2
    <3> HIDE DEF c
    <3>6. c \in Results(S, T) /\ x \in S /\ c.scopes \in Stacks(T)
      BY <3>5 DEF Keeping, Results
    <3>7. CASE ~c.ok
      BY <3>4, <3>6, <3>7, NotSuccessful DEF r
    <3>8. CASE c.ok
      <4>1. Kept(x, e.operand, X) /\ Len(c.scopes) = Len(s)
        BY <3>5, <3>8 DEF Keeping
      <4> HIDE DEF x
      <4>2. x.type \in T
        BY <1>1, <3>6, FormOf
      <4>3. out \in T /\ (x.type # NoType /\ x.type.kind = "PRODUCT" => curry \in T)
        BY <4>2, TypesFound DEF AreLanguageTypes
      <4>4. ASSUME NEW t \in T PROVE Typed(t) \in S /\ Kept(Typed(t), e, X)
        <5> DEFINE d == Typed(t)
        <5>1. d \in S /\ d.tag = "prefix" /\ d.op = e.op /\ d.operand = x
          BY <1>1, <2>p, <3>6, <4>4, PrefixMade
        <5> HIDE DEF d
        <5>2. Kept(d, e, X)
          BY <2>p, <4>1, <5>1, PrefixKept
        <5> QED  BY <5>1, <5>2 DEF d
      <4> HIDE DEF Typed, out, curry
      <4>5. \/ r = Passed(Typed(out), c.scopes)
            \/ r = Undefined(e, c.scopes)
            \/ r = Failed(e, c.scopes)
            \/ curry \in T /\ r = Accepted(Typed(curry), c.scopes)
        BY <3>4, <3>8, <4>3
      <4>6. Typed(out) \in S /\ Kept(Typed(out), e, X) /\ (curry \in T => Typed(curry) \in S /\ Kept(Typed(curry), e, X))
        BY <4>3, <4>4
      <4> QED  BY <3>6, <4>1, <4>5, <4>6, KeepingIs, NothingKept DEF r
    <3> QED  BY <3>7, <3>8
  <2>o. CASE e.tag \in {"func", "unsupported"}
    <3>1. r = Failed(e, s)
      BY <2>1, <2>o DEF Check, Literals
    <3> QED  BY <3>1, NothingKept DEF r
  <2> QED  BY <1>1, <2>l, <2>s, <2>a, <2>d, <2>c, <2>i, <2>x, <2>p, <2>o, FormOf
<1>4. S \subseteq G
  <2>1. \A e \in S : (\A p \in S : depth[p] < depth[e] => p \in G) => e \in G
    BY <1>3
  <2> HIDE DEF G
  <2> QED  BY <2>1, ByDepth
<1> QED  BY <1>4

=============================================================================
