------------------------- MODULE ControlFlowProofs --------------------------
(***************************************************************************)
(* Proofs about the blocks of a function, for every program, however deep  *)
(* its expressions nest and however many blocks they take.                 *)
(***************************************************************************)
EXTENDS ControlFlow, FiniteSetTheorems, SequenceTheorems, WellFoundedInduction, TLAPS

-----------------------------------------------------------------------------
(* The calls under way, and what each of them has set aside: S is the graph *)
(* of the blocks 1 .. n, fs the frames.                                     *)

FrameType == [kind : {"prefix", "infix", "logic", "if", "with"},
              stage : {"begun", "right", "then", "else", "value"},
              held : Nat, from : Nat, elsy : Nat, post : Nat]

\* One branch leads to the block where the call will go on, and the builder is on
\* another one; or the builder is on the first of two.
Joining(f) == (f.kind = "logic" /\ f.stage = "right") \/ (f.kind = "if" /\ f.stage = "else")
Branching(f) == f.kind = "if" /\ f.stage = "then"
Scoped(f) == Joining(f) \/ Branching(f) \/ f.kind = "with"

\* The blocks of a call the builder has not come to.
Reserved(f) == IF Joining(f) THEN {f.post} ELSE IF Branching(f) THEN {f.elsy, f.post} ELSE {}
Reserve(fs) == UNION {Reserved(fs[i]) : i \in 1 .. Len(fs)}

Into(S, b) == {p \in DOMAIN S : b \in S[p]}

FrameKept(f, S, n) ==
    /\ f \in FrameType /\ f.held \in {Constant} \cup 1 .. n
    /\ Reserved(f) \subseteq 1 .. n
    /\ Joining(f) => Into(S, f.post) = {f.from}
    /\ Branching(f) => f.elsy # f.post /\ Into(S, f.post) = {}

FramesKept(fs, S, n) ==
    /\ fs \in Seq(FrameType)
    /\ \A i \in 1 .. Len(fs) : FrameKept(fs[i], S, n)
    /\ \A i, j \in 1 .. Len(fs) : i # j => Reserved(fs[i]) \cap Reserved(fs[j]) = {}

PhiKept(p, S, n) == /\ p.block \in 1 .. n /\ p.values \in Seq(Nat) /\ p.incoming \in Seq(1 .. n)
                    /\ ToSet(p.incoming) = Into(S, p.block)
                    /\ p.incoming[1] # p.incoming[2]

GraphType(S, n) == n \in Nat \ {0} /\ S \in [1 .. n -> SUBSET (1 .. n)]

\* The open blocks are the builder's and those set aside, and no phi is in one of these.
Open(fs, S, n, a) == /\ a \in 1 .. n /\ a \notin Reserve(fs)
                     /\ \A b \in 1 .. n : S[b] = {} <=> (b = a \/ b \in Reserve(fs))
PhisKept(ph, fs, S, n) == \A p \in ph : PhiKept(p, S, n) /\ p.block \notin Reserve(fs)

Graph(S, n, a, fs, ph) == /\ GraphType(S, n) /\ FramesKept(fs, S, n)
                          /\ Open(fs, S, n, a) /\ PhisKept(ph, fs, S, n)

\* How many scopes the calls under way have pushed.
ScopedIn(fs) == {i \in 1 .. Len(fs) : Scoped(fs[i])}
Depth(fs) == Cardinality(ScopedIn(fs))

Scopes == [Locals -> {Unbound, Constant} \cup Blocks]
Data == /\ uses \subseteq Blocks \X Blocks
        /\ local \in Seq(Scopes) /\ Len(local) = Depth(frames)
        /\ value \in {Pending, Constant} \cup Blocks
        /\ roots \in 0 .. MaxRoots
        /\ (value # Pending \/ frames # <<>>) => roots > 0

BlocksInv == Graph(succ, blocks, at, frames, phis) /\ current_block = at /\ Data

-----------------------------------------------------------------------------
(* Stacks of calls: a call begins, goes on in place, or returns.           *)

Rest(fs) == SubSeq(fs, 1, Len(fs) - 1)

LEMMA RestIs ==
  ASSUME NEW D, NEW fs \in Seq(D), fs # <<>>, NEW f \in D
  PROVE  /\ Len(fs) \in Nat \ {0} /\ fs[Len(fs)] \in D
         /\ Rest(fs) \in Seq(D)
         /\ Len(Rest(fs)) = Len(fs) - 1
         /\ \A i \in 1 .. Len(fs) - 1 : Rest(fs)[i] = fs[i]
         /\ fs = Append(Rest(fs), fs[Len(fs)])
         /\ [fs EXCEPT ![Len(fs)] = f] = Append(Rest(fs), f)
<1>1. Len(fs) \in Nat \ {0} /\ \A i \in 1 .. Len(fs) : fs[i] \in D
  BY EmptySeq, ElementOfSeq
<1>2. /\ Rest(fs) \in Seq(D)
      /\ Len(Rest(fs)) = Len(fs) - 1
      /\ \A i \in 1 .. Len(fs) - 1 : Rest(fs)[i] = fs[i]
  <2>1. \A i \in 1 .. Len(fs) - 1 : fs[i] \in D
    BY <1>1
  <2>2. /\ Rest(fs) \in Seq(D)
        /\ Len(Rest(fs)) = IF 1 <= Len(fs) - 1 THEN (Len(fs) - 1) - 1 + 1 ELSE 0
        /\ \A i \in 1 .. (Len(fs) - 1) - 1 + 1 : Rest(fs)[i] = fs[1 + i - 1]
    BY <1>1, <2>1, SubSeqProperties DEF Rest
  <2>3. Len(Rest(fs)) = Len(fs) - 1
    <3> DEFINE l == Len(fs)
    <3>1. l \in Nat \ {0}
      BY <1>1
    <3>2. Len(Rest(fs)) = IF 1 <= l - 1 THEN (l - 1) - 1 + 1 ELSE 0
      BY <2>2
    <3> HIDE DEF l
    <3>3. (IF 1 <= l - 1 THEN (l - 1) - 1 + 1 ELSE 0) = l - 1
      BY <3>1
    <3>4. Len(Rest(fs)) = l - 1
      BY <3>2, <3>3
    <3> QED  BY <3>4 DEF l
  <2>4. \A i \in 1 .. Len(fs) - 1 : i \in 1 .. (Len(fs) - 1) - 1 + 1 /\ 1 + i - 1 = i
    BY <1>1
  <2>5. \A i \in 1 .. Len(fs) - 1 : Rest(fs)[i] = fs[i]
    BY <2>2, <2>4
  <2> QED  BY <2>2, <2>3, <2>5
<1>3. fs = Append(Rest(fs), fs[Len(fs)])
  <2>1. fs[Len(fs)] \in D
    BY <1>1
  <2>2. /\ Append(Rest(fs), fs[Len(fs)]) \in Seq(D)
        /\ Len(Append(Rest(fs), fs[Len(fs)])) = Len(Rest(fs)) + 1
        /\ \A i \in 1 .. Len(Rest(fs)) : Append(Rest(fs), fs[Len(fs)])[i] = Rest(fs)[i]
        /\ Append(Rest(fs), fs[Len(fs)])[Len(Rest(fs)) + 1] = fs[Len(fs)]
    BY <1>2, <2>1, AppendProperties
  <2> QED  BY <1>1, <1>2, <2>2, SeqEqual
<1>4. [fs EXCEPT ![Len(fs)] = f] = Append(Rest(fs), f)
  <2>1. /\ Append(Rest(fs), f) \in Seq(D)
        /\ Len(Append(Rest(fs), f)) = Len(Rest(fs)) + 1
        /\ \A i \in 1 .. Len(Rest(fs)) : Append(Rest(fs), f)[i] = Rest(fs)[i]
        /\ Append(Rest(fs), f)[Len(Rest(fs)) + 1] = f
    BY <1>2, AppendProperties
  <2>2. /\ [fs EXCEPT ![Len(fs)] = f] \in Seq(D)
        /\ Len([fs EXCEPT ![Len(fs)] = f]) = Len(fs)
        /\ \A j \in 1 .. Len(fs) : [fs EXCEPT ![Len(fs)] = f][j] = IF j = Len(fs) THEN f ELSE fs[j]
    BY <1>1, ExceptSeq
  <2> DEFINE e == [fs EXCEPT ![Len(fs)] = f]
             g == Append(Rest(fs), f)
  <2> HIDE DEF e, g
  <2>3. e \in Seq(D) /\ g \in Seq(D) /\ Len(e) = Len(fs) /\ Len(g) = Len(fs)
    BY <1>1, <1>2, <2>1, <2>2 DEF e, g
  <2>4. \A i \in 1 .. Len(e) : e[i] = g[i]
    BY <1>1, <1>2, <2>1, <2>2, <2>3 DEF e, g
  <2>5. e = g
    BY <2>3, <2>4, SeqEqual
  <2> QED  BY <2>5 DEF e, g
<1> QED  BY <1>1, <1>2, <1>3, <1>4

\* What is set aside with a call more.
LEMMA ReserveMore ==
  ASSUME NEW fs \in Seq(FrameType), NEW f \in FrameType
  PROVE  Reserve(Append(fs, f)) = Reserve(fs) \cup Reserved(f)
<1> DEFINE gs == Append(fs, f)
<1>1. /\ Len(fs) \in Nat /\ Len(gs) = Len(fs) + 1
      /\ \A i \in 1 .. Len(fs) : gs[i] = fs[i]
      /\ gs[Len(fs) + 1] = f
  BY AppendProperties, LenProperties
<1> HIDE DEF gs
<1>2. \A i \in 1 .. Len(gs) : Reserved(gs[i]) \subseteq Reserve(fs) \cup Reserved(f)
  BY <1>1 DEF Reserve
<1>3. \A i \in 1 .. Len(fs) : Reserved(fs[i]) \subseteq Reserve(gs)
  BY <1>1 DEF Reserve
<1>4. Reserved(f) \subseteq Reserve(gs)
  BY <1>1 DEF Reserve
<1>5. Reserve(gs) = Reserve(fs) \cup Reserved(f)
  BY <1>2, <1>3, <1>4 DEF Reserve
<1> QED  BY <1>5 DEF gs

\* A call more is kept if it has set aside what no other has, and the other way round.
LEMMA FramesMore ==
  ASSUME NEW fs \in Seq(FrameType), NEW f \in FrameType, NEW S, NEW n
  PROVE  FramesKept(Append(fs, f), S, n) <=>
            FramesKept(fs, S, n) /\ FrameKept(f, S, n) /\ Reserved(f) \cap Reserve(fs) = {}
<1> DEFINE gs == Append(fs, f)
<1>1. /\ gs \in Seq(FrameType) /\ Len(fs) \in Nat /\ Len(gs) = Len(fs) + 1
      /\ \A i \in 1 .. Len(fs) : gs[i] = fs[i]
      /\ gs[Len(fs) + 1] = f
  BY AppendProperties, LenProperties
<1> HIDE DEF gs
<1>2. \A i \in 1 .. Len(gs) : i \in 1 .. Len(fs) \/ i = Len(fs) + 1
  BY <1>1
<1>3. Len(fs) + 1 \in 1 .. Len(gs) /\ \A i \in 1 .. Len(fs) : i \in 1 .. Len(gs) /\ i # Len(fs) + 1
  BY <1>1
<1>4. ASSUME FramesKept(gs, S, n)
      PROVE  FramesKept(fs, S, n) /\ FrameKept(f, S, n) /\ Reserved(f) \cap Reserve(fs) = {}
  <2>1. FrameKept(f, S, n) /\ \A i \in 1 .. Len(fs) : FrameKept(fs[i], S, n)
    BY <1>1, <1>3, <1>4 DEF FramesKept
  <2>2. \A i, j \in 1 .. Len(fs) : i # j => Reserved(fs[i]) \cap Reserved(fs[j]) = {}
    BY <1>1, <1>3, <1>4 DEF FramesKept
  <2>3. \A i \in 1 .. Len(fs) : Reserved(f) \cap Reserved(fs[i]) = {}
    BY <1>1, <1>3, <1>4 DEF FramesKept
  <2>4. Reserved(f) \cap Reserve(fs) = {}
    BY <2>3 DEF Reserve
  <2> QED  BY <2>1, <2>2, <2>4 DEF FramesKept
<1>5. ASSUME FramesKept(fs, S, n), FrameKept(f, S, n), Reserved(f) \cap Reserve(fs) = {}
      PROVE  FramesKept(gs, S, n)
  <2>1. \A i \in 1 .. Len(gs) : FrameKept(gs[i], S, n)
    BY <1>1, <1>2, <1>5 DEF FramesKept
  <2>2. \A i \in 1 .. Len(fs) : Reserved(f) \cap Reserved(fs[i]) = {}
    BY <1>5 DEF Reserve
  <2>3. ASSUME NEW i \in 1 .. Len(gs), NEW j \in 1 .. Len(gs), i # j
        PROVE  Reserved(gs[i]) \cap Reserved(gs[j]) = {}
    <3>1. CASE i \in 1 .. Len(fs) /\ j \in 1 .. Len(fs)
      BY <1>1, <1>5, <2>3, <3>1 DEF FramesKept
    <3>2. CASE i = Len(fs) + 1 /\ j \in 1 .. Len(fs)
      BY <1>1, <2>2, <3>2
    <3>3. CASE j = Len(fs) + 1 /\ i \in 1 .. Len(fs)
      BY <1>1, <2>2, <3>3
    <3> QED  BY <1>2, <2>3, <3>1, <3>2, <3>3
  <2> QED  BY <1>1, <2>1, <2>3 DEF FramesKept
<1> QED  BY <1>4, <1>5 DEF gs

LEMMA DepthMore ==
  ASSUME NEW fs \in Seq(FrameType), NEW f \in FrameType
  PROVE  /\ Depth(fs) \in Nat
         /\ Depth(Append(fs, f)) = Depth(fs) + (IF Scoped(f) THEN 1 ELSE 0)
<1> DEFINE gs == Append(fs, f)
           l == Len(fs) + 1
<1>1. /\ Len(fs) \in Nat /\ Len(gs) = l
      /\ \A i \in 1 .. Len(fs) : gs[i] = fs[i]
      /\ gs[l] = f
  BY AppendProperties, LenProperties
<1> HIDE DEF gs
<1>2. IsFiniteSet(ScopedIn(fs)) /\ l \notin ScopedIn(fs)
  <2>1. IsFiniteSet(1 .. Len(fs)) /\ l \notin 1 .. Len(fs)
    BY <1>1, FS_Interval
  <2> QED  BY <2>1, FS_Subset DEF ScopedIn
<1>3. Depth(fs) \in Nat
  BY <1>2, FS_CardinalityType DEF Depth
<1>4. \A i \in 1 .. Len(gs) : i \in 1 .. Len(fs) \/ i = l
  BY <1>1
<1>5. l \in 1 .. Len(gs) /\ \A i \in 1 .. Len(fs) : i \in 1 .. Len(gs)
  BY <1>1
<1>6. CASE Scoped(f)
  <2>1. ScopedIn(gs) = ScopedIn(fs) \cup {l}
    BY <1>1, <1>4, <1>5, <1>6 DEF ScopedIn
  <2>2. Cardinality(ScopedIn(fs) \cup {l}) = Cardinality(ScopedIn(fs)) + 1
    BY <1>2, FS_AddElement
  <2> QED  BY <1>3, <1>6, <2>1, <2>2 DEF Depth, gs
<1>7. CASE ~Scoped(f)
  <2>1. ScopedIn(gs) = ScopedIn(fs)
    BY <1>1, <1>4, <1>5, <1>7 DEF ScopedIn
  <2> QED  BY <1>3, <1>7, <2>1 DEF Depth, gs
<1> QED  BY <1>6, <1>7

-----------------------------------------------------------------------------
(* The graph of the blocks: m blocks are appended, and the builder's block  *)
(* a is closed with a branch to those of s.                                *)

Edited(S, n, m, a, s) ==
    [b \in 1 .. n + m |-> IF b = a THEN S[b] \cup s ELSE IF b \in 1 .. n THEN S[b] ELSE {}]

LEMMA EditedIs ==
  ASSUME NEW n, NEW S, GraphType(S, n), NEW m \in Nat, NEW a \in 1 .. n,
         NEW s \in SUBSET (1 .. n + m), s # {}
  PROVE  /\ GraphType(Edited(S, n, m, a, s), n + m)
         /\ \A b \in s : Into(Edited(S, n, m, a, s), b) = Into(S, b) \cup {a}
         /\ \A b : b \notin s => Into(Edited(S, n, m, a, s), b) = Into(S, b)
         /\ \A b \in 1 .. n + m : Edited(S, n, m, a, s)[b] = {} <=> (b # a /\ (b \in 1 .. n => S[b] = {}))
         /\ \A b : b \notin 1 .. n => Into(S, b) = {}
<1> DEFINE T == Edited(S, n, m, a, s)
<1>1. n \in Nat \ {0} /\ S \in [1 .. n -> SUBSET (1 .. n)]
  BY DEF GraphType
<1>2. 1 .. n \subseteq 1 .. n + m /\ n + m \in Nat \ {0}
  BY <1>1
<1>3. /\ DOMAIN T = 1 .. n + m /\ T[a] = S[a] \cup s
      /\ \A b \in 1 .. n \ {a} : T[b] = S[b]
      /\ \A b \in (1 .. n + m) \ (1 .. n) : T[b] = {}
      /\ T = [b \in 1 .. n + m |-> T[b]]
  BY <1>2 DEF Edited
<1> HIDE DEF T
<1>4. \A b \in 1 .. n + m : T[b] \subseteq 1 .. n + m
  BY <1>1, <1>2, <1>3
<1>5. GraphType(T, n + m)
  BY <1>2, <1>3, <1>4 DEF GraphType
<1>6. \A b \in s : Into(T, b) = Into(S, b) \cup {a}
  BY <1>1, <1>2, <1>3 DEF Into
<1>7. \A b : b \notin s => Into(T, b) = Into(S, b)
  BY <1>1, <1>2, <1>3 DEF Into
<1>8. \A b \in 1 .. n + m : T[b] = {} <=> (b # a /\ (b \in 1 .. n => S[b] = {}))
  BY <1>1, <1>2, <1>3
<1>9. \A b : b \notin 1 .. n => Into(S, b) = {}
  BY <1>1 DEF Into
<1> QED  BY <1>5, <1>6, <1>7, <1>8, <1>9 DEF T

\* Calls that have not set aside a block of s keep what they hold.
LEMMA EditKeepsFrames ==
  ASSUME NEW n, NEW S, GraphType(S, n), NEW m \in Nat, NEW a \in 1 .. n,
         NEW s \in SUBSET (1 .. n + m), s # {},
         NEW fs, FramesKept(fs, S, n), s \cap Reserve(fs) = {}
  PROVE  FramesKept(fs, Edited(S, n, m, a, s), n + m)
<1> DEFINE T == Edited(S, n, m, a, s)
<1>1. n \in Nat \ {0} /\ 1 .. n \subseteq 1 .. n + m
  BY DEF GraphType
<1>2. \A b : b \notin s => Into(T, b) = Into(S, b)
  BY EditedIs
<1> HIDE DEF T
<1>3. ASSUME NEW i \in 1 .. Len(fs)
      PROVE  FrameKept(fs[i], T, n + m)
  <2> DEFINE f == fs[i]
  <2>1. FrameKept(f, S, n) /\ Reserved(f) \cap s = {}
    BY <1>3 DEF FramesKept, Reserve
  <2> HIDE DEF f
  <2>2. Joining(f) \/ Branching(f) => f.post \notin s
    BY <2>1 DEF Reserved
  <2>3. FrameKept(f, T, n + m)
    BY <1>1, <1>2, <2>1, <2>2 DEF FrameKept
  <2> QED  BY <2>3 DEF f
<1> QED  BY <1>3 DEF FramesKept, T

\* Nor does a phi lose a predecessor, or get one, if its block is not in s.
LEMMA EditKeepsPhi ==
  ASSUME NEW n, NEW S, GraphType(S, n), NEW m \in Nat, NEW a \in 1 .. n,
         NEW s \in SUBSET (1 .. n + m), s # {},
         NEW p, PhiKept(p, S, n), p.block \notin s
  PROVE  PhiKept(p, Edited(S, n, m, a, s), n + m)
<1>1. n \in Nat \ {0} /\ 1 .. n \subseteq 1 .. n + m
  BY DEF GraphType
<1>2. Into(Edited(S, n, m, a, s), p.block) = Into(S, p.block)
  BY EditedIs
<1>3. p.incoming \in Seq(1 .. n + m)
  BY <1>1, SeqMonotonic DEF PhiKept
<1> QED  BY <1>1, <1>2, <1>3 DEF PhiKept

\* The builder goes on at a2, one of the blocks appended or set aside by the call
\* that is on top of os; the others of these, Q, are set aside from then on.
LEMMA GraphStep ==
  ASSUME NEW n, NEW S, GraphType(S, n), NEW m \in Nat, NEW a \in 1 .. n,
         NEW s \in SUBSET (1 .. n + m), s # {},
         NEW os, NEW R, a \notin Reserve(os) \cup R,
         \A b \in 1 .. n : S[b] = {} <=> (b = a \/ b \in Reserve(os) \cup R),
         Reserve(os) \subseteq 1 .. n, R \subseteq 1 .. n, Reserve(os) \cap R = {},
         NEW fs, NEW Q, FramesKept(fs, Edited(S, n, m, a, s), n + m),
         Reserve(fs) = Reserve(os) \cup Q,
         NEW a2, a2 \notin Q, {a2} \cup Q = R \cup (n + 1 .. n + m),
         NEW ph, \A p \in ph : /\ PhiKept(p, Edited(S, n, m, a, s), n + m)
                               /\ p.block \notin Reserve(os) \cup Q
  PROVE  Graph(Edited(S, n, m, a, s), n + m, a2, fs, ph)
<1> DEFINE T == Edited(S, n, m, a, s)
<1>1. n \in Nat \ {0} /\ 1 .. n \subseteq 1 .. n + m /\ n + 1 .. n + m \subseteq 1 .. n + m
  BY DEF GraphType
<1>2. 1 .. n + m = (1 .. n) \cup (n + 1 .. n + m) /\ (1 .. n) \cap (n + 1 .. n + m) = {}
  BY <1>1
<1>3. a2 \in 1 .. n + m /\ a2 \notin Reserve(fs) /\ a # a2
  BY <1>1, <1>2
<1>4. \A b \in 1 .. n + m : T[b] = {} <=> (b # a /\ (b \in 1 .. n => S[b] = {}))
  BY EditedIs
<1>5. GraphType(T, n + m)
  BY EditedIs
<1> HIDE DEF T
<1>6. \A b \in 1 .. n + m : (b # a /\ (b \in 1 .. n => S[b] = {}))
                            <=> (b = a2 \/ b \in Reserve(fs))
  BY <1>1, <1>2
<1>7. Open(fs, T, n + m, a2)
  BY <1>3, <1>4, <1>6 DEF Open
<1>8. PhisKept(ph, fs, T, n + m)
  BY DEF PhisKept, T
<1> QED  BY <1>5, <1>7, <1>8 DEF Graph, T

-----------------------------------------------------------------------------
(* The local variables.                                                    *)

LEMMA HasGreatest ==
  ASSUME NEW l \in Nat, NEW F \in SUBSET (1 .. l), F # {}
  PROVE  \E i \in F : \A j \in F : j <= i
<1> DEFINE G == {l - i : i \in F}
           Less == {p \in Nat \X Nat : p[1] < p[2]}
<1>1. G \subseteq Nat /\ G # {}
  <2>1. \A i \in F : l - i \in Nat
    OBVIOUS
  <2>2. PICK i \in F : TRUE
    OBVIOUS
  <2>3. l - i \in G
    OBVIOUS
  <2> QED  BY <2>1, <2>3
<1>2. IsWellFoundedOn(Less, Nat)
  BY NatLessThanWellFounded DEF OpToRel
<1> HIDE DEF G, Less
<1>3. PICK x \in G : \A y \in G : ~(<<y, x>> \in Less)
  BY <1>1, <1>2, WFMin
<1>4. \A y \in G : x <= y
  <2>1. \A y \in G : y \in Nat /\ x \in Nat
    BY <1>1
  <2>2. \A y \in G : ~(y < x)
    BY <1>3, <2>1 DEF Less
  <2> QED  BY <2>1, <2>2
<1>5. PICK i \in F : x = l - i
  BY DEF G
<1>6. \A j \in F : l - i <= l - j
  BY <1>4, <1>5 DEF G
<1> QED  BY <1>6

\* A variable that is found holds what it was bound to.
LEMMA LookupIs ==
  ASSUME blocks \in Nat, local \in Seq(Scopes), NEW n \in Locals
  PROVE  Lookup(n) \in {Unbound, Constant} \cup Blocks
<1> DEFINE found == {i \in DOMAIN local : local[i][n] # Unbound}
<1>1. Len(local) \in Nat /\ DOMAIN local = 1 .. Len(local)
  BY LenProperties
<1>2. CASE found = {}
  BY <1>2 DEF Lookup
<1>3. CASE found # {}
  <2> DEFINE i == CHOOSE i \in found : \A j \in found : j <= i
  <2>1. \E k \in found : \A j \in found : j <= k
    BY <1>1, <1>3, HasGreatest
  <2>2. i \in found
    BY <2>1
  <2>3. Lookup(n) = local[i][n]
    BY <1>3 DEF Lookup
  <2> HIDE DEF i
  <2>4. local[i] \in Scopes
    BY <1>1, <2>2, ElementOfSeq
  <2> QED  BY <2>3, <2>4 DEF Scopes
<1> QED  BY <1>2, <1>3

-----------------------------------------------------------------------------
(* The steps.  os stands for the calls below the one that goes on.          *)

\* The call on top, and those below it.
LEMMA TopIs ==
  ASSUME BlocksInv, frames # <<>>
  PROVE  /\ Top \in FrameType /\ FrameKept(Top, succ, blocks)
         /\ Rest(frames) \in Seq(FrameType) /\ FramesKept(Rest(frames), succ, blocks)
         /\ Reserve(frames) = Reserve(Rest(frames)) \cup Reserved(Top)
         /\ Reserve(Rest(frames)) \cap Reserved(Top) = {}
         /\ Depth(Rest(frames)) \in Nat
         /\ Len(local) = Depth(Rest(frames)) + (IF Scoped(Top) THEN 1 ELSE 0)
         /\ \A f \in FrameType : Replace(f) <=> frames' = Append(Rest(frames), f)
<1> DEFINE os == Rest(frames)
<1>1. FramesKept(frames, succ, blocks) /\ frames \in Seq(FrameType) /\ Len(local) = Depth(frames)
  BY DEF BlocksInv, Graph, FramesKept, Data
<1>2. Top \in FrameType /\ os \in Seq(FrameType) /\ frames = Append(os, Top)
  <2>1. Len(frames) \in Nat \ {0}
    BY <1>1, EmptySeq
  <2>2. Top \in FrameType
    BY <1>1, <2>1, ElementOfSeq DEF Top
  <2> QED  BY <1>1, <2>2, RestIs DEF Top
<1>3. \A f \in FrameType : [frames EXCEPT ![Len(frames)] = f] = Append(os, f)
  BY <1>1, RestIs
<1>4. \A f \in FrameType : Replace(f) <=> frames' = Append(os, f)
  BY <1>3 DEF Replace
<1> HIDE DEF os
<1>5. /\ FramesKept(os, succ, blocks) /\ FrameKept(Top, succ, blocks)
      /\ Reserved(Top) \cap Reserve(os) = {}
  BY <1>1, <1>2, FramesMore
<1>6. Reserve(frames) = Reserve(os) \cup Reserved(Top)
  BY <1>2, ReserveMore
<1>7. Depth(os) \in Nat /\ Depth(frames) = Depth(os) + (IF Scoped(Top) THEN 1 ELSE 0)
  BY <1>2, DepthMore
<1> QED  BY <1>1, <1>2, <1>4, <1>5, <1>6, <1>7 DEF os

\* Steps that leave the blocks alone, and what is set aside too.
LEMMA SameGraph ==
  ASSUME BlocksInv, UNCHANGED <<blocks, succ, phis, at, current_block>>,
         FramesKept(frames', succ, blocks), Reserve(frames') = Reserve(frames)
  PROVE  Graph(succ, blocks, at, frames, phis)' /\ (current_block = at)'
<1>1. Graph(succ, blocks, at, frames, phis)
  BY DEF BlocksInv
<1>2. Open(frames', succ, blocks, at) /\ PhisKept(phis, frames', succ, blocks)
  BY <1>1 DEF Graph, Open, PhisKept
<1>3. Graph(succ, blocks, at, frames', phis)
  BY <1>1, <1>2 DEF Graph
<1> QED  BY <1>3 DEF BlocksInv

\* An expression without subexpressions.
LEMMA LeafStep ==
  ASSUME BlocksInv, BuildLiteral \/ \E n \in Locals : BuildSymbol(n)
  PROVE  BlocksInv'
<1>1. UNCHANGED <<blocks, succ, phis, uses, at, current_block, local, frames, roots>> /\ roots > 0
  BY DEF BuildLiteral, BuildSymbol, CanCall
<1>2. at \in Blocks /\ blocks \in Nat
  BY DEF BlocksInv, Graph, Open, GraphType, Blocks
<1>3. value' \in {Constant} \cup Blocks
  <2>1. CASE BuildLiteral
    BY <2>1 DEF BuildLiteral
  <2>2. ASSUME NEW n \in Locals, BuildSymbol(n) PROVE value' \in {Constant} \cup Blocks
    <3>1. Lookup(n) \in {Unbound, Constant} \cup Blocks
      BY <1>2, LookupIs DEF BlocksInv, Data
    <3> QED  BY <1>2, <2>2, <3>1 DEF BuildSymbol
  <2> QED  BY <2>1, <2>2
<1>4. Data'
  BY <1>1, <1>3 DEF BlocksInv, Data, Blocks, Scopes
<1>5. Graph(succ, blocks, at, frames, phis)' /\ (current_block = at)'
  BY <1>1 DEF BlocksInv
<1> QED  BY <1>4, <1>5 DEF BlocksInv

\* The value of a root is stored.
LEMMA RootStep ==
  ASSUME BlocksInv, FinishRoot
  PROVE  BlocksInv'
<1>1. /\ UNCHANGED <<blocks, succ, phis, at, current_block, local, frames>>
      /\ value \in {Constant} \cup Blocks /\ frames = <<>> /\ roots \in 1 .. MaxRoots
      /\ value' = Pending /\ roots' = roots - 1
      /\ uses' = uses \cup {<<v, at>> : v \in {value} \ {Constant}}
  BY BoundsAssumption DEF FinishRoot, BlocksInv, Data, Use
<1>2. at \in Blocks
  BY DEF BlocksInv, Graph, Open, Blocks
<1>3. uses' \subseteq Blocks \X Blocks
  BY <1>1, <1>2 DEF BlocksInv, Data
<1>4. roots' \in 0 .. MaxRoots
  BY <1>1, BoundsAssumption
<1>5. Data'
  BY <1>1, <1>3, <1>4 DEF BlocksInv, Data, Blocks, Scopes
<1>6. Graph(succ, blocks, at, frames, phis)' /\ (current_block = at)'
  BY <1>1 DEF BlocksInv
<1> QED  BY <1>5, <1>6 DEF BlocksInv

\* A call that has set nothing aside goes on top of others.
LEMMA CallOnTop ==
  ASSUME NEW fs, FramesKept(fs, succ, blocks), NEW f \in FrameType,
         ~Joining(f), ~Branching(f), f.held \in {Constant} \cup Blocks
  PROVE  /\ FramesKept(Append(fs, f), succ, blocks)
         /\ Reserve(Append(fs, f)) = Reserve(fs)
<1>1. Reserved(f) = {} /\ FrameKept(f, succ, blocks)
  BY DEF Reserved, FrameKept, Blocks
<1>2. fs \in Seq(FrameType)
  BY DEF FramesKept
<1>3. Reserve(Append(fs, f)) = Reserve(fs) \cup {}
  BY <1>1, <1>2, ReserveMore
<1>4. Reserved(f) \cap Reserve(fs) = {}
  BY <1>1
<1>5. FramesKept(Append(fs, f), succ, blocks)
  BY <1>1, <1>2, <1>4, FramesMore
<1> QED  BY <1>3, <1>5

\* The call that begins, and the scope it gets if it has one.
LEMMA CallBegins ==
  ASSUME \/ \E k \in {"prefix", "infix", "logic", "if"} : Begin(k)
         \/ \E s \in {"begun", "value"} : BeginWith(s)
  PROVE  \E f \in FrameType :
         /\ frames' = Append(frames, f) /\ ~Joining(f) /\ ~Branching(f) /\ f.held = Constant
         /\ IF Scoped(f) THEN PushLocal ELSE local' = local
<1>1. ASSUME NEW k \in {"prefix", "infix", "logic", "if"}, Begin(k)
      PROVE  \E f \in FrameType :
                /\ frames' = Append(frames, f) /\ ~Joining(f) /\ ~Branching(f) /\ f.held = Constant
                /\ IF Scoped(f) THEN PushLocal ELSE local' = local
  <2>1. Begun(k) \in FrameType /\ Begun(k).held = Constant
    BY DEF Begun, Frame, FrameType, Constant
  <2>2. ~Joining(Begun(k)) /\ ~Branching(Begun(k)) /\ ~Scoped(Begun(k))
    BY DEF Begun, Frame, Joining, Branching, Scoped
  <2> QED  BY <1>1, <2>1, <2>2 DEF Begin
<1>2. ASSUME NEW s \in {"begun", "value"}, BeginWith(s)
      PROVE  \E f \in FrameType :
                /\ frames' = Append(frames, f) /\ ~Joining(f) /\ ~Branching(f) /\ f.held = Constant
                /\ IF Scoped(f) THEN PushLocal ELSE local' = local
  <2> DEFINE w == Frame("with", s, Constant, 0, 0, 0)
  <2>1. w \in FrameType /\ w.held = Constant
    BY DEF Frame, FrameType, Constant
  <2>2. ~Joining(w) /\ ~Branching(w) /\ Scoped(w)
    BY DEF Frame, Joining, Branching, Scoped
  <2> QED  BY <1>2, <2>1, <2>2 DEF BeginWith
<1> QED  BY <1>1, <1>2

\* A subexpression is to be built.
LEMMA BeginStep ==
  ASSUME BlocksInv, \/ \E k \in {"prefix", "infix", "logic", "if"} : Begin(k)
                    \/ \E s \in {"begun", "value"} : BeginWith(s)
  PROVE  BlocksInv'
<1>1. /\ FramesKept(frames, succ, blocks) /\ frames \in Seq(FrameType)
      /\ Len(local) = Depth(frames) /\ local \in Seq(Scopes)
  BY DEF BlocksInv, Graph, FramesKept, Data
<1>2. /\ UNCHANGED <<blocks, succ, phis, uses, at, current_block, value, roots>>
      /\ roots > 0
  BY DEF Begin, BeginWith, CanNest, CanCall
<1>3. PICK f \in FrameType :
         /\ frames' = Append(frames, f) /\ ~Joining(f) /\ ~Branching(f) /\ f.held = Constant
         /\ IF Scoped(f) THEN PushLocal ELSE local' = local
  BY CallBegins
<1>4. FramesKept(frames', succ, blocks) /\ Reserve(frames') = Reserve(frames)
  BY <1>1, <1>3, CallOnTop
<1>5. Graph(succ, blocks, at, frames, phis)' /\ (current_block = at)'
  BY <1>2, <1>4, SameGraph
<1>6. local' \in Seq(Scopes) /\ Len(local') = Depth(frames')
  <2>1. /\ Depth(frames) \in Nat
        /\ Depth(frames') = Depth(frames) + (IF Scoped(f) THEN 1 ELSE 0)
    BY <1>1, <1>3, DepthMore
  <2>2. NewScope \in Scopes
    BY DEF NewScope, Scopes
  <2>3. Append(local, NewScope) \in Seq(Scopes) /\ Len(Append(local, NewScope)) = Len(local) + 1
    BY <1>1, <2>2, AppendProperties
  <2>4. CASE Scoped(f)
    <3>1. local' = Append(local, NewScope) /\ Depth(frames') = Depth(frames) + 1
      BY <1>3, <2>1, <2>4 DEF PushLocal
    <3> QED  BY <1>1, <2>3, <3>1
  <2>5. CASE ~Scoped(f)
    <3>1. local' = local /\ Depth(frames') = Depth(frames) + 0
      BY <1>3, <2>1, <2>5
    <3> QED  BY <1>1, <2>1, <3>1
  <2> QED  BY <2>4, <2>5
<1>7. Data'
  BY <1>2, <1>6 DEF BlocksInv, Data, Blocks, Scopes
<1> QED  BY <1>5, <1>7 DEF BlocksInv

\* The left operand of an infix operator, or the value of an assignment, has been
\* built, and the call goes on.
LEMMA GoOnStep ==
  ASSUME BlocksInv, InfixLeft \/ \E n \in Locals, s \in {"begun", "value"} : WithAssign(n, s)
  PROVE  BlocksInv'
<1> DEFINE os == Rest(frames)
<1>1. /\ UNCHANGED <<blocks, succ, phis, uses, at, current_block, roots>>
      /\ frames # <<>> /\ value \in {Constant} \cup Blocks /\ value' = Pending /\ roots > 0
  BY DEF InfixLeft, WithAssign, Returned, BlocksInv, Data
<1>2. /\ Top \in FrameType /\ os \in Seq(FrameType) /\ FramesKept(os, succ, blocks)
      /\ Reserve(frames) = Reserve(os) \cup Reserved(Top) /\ FrameKept(Top, succ, blocks)
      /\ Depth(os) \in Nat
      /\ Len(local) = Depth(os) + (IF Scoped(Top) THEN 1 ELSE 0)
      /\ \A f \in FrameType : Replace(f) <=> frames' = Append(os, f)
  BY <1>1, TopIs
<1>3. blocks \in Nat /\ local \in Seq(Scopes) /\ Len(local) \in Nat
  BY LenProperties DEF BlocksInv, Graph, GraphType, Data
<1> HIDE DEF os
<1>4. PICK f \in FrameType :
         /\ frames' = Append(os, f) /\ ~Joining(f) /\ ~Branching(f)
         /\ f.held \in {Constant} \cup Blocks
         /\ Reserved(Top) = {} /\ (Scoped(f) <=> Scoped(Top))
         /\ local' \in Seq(Scopes) /\ Len(local') = Len(local)
  <2>1. CASE InfixLeft
    <3> DEFINE f == [Top EXCEPT !.stage = "right", !.held = value]
    <3>1. Top.kind = "infix" /\ Replace(f) /\ local' = local
      BY <2>1 DEF InfixLeft, Returned
    <3>2. value \in Nat
      BY <1>1, <1>3 DEF Constant, Blocks
    <3>3. f \in FrameType /\ f.held = value /\ f.kind = "infix"
      BY <1>2, <3>1, <3>2 DEF FrameType
    <3> HIDE DEF f
    <3>4. /\ ~Joining(f) /\ ~Branching(f) /\ ~Scoped(f)
          /\ Reserved(Top) = {} /\ ~Scoped(Top)
      BY <3>1, <3>3 DEF Joining, Branching, Scoped, Reserved
    <3> QED  BY <1>1, <1>2, <1>3, <3>1, <3>3, <3>4
  <2>2. ASSUME NEW n \in Locals, NEW s \in {"begun", "value"}, WithAssign(n, s)
        PROVE  \E f \in FrameType :
                  /\ frames' = Append(os, f) /\ ~Joining(f) /\ ~Branching(f)
                  /\ f.held \in {Constant} \cup Blocks
                  /\ Reserved(Top) = {} /\ (Scoped(f) <=> Scoped(Top))
                  /\ local' \in Seq(Scopes) /\ Len(local') = Len(local)
    <3> DEFINE f == [Top EXCEPT !.stage = s]
               l == Len(local)
               e == [local[l] EXCEPT ![n] = value]
    <3>1. Top.kind = "with" /\ Replace(f)
      BY <2>2 DEF WithAssign, Returned
    <3>2. f \in FrameType /\ f.held = Top.held /\ f.kind = "with"
      BY <1>2, <3>1 DEF FrameType
    <3> HIDE DEF f
    <3>3. /\ ~Joining(f) /\ ~Branching(f) /\ Scoped(f)
          /\ Reserved(Top) = {} /\ Scoped(Top)
      BY <3>1, <3>2 DEF Joining, Branching, Scoped, Reserved
    <3>4. Top.held \in {Constant} \cup Blocks
      BY <1>2 DEF FrameKept, Blocks
    <3>5. l \in 1 .. Len(local)
      BY <1>2, <1>3, <3>3
    <3>6. local[l] \in Scopes
      BY <1>3, <3>5, ElementOfSeq
    <3>7. e \in Scopes
      BY <1>1, <3>6 DEF Scopes
    <3>8. local' = [local EXCEPT ![l] = e]
      BY <2>2 DEF WithAssign
    <3> HIDE DEF e, l
    <3>9. local' \in Seq(Scopes) /\ Len(local') = Len(local)
      BY <1>3, <3>5, <3>7, <3>8, ExceptSeq
    <3> QED  BY <1>2, <3>1, <3>2, <3>3, <3>4, <3>9
  <2> QED  BY <2>1, <2>2
<1>5. FramesKept(frames', succ, blocks) /\ Reserve(frames') = Reserve(frames)
  <2>1. FramesKept(Append(os, f), succ, blocks) /\ Reserve(Append(os, f)) = Reserve(os)
    BY <1>2, <1>4, CallOnTop
  <2>2. Reserve(frames) = Reserve(os) \cup {}
    BY <1>2, <1>4
  <2> QED  BY <1>4, <2>1, <2>2
<1>6. Graph(succ, blocks, at, frames, phis)' /\ (current_block = at)'
  BY <1>1, <1>5, SameGraph
<1>7. Depth(frames') = Depth(os) + (IF Scoped(f) THEN 1 ELSE 0)
  BY <1>2, <1>4, DepthMore
<1>8. Len(local') = Depth(frames')
  <2>1. (IF Scoped(f) THEN 1 ELSE 0) = (IF Scoped(Top) THEN 1 ELSE 0)
    BY <1>4
  <2> QED  BY <1>2, <1>4, <1>7, <2>1
<1>9. Data'
  BY <1>1, <1>4, <1>8 DEF BlocksInv, Data, Blocks, Scopes
<1> QED  BY <1>6, <1>9 DEF BlocksInv

-----------------------------------------------------------------------------
(* What the steps do to the local variables and to the data.               *)

\* A scope more, and a scope less.
LEMMA ScopesPushed ==
  ASSUME local \in Seq(Scopes), PushLocal
  PROVE  local' \in Seq(Scopes) /\ Len(local') = Len(local) + 1
<1>1. NewScope \in Scopes
  BY DEF NewScope, Scopes
<1> QED  BY <1>1, AppendProperties DEF PushLocal

LEMMA ScopesPopped ==
  ASSUME local \in Seq(Scopes), Len(local) # 0, PopLocal
  PROVE  local' \in Seq(Scopes) /\ Len(local') = Len(local) - 1
<1>1. NewScope \in Scopes /\ local # <<>>
  BY EmptySeq DEF NewScope, Scopes
<1>2. local' = Rest(local)
  BY DEF PopLocal, Rest
<1> QED  BY <1>1, <1>2, RestIs

\* The values used are those of blocks there are, and so are those that are bound.
LEMMA DataStep ==
  ASSUME BlocksInv, NEW m \in Nat, blocks' = blocks + m, roots' = roots, roots > 0,
         uses' \subseteq Blocks \X Blocks,
         local' \in Seq(Scopes), Len(local') = Depth(frames'),
         value' \in {Pending, Constant} \cup (1 .. blocks')
  PROVE  Data'
<1>1. blocks \in Nat
  BY DEF BlocksInv, Graph, GraphType
<1>2. Blocks \subseteq Blocks'
  BY <1>1 DEF Blocks
<1>3. uses' \subseteq (Blocks \X Blocks)'
  BY <1>2
<1>4. Scopes \subseteq Scopes'
  BY <1>2 DEF Scopes
<1>5. local' \in Seq(Scopes')
  BY <1>4, SeqMonotonic
<1>6. value' \in ({Pending, Constant} \cup Blocks)'
  BY DEF Blocks
<1>7. roots' \in 0 .. MaxRoots /\ roots' > 0
  BY DEF BlocksInv, Data
<1> QED  BY <1>3, <1>5, <1>6, <1>7 DEF Data

\* What there is to use when a call goes on: the value that was returned, and the
\* one it holds.
LEMMA UseIs ==
  ASSUME BlocksInv, NEW vs \in SUBSET ({Constant} \cup Blocks), Use(vs)
  PROVE  uses' \subseteq Blocks \X Blocks
<1>1. at \in Blocks /\ uses \subseteq Blocks \X Blocks
  BY DEF BlocksInv, Graph, Open, Data, Blocks
<1>2. \A v \in vs \ {Constant} : <<v, at>> \in Blocks \X Blocks
  BY <1>1
<1> QED  BY <1>1, <1>2 DEF Use

\* A sign, an infix operator or a `with' returns.
LEMMA ReturnStep ==
  ASSUME BlocksInv, PrefixOperand \/ InfixRight \/ WithValue
  PROVE  BlocksInv'
<1> DEFINE os == Rest(frames)
<1>1. /\ UNCHANGED <<blocks, succ, phis, at, current_block, roots>>
      /\ frames # <<>> /\ value \in {Constant} \cup Blocks /\ roots > 0 /\ frames' = os
  BY DEF PrefixOperand, InfixRight, WithValue, Returned, BlocksInv, Data, Leave, Rest
<1>2. /\ Top \in FrameType /\ os \in Seq(FrameType) /\ FramesKept(os, succ, blocks)
      /\ Reserve(frames) = Reserve(os) \cup Reserved(Top) /\ FrameKept(Top, succ, blocks)
      /\ Depth(os) \in Nat
      /\ Len(local) = Depth(os) + (IF Scoped(Top) THEN 1 ELSE 0)
  BY <1>1, TopIs
<1>3. /\ blocks \in Nat /\ local \in Seq(Scopes) /\ at \in Blocks
      /\ uses \subseteq Blocks \X Blocks
  BY DEF BlocksInv, Graph, GraphType, Data, Open, Blocks
<1>4. Top.held \in {Constant} \cup Blocks
  BY <1>2 DEF FrameKept, Blocks
<1> HIDE DEF os
<1>5. /\ Reserved(Top) = {} /\ uses' \subseteq Blocks \X Blocks
      /\ value' \in {Constant} \cup Blocks
      /\ local' \in Seq(Scopes) /\ Len(local') = Depth(os)
  <2>1. CASE PrefixOperand
    <3>1. Top.kind = "prefix" /\ local' = local /\ value' = at /\ Use({value})
      BY <2>1 DEF PrefixOperand, Returned
    <3>2. Reserved(Top) = {} /\ ~Scoped(Top)
      BY <3>1 DEF Joining, Branching, Scoped, Reserved
    <3>3. uses' \subseteq Blocks \X Blocks
      BY <1>1, <3>1, UseIs
    <3>4. Len(local) = Depth(os)
      BY <1>2, <3>2
    <3> QED  BY <1>3, <3>1, <3>2, <3>3, <3>4
  <2>2. CASE InfixRight
    <3>1. Top.kind = "infix" /\ local' = local /\ value' = at /\ Use({Top.held, value})
      BY <2>2 DEF InfixRight, Returned
    <3>2. Reserved(Top) = {} /\ ~Scoped(Top)
      BY <3>1 DEF Joining, Branching, Scoped, Reserved
    <3>3. uses' \subseteq Blocks \X Blocks
      BY <1>1, <1>4, <3>1, UseIs
    <3>4. Len(local) = Depth(os)
      BY <1>2, <3>2
    <3> QED  BY <1>3, <3>1, <3>2, <3>3, <3>4
  <2>3. CASE WithValue
    <3>1. Top.kind = "with" /\ PopLocal /\ value' = value /\ uses' = uses
      BY <2>3 DEF WithValue, Returned
    <3>2. Reserved(Top) = {} /\ Scoped(Top)
      BY <3>1 DEF Joining, Branching, Scoped, Reserved
    <3>3. Len(local) = Depth(os) + 1
      BY <1>2, <3>2
    <3>4. local' \in Seq(Scopes) /\ Len(local') = Len(local) - 1
      BY <1>2, <1>3, <3>1, <3>3, ScopesPopped
    <3>5. Len(local') = Depth(os)
      BY <1>2, <3>3, <3>4
    <3> QED  BY <1>1, <1>3, <3>1, <3>2, <3>4, <3>5
  <2> QED  BY <2>1, <2>2, <2>3, <1>1 DEF Returned
<1>6. Reserve(frames) = Reserve(os) \cup {}
  BY <1>2, <1>5
<1>7. Graph(succ, blocks, at, frames, phis)' /\ (current_block = at)'
  BY <1>1, <1>2, <1>6, SameGraph
<1>8. blocks' = blocks + 0 /\ Blocks = 1 .. blocks'
  BY <1>1, <1>3 DEF Blocks
<1>9. Data'
  BY <1>1, <1>5, <1>8, DataStep
<1> QED  BY <1>7, <1>9 DEF BlocksInv

-----------------------------------------------------------------------------
(* The steps that close the builder's block.                               *)

\* The blocks the call on top disposes of when it has m more appended.
Disposed(m) == Reserved(Top) \cup (blocks + 1 .. blocks + m)

\* A branch to some of them disturbs neither the calls below nor the phis there are.
LEMMA EditUnderCalls ==
  ASSUME BlocksInv, frames # <<>>, NEW m \in Nat, NEW s \in SUBSET Disposed(m), s # {}
  PROVE  LET T == Edited(succ, blocks, m, at, s)
             os == Rest(frames)
         IN  /\ GraphType(succ, blocks) /\ at \in 1 .. blocks /\ s \subseteq 1 .. blocks + m
             /\ FramesKept(os, T, blocks + m)
             /\ \A p \in phis : PhiKept(p, T, blocks + m) /\ p.block \notin Reserve(os) \cup Disposed(m)
             /\ Reserve(os) \subseteq 1 .. blocks /\ Reserved(Top) \subseteq 1 .. blocks
             /\ Reserve(os) \cap Disposed(m) = {}
             /\ at \notin Reserve(os) \cup Reserved(Top)
             /\ \A b \in 1 .. blocks : succ[b] = {} <=> (b = at \/ b \in Reserve(os) \cup Reserved(Top))
<1> DEFINE os == Rest(frames)
           T == Edited(succ, blocks, m, at, s)
           R == Reserve(os)
<1>1. /\ GraphType(succ, blocks) /\ Open(frames, succ, blocks, at)
      /\ PhisKept(phis, frames, succ, blocks)
  BY DEF BlocksInv, Graph
<1>2. /\ FramesKept(os, succ, blocks) /\ FrameKept(Top, succ, blocks)
      /\ Reserve(frames) = R \cup Reserved(Top) /\ R \cap Reserved(Top) = {}
  BY TopIs
<1>3. blocks \in Nat \ {0} /\ at \in 1 .. blocks
  BY <1>1 DEF GraphType, Open
<1>4. R \subseteq 1 .. blocks
  BY <1>2 DEF Reserve, FramesKept, FrameKept
<1>5. Reserved(Top) \subseteq 1 .. blocks
  BY <1>2 DEF FrameKept
<1> HIDE DEF os, R
<1>6. /\ 1 .. blocks \subseteq 1 .. blocks + m
      /\ blocks + 1 .. blocks + m \subseteq 1 .. blocks + m
      /\ (1 .. blocks) \cap (blocks + 1 .. blocks + m) = {}
  BY <1>3
<1>7. s \subseteq 1 .. blocks + m /\ R \cap Disposed(m) = {} /\ s \cap R = {}
  BY <1>2, <1>4, <1>5, <1>6 DEF Disposed
<1>8. FramesKept(os, T, blocks + m)
  BY <1>1, <1>2, <1>3, <1>7, EditKeepsFrames DEF R
<1>9. ASSUME NEW p \in phis
      PROVE  PhiKept(p, T, blocks + m) /\ p.block \notin R \cup Disposed(m)
  <2>1. PhiKept(p, succ, blocks) /\ p.block \notin R \cup Reserved(Top) /\ p.block \in 1 .. blocks
    BY <1>1, <1>2 DEF PhisKept, PhiKept
  <2>2. p.block \notin R \cup Disposed(m)
    BY <1>6, <2>1 DEF Disposed
  <2>3. p.block \notin s
    BY <2>2
  <2> QED  BY <1>1, <1>3, <1>7, <2>1, <2>2, <2>3, EditKeepsPhi
<1>10. /\ at \notin R \cup Reserved(Top)
       /\ \A b \in 1 .. blocks : succ[b] = {} <=> (b = at \/ b \in R \cup Reserved(Top))
  BY <1>1, <1>2 DEF Open
<1> QED  BY <1>1, <1>2, <1>3, <1>4, <1>5, <1>7, <1>8, <1>9, <1>10 DEF os, R

\* The call goes on in another block, and has set aside the others it disposes of.
LEMMA MovesOn ==
  ASSUME BlocksInv, frames # <<>>, NEW m \in Nat, NEW s \in SUBSET Disposed(m), s # {},
         NEW f \in FrameType, frames' = Append(Rest(frames), f),
         blocks' = blocks + m, succ' = Edited(succ, blocks, m, at, s), phis' = phis,
         FrameKept(f, succ', blocks'), current_block' = at',
         at' \notin Reserved(f), {at'} \cup Reserved(f) = Disposed(m)
  PROVE  Graph(succ, blocks, at, frames, phis)' /\ (current_block = at)'
<1> DEFINE os == Rest(frames)
           T == Edited(succ, blocks, m, at, s)
           n == blocks + m
           a2 == at'
           fs == frames'
<1>1. /\ GraphType(succ, blocks) /\ at \in 1 .. blocks /\ s \in SUBSET (1 .. n)
      /\ FramesKept(os, T, n)
      /\ \A p \in phis : PhiKept(p, T, n) /\ p.block \notin Reserve(os) \cup Disposed(m)
      /\ Reserve(os) \subseteq 1 .. blocks /\ Reserved(Top) \subseteq 1 .. blocks
      /\ Reserve(os) \cap Disposed(m) = {}
      /\ at \notin Reserve(os) \cup Reserved(Top)
      /\ \A b \in 1 .. blocks : succ[b] = {} <=> (b = at \/ b \in Reserve(os) \cup Reserved(Top))
  BY EditUnderCalls
<1>2. os \in Seq(FrameType) /\ Reserve(os) \cap Reserved(Top) = {}
  BY TopIs
<1> HIDE DEF os, T, n, a2, fs
<1>3. fs = Append(os, f) /\ FrameKept(f, T, n)
  BY DEF os, T, n, fs
<1>4. Reserve(fs) = Reserve(os) \cup Reserved(f)
  BY <1>2, <1>3, ReserveMore
<1>5. Reserved(f) \subseteq Disposed(m) /\ a2 \notin Reserved(f)
  BY DEF a2
<1>6. FramesKept(fs, T, n)
  <2>1. Reserved(f) \cap Reserve(os) = {}
    BY <1>1, <1>5
  <2> QED  BY <1>1, <1>2, <1>3, <2>1, FramesMore
<1>7. {a2} \cup Reserved(f) = Reserved(Top) \cup (blocks + 1 .. blocks + m)
  BY DEF a2, Disposed
<1>8. \A p \in phis : PhiKept(p, T, n) /\ p.block \notin Reserve(os) \cup Reserved(f)
  BY <1>1, <1>5
<1>9. Graph(T, n, a2, fs, phis)
  BY <1>1, <1>2, <1>4, <1>5, <1>6, <1>7, <1>8, GraphStep DEF T, n
<1> QED  BY <1>9 DEF T, n, a2, fs

\* The call returns from the block where its two branches meet, in a phi.
LEMMA Joins ==
  ASSUME BlocksInv, frames # <<>>, Joining(Top),
         BranchTo(Top.post), MoveTo(Top.post), Leave,
         NEW vs \in Seq(Nat), Phi(Top.post, vs, <<Top.from, current_block>>)
  PROVE  /\ Graph(succ, blocks, at, frames, phis)' /\ (current_block = at)'
         /\ blocks' = blocks /\ frames' = Rest(frames) /\ Top.post \in 1 .. blocks
<1> DEFINE os == Rest(frames)
           s == {Top.post}
           T == Edited(succ, blocks, 0, at, s)
           b2 == Top.post
<1>1. /\ Top \in FrameType /\ FrameKept(Top, succ, blocks)
      /\ Reserve(os) \cap Reserved(Top) = {}
  BY TopIs
<1>2. Reserved(Top) = s /\ Into(succ, b2) = {Top.from} /\ b2 \in 1 .. blocks
  BY <1>1 DEF Reserved, FrameKept
<1>3. blocks \in Nat \ {0} /\ DOMAIN succ = 1 .. blocks /\ current_block = at /\ at \in 1 .. blocks
  BY DEF BlocksInv, Graph, GraphType, Open
<1>4. Disposed(0) = s /\ blocks + 0 = blocks
  BY <1>2, <1>3 DEF Disposed
<1>5. /\ GraphType(succ, blocks) /\ s \in SUBSET (1 .. blocks + 0)
      /\ FramesKept(os, T, blocks + 0)
      /\ \A p \in phis : PhiKept(p, T, blocks + 0) /\ p.block \notin Reserve(os) \cup Disposed(0)
      /\ Reserve(os) \subseteq 1 .. blocks
      /\ at \notin Reserve(os) \cup Reserved(Top)
      /\ \A b \in 1 .. blocks : succ[b] = {} <=> (b = at \/ b \in Reserve(os) \cup Reserved(Top))
  BY <1>4, EditUnderCalls
<1>6. succ' = T /\ blocks' = blocks + 0 /\ at' = b2 /\ current_block' = b2 /\ frames' = os
  <2>1. succ' = [succ EXCEPT ![at] = @ \cup s] /\ blocks' = blocks
    BY DEF BranchTo
  <2>2. succ' = T
    BY <1>3, <1>4, <2>1 DEF Edited, GraphType
  <2> QED  BY <1>4, <2>1, <2>2 DEF MoveTo, Leave, Rest
<1>7. Into(T, b2) = {Top.from, at}
  <2>1. \A b \in s : Into(T, b) = Into(succ, b) \cup {at}
    <3>1. s # {} /\ 0 \in Nat
      OBVIOUS
    <3> HIDE DEF s, b2
    <3> QED  BY <1>3, <1>5, <3>1, EditedIs
  <2>2. b2 \in s
    OBVIOUS
  <2> HIDE DEF T, s, b2
  <2> QED  BY <1>2, <2>1, <2>2
<1>8. Top.from \in 1 .. blocks /\ Top.from # at
  <2>1. Top.from \in DOMAIN succ /\ b2 \in succ[Top.from]
    BY <1>2 DEF Into
  <2>2. succ[at] = {}
    BY <1>3, <1>5
  <2> QED  BY <1>3, <2>1, <2>2
<1> DEFINE q == [block |-> b2, values |-> vs, incoming |-> <<Top.from, at>>]
<1>9. PhiKept(q, T, blocks + 0)
  <2>1. <<Top.from, at>> \in Seq(1 .. blocks + 0)
    BY <1>3, <1>4, <1>8
  <2>2. ToSet(<<Top.from, at>>) = {Top.from, at}
    BY DEF ToSet
  <2> HIDE DEF T
  <2> QED  BY <1>2, <1>4, <1>7, <1>8, <2>1, <2>2 DEF PhiKept
<1>10. b2 \notin Reserve(os)
  BY <1>1, <1>2
<1>11. phis' = phis \cup {q}
  BY <1>3 DEF Phi
<1>12. \A p \in phis' : PhiKept(p, T, blocks + 0) /\ p.block \notin Reserve(os) \cup {}
  <2>1. \A p \in phis : PhiKept(p, T, blocks + 0) /\ p.block \notin Reserve(os)
    BY <1>5
  <2>2. q.block = b2
    OBVIOUS
  <2> HIDE DEF T, q, os, b2
  <2> QED  BY <1>9, <1>10, <1>11, <2>1, <2>2
<1>13. {b2} \cup {} = Reserved(Top) \cup (blocks + 1 .. blocks + 0)
  BY <1>2, <1>3
<1> HIDE DEF T, os, s, b2, q
<1>14. s # {} /\ Reserve(os) = Reserve(os) \cup {} /\ b2 \notin {} /\ 0 \in Nat
  BY DEF s
<1>15. Reserved(Top) \subseteq 1 .. blocks
  BY <1>1 DEF FrameKept
<1>16. Graph(T, blocks + 0, b2, os, phis')
  BY <1>1, <1>3, <1>5, <1>12, <1>13, <1>14, <1>15, GraphStep DEF T
<1> QED  BY <1>2, <1>4, <1>6, <1>16 DEF os, b2

\* What closing the builder's block does to the graph, as the code writes it.
LEMMA AppendIs ==
  ASSUME NEW m \in Nat, NEW s, AppendBlocks(m, s)
  PROVE  blocks' = blocks + m /\ succ' = Edited(succ, blocks, m, at, s)
BY DEF AppendBlocks, Edited, Blocks

LEMMA BranchIs ==
  ASSUME BlocksInv, NEW b, BranchTo(b)
  PROVE  blocks' = blocks + 0 /\ succ' = Edited(succ, blocks, 0, at, {b})
<1>1. blocks \in Nat \ {0} /\ succ \in [1 .. blocks -> SUBSET (1 .. blocks)] /\ at \in 1 .. blocks
  BY DEF BlocksInv, Graph, GraphType, Open
<1>2. blocks + 0 = blocks
  BY <1>1
<1> QED  BY <1>1, <1>2 DEF BranchTo, Edited

\* The left operand of `and' or `or' has been built: the right one gets a block.
LEMMA LogicLeftStep ==
  ASSUME BlocksInv, LogicLeft
  PROVE  BlocksInv'
<1> DEFINE os == Rest(frames)
           n == blocks
           f == Frame("logic", "right", value, current_block, 0, n + 2)
           s == {n + 1, n + 2}
<1>1. /\ frames # <<>> /\ value \in {Constant} \cup Blocks /\ roots > 0
      /\ Top.kind = "logic" /\ Top.stage = "begun" /\ AppendBlocks(2, s) /\ Use({value})
      /\ Replace(f) /\ MoveTo(n + 1) /\ PushLocal /\ value' = Pending
      /\ UNCHANGED <<phis, roots>>
  BY DEF LogicLeft, Returned, BlocksInv, Data
<1>2. /\ n \in Nat \ {0} /\ GraphType(succ, n) /\ at \in 1 .. n /\ current_block = at
      /\ local \in Seq(Scopes)
  BY DEF BlocksInv, Graph, GraphType, Open, Data
<1>3. Reserved(Top) = {} /\ ~Scoped(Top)
  BY <1>1 DEF Joining, Branching, Scoped, Reserved
<1>4. /\ os \in Seq(FrameType) /\ Depth(os) \in Nat /\ Len(local) = Depth(os)
      /\ \A g \in FrameType : Replace(g) <=> frames' = Append(os, g)
  BY <1>1, <1>3, TopIs
<1>5. /\ f \in FrameType /\ Joining(f) /\ ~Branching(f) /\ Scoped(f) /\ f.post = n + 2
      /\ f.from = at /\ f.held = value /\ Reserved(f) = {n + 2}
  BY <1>1, <1>2 DEF Frame, FrameType, Joining, Branching, Scoped, Reserved, Constant, Blocks
<1>6. Disposed(2) = s /\ s \subseteq 1 .. n + 2 /\ n + 2 \notin 1 .. n /\ n + 1 # n + 2
  BY <1>2, <1>3 DEF Disposed
<1>7. blocks' = n + 2 /\ succ' = Edited(succ, n, 2, at, s)
  BY <1>1, AppendIs
<1>8. frames' = Append(os, f)
  BY <1>1, <1>4, <1>5
<1>9. at' = n + 1 /\ current_block' = at'
  BY <1>1 DEF MoveTo
<1>10. value \in {Constant} \cup 1 .. n + 2
  BY <1>1, <1>2 DEF Blocks
<1>11. uses' \subseteq Blocks \X Blocks
  BY <1>1, UseIs
<1> HIDE DEF f, os
<1>12. Into(succ', n + 2) = {at}
  <2>1. /\ \A b \in s : Into(Edited(succ, n, 2, at, s), b) = Into(succ, b) \cup {at}
        /\ \A b : b \notin 1 .. n => Into(succ, b) = {}
    <3> DEFINE m == 2
    <3>1. s \in SUBSET (1 .. n + m) /\ s # {} /\ m \in Nat
      BY <1>6
    <3> HIDE DEF m, s, n
    <3>2. \A b \in s : Into(Edited(succ, n, m, at, s), b) = Into(succ, b) \cup {at}
      BY <1>2, <3>1, EditedIs
    <3>3. \A b : b \notin 1 .. n => Into(succ, b) = {}
      BY <1>2, <3>1, EditedIs
    <3> QED  BY <3>2, <3>3 DEF m
  <2>2. n + 2 \in s
    OBVIOUS
  <2> HIDE DEF s
  <2> QED  BY <1>6, <1>7, <2>1, <2>2
<1>13. FrameKept(f, succ', blocks')
  BY <1>5, <1>6, <1>7, <1>10, <1>12 DEF FrameKept
<1>14. at' \notin Reserved(f) /\ {at'} \cup Reserved(f) = Disposed(2)
  BY <1>5, <1>6, <1>9
<1>15. Graph(succ, blocks, at, frames, phis)' /\ (current_block = at)'
  BY <1>1, <1>5, <1>6, <1>7, <1>8, <1>9, <1>13, <1>14, MovesOn DEF os
<1>16. local' \in Seq(Scopes) /\ Len(local') = Len(local) + 1
  BY <1>1, <1>2, ScopesPushed
<1>17. Depth(frames') = Depth(os) + 1
  BY <1>4, <1>5, <1>8, DepthMore
<1>18. Data'
  BY <1>1, <1>4, <1>7, <1>11, <1>16, <1>17, DataStep
<1> QED  BY <1>15, <1>18 DEF BlocksInv

\* The condition of an `if' has been built: its branches get their blocks.
LEMMA IfConditionStep ==
  ASSUME BlocksInv, IfCondition
  PROVE  BlocksInv'
<1> DEFINE os == Rest(frames)
           n == blocks
           f == Frame("if", "then", Constant, 0, n + 2, n + 3)
           s == {n + 1, n + 2}
<1>1. /\ frames # <<>> /\ value \in {Constant} \cup Blocks /\ roots > 0
      /\ Top.kind = "if" /\ Top.stage = "begun" /\ AppendBlocks(3, s) /\ Use({value})
      /\ Replace(f) /\ MoveTo(n + 1) /\ PushLocal /\ value' = Pending
      /\ UNCHANGED <<phis, roots>>
  BY DEF IfCondition, Returned, BlocksInv, Data
<1>2. /\ n \in Nat \ {0} /\ GraphType(succ, n) /\ at \in 1 .. n /\ current_block = at
      /\ local \in Seq(Scopes)
  BY DEF BlocksInv, Graph, GraphType, Open, Data
<1>3. Reserved(Top) = {} /\ ~Scoped(Top)
  BY <1>1 DEF Joining, Branching, Scoped, Reserved
<1>4. /\ os \in Seq(FrameType) /\ Depth(os) \in Nat /\ Len(local) = Depth(os)
      /\ \A g \in FrameType : Replace(g) <=> frames' = Append(os, g)
  BY <1>1, <1>3, TopIs
<1>5. /\ f \in FrameType /\ ~Joining(f) /\ Branching(f) /\ Scoped(f)
      /\ f.post = n + 3 /\ f.elsy = n + 2 /\ f.held = Constant /\ Reserved(f) = {n + 2, n + 3}
  BY <1>2 DEF Frame, FrameType, Joining, Branching, Scoped, Reserved, Constant
<1>6. /\ Disposed(3) = {n + 1, n + 2, n + 3} /\ Disposed(3) \subseteq 1 .. n + 3
      /\ n + 3 \notin 1 .. n /\ n + 3 \notin s /\ n + 1 # n + 2 /\ n + 1 # n + 3 /\ n + 2 # n + 3
  BY <1>2, <1>3 DEF Disposed
<1>7. blocks' = n + 3 /\ succ' = Edited(succ, n, 3, at, s)
  BY <1>1, AppendIs
<1>8. frames' = Append(os, f)
  BY <1>1, <1>4, <1>5
<1>9. at' = n + 1 /\ current_block' = at'
  BY <1>1 DEF MoveTo
<1>11. uses' \subseteq Blocks \X Blocks
  BY <1>1, UseIs
<1> HIDE DEF f, os
<1>12. Into(succ', n + 3) = {}
  <2>1. /\ \A b : b \notin s => Into(Edited(succ, n, 3, at, s), b) = Into(succ, b)
        /\ \A b : b \notin 1 .. n => Into(succ, b) = {}
    <3> DEFINE m == 3
    <3>1. s \in SUBSET (1 .. n + m) /\ s # {} /\ m \in Nat
      BY <1>2
    <3> HIDE DEF m, s, n
    <3>2. \A b : b \notin s => Into(Edited(succ, n, m, at, s), b) = Into(succ, b)
      BY <1>2, <3>1, EditedIs
    <3>3. \A b : b \notin 1 .. n => Into(succ, b) = {}
      BY <1>2, <3>1, EditedIs
    <3> QED  BY <3>2, <3>3 DEF m
  <2> QED  BY <1>6, <1>7, <2>1
<1>13. FrameKept(f, succ', blocks')
  BY <1>5, <1>6, <1>7, <1>12 DEF FrameKept
<1>14. at' \notin Reserved(f) /\ {at'} \cup Reserved(f) = Disposed(3)
  BY <1>5, <1>6, <1>9
<1>15. Graph(succ, blocks, at, frames, phis)' /\ (current_block = at)'
  BY <1>1, <1>5, <1>6, <1>7, <1>8, <1>9, <1>13, <1>14, MovesOn DEF os
<1>16. local' \in Seq(Scopes) /\ Len(local') = Len(local) + 1
  BY <1>1, <1>2, ScopesPushed
<1>17. Depth(frames') = Depth(os) + 1
  BY <1>4, <1>5, <1>8, DepthMore
<1>18. Data'
  BY <1>1, <1>4, <1>7, <1>11, <1>16, <1>17, DataStep
<1> QED  BY <1>15, <1>18 DEF BlocksInv

\* The then branch has been built: it leads on, and the else branch is next.
LEMMA IfThenStep ==
  ASSUME BlocksInv, IfThen
  PROVE  BlocksInv'
<1> DEFINE os == Rest(frames)
           n == blocks
           f == [Top EXCEPT !.stage = "else", !.held = value, !.from = current_block]
           s == {Top.post}
           l == Len(local)
<1>1. /\ frames # <<>> /\ value \in {Constant} \cup Blocks /\ roots > 0
      /\ Top.kind = "if" /\ Top.stage = "then" /\ BranchTo(Top.post) /\ uses' = uses
      /\ Replace(f) /\ MoveTo(Top.elsy) /\ local' = [local EXCEPT ![l] = NewScope]
      /\ value' = Pending /\ UNCHANGED <<phis, roots>>
  BY DEF IfThen, Returned, BlocksInv, Data
<1>2. /\ n \in Nat \ {0} /\ GraphType(succ, n) /\ at \in 1 .. n /\ current_block = at
      /\ local \in Seq(Scopes) /\ uses \subseteq Blocks \X Blocks
  BY DEF BlocksInv, Graph, GraphType, Open, Data
<1>3. ~Joining(Top) /\ Branching(Top) /\ Scoped(Top) /\ Reserved(Top) = {Top.elsy, Top.post}
  BY <1>1 DEF Joining, Branching, Scoped, Reserved
<1>4. /\ os \in Seq(FrameType) /\ Depth(os) \in Nat /\ Len(local) = Depth(os) + 1
      /\ Top \in FrameType /\ FrameKept(Top, succ, n)
      /\ \A g \in FrameType : Replace(g) <=> frames' = Append(os, g)
  BY <1>1, <1>3, TopIs
<1>5. /\ f \in FrameType /\ f.kind = "if" /\ f.stage = "else" /\ f.post = Top.post
      /\ f.from = at /\ f.held = value
  <2>1. value \in Nat /\ current_block \in Nat
    BY <1>1, <1>2 DEF Constant, Blocks
  <2> QED  BY <1>1, <1>2, <1>4, <2>1 DEF FrameType
<1>6. /\ Top.post \in 1 .. n /\ Top.elsy \in 1 .. n /\ Top.elsy # Top.post
      /\ Into(succ, Top.post) = {}
  BY <1>3, <1>4 DEF FrameKept
<1>7. blocks' = n + 0 /\ succ' = Edited(succ, n, 0, at, s)
  BY <1>1, BranchIs
<1>8. frames' = Append(os, f)
  BY <1>1, <1>4, <1>5
<1>9. at' = Top.elsy /\ current_block' = at'
  BY <1>1 DEF MoveTo
<1> HIDE DEF f, os
<1>10. Joining(f) /\ ~Branching(f) /\ Scoped(f) /\ Reserved(f) = {Top.post}
  BY <1>5 DEF Joining, Branching, Scoped, Reserved
<1>11. n + 0 = n /\ n + 1 .. n + 0 = {} /\ Disposed(0) = {Top.elsy, Top.post}
  BY <1>2, <1>3 DEF Disposed
<1>12. Into(succ', Top.post) = {at}
  <2>1. \A b \in s : Into(Edited(succ, n, 0, at, s), b) = Into(succ, b) \cup {at}
    <3> DEFINE m == 0
    <3>1. s \in SUBSET (1 .. n + m) /\ s # {} /\ m \in Nat
      BY <1>6, <1>11
    <3> HIDE DEF m, s, n
    <3>2. \A b \in s : Into(Edited(succ, n, m, at, s), b) = Into(succ, b) \cup {at}
      BY <1>2, <3>1, EditedIs
    <3> QED  BY <3>2 DEF m
  <2>2. Top.post \in s
    OBVIOUS
  <2> HIDE DEF s
  <2> QED  BY <1>6, <1>7, <2>1, <2>2
<1>13. FrameKept(f, succ', blocks')
  <2>1. value \in {Constant} \cup 1 .. n
    BY <1>1 DEF Blocks
  <2> QED  BY <1>5, <1>6, <1>7, <1>10, <1>11, <1>12, <2>1 DEF FrameKept
<1>14. at' \notin Reserved(f) /\ {at'} \cup Reserved(f) = Disposed(0)
  BY <1>6, <1>9, <1>10, <1>11
<1>15. Graph(succ, blocks, at, frames, phis)' /\ (current_block = at)'
  <2>1. s \in SUBSET Disposed(0) /\ s # {} /\ 0 \in Nat
    BY <1>11
  <2> HIDE DEF s
  <2> QED  BY <1>1, <1>5, <1>7, <1>8, <1>9, <1>13, <1>14, <2>1, MovesOn DEF os
<1>16. local' \in Seq(Scopes) /\ Len(local') = Len(local)
  <2>1. NewScope \in Scopes
    BY DEF NewScope, Scopes
  <2>2. l \in 1 .. Len(local)
    BY <1>4
  <2> QED  BY <1>1, <1>2, <2>1, <2>2, ExceptSeq
<1>17. Depth(frames') = Depth(os) + 1
  BY <1>4, <1>8, <1>5, <1>10, DepthMore
<1>18. Data'
  BY <1>1, <1>2, <1>4, <1>7, <1>16, <1>17, DataStep
<1> QED  BY <1>15, <1>18 DEF BlocksInv

\* The right operand, or the else branch, has been built.
LEMMA JoinStep ==
  ASSUME BlocksInv, LogicRight \/ IfElse
  PROVE  BlocksInv'
<1> DEFINE vs == <<Top.held, value>>
<1>1. /\ frames # <<>> /\ value \in {Constant} \cup Blocks /\ roots > 0 /\ Joining(Top)
      /\ BranchTo(Top.post) /\ Phi(Top.post, vs, <<Top.from, current_block>>)
      /\ MoveTo(Top.post) /\ PopLocal /\ value' = Top.post /\ Leave /\ UNCHANGED <<uses, roots>>
  BY DEF LogicRight, IfElse, Returned, BlocksInv, Data, Joining
<1>2. /\ blocks \in Nat /\ local \in Seq(Scopes) /\ uses \subseteq Blocks \X Blocks
  BY DEF BlocksInv, Graph, GraphType, Data
<1>3. Top \in FrameType /\ Depth(Rest(frames)) \in Nat /\ Len(local) = Depth(Rest(frames)) + 1
  BY <1>1, TopIs DEF Scoped
<1>4. vs \in Seq(Nat)
  <2>1. value \in Nat /\ Top.held \in Nat
    BY <1>1, <1>2, <1>3 DEF Constant, Blocks, FrameType
  <2> QED  BY <2>1
<1> HIDE DEF vs
<1>5. /\ Graph(succ, blocks, at, frames, phis)' /\ (current_block = at)'
      /\ blocks' = blocks /\ frames' = Rest(frames) /\ Top.post \in 1 .. blocks
  BY <1>1, <1>4, Joins
<1>6. local' \in Seq(Scopes) /\ Len(local') = Len(local) - 1
  BY <1>1, <1>2, <1>3, ScopesPopped
<1>7. blocks' = blocks + 0 /\ Len(local') = Depth(frames')
  BY <1>2, <1>3, <1>5, <1>6
<1>8. Data'
  BY <1>1, <1>2, <1>5, <1>6, <1>7, DataStep
<1> QED  BY <1>5, <1>8 DEF BlocksInv

-----------------------------------------------------------------------------
(* Theorems.                                                               *)

LEMMA InitBlocks ==
  ASSUME Init
  PROVE  BlocksInv
<1>1. /\ blocks = 1 /\ succ = <<{}>> /\ phis = {} /\ uses = {} /\ at = 1 /\ current_block = 1
      /\ local = <<>> /\ frames = <<>> /\ value = Pending /\ roots = MaxRoots
  BY DEF Init
<1>2. Len(frames) = 0 /\ Len(local) = 0 /\ 1 .. 0 = {} /\ 1 .. 1 = {1}
  BY <1>1
<1>3. GraphType(succ, blocks)
  BY <1>1, <1>2 DEF GraphType
<1>4. Reserve(frames) = {}
  BY <1>2 DEF Reserve
<1>5. FramesKept(frames, succ, blocks)
  BY <1>1, <1>2 DEF FramesKept
<1>6. Open(frames, succ, blocks, at) /\ PhisKept(phis, frames, succ, blocks)
  BY <1>1, <1>2, <1>4 DEF Open, PhisKept
<1>7. Depth(frames) = 0
  <2>1. ScopedIn(frames) = {}
    BY <1>2 DEF ScopedIn
  <2> QED  BY <2>1, FS_EmptySet DEF Depth
<1>8. Data
  BY <1>1, <1>2, <1>7, BoundsAssumption DEF Data
<1> QED  BY <1>1, <1>3, <1>5, <1>6, <1>8 DEF BlocksInv, Graph

LEMMA NextBlocks ==
  ASSUME BlocksInv, [Next]_vars
  PROVE  BlocksInv'
<1>1. CASE Calls
  BY <1>1, LeafStep, BeginStep DEF Calls
<1>2. CASE Returns
  BY <1>2, ReturnStep, GoOnStep, LogicLeftStep, IfConditionStep, IfThenStep, JoinStep, RootStep
     DEF Returns
<1>3. CASE UNCHANGED vars
  BY <1>3 DEF vars, BlocksInv, Data, Blocks, Scopes
<1> QED  BY <1>1, <1>2, <1>3 DEF Next

\* What every call under way has set aside, and what is open, for every program.
THEOREM BlocksAlwaysKept == Spec => []BlocksInv
<1>1. Init => BlocksInv
  BY InitBlocks
<1>2. BlocksInv /\ [Next]_vars => BlocksInv'
  BY NextBlocks
<1> QED  BY <1>1, <1>2, PTL DEF Spec

\* Every value, block and scope stays of its type, however many blocks a program takes.
THEOREM ControlFlowTyped == Spec => []TypeOK
<1>1. BlocksInv => TypeOK
  BY DEF BlocksInv, Graph, GraphType, Open, PhisKept, PhiKept, Data, TypeOK, Blocks, Scopes
<1> QED  BY <1>1, BlocksAlwaysKept, PTL

\* Whatever the program, the builder and env->current_block are always at the same
\* block, and it has no terminator: a branch never lands behind another.
THEOREM BuilderStaysInOpenBlock == Spec => []BuilderInOpenBlock
<1>1. BlocksInv => BuilderInOpenBlock
  BY DEF BlocksInv, Graph, Open, BuilderInOpenBlock
<1> QED  BY <1>1, BlocksAlwaysKept, PTL

\* Between two root S expressions env->local is always NULL, and no block but the
\* builder's is without a terminator.
THEOREM RootsAlwaysStartClean == Spec => []RootsStartClean
<1>1. BlocksInv => RootsStartClean
  <2> SUFFICES ASSUME BlocksInv, frames = <<>>
               PROVE  local = <<>> /\ \A b \in Blocks \ {at} : succ[b] # {}
    BY DEF RootsStartClean, AtRoot
  <2>1. Len(frames) = 0 /\ 1 .. 0 = {}
    OBVIOUS
  <2>2. Reserve(frames) = {} /\ ScopedIn(frames) = {}
    BY <2>1 DEF Reserve, ScopedIn
  <2>3. Depth(frames) = 0
    BY <2>2, FS_EmptySet DEF Depth
  <2>4. local = <<>>
    BY <2>3, EmptySeq DEF BlocksInv, Data
  <2>5. \A b \in Blocks \ {at} : succ[b] # {}
    BY <2>2 DEF BlocksInv, Graph, Open, Blocks
  <2> QED  BY <2>4, <2>5
<1> QED  BY <1>1, BlocksAlwaysKept, PTL

\* In the function of any program, every phi names exactly the predecessors of its
\* block, each once, whatever was built between remembering a block and using it.
THEOREM PhisAlwaysMatchPredecessors == Spec => []PhisMatchPredecessors
<1>1. BlocksInv => PhisMatchPredecessors
  <2>1. ASSUME BlocksInv PROVE \A b : Preds(b) = Into(succ, b)
    <3>1. DOMAIN succ = Blocks
      BY <2>1 DEF BlocksInv, Graph, GraphType, Blocks
    <3> QED  BY <3>1 DEF Preds, Into
  <2> QED  BY <2>1 DEF BlocksInv, Graph, PhisKept, PhiKept, PhisMatchPredecessors
<1> QED  BY <1>1, BlocksAlwaysKept, PTL
-----------------------------------------------------------------------------
(* Dominance, as a set X that what is reached without passing through d     *)
(* does not leave, and that b is not in.                                    *)

Avoids(S, n, d, X) == /\ X \subseteq 1 .. n /\ 1 \in X \cup {d}
                      /\ \A x \in X : S[x] \subseteq X \cup {d}
Dom(S, n, d, b) == d = Constant \/ \E X : Avoids(S, n, d, X) /\ b \notin X
Sees(S, n, d, B) == \A b \in B : Dom(S, n, d, b)

LEMMA DomItself ==
  ASSUME NEW n, NEW S, GraphType(S, n), NEW b
  PROVE  Dom(S, n, b, b)
<1> DEFINE X == (1 .. n) \ {b}
<1>1. 1 \in X \cup {b} /\ \A x \in X : S[x] \subseteq X \cup {b}
  BY DEF GraphType
<1>2. Avoids(S, n, b, X) /\ b \notin X
  BY <1>1 DEF Avoids
<1> QED  BY <1>2 DEF Dom

\* Of what is visible in the block that is closed, nothing is lost: not where it was
\* visible before, nor in the blocks appended.
LEMMA VisibleStays ==
  ASSUME NEW n, NEW S, GraphType(S, n), NEW m \in Nat, NEW a \in 1 .. n,
         NEW s \in SUBSET (1 .. n + m),
         NEW d, Dom(S, n, d, a), NEW b, Dom(S, n, d, b) \/ b \in n + 1 .. n + m
  PROVE  Dom(Edited(S, n, m, a, s), n + m, d, b)
<1> DEFINE T == Edited(S, n, m, a, s)
<1>1. /\ n \in Nat \ {0} /\ 1 .. n \subseteq 1 .. n + m
      /\ (1 .. n) \cap (n + 1 .. n + m) = {}
  BY DEF GraphType
<1>2. \A x \in 1 .. n : x # a => T[x] = S[x]
  BY <1>1 DEF Edited
<1> HIDE DEF T
<1> SUFFICES ASSUME d # Constant PROVE Dom(T, n + m, d, b)
  BY DEF Dom, T
<1>3. PICK X : Avoids(S, n, d, X) /\ a \notin X
  BY DEF Dom
<1>4. PICK Y : Avoids(S, n, d, Y) /\ b \notin X \cap Y
  <2>1. CASE Dom(S, n, d, b)
    BY <2>1 DEF Dom
  <2>2. CASE b \in n + 1 .. n + m
    BY <1>1, <1>3, <2>2 DEF Avoids
  <2> QED  BY <2>1, <2>2
<1>5. \A x \in X \cap Y : T[x] \subseteq (X \cap Y) \cup {d}
  BY <1>2, <1>3, <1>4 DEF Avoids
<1>6. Avoids(T, n + m, d, X \cap Y)
  BY <1>1, <1>3, <1>4, <1>5 DEF Avoids
<1> QED  BY <1>4, <1>6 DEF Dom

\* What is visible in a block that no branch is added to stays so.
LEMMA SettledStays ==
  ASSUME NEW n, NEW S, GraphType(S, n), NEW m \in Nat, NEW a \in 1 .. n,
         NEW s \in SUBSET (1 .. n + m), a \notin s, \A x \in s \cap (1 .. n) : S[x] = {},
         NEW d, NEW b, Dom(S, n, d, b), b \notin s
  PROVE  Dom(Edited(S, n, m, a, s), n + m, d, b)
<1> DEFINE T == Edited(S, n, m, a, s)
<1>1. n \in Nat \ {0} /\ 1 .. n \subseteq 1 .. n + m
  BY DEF GraphType
<1>2. /\ \A x \in 1 .. n : T[x] \subseteq S[x] \cup s
      /\ \A x \in s : T[x] = {}
  BY <1>1 DEF Edited
<1> HIDE DEF T
<1> SUFFICES ASSUME d # Constant PROVE Dom(T, n + m, d, b)
  BY DEF Dom, T
<1>3. PICK X : Avoids(S, n, d, X) /\ b \notin X
  BY DEF Dom
<1>4. \A x \in X \cup s : T[x] \subseteq (X \cup s) \cup {d}
  BY <1>2, <1>3 DEF Avoids
<1>5. Avoids(T, n + m, d, X \cup s)
  BY <1>1, <1>3, <1>4 DEF Avoids
<1> QED  BY <1>3, <1>5 DEF Dom

-----------------------------------------------------------------------------
(* What the calls under way hold, and what their scopes bind, is visible    *)
(* in the blocks of B, where the builder may go next, and in those set      *)
(* aside by the calls further in.                                           *)

Holds(os, S, n, B) ==
    /\ \A i \in 1 .. Len(os) :
          IF Joining(os[i]) THEN Dom(S, n, os[i].held, os[i].from) ELSE Sees(S, n, os[i].held, B)
    /\ \A i, j \in 1 .. Len(os) :
          i < j /\ ~Joining(os[i]) => Sees(S, n, os[i].held, Reserved(os[j]))

ScopeSees(S, n, c, B) == \A x \in Locals : c[x] # Unbound => Sees(S, n, c[x], B)
ScopedBefore(fs, j) == {i \in 1 .. j - 1 : Scoped(fs[i])}
DepthAt(fs, j) == Cardinality(ScopedBefore(fs, j))

Binds(os, l, S, n, B) ==
    /\ \A k \in 1 .. Len(l) : ScopeSees(S, n, l[k], B)
    /\ \A j \in 1 .. Len(os), k \in 1 .. Len(l) :
          k <= DepthAt(os, j) => ScopeSees(S, n, l[k], Reserved(os[j]))

\* The uses of values there are, those of the phis among them, and the blocks they
\* are in: no block that is set aside.
PhiUses == {<<p.values[i], p.incoming[i]>> : p \in phis, i \in 1 .. 2}
Used(us, fs, S, n) == \A u \in us : Dom(S, n, u[1], u[2]) /\ u[2] \in (1 .. n) \ Reserve(fs)

FlowInv == /\ Holds(frames, succ, blocks, {at})
           /\ Binds(frames, local, succ, blocks, {at})
           /\ value # Pending => Dom(succ, blocks, value, at)
           /\ Used(uses \cup PhiUses, frames, succ, blocks)

-----------------------------------------------------------------------------
(* Stacks of calls.                                                        *)

LEMMA HoldsMore ==
  ASSUME NEW fs \in Seq(FrameType), NEW f \in FrameType, NEW S, NEW n, NEW B
  PROVE  Holds(Append(fs, f), S, n, B) <=>
            /\ Holds(fs, S, n, B \cup Reserved(f))
            /\ IF Joining(f) THEN Dom(S, n, f.held, f.from) ELSE Sees(S, n, f.held, B)
<1> DEFINE gs == Append(fs, f)
           l == Len(fs) + 1
           Own(g) == IF Joining(g) THEN Dom(S, n, g.held, g.from) ELSE Sees(S, n, g.held, B)
<1>1. /\ Len(fs) \in Nat /\ Len(gs) = l
      /\ \A i \in 1 .. Len(fs) : gs[i] = fs[i]
      /\ gs[l] = f
  BY AppendProperties, LenProperties
<1> HIDE DEF gs
<1>2. /\ \A i \in 1 .. Len(gs) : i \in 1 .. Len(fs) \/ i = l
      /\ l \in 1 .. Len(gs) /\ \A i \in 1 .. Len(fs) : i \in 1 .. Len(gs) /\ i < l /\ ~(l < i)
      /\ ~(l < l)
  BY <1>1
<1> HIDE DEF l
<1>3. ASSUME Holds(gs, S, n, B) PROVE Holds(fs, S, n, B \cup Reserved(f)) /\ Own(f)
  <2>1. Own(f)
    BY <1>1, <1>2, <1>3 DEF Holds
  <2>2. ASSUME NEW i \in 1 .. Len(fs)
        PROVE  IF Joining(fs[i]) THEN Dom(S, n, fs[i].held, fs[i].from)
               ELSE Sees(S, n, fs[i].held, B \cup Reserved(f))
    BY <1>1, <1>2, <1>3 DEF Holds, Sees
  <2>3. ASSUME NEW i \in 1 .. Len(fs), NEW j \in 1 .. Len(fs), i < j, ~Joining(fs[i])
        PROVE  Sees(S, n, fs[i].held, Reserved(fs[j]))
    BY <1>1, <1>2, <1>3, <2>3 DEF Holds
  <2> HIDE DEF Own
  <2> QED  BY <2>1, <2>2, <2>3 DEF Holds
<1>4. ASSUME Holds(fs, S, n, B \cup Reserved(f)), Own(f) PROVE Holds(gs, S, n, B)
  <2>1. \A i \in 1 .. Len(fs) : Own(fs[i])
    BY <1>4 DEF Holds, Sees
  <2>2. \A i \in 1 .. Len(gs) : Own(gs[i])
    <3> HIDE DEF Own
    <3> QED  BY <1>1, <1>2, <1>4, <2>1
  <2>3. ASSUME NEW i \in 1 .. Len(gs), NEW j \in 1 .. Len(gs), i < j, ~Joining(gs[i])
        PROVE  Sees(S, n, gs[i].held, Reserved(gs[j]))
    <3>1. i \in 1 .. Len(fs)
      BY <1>2, <2>3
    <3>2. CASE j \in 1 .. Len(fs)
      BY <1>1, <1>4, <2>3, <3>1, <3>2 DEF Holds
    <3>3. CASE j = l
      BY <1>1, <1>4, <2>3, <3>1, <3>3 DEF Holds, Sees
    <3> QED  BY <1>2, <3>2, <3>3
  <2> QED  BY <2>2, <2>3 DEF Holds
<1> QED  BY <1>3, <1>4 DEF gs

\* How many scopes were pushed before each of the calls.
LEMMA DepthAtMore ==
  ASSUME NEW fs \in Seq(FrameType), NEW f \in FrameType
  PROVE  /\ \A j \in 1 .. Len(fs) : /\ DepthAt(fs, j) \in Nat /\ DepthAt(fs, j) <= Depth(fs)
                                    /\ DepthAt(Append(fs, f), j) = DepthAt(fs, j)
         /\ DepthAt(Append(fs, f), Len(fs) + 1) = Depth(fs)
<1> DEFINE gs == Append(fs, f)
<1>1. /\ Len(fs) \in Nat
      /\ \A i \in 1 .. Len(fs) : gs[i] = fs[i]
  BY AppendProperties, LenProperties
<1> HIDE DEF gs
<1>2. IsFiniteSet(ScopedIn(fs)) /\ (Len(fs) + 1) - 1 = Len(fs)
  <2>1. IsFiniteSet(1 .. Len(fs))
    BY <1>1, FS_Interval
  <2>2. IsFiniteSet(ScopedIn(fs))
    BY <2>1, FS_Subset DEF ScopedIn
  <2> QED  BY <1>1, <2>2
<1>3. ASSUME NEW j \in 1 .. Len(fs)
      PROVE  /\ DepthAt(fs, j) \in Nat /\ DepthAt(fs, j) <= Depth(fs)
             /\ DepthAt(gs, j) = DepthAt(fs, j)
  <2>1. 1 .. j - 1 \subseteq 1 .. Len(fs)
    BY <1>1
  <2>2. ScopedBefore(gs, j) = ScopedBefore(fs, j) /\ ScopedBefore(fs, j) \subseteq ScopedIn(fs)
    BY <1>1, <2>1 DEF ScopedBefore, ScopedIn
  <2>3. /\ IsFiniteSet(ScopedBefore(fs, j))
        /\ Cardinality(ScopedBefore(fs, j)) <= Cardinality(ScopedIn(fs))
    BY <1>2, <2>2, FS_Subset
  <2> QED  BY <2>2, <2>3, FS_CardinalityType DEF DepthAt, Depth
<1>4. ScopedBefore(gs, Len(fs) + 1) = ScopedIn(fs)
  BY <1>1, <1>2 DEF ScopedBefore, ScopedIn
<1> QED  BY <1>3, <1>4 DEF DepthAt, Depth, gs

\* What the scopes bind, when a call that has a scope goes on top of others, and when
\* one that has none does.
LEMMA BindsMore ==
  ASSUME NEW fs \in Seq(FrameType), NEW f \in FrameType, NEW S, NEW n, NEW B,
         NEW D, NEW l \in Seq(D), Len(l) = Depth(fs), NEW c \in D, Scoped(f)
  PROVE  Binds(Append(fs, f), Append(l, c), S, n, B) <=>
            Binds(fs, l, S, n, B \cup Reserved(f)) /\ ScopeSees(S, n, c, B)
<1> DEFINE gs == Append(fs, f)
           h == Append(l, c)
           q == Len(fs) + 1
           t == Len(l) + 1
<1>1. /\ Len(fs) \in Nat /\ Len(gs) = q
      /\ \A i \in 1 .. Len(fs) : gs[i] = fs[i]
      /\ gs[q] = f
  BY AppendProperties, LenProperties
<1>2. /\ Len(l) \in Nat /\ Len(h) = t
      /\ \A k \in 1 .. Len(l) : h[k] = l[k]
      /\ h[t] = c
  BY AppendProperties, LenProperties
<1>3. /\ \A j \in 1 .. Len(fs) : /\ DepthAt(fs, j) \in Nat /\ DepthAt(fs, j) <= Len(l)
                                  /\ DepthAt(gs, j) = DepthAt(fs, j)
      /\ DepthAt(gs, q) = Len(l)
  BY DepthAtMore
<1> HIDE DEF gs, h
<1>4. /\ \A j \in 1 .. Len(gs) : j \in 1 .. Len(fs) \/ j = q
      /\ q \in 1 .. Len(gs) /\ \A j \in 1 .. Len(fs) : j \in 1 .. Len(gs)
      /\ \A k \in 1 .. Len(h) : k \in 1 .. Len(l) \/ k = t
      /\ t \in 1 .. Len(h) /\ \A k \in 1 .. Len(l) : k \in 1 .. Len(h) /\ k <= Len(l)
      /\ \A j \in 1 .. Len(fs) : ~(t <= DepthAt(gs, j))
      /\ ~(t <= DepthAt(gs, q))
  <2>1. /\ \A j \in 1 .. Len(gs) : j \in 1 .. Len(fs) \/ j = q
        /\ q \in 1 .. Len(gs) /\ \A j \in 1 .. Len(fs) : j \in 1 .. Len(gs)
    BY <1>1
  <2>2. /\ \A k \in 1 .. Len(h) : k \in 1 .. Len(l) \/ k = t
        /\ t \in 1 .. Len(h) /\ \A k \in 1 .. Len(l) : k \in 1 .. Len(h) /\ k <= Len(l)
    BY <1>2
  <2>3. \A m \in Nat : m <= Len(l) => ~(t <= m)
    BY <1>2
  <2>4. \A j \in 1 .. Len(fs) : ~(t <= DepthAt(gs, j))
    <3> HIDE DEF q, t
    <3> QED  BY <1>3, <2>3
  <2>5. ~(t <= DepthAt(gs, q))
    <3>1. Len(l) \in Nat /\ Len(l) <= Len(l)
      BY <1>2
    <3> HIDE DEF q, t
    <3> QED  BY <1>3, <2>3, <3>1
  <2> QED  BY <2>1, <2>2, <2>4, <2>5
<1> HIDE DEF q, t
<1>5. ASSUME Binds(gs, h, S, n, B)
      PROVE  Binds(fs, l, S, n, B \cup Reserved(f)) /\ ScopeSees(S, n, c, B)
  <2>1. ScopeSees(S, n, c, B)
    BY <1>2, <1>4, <1>5 DEF Binds
  <2>2. ASSUME NEW k \in 1 .. Len(l)
        PROVE  ScopeSees(S, n, l[k], B \cup Reserved(f))
    <3>1. ScopeSees(S, n, l[k], B)
      BY <1>2, <1>4, <1>5 DEF Binds
    <3>2. k <= DepthAt(gs, q)
      BY <1>3, <1>4
    <3>3. ScopeSees(S, n, l[k], Reserved(f))
      BY <1>1, <1>2, <1>4, <1>5, <3>2 DEF Binds
    <3> QED  BY <3>1, <3>3 DEF ScopeSees, Sees
  <2>3. ASSUME NEW j \in 1 .. Len(fs), NEW k \in 1 .. Len(l), k <= DepthAt(fs, j)
        PROVE  ScopeSees(S, n, l[k], Reserved(fs[j]))
    <3>1. k <= DepthAt(gs, j) /\ j \in 1 .. Len(gs) /\ k \in 1 .. Len(h)
      BY <1>3, <1>4, <2>3
    <3>2. ScopeSees(S, n, h[k], Reserved(gs[j]))
      BY <1>5, <3>1 DEF Binds
    <3> QED  BY <1>1, <1>2, <3>2
  <2> QED  BY <2>1, <2>2, <2>3 DEF Binds
<1>6. ASSUME Binds(fs, l, S, n, B \cup Reserved(f)), ScopeSees(S, n, c, B)
      PROVE  Binds(gs, h, S, n, B)
  <2>1. \A k \in 1 .. Len(l) : ScopeSees(S, n, l[k], B \cup Reserved(f))
    BY <1>6 DEF Binds
  <2>2. \A k \in 1 .. Len(l) : ScopeSees(S, n, l[k], B) /\ ScopeSees(S, n, l[k], Reserved(f))
    BY <2>1 DEF ScopeSees, Sees
  <2>3. \A k \in 1 .. Len(h) : ScopeSees(S, n, h[k], B)
    BY <1>2, <1>4, <1>6, <2>2
  <2>4. ASSUME NEW j \in 1 .. Len(gs), NEW k \in 1 .. Len(h), k <= DepthAt(gs, j)
        PROVE  ScopeSees(S, n, h[k], Reserved(gs[j]))
    <3>1. k \in 1 .. Len(l)
      BY <1>4, <2>4
    <3>2. CASE j = q
      BY <1>1, <1>2, <2>2, <3>1, <3>2
    <3>3. CASE j \in 1 .. Len(fs)
      <4>1. k <= DepthAt(fs, j)
        BY <1>3, <2>4, <3>3
      <4>2. ScopeSees(S, n, l[k], Reserved(fs[j]))
        BY <1>6, <3>1, <3>3, <4>1 DEF Binds
      <4> QED  BY <1>1, <1>2, <3>1, <3>3, <4>2
    <3> QED  BY <1>4, <3>2, <3>3
  <2> QED  BY <2>3, <2>4 DEF Binds
<1> QED  BY <1>5, <1>6 DEF gs, h

\* One without a scope sees what the others do.
LEMMA BindsSame ==
  ASSUME NEW fs \in Seq(FrameType), NEW f \in FrameType, NEW S, NEW n, NEW B, NEW l,
         Reserved(f) = {}
  PROVE  Binds(Append(fs, f), l, S, n, B) <=> Binds(fs, l, S, n, B)
<1> DEFINE gs == Append(fs, f)
           q == Len(fs) + 1
<1>1. /\ Len(fs) \in Nat /\ Len(gs) = q
      /\ \A i \in 1 .. Len(fs) : gs[i] = fs[i]
      /\ gs[q] = f
  BY AppendProperties, LenProperties
<1>2. \A j \in 1 .. Len(fs) : DepthAt(gs, j) = DepthAt(fs, j)
  BY DepthAtMore
<1> HIDE DEF gs
<1>3. /\ \A j \in 1 .. Len(gs) : j \in 1 .. Len(fs) \/ j = q
      /\ \A j \in 1 .. Len(fs) : j \in 1 .. Len(gs)
  BY <1>1
<1> HIDE DEF q
<1>4. \A k \in 1 .. Len(l) : ScopeSees(S, n, l[k], Reserved(gs[q]))
  BY <1>1 DEF ScopeSees, Sees
<1>5. ASSUME Binds(gs, l, S, n, B) PROVE Binds(fs, l, S, n, B)
  BY <1>1, <1>2, <1>3, <1>5 DEF Binds
<1>6. ASSUME Binds(fs, l, S, n, B) PROVE Binds(gs, l, S, n, B)
  BY <1>1, <1>2, <1>3, <1>4, <1>6 DEF Binds
<1> QED  BY <1>5, <1>6 DEF gs

\* Fewer blocks to go to.
LEMMA SeenInFewer ==
  ASSUME NEW os, NEW l, NEW S, NEW n, NEW B, NEW C \in SUBSET B
  PROVE  /\ Holds(os, S, n, B) => Holds(os, S, n, C)
         /\ Binds(os, l, S, n, B) => Binds(os, l, S, n, C)
<1>1. ASSUME Holds(os, S, n, B) PROVE Holds(os, S, n, C)
  BY <1>1 DEF Holds, Sees
<1>2. ASSUME Binds(os, l, S, n, B) PROVE Binds(os, l, S, n, C)
  BY <1>2 DEF Binds, ScopeSees, Sees
<1> QED  BY <1>1, <1>2

-----------------------------------------------------------------------------
(* The builder's block a is closed, with a branch to the blocks of s, which *)
(* are open.                                                               *)

EditAt(S, n, m, a, s) ==
    /\ GraphType(S, n) /\ m \in Nat /\ a \in 1 .. n /\ s \subseteq 1 .. n + m
    /\ a \notin s /\ \A x \in s \cap (1 .. n) : S[x] = {}

\* What is seen from a is seen from the blocks that can now be gone to.
LEMMA SeesMore ==
  ASSUME NEW n, NEW S, NEW m, NEW a, NEW s, EditAt(S, n, m, a, s),
         NEW d, Dom(S, n, d, a), NEW B, Sees(S, n, d, B), NEW C \in SUBSET (B \cup (n + 1 .. n + m))
  PROVE  Sees(Edited(S, n, m, a, s), n + m, d, C)
<1> SUFFICES ASSUME NEW b \in C PROVE Dom(Edited(S, n, m, a, s), n + m, d, b)
  BY DEF Sees
<1>1. Dom(S, n, d, b) \/ b \in n + 1 .. n + m
  BY DEF Sees
<1>2. GraphType(S, n) /\ m \in Nat /\ a \in 1 .. n /\ s \in SUBSET (1 .. n + m)
  BY DEF EditAt
<1> QED  BY <1>1, <1>2, VisibleStays

LEMMA HoldsOn ==
  ASSUME NEW n, NEW S, NEW m, NEW a, NEW s, EditAt(S, n, m, a, s),
         NEW os, FramesKept(os, S, n),
         NEW B, a \in B, Holds(os, S, n, B), NEW C \in SUBSET (B \cup (n + 1 .. n + m))
  PROVE  Holds(os, Edited(S, n, m, a, s), n + m, C)
<1> DEFINE T == Edited(S, n, m, a, s)
<1>1. /\ GraphType(S, n) /\ m \in Nat /\ a \in 1 .. n /\ s \in SUBSET (1 .. n + m)
      /\ a \notin s /\ \A x \in s \cap (1 .. n) : S[x] = {}
  BY DEF EditAt
<1>2. DOMAIN S = 1 .. n
  BY <1>1 DEF GraphType
<1> HIDE DEF T
<1>3. ASSUME NEW i \in 1 .. Len(os), Joining(os[i])
      PROVE  Dom(T, n + m, os[i].held, os[i].from)
  <2> DEFINE f == os[i]
  <2>1. Into(S, f.post) = {f.from} /\ Dom(S, n, f.held, f.from)
    BY <1>3 DEF FramesKept, FrameKept, Holds
  <2> HIDE DEF f
  <2>2. f.from \notin s
    BY <1>1, <1>2, <2>1 DEF Into
  <2>3. Dom(T, n + m, f.held, f.from)
    BY <1>1, <2>1, <2>2, SettledStays DEF T
  <2> QED  BY <2>3 DEF f
<1>4. ASSUME NEW i \in 1 .. Len(os), ~Joining(os[i])
      PROVE  /\ Dom(S, n, os[i].held, a) /\ Sees(T, n + m, os[i].held, C)
             /\ \A j \in 1 .. Len(os) : i < j => Sees(T, n + m, os[i].held, Reserved(os[j]))
  <2>1. Sees(S, n, os[i].held, B) /\ Dom(S, n, os[i].held, a)
    BY <1>4 DEF Holds, Sees
  <2>2. Sees(T, n + m, os[i].held, C)
    BY <2>1, SeesMore DEF T
  <2>3. ASSUME NEW j \in 1 .. Len(os), i < j PROVE Sees(T, n + m, os[i].held, Reserved(os[j]))
    <3>1. Sees(S, n, os[i].held, Reserved(os[j]))
      BY <1>4, <2>3 DEF Holds
    <3> QED  BY <2>1, <3>1, SeesMore DEF T
  <2> QED  BY <2>1, <2>2, <2>3
<1>5. Holds(os, T, n + m, C)
  BY <1>3, <1>4 DEF Holds
<1> QED  BY <1>5 DEF T

LEMMA BindsOn ==
  ASSUME NEW n, NEW S, NEW m, NEW a, NEW s, EditAt(S, n, m, a, s),
         NEW os, NEW l,
         NEW B, a \in B, Binds(os, l, S, n, B), NEW C \in SUBSET (B \cup (n + 1 .. n + m))
  PROVE  Binds(os, l, Edited(S, n, m, a, s), n + m, C)
<1> DEFINE T == Edited(S, n, m, a, s)
<1> HIDE DEF T
<1>1. ASSUME NEW k \in 1 .. Len(l), NEW D, ScopeSees(S, n, l[k], D),
             NEW E \in SUBSET (D \cup (n + 1 .. n + m))
      PROVE  ScopeSees(T, n + m, l[k], E)
  <2> SUFFICES ASSUME NEW x \in Locals, l[k][x] # Unbound
               PROVE  Sees(T, n + m, l[k][x], E)
    BY DEF ScopeSees
  <2>1. Dom(S, n, l[k][x], a)
    BY DEF Binds, ScopeSees, Sees
  <2>2. Sees(S, n, l[k][x], D)
    BY <1>1 DEF ScopeSees
  <2> QED  BY <1>1, <2>1, <2>2, SeesMore DEF T
<1>2. \A k \in 1 .. Len(l) : ScopeSees(T, n + m, l[k], C)
  BY <1>1 DEF Binds
<1>3. ASSUME NEW j \in 1 .. Len(os), NEW k \in 1 .. Len(l), k <= DepthAt(os, j)
      PROVE  ScopeSees(T, n + m, l[k], Reserved(os[j]))
  <2>1. ScopeSees(S, n, l[k], Reserved(os[j]))
    BY <1>3 DEF Binds
  <2> QED  BY <1>1, <2>1
<1> QED  BY <1>2, <1>3 DEF Binds, T

LEMMA UsedOn ==
  ASSUME NEW n, NEW S, NEW m, NEW a, NEW s, EditAt(S, n, m, a, s),
         NEW us, NEW fs, Used(us, fs, S, n), s \cap (1 .. n) \subseteq Reserve(fs),
         NEW gs, Reserve(gs) \cap (1 .. n) \subseteq Reserve(fs)
  PROVE  Used(us, gs, Edited(S, n, m, a, s), n + m)
<1>1. /\ GraphType(S, n) /\ m \in Nat /\ a \in 1 .. n /\ s \in SUBSET (1 .. n + m)
      /\ a \notin s /\ \A x \in s \cap (1 .. n) : S[x] = {}
  BY DEF EditAt
<1>2. 1 .. n \subseteq 1 .. n + m
  BY <1>1 DEF GraphType
<1>3. ASSUME NEW u \in us
      PROVE  /\ Dom(Edited(S, n, m, a, s), n + m, u[1], u[2])
             /\ u[2] \in (1 .. n + m) \ Reserve(gs)
  <2>1. Dom(S, n, u[1], u[2]) /\ u[2] \in (1 .. n) \ Reserve(fs)
    BY DEF Used
  <2>2. u[2] \notin s
    BY <2>1
  <2>3. Dom(Edited(S, n, m, a, s), n + m, u[1], u[2])
    BY <1>1, <2>1, <2>2, SettledStays
  <2> QED  BY <1>2, <2>1, <2>3
<1> QED  BY <1>3 DEF Used
-----------------------------------------------------------------------------
(* The steps.  os stands for the calls below the one on top, ls for the     *)
(* scopes below its own.                                                   *)

Outer == IF Scoped(Top) THEN Rest(local) ELSE local

\* What the calls and scopes below the one on top see.
LEMMA TopSees ==
  ASSUME BlocksInv, FlowInv, frames # <<>>
  PROVE  /\ Holds(Rest(frames), succ, blocks, {at} \cup Reserved(Top))
         /\ IF Joining(Top) THEN Dom(succ, blocks, Top.held, Top.from)
                            ELSE Dom(succ, blocks, Top.held, at)
         /\ Outer \in Seq(Scopes) /\ Len(Outer) = Depth(Rest(frames))
         /\ Binds(Rest(frames), Outer, succ, blocks, {at} \cup Reserved(Top))
         /\ Scoped(Top) => /\ local[Len(local)] \in Scopes
                           /\ ScopeSees(succ, blocks, local[Len(local)], {at})
                           /\ \A c \in Scopes : [local EXCEPT ![Len(local)] = c] = Append(Outer, c)
<1> DEFINE os == Rest(frames)
           c == local[Len(local)]
<1>1. /\ Top \in FrameType /\ os \in Seq(FrameType) /\ Depth(os) \in Nat
      /\ Len(local) = Depth(os) + (IF Scoped(Top) THEN 1 ELSE 0)
  BY TopIs
<1>2. frames = Append(os, Top)
  <2>1. frames \in Seq(FrameType)
    BY DEF BlocksInv, Graph, FramesKept
  <2> QED  BY <1>1, <2>1, RestIs DEF Top
<1>3. local \in Seq(Scopes)
  BY DEF BlocksInv, Data
<1> HIDE DEF os
<1>4. /\ Holds(Append(os, Top), succ, blocks, {at})
      /\ Binds(Append(os, Top), local, succ, blocks, {at})
  BY <1>2 DEF FlowInv
<1>5. /\ Holds(os, succ, blocks, {at} \cup Reserved(Top))
      /\ IF Joining(Top) THEN Dom(succ, blocks, Top.held, Top.from)
                         ELSE Sees(succ, blocks, Top.held, {at})
  BY <1>1, <1>4, HoldsMore
<1>6. Sees(succ, blocks, Top.held, {at}) => Dom(succ, blocks, Top.held, at)
  BY DEF Sees
<1>7. CASE Scoped(Top)
  <2>1. Len(local) = Depth(os) + 1 /\ local # <<>> /\ NewScope \in Scopes
    <3>1. Len(local) = Depth(os) + 1
      BY <1>1, <1>7
    <3>2. Len(local) # 0
      BY <1>1, <3>1
    <3> QED  BY <1>3, <3>1, <3>2, EmptySeq DEF NewScope, Scopes
  <2>2. /\ Rest(local) \in Seq(Scopes) /\ Len(Rest(local)) = Len(local) - 1
        /\ local = Append(Rest(local), c) /\ c \in Scopes
    BY <1>3, <2>1, RestIs
  <2>3. \A e \in Scopes : [local EXCEPT ![Len(local)] = e] = Append(Rest(local), e)
    BY <1>3, <2>1, RestIs
  <2>4. Outer = Rest(local)
    BY <1>7 DEF Outer
  <2> HIDE DEF c
  <2>5. Outer \in Seq(Scopes) /\ Len(Outer) = Depth(os) /\ local = Append(Outer, c)
    BY <1>1, <2>1, <2>2, <2>4
  <2>6. /\ Binds(os, Outer, succ, blocks, {at} \cup Reserved(Top))
        /\ ScopeSees(succ, blocks, c, {at})
    BY <1>1, <1>4, <1>7, <2>2, <2>5, BindsMore
  <2> QED  BY <1>5, <1>6, <2>2, <2>3, <2>4, <2>5, <2>6 DEF c, os
<1>8. CASE ~Scoped(Top)
  <2>1. Reserved(Top) = {} /\ Outer = local /\ Len(local) = Depth(os)
    BY <1>1, <1>8 DEF Reserved, Outer, Scoped
  <2>2. Binds(os, local, succ, blocks, {at})
    BY <1>1, <1>4, <2>1, BindsSame
  <2>3. {at} \cup Reserved(Top) = {at}
    BY <2>1
  <2> QED  BY <1>3, <1>5, <1>6, <1>8, <2>1, <2>2, <2>3 DEF os
<1> QED  BY <1>7, <1>8

\* A local is visible where the builder is.
LEMMA LookupSeen ==
  ASSUME BlocksInv, FlowInv, NEW n \in Locals, Lookup(n) # Unbound
  PROVE  Dom(succ, blocks, Lookup(n), at)
<1> DEFINE found == {i \in DOMAIN local : local[i][n] # Unbound}
           i == CHOOSE i \in found : \A j \in found : j <= i
<1>1. local \in Seq(Scopes)
  BY DEF BlocksInv, Data
<1>2. Len(local) \in Nat /\ DOMAIN local = 1 .. Len(local)
  BY <1>1, LenProperties
<1>3. found # {}
  BY DEF Lookup
<1>4. \E k \in found : \A j \in found : j <= k
  BY <1>2, <1>3, HasGreatest
<1>5. i \in found
  BY <1>4
<1>6. Lookup(n) = local[i][n]
  BY <1>3 DEF Lookup
<1> HIDE DEF i
<1>7. i \in 1 .. Len(local) /\ local[i][n] # Unbound
  BY <1>2, <1>5
<1>8. Sees(succ, blocks, local[i][n], {at})
  BY <1>7 DEF FlowInv, Binds, ScopeSees
<1> QED  BY <1>6, <1>8 DEF Sees

\* An expression without subexpressions.
LEMMA LeafFlow ==
  ASSUME BlocksInv, FlowInv, BuildLiteral \/ \E n \in Locals : BuildSymbol(n)
  PROVE  FlowInv'
<1>1. UNCHANGED <<blocks, succ, phis, uses, at, local, frames>>
  BY DEF BuildLiteral, BuildSymbol
<1>2. Dom(succ, blocks, value', at)
  <2>1. CASE BuildLiteral
    BY <2>1 DEF BuildLiteral, Dom
  <2>2. ASSUME NEW n \in Locals, BuildSymbol(n) PROVE Dom(succ, blocks, value', at)
    <3>1. CASE Lookup(n) = Unbound
      <4>1. value' = at /\ GraphType(succ, blocks)
        BY <2>2, <3>1 DEF BuildSymbol, BlocksInv, Graph
      <4> QED  BY <4>1, DomItself
    <3>2. CASE Lookup(n) # Unbound
      BY <2>2, <3>2, LookupSeen DEF BuildSymbol
    <3> QED  BY <3>1, <3>2
  <2> QED  BY <2>1, <2>2
<1>3. PhiUses' = PhiUses
  BY <1>1 DEF PhiUses
<1> QED  BY <1>1, <1>2, <1>3 DEF FlowInv

\* Uses of what is visible, where the builder is.
LEMMA UseSeen ==
  ASSUME BlocksInv, FlowInv, NEW vs, \A v \in vs : Dom(succ, blocks, v, at), Use(vs),
         phis' = phis, NEW fs, Reserve(fs) \subseteq Reserve(frames)
  PROVE  Used((uses \cup PhiUses)', fs, succ, blocks)
<1>1. at \in (1 .. blocks) \ Reserve(frames)
  BY DEF BlocksInv, Graph, Open
<1>2. (uses \cup PhiUses)' = (uses \cup PhiUses) \cup {<<v, at>> : v \in vs \ {Constant}}
  BY DEF Use, PhiUses
<1>3. \A u \in uses \cup PhiUses : Dom(succ, blocks, u[1], u[2]) /\ u[2] \in (1 .. blocks) \ Reserve(fs)
  BY DEF FlowInv, Used
<1>4. \A v \in vs : Dom(succ, blocks, <<v, at>>[1], <<v, at>>[2]) /\ <<v, at>>[2] \in (1 .. blocks) \ Reserve(fs)
  BY <1>1
<1> QED  BY <1>2, <1>3, <1>4 DEF Used

\* The value of a root is stored.
LEMMA RootFlow ==
  ASSUME BlocksInv, FlowInv, FinishRoot
  PROVE  FlowInv'
<1>1. /\ UNCHANGED <<blocks, succ, phis, at, local, frames>>
      /\ value # Pending /\ value' = Pending /\ Use({value})
  BY DEF FinishRoot
<1>2. \A v \in {value} : Dom(succ, blocks, v, at)
  BY <1>1 DEF FlowInv
<1>3. Used((uses \cup PhiUses)', frames, succ, blocks)
  BY <1>1, <1>2, UseSeen
<1> QED  BY <1>1, <1>3 DEF FlowInv

\* A subexpression is to be built.
LEMMA BeginFlow ==
  ASSUME BlocksInv, FlowInv, \/ \E k \in {"prefix", "infix", "logic", "if"} : Begin(k)
                             \/ \E s \in {"begun", "value"} : BeginWith(s)
  PROVE  FlowInv'
<1>1. frames \in Seq(FrameType) /\ Len(local) = Depth(frames) /\ local \in Seq(Scopes)
  BY DEF BlocksInv, Graph, FramesKept, Data
<1>2. UNCHANGED <<blocks, succ, phis, uses, at, value>>
  BY DEF Begin, BeginWith
<1>3. PICK f \in FrameType :
         /\ frames' = Append(frames, f) /\ ~Joining(f) /\ ~Branching(f) /\ f.held = Constant
         /\ IF Scoped(f) THEN PushLocal ELSE local' = local
  BY CallBegins
<1>4. Reserved(f) = {} /\ Sees(succ, blocks, f.held, {at})
  BY <1>3 DEF Reserved, Sees, Dom
<1>5. {at} \cup Reserved(f) = {at} /\ Reserve(frames) \cup Reserved(f) = Reserve(frames)
  BY <1>4
<1>6. Holds(frames', succ, blocks, {at})
  <2>1. Holds(frames, succ, blocks, {at} \cup Reserved(f))
    BY <1>5 DEF FlowInv
  <2> QED  BY <1>1, <1>3, <1>4, <2>1, HoldsMore
<1>7. Binds(frames', local', succ, blocks, {at})
  <2>1. Binds(frames, local, succ, blocks, {at} \cup Reserved(f))
    BY <1>5 DEF FlowInv
  <2>2. CASE Scoped(f)
    <3>1. NewScope \in Scopes /\ ScopeSees(succ, blocks, NewScope, {at})
      BY DEF NewScope, Scopes, ScopeSees
    <3>2. local' = Append(local, NewScope)
      BY <1>3, <2>2 DEF PushLocal
    <3> QED  BY <1>1, <1>3, <2>1, <2>2, <3>1, <3>2, BindsMore
  <2>3. CASE ~Scoped(f)
    BY <1>1, <1>3, <1>4, <1>5, <2>1, <2>3, BindsSame
  <2> QED  BY <2>2, <2>3
<1>8. Reserve(frames') = Reserve(frames)
  BY <1>1, <1>3, <1>5, ReserveMore
<1>9. Used((uses \cup PhiUses)', frames', succ, blocks)
  BY <1>2, <1>8 DEF FlowInv, Used, PhiUses
<1> QED  BY <1>2, <1>6, <1>7, <1>9 DEF FlowInv

\* The left operand of an infix operator, or the value of an assignment, has been
\* built, and the call goes on.
LEMMA GoOnFlow ==
  ASSUME BlocksInv, FlowInv, InfixLeft \/ \E n \in Locals, s \in {"begun", "value"} : WithAssign(n, s)
  PROVE  FlowInv'
<1> DEFINE os == Rest(frames)
<1>1. /\ UNCHANGED <<blocks, succ, phis, uses, at>>
      /\ frames # <<>> /\ value \in {Constant} \cup Blocks /\ value # Pending /\ value' = Pending
  BY DEF InfixLeft, WithAssign, Returned, BlocksInv, Data
<1>2. /\ Top \in FrameType /\ os \in Seq(FrameType)
      /\ Reserve(frames) = Reserve(os) \cup Reserved(Top)
      /\ \A f \in FrameType : Replace(f) <=> frames' = Append(os, f)
  BY <1>1, TopIs
<1>3. /\ Holds(os, succ, blocks, {at} \cup Reserved(Top))
      /\ IF Joining(Top) THEN Dom(succ, blocks, Top.held, Top.from)
                         ELSE Dom(succ, blocks, Top.held, at)
      /\ Outer \in Seq(Scopes) /\ Len(Outer) = Depth(os)
      /\ Binds(os, Outer, succ, blocks, {at} \cup Reserved(Top))
      /\ Scoped(Top) => /\ local[Len(local)] \in Scopes
                        /\ ScopeSees(succ, blocks, local[Len(local)], {at})
                        /\ \A c \in Scopes : [local EXCEPT ![Len(local)] = c] = Append(Outer, c)
  BY <1>1, TopSees
<1>4. Dom(succ, blocks, value, at) /\ blocks \in Nat
  BY <1>1 DEF FlowInv, BlocksInv, Graph, GraphType
<1> HIDE DEF os
<1>5. PICK f \in FrameType :
         /\ frames' = Append(os, f) /\ ~Joining(f) /\ Reserved(f) = {} /\ Reserved(Top) = {}
         /\ Dom(succ, blocks, f.held, at)
         /\ Binds(frames', local', succ, blocks, {at})
  <2>1. CASE InfixLeft
    <3> DEFINE f == [Top EXCEPT !.stage = "right", !.held = value]
    <3>1. Top.kind = "infix" /\ Replace(f) /\ local' = local
      BY <2>1 DEF InfixLeft, Returned
    <3>2. value \in Nat
      BY <1>1, <1>4 DEF Constant, Blocks
    <3>3. f \in FrameType /\ f.held = value /\ f.kind = "infix"
      BY <1>2, <3>1, <3>2 DEF FrameType
    <3> HIDE DEF f
    <3>4. /\ ~Joining(f) /\ Reserved(f) = {} /\ Reserved(Top) = {} /\ ~Scoped(Top)
      BY <3>1, <3>3 DEF Joining, Branching, Scoped, Reserved
    <3>5. frames' = Append(os, f)
      BY <1>2, <3>1, <3>3
    <3>6. Binds(os, local, succ, blocks, {at})
      <4>1. Outer = local /\ {at} \cup Reserved(Top) = {at}
        BY <3>4 DEF Outer
      <4> QED  BY <1>3, <4>1
    <3>7. Binds(frames', local', succ, blocks, {at})
      BY <1>2, <3>1, <3>3, <3>4, <3>5, <3>6, BindsSame
    <3> QED  BY <1>4, <3>3, <3>4, <3>5, <3>7
  <2>2. ASSUME NEW n \in Locals, NEW s \in {"begun", "value"}, WithAssign(n, s)
        PROVE  \E f \in FrameType :
                  /\ frames' = Append(os, f) /\ ~Joining(f) /\ Reserved(f) = {} /\ Reserved(Top) = {}
                  /\ Dom(succ, blocks, f.held, at)
                  /\ Binds(frames', local', succ, blocks, {at})
    <3> DEFINE f == [Top EXCEPT !.stage = s]
               l == Len(local)
               c == local[l]
               e == [c EXCEPT ![n] = value]
    <3>1. Top.kind = "with" /\ Replace(f) /\ local' = [local EXCEPT ![l] = e]
      BY <2>2 DEF WithAssign, Returned
    <3>2. f \in FrameType /\ f.held = Top.held /\ f.kind = "with"
      BY <1>2, <3>1 DEF FrameType
    <3> HIDE DEF f
    <3>3. /\ ~Joining(f) /\ Scoped(f) /\ Reserved(f) = {}
          /\ ~Joining(Top) /\ Reserved(Top) = {} /\ Scoped(Top)
      BY <3>1, <3>2 DEF Joining, Branching, Scoped, Reserved
    <3>4. frames' = Append(os, f) /\ Dom(succ, blocks, f.held, at)
      BY <1>2, <1>3, <3>1, <3>2, <3>3
    <3>5. c \in Scopes /\ ScopeSees(succ, blocks, c, {at})
      BY <1>3, <3>3
    <3> HIDE DEF c
    <3>6. e \in Scopes /\ ScopeSees(succ, blocks, e, {at})
      <4>1. e \in Scopes
        BY <1>1, <3>5 DEF Scopes
      <4>2. \A x \in Locals : e[x] = IF x = n THEN value ELSE c[x]
        BY <3>5 DEF Scopes
      <4> HIDE DEF e
      <4>3. ScopeSees(succ, blocks, e, {at})
        BY <1>4, <3>5, <4>2 DEF ScopeSees, Sees
      <4> QED  BY <4>1, <4>3
    <3> HIDE DEF e, l
    <3>7. local' = Append(Outer, e)
      BY <1>3, <3>1, <3>3, <3>6 DEF l
    <3>8. Binds(os, Outer, succ, blocks, {at} \cup Reserved(f))
      BY <1>3, <3>3
    <3>9. Binds(frames', local', succ, blocks, {at})
      BY <1>2, <1>3, <3>2, <3>3, <3>4, <3>6, <3>7, <3>8, BindsMore
    <3> QED  BY <3>2, <3>3, <3>4, <3>9
  <2> QED  BY <2>1, <2>2
<1>6. Holds(frames', succ, blocks, {at})
  <2>1. Holds(os, succ, blocks, {at} \cup Reserved(f)) /\ Sees(succ, blocks, f.held, {at})
    BY <1>3, <1>5 DEF Sees
  <2> QED  BY <1>2, <1>5, <2>1, HoldsMore
<1>7. Reserve(frames') = Reserve(frames)
  BY <1>2, <1>5, ReserveMore
<1>8. Used((uses \cup PhiUses)', frames', succ, blocks)
  BY <1>1, <1>7 DEF FlowInv, Used, PhiUses
<1> QED  BY <1>1, <1>5, <1>6, <1>8 DEF FlowInv

\* A sign, an infix operator or a `with' returns.
LEMMA ReturnFlow ==
  ASSUME BlocksInv, FlowInv, PrefixOperand \/ InfixRight \/ WithValue
  PROVE  FlowInv'
<1> DEFINE os == Rest(frames)
<1>1. /\ UNCHANGED <<blocks, succ, phis, at>> /\ frames # <<>>
      /\ value # Pending /\ frames' = os
  BY DEF PrefixOperand, InfixRight, WithValue, Returned, Leave, Rest
<1>2. Reserve(frames) = Reserve(os) \cup Reserved(Top)
  BY <1>1, TopIs
<1>3. /\ Holds(os, succ, blocks, {at} \cup Reserved(Top))
      /\ IF Joining(Top) THEN Dom(succ, blocks, Top.held, Top.from)
                         ELSE Dom(succ, blocks, Top.held, at)
      /\ Binds(os, Outer, succ, blocks, {at} \cup Reserved(Top))
  BY <1>1, TopSees
<1>4. Dom(succ, blocks, value, at) /\ Dom(succ, blocks, at, at)
  <2>1. GraphType(succ, blocks)
    BY DEF BlocksInv, Graph
  <2> QED  BY <1>1, <2>1, DomItself DEF FlowInv
<1> HIDE DEF os
<1>5. /\ Reserved(Top) = {} /\ ~Joining(Top) /\ local' = Outer
      /\ Dom(succ, blocks, value', at)
      /\ uses' = uses \/ Use({value}) \/ Use({Top.held, value})
  <2>1. CASE PrefixOperand
    BY <1>4, <2>1 DEF PrefixOperand, Returned, Joining, Branching, Scoped, Reserved, Outer
  <2>2. CASE InfixRight
    BY <1>4, <2>2 DEF InfixRight, Returned, Joining, Branching, Scoped, Reserved, Outer
  <2>3. CASE WithValue
    BY <1>4, <2>3 DEF WithValue, Returned, Joining, Branching, Scoped, Reserved, Outer, PopLocal, Rest
  <2> QED  BY <2>1, <2>2, <2>3
<1>6. {at} \cup Reserved(Top) = {at} /\ Reserve(os) \subseteq Reserve(frames)
  BY <1>2, <1>5
<1>7. Used((uses \cup PhiUses)', os, succ, blocks)
  <2>1. CASE uses' = uses
    BY <1>1, <1>6, <2>1 DEF FlowInv, Used, PhiUses
  <2>2. CASE Use({value})
    BY <1>1, <1>4, <1>6, <2>2, UseSeen
  <2>3. CASE Use({Top.held, value})
    <3>1. \A v \in {Top.held, value} : Dom(succ, blocks, v, at)
      BY <1>3, <1>4, <1>5
    <3> QED  BY <1>1, <1>6, <2>3, <3>1, UseSeen
  <2> QED  BY <1>5, <2>1, <2>2, <2>3
<1> QED  BY <1>1, <1>3, <1>5, <1>6, <1>7 DEF FlowInv

\* The call goes on in another block, or returns: what stays is visible in the blocks
\* it disposes of.
LEMMA EditFlow ==
  ASSUME BlocksInv, FlowInv, frames # <<>>, NEW m \in Nat, NEW s \in SUBSET Disposed(m), s # {},
         NEW us, Used(us, frames, succ, blocks),
         NEW fs, Reserve(fs) \subseteq Reserve(Rest(frames)) \cup Disposed(m)
  PROVE  LET T == Edited(succ, blocks, m, at, s)
             n == blocks + m
         IN  /\ Holds(Rest(frames), T, n, Disposed(m))
             /\ Binds(Rest(frames), Outer, T, n, Disposed(m))
             /\ \A v : Dom(succ, blocks, v, at) => Dom(T, n, v, at)
             /\ Used(us, fs, T, n)
<1> DEFINE T == Edited(succ, blocks, m, at, s)
           n == blocks + m
           os == Rest(frames)
           B == {at} \cup Reserved(Top)
<1>1. /\ GraphType(succ, blocks) /\ at \in 1 .. blocks /\ s \in SUBSET (1 .. n)
      /\ at \notin Reserve(os) \cup Reserved(Top)
      /\ \A b \in 1 .. blocks : succ[b] = {} <=> (b = at \/ b \in Reserve(os) \cup Reserved(Top))
  BY EditUnderCalls
<1>2. FramesKept(os, succ, blocks) /\ Reserve(frames) = Reserve(os) \cup Reserved(Top)
  BY TopIs
<1>3. blocks \in Nat /\ (1 .. blocks) \cap (blocks + 1 .. blocks + m) = {}
  BY <1>1 DEF GraphType
<1>4. Disposed(m) = Reserved(Top) \cup (blocks + 1 .. blocks + m)
  BY DEF Disposed
<1>5. Holds(os, succ, blocks, B) /\ Binds(os, Outer, succ, blocks, B)
  BY TopSees
<1> HIDE DEF T, os, n
<1>6. at \notin s /\ s \cap (1 .. blocks) \subseteq Reserved(Top)
  BY <1>1, <1>3, <1>4
<1>7. EditAt(succ, blocks, m, at, s)
  BY <1>1, <1>6 DEF EditAt, n
<1>8. at \in B /\ Disposed(m) \in SUBSET (B \cup (blocks + 1 .. blocks + m))
  BY <1>4
<1> HIDE DEF B
<1>9. Holds(os, T, n, Disposed(m))
  BY <1>2, <1>5, <1>7, <1>8, HoldsOn DEF T, n
<1>10. Binds(os, Outer, T, n, Disposed(m))
  BY <1>5, <1>7, <1>8, BindsOn DEF T, n
<1>11. ASSUME NEW v, Dom(succ, blocks, v, at) PROVE Dom(T, n, v, at)
  BY <1>1, <1>11, VisibleStays DEF T, n
<1>12. Reserve(fs) \cap (1 .. blocks) \subseteq Reserve(frames)
  BY <1>2, <1>3, <1>4 DEF os
<1>13. s \cap (1 .. blocks) \subseteq Reserve(frames)
  BY <1>2, <1>6
<1>14. Used(us, fs, T, n)
  BY <1>7, <1>12, <1>13, UsedOn DEF T, n
<1> QED  BY <1>9, <1>10, <1>11, <1>14 DEF T, n, os

\* As in MovesOn: f is what the call has become, and its scope is empty.
LEMMA MovesOnFlow ==
  ASSUME BlocksInv, FlowInv, frames # <<>>, value # Pending,
         NEW m \in Nat, NEW s \in SUBSET Disposed(m), s # {},
         NEW f \in FrameType, frames' = Append(Rest(frames), f), Scoped(f),
         blocks' = blocks + m, succ' = Edited(succ, blocks, m, at, s), phis' = phis,
         IF Joining(f) THEN f.held = value /\ f.from = at ELSE f.held = Constant,
         {at'} \cup Reserved(f) = Disposed(m),
         uses' = uses \/ Use({value}), value' = Pending, local' = Append(Outer, NewScope)
  PROVE  FlowInv'
<1> DEFINE T == Edited(succ, blocks, m, at, s)
           n == blocks + m
           os == Rest(frames)
           us == (uses \cup PhiUses)'
           fs == frames'
           B == {at'}
<1>1. os \in Seq(FrameType) /\ Reserve(frames) = Reserve(os) \cup Reserved(Top)
  BY TopIs
<1>2. Outer \in Seq(Scopes) /\ Len(Outer) = Depth(os)
  BY TopSees
<1>3. Used(us, frames, succ, blocks)
  <2>1. CASE uses' = uses
    BY <2>1 DEF FlowInv, Used, PhiUses
  <2>2. CASE Use({value})
    <3>1. \A v \in {value} : Dom(succ, blocks, v, at)
      BY DEF FlowInv
    <3> QED  BY <2>2, <3>1, UseSeen
  <2> QED  BY <2>1, <2>2
<1>4. Reserve(fs) = Reserve(os) \cup Reserved(f)
  BY <1>1, ReserveMore
<1>5. Reserve(fs) \subseteq Reserve(os) \cup Disposed(m)
  BY <1>4
<1> HIDE DEF us, fs, os, T, n
<1>6. /\ Holds(os, T, n, Disposed(m)) /\ Binds(os, Outer, T, n, Disposed(m))
      /\ Used(us, fs, T, n)
      /\ \A v : Dom(succ, blocks, v, at) => Dom(T, n, v, at)
  BY <1>3, <1>5, EditFlow DEF T, n, os
<1>7. B \cup Reserved(f) = Disposed(m)
  OBVIOUS
<1> HIDE DEF B
<1>8. Dom(T, n, value, at)
  BY <1>6 DEF FlowInv
<1>9. IF Joining(f) THEN Dom(T, n, f.held, f.from) ELSE Sees(T, n, f.held, B)
  BY <1>8 DEF Sees, Dom
<1>10. Holds(fs, T, n, B)
  BY <1>1, <1>6, <1>7, <1>9, HoldsMore DEF fs, os
<1>11. NewScope \in Scopes /\ ScopeSees(T, n, NewScope, B)
  BY DEF NewScope, Scopes, ScopeSees
<1>12. Binds(fs, local', T, n, B)
  BY <1>1, <1>2, <1>6, <1>7, <1>11, BindsMore DEF fs, os
<1> QED  BY <1>6, <1>10, <1>12 DEF FlowInv, us, fs, T, n, B

LEMMA LogicLeftFlow ==
  ASSUME BlocksInv, FlowInv, LogicLeft
  PROVE  FlowInv'
<1> DEFINE n == blocks
           f == Frame("logic", "right", value, current_block, 0, n + 2)
           s == {n + 1, n + 2}
<1>1. /\ frames # <<>> /\ value \in {Constant} \cup Blocks /\ value # Pending
      /\ Top.kind = "logic" /\ Top.stage = "begun" /\ AppendBlocks(2, s) /\ Use({value})
      /\ Replace(f) /\ at' = n + 1 /\ PushLocal /\ value' = Pending /\ phis' = phis
  BY DEF LogicLeft, Returned, BlocksInv, Data, MoveTo
<1>2. n \in Nat \ {0} /\ at \in 1 .. n /\ current_block = at
  BY DEF BlocksInv, Graph, GraphType, Open
<1>3. Reserved(Top) = {} /\ Outer = local
  BY <1>1 DEF Joining, Branching, Scoped, Reserved, Outer
<1>4. /\ f \in FrameType /\ Joining(f) /\ Scoped(f) /\ f.from = at /\ f.held = value
      /\ Reserved(f) = {n + 2}
  BY <1>1, <1>2 DEF Frame, FrameType, Joining, Branching, Scoped, Reserved, Constant, Blocks
<1> HIDE DEF f
<1>5. Disposed(2) = s
  BY <1>2, <1>3 DEF Disposed
<1>6. blocks' = n + 2 /\ succ' = Edited(succ, n, 2, at, s)
  BY <1>1, AppendIs
<1>7. frames' = Append(Rest(frames), f)
  BY <1>1, <1>4, TopIs
<1>8. local' = Append(Outer, NewScope)
  BY <1>1, <1>3 DEF PushLocal
<1>9. {at'} \cup Reserved(f) = Disposed(2) /\ s \in SUBSET Disposed(2) /\ s # {}
  BY <1>1, <1>4, <1>5
<1> DEFINE m == 2
<1>10. m \in Nat
  OBVIOUS
<1> HIDE DEF s
<1>11. /\ blocks' = blocks + m /\ succ' = Edited(succ, blocks, m, at, s)
       /\ {at'} \cup Reserved(f) = Disposed(m) /\ s \in SUBSET Disposed(m)
  BY <1>6, <1>9
<1> HIDE DEF m, n
<1> QED  BY <1>1, <1>4, <1>7, <1>8, <1>9, <1>10, <1>11, MovesOnFlow

LEMMA IfConditionFlow ==
  ASSUME BlocksInv, FlowInv, IfCondition
  PROVE  FlowInv'
<1> DEFINE n == blocks
           f == Frame("if", "then", Constant, 0, n + 2, n + 3)
           s == {n + 1, n + 2}
<1>1. /\ frames # <<>> /\ value # Pending
      /\ Top.kind = "if" /\ Top.stage = "begun" /\ AppendBlocks(3, s) /\ Use({value})
      /\ Replace(f) /\ at' = n + 1 /\ PushLocal /\ value' = Pending /\ phis' = phis
  BY DEF IfCondition, Returned, MoveTo
<1>2. n \in Nat \ {0}
  BY DEF BlocksInv, Graph, GraphType
<1>3. Reserved(Top) = {} /\ Outer = local
  BY <1>1 DEF Joining, Branching, Scoped, Reserved, Outer
<1>4. /\ f \in FrameType /\ ~Joining(f) /\ Scoped(f) /\ f.held = Constant
      /\ Reserved(f) = {n + 2, n + 3}
  BY <1>2 DEF Frame, FrameType, Joining, Branching, Scoped, Reserved, Constant
<1> HIDE DEF f
<1>5. Disposed(3) = {n + 1, n + 2, n + 3}
  BY <1>2, <1>3 DEF Disposed
<1>6. blocks' = n + 3 /\ succ' = Edited(succ, n, 3, at, s)
  BY <1>1, AppendIs
<1>7. frames' = Append(Rest(frames), f)
  BY <1>1, <1>4, TopIs
<1>8. local' = Append(Outer, NewScope)
  BY <1>1, <1>3 DEF PushLocal
<1>9. {at'} \cup Reserved(f) = Disposed(3) /\ s \in SUBSET Disposed(3) /\ s # {}
  BY <1>1, <1>4, <1>5
<1> DEFINE m == 3
<1>10. m \in Nat
  OBVIOUS
<1> HIDE DEF s
<1>11. /\ blocks' = blocks + m /\ succ' = Edited(succ, blocks, m, at, s)
       /\ {at'} \cup Reserved(f) = Disposed(m) /\ s \in SUBSET Disposed(m)
  BY <1>6, <1>9
<1> HIDE DEF m, n
<1> QED  BY <1>1, <1>4, <1>7, <1>8, <1>9, <1>10, <1>11, MovesOnFlow

LEMMA IfThenFlow ==
  ASSUME BlocksInv, FlowInv, IfThen
  PROVE  FlowInv'
<1> DEFINE n == blocks
           f == [Top EXCEPT !.stage = "else", !.held = value, !.from = current_block]
           s == {Top.post}
<1>1. /\ frames # <<>> /\ value \in {Constant} \cup Blocks /\ value # Pending
      /\ Top.kind = "if" /\ Top.stage = "then" /\ BranchTo(Top.post) /\ uses' = uses
      /\ Replace(f) /\ at' = Top.elsy /\ local' = [local EXCEPT ![Len(local)] = NewScope]
      /\ value' = Pending /\ phis' = phis
  BY DEF IfThen, Returned, BlocksInv, Data, MoveTo
<1>2. n \in Nat \ {0} /\ at \in 1 .. n /\ current_block = at
  BY DEF BlocksInv, Graph, GraphType, Open
<1>3. Scoped(Top) /\ Reserved(Top) = {Top.elsy, Top.post} /\ Top \in FrameType
  BY <1>1, TopIs DEF Joining, Branching, Scoped, Reserved
<1>4. /\ f \in FrameType /\ Joining(f) /\ Scoped(f) /\ f.from = at /\ f.held = value
      /\ Reserved(f) = {Top.post}
  <2>1. value \in Nat /\ current_block \in Nat
    BY <1>1, <1>2 DEF Constant, Blocks
  <2>2. /\ f \in FrameType /\ f.kind = "if" /\ f.stage = "else" /\ f.post = Top.post
        /\ f.from = at /\ f.held = value
    BY <1>1, <1>2, <1>3, <2>1 DEF FrameType
  <2> HIDE DEF f
  <2> QED  BY <2>2 DEF Joining, Branching, Scoped, Reserved
<1> HIDE DEF f
<1>5. Disposed(0) = {Top.elsy, Top.post}
  BY <1>2, <1>3 DEF Disposed
<1>6. blocks' = n + 0 /\ succ' = Edited(succ, n, 0, at, s)
  BY <1>1, BranchIs
<1>7. frames' = Append(Rest(frames), f)
  BY <1>1, <1>4, TopIs
<1>8. local' = Append(Outer, NewScope)
  <2>1. NewScope \in Scopes
    BY DEF NewScope, Scopes
  <2> QED  BY <1>1, <1>3, <2>1, TopSees
<1>9. {at'} \cup Reserved(f) = Disposed(0) /\ s \in SUBSET Disposed(0) /\ s # {}
  BY <1>1, <1>4, <1>5
<1> DEFINE m == 0
<1>10. m \in Nat
  OBVIOUS
<1> HIDE DEF s
<1>11. /\ blocks' = blocks + m /\ succ' = Edited(succ, blocks, m, at, s)
       /\ {at'} \cup Reserved(f) = Disposed(m) /\ s \in SUBSET Disposed(m)
  BY <1>6, <1>9
<1> HIDE DEF m, n
<1> QED  BY <1>1, <1>4, <1>7, <1>8, <1>9, <1>10, <1>11, MovesOnFlow

\* The right operand, or the else branch, has been built: a phi uses the value that is
\* held in the block it is held from, and the one returned in the builder's.
LEMMA JoinFlow ==
  ASSUME BlocksInv, FlowInv, LogicRight \/ IfElse
  PROVE  FlowInv'
<1> DEFINE n == blocks
           s == {Top.post}
           p == [block |-> Top.post, values |-> <<Top.held, value>>,
                 incoming |-> <<Top.from, current_block>>]
           us == uses \cup PhiUses
           new == {<<Top.held, Top.from>>, <<value, at>>}
<1>1. /\ frames # <<>> /\ value # Pending /\ Joining(Top) /\ BranchTo(Top.post)
      /\ phis' = phis \cup {p} /\ at' = Top.post /\ PopLocal /\ value' = Top.post
      /\ frames' = Rest(frames) /\ uses' = uses
  BY DEF LogicRight, IfElse, Returned, Joining, Phi, MoveTo, Leave, Rest
<1>2. n \in Nat \ {0} /\ at \in 1 .. n /\ current_block = at /\ DOMAIN succ = 1 .. n
  BY DEF BlocksInv, Graph, GraphType, Open
<1>3. Reserved(Top) = s /\ Outer = Rest(local) /\ Into(succ, Top.post) = {Top.from}
  BY <1>1, TopIs DEF Reserved, Outer, Scoped, FrameKept
<1>4. Disposed(0) = s
  BY <1>2, <1>3 DEF Disposed
<1>5. blocks' = n + 0 /\ succ' = Edited(succ, n, 0, at, s)
  BY <1>1, BranchIs
<1>6. local' = Outer
  BY <1>1, <1>3 DEF PopLocal, Rest
<1>7. (uses \cup PhiUses)' = us \cup new
  <2>1. {<<q.values[i], q.incoming[i]>> : q \in {p}, i \in 1 .. 2} = new
    <3>1. 1 .. 2 = {1, 2}
      OBVIOUS
    <3>2. {<<p.values[i], p.incoming[i]>> : i \in {1, 2}} = new
      BY <1>2
    <3> HIDE DEF p, new
    <3> QED  BY <3>1, <3>2
  <2> HIDE DEF p, new
  <2>2. PhiUses' = PhiUses \cup new
    BY <1>1, <2>1 DEF PhiUses
  <2> QED  BY <1>1, <2>2
<1> HIDE DEF p
<1>8. Used(us \cup new, frames, succ, n)
  <2>1. Used(us, frames, succ, n)
    BY DEF FlowInv
  <2>2. \A b \in 1 .. n : succ[b] = {} <=> (b = at \/ b \in Reserve(frames))
    BY DEF BlocksInv, Graph, Open
  <2>3. at \in (1 .. n) \ Reserve(frames)
    BY DEF BlocksInv, Graph, Open
  <2>4. Top.from \in (1 .. n) \ Reserve(frames)
    BY <1>2, <1>3, <2>2 DEF Into
  <2>5. Dom(succ, n, Top.held, Top.from) /\ Dom(succ, n, value, at)
    BY <1>1, TopSees DEF FlowInv
  <2>6. \A u \in new : Dom(succ, n, u[1], u[2]) /\ u[2] \in (1 .. n) \ Reserve(frames)
    BY <2>3, <2>4, <2>5
  <2> HIDE DEF us, new
  <2> QED  BY <2>1, <2>6 DEF Used
<1>9. s \in SUBSET Disposed(0) /\ s # {} /\ {at'} = Disposed(0)
  BY <1>1, <1>4
<1>10. Reserve(frames') \subseteq Reserve(Rest(frames)) \cup Disposed(0)
  BY <1>1
<1> DEFINE m == 0
           vs == us \cup new
<1>11. m \in Nat /\ s \in SUBSET Disposed(m)
  BY <1>9
<1>12. Reserve(frames') \subseteq Reserve(Rest(frames)) \cup Disposed(m)
  BY <1>10
<1>13. /\ blocks' = blocks + m /\ succ' = Edited(succ, blocks, m, at, s) /\ {at'} = Disposed(m)
       /\ Used(vs, frames, succ, blocks) /\ (uses \cup PhiUses)' = vs
  BY <1>5, <1>7, <1>8, <1>9
<1> HIDE DEF m, n, s, us, new, vs
<1>14. /\ Holds(Rest(frames), succ', blocks', {at'}) /\ Binds(Rest(frames), Outer, succ', blocks', {at'})
       /\ Used(vs, frames', succ', blocks')
  BY <1>1, <1>9, <1>11, <1>12, <1>13, EditFlow
<1>15. Dom(succ', blocks', at', at')
  <2>1. GraphType(succ, blocks)'
    BY JoinStep DEF BlocksInv, Graph
  <2>2. GraphType(succ', blocks')
    BY <2>1
  <2> QED  BY <2>2, DomItself
<1>16. value' = at'
  BY <1>1
<1> QED  BY <1>1, <1>6, <1>13, <1>14, <1>15, <1>16 DEF FlowInv

-----------------------------------------------------------------------------
(* Theorems.                                                               *)

LEMMA InitFlow ==
  ASSUME Init
  PROVE  FlowInv
<1>1. /\ uses = {} /\ phis = {} /\ local = <<>> /\ frames = <<>> /\ value = Pending
  BY DEF Init
<1>2. Len(frames) = 0 /\ Len(local) = 0 /\ 1 .. 0 = {}
  BY <1>1
<1>3. Holds(frames, succ, blocks, {at}) /\ Binds(frames, local, succ, blocks, {at})
  BY <1>2 DEF Holds, Binds
<1>4. uses \cup PhiUses = {}
  BY <1>1 DEF PhiUses
<1> QED  BY <1>1, <1>3, <1>4 DEF FlowInv, Used

LEMMA NextFlow ==
  ASSUME BlocksInv, FlowInv, [Next]_vars
  PROVE  FlowInv'
<1>1. CASE Calls
  BY <1>1, LeafFlow, BeginFlow DEF Calls
<1>2. CASE Returns
  BY <1>2, ReturnFlow, GoOnFlow, LogicLeftFlow, IfConditionFlow, IfThenFlow, JoinFlow, RootFlow
     DEF Returns
<1>3. CASE UNCHANGED vars
  <2>1. UNCHANGED <<blocks, succ, phis, uses, at, local, frames, value>>
    BY <1>3 DEF vars
  <2> QED  BY <2>1 DEF FlowInv, PhiUses
<1> QED  BY <1>1, <1>2, <1>3 DEF Next

\* Whatever the calls under way and the scopes hold on to is visible wherever the
\* builder may still go before they return, for every program.
THEOREM ValuesStayVisible == Spec => [](BlocksInv /\ FlowInv)
<1>1. Init => BlocksInv /\ FlowInv
  BY InitBlocks, InitFlow
<1>2. (BlocksInv /\ FlowInv) /\ [Next]_vars => (BlocksInv /\ FlowInv)'
  BY NextBlocks, NextFlow
<1> QED  BY <1>1, <1>2, PTL DEF Spec
-----------------------------------------------------------------------------
(* The blocks reached without passing through d, as the property computes   *)
(* them: a recursive function, which paths show to exist.                   *)

\* What holds of 0 and of the next of each holds of every number.
LEMMA InductiveSet ==
  ASSUME NEW M \in SUBSET Nat, 0 \in M, \A k \in M : k + 1 \in M
  PROVE  M = Nat
<1> DEFINE G == Nat \ M
           Less == {p \in Nat \X Nat : p[1] < p[2]}
<1>1. IsWellFoundedOn(Less, Nat)
  BY NatLessThanWellFounded DEF OpToRel
<1>2. ASSUME G # {} PROVE FALSE
  <2>1. G \subseteq Nat
    OBVIOUS
  <2>2. PICK x \in G : \A y \in G : ~(<<y, x>> \in Less)
    <3> HIDE DEF G, Less
    <3> QED  BY <1>1, <1>2, <2>1, WFMin
  <2>3. x \in Nat \ {0} /\ x - 1 \in Nat /\ (x - 1) + 1 = x /\ x - 1 < x
    OBVIOUS
  <2>4. x - 1 \notin M
    BY <2>3
  <2>5. <<x - 1, x>> \in Less
    BY <2>3
  <2> QED  BY <2>2, <2>3, <2>4, <2>5
<1> QED  BY <1>2

Start(d) == {1} \ {d}
Further(S, d, R) == R \cup ((UNION {S[b] : b \in R}) \ {d})
IsReach(S, d, f) == f = [k \in Nat |-> IF k = 0 THEN Start(d) ELSE Further(S, d, f[k - 1])]

Paths(S, d, N, k) ==
    {p \in [0 .. k -> N \ {d}] :
        p[0] = 1 /\ \A i \in 1 .. k : p[i] = p[i - 1] \/ p[i] \in S[p[i - 1]]}

LEMMA ReachExists ==
  ASSUME NEW N, 1 \in N, NEW S \in [N -> SUBSET N], NEW d
  PROVE  \E f : IsReach(S, d, f)
<1> DEFINE P(k) == Paths(S, d, N, k)
           F == [k \in Nat |-> {p[k] : p \in P(k)}]
<1>1. F[0] = Start(d)
  <2>1. ASSUME NEW p \in P(0) PROVE p[0] \in Start(d)
    <3>1. p \in [0 .. 0 -> N \ {d}] /\ p[0] = 1 /\ 0 \in 0 .. 0
      BY DEF Paths
    <3> QED  BY <3>1 DEF Start
  <2>2. ASSUME 1 # d PROVE 1 \in F[0]
    <3> DEFINE p == [i \in 0 .. 0 |-> 1]
    <3>1. p \in P(0) /\ p[0] = 1
      BY <2>2 DEF Paths
    <3> QED  BY <3>1
  <2> QED  BY <2>1, <2>2 DEF Start
<1>2. ASSUME NEW k \in Nat, k # 0 PROVE F[k] = Further(S, d, F[k - 1])
  <2> DEFINE h == k - 1
  <2>1. /\ h \in Nat
        /\ 0 .. h \subseteq 0 .. k /\ 1 .. h \subseteq 1 .. k /\ h \in 0 .. k
        /\ k \in 1 .. k /\ k \in 0 .. k /\ 0 \in 0 .. h /\ h \in 0 .. h
        /\ k \notin 0 .. h /\ k # 0
        /\ \A i \in 0 .. k : i = k \/ i \in 0 .. h
        /\ \A i \in 1 .. k : i = k \/ i \in 1 .. h
        /\ \A i \in 1 .. h : i # k /\ i - 1 # k /\ i \in 0 .. h /\ i - 1 \in 0 .. h
    BY <1>2
  <2>2. ASSUME NEW p \in P(k) PROVE p[k] \in Further(S, d, F[h])
    <3> DEFINE q == [i \in 0 .. h |-> p[i]]
    <3>1. p \in [0 .. k -> N \ {d}] /\ p[0] = 1
          /\ \A i \in 1 .. k : p[i] = p[i - 1] \/ p[i] \in S[p[i - 1]]
      BY DEF Paths
    <3>2. q \in [0 .. h -> N \ {d}] /\ q[0] = 1 /\ q[h] = p[h]
      BY <2>1, <3>1
    <3>3. \A i \in 1 .. h : q[i] = p[i] /\ q[i - 1] = p[i - 1]
      BY <2>1
    <3>4. q \in P(h)
      <4> HIDE DEF q, h
      <4> QED  BY <2>1, <3>1, <3>2, <3>3 DEF Paths
    <3>5. p[h] \in F[h]
      BY <2>1, <3>2, <3>4
    <3>6. p[k] = p[h] \/ p[k] \in S[p[h]]
      BY <2>1, <3>1
    <3>7. p[k] # d
      BY <2>1, <3>1
    <3> HIDE DEF F, h
    <3> QED  BY <3>5, <3>6, <3>7 DEF Further
  <2>3. ASSUME NEW b \in Further(S, d, F[h]) PROVE b \in F[k]
    <3>1. PICK c \in F[h] : b = c \/ (b \in S[c] /\ b # d)
      <4> HIDE DEF F, h
      <4> QED  BY DEF Further
    <3>2. PICK q \in P(h) : c = q[h]
      BY <2>1
    <3>3. q \in [0 .. h -> N \ {d}] /\ q[0] = 1
          /\ \A i \in 1 .. h : q[i] = q[i - 1] \/ q[i] \in S[q[i - 1]]
      BY DEF Paths
    <3>4. b \in N \ {d}
      BY <2>1, <3>1, <3>2, <3>3
    <3> DEFINE p == [i \in 0 .. k |-> IF i = k THEN b ELSE q[i]]
    <3>5. p \in [0 .. k -> N \ {d}] /\ p[0] = 1 /\ p[k] = b /\ p[h] = c
      BY <2>1, <3>2, <3>3, <3>4
    <3>6. \A i \in 1 .. h : p[i] = q[i] /\ p[i - 1] = q[i - 1]
      BY <2>1
    <3>7. p \in P(k)
      <4> HIDE DEF p
      <4>1. \A i \in 1 .. h : p[i] = p[i - 1] \/ p[i] \in S[p[i - 1]]
        BY <3>3, <3>6
      <4>2. p[k] = p[k - 1] \/ p[k] \in S[p[k - 1]]
        BY <3>1, <3>5
      <4> HIDE DEF h
      <4>3. \A i \in 1 .. k : p[i] = p[i - 1] \/ p[i] \in S[p[i - 1]]
        BY <2>1, <4>1, <4>2
      <4> QED  BY <3>5, <4>3 DEF Paths
    <3> HIDE DEF p, P
    <3> QED  BY <3>5, <3>7
  <2>4. ASSUME NEW b \in F[k] PROVE b \in Further(S, d, F[h])
    <3>1. PICK p \in P(k) : b = p[k]
      OBVIOUS
    <3> HIDE DEF F, P, h
    <3> QED  BY <2>2, <3>1
  <2> HIDE DEF F
  <2> QED  BY <2>3, <2>4
<1>3. DOMAIN F = Nat /\ F = [k \in Nat |-> F[k]]
  OBVIOUS
<1> HIDE DEF F
<1>4. F = [k \in Nat |-> IF k = 0 THEN Start(d) ELSE Further(S, d, F[k - 1])]
  BY <1>1, <1>2, <1>3
<1>5. IsReach(S, d, F)
  BY <1>4 DEF IsReach
<1> QED  BY <1>5

\* What is reached without passing through d stays in a set that d closes.
LEMMA ReachAvoids ==
  ASSUME NEW n, NEW S, GraphType(S, n), NEW d, NEW X, Avoids(S, n, d, X),
         NEW f, IsReach(S, d, f), NEW k \in Nat
  PROVE  f[k] \subseteq X
<1> DEFINE M == {i \in Nat : f[i] \subseteq X}
<1>1. \A i \in Nat : f[i] = IF i = 0 THEN Start(d) ELSE Further(S, d, f[i - 1])
  BY DEF IsReach
<1>2. 0 \in M
  <2>1. f[0] = Start(d)
    BY <1>1
  <2> QED  BY <2>1 DEF Start, Avoids
<1>3. ASSUME NEW i \in M PROVE i + 1 \in M
  <2>1. i \in Nat /\ i + 1 \in Nat /\ i + 1 # 0 /\ (i + 1) - 1 = i
    OBVIOUS
  <2>2. f[i + 1] = Further(S, d, f[i])
    BY <1>1, <2>1
  <2>3. Further(S, d, f[i]) \subseteq X
    BY DEF Further, Avoids
  <2> QED  BY <2>1, <2>2, <2>3
<1>4. M = Nat
  <2>1. M \in SUBSET Nat
    OBVIOUS
  <2> HIDE DEF M
  <2> QED  BY <1>2, <1>3, <2>1, InductiveSet
<1> QED  BY <1>4

\* Dom says what the property does.
LEMMA DomIsDominates ==
  ASSUME GraphType(succ, blocks), NEW d, NEW b, Dom(succ, blocks, d, b)
  PROVE  Dominates(d, b)
<1> SUFFICES ASSUME d # Constant PROVE b \notin ReachableAvoiding(d)
  BY DEF Dominates
<1>1. PICK X : Avoids(succ, blocks, d, X) /\ b \notin X
  BY DEF Dom
<1>2. 1 \in 1 .. blocks /\ blocks \in Nat /\ succ \in [1 .. blocks -> SUBSET (1 .. blocks)]
  BY DEF GraphType
<1> DEFINE reach == CHOOSE f : IsReach(succ, d, f)
<1>3. \E f : IsReach(succ, d, f)
  BY <1>2, ReachExists
<1>4. IsReach(succ, d, reach)
  BY <1>3
<1>5. ReachableAvoiding(d) = reach[blocks]
  BY Zenon DEF ReachableAvoiding, IsReach, Start, Further
<1> HIDE DEF reach
<1>6. reach[blocks] \subseteq X
  BY <1>1, <1>2, <1>4, ReachAvoids
<1> QED  BY <1>1, <1>5, <1>6

\* In the function of any program, every value an instruction uses is computed on every
\* path to it, and every value a phi takes on every path to the block it takes it from.
THEOREM ValuesAlwaysDominateUses == Spec => []ValuesDominateUses
<1>1. BlocksInv /\ FlowInv => ValuesDominateUses
  <2> SUFFICES ASSUME BlocksInv, FlowInv PROVE ValuesDominateUses
    OBVIOUS
  <2>1. GraphType(succ, blocks)
    BY DEF BlocksInv, Graph
  <2>2. \A u \in uses \cup PhiUses : Dom(succ, blocks, u[1], u[2])
    BY DEF FlowInv, Used
  <2>3. \A u \in uses : Dominates(u[1], u[2])
    BY <2>1, <2>2, DomIsDominates
  <2>4. ASSUME NEW p \in phis, NEW i \in 1 .. 2
        PROVE  Dominates(p.values[i], p.incoming[i])
    <3>1. <<p.values[i], p.incoming[i]>> \in PhiUses
      BY DEF PhiUses
    <3>2. Dom(succ, blocks, p.values[i], p.incoming[i])
      BY <2>2, <3>1
    <3> QED  BY <2>1, <3>2, DomIsDominates
  <2> QED  BY <2>3, <2>4 DEF ValuesDominateUses
<1> QED  BY <1>1, ValuesStayVisible, PTL
=============================================================================
