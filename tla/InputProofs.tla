----------------------------- MODULE InputProofs ----------------------------
(***************************************************************************)
(* Proofs about the way of a program into the parser, for every file, for  *)
(* all the lines that may be typed and whatever the parser asks for: the   *)
(* reader, the prompt and the lexer as main() runs them.                   *)
(***************************************************************************)
EXTENDS Input, LexerProofs

-----------------------------------------------------------------------------
(* The loop that reads a file, whatever the sizes of the buffer and of what *)
(* fgets is given.                                                          *)

NoNul(s) == \A j \in DOMAIN s : s[j] # Nul

\* What every turn keeps: at the end of the file there is nothing left of it.
Typed == /\ file \in Seq(Chars) /\ buffer \in Seq(Chars)
         /\ offset \in 0 .. Len(file) /\ size \in Nat /\ at_end \in BOOLEAN
AtEnd == /\ at_end => offset = Len(file)
         /\ reading = "read" => at_end
ReaderInv == Typed /\ Room >= 2 /\ TextKept /\ AtEnd

\* fgets is given room for at least a character behind what is there.
LEMMA LimitBounds ==
  ASSUME Typed, Room >= 2
  PROVE  Limit \in Nat /\ Limit >= 1 /\ Limit + 1 <= Room
BY SizesAssumption, LenProperties DEF Typed, Room, Limit

\* The buffer and k more characters, of which only fgets knows where they end.
LEMMA PieceBounds ==
  ASSUME Typed, NEW k \in Nat, offset + k <= Len(file)
  PROVE  /\ Piece(k) \in Seq(Chars)
         /\ Len(Piece(k)) = Len(buffer) + k
<1> DEFINE more == SubSeq(file, offset + 1, offset + k)
<1>1. more \in Seq(Chars) /\ Len(more) = k
  <2>1. offset \in Nat /\ Len(file) \in Nat
    BY LenProperties DEF Typed
  <2>2. \A j \in offset + 1 .. offset + k : file[j] \in Chars
    BY <2>1, ElementOfSeq DEF Typed
  <2> QED  BY <2>1, <2>2, SubSeqProperties
<1>2. Piece(k) = buffer \o more
  BY DEF Piece
<1> HIDE DEF more
<1> QED  BY <1>1, <1>2, ConcatProperties DEF Typed

\* What the buffer holds stops at the end of the piece or before.
LEMMA CutBounds ==
  ASSUME NEW s \in Seq(Chars), NEW n \in 0 .. Len(s)
  PROVE  SubSeq(s, 1, n) \in Seq(Chars) /\ Len(SubSeq(s, 1, n)) = n
<1>1. Len(s) \in Nat /\ \A j \in 1 .. n : s[j] \in Chars
  BY LenProperties, ElementOfSeq
<1> QED  BY <1>1, SubSeqProperties

\* Of a text without a NUL the piece is what has been read of it by then.
LEMMA PieceOfText ==
  ASSUME Typed, NEW k \in Nat, offset + k <= Len(file), buffer = SubSeq(file, 1, offset)
  PROVE  Piece(k) = SubSeq(file, 1, offset + k)
<1>1. /\ Len(file) \in Nat /\ offset \in 0 .. Len(file)
      /\ offset + k \in offset .. Len(file)
  BY LenProperties DEF Typed
<1> QED  BY <1>1, ConcatAdjacentSubSeq, 1 \in 1 .. Len(file) + 1 DEF Typed, Piece

\* And it has no NUL to be cut at.
LEMMA NothingCut ==
  ASSUME NEW f \in Seq(Chars), NoNul(f), NEW m \in 0 .. Len(f),
         NEW n \in 0 .. m, Terminates(SubSeq(f, 1, m), n)
  PROVE  n = m
<1>1. Len(f) \in Nat /\ Len(SubSeq(f, 1, m)) = m
  BY CutBounds, LenProperties
<1>2. ASSUME n < m
      PROVE  FALSE
  <2>1. SubSeq(f, 1, m)[n + 1] = Nul
    BY <1>1, <1>2 DEF Terminates
  <2>2. \A j \in 1 .. m : f[j] \in Chars
    BY <1>1, ElementOfSeq
  <2>3. SubSeq(f, 1, m)[n + 1] = f[n + 1]
    BY <1>1, <1>2, <2>2, SubSeqProperties
  <2>4. n + 1 \in DOMAIN f
    BY <1>1, <1>2, LenProperties
  <2> QED  BY <2>1, <2>3, <2>4 DEF NoNul
<1> QED  BY <1>1, <1>2
-----------------------------------------------------------------------------
\* One turn of the loop: it gets further or meets the end, and leaves the room for
\* the next.
LEMMA ReadSomeStep ==
  ASSUME ReaderInv, ReadSome
  PROVE  ReaderInv' /\ (offset' > offset \/ at_end')
<1>1. PICK k \in 0 .. Limit :
         /\ Takes(k)
         /\ \E n \in 0 .. Len(Piece(k)) :
               Terminates(Piece(k), n) /\ buffer' = SubSeq(Piece(k), 1, n)
         /\ offset' = offset + k
         /\ at_end' = MeetsEnd(k)
  BY DEF ReadSome
<1>2. PICK n \in 0 .. Len(Piece(k)) :
         Terminates(Piece(k), n) /\ buffer' = SubSeq(Piece(k), 1, n)
  BY <1>1
<1>3. file' = file /\ reading = "reading" /\ reading' = reading /\ size' = Grown(Len(buffer'))
  BY DEF ReadSome
<1>4. Typed /\ Room >= 2 /\ TextKept
  BY DEF ReaderInv
<1>5. /\ Limit \in Nat /\ Limit >= 1 /\ Limit + 1 <= Room
      /\ k \in Nat /\ offset + k <= Len(file) /\ offset \in Nat /\ Len(file) \in Nat
  BY <1>1, <1>4, LimitBounds, LenProperties DEF Takes, Typed
<1>6. Piece(k) \in Seq(Chars) /\ Len(Piece(k)) = Len(buffer) + k
  BY <1>4, <1>5, PieceBounds
<1>7. buffer' \in Seq(Chars) /\ Len(buffer') = n
  BY <1>2, <1>6, CutBounds
<1>8. Len(buffer) \in Nat /\ size \in Nat /\ n \in Nat /\ n <= Len(buffer) + k
  BY <1>4, <1>6, LenProperties DEF Typed
<1>9. n + 1 <= size
  BY <1>1, <1>5, <1>8 DEF Room
<1>10. Typed'
  <2>1. at_end' \in BOOLEAN
    BY <1>1 DEF MeetsEnd
  <2>2. size' \in Nat
    BY <1>3, <1>7, <1>8 DEF Grown
  <2>3. offset' \in 0 .. Len(file')
    BY <1>1, <1>3, <1>5
  <2> QED  BY <1>3, <1>4, <1>7, <2>1, <2>2, <2>3 DEF Typed
<1>11. (Room >= 2)'
  <2>1. CASE n + 1 >= size
    <3>1. size' = 2 * size /\ size >= 2
      BY <1>3, <1>4, <1>7, <1>8, <2>1 DEF Grown, Room
    <3> QED  BY <1>7, <1>8, <1>9, <2>1, <3>1 DEF Room
  <2>2. CASE ~(n + 1 >= size)
    <3>1. size' = size
      BY <1>3, <1>7, <2>2 DEF Grown
    <3> QED  BY <1>7, <1>8, <2>2, <3>1 DEF Room
  <2> QED  BY <2>1, <2>2
<1>12. TextKept'
  <2>1. SUFFICES ASSUME NoNul(file)
                 PROVE  buffer' = SubSeq(file, 1, offset')
    BY <1>3 DEF TextKept, NoNul
  <2>2. buffer = SubSeq(file, 1, offset)
    BY <1>4, <2>1 DEF TextKept, NoNul
  <2>3. Piece(k) = SubSeq(file, 1, offset + k)
    BY <1>4, <1>5, <2>2, PieceOfText
  <2>4. file \in Seq(Chars) /\ offset + k \in 0 .. Len(file)
    BY <1>4, <1>5 DEF Typed
  <2>5. Len(Piece(k)) = offset + k
    BY <2>3, <2>4, CutBounds
  <2>6. n = offset + k
    BY <1>2, <2>1, <2>3, <2>4, <2>5, NothingCut
  <2>7. SubSeq(Piece(k), 1, Len(Piece(k))) = Piece(k)
    BY <1>6, SubSeqFull
  <2> QED  BY <1>1, <1>2, <2>3, <2>5, <2>6, <2>7
<1>13. k = Limit \/ offset + k = Len(file) \/ EndsLine(k)
  BY <1>1 DEF Takes
<1>14. offset' = offset + k /\ (at_end' <=> (k < Limit /\ ~EndsLine(k)))
  BY <1>1 DEF MeetsEnd
<1>15. AtEnd'
  <2>1. at_end' => k # Limit /\ ~EndsLine(k)
    BY <1>5, <1>14
  <2>2. at_end' => offset' = Len(file')
    BY <1>3, <1>13, <1>14, <2>1
  <2> QED  BY <1>3, <2>2 DEF AtEnd
<1>16. offset' > offset \/ at_end'
  <2>1. CASE k = 0
    <3>1. k < Limit /\ ~EndsLine(k)
      BY <1>5, <2>1 DEF EndsLine
    <3> QED  BY <1>14, <3>1
  <2>2. CASE k > 0
    BY <1>5, <1>14, <2>2
  <2> QED  BY <1>5, <2>1, <2>2
<1> QED  BY <1>10, <1>11, <1>12, <1>15, <1>16 DEF ReaderInv

LEMMA ReaderStep ==
  ASSUME ReaderInv, [ReaderNext]_readerVars
  PROVE  ReaderInv'
<1>1. CASE OpenFile
  BY <1>1 DEF OpenFile, ReaderInv, Typed, Room, TextKept, AtEnd
<1>2. CASE ReadSome
  BY <1>2, ReadSomeStep
<1>3. CASE EndReading
  BY <1>3 DEF EndReading, ReaderInv, Typed, Room, TextKept, AtEnd
<1>4. CASE UNCHANGED readerVars
  BY <1>4 DEF readerVars, ReaderInv, Typed, Room, TextKept, AtEnd
<1> QED  BY <1>1, <1>2, <1>3, <1>4 DEF ReaderNext

LEMMA ReaderStart == ReaderInit => ReaderInv
<1> SUFFICES ASSUME ReaderInit
             PROVE  ReaderInv
  OBVIOUS
<1>1. file \in Seq(Chars) /\ Len(file) \in Nat
  BY FilesAssumption, LenProperties DEF ReaderInit
<1>2. buffer \in Seq(Chars) /\ Len(buffer) = 0
  BY DEF ReaderInit
<1>3. offset = 0 /\ at_end = FALSE /\ size = FirstSize
  BY DEF ReaderInit
<1>4. Typed /\ Room >= 2
  <2>1. offset \in 0 .. Len(file) /\ size \in Nat
    BY <1>1, <1>3, SizesAssumption
  <2>2. at_end \in BOOLEAN
    BY <1>3
  <2>3. Typed
    BY <1>1, <1>2, <2>1, <2>2 DEF Typed
  <2>4. Room >= 2
    BY <1>2, <1>3, SizesAssumption DEF Room
  <2> QED  BY <2>3, <2>4
<1>5. TextKept
  BY SubSeqEmpty DEF ReaderInit, TextKept
<1> QED  BY <1>4, <1>5 DEF ReaderInit, ReaderInv, AtEnd
-----------------------------------------------------------------------------
\* Whatever the file, fgets never writes behind the buffer, and never is asked for
\* no character at all.
THEOREM BufferHasRoom == ReaderSpec => []RoomLeft
<1>1. ReaderInv => RoomLeft
  <2> SUFFICES ASSUME ReaderInv
               PROVE  RoomLeft
    OBVIOUS
  <2>1. Typed /\ Room >= 2
    BY DEF ReaderInv
  <2>2. Len(buffer) \in Nat /\ size \in Nat
    BY <2>1, LenProperties DEF Typed
  <2> QED  BY <2>1, <2>2, LimitBounds DEF RoomLeft, Room
<1> QED  BY <1>1, ReaderStart, ReaderStep, PTL DEF ReaderSpec

\* What is read is kept, piece after piece.
THEOREM TextIsKept == ReaderSpec => []TextKept
<1>1. ReaderInv => TextKept
  BY DEF ReaderInv
<1> QED  BY <1>1, ReaderStart, ReaderStep, PTL DEF ReaderSpec

\* And when the loop ends, it is all of the file.
WholeText == reading = "read" /\ NoNul(file) => buffer = file

\* That is so for every file and every size of the buffer.
THEOREM WholeTextRead == ReaderSpec => []WholeText
<1>1. ReaderInv => WholeText
  BY SubSeqFull DEF ReaderInv, Typed, TextKept, AtEnd, WholeText, NoNul
<1> QED  BY <1>1, ReaderStart, ReaderStep, PTL DEF ReaderSpec

\* No turn is in vain: the safety part of why the loop ends.
TurnsGetFurther == [][ReadSome => offset' > offset \/ at_end']_readerVars

\* No turn is, for whatever fgets is given room for.
THEOREM LoopGetsFurther == ReaderSpec => TurnsGetFurther
<1>1. ReaderInv /\ [ReaderNext]_readerVars => [ReadSome => offset' > offset \/ at_end']_readerVars
  BY ReadSomeStep
<1> QED  BY <1>1, ReaderStart, ReaderStep, PTL DEF ReaderSpec, TurnsGetFurther

-----------------------------------------------------------------------------
(* Counting brackets.                                                      *)

Places(s, chars) == {k \in 1 .. Len(s) : s[k] \in chars}

LEMMA CountIs ==
  ASSUME NEW S, NEW s \in Seq(S), NEW chars
  PROVE  /\ Count(s, chars) = Cardinality(Places(s, chars)) /\ Count(s, chars) \in Nat
         /\ IsFiniteSet(Places(s, chars)) /\ Len(s) \in Nat /\ DOMAIN s = 1 .. Len(s)
<1>1. Len(s) \in Nat /\ DOMAIN s = 1 .. Len(s)
  BY LenProperties
<1>2. Places(s, chars) \in SUBSET (1 .. Len(s)) /\ IsFiniteSet(1 .. Len(s))
  BY <1>1, FS_Interval DEF Places
<1>3. IsFiniteSet(Places(s, chars))
  BY <1>2, FS_Subset
<1>4. Count(s, chars) = Cardinality(Places(s, chars))
  BY <1>1 DEF Count, Places
<1> QED  BY <1>1, <1>3, <1>4, FS_CardinalityType

\* The brackets of two texts are those of the one and those of the other.
LEMMA CountOfConcat ==
  ASSUME NEW S, NEW s \in Seq(S), NEW t \in Seq(S), NEW chars
  PROVE  Count(s \o t, chars) = Count(s, chars) + Count(t, chars)
<1> DEFINE l == Len(s)
           A == Places(s, chars)
           B == Places(t, chars)
           D == {l + k : k \in B}
<1>1. /\ s \o t \in Seq(S) /\ Len(s \o t) = l + Len(t)
      /\ \A k \in 1 .. l + Len(t) : (s \o t)[k] = IF k <= l THEN s[k] ELSE t[k - l]
  BY ConcatProperties
<1>2. l \in Nat /\ Len(t) \in Nat /\ IsFiniteSet(A) /\ IsFiniteSet(B)
  BY CountIs
<1>3. A \subseteq 1 .. l /\ B \subseteq 1 .. Len(t)
  BY DEF Places
<1>4. A \cap D = {}
  <2> SUFFICES ASSUME NEW k \in B, l + k \in A PROVE FALSE
    OBVIOUS
  <2> QED  BY <1>2, <1>3
<1>5. Places(s \o t, chars) = A \cup D
  <2>1. ASSUME NEW k \in Places(s \o t, chars) PROVE k \in A \cup D
    <3>1. k \in 1 .. l + Len(t) /\ (s \o t)[k] \in chars
      BY <1>1, <2>1 DEF Places
    <3>2. CASE k <= l
      BY <1>1, <1>2, <3>1, <3>2 DEF Places
    <3>3. CASE ~(k <= l)
      <4>1. k - l \in 1 .. Len(t) /\ t[k - l] \in chars /\ k = l + (k - l)
        BY <1>1, <1>2, <3>1, <3>3
      <4>2. k - l \in B
        BY <4>1 DEF Places
      <4> HIDE DEF B
      <4> QED  BY <4>1, <4>2
    <3> QED  BY <3>2, <3>3
  <2>2. ASSUME NEW k \in A PROVE k \in Places(s \o t, chars)
    <3>1. k \in 1 .. l /\ s[k] \in chars
      BY DEF Places
    <3>2. k \in 1 .. l + Len(t) /\ k <= l
      BY <1>2, <3>1
    <3> QED  BY <1>1, <3>1, <3>2 DEF Places
  <2>3. ASSUME NEW k \in B PROVE l + k \in Places(s \o t, chars)
    <3>1. k \in 1 .. Len(t) /\ t[k] \in chars
      BY DEF Places
    <3>2. l + k \in 1 .. l + Len(t) /\ ~(l + k <= l) /\ (l + k) - l = k
      BY <1>2, <3>1
    <3>3. (s \o t)[l + k] = t[k]
      BY <1>1, <3>2
    <3> QED  BY <1>1, <3>1, <3>2, <3>3 DEF Places
  <2> QED  BY <2>1, <2>2, <2>3
<1>6. IsFiniteSet(D) /\ Cardinality(D) = Cardinality(B)
  <2> DEFINE f == [k \in B |-> l + k]
  <2>1. f \in [B -> D]
    OBVIOUS
  <2>2. \A j, k \in B : f[j] = f[k] => j = k
    BY <1>2, <1>3
  <2>3. \A d \in D : \E k \in B : f[k] = d
    OBVIOUS
  <2> HIDE DEF f, B, D
  <2>4. f \in Bijection(B, D)
    BY <2>1, <2>2, <2>3 DEF Bijection, Injection, Surjection, IsInjective
  <2> QED  BY <1>2, <2>4, FS_Bijection DEF ExistsBijection
<1>7. Cardinality(A \cup D) = Cardinality(A) + Cardinality(D)
  <2> HIDE DEF A, D
  <2>1. Cardinality(A \cup D) = Cardinality(A) + Cardinality(D) - Cardinality(A \cap D)
    BY <1>2, <1>6, FS_Union
  <2>2. Cardinality(A \cap D) = 0 /\ Cardinality(A) \in Nat /\ Cardinality(D) \in Nat
    BY <1>2, <1>4, <1>6, FS_EmptySet, FS_CardinalityType
  <2> QED  BY <2>1, <2>2
<1> HIDE DEF A, B, D
<1>8. Count(s \o t, chars) = Cardinality(A \cup D)
  BY <1>1, <1>5, CountIs
<1>9. Count(s, chars) = Cardinality(A) /\ Count(t, chars) = Cardinality(B)
  BY CountIs DEF A, B
<1> QED  BY <1>6, <1>7, <1>8, <1>9

LEMMA SubSeqIs ==
  ASSUME NEW S, NEW s \in Seq(S), NEW n \in 0 .. Len(s)
  PROVE  SubSeq(s, 1, n) \in Seq(S) /\ Len(SubSeq(s, 1, n)) = n
<1>1. Len(s) \in Nat
  BY LenProperties
<1>2. n \in Int /\ (\A k \in 1 .. n : s[k] \in S) /\ (1 <= n \/ n = 0)
  BY <1>1, ElementOfSeq
<1> QED  BY <1>2, SubSeqProperties

LEMMA LevelIs ==
  ASSUME NEW S, NEW s \in Seq(S), NEW p \in Int, NEW n \in 0 .. Len(s)
  PROVE  Level(s, p, n) \in Int
<1>1. SubSeq(s, 1, n) \in Seq(S)
  BY SubSeqIs
<1>2. Count(SubSeq(s, 1, n), Opening) \in Nat /\ Count(SubSeq(s, 1, n), Closing) \in Nat
  BY <1>1, CountIs
<1> QED  BY <1>2 DEF Level

\* What is behind a text starts at the level where the text ends.
LEMMA LevelOfConcat ==
  ASSUME NEW S, NEW s \in Seq(S), NEW t \in Seq(S)
  PROVE  /\ \A n \in 0 .. Len(s) : Level(s \o t, 0, n) = Level(s, 0, n)
         /\ \A n \in 0 .. Len(t) : Level(s \o t, 0, Len(s) + n) = Level(t, Level(s, 0, Len(s)), n)
<1>1. Len(s) \in Nat /\ Len(t) \in Nat /\ s \o t \in Seq(S) /\ Len(s \o t) = Len(s) + Len(t)
  BY LenProperties, ConcatProperties
<1>2. ASSUME NEW n \in 0 .. Len(s)
      PROVE  Level(s \o t, 0, n) = Level(s, 0, n)
  <2>1. CASE n = 0
    <3>1. SubSeq(s \o t, 1, 0) = <<>> /\ SubSeq(s, 1, 0) = <<>>
      BY SubSeqEmpty
    <3> QED  BY <2>1, <3>1 DEF Level
  <2>2. CASE n # 0
    <3>1. n \in 1 .. Len(s) /\ 1 \in 1 .. Len(s)
      BY <1>1, <2>2
    <3>2. SubSeq(s \o t, 1, n) = SubSeq(s, 1, n)
      BY <3>1, SubSeqOfConcat1
    <3> QED  BY <3>2 DEF Level
  <2> QED  BY <2>1, <2>2
<1>3. ASSUME NEW n \in 0 .. Len(t)
      PROVE  Level(s \o t, 0, Len(s) + n) = Level(t, Level(s, 0, Len(s)), n)
  <2> DEFINE u == SubSeq(t, 1, n)
  <2>1. u \in Seq(S) /\ Len(u) = n
    BY SubSeqIs
  <2>2. SubSeq(s \o t, 1, Len(s) + n) = s \o u
    <3> DEFINE a == SubSeq(s \o t, 1, Len(s) + n)
    <3>1. Len(s) + n \in 0 .. Len(s \o t)
      BY <1>1
    <3>2. a \in Seq(S) /\ Len(a) = Len(s) + n
      BY <1>1, <3>1, SubSeqIs
    <3>3. \A k \in 1 .. Len(s) + n : a[k] = (s \o t)[k]
      <4>1. \A k \in 1 .. Len(s) + n : (s \o t)[k] \in S
        BY <1>1, ElementOfSeq
      <4> QED  BY <1>1, <4>1, SubSeqProperties
    <3>4. \A k \in 1 .. n : u[k] = t[k]
      <4>1. \A k \in 1 .. n : t[k] \in S
        BY <1>1, ElementOfSeq
      <4> QED  BY <1>1, <4>1, SubSeqProperties
    <3>5. s \o u \in Seq(S) /\ Len(s \o u) = Len(s) + n
      BY <2>1, ConcatProperties
    <3>6. ASSUME NEW k \in 1 .. Len(s) + n PROVE a[k] = (s \o u)[k]
      <4>1. k \in 1 .. Len(s) + Len(t)
        BY <1>1
      <4>2. (s \o t)[k] = IF k <= Len(s) THEN s[k] ELSE t[k - Len(s)]
        BY <4>1, ConcatProperties
      <4>3. (s \o u)[k] = IF k <= Len(s) THEN s[k] ELSE u[k - Len(s)]
        BY <2>1, ConcatProperties
      <4>4. ~(k <= Len(s)) => k - Len(s) \in 1 .. n
        BY <1>1
      <4> HIDE DEF a, u
      <4> QED  BY <3>3, <3>4, <4>2, <4>3, <4>4
    <3> HIDE DEF a, u
    <3>7. a = s \o u
      BY <3>2, <3>5, <3>6, SeqEqual
    <3> QED  BY <3>7 DEF a
  <2>3. Count(s \o u, Opening) = Count(s, Opening) + Count(u, Opening)
    BY <2>1, CountOfConcat
  <2>4. Count(s \o u, Closing) = Count(s, Closing) + Count(u, Closing)
    BY <2>1, CountOfConcat
  <2>5. SubSeq(s, 1, Len(s)) = s
    BY SubSeqFull
  <2>6. /\ Count(s, Opening) \in Nat /\ Count(u, Opening) \in Nat
        /\ Count(s, Closing) \in Nat /\ Count(u, Closing) \in Nat
    BY <2>1, CountIs
  <2> DEFINE x == Level(s, 0, Len(s))
  <2>7. x = 0 + Count(s, Opening) - Count(s, Closing)
    BY <2>5 DEF Level
  <2>8. Level(s \o t, 0, Len(s) + n) = 0 + Count(s \o u, Opening) - Count(s \o u, Closing)
    BY <2>2 DEF Level
  <2>9. Level(t, x, n) = x + Count(u, Opening) - Count(u, Closing)
    BY DEF Level
  <2> HIDE DEF x, u
  <2> QED  BY <2>3, <2>4, <2>6, <2>7, <2>8, <2>9 DEF x
<1> QED  BY <1>2, <1>3

LEMMA CountGroupingsIs ==
  ASSUME NEW S, NEW line \in Seq(S), NEW p \in Int
  PROVE  /\ CountGroupings(line, p) \in Int
         /\ (\A n \in 1 .. Len(line) : Level(line, p, n) >= 0)
               => CountGroupings(line, p) = Level(line, p, Len(line))
<1> DEFINE excessive == {n \in DOMAIN line : line[n] \in Closing /\ Level(line, p, n) < 0}
           end == IF excessive = {} THEN Len(line) ELSE Min(excessive)
<1>1. Len(line) \in Nat /\ DOMAIN line = 1 .. Len(line)
  BY LenProperties
<1>2. CountGroupings(line, p) = Level(line, p, end)
  BY DEF CountGroupings
<1>3. excessive # {} => Min(excessive) \in excessive
  <2>1. SUFFICES ASSUME excessive # {} PROVE \E n \in excessive : \A k \in excessive : n <= k
    BY DEF Min
  <2> DEFINE Less == {q \in Nat \X Nat : q[1] < q[2]}
  <2>2. IsWellFoundedOn(Less, Nat)
    BY NatLessThanWellFounded DEF OpToRel
  <2>3. excessive \subseteq Nat
    BY <1>1
  <2> HIDE DEF excessive, Less
  <2>4. PICK n \in excessive : \A k \in excessive : ~(<<k, n>> \in Less)
    BY <2>1, <2>2, <2>3, WFMin
  <2>5. \A k \in excessive : ~(k < n) /\ k \in Nat /\ n \in Nat
    BY <2>3, <2>4 DEF Less
  <2> QED  BY <2>5
<1>4. end \in 0 .. Len(line)
  <2>1. \A k \in excessive : k \in 0 .. Len(line)
    BY <1>1
  <2> HIDE DEF excessive
  <2> QED  BY <1>1, <1>3, <2>1
<1>5. Level(line, p, end) \in Int
  BY <1>4, LevelIs
<1>6. ASSUME \A n \in 1 .. Len(line) : Level(line, p, n) >= 0
      PROVE  excessive = {}
  <2> SUFFICES ASSUME NEW n \in excessive PROVE FALSE
    OBVIOUS
  <2>1. n \in 1 .. Len(line) /\ Level(line, p, n) < 0
    BY <1>1
  <2>2. Level(line, p, n) \in Int /\ Level(line, p, n) >= 0
    <3>1. n \in 0 .. Len(line)
      BY <1>1, <2>1
    <3> QED  BY <1>6, <2>1, <3>1, LevelIs
  <2> QED  BY <2>1, <2>2
<1> HIDE DEF excessive
<1> QED  BY <1>2, <1>5, <1>6

-----------------------------------------------------------------------------
(* The prompt.                                                             *)

NulFree == Character \ {Nul}
Opens(s) == \A n \in 1 .. Len(s) : Level(s, 0, n) >= 0

\* The level that is counted line by line is that of all the lines.
LineInv == /\ input \in Seq(NulFree) /\ groupings \in Int
           /\ prompt \in {"first", "more", "done", "exited", "undefined"}
           /\ lines_read \in 0 .. MaxLines
           /\ prompt \in {"more", "done"} /\ Opens(input) => groupings = Level(input, 0, Len(input))
           /\ prompt = "done" => groupings <= 0

LEMMA LineStarts ==
  ASSUME LineInit
  PROVE  LineInv
BY EmptySeq, LinesAssumption DEF LineInit, LineInv

\* The loop goes on with a text or ends.
LEMMA GoesStep ==
  ASSUME LineInv, NEW s \in Seq(NulFree), NEW p \in Int, Goes(s, p),
         lines_read < MaxLines, lines_read' = lines_read + 1,
         Opens(s) => p = Level(s, 0, Len(s))
  PROVE  LineInv'
<1>1. PICK more \in Continues(s, p) : prompt' = IF more THEN "more" ELSE "done"
  BY DEF Goes
<1>2. input' = s /\ groupings' = p
  BY DEF Goes
<1>3. prompt' \in {"more", "done"}
  BY <1>1
<1>4. prompt' = "done" => ~(p > 0)
  <2> SUFFICES ASSUME p > 0 PROVE more
    BY <1>1
  <2>1. Continues(s, p) \subseteq {TRUE}
    BY DEF Continues
  <2> QED  BY <1>1, <2>1
<1>5. lines_read' \in 0 .. MaxLines
  BY LinesAssumption DEF LineInv
<1> QED  BY <1>2, <1>3, <1>4, <1>5 DEF LineInv

LEMMA FirstLineStep ==
  ASSUME LineInv, NEW line, line \in Seq(NulFree) \/ line \in {EndOfInput, QuitLine}, FirstLine(line)
  PROVE  LineInv'
<1>1. lines_read < MaxLines /\ lines_read' = lines_read + 1 /\ prompt = "first"
  BY DEF FirstLine, Asks
<1>2. CASE line \in {EndOfInput, QuitLine}
  <2>1. prompt' = "exited" /\ UNCHANGED <<input, groupings>>
    BY <1>2 DEF FirstLine, Leaves
  <2>2. lines_read' \in 0 .. MaxLines
    BY <1>1, LinesAssumption DEF LineInv
  <2> QED  BY <2>1, <2>2 DEF LineInv
<1>3. CASE line \notin {EndOfInput, QuitLine}
  <2>1. Goes(line, CountGroupings(line, 0)) /\ line \in Seq(NulFree)
    BY <1>3 DEF FirstLine
  <2>2. /\ CountGroupings(line, 0) \in Int
        /\ Opens(line) => CountGroupings(line, 0) = Level(line, 0, Len(line))
    BY <2>1, CountGroupingsIs DEF Opens
  <2> QED  BY <1>1, <2>1, <2>2, GoesStep
<1> QED  BY <1>2, <1>3

LEMMA NextLineStep ==
  ASSUME LineInv, NEW line, line \in Seq(NulFree) \/ line = EndOfInput, NextLine(line)
  PROVE  LineInv'
<1>1. lines_read < MaxLines /\ lines_read' = lines_read + 1 /\ prompt = "more"
  BY DEF NextLine, Asks
<1>2. CASE line = EndOfInput \/ line = <<>>
  <2>1. prompt' = "undefined" /\ UNCHANGED <<input, groupings>>
    BY <1>2 DEF NextLine, Leaves
  <2>2. lines_read' \in 0 .. MaxLines
    BY <1>1, LinesAssumption DEF LineInv
  <2> QED  BY <2>1, <2>2 DEF LineInv
<1>3. CASE ~(line = EndOfInput \/ line = <<>>)
  <2> DEFINE nl == <<"\n">>
             s == input \o nl
             p == CountGroupings(line, groupings)
  <2>1. Goes(s \o line, p) /\ line \in Seq(NulFree)
    BY <1>3 DEF NextLine, CountMore
  <2>2. input \in Seq(NulFree) /\ groupings \in Int /\ Len(input) \in Nat /\ Len(line) \in Nat
    BY <2>1, LenProperties DEF LineInv
  <2>3. nl \in Seq(NulFree) /\ Len(nl) = 1
    <3>1. "\n" \in NulFree
      BY DEF NulFree, Character, Nul
    <3> QED  BY <3>1
  <2>4. /\ s \in Seq(NulFree) /\ Len(s) = Len(input) + 1
        /\ s \o line \in Seq(NulFree) /\ Len(s \o line) = Len(s) + Len(line)
    BY <2>1, <2>2, <2>3, ConcatProperties
  <2>5. \A q \in Int : Level(nl, q, 1) = q
    <3>1. SubSeq(nl, 1, 1) = nl
      BY <2>3, SubSeqFull
    <3>2. "\n" \notin Opening /\ "\n" \notin Closing
      BY DEF Opening, Closing
    <3>3. \A k \in 1 .. Len(nl) : nl[k] = "\n"
      BY <2>3
    <3>4. Places(nl, Opening) = {} /\ Places(nl, Closing) = {}
      BY <3>2, <3>3 DEF Places
    <3> HIDE DEF nl
    <3>5. Count(nl, Opening) = 0 /\ Count(nl, Closing) = 0
      BY <2>3, <3>4, CountIs, FS_EmptySet
    <3>6. \A q \in Int : Level(nl, q, 1) = q + 0 - 0
      BY <3>1, <3>5 DEF Level
    <3> QED  BY <3>6
  <2> HIDE DEF nl
  <2>6. /\ \A n \in 0 .. Len(input) : Level(s, 0, n) = Level(input, 0, n)
        /\ Level(s, 0, Len(s)) = Level(input, 0, Len(input))
    <3>1. \A n \in 0 .. Len(nl) : Level(s, 0, Len(input) + n) = Level(nl, Level(input, 0, Len(input)), n)
      BY <2>2, <2>3, LevelOfConcat
    <3>2. Level(input, 0, Len(input)) \in Int
      BY <2>2, LevelIs
    <3>3. Level(s, 0, Len(input) + 1) = Level(nl, Level(input, 0, Len(input)), 1)
      BY <2>3, <3>1
    <3> QED  BY <2>2, <2>3, <2>4, <2>5, <3>2, <3>3, LevelOfConcat
  <2> HIDE DEF s
  <2>7. /\ \A n \in 0 .. Len(s) : Level(s \o line, 0, n) = Level(s, 0, n)
        /\ \A n \in 0 .. Len(line) : Level(s \o line, 0, Len(s) + n) = Level(line, Level(s, 0, Len(s)), n)
    BY <2>1, <2>4, LevelOfConcat
  <2>8. p \in Int
    BY <2>1, <2>2, CountGroupingsIs
  <2>9. ASSUME Opens(s \o line)
        PROVE  p = Level(s \o line, 0, Len(s \o line))
    <3>1. Opens(input)
      <4> SUFFICES ASSUME NEW n \in 1 .. Len(input) PROVE Level(input, 0, n) >= 0
        BY DEF Opens
      <4>1. n \in 0 .. Len(input) /\ n \in 0 .. Len(s) /\ n \in 1 .. Len(s \o line)
        BY <2>2, <2>4
      <4> QED  BY <2>6, <2>7, <2>9, <4>1 DEF Opens
    <3>2. groupings = Level(s, 0, Len(s))
      BY <1>1, <2>6, <3>1 DEF LineInv
    <3>3. \A n \in 1 .. Len(line) : Level(line, groupings, n) >= 0
      <4> TAKE n \in 1 .. Len(line)
      <4>1. n \in 0 .. Len(line) /\ Len(s) + n \in 1 .. Len(s \o line)
        BY <2>2, <2>4
      <4> QED  BY <2>7, <2>9, <3>2, <4>1 DEF Opens
    <3>4. p = Level(line, groupings, Len(line))
      BY <2>1, <2>2, <3>3, CountGroupingsIs
    <3> QED  BY <2>2, <2>4, <2>7, <3>2, <3>4
  <2> HIDE DEF p
  <2> QED  BY <1>1, <2>1, <2>4, <2>8, <2>9, GoesStep
<1> QED  BY <1>2, <1>3

LEMMA NextChunkStep ==
  ASSUME LineInv, NextChunk
  PROVE  LineInv'
BY EmptySeq DEF NextChunk, LineInv

\* What is counted is what the parser needs closed.
LEMMA ChunkIsClosed ==
  ASSUME LineInv
  PROVE  ChunksClosed
<1> SUFFICES ASSUME prompt = "done", \A n \in DOMAIN input : Level(input, 0, n) >= 0
             PROVE  Level(input, 0, Len(input)) = 0
  BY DEF ChunksClosed
<1>1. input \in Seq(NulFree) /\ Len(input) \in Nat /\ DOMAIN input = 1 .. Len(input)
  BY LenProperties DEF LineInv
<1>2. Opens(input)
  BY <1>1 DEF Opens
<1>3. Level(input, 0, Len(input)) \in Int
  BY <1>1, LevelIs
<1>4. Level(input, 0, Len(input)) <= 0
  BY <1>2 DEF LineInv
<1>5. CASE Len(input) = 0
  <2> DEFINE none == SubSeq(input, 1, 0)
  <2>1. none \in Seq(NulFree) /\ Len(none) = 0
    BY <1>1, SubSeqIs
  <2>2. Level(input, 0, 0) = 0 + Count(none, Opening) - Count(none, Closing)
    BY DEF Level
  <2> HIDE DEF none
  <2>3. Places(none, Opening) = {} /\ Places(none, Closing) = {}
    BY <2>1 DEF Places
  <2>4. Count(none, Opening) = 0 /\ Count(none, Closing) = 0
    BY <2>1, <2>3, CountIs, FS_EmptySet
  <2> QED  BY <1>5, <2>2, <2>4
<1>6. CASE Len(input) # 0
  <2>1. Len(input) \in 1 .. Len(input)
    BY <1>1, <1>6
  <2> QED  BY <1>2, <1>3, <1>4, <2>1 DEF Opens
<1> QED  BY <1>5, <1>6

-----------------------------------------------------------------------------
(* All of it.                                                              *)

\* Nothing with a NUL in it gets to the lexer, and what it has is not read again.
InputInv == /\ CursorInv /\ ReaderInv /\ LineInv
            /\ buffer \in Seq(NulFree)
            /\ channel \in {"file", "console"} /\ access \in {"ok", "missing", "unreadable"}
            /\ reading \in {"open", "reading", "read", "undefined"}
            /\ lexing # "off" => string = IF channel = "file" THEN buffer ELSE input

LEMMA InputStarts ==
  ASSUME Init
  PROVE  InputInv
<1>1. LexerOff /\ LineInit /\ ReaderInit /\ channel \in {"file", "console"}
  BY DEF Init
<1>2. lexing = "off"
  BY <1>1 DEF LexerOff
<1>3. access \in {"ok", "missing", "unreadable"} /\ reading = "open" /\ buffer = <<>>
  BY <1>1 DEF ReaderInit
<1>4. buffer \in Seq(NulFree)
  BY <1>3, EmptySeq
<1> QED  BY <1>1, <1>2, <1>3, <1>4, LexerStarts, LineStarts, ReaderStart DEF InputInv

\* fgets ends what is in the buffer at a NUL.
LEMMA BufferStaysFree ==
  ASSUME ReaderInv, buffer \in Seq(NulFree), ReaderNext
  PROVE  buffer' \in Seq(NulFree)
<1>1. CASE ReadSome
  <2>1. PICK k \in 0 .. Limit :
           /\ Takes(k)
           /\ \E n \in 0 .. Len(Piece(k)) :
                 Terminates(Piece(k), n) /\ buffer' = SubSeq(Piece(k), 1, n)
    BY <1>1 DEF ReadSome
  <2>2. PICK n \in 0 .. Len(Piece(k)) :
           Terminates(Piece(k), n) /\ buffer' = SubSeq(Piece(k), 1, n)
    BY <2>1
  <2>3. Typed /\ Room >= 2
    BY DEF ReaderInv
  <2>4. k \in Nat /\ offset + k <= Len(file)
    BY <2>1, <2>3, LimitBounds DEF Takes
  <2>5. Piece(k) \in Seq(Chars)
    BY <2>3, <2>4, PieceBounds
  <2> DEFINE s == Piece(k)
  <2> HIDE DEF s
  <2>6. s \in Seq(Chars) /\ Len(s) \in Nat /\ n \in 0 .. Len(s)
    BY <2>2, <2>5, LenProperties DEF s
  <2>7. \A j \in 1 .. n : s[j] # Nul
    BY <2>2 DEF Terminates, s
  <2>8. \A j \in 1 .. n : s[j] \in Chars
    BY <2>6, ElementOfSeq
  <2>9. \A j \in 1 .. n : s[j] \in NulFree
    BY <2>7, <2>8, CharsAssumption DEF NulFree, Character
  <2>10. SubSeq(s, 1, n) \in Seq(NulFree)
    BY <2>6, <2>9, SubSeqProperties
  <2> QED  BY <2>2, <2>10 DEF s
<1>2. CASE OpenFile \/ EndReading
  BY <1>2 DEF OpenFile, EndReading
<1> QED  BY <1>1, <1>2 DEF ReaderNext

LEMMA ReadFileStep ==
  ASSUME InputInv, ReadFile
  PROVE  InputInv'
<1>1. lexing = "off" /\ ReaderNext /\ UNCHANGED channel /\ UNCHANGED lineVars /\ UNCHANGED lexVars
  BY DEF ReadFile
<1>2. CursorInv' /\ ReaderInv' /\ buffer' \in Seq(NulFree)
  BY <1>1, LexerStill, ReaderStep, BufferStaysFree DEF InputInv
<1>3. LineInv'
  BY <1>1 DEF InputInv, LineInv, lineVars
<1>4. access' \in {"ok", "missing", "unreadable"} /\ reading' \in {"open", "reading", "read", "undefined"}
  BY <1>1 DEF InputInv, ReaderNext, OpenFile, ReadSome, EndReading
<1> QED  BY <1>1, <1>2, <1>3, <1>4 DEF InputInv, lexVars

LEMMA ReadLineStep ==
  ASSUME InputInv, ReadLine
  PROVE  InputInv'
<1>1. /\ lexing = "off" /\ UNCHANGED channel /\ UNCHANGED readerVars /\ UNCHANGED lexVars
  BY DEF ReadLine
<1>2. CursorInv' /\ ReaderInv'
  BY <1>1, LexerStill, ReaderStep DEF InputInv
<1>3. LineInv'
  <2>1. ASSUME NEW line \in Lines PROVE line \in Seq(NulFree)
    <3>1. STRING \ {Nul} \subseteq NulFree
      BY DEF NulFree, Character
    <3>2. line \in Seq(STRING \ {Nul})
      BY CharsAssumption
    <3> QED  BY <3>1, <3>2, SeqMonotonic
  <2>2. LineInv
    BY DEF InputInv
  <2>3. ASSUME NEW line \in Lines, FirstLine(line) \/ NextLine(line) PROVE LineInv'
    BY <2>1, <2>2, <2>3, FirstLineStep, NextLineStep
  <2>4. CASE FirstLine(EndOfInput) \/ FirstLine(QuitLine)
    BY <2>2, <2>4, FirstLineStep
  <2>5. CASE NextLine(EndOfInput)
    BY <2>2, <2>5, NextLineStep
  <2> QED  BY <2>3, <2>4, <2>5 DEF ReadLine
<1> QED  BY <1>1, <1>2, <1>3 DEF InputInv, readerVars, lexVars

LEMMA BeginStep ==
  ASSUME InputInv, Begin
  PROVE  InputInv'
<1>1. lexing = "off" /\ UNCHANGED channel /\ UNCHANGED readerVars /\ UNCHANGED lineVars
  BY DEF Begin
<1>2. PICK s \in {buffer, input} : BeginLexing(s) /\ s = (IF channel = "file" THEN buffer ELSE input)
  BY DEF Begin
<1>3. s \in Seq(NulFree)
  BY <1>2 DEF InputInv, LineInv
<1>4. s \in Seq(Character) /\ \A k \in 1 .. Len(s) : s[k] # "NUL"
  <2>1. \A k \in 1 .. Len(s) : s[k] \in NulFree
    BY <1>3, ElementOfSeq
  <2>2. NulFree \subseteq Character
    BY DEF NulFree
  <2>3. s \in Seq(Character)
    BY <1>3, <2>2, SeqMonotonic
  <2> QED  BY <2>1, <2>3 DEF NulFree, Nul
<1>5. CursorInv'
  BY <1>1, <1>2, <1>4, BeginLexingStep DEF InputInv
<1>6. ReaderInv'
  BY <1>1, ReaderStep DEF InputInv
<1>7. string' = s
  BY <1>2 DEF BeginLexing
<1>8. UNCHANGED <<buffer, input, access, reading>> /\ LineInv'
  BY <1>1 DEF readerVars, lineVars, InputInv, LineInv
<1> QED  BY <1>1, <1>2, <1>5, <1>6, <1>7, <1>8 DEF InputInv

LEMMA ParseStep ==
  ASSUME InputInv, Parse
  PROVE  InputInv'
<1>1. /\ LexNext \/ PutBack
      /\ UNCHANGED channel /\ UNCHANGED readerVars /\ UNCHANGED lineVars
  BY DEF Parse
<1>2. CursorInv' /\ ReaderInv'
  BY <1>1, LexerStep, ReaderStep DEF InputInv
<1>3. UNCHANGED string /\ lexing # "off"
  BY <1>1 DEF LexNext, Working, NextKept, BeginToken, Asked, Skip, StartToken, Skipped, Scan, ScanString,
              ScanNewline, Finish, Iterates, PutBack
<1>4. UNCHANGED <<buffer, input, access, reading>> /\ LineInv'
  BY <1>1 DEF readerVars, lineVars, InputInv, LineInv
<1> QED  BY <1>1, <1>2, <1>3, <1>4 DEF InputInv

LEMMA EndChunkStep ==
  ASSUME InputInv, EndChunk
  PROVE  InputInv'
<1>1. /\ lexing = "idle" /\ NextChunk /\ lexing' = "off"
      /\ UNCHANGED <<channel, readerVars, string, at, tokens, token_pos, comment, token, i, put_backs>>
  BY DEF EndChunk
<1>2. CursorInv'
  BY <1>1, LexerEnds DEF InputInv
<1>3. ReaderInv' /\ LineInv'
  BY <1>1, ReaderStep, NextChunkStep DEF InputInv
<1> QED  BY <1>1, <1>2, <1>3 DEF InputInv, readerVars

LEMMA InputStep ==
  ASSUME InputInv, [Next]_vars
  PROVE  InputInv'
<1>1. CASE UNCHANGED vars
  <2>1. UNCHANGED channel /\ UNCHANGED readerVars /\ UNCHANGED lineVars /\ UNCHANGED lexVars
    BY <1>1 DEF vars
  <2>2. CursorInv' /\ ReaderInv'
    BY <2>1, LexerStill, ReaderStep DEF InputInv
  <2>3. UNCHANGED <<buffer, input, access, reading, string, lexing>> /\ LineInv'
    BY <2>1 DEF readerVars, lineVars, lexVars, InputInv, LineInv
  <2> QED  BY <2>1, <2>2, <2>3 DEF InputInv
<1> QED  BY <1>1, ReadFileStep, ReadLineStep, BeginStep, ParseStep, EndChunkStep DEF Next

\* What main() has read of a program, of a file or typed, is a C string, and the
\* lexer's state is one it can go on from.
THEOREM InputAlwaysSound == Spec => []InputInv
BY InputStarts, InputStep, PTL DEF Spec

\* The types of the variables of the reader, the prompt and the lexer.
THEOREM InputTyped == Spec => []TypeOK
<1>1. InputInv => TypeOK
  <2> SUFFICES ASSUME InputInv PROVE TypeOK
    OBVIOUS
  <2>1. /\ offset \in 0 .. Len(file) /\ at_end \in BOOLEAN /\ size \in Nat
    BY DEF InputInv, ReaderInv, Typed
  <2>2. /\ prompt \in {"first", "more", "done", "exited", "undefined"}
        /\ lines_read \in 0 .. MaxLines /\ groupings \in Int
    BY DEF InputInv, LineInv
  <2>3. /\ lexing \in {"off", "idle", "skip", "scan"} /\ comment \in BOOLEAN
        /\ token_pos \in 0 .. Len(tokens) /\ put_backs \in 0 .. MaxPutBacks
    BY DEF InputInv, CursorInv, Typed1
  <2>4. at.pos \in Nat /\ at.lino \in Nat \ {0} /\ at.charpos \in Nat \cup {-1}
    BY DEF InputInv, CursorInv, Typed1, Position
  <2> QED  BY <2>1, <2>2, <2>3, <2>4 DEF InputInv, TypeOK
<1> QED  BY <1>1, InputAlwaysSound, PTL

\* The loop that reads a file has room, and keeps what it reads, in the program as
\* it does on its own.
THEOREM FilesAlwaysRead == Spec => [](RoomLeft /\ TextKept)
<1>1. InputInv => RoomLeft /\ TextKept
  <2> SUFFICES ASSUME InputInv PROVE RoomLeft /\ TextKept
    OBVIOUS
  <2>1. Typed /\ Room >= 2 /\ TextKept
    BY DEF InputInv, ReaderInv
  <2>2. Len(buffer) \in Nat /\ size \in Nat
    BY <2>1, LenProperties DEF Typed
  <2> QED  BY <2>1, <2>2, LimitBounds DEF RoomLeft, Room
<1> QED  BY <1>1, InputAlwaysSound, PTL

\* Whatever lines are typed, the brackets of a chunk given to the parser are all
\* closed, if none of them closes nothing.
THEOREM ChunksAlwaysClosed == Spec => []ChunksClosed
<1>1. InputInv => ChunksClosed
  BY ChunkIsClosed DEF InputInv
<1> QED  BY <1>1, InputAlwaysSound, PTL

\* Whatever the text, nothing is read behind its end but for a token that is none.
THEOREM CursorAlwaysInside == Spec => []CursorInside
<1>1. InputInv => CursorInside
  BY CursorIsInside DEF InputInv
<1> QED  BY <1>1, InputAlwaysSound, PTL

\* Whatever the text, and whatever words are reserved, the tag of a token tells
\* whether it is an operand.
THEOREM OperandsAlwaysTagged == Spec => []OperandsAreTagged
<1>1. InputInv => OperandsAreTagged
  BY OperandsTagged DEF InputInv
<1> QED  BY <1>1, InputAlwaysSound, PTL

\* Where the tokens are and what they are made of is kept by each step of the program:
\* only the parser's change them, and a new text begins at its first line.
LEMMA TextsStep ==
  ASSUME InputInv, PositionsInv, ExactInv, [Next]_vars
  PROVE  PositionsInv' /\ ExactInv'
<1>1. CASE UNCHANGED lexVars
  BY <1>1, LexerStillPlaced, LexerStillExact
<1>2. CASE Begin
  <2>1. PICK s \in {buffer, input} : BeginLexing(s)
    BY <1>2 DEF Begin
  <2>2. Len(s) \in Nat
    BY LenProperties DEF InputInv, LineInv
  <2> QED  BY <2>1, <2>2, BeginLexingPlaced, BeginLexingExact
<1>3. CASE Parse
  BY <1>3, LexerStepPlaced, LexerStepExact DEF Parse, InputInv
<1>4. CASE EndChunk
  BY <1>4, LexerOffPlaced, LexerOffExact DEF EndChunk
<1>5. CASE ReadFile \/ ReadLine \/ UNCHANGED vars
  BY <1>1, <1>5 DEF ReadFile, ReadLine, vars
<1> QED  BY <1>2, <1>3, <1>4, <1>5 DEF Next

\* Whatever the text: the tokens are at their lines and columns, and are the longest
\* the text has, one behind another.
THEOREM TextsAlwaysKept == Spec => [](InputInv /\ PositionsInv /\ ExactInv)
<1>1. Init => InputInv /\ PositionsInv /\ ExactInv
  BY InputStarts, LexerStartsPlaced, LexerStartsExact DEF Init
<1>2. InputInv /\ PositionsInv /\ ExactInv /\ [Next]_vars => (InputInv /\ PositionsInv /\ ExactInv)'
  BY InputStep, TextsStep
<1> QED  BY <1>1, <1>2, PTL DEF Spec

\* Whatever newlines, comments and continuations are before a token, its line and
\* column are right, if no string is before it.
THEOREM PositionsAlwaysRight == Spec => []PositionsRight
<1>1. InputInv /\ PositionsInv => PositionsRight
  BY PositionsAreRight DEF InputInv
<1> QED  BY <1>1, TextsAlwaysKept, PTL

\* Whatever the text, and whatever words are reserved: a token has the type of its
\* characters, no longer ones would be a token, and nothing but blanks, comments and
\* continuations is left out between two, with a newline only where it has its token.
THEOREM LexemesAlwaysExact == Spec => []LexemesExact
<1>1. InputInv /\ ExactInv => LexemesExact
  BY TokensAreExact DEF InputInv
<1> QED  BY <1>1, TextsAlwaysKept, PTL

\* However often the parser goes back, it is given one sequence of tokens, in order.
THEOREM TokensGivenInOrder == Spec => GivenInOrder
<1>1. InputInv /\ [Next]_vars =>
         [lexing # "off" /\ lexing' # "off" =>
             /\ IsPrefix(tokens, tokens')
             /\ tokens' # tokens => token_pos = Len(tokens) /\ token_pos' = Len(tokens')]_lexVars
  <2> SUFFICES ASSUME InputInv, [Next]_vars, lexing # "off", lexing' # "off", ~(UNCHANGED lexVars)
               PROVE  /\ IsPrefix(tokens, tokens')
                      /\ tokens' # tokens => token_pos = Len(tokens) /\ token_pos' = Len(tokens')
    OBVIOUS
  <2>1. ~(UNCHANGED vars)
    BY DEF vars
  <2>2. Parse
    BY <2>1 DEF Next, ReadFile, ReadLine, Begin, EndChunk
  <2> QED  BY <2>2, TokensGrow DEF Parse, InputInv
<1> QED  BY <1>1, InputAlwaysSound, PTL DEF Spec, GivenInOrder
=============================================================================
