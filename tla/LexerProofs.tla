----------------------------- MODULE LexerProofs ----------------------------
(***************************************************************************)
(* Proofs about lex_next, for every text: where its cursor may be, how its *)
(* tokens are tagged and where they say they are, and that they are the    *)
(* tokens of the text.  What a step of the lexer keeps is stated here, for *)
(* the specifications it is part of.                                       *)
(***************************************************************************)
EXTENDS Lexer, FiniteSetTheorems, SequenceTheorems, WellFoundedInduction, TLAPS

-----------------------------------------------------------------------------
(* The state of lex_next between two steps.                                *)

\* The provers take no literal for a member of STRING.
Character == STRING \cup {"\n"}

Text == string \in Seq(Character) /\ \A k \in 1 .. Len(string) : string[k] # "NUL"

OperatorTypes == {"COMPARE", "ASSIGN", "THICC_ARROW", "RIGHT_ARROW", "BITSHIFT", "DOT", "RANGE",
                  "MULDIV", "ADDSUB", "AMP", "BAR", "CARET", "COLON", "COMMA", "LGROUP", "RGROUP"}
ScanTypes == OperatorTypes \cup {"INT", "FLOAT", "SYMBOL", "STRING"}
OperandTypes == {"INT", "FLOAT", "SYMBOL", "BOOL", "STRING"}
Tagged(tk) == tk.tag = "OPERAND" <=> tk.type \in OperandTypes

Types == ScanTypes \cup {"NONE", "EOF", "NEWLINE", "KEYWORD", "BOOL", "AND", "OR", "XOR"}
Tags == {"NONE", "OPERAND", "OPERATOR", "INFIX_OPERATOR"}
Position == [pos : Nat, lino : Nat \ {0}, charpos : Nat]
Current == [type : Types, tag : Tags, pos : Nat, lino : Nat \ {0}, charpos : Nat]
TokenType == [type : Types, tag : Tags, value : Seq(Character), pos : Nat, lino : Nat \ {0},
              charpos : Nat]
Final == {"NONE", "EOF"}

Typed1 == /\ Text
          /\ at \in Position
          /\ tokens \in Seq(TokenType) /\ token_pos \in 0 .. Len(tokens)
          /\ lexing \in {"off", "idle", "skip", "scan"} /\ comment \in BOOLEAN
          /\ token \in Current /\ i \in Nat /\ put_backs \in 0 .. MaxPutBacks

\* The tokens: only the last may be none, or the end.
Kept == /\ \A k \in 1 .. Len(tokens) : Tagged(tokens[k])
        /\ \A k \in 1 .. Len(tokens) : k < Len(tokens) => tokens[k].type \notin Final
        /\ at.pos > Len(string) => tokens # <<>> /\ tokens[Len(tokens)].type = "NONE"

Off == lexing \in {"off", "idle"} => token = NoToken /\ i = 0

\* Within lex_next: a token is to go behind the others, which have no end.
Busy == lexing \in {"skip", "scan"} =>
           /\ token_pos = Len(tokens) /\ at.pos <= Len(string)
           /\ \A k \in 1 .. Len(tokens) : tokens[k].type \notin Final
Skipping == lexing = "skip" =>
               /\ token = NoToken \/ (token.type = "NEWLINE" /\ token.tag = "NONE")
               /\ i <= Len(string)
Scanning == lexing = "scan" =>
               /\ token.pos = at.pos /\ Tagged(token) /\ at.pos <= i
               /\ \/ token.type = "NONE" /\ i <= Len(string) + 1
                  \/ token.type \in ScanTypes /\ at.pos < i /\ i <= Len(string)

CursorInv == Typed1 /\ Kept /\ Off /\ Busy /\ Skipping /\ Scanning

-----------------------------------------------------------------------------
(* Characters.                                                             *)

\* There is a character at a position unless it is behind the text.
LEMMA CharIs ==
  ASSUME Text, NEW k \in Nat
  PROVE  /\ Len(string) \in Nat
         /\ CharAt(k) = "NUL" <=> k >= Len(string)
         /\ k < Len(string) => CharAt(k) = string[k + 1] /\ CharAt(k) \in Character
<1>1. Len(string) \in Nat
  BY LenProperties DEF Text
<1>2. CASE k < Len(string)
  <2>1. k \in 0 .. Len(string) - 1 /\ k + 1 \in 1 .. Len(string) /\ ~(k >= Len(string))
    BY <1>1, <1>2
  <2>2. CharAt(k) = string[k + 1]
    BY <2>1 DEF CharAt
  <2>3. string[k + 1] \in Character /\ string[k + 1] # "NUL"
    BY <2>1, ElementOfSeq DEF Text
  <2> QED  BY <1>1, <2>1, <2>2, <2>3
<1>3. CASE ~(k < Len(string))
  <2>1. k \notin 0 .. Len(string) - 1 /\ k >= Len(string)
    BY <1>1, <1>3
  <2>2. CharAt(k) = "NUL"
    BY <2>1 DEF CharAt
  <2> QED  BY <1>1, <1>3, <2>1, <2>2
<1> QED  BY <1>2, <1>3

\* What the first character makes of a token.
LEMMA FirstIs ==
  ASSUME NEW c
  PROVE  /\ FirstType(c) \in ScanTypes \cup {"NONE", "EOF", "NEWLINE"} /\ FirstTag(FirstType(c)) \in Tags
         /\ FirstType(c) = "EOF" <=> c = "NUL"
         /\ FirstType(c) = "NEWLINE" <=> c = "\n"
         /\ FirstType(c) = "NEWLINE" => FirstTag(FirstType(c)) = "NONE"
         /\ FirstTag(FirstType(c)) = "OPERAND" <=> FirstType(c) \in OperandTypes
<1>1. "NUL" \notin Digits /\ "NUL" \notin Letters /\ "\n" \notin Digits /\ "\n" \notin Letters
  BY DEF Digits, Letters
<1>2. FirstType(c) \in ScanTypes \cup {"NONE", "EOF", "NEWLINE"}
  BY DEF FirstType, ScanTypes, OperatorTypes
<1>3. FirstType(c) = "EOF" <=> c = "NUL"
  BY <1>1 DEF FirstType
<1>4. FirstType(c) = "NEWLINE" <=> c = "\n"
  <2> DEFINE words == Letters \cup {"_", "@", "$"}
  <2>1. "\n" \notin words
    BY <1>1
  <2> HIDE DEF words
  <2> QED  BY <1>1, <2>1 DEF FirstType, words
<1>5. FirstTag(FirstType(c)) \in Tags
  BY DEF FirstTag, Tags
<1>6. FirstType(c) = "NEWLINE" => FirstTag(FirstType(c)) = "NONE"
  BY DEF FirstTag
<1>7. FirstTag(FirstType(c)) = "OPERAND" <=> FirstType(c) \in OperandTypes
  <2>1. FirstType(c) \notin {"BOOL", "FLOAT"}
    BY DEF FirstType
  <2> QED  BY <2>1 DEF FirstTag, OperandTypes
<1> QED  BY <1>2, <1>3, <1>4, <1>5, <1>6, <1>7
\* A token with another type and tag.
LEMMA ChangedIs ==
  ASSUME token \in Current, NEW type \in Types, NEW tag \in Tags,
         NEW tk \in Becomes(type, tag)
  PROVE  /\ tk \in Current /\ tk.type = type /\ tk.tag = tag
         /\ tk.pos = token.pos /\ tk.lino = token.lino /\ tk.charpos = token.charpos
BY DEF Becomes, Current

\* What a turn of the loop of lex_next makes of the token.
Goes1(tk, c) ==
    /\ tk \in Current /\ Tagged(tk)
    /\ tk.pos = token.pos /\ tk.lino = token.lino /\ tk.charpos = token.charpos
    /\ \/ token.type = "NONE" /\ i = at.pos /\ tk.type = FirstType(c) /\ tk.tag = FirstTag(FirstType(c))
       \/ token.type # "NONE" /\ tk.type = "NONE"
       \/ token.type # "NONE" /\ tk.type \in ScanTypes /\ c \notin {"NUL", "\n"}

LEMMA TurnIs ==
  ASSUME CursorInv, lexing = "scan", token.type # "STRING", NEW prev, NEW c, NEW tk \in Turn(prev, c)
  PROVE  Goes1(tk, c)
<1>1. /\ token \in Current /\ Tagged(token) /\ token.type \in ScanTypes \cup {"NONE"}
      /\ token.type \in Types /\ token.tag \in Tags
  BY DEF CursorInv, Typed1, Scanning, Current
<1>2. ASSUME token.type # "NONE", NEW type \in ScanTypes \cup {"NONE"}, NEW tag \in Tags,
             tk \in Becomes(type, tag),
             tag = "OPERAND" <=> type \in OperandTypes, type = "NONE" \/ c \notin {"NUL", "\n"}
      PROVE  Goes1(tk, c)
  <2>1. type \in Types
    BY DEF Types
  <2> QED  BY <1>1, <1>2, <2>1, ChangedIs DEF Goes1, Tagged
<1>3. ASSUME tk \in Stays, token.type # "NONE", c \notin {"NUL", "\n"} PROVE Goes1(tk, c)
  BY <1>1, <1>3 DEF Stays, Goes1
<1>4. "NUL" \notin Digits /\ "NUL" \notin Letters /\ "\n" \notin Digits /\ "\n" \notin Letters
  BY DEF Digits, Letters
<1>5. Tagged(token) /\ token.type \in OperandTypes => token.tag = "OPERAND"
  BY DEF Tagged
<1>6. Tagged(token) /\ token.type \notin OperandTypes => token.tag # "OPERAND"
  BY DEF Tagged
<1>7. CASE token.type = "NONE"
  <2>1. i = at.pos /\ tk \in Becomes(FirstType(c), FirstTag(FirstType(c)))
    BY <1>7 DEF Turn, Stops
  <2>2. /\ FirstType(c) \in Types /\ FirstTag(FirstType(c)) \in Tags
        /\ FirstTag(FirstType(c)) = "OPERAND" <=> FirstType(c) \in OperandTypes
    BY FirstIs DEF Types
  <2> QED  BY <1>1, <1>7, <2>1, <2>2, ChangedIs DEF Goes1, Tagged
<1>8. CASE token.type = "INT"
  <2>1. CASE c = "."
    <3>1. tk \in Becomes("FLOAT", token.tag)
      BY <1>8, <2>1 DEF Turn
    <3> QED  BY <1>1, <1>2, <1>5, <1>8, <2>1, <3>1 DEF ScanTypes, OperandTypes
  <2>2. CASE c # "."
    <3>1. c \in Digits /\ tk \in Stays
      BY <1>8, <2>2 DEF Turn, Stops
    <3> QED  BY <1>3, <1>4, <1>8, <3>1
  <2> QED  BY <2>1, <2>2
<1>9. CASE token.type = "FLOAT"
  <2>1. (c \in Digits /\ tk \in Stays) \/ tk \in Becomes("NONE", "NONE")
    BY <1>9 DEF Turn, Float, Stops
  <2> QED  BY <1>2, <1>3, <1>4, <1>9, <2>1 DEF Tags, OperandTypes
<1>10. CASE token.type = "SYMBOL"
  <2>1. c \in Letters \cup Digits \cup {"_", "'"} /\ tk \in Stays
    BY <1>10 DEF Turn, Stops
  <2> QED  BY <1>3, <1>4, <1>10, <2>1
<1>11. CASE token.type = "ASSIGN"
  <2>1. \/ c = "=" /\ tk \in Becomes("COMPARE", "INFIX_OPERATOR")
        \/ c = ">" /\ tk \in Becomes("THICC_ARROW", token.tag)
    BY <1>11 DEF Turn, Stops
  <2>2. "COMPARE" \notin OperandTypes /\ "THICC_ARROW" \notin OperandTypes
        /\ token.type \notin OperandTypes /\ "INFIX_OPERATOR" \in Tags
        /\ {"COMPARE", "THICC_ARROW"} \subseteq ScanTypes
    BY <1>11 DEF OperandTypes, Tags, ScanTypes, OperatorTypes
  <2>3. CASE c = "=" /\ tk \in Becomes("COMPARE", "INFIX_OPERATOR")
    BY <1>2, <1>11, <2>2, <2>3
  <2>4. CASE c = ">" /\ tk \in Becomes("THICC_ARROW", token.tag)
    BY <1>1, <1>2, <1>6, <1>11, <2>2, <2>4
  <2> QED  BY <2>1, <2>3, <2>4
<1>12. CASE token.type = "COMPARE"
  <2>1. \/ c \in {"<", ">"} /\ tk \in Becomes("BITSHIFT", token.tag)
        \/ tk \in Becomes("NONE", token.tag)
        \/ c = "=" /\ tk \in Stays
    BY <1>12 DEF Turn, Compare, Stops
  <2>2. "BITSHIFT" \notin OperandTypes /\ "NONE" \notin OperandTypes
        /\ token.type \notin OperandTypes /\ "BITSHIFT" \in ScanTypes
    BY <1>12 DEF OperandTypes, ScanTypes, OperatorTypes
  <2>3. CASE c \in {"<", ">"} /\ tk \in Becomes("BITSHIFT", token.tag)
    BY <1>1, <1>2, <1>6, <1>12, <2>2, <2>3
  <2>4. CASE tk \in Becomes("NONE", token.tag)
    BY <1>1, <1>2, <1>6, <1>12, <2>2, <2>4
  <2>5. CASE c = "=" /\ tk \in Stays
    BY <1>3, <1>12, <2>5
  <2> QED  BY <2>1, <2>3, <2>4, <2>5
<1>13. CASE token.type \in {"DOT", "ADDSUB"}
  <2>1. \/ c = "." /\ tk \in Becomes("RANGE", "OPERATOR")
        \/ c = ">" /\ tk \in Becomes("RIGHT_ARROW", "OPERATOR")
    BY <1>13 DEF Turn, Stops
  <2>2. "RANGE" \notin OperandTypes /\ "RIGHT_ARROW" \notin OperandTypes /\ "OPERATOR" \in Tags
        /\ {"RANGE", "RIGHT_ARROW"} \subseteq ScanTypes
    BY DEF OperandTypes, Tags, ScanTypes, OperatorTypes
  <2>3. CASE c = "." /\ tk \in Becomes("RANGE", "OPERATOR")
    BY <1>2, <1>13, <2>2, <2>3
  <2>4. CASE c = ">" /\ tk \in Becomes("RIGHT_ARROW", "OPERATOR")
    BY <1>2, <1>13, <2>2, <2>4
  <2> QED  BY <2>1, <2>3, <2>4
<1>14. CASE token.type \notin {"NONE", "INT", "FLOAT", "SYMBOL", "ASSIGN", "COMPARE", "DOT", "ADDSUB"}
  BY <1>14 DEF Turn, Stops
<1> QED  BY <1>7, <1>8, <1>9, <1>10, <1>11, <1>12, <1>13, <1>14
-----------------------------------------------------------------------------
(* The steps.                                                              *)

\* The characters of a token, and what it is as a word.
Value(from, end) == SubSeq(string, from.pos + 1, IF end < Len(string) THEN end ELSE Len(string))
Made(tk, value) == [type |-> Word(tk, value).type, tag |-> Word(tk, value).tag, value |-> value,
                    pos |-> tk.pos, lino |-> tk.lino, charpos |-> tk.charpos]

LEMMA MadeIs ==
  ASSUME NEW tk \in Current, Tagged(tk), NEW value \in Seq(Character)
  PROVE  /\ Made(tk, value) \in TokenType /\ Tagged(Made(tk, value))
         /\ tk.type # "SYMBOL" => Made(tk, value).type = tk.type
         /\ Made(tk, value).type \in Final \cup {"NEWLINE", "STRING"} => Made(tk, value).type = tk.type
<1> DEFINE w == Word(tk, value)
<1>1. /\ w.type \in Types /\ w.tag \in Tags /\ (w.tag = "OPERAND" <=> w.type \in OperandTypes)
      /\ tk.type # "SYMBOL" => w.type = tk.type
      /\ w.type \in Final \cup {"NEWLINE", "STRING"} => w.type = tk.type
  <2>1. CASE tk.type = "SYMBOL" /\ value \in DOMAIN Reserved
    <3>1. w.type = Reserved[value].type /\ w.tag = Reserved[value].tag
      BY <2>1 DEF Word
    <3>2. /\ w.type \in {"KEYWORD", "BOOL", "COMPARE", "AND", "OR", "XOR"}
          /\ w.tag \in {"OPERAND", "OPERATOR", "INFIX_OPERATOR"}
          /\ (w.tag = "OPERAND" <=> w.type = "BOOL")
      BY <2>1, <3>1, ReservedAssumption
    <3> HIDE DEF w
    <3> QED  BY <2>1, <3>2 DEF Types, ScanTypes, OperatorTypes, Tags, OperandTypes, Final
  <2>2. CASE ~(tk.type = "SYMBOL" /\ value \in DOMAIN Reserved)
    <3>1. w.type = tk.type /\ w.tag = tk.tag
      BY <2>2 DEF Word
    <3> HIDE DEF w
    <3> QED  BY <3>1 DEF Current, Tagged
  <2> QED  BY <2>1, <2>2
<1>2. /\ Made(tk, value).type = w.type /\ Made(tk, value).tag = w.tag
      /\ Made(tk, value) = [type |-> w.type, tag |-> w.tag, value |-> value,
                            pos |-> tk.pos, lino |-> tk.lino, charpos |-> tk.charpos]
  BY DEF Made
<1> HIDE DEF w
<1> QED  BY <1>1, <1>2 DEF TokenType, Tagged, Current

LEMMA ValueIs ==
  ASSUME Text, NEW from, from.pos \in Nat, NEW end \in Nat
  PROVE  Value(from, end) \in Seq(Character)
<1> DEFINE e == IF end < Len(string) THEN end ELSE Len(string)
<1>1. e \in Nat /\ e <= Len(string) /\ Len(string) \in Nat
  BY LenProperties DEF Text
<1> HIDE DEF e
<1>2. \A k \in from.pos + 1 .. e : string[k] \in Character
  BY <1>1, ElementOfSeq DEF Text
<1>3. SubSeq(string, from.pos + 1, e) \in Seq(Character)
  BY <1>1, <1>2, SubSeqProperties
<1> QED  BY <1>3 DEF Value, e

\* lex_next returns: a token is behind the others.
LEMMA FinishStep ==
  ASSUME CursorInv, lexing \in {"skip", "scan"}, NEW tk \in Current, Tagged(tk), NEW end \in Nat,
         tk.type = "NONE" \/ end <= Len(string), Finish(tk, at, end)
  PROVE  /\ CursorInv'
         /\ tokens' = Append(tokens, Made(tk, Value(at, end)))
         /\ at' = [at EXCEPT !.pos = end] /\ string' = string /\ lexing' = "idle"
<1> DEFINE t == Made(tk, Value(at, end))
           n == Len(tokens)
<1>1. /\ Text /\ at \in Position /\ tokens \in Seq(TokenType)
      /\ token_pos = n /\ \A k \in 1 .. n : Tagged(tokens[k]) /\ tokens[k].type \notin Final
      /\ n \in Nat /\ comment \in BOOLEAN /\ put_backs \in 0 .. MaxPutBacks
  BY LenProperties DEF CursorInv, Typed1, Kept, Busy
<1>2. /\ tokens' = Append(tokens, t) /\ token_pos' = n + 1 /\ at' = [at EXCEPT !.pos = end]
      /\ lexing' = "idle" /\ token' = NoToken /\ i' = 0 /\ UNCHANGED <<string, comment, put_backs>>
  BY <1>1 DEF Finish, Made, Value, CursorAfter
<1>3. Value(at, end) \in Seq(Character)
  <2>1. at.pos \in Nat
    BY <1>1 DEF Position
  <2> QED  BY <1>1, <2>1, ValueIs
<1>4. t \in TokenType /\ Tagged(t) /\ (tk.type = "NONE" => t.type = "NONE")
  BY <1>3, MadeIs
<1> HIDE DEF t
<1>5. /\ tokens' \in Seq(TokenType) /\ Len(tokens') = n + 1
      /\ \A k \in 1 .. n : tokens'[k] = tokens[k]
      /\ tokens'[n + 1] = t
  BY <1>1, <1>2, <1>4, AppendProperties
<1>6. at' \in Position /\ at'.pos = end
  BY <1>1, <1>2 DEF Position
<1>7. NoToken \in Current /\ 0 \in Nat
  BY DEF NoToken, Current, Types, Tags
<1>8. token_pos' \in 0 .. Len(tokens')
  BY <1>1, <1>2, <1>5
<1>9. Typed1'
  BY <1>1, <1>2, <1>5, <1>6, <1>7, <1>8 DEF Typed1, Text
<1>10. Kept'
  <2>1. \A k \in 1 .. n + 1 : k \in 1 .. n \/ k = n + 1
    BY <1>1
  <2>2. \A k \in 1 .. n + 1 : k < n + 1 => k \in 1 .. n
    BY <1>1
  <2>3. \A k \in 1 .. Len(tokens') : Tagged(tokens'[k])
    BY <1>1, <1>4, <1>5, <2>1
  <2>4. \A k \in 1 .. Len(tokens') : k < Len(tokens') => tokens'[k].type \notin Final
    BY <1>1, <1>5, <2>2
  <2>5. at'.pos > Len(string) => tokens' # <<>> /\ tokens'[Len(tokens')].type = "NONE"
    <3>1. CASE tk.type = "NONE"
      <4>1. tokens' # <<>>
        BY <1>1, <1>5
      <4> QED  BY <1>4, <1>5, <3>1, <4>1
    <3>2. CASE end <= Len(string)
      <4>1. Len(string) \in Nat
        BY <1>1, LenProperties DEF Text
      <4> QED  BY <1>6, <3>2, <4>1
    <3> QED  BY <3>1, <3>2
  <2> QED  BY <1>2, <2>3, <2>4, <2>5 DEF Kept
<1> QED  BY <1>2, <1>9, <1>10 DEF CursorInv, Off, Busy, Skipping, Scanning, t

\* The loop goes on, here or with what is to be skipped.
LEMMA GoesOn ==
  ASSUME CursorInv, lexing \in {"skip", "scan"}, NEW tk \in Current, NEW k \in Nat,
         at' \in Position, at'.pos <= Len(string), token' = tk, i' = k + 1,
         lexing' = (IF tk.type = "NEWLINE" THEN "skip" ELSE "scan"), comment' = FALSE,
         UNCHANGED <<string, tokens, token_pos, put_backs>>,
         \/ tk.type = "NEWLINE" /\ tk.tag = "NONE" /\ k + 1 <= Len(string)
         \/ /\ tk.pos = at'.pos /\ Tagged(tk) /\ at'.pos <= k
            /\ \/ tk.type = "NONE" /\ k <= Len(string)
               \/ tk.type \in ScanTypes /\ k < Len(string)
  PROVE  CursorInv'
<1>1. Len(string) \in Nat /\ Text
  BY LenProperties DEF CursorInv, Typed1, Text
<1>2. "NEWLINE" \notin ScanTypes
  BY DEF ScanTypes, OperatorTypes
<1>3. Typed1'
  <2>1. /\ tokens \in Seq(TokenType) /\ token_pos \in 0 .. Len(tokens) /\ put_backs \in 0 .. MaxPutBacks
        /\ k + 1 \in Nat /\ lexing' \in {"skip", "scan"} /\ FALSE \in BOOLEAN
    BY DEF CursorInv, Typed1
  <2> QED  BY <1>1, <2>1 DEF Typed1, Text
<1>4. Kept' /\ Busy'
  <2>1. ~(at'.pos > Len(string)) /\ at'.pos \in Nat
    BY <1>1 DEF Position
  <2> QED  BY <2>1 DEF CursorInv, Kept, Busy
<1>5. Off' /\ (Skipping)'
  BY <1>1, <1>2 DEF Off, Skipping
<1>6. Scanning'
  <2>1. CASE tk.type = "NEWLINE"
    BY <2>1 DEF Scanning
  <2>2. CASE tk.type # "NEWLINE"
    <3>1. tk.type = "NEWLINE" \/ (at'.pos <= k + 1 /\ at'.pos < k + 1)
      BY <1>1, <2>2 DEF Position
    <3>2. k <= Len(string) => k + 1 <= Len(string) + 1
      BY <1>1
    <3>3. k < Len(string) => k + 1 <= Len(string)
      BY <1>1
    <3> QED  BY <2>2, <3>1, <3>2, <3>3 DEF Scanning, Tagged
  <2> QED  BY <2>1, <2>2
<1> QED  BY <1>3, <1>4, <1>5, <1>6 DEF CursorInv

\* The steps of lex_skip_whitespace.
LEMMA SkipStep ==
  ASSUME CursorInv, Skip
  PROVE  CursorInv'
<1>1. /\ Text /\ at \in Position /\ Len(string) \in Nat /\ at.pos <= Len(string)
      /\ lexing = "skip" /\ at.pos \in Nat
  BY LenProperties DEF Skip, CursorInv, Typed1, Text, Busy, Position
<1>2. UNCHANGED <<string, tokens, token_pos, lexing, token, i, put_backs>>
  BY DEF Skip
<1>3. at' \in Position /\ at'.pos <= Len(string) /\ comment' \in BOOLEAN
  <2>1. CASE ContinuesLine /\ at' = NextLineFrom(at) /\ comment' = FALSE
    <3>1. CharAt(at.pos + 1) # "NUL"
      BY <2>1 DEF ContinuesLine
    <3>2. at.pos + 1 < Len(string)
      BY <1>1, <3>1, CharIs
    <3>3. /\ at' = [pos |-> at.pos + 2, lino |-> at.lino + 1, charpos |-> 0]
          /\ at.pos + 2 \in Nat /\ at.lino + 1 \in Nat \ {0} /\ at.pos + 2 <= Len(string)
      BY <1>1, <2>1, <3>2 DEF NextLineFrom, Position
    <3>4. at' \in Position /\ at'.pos = at.pos + 2
      BY <3>3 DEF Position
    <3> QED  BY <2>1, <3>3, <3>4
  <2>2. CASE Skips /\ at' = Forward(at) /\ comment' = (comment \/ CharAt(at.pos) = "#")
    <3>1. CharAt(at.pos) # "NUL"
      BY <2>2 DEF Skips
    <3>2. at.pos < Len(string)
      BY <1>1, <3>1, CharIs
    <3>3. comment' \in BOOLEAN
      BY <2>2 DEF CursorInv, Typed1
    <3>4. at' = [at EXCEPT !.pos = at.pos + 1, !.charpos = at.charpos + 1]
      BY <2>2 DEF Forward
    <3>5. at.charpos + 1 \in Nat /\ at.pos + 1 \in Nat /\ at.pos + 1 <= Len(string)
      BY <1>1, <3>2 DEF Position
    <3>6. at' \in Position /\ at'.pos = at.pos + 1
      BY <1>1, <3>4, <3>5 DEF Position
    <3> QED  BY <3>3, <3>5, <3>6
  <2> QED  BY <2>1, <2>2 DEF Skip
<1>4. Typed1'
  BY <1>1, <1>2, <1>3 DEF CursorInv, Typed1, Text, Position
<1>5. Kept' /\ Busy'
  <2>1. ~(at'.pos > Len(string)) /\ at'.pos \in Nat
    BY <1>1, <1>3 DEF Position
  <2> QED  BY <1>2, <1>3, <2>1 DEF CursorInv, Kept, Busy
<1> QED  BY <1>1, <1>2, <1>4, <1>5 DEF CursorInv, Off, Skipping, Scanning

LEMMA StartTokenStep ==
  ASSUME CursorInv, StartToken
  PROVE  CursorInv'
<1>1. /\ Len(string) \in Nat /\ at \in Position /\ at.pos <= Len(string) /\ at.pos \in Nat
      /\ lexing = "skip" /\ token.type = "NONE" /\ i' = at.pos /\ lexing' = "scan"
      /\ UNCHANGED <<string, at, tokens, token_pos, comment, put_backs>>
  BY LenProperties DEF StartToken, Skipped, CursorInv, Typed1, Text, Busy, Position
<1>2. /\ token' = [type |-> "NONE", tag |-> "NONE", pos |-> at.pos, lino |-> at.lino,
                   charpos |-> at.charpos]
      /\ "NONE" \in Types /\ "NONE" \in Tags /\ "NONE" \notin OperandTypes
  BY DEF StartToken, NoToken, Types, Tags, OperandTypes
<1>3. token' \in Current /\ Tagged(token') /\ token'.pos = at.pos /\ token'.type = "NONE"
  BY <1>1, <1>2 DEF Current, Tagged, Position
<1>4. Typed1'
  BY <1>1, <1>3 DEF CursorInv, Typed1, Text
<1>5. Kept' /\ Busy' /\ Off' /\ (Skipping)'
  BY <1>1 DEF CursorInv, Kept, Busy, Off, Skipping
<1>6. Scanning'
  <2>1. i' <= Len(string') + 1 /\ at'.pos <= i'
    BY <1>1
  <2> QED  BY <1>1, <1>3, <2>1 DEF Scanning, Tagged
<1> QED  BY <1>4, <1>5, <1>6 DEF CursorInv

LEMMA ScanStep ==
  ASSUME CursorInv, Scan
  PROVE  CursorInv'
<1> DEFINE c == CharAt(i)
           turn == Turn(CharAt(i - 1), c)
<1>1. /\ Text /\ Len(string) \in Nat /\ at \in Position /\ at.pos <= Len(string) /\ at.pos \in Nat
      /\ lexing = "scan" /\ token.type # "STRING" /\ token \in Current /\ i \in Nat /\ at.pos <= i
      /\ token.pos = at.pos /\ Tagged(token)
  BY LenProperties DEF Scan, CursorInv, Typed1, Text, Busy, Position, Scanning
<1>2. \/ token.type = "NONE" /\ i <= Len(string) + 1
      \/ token.type \in ScanTypes /\ at.pos < i /\ i <= Len(string)
  BY <1>1 DEF CursorInv, Scanning
<1>3. \/ turn = {} /\ Finish(token, at, i)
      \/ \E tk \in turn : IF tk.type = "EOF" THEN Finish(tk, at, i) ELSE Iterates(tk, at, i)
  BY DEF Scan
<1>4. CASE turn = {} /\ Finish(token, at, i)
  BY <1>1, <1>2, <1>4, FinishStep
<1>5. ASSUME NEW tk \in turn, IF tk.type = "EOF" THEN Finish(tk, at, i) ELSE Iterates(tk, at, i)
      PROVE  CursorInv'
  <2>1. Goes1(tk, c)
    BY <1>1, TurnIs
  <2> HIDE DEF turn
  <2>2. tk \in Current /\ Tagged(tk) /\ tk.pos = at.pos
    BY <1>1, <2>1 DEF Goes1
  <2>3. c = "NUL" <=> i >= Len(string)
    BY <1>1, CharIs
  <2>4. /\ FirstType(c) \in ScanTypes \cup {"NONE", "EOF", "NEWLINE"}
        /\ FirstType(c) = "EOF" <=> c = "NUL"
        /\ FirstType(c) = "NEWLINE" => FirstTag(FirstType(c)) = "NONE"
    BY FirstIs
  <2>5. "EOF" \notin ScanTypes /\ "NEWLINE" \notin ScanTypes /\ "NONE" \notin ScanTypes
    BY DEF ScanTypes, OperatorTypes
  <2> HIDE DEF c
  <2>6. CASE tk.type = "EOF"
    <3>1. i = at.pos
      BY <2>1, <2>5, <2>6 DEF Goes1
    <3> QED  BY <1>1, <1>5, <2>2, <2>6, <3>1, FinishStep
  <2>7. CASE tk.type # "EOF"
    <3>1. /\ token' = tk /\ i' = i + 1 /\ at' = [at EXCEPT !.charpos = @ + 1]
          /\ lexing' = (IF tk.type = "NEWLINE" THEN "skip" ELSE "scan") /\ comment' = FALSE
          /\ UNCHANGED <<string, tokens, token_pos, put_backs>>
      BY <1>5, <2>7 DEF Iterates
    <3>2. at' \in Position /\ at'.pos = at.pos
      BY <1>1, <3>1 DEF Position
    <3>3. \/ tk.type = "NEWLINE" /\ tk.tag = "NONE" /\ i < Len(string)
          \/ tk.type = "NONE" /\ i <= Len(string)
          \/ tk.type \in ScanTypes /\ i < Len(string)
      <4>1. CASE token.type = "NONE" /\ i = at.pos /\ tk.type = FirstType(c) /\ tk.tag = FirstTag(FirstType(c))
        <5>1. i < Len(string)
          BY <1>1, <2>3, <2>4, <2>7, <4>1
        <5>2. tk.type \in ScanTypes \cup {"NONE", "NEWLINE"} /\ (tk.type = "NEWLINE" => tk.tag = "NONE")
          BY <2>4, <2>7, <4>1
        <5> QED  BY <1>1, <5>1, <5>2
      <4>2. CASE token.type # "NONE" /\ tk.type = "NONE"
        BY <1>1, <1>2, <4>2
      <4>3. CASE tk.type \in ScanTypes /\ c \notin {"NUL", "\n"}
        BY <1>1, <2>3, <4>3
      <4> QED  BY <2>1, <4>1, <4>2, <4>3 DEF Goes1
    <3>4. i < Len(string) => i + 1 <= Len(string)
      BY <1>1
    <3> QED  BY <1>1, <2>2, <3>1, <3>2, <3>3, <3>4, GoesOn
  <2> QED  BY <2>6, <2>7
<1> QED  BY <1>3, <1>4, <1>5

LEMMA ScanStringStep ==
  ASSUME CursorInv, ScanString
  PROVE  CursorInv'
<1>1. /\ Text /\ Len(string) \in Nat /\ at \in Position /\ at.pos <= Len(string) /\ at.pos \in Nat
      /\ lexing = "scan" /\ token.type = "STRING" /\ token \in Current /\ i \in Nat
      /\ token.pos = at.pos /\ Tagged(token)
  BY LenProperties DEF ScanString, CursorInv, Typed1, Text, Busy, Position, Scanning
<1>2. at.pos < i /\ i <= Len(string)
  BY <1>1 DEF CursorInv, Scanning
<1>3. CharAt(i) = "NUL" <=> i >= Len(string)
  BY <1>1, CharIs
<1>4. CASE CharAt(i) = "\"" /\ CharAt(i - 1) # "\\"
  <2>1. CharAt(i) # "NUL"
    BY <1>4
  <2>2. i + 1 <= Len(string) /\ i + 1 \in Nat
    BY <1>1, <1>3, <2>1
  <2>3. Finish(token, at, i + 1)
    BY <1>4 DEF ScanString
  <2> QED  BY <1>1, <2>2, <2>3, FinishStep
<1>5. CASE ~(CharAt(i) = "\"" /\ CharAt(i - 1) # "\\") /\ CharAt(i) = "NUL"
  <2> DEFINE tk == [token EXCEPT !.type = "NONE", !.tag = "NONE"]
  <2>1. Finish(tk, at, i)
    BY <1>5 DEF ScanString
  <2>2. tk \in Current /\ tk.type = "NONE" /\ tk.tag = "NONE"
    BY <1>1 DEF Current, Types, Tags
  <2>3. Tagged(tk)
    BY <2>2 DEF Tagged, OperandTypes
  <2> HIDE DEF tk
  <2> QED  BY <1>1, <2>1, <2>2, <2>3, FinishStep
<1>6. CASE ~(CharAt(i) = "\"" /\ CharAt(i - 1) # "\\") /\ CharAt(i) # "NUL"
  <2>1. Iterates(token, at, i)
    BY <1>6, Zenon DEF ScanString
  <2>2. CharAt(i) # "NUL"
    BY <1>6
  <2>3. i < Len(string)
    BY <1>1, <1>3, <2>2
  <2>4. /\ token' = token /\ i' = i + 1 /\ at' = [at EXCEPT !.charpos = @ + 1]
        /\ lexing' = (IF token.type = "NEWLINE" THEN "skip" ELSE "scan") /\ comment' = FALSE
        /\ UNCHANGED <<string, tokens, token_pos, put_backs>>
    BY <2>1 DEF Iterates
  <2>5. at' \in Position /\ at'.pos = at.pos
    BY <1>1, <2>4 DEF Position
  <2>6. token.type \in ScanTypes
    BY <1>1 DEF ScanTypes
  <2>7. token.pos = at'.pos /\ at'.pos <= i /\ at'.pos <= Len(string)
    BY <1>1, <1>2, <2>5
  <2> QED  BY <1>1, <2>3, <2>4, <2>5, <2>6, <2>7, GoesOn
<1> QED  BY <1>4, <1>5, <1>6

LEMMA ScanNewlineStep ==
  ASSUME CursorInv, ScanNewline
  PROVE  CursorInv'
<1>1. /\ Text /\ Len(string) \in Nat /\ at \in Position /\ at.pos <= Len(string) /\ at.pos \in Nat
      /\ lexing = "skip" /\ token.type = "NEWLINE" /\ token \in Current
  BY LenProperties DEF ScanNewline, Skipped, CursorInv, Typed1, Text, Busy, Position
<1>2. token.tag = "NONE"
  BY <1>1 DEF CursorInv, Skipping, NoToken
<1>3. Tagged(token)
  BY <1>1, <1>2 DEF Tagged, OperandTypes
<1>4. CASE CharAt(at.pos) # "\n"
  <2>1. Finish(token, at, at.pos)
    BY <1>4 DEF ScanNewline
  <2> QED  BY <1>1, <1>3, <2>1, FinishStep
<1>5. CASE CharAt(at.pos) = "\n"
  <2>1. at.pos < Len(string)
    BY <1>1, <1>5, CharIs
  <2>2. /\ token' = token /\ i' = at.pos + 1 /\ at' = [LineStart(at) EXCEPT !.charpos = @ + 1]
        /\ lexing' = (IF token.type = "NEWLINE" THEN "skip" ELSE "scan") /\ comment' = FALSE
        /\ UNCHANGED <<string, tokens, token_pos, put_backs>>
    BY <1>5 DEF ScanNewline, Iterates
  <2>3. at' = [pos |-> at.pos + 1, lino |-> at.lino + 1, charpos |-> 0]
    BY <2>2 DEF LineStart
  <2>4. at.lino + 1 \in Nat \ {0} /\ at.pos + 1 \in Nat /\ at.pos + 1 <= Len(string)
    BY <1>1, <2>1 DEF Position
  <2>5. at' \in Position /\ at'.pos = at.pos + 1
    BY <2>3, <2>4 DEF Position
  <2> QED  BY <1>1, <1>2, <2>2, <2>4, <2>5, GoesOn
<1> QED  BY <1>4, <1>5

LEMMA BeginTokenStep ==
  ASSUME CursorInv, BeginToken
  PROVE  CursorInv'
<1>1. /\ lexing = "idle" /\ token_pos = Len(tokens)
      /\ token_pos > 0 => tokens[token_pos].type \notin {"NONE", "EOF"}
      /\ lexing' = "skip" /\ comment' = FALSE
      /\ UNCHANGED <<string, at, tokens, token_pos, token, i, put_backs>>
  BY DEF BeginToken, Asked
<1>2. Len(string) \in Nat /\ Len(tokens) \in Nat /\ at.pos \in Nat /\ token = NoToken /\ i = 0
      /\ tokens \in Seq(TokenType)
  BY <1>1, LenProperties DEF CursorInv, Typed1, Text, Off, Position
<1>3. \A k \in 1 .. Len(tokens) : tokens[k].type \notin Final
  <2> TAKE k \in 1 .. Len(tokens)
  <2>1. CASE k < Len(tokens)
    BY <2>1 DEF CursorInv, Kept
  <2>2. CASE ~(k < Len(tokens))
    <3>1. k = Len(tokens) /\ k > 0
      BY <1>2, <2>2
    <3> QED  BY <1>1, <3>1 DEF Final
  <2> QED  BY <2>1, <2>2
<1>4. at.pos <= Len(string)
  <2> SUFFICES ASSUME at.pos > Len(string) PROVE FALSE
    BY <1>2
  <2>1. tokens # <<>> /\ tokens[Len(tokens)].type = "NONE"
    BY DEF CursorInv, Kept
  <2>2. Len(tokens) > 0
    BY <1>2, <2>1, EmptySeq
  <2> QED  BY <1>1, <2>1, <2>2
<1>5. Typed1'
  BY <1>1 DEF CursorInv, Typed1, Text
<1>6. Kept' /\ Off' /\ Scanning'
  BY <1>1 DEF CursorInv, Kept, Off, Scanning
<1>7. (Skipping)' /\ Busy'
  BY <1>1, <1>2, <1>3, <1>4 DEF Skipping, Busy
<1> QED  BY <1>5, <1>6, <1>7 DEF CursorInv

\* The parser takes a token that is kept, or goes back.
LEMMA CursorMoves ==
  ASSUME CursorInv, NextKept \/ PutBack
  PROVE  CursorInv'
<1>1. /\ lexing = "idle" /\ UNCHANGED <<string, at, tokens, lexing, comment, token, i>>
  BY DEF NextKept, PutBack, Asked
<1>2. Len(tokens) \in Nat /\ token_pos \in 0 .. Len(tokens) /\ put_backs \in 0 .. MaxPutBacks
  BY LenProperties DEF CursorInv, Typed1
<1>3. token_pos' \in 0 .. Len(tokens) /\ put_backs' \in 0 .. MaxPutBacks
  <2>1. CASE NextKept
    BY <1>2, <2>1 DEF NextKept
  <2>2. CASE PutBack
    <3>1. PICK k \in 0 .. token_pos - 1 : token_pos' = k
      BY <2>2 DEF PutBack
    <3>2. put_backs' = put_backs + 1 /\ put_backs < MaxPutBacks
      BY <2>2 DEF PutBack
    <3> QED  BY <1>2, <3>1, <3>2, BackAssumption
  <2> QED  BY <2>1, <2>2
<1>4. Typed1'
  BY <1>1, <1>3 DEF CursorInv, Typed1, Text
<1> QED  BY <1>1, <1>4 DEF CursorInv, Kept, Off, Busy, Skipping, Scanning

LEMMA LexerStep ==
  ASSUME CursorInv, LexNext \/ PutBack
  PROVE  CursorInv'
BY SkipStep, StartTokenStep, ScanStep, ScanStringStep, ScanNewlineStep, BeginTokenStep, CursorMoves
   DEF LexNext, Working

\* A lexer is made for a text, and done with.
LEMMA BeginLexingStep ==
  ASSUME CursorInv, lexing = "off", NEW s \in Seq(Character), \A k \in 1 .. Len(s) : s[k] # "NUL",
         BeginLexing(s)
  PROVE  CursorInv'
<1>1. /\ string' = s /\ at' = [pos |-> 0, lino |-> 1, charpos |-> 0] /\ tokens' = <<>>
      /\ token_pos' = 0 /\ lexing' = "idle" /\ UNCHANGED <<comment, token, i, put_backs>>
  BY DEF BeginLexing
<1>2. Text'
  BY <1>1 DEF Text
<1>3. at' \in Position /\ at'.pos = 0
  BY <1>1 DEF Position
<1>4. tokens' \in Seq(TokenType) /\ Len(tokens') = 0 /\ Len(s) \in Nat
  BY <1>1, EmptySeq, LenProperties
<1>5. Typed1'
  BY <1>1, <1>2, <1>3, <1>4 DEF CursorInv, Typed1
<1>6. Kept'
  BY <1>1, <1>3, <1>4 DEF Kept
<1> QED  BY <1>1, <1>5, <1>6 DEF CursorInv, Off, Busy, Skipping, Scanning

LEMMA LexerEnds ==
  ASSUME CursorInv, lexing = "idle", lexing' = "off",
         UNCHANGED <<string, at, tokens, token_pos, comment, token, i, put_backs>>
  PROVE  CursorInv'
BY DEF CursorInv, Typed1, Text, Kept, Off, Busy, Skipping, Scanning

LEMMA LexerStarts ==
  ASSUME LexerOff
  PROVE  CursorInv
<1>1. /\ string = <<>> /\ at = [pos |-> 0, lino |-> 1, charpos |-> 0] /\ tokens = <<>>
      /\ token_pos = 0 /\ lexing = "off" /\ comment = FALSE /\ token = NoToken /\ i = 0 /\ put_backs = 0
  BY DEF LexerOff
<1>2. string \in Seq(Character) /\ Len(string) = 0 /\ tokens \in Seq(TokenType) /\ Len(tokens) = 0
  BY <1>1, EmptySeq
<1>3. Text
  BY <1>2 DEF Text
<1>4. at \in Position /\ at.pos = 0
  BY <1>1 DEF Position
<1>5. token \in Current
  BY <1>1 DEF NoToken, Current, Types, Tags
<1>6. Typed1
  <2>1. 0 \in 0 .. MaxPutBacks /\ 0 \in 0 .. Len(tokens)
    BY <1>2, BackAssumption
  <2> QED  BY <1>1, <1>2, <1>3, <1>4, <1>5, <2>1 DEF Typed1
<1>7. Kept
  BY <1>2, <1>4 DEF Kept
<1> QED  BY <1>1, <1>6, <1>7 DEF CursorInv, Off, Busy, Skipping, Scanning

LEMMA LexerStill ==
  ASSUME CursorInv, UNCHANGED lexVars
  PROVE  CursorInv'
BY DEF lexVars, CursorInv, Typed1, Text, Kept, Off, Busy, Skipping, Scanning

-----------------------------------------------------------------------------
(* What this says of the tokens.                                           *)

LEMMA OperandsTagged ==
  ASSUME CursorInv
  PROVE  OperandsAreTagged
<1>1. DOMAIN tokens = 1 .. Len(tokens)
  BY LenProperties DEF CursorInv, Typed1
<1> QED  BY <1>1 DEF CursorInv, Kept, Tagged, OperandTypes, OperandsAreTagged

LEMMA CursorIsInside ==
  ASSUME CursorInv
  PROVE  CursorInside
<1>1. Len(string) \in Nat /\ i \in Nat /\ tokens \in Seq(TokenType) /\ token \in Current
      /\ lexing \in {"off", "idle", "skip", "scan"}
  BY LenProperties DEF CursorInv, Typed1, Text
<1>2. i <= Len(string) + (IF token.type = "NONE" THEN 1 ELSE 0)
  BY <1>1 DEF CursorInv, Off, Skipping, Scanning, NoToken
<1>3. at.pos > Len(string) => tokens # <<>> /\ Last(tokens).type = "NONE"
  BY DEF CursorInv, Kept, Last
<1> QED  BY <1>2, <1>3 DEF CursorInside

\* The tokens so far, and one behind them at most.
LEMMA TokensGrow ==
  ASSUME CursorInv, LexNext \/ PutBack
  PROVE  /\ IsPrefix(tokens, tokens')
         /\ tokens' # tokens => token_pos = Len(tokens) /\ token_pos' = Len(tokens')
<1>1. tokens \in Seq(TokenType) /\ Len(tokens) \in Nat
  BY LenProperties DEF CursorInv, Typed1
<1>2. CASE UNCHANGED tokens
  <2>1. tokens = SubSeq(tokens, 1, Len(tokens))
    BY <1>1, SubSeqProperties
  <2> QED  BY <1>1, <1>2, <2>1 DEF IsPrefix
<1>3. ASSUME NEW tk, NEW end, Finish(tk, at, end), lexing \in {"skip", "scan"}
      PROVE  /\ IsPrefix(tokens, tokens')
             /\ token_pos = Len(tokens) /\ token_pos' = Len(tokens')
  <2> DEFINE t == Made(tk, Value(at, end))
  <2>1. tokens' = Append(tokens, t) /\ token_pos' = token_pos + 1 /\ token_pos = Len(tokens)
    BY <1>3 DEF Finish, Made, Value, CursorAfter, CursorInv, Busy
  <2> HIDE DEF t
  <2>2. tokens \in Seq(TokenType \cup {t}) /\ t \in TokenType \cup {t}
    BY <1>1, SeqMonotonic
  <2>3. /\ tokens' \in Seq(TokenType \cup {t}) /\ Len(tokens') = Len(tokens) + 1
        /\ \A k \in 1 .. Len(tokens) : tokens'[k] = tokens[k]
    BY <2>1, <2>2, AppendProperties
  <2>4. SubSeq(tokens', 1, Len(tokens)) = SubSeq(tokens, 1, Len(tokens))
    <3>1. \A k \in 1 .. Len(tokens) : tokens[k] \in TokenType \cup {t}
      BY <2>2, ElementOfSeq
    <3> DEFINE a == SubSeq(tokens', 1, Len(tokens))
               b == SubSeq(tokens, 1, Len(tokens))
    <3>2. /\ b \in Seq(TokenType \cup {t}) /\ Len(b) = Len(tokens)
          /\ \A k \in 1 .. Len(tokens) : b[k] = tokens[k]
      BY <1>1, <3>1, SubSeqProperties
    <3>3. /\ a \in Seq(TokenType \cup {t}) /\ Len(a) = Len(tokens)
          /\ \A k \in 1 .. Len(tokens) : a[k] = tokens'[k]
      BY <1>1, <2>3, <3>1, SubSeqProperties
    <3> HIDE DEF a, b
    <3>4. a = b
      BY <2>3, <3>2, <3>3, SeqEqual
    <3> QED  BY <3>4 DEF a, b
  <2> QED  BY <1>1, <2>1, <2>3, <2>4 DEF IsPrefix
<1>4. CASE Scan
  <2>1. \/ Finish(token, at, i)
        \/ \E tk \in Turn(CharAt(i - 1), CharAt(i)) : Finish(tk, at, i) \/ Iterates(tk, at, i)
    BY <1>4 DEF Scan
  <2> QED  BY <1>2, <1>3, <1>4, <2>1 DEF Scan, Iterates
<1>5. CASE ScanString
  BY <1>2, <1>3, <1>5 DEF ScanString, Iterates
<1>6. CASE ScanNewline
  BY <1>2, <1>3, <1>6 DEF ScanNewline, Skipped, Iterates
<1>7. CASE NextKept \/ BeginToken \/ Skip \/ StartToken \/ PutBack
  BY <1>2, <1>7 DEF NextKept, BeginToken, Skip, StartToken, PutBack
<1> QED  BY <1>4, <1>5, <1>6, <1>7 DEF LexNext, Working


-----------------------------------------------------------------------------
(* Lines and columns.                                                      *)

\* The newlines of a text up to a position, and where the line it is in starts.
NewlinesTo(s, p) == {n \in 1 .. p : n <= Len(s) /\ s[n] = "\n"}
LineAt(s, p, start) == start \in NewlinesTo(s, p) \cup {0} /\ \A m \in NewlinesTo(s, p) : m <= start
Right(s, lino, charpos, p) ==
    /\ lino = 1 + Cardinality(NewlinesTo(s, p))
    /\ \E start \in 0 .. p : LineAt(s, p, start) /\ charpos = p - start

LEMMA NewlinesMore ==
  ASSUME NEW s, Len(s) \in Nat, NEW p \in Nat
  PROVE  /\ IsFiniteSet(NewlinesTo(s, p)) /\ Cardinality(NewlinesTo(s, p)) \in Nat
         /\ p < Len(s) /\ s[p + 1] = "\n"
               => /\ NewlinesTo(s, p + 1) = NewlinesTo(s, p) \cup {p + 1}
                  /\ Cardinality(NewlinesTo(s, p + 1)) = Cardinality(NewlinesTo(s, p)) + 1
         /\ ~(p < Len(s) /\ s[p + 1] = "\n") => NewlinesTo(s, p + 1) = NewlinesTo(s, p)
<1>1. IsFiniteSet(NewlinesTo(s, p))
  <2>1. NewlinesTo(s, p) \in SUBSET (1 .. p) /\ IsFiniteSet(1 .. p)
    BY FS_Interval DEF NewlinesTo
  <2> QED  BY <2>1, FS_Subset
<1>2. \A n : n \in 1 .. p + 1 <=> (n \in 1 .. p \/ n = p + 1)
  OBVIOUS
<1>3. p + 1 \notin NewlinesTo(s, p)
  BY DEF NewlinesTo
<1>4. ASSUME p < Len(s), s[p + 1] = "\n"
      PROVE  NewlinesTo(s, p + 1) = NewlinesTo(s, p) \cup {p + 1}
  <2>1. p + 1 <= Len(s)
    BY <1>4
  <2> QED  BY <1>2, <1>4, <2>1 DEF NewlinesTo
<1>5. ASSUME ~(p < Len(s) /\ s[p + 1] = "\n")
      PROVE  NewlinesTo(s, p + 1) = NewlinesTo(s, p)
  <2>1. p < Len(s) <=> p + 1 <= Len(s)
    OBVIOUS
  <2> QED  BY <1>2, <1>5, <2>1 DEF NewlinesTo
<1>6. ASSUME p < Len(s), s[p + 1] = "\n"
      PROVE  Cardinality(NewlinesTo(s, p + 1)) = Cardinality(NewlinesTo(s, p)) + 1
  BY <1>1, <1>3, <1>4, <1>6, FS_AddElement
<1> QED  BY <1>1, <1>4, <1>5, <1>6, FS_CardinalityType

LEMMA RightAtStart ==
  ASSUME NEW s
  PROVE  Right(s, 1, 0, 0)
<1>1. NewlinesTo(s, 0) = {}
  BY DEF NewlinesTo
<1>2. Cardinality(NewlinesTo(s, 0)) = 0
  BY <1>1, FS_EmptySet
<1>3. LineAt(s, 0, 0)
  BY <1>1 DEF LineAt
<1>4. 0 \in 0 .. 0 /\ 0 = 0 - 0 /\ 1 = 1 + 0
  OBVIOUS
<1> QED  BY <1>2, <1>3, <1>4 DEF Right

\* Behind a character, and behind a newline.
LEMMA RightBehind ==
  ASSUME NEW s, Len(s) \in Nat, NEW p \in Nat, NEW lino \in Nat, NEW charpos \in Nat
  PROVE  /\ Right(s, lino, charpos, p) /\ ~(p < Len(s) /\ s[p + 1] = "\n")
               => Right(s, lino, charpos + 1, p + 1)
         /\ lino = 1 + Cardinality(NewlinesTo(s, p)) /\ p < Len(s) /\ s[p + 1] = "\n"
               => Right(s, lino + 1, 0, p + 1)
<1>1. ASSUME Right(s, lino, charpos, p), ~(p < Len(s) /\ s[p + 1] = "\n")
      PROVE  Right(s, lino, charpos + 1, p + 1)
  <2>1. NewlinesTo(s, p + 1) = NewlinesTo(s, p)
    BY <1>1, NewlinesMore
  <2>2. PICK start \in 0 .. p : LineAt(s, p, start) /\ charpos = p - start
    BY <1>1 DEF Right
  <2>3. LineAt(s, p + 1, start)
    BY <2>1, <2>2 DEF LineAt
  <2>4. start \in 0 .. p + 1 /\ charpos + 1 = (p + 1) - start
    BY <2>2
  <2>5. lino = 1 + Cardinality(NewlinesTo(s, p + 1))
    BY <1>1, <2>1 DEF Right
  <2> QED  BY <2>3, <2>4, <2>5 DEF Right
<1>2. ASSUME lino = 1 + Cardinality(NewlinesTo(s, p)), p < Len(s), s[p + 1] = "\n"
      PROVE  Right(s, lino + 1, 0, p + 1)
  <2>1. /\ NewlinesTo(s, p + 1) = NewlinesTo(s, p) \cup {p + 1}
        /\ Cardinality(NewlinesTo(s, p + 1)) = Cardinality(NewlinesTo(s, p)) + 1
        /\ Cardinality(NewlinesTo(s, p)) \in Nat
    BY <1>2, NewlinesMore
  <2>2. \A m \in NewlinesTo(s, p) : m <= p + 1
    BY DEF NewlinesTo
  <2>3. LineAt(s, p + 1, p + 1)
    BY <2>1, <2>2 DEF LineAt
  <2>4. p + 1 \in 0 .. p + 1 /\ 0 = (p + 1) - (p + 1)
    OBVIOUS
  <2>5. lino + 1 = 1 + Cardinality(NewlinesTo(s, p + 1))
    BY <1>2, <2>1
  <2> QED  BY <2>3, <2>4, <2>5 DEF Right
<1> QED  BY <1>1, <1>2

\* Which is what the property says.
LEMMA RightMeans ==
  ASSUME Text, NEW p \in Nat, NEW lino, NEW charpos, Right(string, lino, charpos, p)
  PROVE  LET before == {n \in 1 .. p : CharAt(n - 1) = "\n"}
             start == IF before = {} THEN 0 ELSE CHOOSE n \in before : \A m \in before : m <= n
         IN  lino = 1 + Cardinality(before) /\ charpos = p - start
<1> DEFINE before == {n \in 1 .. p : CharAt(n - 1) = "\n"}
           start == IF before = {} THEN 0 ELSE CHOOSE n \in before : \A m \in before : m <= n
<1>1. before = NewlinesTo(string, p)
  <2> SUFFICES ASSUME NEW n \in 1 .. p
               PROVE  CharAt(n - 1) = "\n" <=> (n <= Len(string) /\ string[n] = "\n")
    BY DEF NewlinesTo
  <2>1. n - 1 \in Nat /\ (n - 1) + 1 = n
    OBVIOUS
  <2>2. Len(string) \in Nat
    BY CharIs
  <2>3. n - 1 < Len(string) <=> n <= Len(string)
    BY <2>2
  <2>4. CASE n <= Len(string)
    BY <2>1, <2>3, <2>4, CharIs
  <2>5. CASE ~(n <= Len(string))
    <3>1. n - 1 >= Len(string)
      BY <2>2, <2>5
    <3>2. CharAt(n - 1) = "NUL"
      BY <2>1, <3>1, CharIs
    <3> QED  BY <2>5, <3>2
  <2> QED  BY <2>4, <2>5
<1>2. PICK x \in 0 .. p : LineAt(string, p, x) /\ charpos = p - x
  BY DEF Right
<1>3. lino = 1 + Cardinality(before)
  BY <1>1 DEF Right
<1> HIDE DEF before
<1>4. before \subseteq 1 .. p /\ x \in before \cup {0} /\ \A m \in before : m <= x
  BY <1>1, <1>2 DEF LineAt, NewlinesTo
<1>5. start = x
  <2>1. CASE before = {}
    BY <1>4, <2>1
  <2>2. CASE before # {}
    <3>1. x \in before
      <4>1. PICK y \in before : TRUE
        BY <2>2
      <4>2. y \in 1 .. p /\ y <= x
        BY <1>4
      <4>3. x # 0
        BY <4>2
      <4> QED  BY <1>4, <4>3
    <3> DEFINE n == CHOOSE n \in before : \A m \in before : m <= n
    <3>2. n \in before /\ \A m \in before : m <= n
      BY <1>4, <3>1
    <3> HIDE DEF n
    <3>3. n <= x /\ x <= n /\ n \in 1 .. p /\ x \in 1 .. p
      BY <1>4, <3>1, <3>2
    <3>4. n = x
      BY <3>3
    <3> QED  BY <2>2, <3>4 DEF n
  <2> QED  BY <2>1, <2>2
<1> HIDE DEF start
<1> QED  BY <1>2, <1>3, <1>5 DEF before, start

NoString == \A k \in 1 .. Len(tokens) : tokens[k].type # "STRING"
Given == tokens # <<>> => tokens[Len(tokens)].type # "NONE"

\* Where the tokens say they are, and where the cursor is: on the newline that makes
\* a token its column is not that of the newline, for a moment.
TokensPlaced ==
    \A k \in 1 .. Len(tokens) :
        (\A j \in 1 .. k - 1 : tokens[j].type # "STRING")
            => Right(string, tokens[k].lino, tokens[k].charpos, tokens[k].pos)
OnNewline == /\ token.type = "NEWLINE" /\ CharAt(at.pos) = "\n"
             /\ at.lino = 1 + Cardinality(NewlinesTo(string, at.pos))
Placed ==
    /\ lexing = "idle" /\ Given => Right(string, at.lino, at.charpos, at.pos)
    /\ lexing = "skip" => Right(string, at.lino, at.charpos, at.pos) \/ OnNewline
    /\ lexing = "scan" /\ token.type # "STRING" /\ (token.type = "NONE" => i = at.pos)
          => Right(string, at.lino, at.charpos, i)
    /\ lexing = "scan" \/ (lexing = "skip" /\ token.type = "NEWLINE")
          => Right(string, token.lino, token.charpos, token.pos)
PositionsInv == TokensPlaced /\ (NoString => Placed)

\* A newline is the character on a position, or it is not.
LEMMA NewlineAt ==
  ASSUME Text, NEW k \in Nat
  PROVE  CharAt(k) = "\n" <=> (k < Len(string) /\ string[k + 1] = "\n")
<1>1. CASE k < Len(string)
  BY <1>1, CharIs
<1>2. CASE ~(k < Len(string))
  <2>1. CharAt(k) = "NUL"
    BY <1>2, CharIs
  <2> QED  BY <1>2, <2>1
<1> QED  BY <1>1, <1>2

\* While no token is added only the cursor matters.
LEMMA SameTokensPlaced ==
  ASSUME PositionsInv, UNCHANGED <<string, tokens>>, NoString => Placed'
  PROVE  PositionsInv'
<1>1. TokensPlaced'
  BY DEF PositionsInv, TokensPlaced
<1>2. NoString' => NoString
  BY DEF NoString
<1> QED  BY <1>1, <1>2 DEF PositionsInv

\* A token is added that starts where the one being read does.
LEMMA FinishPlaced ==
  ASSUME CursorInv, PositionsInv, lexing \in {"skip", "scan"}, NEW tk \in Current, Tagged(tk),
         NEW end \in Nat, tk.type = "NONE" \/ end <= Len(string), Finish(tk, at, end),
         tk.pos = token.pos, tk.lino = token.lino, tk.charpos = token.charpos,
         lexing = "scan" \/ token.type = "NEWLINE",
         NoString /\ tk.type \notin {"NONE", "STRING"} => Right(string, at.lino, at.charpos, end)
  PROVE  PositionsInv'
<1> DEFINE t == Made(tk, Value(at, end))
           n == Len(tokens)
<1>1. /\ tokens' = Append(tokens, t) /\ at' = [at EXCEPT !.pos = end] /\ string' = string
      /\ lexing' = "idle"
  BY FinishStep
<1>2. Text /\ at \in Position /\ tokens \in Seq(TokenType) /\ n \in Nat /\ at.pos \in Nat
  BY LenProperties DEF CursorInv, Typed1, Position
<1>3. /\ t \in TokenType
      /\ t.type \in {"NONE", "STRING"} <=> tk.type \in {"NONE", "STRING"}
      /\ t.type = "STRING" <=> tk.type = "STRING"
      /\ t.type = "NONE" <=> tk.type = "NONE"
  <2>1. Value(at, end) \in Seq(Character)
    BY <1>2, ValueIs
  <2> QED  BY <2>1, MadeIs DEF Final
<1>4. t.pos = token.pos /\ t.lino = token.lino /\ t.charpos = token.charpos
  BY DEF Made
<1> HIDE DEF t
<1>5. /\ Len(tokens') = n + 1 /\ tokens'[n + 1] = t /\ tokens' # <<>>
      /\ \A k \in 1 .. n : tokens'[k] = tokens[k]
  <2>1. /\ Len(tokens') = n + 1 /\ tokens'[n + 1] = t /\ tokens' \in Seq(TokenType)
        /\ \A k \in 1 .. n : tokens'[k] = tokens[k]
    BY <1>1, <1>2, <1>3, AppendProperties
  <2>2. tokens' # <<>>
    BY <1>2, <2>1, EmptySeq
  <2> QED  BY <2>1, <2>2
<1>6. \A k \in 1 .. n + 1 : k \in 1 .. n \/ (k = n + 1 /\ k - 1 = n)
  BY <1>2
<1>7. NoString => Right(string, token.lino, token.charpos, token.pos)
  BY DEF PositionsInv, Placed
<1>8. TokensPlaced'
  <2> SUFFICES ASSUME NEW k \in 1 .. n + 1,
                      \A j \in 1 .. k - 1 : tokens'[j].type # "STRING"
               PROVE  Right(string, tokens'[k].lino, tokens'[k].charpos, tokens'[k].pos)
    BY <1>1, <1>5 DEF TokensPlaced
  <2>1. CASE k \in 1 .. n
    <3>1. \A j \in 1 .. k - 1 : j \in 1 .. n
      BY <1>2, <2>1
    <3>2. \A j \in 1 .. k - 1 : tokens[j].type # "STRING"
      BY <1>5, <3>1
    <3> QED  BY <1>5, <2>1, <3>2 DEF PositionsInv, TokensPlaced
  <2>2. CASE k = n + 1 /\ k - 1 = n
    <3>1. \A j \in 1 .. n : tokens[j].type # "STRING"
      BY <1>5, <2>2
    <3>2. NoString
      BY <3>1 DEF NoString
    <3> QED  BY <1>4, <1>5, <1>7, <2>2, <3>2
  <2> QED  BY <1>6, <2>1, <2>2
<1>9. NoString' => Placed'
  <2> SUFFICES ASSUME NoString' PROVE Placed'
    OBVIOUS
  <2>1. \A k \in 1 .. n : k \in 1 .. n + 1
    BY <1>2
  <2>2. \A k \in 1 .. n + 1 : tokens'[k].type # "STRING"
    BY <1>5 DEF NoString
  <2>3. NoString
    BY <1>5, <2>1, <2>2 DEF NoString
  <2>4. n + 1 \in 1 .. n + 1
    BY <1>2
  <2>5. tk.type # "STRING"
    BY <1>3, <1>5, <2>2, <2>4
  <2>6. Given' => tk.type # "NONE"
    BY <1>3, <1>5 DEF Given
  <2>7. at'.pos = end /\ at'.lino = at.lino /\ at'.charpos = at.charpos
    BY <1>1, <1>2 DEF Position
  <2>8. Given' => Right(string, at.lino, at.charpos, end)
    BY <2>3, <2>5, <2>6
  <2> QED  BY <1>1, <2>7, <2>8 DEF Placed
<1> QED  BY <1>8, <1>9 DEF PositionsInv

LEMMA SkipPlaced ==
  ASSUME CursorInv, PositionsInv, Skip
  PROVE  PositionsInv'
<1>1. /\ Text /\ at \in Position /\ Len(string) \in Nat /\ at.pos <= Len(string)
      /\ lexing = "skip" /\ at.pos \in Nat /\ at.lino \in Nat /\ at.charpos \in Nat
      /\ UNCHANGED <<string, tokens, token_pos, lexing, token, i, put_backs>>
  BY LenProperties DEF Skip, CursorInv, Typed1, Text, Busy, Position
<1>2. ASSUME NoString PROVE Placed'
  <2>1. Right(string, at.lino, at.charpos, at.pos) \/ OnNewline
    BY <1>1, <1>2 DEF PositionsInv, Placed
  <2>2. CharAt(at.pos) # "\n"
    BY DEF Skip, ContinuesLine, Skips, Blanks
  <2>3. Right(string, at.lino, at.charpos, at.pos)
    BY <2>1, <2>2 DEF OnNewline
  <2>4. Right(string, at.lino, at.charpos + 1, at.pos + 1)
    BY <1>1, <2>2, <2>3, NewlineAt, RightBehind
  <2>5. Right(string, at'.lino, at'.charpos, at'.pos)
    <3>1. CASE ContinuesLine /\ at' = NextLineFrom(at)
      <4>1. CharAt(at.pos + 1) = "\n" /\ at.pos + 1 \in Nat /\ at.charpos + 1 \in Nat
        BY <1>1, <3>1 DEF ContinuesLine
      <4>2. at.pos + 1 < Len(string) /\ string[(at.pos + 1) + 1] = "\n"
        BY <1>1, <4>1, NewlineAt
      <4>3. at.lino = 1 + Cardinality(NewlinesTo(string, at.pos + 1))
        BY <2>4 DEF Right
      <4>4. Right(string, at.lino + 1, 0, (at.pos + 1) + 1)
        BY <1>1, <4>1, <4>2, <4>3, RightBehind
      <4>5. (at.pos + 1) + 1 = at.pos + 2
        BY <1>1
      <4>6. at'.lino = at.lino + 1 /\ at'.charpos = 0 /\ at'.pos = at.pos + 2
        BY <3>1 DEF NextLineFrom
      <4> QED  BY <4>4, <4>5, <4>6
    <3>2. CASE at' = Forward(at)
      <4>1. at'.lino = at.lino /\ at'.charpos = at.charpos + 1 /\ at'.pos = at.pos + 1
        BY <1>1, <3>2 DEF Forward, Position
      <4> QED  BY <2>4, <4>1
    <3> QED  BY <3>1, <3>2 DEF Skip
  <2> QED  BY <1>1, <1>2, <2>5 DEF PositionsInv, Placed
<1> QED  BY <1>1, <1>2, SameTokensPlaced

LEMMA StartTokenPlaced ==
  ASSUME CursorInv, PositionsInv, StartToken
  PROVE  PositionsInv'
<1>1. /\ lexing = "skip" /\ token.type = "NONE" /\ i' = at.pos /\ lexing' = "scan"
      /\ UNCHANGED <<string, at, tokens, token_pos, comment, put_backs>>
  BY DEF StartToken, Skipped
<1>2. token'.type = "NONE" /\ token'.pos = at.pos /\ token'.lino = at.lino /\ token'.charpos = at.charpos
  BY DEF StartToken, NoToken
<1>3. ASSUME NoString PROVE Placed'
  <2>1. Right(string, at.lino, at.charpos, at.pos)
    BY <1>1, <1>3 DEF PositionsInv, Placed, OnNewline
  <2> QED  BY <1>1, <1>2, <2>1 DEF Placed
<1> QED  BY <1>1, <1>3, SameTokensPlaced

LEMMA ScanPlaced ==
  ASSUME CursorInv, PositionsInv, Scan
  PROVE  PositionsInv'
<1> DEFINE c == CharAt(i)
           turn == Turn(CharAt(i - 1), c)
<1>1. /\ Text /\ Len(string) \in Nat /\ at \in Position /\ at.pos <= Len(string) /\ at.pos \in Nat
      /\ lexing = "scan" /\ token.type # "STRING" /\ token \in Current /\ i \in Nat
      /\ at.pos <= i /\ token.pos = at.pos /\ Tagged(token)
      /\ at.lino \in Nat /\ at.charpos \in Nat
  BY LenProperties DEF Scan, CursorInv, Typed1, Text, Busy, Position, Scanning
<1>2. \/ token.type = "NONE" /\ i <= Len(string) + 1
      \/ token.type \in ScanTypes /\ at.pos < i /\ i <= Len(string)
  BY <1>1 DEF CursorInv, Scanning
<1>3. NoString /\ (token.type = "NONE" => i = at.pos) => Right(string, at.lino, at.charpos, i)
  BY <1>1 DEF PositionsInv, Placed
<1>4. \/ turn = {} /\ Finish(token, at, i)
      \/ \E tk \in turn : IF tk.type = "EOF" THEN Finish(tk, at, i) ELSE Iterates(tk, at, i)
  BY DEF Scan
<1>5. CASE turn = {} /\ Finish(token, at, i)
  BY <1>1, <1>2, <1>3, <1>5, FinishPlaced
<1>6. ASSUME NEW tk \in turn, IF tk.type = "EOF" THEN Finish(tk, at, i) ELSE Iterates(tk, at, i)
      PROVE  PositionsInv'
  <2>1. Goes1(tk, c)
    BY <1>1, TurnIs
  <2> HIDE DEF turn
  <2>2. tk \in Current /\ Tagged(tk) /\ tk.pos = token.pos /\ tk.lino = token.lino
        /\ tk.charpos = token.charpos
    BY <2>1 DEF Goes1
  <2>3. FirstType(c) = "NEWLINE" <=> c = "\n"
    BY FirstIs
  <2>4. "EOF" \notin ScanTypes /\ "NEWLINE" \notin ScanTypes /\ "NONE" \notin ScanTypes
    BY DEF ScanTypes, OperatorTypes
  <2> HIDE DEF c
  <2>5. CASE tk.type = "EOF"
    <3>1. i = at.pos
      BY <2>1, <2>4, <2>5 DEF Goes1
    <3> QED  BY <1>1, <1>3, <1>6, <2>2, <2>5, <3>1, FinishPlaced
  <2>6. CASE tk.type # "EOF"
    <3>1. /\ token' = tk /\ i' = i + 1 /\ at' = [at EXCEPT !.charpos = @ + 1]
          /\ lexing' = (IF tk.type = "NEWLINE" THEN "skip" ELSE "scan")
          /\ UNCHANGED <<string, tokens, token_pos, put_backs>>
      BY <1>6, <2>6 DEF Iterates
    <3>2. at'.pos = at.pos /\ at'.lino = at.lino /\ at'.charpos = at.charpos + 1
      BY <1>1, <3>1 DEF Position
    <3>3. ASSUME NoString PROVE Placed'
      <4>1. Right(string, token.lino, token.charpos, token.pos)
        BY <1>1, <3>3 DEF PositionsInv, Placed
      <4>2. CASE tk.type = "NEWLINE"
        <5>1. token.type = "NONE" /\ i = at.pos /\ c = "\n"
          BY <2>1, <2>3, <2>4, <4>2 DEF Goes1
        <5>2. at.lino = 1 + Cardinality(NewlinesTo(string, at.pos))
          BY <1>3, <3>3, <5>1 DEF Right
        <5>3. CharAt(at.pos) = "\n"
          BY <5>1 DEF c
        <5>4. OnNewline'
          <6>1. CharAt(at.pos)' = CharAt(at.pos)
            BY <3>1, <3>2 DEF CharAt
          <6> QED  BY <3>1, <3>2, <4>2, <5>2, <5>3, <6>1 DEF OnNewline
        <5> QED  BY <2>2, <3>1, <4>1, <4>2, <5>4 DEF Placed
      <4>3. CASE tk.type # "NEWLINE"
        <5>1. ASSUME token'.type # "STRING", token'.type = "NONE" => i' = at'.pos
              PROVE  Right(string, at'.lino, at'.charpos, i')
          <6>1. tk.type # "NONE"
            BY <1>1, <3>1, <3>2, <5>1
          <6>2. c # "\n" /\ (token.type = "NONE" => i = at.pos)
            BY <2>1, <2>3, <4>3, <6>1 DEF Goes1
          <6>3. ~(i < Len(string) /\ string[i + 1] = "\n")
            BY <1>1, <6>2, NewlineAt DEF c
          <6> QED  BY <1>1, <1>3, <3>1, <3>2, <3>3, <6>2, <6>3, RightBehind
        <5> QED  BY <2>2, <3>1, <4>1, <4>3, <5>1 DEF Placed
      <4> QED  BY <4>2, <4>3
    <3> QED  BY <3>1, <3>3, SameTokensPlaced
  <2> QED  BY <2>5, <2>6
<1> QED  BY <1>4, <1>5, <1>6

LEMMA ScanStringPlaced ==
  ASSUME CursorInv, PositionsInv, ScanString
  PROVE  PositionsInv'
<1>1. /\ Text /\ Len(string) \in Nat /\ lexing = "scan" /\ token.type = "STRING"
      /\ token \in Current /\ i \in Nat /\ Tagged(token)
  BY LenProperties DEF ScanString, CursorInv, Typed1, Text, Scanning
<1>2. i <= Len(string)
  BY <1>1 DEF CursorInv, Scanning
<1>3. CharAt(i) = "NUL" <=> i >= Len(string)
  BY <1>1, CharIs
<1>4. CASE CharAt(i) = "\"" /\ CharAt(i - 1) # "\\"
  <2>1. CharAt(i) # "NUL"
    BY <1>4
  <2>2. i + 1 <= Len(string) /\ i + 1 \in Nat
    BY <1>1, <1>3, <2>1
  <2>3. Finish(token, at, i + 1)
    BY <1>4 DEF ScanString
  <2> QED  BY <1>1, <2>2, <2>3, FinishPlaced
<1>5. CASE ~(CharAt(i) = "\"" /\ CharAt(i - 1) # "\\") /\ CharAt(i) = "NUL"
  <2> DEFINE tk == [token EXCEPT !.type = "NONE", !.tag = "NONE"]
  <2>1. Finish(tk, at, i)
    BY <1>5 DEF ScanString
  <2>2. tk \in Current /\ tk.type = "NONE" /\ tk.tag = "NONE" /\ tk.pos = token.pos
        /\ tk.lino = token.lino /\ tk.charpos = token.charpos
    BY <1>1 DEF Current, Types, Tags
  <2>3. Tagged(tk)
    BY <2>2 DEF Tagged, OperandTypes
  <2> HIDE DEF tk
  <2> QED  BY <1>1, <2>1, <2>2, <2>3, FinishPlaced
<1>6. CASE ~(CharAt(i) = "\"" /\ CharAt(i - 1) # "\\") /\ CharAt(i) # "NUL"
  <2>1. Iterates(token, at, i)
    BY <1>6, Zenon DEF ScanString
  <2>2. token' = token /\ lexing' = "scan" /\ UNCHANGED <<string, tokens>>
    BY <1>1, <2>1 DEF Iterates
  <2>3. NoString => Placed'
    BY <1>1, <2>2 DEF PositionsInv, Placed
  <2> QED  BY <2>2, <2>3, SameTokensPlaced
<1> QED  BY <1>4, <1>5, <1>6

LEMMA ScanNewlinePlaced ==
  ASSUME CursorInv, PositionsInv, ScanNewline
  PROVE  PositionsInv'
<1>1. /\ Text /\ Len(string) \in Nat /\ at \in Position /\ at.pos <= Len(string) /\ at.pos \in Nat
      /\ lexing = "skip" /\ token.type = "NEWLINE" /\ token \in Current
      /\ at.lino \in Nat /\ at.charpos \in Nat
  BY LenProperties DEF ScanNewline, Skipped, CursorInv, Typed1, Text, Busy, Position
<1>2. token.tag = "NONE"
  BY <1>1 DEF CursorInv, Skipping, NoToken
<1>3. Tagged(token)
  BY <1>1, <1>2 DEF Tagged, OperandTypes
<1>4. NoString => Right(string, at.lino, at.charpos, at.pos) \/ OnNewline
  BY <1>1 DEF PositionsInv, Placed
<1>5. CASE CharAt(at.pos) # "\n"
  <2>1. Finish(token, at, at.pos)
    BY <1>5 DEF ScanNewline
  <2>2. NoString => Right(string, at.lino, at.charpos, at.pos)
    BY <1>4, <1>5 DEF OnNewline
  <2> QED  BY <1>1, <1>3, <2>1, <2>2, FinishPlaced
<1>6. CASE CharAt(at.pos) = "\n"
  <2>1. /\ token' = token /\ at' = [LineStart(at) EXCEPT !.charpos = @ + 1] /\ lexing' = "skip"
        /\ UNCHANGED <<string, tokens, token_pos, put_backs>>
    BY <1>1, <1>6 DEF ScanNewline, Iterates
  <2>2. at' = [pos |-> at.pos + 1, lino |-> at.lino + 1, charpos |-> 0]
    BY <2>1 DEF LineStart
  <2>3. ASSUME NoString PROVE Placed'
    <3>1. at.lino = 1 + Cardinality(NewlinesTo(string, at.pos))
      BY <1>4, <2>3 DEF OnNewline, Right
    <3>2. Right(string, at.lino + 1, 0, at.pos + 1)
      BY <1>1, <1>6, <3>1, NewlineAt, RightBehind
    <3>3. Right(string, at'.lino, at'.charpos, at'.pos)
      BY <2>2, <3>2
    <3>4. Right(string, token.lino, token.charpos, token.pos)
      BY <1>1, <2>3 DEF PositionsInv, Placed
    <3> QED  BY <2>1, <3>3, <3>4 DEF Placed
  <2> QED  BY <2>1, <2>3, SameTokensPlaced
<1> QED  BY <1>5, <1>6

LEMMA BeginTokenPlaced ==
  ASSUME CursorInv, PositionsInv, BeginToken
  PROVE  PositionsInv'
<1>1. /\ lexing = "idle" /\ token_pos = Len(tokens)
      /\ token_pos > 0 => tokens[token_pos].type \notin {"NONE", "EOF"}
      /\ lexing' = "skip" /\ UNCHANGED <<string, at, tokens, token_pos, token, i, put_backs>>
  BY DEF BeginToken, Asked
<1>2. Len(tokens) \in Nat /\ tokens \in Seq(TokenType)
  BY LenProperties DEF CursorInv, Typed1
<1>3. Given
  <2> SUFFICES ASSUME tokens # <<>> PROVE tokens[Len(tokens)].type # "NONE"
    BY DEF Given
  <2>1. Len(tokens) > 0
    BY <1>2, EmptySeq
  <2> QED  BY <1>1, <2>1
<1>4. token.type = "NONE"
  BY <1>1 DEF CursorInv, Off, NoToken
<1>5. NoString => Placed'
  BY <1>1, <1>3, <1>4 DEF PositionsInv, Placed
<1> QED  BY <1>1, <1>5, SameTokensPlaced

LEMMA CursorMovesPlaced ==
  ASSUME CursorInv, PositionsInv, NextKept \/ PutBack
  PROVE  PositionsInv'
<1>1. lexing = "idle" /\ UNCHANGED <<string, at, tokens, lexing, token, i>>
  BY DEF NextKept, PutBack, Asked
<1>2. NoString => Placed'
  BY <1>1 DEF PositionsInv, Placed, Given
<1> QED  BY <1>1, <1>2, SameTokensPlaced

LEMMA LexerStepPlaced ==
  ASSUME CursorInv, PositionsInv, LexNext \/ PutBack
  PROVE  PositionsInv'
BY SkipPlaced, StartTokenPlaced, ScanPlaced, ScanStringPlaced, ScanNewlinePlaced, BeginTokenPlaced,
   CursorMovesPlaced DEF LexNext, Working

LEMMA BeginLexingPlaced ==
  ASSUME NEW s, BeginLexing(s)
  PROVE  PositionsInv'
<1>1. string' = s /\ at' = [pos |-> 0, lino |-> 1, charpos |-> 0] /\ tokens' = <<>> /\ lexing' = "idle"
  BY DEF BeginLexing
<1>2. Len(tokens') = 0
  BY <1>1, EmptySeq
<1>3. TokensPlaced'
  BY <1>2 DEF TokensPlaced
<1>4. at'.lino = 1 /\ at'.charpos = 0 /\ at'.pos = 0
  BY <1>1
<1>5. Placed'
  BY <1>1, <1>4, RightAtStart DEF Placed
<1> QED  BY <1>3, <1>5 DEF PositionsInv

LEMMA LexerOffPlaced ==
  ASSUME PositionsInv, lexing' = "off", UNCHANGED <<string, tokens>>
  PROVE  PositionsInv'
<1>1. Placed'
  BY DEF Placed
<1> QED  BY <1>1, SameTokensPlaced

LEMMA LexerStartsPlaced ==
  ASSUME LexerOff
  PROVE  PositionsInv
<1>1. tokens = <<>> /\ lexing = "off" /\ Len(tokens) = 0
  BY EmptySeq DEF LexerOff
<1> QED  BY <1>1 DEF PositionsInv, TokensPlaced, Placed

LEMMA LexerStillPlaced ==
  ASSUME PositionsInv, UNCHANGED lexVars
  PROVE  PositionsInv'
<1>1. UNCHANGED <<string, at, tokens, lexing, token, i>>
  BY DEF lexVars
<1>2. NoString => Placed'
  <2>1. CharAt(at.pos)' = CharAt(at.pos)
    BY <1>1 DEF CharAt
  <2> QED  BY <1>1, <2>1 DEF PositionsInv, Placed, Given, OnNewline
<1> QED  BY <1>1, <1>2, SameTokensPlaced

LEMMA PositionsAreRight ==
  ASSUME CursorInv, PositionsInv
  PROVE  PositionsRight
<1>1. tokens \in Seq(TokenType) /\ DOMAIN tokens = 1 .. Len(tokens) /\ Text
  BY LenProperties DEF CursorInv, Typed1
<1> SUFFICES ASSUME NEW k \in 1 .. Len(tokens), \A j \in 1 .. k - 1 : tokens[j].type # "STRING"
             PROVE  LET before == {n \in 1 .. tokens[k].pos : CharAt(n - 1) = "\n"}
                        start == IF before = {} THEN 0
                                 ELSE CHOOSE n \in before : \A m \in before : m <= n
                    IN  tokens[k].lino = 1 + Cardinality(before) /\ tokens[k].charpos = tokens[k].pos - start
  BY <1>1 DEF PositionsRight
<1>2. Right(string, tokens[k].lino, tokens[k].charpos, tokens[k].pos)
  BY DEF PositionsInv, TokensPlaced
<1>3. tokens[k].pos \in Nat
  <2>1. tokens[k] \in TokenType
    BY <1>1, ElementOfSeq
  <2> QED  BY <2>1 DEF TokenType
<1> QED  BY <1>1, <1>2, <1>3, RightMeans
-----------------------------------------------------------------------------
(* The texts that are tokens, told by the characters at their places.      *)

WordStart == Letters \cup {"_", "@", "$"}
WordMore == Letters \cup Digits \cup {"_", "'"}
OperatorStart == {"=", "!", "<", ">", "-", ".", "*", "/", "%", "+", "&", "|", "^", ":", ",",
                  "(", "[", "{", ")", "]", "}"}

\* The operators of one character and of two.
One(t, a) == \/ t = "COMPARE" /\ a \in {"<", ">"}
             \/ t = "ASSIGN" /\ a = "="
             \/ t = "DOT" /\ a = "."
             \/ t = "MULDIV" /\ a \in {"*", "/", "%"}
             \/ t = "ADDSUB" /\ a \in {"+", "-"}
             \/ t = "AMP" /\ a = "&"
             \/ t = "BAR" /\ a = "|"
             \/ t = "CARET" /\ a = "^"
             \/ t = "COLON" /\ a = ":"
             \/ t = "COMMA" /\ a = ","
             \/ t = "LGROUP" /\ a \in {"(", "[", "{"}
             \/ t = "RGROUP" /\ a \in {")", "]", "}"}
Two(t, a, b) == \/ t = "COMPARE" /\ a \in {"=", "!", "<", ">"} /\ b = "="
                \/ t = "THICC_ARROW" /\ a = "=" /\ b = ">"
                \/ t = "RIGHT_ARROW" /\ a = "-" /\ b = ">"
                \/ t = "BITSHIFT" /\ a \in {"<", ">"} /\ b = a
                \/ t = "RANGE" /\ a = "." /\ b = "."

\* What the characters behind p, up to n, are.
NumberAt(s, p, n) == p < n /\ \A k \in p + 1 .. n : s[k] \in Digits
FloatAt(s, p, n) == \E d \in p + 2 .. n - 1 :
                       s[d] = "." /\ \A k \in p + 1 .. n : k # d => s[k] \in Digits
WordAt(s, p, n) == /\ p < n /\ s[p + 1] \in WordStart
                   /\ \A k \in p + 2 .. n : s[k] \in WordMore
StringAt(s, p, n) == /\ n >= p + 2 /\ s[p + 1] = "\"" /\ s[n] = "\"" /\ s[n - 1] # "\\"
                     /\ \A k \in p + 2 .. n - 1 : s[k] = "\"" => s[k - 1] = "\\"
OperatorAt(s, p, n, t) == \/ n = p + 1 /\ One(t, s[p + 1])
                          \/ n = p + 2 /\ Two(t, s[p + 1], s[p + 2])

LEMMA StartsApart ==
  /\ OperatorStart \cap Digits = {} /\ OperatorStart \cap WordStart = {} /\ Digits \cap WordStart = {}
  /\ "\"" \notin OperatorStart /\ "\"" \notin Digits /\ "\"" \notin WordStart
  /\ "NUL" \notin Digits /\ "NUL" \notin WordMore /\ "NUL" \notin OperatorStart
  /\ "." \notin Digits /\ "." \notin WordMore
BY DEF OperatorStart, Digits, WordStart, WordMore, Letters

\* The characters of a piece of a text.
LEMMA PieceIs ==
  ASSUME NEW s \in Seq(Character), NEW p \in Nat, NEW n \in Nat, p <= n, n <= Len(s)
  PROVE  LET v == SubSeq(s, p + 1, n)
         IN  /\ v \in Seq(Character) /\ Len(v) = n - p /\ DOMAIN v = 1 .. n - p
             /\ \A k \in 1 .. n - p : v[k] = s[p + k]
<1> DEFINE v == SubSeq(s, p + 1, n)
<1>1. Len(s) \in Nat
  BY LenProperties
<1>2. \A k \in p + 1 .. n : s[k] \in Character
  BY <1>1, ElementOfSeq
<1>3. /\ v \in Seq(Character) /\ Len(v) = IF p + 1 <= n THEN n - (p + 1) + 1 ELSE 0
      /\ \A k \in 1 .. n - (p + 1) + 1 : v[k] = s[(p + 1) + k - 1]
  BY <1>2, SubSeqProperties
<1> HIDE DEF v
<1>4. Len(v) = n - p
  BY <1>3
<1>5. \A k \in 1 .. n - p : v[k] = s[p + k]
  <2> TAKE k \in 1 .. n - p
  <2>1. k \in 1 .. n - (p + 1) + 1 /\ (p + 1) + k - 1 = p + k
    OBVIOUS
  <2> QED  BY <1>3, <2>1
<1>6. DOMAIN v = 1 .. n - p
  BY <1>3, <1>4, LenProperties
<1> QED  BY <1>3, <1>4, <1>5, <1>6 DEF v

LEMMA NumberIs ==
  ASSUME NEW s \in Seq(Character), NEW p \in Nat, NEW n \in Nat, p <= n, n <= Len(s)
  PROVE  Number(SubSeq(s, p + 1, n)) <=> NumberAt(s, p, n)
<1> DEFINE v == SubSeq(s, p + 1, n)
<1>1. /\ v \in Seq(Character) /\ Len(v) = n - p /\ DOMAIN v = 1 .. n - p
      /\ \A k \in 1 .. n - p : v[k] = s[p + k]
  BY PieceIs
<1> HIDE DEF v
<1>2. v # <<>> <=> p < n
  BY <1>1, EmptySeq
<1>3. ASSUME \A k \in DOMAIN v : v[k] \in Digits, NEW k \in p + 1 .. n
      PROVE  s[k] \in Digits
  <2>1. k - p \in 1 .. n - p /\ p + (k - p) = k
    OBVIOUS
  <2>2. v[k - p] \in Digits /\ v[k - p] = s[p + (k - p)]
    BY <1>1, <1>3, <2>1
  <2> QED  BY <2>1, <2>2
<1>4. ASSUME \A k \in p + 1 .. n : s[k] \in Digits, NEW k \in DOMAIN v
      PROVE  v[k] \in Digits
  <2>1. k \in 1 .. n - p /\ p + k \in p + 1 .. n
    BY <1>1
  <2> QED  BY <1>1, <1>4, <2>1
<1>5. Number(v) <=> NumberAt(s, p, n)
  BY <1>2, <1>3, <1>4 DEF Number, NumberAt
<1> QED  BY <1>5 DEF v

LEMMA FloatIs ==
  ASSUME NEW s \in Seq(Character), NEW p \in Nat, NEW n \in Nat, p <= n, n <= Len(s)
  PROVE  IsFloat(SubSeq(s, p + 1, n)) <=> FloatAt(s, p, n)
<1> DEFINE v == SubSeq(s, p + 1, n)
<1>1. /\ v \in Seq(Character) /\ Len(v) = n - p /\ DOMAIN v = 1 .. n - p
      /\ \A k \in 1 .. n - p : v[k] = s[p + k]
  BY PieceIs
<1> HIDE DEF v
<1>2. ASSUME NEW k \in 1 .. n - p
      PROVE  /\ Number(SubSeq(v, 1, k - 1)) <=> (k > 1 /\ \A m \in 1 .. k - 1 : v[m] \in Digits)
             /\ Number(SubSeq(v, k + 1, Len(v))) <=> (k < n - p /\ \A m \in k + 1 .. n - p : v[m] \in Digits)
  <2>1. k - 1 \in Nat /\ 0 <= k - 1 /\ k - 1 <= Len(v) /\ 0 \in Nat /\ 0 + 1 = 1
    BY <1>1
  <2>2. Number(SubSeq(v, 0 + 1, k - 1)) <=> NumberAt(v, 0, k - 1)
    BY <1>1, <2>1, NumberIs
  <2>3. k \in Nat /\ k <= n - p /\ n - p <= Len(v) /\ n - p \in Nat
    BY <1>1
  <2>4. Number(SubSeq(v, k + 1, n - p)) <=> NumberAt(v, k, n - p)
    BY <1>1, <2>3, NumberIs
  <2>5. NumberAt(v, 0, k - 1) <=> (k > 1 /\ \A m \in 1 .. k - 1 : v[m] \in Digits)
    BY DEF NumberAt
  <2> QED  BY <1>1, <2>1, <2>2, <2>4, <2>5 DEF NumberAt
<1>3. ASSUME IsFloat(v) PROVE FloatAt(s, p, n)
  <2>1. PICK k \in 1 .. n - p : /\ v[k] = "." /\ Number(SubSeq(v, 1, k - 1))
                                /\ Number(SubSeq(v, k + 1, Len(v)))
    BY <1>1, <1>3 DEF IsFloat
  <2>2. /\ k > 1 /\ k < n - p
        /\ \A m \in 1 .. k - 1 : v[m] \in Digits
        /\ \A m \in k + 1 .. n - p : v[m] \in Digits
    BY <1>2, <2>1
  <2>3. p + k \in p + 2 .. n - 1 /\ s[p + k] = "."
    BY <1>1, <2>1, <2>2
  <2>4. ASSUME NEW j \in p + 1 .. n, j # p + k PROVE s[j] \in Digits
    <3>1. j - p \in 1 .. n - p /\ p + (j - p) = j /\ (j - p \in 1 .. k - 1 \/ j - p \in k + 1 .. n - p)
      BY <2>4
    <3> QED  BY <1>1, <2>2, <3>1
  <2> QED  BY <2>3, <2>4 DEF FloatAt
<1>4. ASSUME FloatAt(s, p, n) PROVE IsFloat(v)
  <2>1. PICK d \in p + 2 .. n - 1 : s[d] = "." /\ \A k \in p + 1 .. n : k # d => s[k] \in Digits
    BY <1>4 DEF FloatAt
  <2> DEFINE k == d - p
  <2>2. k \in 1 .. n - p /\ k > 1 /\ k < n - p /\ p + k = d
    OBVIOUS
  <2> HIDE DEF k
  <2>3. v[k] = "."
    BY <1>1, <2>1, <2>2
  <2>4. \A m \in 1 .. k - 1 : v[m] \in Digits
    <3> TAKE m \in 1 .. k - 1
    <3>1. m \in 1 .. n - p /\ p + m \in p + 1 .. n /\ p + m # d
      BY <2>2
    <3> QED  BY <1>1, <2>1, <3>1
  <2>5. \A m \in k + 1 .. n - p : v[m] \in Digits
    <3> TAKE m \in k + 1 .. n - p
    <3>1. m \in 1 .. n - p /\ p + m \in p + 1 .. n /\ p + m # d
      BY <2>2
    <3> QED  BY <1>1, <2>1, <3>1
  <2> QED  BY <1>1, <1>2, <2>2, <2>3, <2>4, <2>5 DEF IsFloat
<1> QED  BY <1>3, <1>4 DEF v

LEMMA WordIs ==
  ASSUME NEW s \in Seq(Character), NEW p \in Nat, NEW n \in Nat, p <= n, n <= Len(s)
  PROVE  IsWord(SubSeq(s, p + 1, n)) <=> WordAt(s, p, n)
<1> DEFINE v == SubSeq(s, p + 1, n)
<1>1. /\ v \in Seq(Character) /\ Len(v) = n - p /\ DOMAIN v = 1 .. n - p
      /\ \A k \in 1 .. n - p : v[k] = s[p + k]
  BY PieceIs
<1> HIDE DEF v
<1>2. v # <<>> <=> p < n
  BY <1>1, EmptySeq
<1>3. p < n => v[1] = s[p + 1]
  <2>1. p < n => 1 \in 1 .. n - p
    OBVIOUS
  <2> QED  BY <1>1, <2>1
<1>4. IsWord(v) <=> (v # <<>> /\ v[1] \in WordStart /\ \A k \in 2 .. Len(v) : v[k] \in WordMore)
  BY DEF IsWord, WordStart, WordMore
<1>5. ASSUME \A k \in 2 .. Len(v) : v[k] \in WordMore, NEW k \in p + 2 .. n
      PROVE  s[k] \in WordMore
  <2>1. k - p \in 2 .. n - p /\ k - p \in 1 .. n - p /\ p + (k - p) = k
    OBVIOUS
  <2>2. v[k - p] \in WordMore /\ v[k - p] = s[p + (k - p)]
    BY <1>1, <1>5, <2>1
  <2> QED  BY <2>1, <2>2
<1>6. ASSUME \A k \in p + 2 .. n : s[k] \in WordMore, NEW k \in 2 .. Len(v)
      PROVE  v[k] \in WordMore
  <2>1. k \in 1 .. n - p /\ p + k \in p + 2 .. n
    BY <1>1
  <2> QED  BY <1>1, <1>6, <2>1
<1>7. IsWord(v) <=> WordAt(s, p, n)
  BY <1>2, <1>3, <1>4, <1>5, <1>6 DEF WordAt
<1> QED  BY <1>7 DEF v

LEMMA StringIs ==
  ASSUME NEW s \in Seq(Character), NEW p \in Nat, NEW n \in Nat, p <= n, n <= Len(s)
  PROVE  IsString(SubSeq(s, p + 1, n)) <=> StringAt(s, p, n)
<1> DEFINE v == SubSeq(s, p + 1, n)
           l == n - p
<1>1. /\ v \in Seq(Character) /\ Len(v) = l /\ DOMAIN v = 1 .. l
      /\ \A k \in 1 .. l : v[k] = s[p + k]
  BY PieceIs
<1> HIDE DEF v
<1>2. l \in Nat /\ (l >= 2 <=> n >= p + 2)
  OBVIOUS
<1>3. l >= 2 => /\ v[1] = s[p + 1] /\ v[l] = s[n] /\ v[l - 1] = s[n - 1]
  <2> SUFFICES ASSUME l >= 2 PROVE v[1] = s[p + 1] /\ v[l] = s[n] /\ v[l - 1] = s[n - 1]
    OBVIOUS
  <2>1. 1 \in 1 .. l /\ l \in 1 .. l /\ l - 1 \in 1 .. l /\ p + l = n /\ p + (l - 1) = n - 1
    OBVIOUS
  <2> QED  BY <1>1, <2>1
<1>4. ASSUME \A k \in 2 .. l - 1 : v[k] = "\"" => v[k - 1] = "\\", NEW k \in p + 2 .. n - 1,
             s[k] = "\""
      PROVE  s[k - 1] = "\\"
  <2>1. /\ k - p \in 2 .. l - 1 /\ k - p \in 1 .. l /\ (k - p) - 1 \in 1 .. l
        /\ p + (k - p) = k /\ p + ((k - p) - 1) = k - 1
    OBVIOUS
  <2>2. v[k - p] = s[k] /\ v[(k - p) - 1] = s[k - 1]
    BY <1>1, <2>1
  <2> QED  BY <1>4, <2>1, <2>2
<1>5. ASSUME \A k \in p + 2 .. n - 1 : s[k] = "\"" => s[k - 1] = "\\", NEW k \in 2 .. l - 1,
             v[k] = "\""
      PROVE  v[k - 1] = "\\"
  <2>1. /\ p + k \in p + 2 .. n - 1 /\ k \in 1 .. l /\ k - 1 \in 1 .. l /\ p + (k - 1) = (p + k) - 1
    OBVIOUS
  <2>2. v[k] = s[p + k] /\ v[k - 1] = s[(p + k) - 1]
    BY <1>1, <2>1
  <2> QED  BY <1>5, <2>1, <2>2
<1> HIDE DEF l
<1>6. IsString(v) <=> StringAt(s, p, n)
  BY <1>1, <1>2, <1>3, <1>4, <1>5 DEF IsString, StringAt
<1> QED  BY <1>6 DEF v

LEMMA ShortIs ==
  ASSUME NEW S, NEW v \in Seq(S), NEW a, NEW b
  PROVE  /\ v = <<a>> <=> Len(v) = 1 /\ v[1] = a
         /\ v = <<a, b>> <=> Len(v) = 2 /\ v[1] = a /\ v[2] = b
<1> DEFINE T == S \cup {a, b}
           x == <<a>>
           y == <<a, b>>
<1>1. v \in Seq(T)
  BY SeqMonotonic
<1>2. x \in Seq(T) /\ Len(x) = 1 /\ x[1] = a
  OBVIOUS
<1>3. y \in Seq(T) /\ Len(y) = 2 /\ y[1] = a /\ y[2] = b
  OBVIOUS
<1> HIDE DEF T, x, y
<1>4. ASSUME Len(v) = 1, v[1] = a PROVE v = x
  <2>1. \A k \in 1 .. Len(v) : v[k] = x[k]
    BY <1>2, <1>4
  <2> QED  BY <1>1, <1>2, <1>4, <2>1, SeqEqual
<1>5. ASSUME Len(v) = 2, v[1] = a, v[2] = b PROVE v = y
  <2>1. \A k \in 1 .. Len(v) : k = 1 \/ k = 2
    BY <1>5
  <2>2. \A k \in 1 .. Len(v) : v[k] = y[k]
    BY <1>3, <1>5, <2>1
  <2> QED  BY <1>1, <1>3, <1>5, <2>2, SeqEqual
<1> QED  BY <1>2, <1>3, <1>4, <1>5 DEF x, y

OperatorNames == {"COMPARE", "ASSIGN", "THICC_ARROW", "RIGHT_ARROW", "BITSHIFT", "DOT", "RANGE",
                  "MULDIV", "ADDSUB", "AMP", "BAR", "CARET", "COLON", "COMMA", "LGROUP", "RGROUP"}

LEMMA OperatorIs ==
  ASSUME NEW s \in Seq(Character), NEW p \in Nat, NEW n \in Nat, p <= n, n <= Len(s), NEW t
  PROVE  (t \in DOMAIN Operators /\ SubSeq(s, p + 1, n) \in Operators[t]) <=> OperatorAt(s, p, n, t)
<1> DEFINE v == SubSeq(s, p + 1, n)
           l == n - p
           a == v[1]
           b == v[2]
           Is == (l = 1 /\ One(t, a)) \/ (l = 2 /\ Two(t, a, b))
<1>1. /\ v \in Seq(Character) /\ Len(v) = l
      /\ \A k \in 1 .. l : v[k] = s[p + k]
  BY PieceIs
<1>2. Is <=> OperatorAt(s, p, n, t)
  <2>1. (l = 1 <=> n = p + 1) /\ (l = 2 <=> n = p + 2)
    OBVIOUS
  <2>2. l = 1 => 1 \in 1 .. l
    OBVIOUS
  <2>3. l = 2 => 1 \in 1 .. l /\ 2 \in 1 .. l
    OBVIOUS
  <2> HIDE DEF v, l
  <2>4. l = 1 \/ l = 2 => a = s[p + 1]
    BY <1>1, <2>2, <2>3
  <2>5. l = 2 => b = s[p + 2]
    BY <1>1, <2>3
  <2> QED  BY <2>1, <2>4, <2>5 DEF OperatorAt
<1>3. ASSUME NEW c PROVE v = <<c>> <=> (l = 1 /\ a = c)
  <2> HIDE DEF v, l
  <2> QED  BY <1>1, ShortIs
<1>4. ASSUME NEW c, NEW d PROVE v = <<c, d>> <=> (l = 2 /\ a = c /\ b = d)
  <2> HIDE DEF v, l
  <2> QED  BY <1>1, ShortIs
<1>5. DOMAIN Operators = OperatorNames
  BY DEF Operators, OperatorNames
<1> HIDE DEF v, l, a, b
<1>6. CASE t \notin OperatorNames
  <2>1. \A x : ~One(t, x)
    BY <1>6 DEF One, OperatorNames
  <2>2. \A x, y : ~Two(t, x, y)
    BY <1>6 DEF Two, OperatorNames
  <2> QED  BY <1>2, <1>5, <1>6, <2>1, <2>2
<1>7. CASE t = "COMPARE"
  <2>1. Operators[t] = {<<"=", "=">>, <<"!", "=">>, <<"<", "=">>, <<">", "=">>, <<"<">>, <<">">>}
    BY <1>7 DEF Operators
  <2>2. Is <=> (l = 1 /\ a \in {"<", ">"}) \/ (l = 2 /\ b = "=" /\ a \in {"=", "!", "<", ">"})
    BY <1>7 DEF One, Two
  <2>3. v \in Operators[t] <=> (l = 1 /\ a \in {"<", ">"}) \/ (l = 2 /\ b = "=" /\ a \in {"=", "!", "<", ">"})
    <3>1. v \in Operators[t] <=> \/ v = <<"=", "=">> \/ v = <<"!", "=">> \/ v = <<"<", "=">>
                                 \/ v = <<">", "=">> \/ v = <<"<">> \/ v = <<">">>
      BY <2>1
    <3> QED  BY <1>3, <1>4, <3>1
  <2> QED  BY <1>2, <1>5, <1>7, <2>2, <2>3 DEF v, OperatorNames
<1>8. CASE t = "ASSIGN"
  <2>1. Operators[t] = {<<"=">>}
    BY <1>8 DEF Operators
  <2>2. Is <=> l = 1 /\ a = "="
    BY <1>8 DEF One, Two
  <2> QED  BY <1>2, <1>3, <1>5, <1>8, <2>1, <2>2 DEF v, OperatorNames
<1>9. CASE t = "THICC_ARROW"
  <2>1. Operators[t] = {<<"=", ">">>}
    BY <1>9 DEF Operators
  <2>2. Is <=> l = 2 /\ a = "=" /\ b = ">"
    BY <1>9 DEF One, Two
  <2> QED  BY <1>2, <1>4, <1>5, <1>9, <2>1, <2>2 DEF v, OperatorNames
<1>10. CASE t = "RIGHT_ARROW"
  <2>1. Operators[t] = {<<"-", ">">>}
    BY <1>10 DEF Operators
  <2>2. Is <=> l = 2 /\ a = "-" /\ b = ">"
    BY <1>10 DEF One, Two
  <2> QED  BY <1>2, <1>4, <1>5, <1>10, <2>1, <2>2 DEF v, OperatorNames
<1>11. CASE t = "BITSHIFT"
  <2>1. Operators[t] = {<<"<", "<">>, <<">", ">">>}
    BY <1>11 DEF Operators
  <2>2. Is <=> l = 2 /\ ((a = "<" /\ b = "<") \/ (a = ">" /\ b = ">"))
    BY <1>11 DEF One, Two
  <2>3. v \in Operators[t] <=> v = <<"<", "<">> \/ v = <<">", ">">>
    BY <2>1
  <2> QED  BY <1>2, <1>4, <1>5, <1>11, <2>2, <2>3 DEF v, OperatorNames
<1>12. CASE t = "DOT"
  <2>1. Operators[t] = {<<".">>}
    BY <1>12 DEF Operators
  <2>2. Is <=> l = 1 /\ a = "."
    BY <1>12 DEF One, Two
  <2> QED  BY <1>2, <1>3, <1>5, <1>12, <2>1, <2>2 DEF v, OperatorNames
<1>13. CASE t = "RANGE"
  <2>1. Operators[t] = {<<".", ".">>}
    BY <1>13 DEF Operators
  <2>2. Is <=> l = 2 /\ a = "." /\ b = "."
    BY <1>13 DEF One, Two
  <2> QED  BY <1>2, <1>4, <1>5, <1>13, <2>1, <2>2 DEF v, OperatorNames
<1>14. CASE t = "MULDIV"
  <2>1. Operators[t] = {<<"*">>, <<"/">>, <<"%">>}
    BY <1>14 DEF Operators
  <2>2. Is <=> l = 1 /\ (a = "*" \/ a = "/" \/ a = "%")
    BY <1>14 DEF One, Two
  <2>3. v \in Operators[t] <=> v = <<"*">> \/ v = <<"/">> \/ v = <<"%">>
    BY <2>1
  <2> QED  BY <1>2, <1>3, <1>5, <1>14, <2>2, <2>3 DEF v, OperatorNames
<1>15. CASE t = "ADDSUB"
  <2>1. Operators[t] = {<<"+">>, <<"-">>}
    BY <1>15 DEF Operators
  <2>2. Is <=> l = 1 /\ (a = "+" \/ a = "-")
    BY <1>15 DEF One, Two
  <2>3. v \in Operators[t] <=> v = <<"+">> \/ v = <<"-">>
    BY <2>1
  <2> QED  BY <1>2, <1>3, <1>5, <1>15, <2>2, <2>3 DEF v, OperatorNames
<1>16. CASE t = "AMP"
  <2>1. Operators[t] = {<<"&">>}
    BY <1>16 DEF Operators
  <2>2. Is <=> l = 1 /\ a = "&"
    BY <1>16 DEF One, Two
  <2> QED  BY <1>2, <1>3, <1>5, <1>16, <2>1, <2>2 DEF v, OperatorNames
<1>17. CASE t = "BAR"
  <2>1. Operators[t] = {<<"|">>}
    BY <1>17 DEF Operators
  <2>2. Is <=> l = 1 /\ a = "|"
    BY <1>17 DEF One, Two
  <2> QED  BY <1>2, <1>3, <1>5, <1>17, <2>1, <2>2 DEF v, OperatorNames
<1>18. CASE t = "CARET"
  <2>1. Operators[t] = {<<"^">>}
    BY <1>18 DEF Operators
  <2>2. Is <=> l = 1 /\ a = "^"
    BY <1>18 DEF One, Two
  <2> QED  BY <1>2, <1>3, <1>5, <1>18, <2>1, <2>2 DEF v, OperatorNames
<1>19. CASE t = "COLON"
  <2>1. Operators[t] = {<<":">>}
    BY <1>19 DEF Operators
  <2>2. Is <=> l = 1 /\ a = ":"
    BY <1>19 DEF One, Two
  <2> QED  BY <1>2, <1>3, <1>5, <1>19, <2>1, <2>2 DEF v, OperatorNames
<1>20. CASE t = "COMMA"
  <2>1. Operators[t] = {<<",">>}
    BY <1>20 DEF Operators
  <2>2. Is <=> l = 1 /\ a = ","
    BY <1>20 DEF One, Two
  <2> QED  BY <1>2, <1>3, <1>5, <1>20, <2>1, <2>2 DEF v, OperatorNames
<1>21. CASE t = "LGROUP"
  <2>1. Operators[t] = {<<"(">>, <<"[">>, <<"{">>}
    BY <1>21 DEF Operators
  <2>2. Is <=> l = 1 /\ (a = "(" \/ a = "[" \/ a = "{")
    BY <1>21 DEF One, Two
  <2>3. v \in Operators[t] <=> v = <<"(">> \/ v = <<"[">> \/ v = <<"{">>
    BY <2>1
  <2> QED  BY <1>2, <1>3, <1>5, <1>21, <2>2, <2>3 DEF v, OperatorNames
<1>22. CASE t = "RGROUP"
  <2>1. Operators[t] = {<<")">>, <<"]">>, <<"}">>}
    BY <1>22 DEF Operators
  <2>2. Is <=> l = 1 /\ (a = ")" \/ a = "]" \/ a = "}")
    BY <1>22 DEF One, Two
  <2>3. v \in Operators[t] <=> v = <<")">> \/ v = <<"]">> \/ v = <<"}">>
    BY <2>1
  <2> QED  BY <1>2, <1>3, <1>5, <1>22, <2>2, <2>3 DEF v, OperatorNames
<1> QED  BY <1>6, <1>7, <1>8, <1>9, <1>10, <1>11, <1>12, <1>13, <1>14, <1>15, <1>16, <1>17, <1>18,
            <1>19, <1>20, <1>21, <1>22 DEF OperatorNames

\* A word is what is reserved for it.
WordType(v) == IF v \in DOMAIN Reserved THEN Reserved[v].type ELSE "SYMBOL"

LexemeAt(s, p, n, t) == \/ OperatorAt(s, p, n, t)
                        \/ t = "INT" /\ NumberAt(s, p, n)
                        \/ t = "FLOAT" /\ FloatAt(s, p, n)
                        \/ t = "STRING" /\ StringAt(s, p, n)
                        \/ t = WordType(SubSeq(s, p + 1, n)) /\ WordAt(s, p, n)

LEMMA LexemesAre ==
  ASSUME NEW s \in Seq(Character), NEW p \in Nat, NEW n \in Nat, p <= n, n <= Len(s)
  PROVE  \A t : t \in Lexemes(SubSeq(s, p + 1, n)) <=> LexemeAt(s, p, n, t)
<1> TAKE t
<1> DEFINE v == SubSeq(s, p + 1, n)
<1>1. (t \in DOMAIN Operators /\ v \in Operators[t]) <=> OperatorAt(s, p, n, t)
  BY OperatorIs
<1>2. /\ Number(v) <=> NumberAt(s, p, n)
      /\ IsFloat(v) <=> FloatAt(s, p, n)
      /\ IsWord(v) <=> WordAt(s, p, n)
      /\ IsString(v) <=> StringAt(s, p, n)
  BY NumberIs, FloatIs, WordIs, StringIs
<1> HIDE DEF v
<1>3. t \in Lexemes(v) <=> \/ t \in DOMAIN Operators /\ v \in Operators[t]
                           \/ t = "INT" /\ Number(v)
                           \/ t = "FLOAT" /\ IsFloat(v)
                           \/ t = "STRING" /\ IsString(v)
                           \/ t = WordType(v) /\ IsWord(v)
  BY DEF Lexemes, WordType
<1> QED  BY <1>1, <1>2, <1>3 DEF LexemeAt, v

\* The first character tells what kind of token it can be.
LEMMA KindsApart ==
  ASSUME NEW s, NEW p \in Nat, NEW n \in Nat, p < n, NEW t
  PROVE  /\ s[p + 1] \in Digits
               => (LexemeAt(s, p, n, t) <=> \/ t = "INT" /\ NumberAt(s, p, n)
                                            \/ t = "FLOAT" /\ FloatAt(s, p, n))
         /\ s[p + 1] \in WordStart
               => (LexemeAt(s, p, n, t) <=> t = WordType(SubSeq(s, p + 1, n)) /\ WordAt(s, p, n))
         /\ s[p + 1] = "\"" => (LexemeAt(s, p, n, t) <=> t = "STRING" /\ StringAt(s, p, n))
         /\ s[p + 1] \in OperatorStart => (LexemeAt(s, p, n, t) <=> OperatorAt(s, p, n, t))
<1>1. NumberAt(s, p, n) => s[p + 1] \in Digits
  <2>1. p + 1 \in p + 1 .. n
    OBVIOUS
  <2> QED  BY <2>1 DEF NumberAt
<1>2. FloatAt(s, p, n) => s[p + 1] \in Digits
  <2> SUFFICES ASSUME FloatAt(s, p, n) PROVE s[p + 1] \in Digits
    OBVIOUS
  <2>1. PICK d \in p + 2 .. n - 1 : \A k \in p + 1 .. n : k # d => s[k] \in Digits
    BY DEF FloatAt
  <2>2. p + 1 \in p + 1 .. n /\ p + 1 # d
    OBVIOUS
  <2> QED  BY <2>1, <2>2
<1>3. WordAt(s, p, n) => s[p + 1] \in WordStart
  BY DEF WordAt
<1>4. StringAt(s, p, n) => s[p + 1] = "\""
  BY DEF StringAt
<1>5. OperatorAt(s, p, n, t) => s[p + 1] \in OperatorStart
  <2> DEFINE a == s[p + 1]
             b == s[p + 2]
  <2>1. OperatorAt(s, p, n, t) => One(t, a) \/ Two(t, a, b)
    BY DEF OperatorAt
  <2> HIDE DEF a, b
  <2>2. One(t, a) => a \in OperatorStart
    BY DEF One, OperatorStart
  <2>3. Two(t, a, b) => a \in OperatorStart
    BY DEF Two, OperatorStart
  <2> QED  BY <2>1, <2>2, <2>3 DEF a
<1>6. /\ OperatorStart \cap Digits = {} /\ OperatorStart \cap WordStart = {} /\ Digits \cap WordStart = {}
      /\ "\"" \notin OperatorStart /\ "\"" \notin Digits /\ "\"" \notin WordStart
  BY StartsApart
<1> DEFINE a == s[p + 1]
           l == LexemeAt(s, p, n, t)
           o == OperatorAt(s, p, n, t)
           m == NumberAt(s, p, n)
           f == FloatAt(s, p, n)
           w == WordAt(s, p, n)
           q == StringAt(s, p, n)
           r == WordType(SubSeq(s, p + 1, n))
<1>7. l <=> o \/ (t = "INT" /\ m) \/ (t = "FLOAT" /\ f) \/ (t = "STRING" /\ q) \/ (t = r /\ w)
  BY DEF LexemeAt
<1>8. /\ m => a \in Digits
      /\ f => a \in Digits
      /\ w => a \in WordStart
      /\ q => a = "\""
      /\ o => a \in OperatorStart
  BY <1>1, <1>2, <1>3, <1>4, <1>5
<1> HIDE DEF a, l, o, m, f, w, q, r
<1>9. a \in Digits => (l <=> (t = "INT" /\ m) \/ (t = "FLOAT" /\ f))
  BY <1>6, <1>7, <1>8
<1>10. a \in WordStart => (l <=> t = r /\ w)
  BY <1>6, <1>7, <1>8
<1>11. a = "\"" => (l <=> t = "STRING" /\ q)
  BY <1>6, <1>7, <1>8
<1>12. a \in OperatorStart => (l <=> o)
  BY <1>6, <1>7, <1>8
<1> QED  BY <1>9, <1>10, <1>11, <1>12 DEF a, l, o, m, f, w, q, r

-----------------------------------------------------------------------------
(* Where a token ends.                                                     *)

\* What lex_next has seen of a token of a type, from p on, when it is at n.
Shape(s, p, n, t) ==
    \/ t = "INT" /\ NumberAt(s, p, n)
    \/ t = "FLOAT" /\ \E d \in p + 2 .. n : s[d] = "." /\ \A k \in p + 1 .. n : k # d => s[k] \in Digits
    \/ t = "SYMBOL" /\ WordAt(s, p, n)
    \/ /\ t = "STRING" /\ p < n /\ s[p + 1] = "\""
       /\ \A k \in p + 2 .. n : s[k] = "\"" => s[k - 1] = "\\"
    \/ t \in OperatorTypes /\ OperatorAt(s, p, n, t)
    \/ t = "COMPARE" /\ n = p + 1 /\ s[p + 1] = "!"

\* The next character, c, is not one of it.
Ended(s, p, n, t, c) ==
    \/ t = "INT" /\ c \notin Digits /\ c # "."
    \/ t = "FLOAT" /\ c \notin Digits /\ s[n] # "."
    \/ t = "SYMBOL" /\ c \notin WordMore
    \/ t \in OperatorTypes /\ (n = p + 1 => s[n] # "!" /\ \A u : ~Two(u, s[n], c))

Whole(s, p, n, t) == /\ Lexemes(SubSeq(s, p + 1, n)) = {t}
                     /\ \A m \in n + 1 .. Len(s) : Lexemes(SubSeq(s, p + 1, m)) = {}

LEMMA NumberEnds ==
  ASSUME NEW s \in Seq(Character), NEW p \in Nat, NEW n \in Nat, p < n, n <= Len(s), NEW c,
         n < Len(s) => s[n + 1] = c, NumberAt(s, p, n), c \notin Digits, c # "."
  PROVE  Whole(s, p, n, "INT")
<1>1. Len(s) \in Nat
  BY LenProperties
<1>2. \A k \in p + 1 .. n : s[k] \in Digits
  BY DEF NumberAt
<1>3. s[p + 1] \in Digits
  BY <1>2
<1>4. ~FloatAt(s, p, n)
  <2> SUFFICES ASSUME NEW d \in p + 2 .. n - 1, s[d] = "." PROVE FALSE
    BY DEF FloatAt
  <2>1. d \in p + 1 .. n
    OBVIOUS
  <2> QED  BY <1>2, <2>1, StartsApart
<1>5. \A t : t \in Lexemes(SubSeq(s, p + 1, n)) <=> t = "INT"
  <2> TAKE t
  <2>1. LexemeAt(s, p, n, t) <=> t = "INT"
    BY <1>3, <1>4, KindsApart
  <2> QED  BY <1>1, <2>1, LexemesAre
<1>6. ASSUME NEW m \in n + 1 .. Len(s), NEW t \in Lexemes(SubSeq(s, p + 1, m))
      PROVE  FALSE
  <2>1. m \in Nat /\ p < m /\ p <= m /\ m <= Len(s) /\ n < Len(s) /\ n + 1 \in p + 1 .. m
    BY <1>1
  <2>2. s[n + 1] \notin Digits /\ s[n + 1] # "."
    BY <2>1
  <2>3. LexemeAt(s, p, m, t)
    BY <2>1, LexemesAre
  <2>4. NumberAt(s, p, m) \/ FloatAt(s, p, m)
    BY <1>3, <2>1, <2>3, KindsApart
  <2>5. CASE NumberAt(s, p, m)
    BY <2>1, <2>2, <2>5 DEF NumberAt
  <2>6. CASE FloatAt(s, p, m)
    <3>1. PICK d \in p + 2 .. m - 1 : s[d] = "." /\ \A k \in p + 1 .. m : k # d => s[k] \in Digits
      BY <2>6 DEF FloatAt
    <3>2. n + 1 # d
      BY <2>2, <3>1
    <3> QED  BY <2>1, <2>2, <3>1, <3>2
  <2> QED  BY <2>4, <2>5, <2>6
<1> QED  BY <1>5, <1>6 DEF Whole

LEMMA FloatEnds ==
  ASSUME NEW s \in Seq(Character), NEW p \in Nat, NEW n \in Nat, p < n, n <= Len(s), NEW c,
         n < Len(s) => s[n + 1] = c, Shape(s, p, n, "FLOAT"), c \notin Digits, s[n] # "."
  PROVE  Whole(s, p, n, "FLOAT")
<1>1. Len(s) \in Nat
  BY LenProperties
<1>2. PICK d \in p + 2 .. n : s[d] = "." /\ \A k \in p + 1 .. n : k # d => s[k] \in Digits
  BY DEF Shape, OperatorTypes
<1>3. "." \notin Digits
  BY StartsApart
<1>4. s[p + 1] \in Digits
  <2>1. p + 1 \in p + 1 .. n /\ p + 1 # d
    OBVIOUS
  <2> QED  BY <1>2, <2>1
<1>5. d \in p + 2 .. n - 1
  <2>1. d # n
    BY <1>2
  <2> QED  BY <2>1
<1>6. FloatAt(s, p, n)
  BY <1>2, <1>5 DEF FloatAt
<1>7. ~NumberAt(s, p, n)
  <2>1. d \in p + 1 .. n
    OBVIOUS
  <2> QED  BY <1>2, <1>3, <2>1 DEF NumberAt
<1>8. \A t : t \in Lexemes(SubSeq(s, p + 1, n)) <=> t = "FLOAT"
  <2> TAKE t
  <2>1. LexemeAt(s, p, n, t) <=> t = "FLOAT"
    BY <1>4, <1>6, <1>7, KindsApart
  <2> QED  BY <1>1, <2>1, LexemesAre
<1>9. ASSUME NEW m \in n + 1 .. Len(s), NEW t \in Lexemes(SubSeq(s, p + 1, m))
      PROVE  FALSE
  <2>1. m \in Nat /\ p < m /\ p <= m /\ m <= Len(s) /\ n < Len(s) /\ n + 1 \in p + 1 .. m
        /\ d \in p + 1 .. m /\ d # n + 1
    BY <1>1
  <2>2. s[n + 1] \notin Digits
    BY <2>1
  <2>3. LexemeAt(s, p, m, t)
    BY <2>1, LexemesAre
  <2>4. NumberAt(s, p, m) \/ FloatAt(s, p, m)
    BY <1>4, <2>1, <2>3, KindsApart
  <2>5. CASE NumberAt(s, p, m)
    BY <2>1, <2>2, <2>5 DEF NumberAt
  <2>6. CASE FloatAt(s, p, m)
    <3>1. PICK e \in p + 2 .. m - 1 : s[e] = "." /\ \A k \in p + 1 .. m : k # e => s[k] \in Digits
      BY <2>6 DEF FloatAt
    <3>2. e = d
      BY <1>2, <1>3, <2>1, <3>1
    <3> QED  BY <2>1, <2>2, <3>1, <3>2
  <2> QED  BY <2>4, <2>5, <2>6
<1> QED  BY <1>8, <1>9 DEF Whole

LEMMA WordEnds ==
  ASSUME NEW s \in Seq(Character), NEW p \in Nat, NEW n \in Nat, p < n, n <= Len(s), NEW c,
         n < Len(s) => s[n + 1] = c, WordAt(s, p, n), c \notin WordMore
  PROVE  Whole(s, p, n, WordType(SubSeq(s, p + 1, n)))
<1>1. Len(s) \in Nat
  BY LenProperties
<1>2. s[p + 1] \in WordStart
  BY DEF WordAt
<1>3. \A t : t \in Lexemes(SubSeq(s, p + 1, n)) <=> t = WordType(SubSeq(s, p + 1, n))
  <2> TAKE t
  <2>1. LexemeAt(s, p, n, t) <=> t = WordType(SubSeq(s, p + 1, n))
    BY <1>2, KindsApart
  <2> QED  BY <1>1, <2>1, LexemesAre
<1>4. ASSUME NEW m \in n + 1 .. Len(s), NEW t \in Lexemes(SubSeq(s, p + 1, m))
      PROVE  FALSE
  <2>1. m \in Nat /\ p < m /\ p <= m /\ m <= Len(s) /\ n < Len(s) /\ n + 1 \in p + 2 .. m
    BY <1>1
  <2>2. s[n + 1] \notin WordMore
    BY <2>1
  <2>3. LexemeAt(s, p, m, t)
    BY <2>1, LexemesAre
  <2>4. WordAt(s, p, m)
    BY <1>2, <2>1, <2>3, KindsApart
  <2> QED  BY <2>1, <2>2, <2>4 DEF WordAt
<1> QED  BY <1>3, <1>4 DEF Whole

\* A quotation mark behind n that ends a string.
Closes(s, n) == s[n + 1] = "\"" /\ s[n] # "\\"

LEMMA StringEnds ==
  ASSUME NEW s \in Seq(Character), NEW p \in Nat, NEW n \in Nat, p < n, n < Len(s),
         Shape(s, p, n, "STRING"), Closes(s, n)
  PROVE  Whole(s, p, n + 1, "STRING")
<1>1. Len(s) \in Nat
  BY LenProperties
<1>2. s[p + 1] = "\"" /\ \A k \in p + 2 .. n : s[k] = "\"" => s[k - 1] = "\\"
  BY DEF Shape, OperatorTypes
<1>3. StringAt(s, p, n + 1)
  <2>1. n + 1 >= p + 2 /\ s[(n + 1) - 1] = s[n] /\ p + 2 .. (n + 1) - 1 = p + 2 .. n
    OBVIOUS
  <2>2. s[n + 1] = "\"" /\ s[(n + 1) - 1] # "\\"
    BY <2>1, Zenon DEF Closes
  <2>3. \A k \in p + 2 .. (n + 1) - 1 : s[k] = "\"" => s[k - 1] = "\\"
    BY <1>2, <2>1, Zenon
  <2> QED  BY <1>2, <2>1, <2>2, <2>3, Zenon DEF StringAt
<1>4. n + 1 \in Nat /\ p < n + 1 /\ p <= n + 1 /\ n + 1 <= Len(s)
  BY <1>1
<1>5. \A t : t \in Lexemes(SubSeq(s, p + 1, n + 1)) <=> t = "STRING"
  <2> TAKE t
  <2>1. LexemeAt(s, p, n + 1, t) <=> t = "STRING"
    BY <1>2, <1>3, <1>4, KindsApart
  <2> QED  BY <1>1, <1>4, <2>1, LexemesAre
<1>6. ASSUME NEW m \in (n + 1) + 1 .. Len(s), NEW t \in Lexemes(SubSeq(s, p + 1, m))
      PROVE  FALSE
  <2>1. m \in Nat /\ p < m /\ p <= m /\ m <= Len(s) /\ n + 1 \in p + 2 .. m - 1 /\ (n + 1) - 1 = n
    BY <1>1
  <2>2. LexemeAt(s, p, m, t)
    BY <2>1, LexemesAre
  <2>3. StringAt(s, p, m)
    BY <1>2, <2>1, <2>2, KindsApart
  <2> QED  BY <2>1, <2>3 DEF StringAt, Closes
<1> QED  BY <1>5, <1>6 DEF Whole

LEMMA OperatorEnds ==
  ASSUME NEW s \in Seq(Character), NEW p \in Nat, NEW n \in Nat, p < n, n <= Len(s), NEW c,
         n < Len(s) => s[n + 1] = c, NEW t \in OperatorTypes, Shape(s, p, n, t), Ended(s, p, n, t, c)
  PROVE  Whole(s, p, n, t)
<1>1. Len(s) \in Nat
  BY LenProperties
<1>2. t \notin {"INT", "FLOAT", "SYMBOL", "STRING"}
  BY DEF OperatorTypes
<1>3. n = p + 1 => s[n] # "!" /\ \A u : ~Two(u, s[n], c)
  BY <1>2 DEF Ended
<1>4. OperatorAt(s, p, n, t)
  BY <1>2, <1>3 DEF Shape
<1> DEFINE a == s[p + 1]
           b == s[p + 2]
<1>5. (n = p + 1 /\ One(t, a)) \/ (n = p + 2 /\ Two(t, a, b))
  BY <1>4 DEF OperatorAt
<1>6. a \in OperatorStart
  <2> HIDE DEF a, b
  <2> QED  BY <1>5 DEF One, Two, OperatorStart
<1>7. \A u : OperatorAt(s, p, n, u) <=> u = t
  <2> TAKE u
  <2>1. OperatorAt(s, p, n, u) <=> (n = p + 1 /\ One(u, a)) \/ (n = p + 2 /\ Two(u, a, b))
    BY DEF OperatorAt
  <2>2. p + 1 # p + 2
    OBVIOUS
  <2> HIDE DEF a, b
  <2>3. One(t, a) => (One(u, a) <=> u = t)
    BY DEF One
  <2>4. Two(t, a, b) => (Two(u, a, b) <=> u = t)
    BY DEF Two
  <2> QED  BY <1>5, <2>1, <2>2, <2>3, <2>4
<1>8. \A u : u \in Lexemes(SubSeq(s, p + 1, n)) <=> u = t
  <2> TAKE u
  <2>1. LexemeAt(s, p, n, u) <=> u = t
    BY <1>6, <1>7, KindsApart
  <2> QED  BY <1>1, <2>1, LexemesAre
<1>9. ASSUME NEW m \in n + 1 .. Len(s), NEW u \in Lexemes(SubSeq(s, p + 1, m))
      PROVE  FALSE
  <2>1. m \in Nat /\ p < m /\ p <= m /\ m <= Len(s) /\ n < Len(s) /\ m # p + 1
    BY <1>1
  <2>2. LexemeAt(s, p, m, u)
    BY <2>1, LexemesAre
  <2>3. OperatorAt(s, p, m, u)
    BY <1>6, <2>1, <2>2, KindsApart
  <2>4. m = p + 2 /\ Two(u, a, b)
    BY <2>1, <2>3 DEF OperatorAt
  <2>5. n = p + 1 /\ n + 1 = p + 2
    BY <2>4
  <2>6. b = c /\ s[n] = a
    BY <2>1, <2>5
  <2> QED  BY <1>3, <2>4, <2>5, <2>6
<1> QED  BY <1>8, <1>9 DEF Whole

\* What has the shape of a token of a type, when it cannot go on, is one, and no longer
\* text is.
LEMMA LexemeEnds ==
  ASSUME NEW s \in Seq(Character), NEW p \in Nat, NEW n \in Nat, p < n, n <= Len(s), NEW c,
         n < Len(s) => s[n + 1] = c, NEW t, Shape(s, p, n, t), Ended(s, p, n, t, c)
  PROVE  Whole(s, p, n, IF t = "SYMBOL" THEN WordType(SubSeq(s, p + 1, n)) ELSE t)
<1>1. "INT" \notin OperatorTypes /\ "FLOAT" \notin OperatorTypes /\ "SYMBOL" \notin OperatorTypes
  BY DEF OperatorTypes
<1>2. t \in OperatorTypes \cup {"INT", "FLOAT", "SYMBOL"}
  BY DEF Ended
<1>3. CASE t = "INT"
  <2>1. NumberAt(s, p, n) /\ c \notin Digits /\ c # "."
    BY <1>1, <1>3 DEF Shape, Ended
  <2> QED  BY <1>3, <2>1, NumberEnds
<1>4. CASE t = "FLOAT"
  <2>1. c \notin Digits /\ s[n] # "."
    BY <1>1, <1>4 DEF Ended
  <2> QED  BY <1>4, <2>1, FloatEnds
<1>5. CASE t = "SYMBOL"
  <2>1. WordAt(s, p, n) /\ c \notin WordMore
    BY <1>1, <1>5 DEF Shape, Ended
  <2> QED  BY <1>5, <2>1, WordEnds
<1>6. CASE t \in OperatorTypes
  <2>1. t # "SYMBOL"
    BY <1>1, <1>6
  <2> QED  BY <1>6, <2>1, OperatorEnds
<1> QED  BY <1>2, <1>3, <1>4, <1>5, <1>6

-----------------------------------------------------------------------------
(* What a turn of the loop makes of it.                                    *)

\* The first character is a token of the type it gives, but for a `!'.
LEMMA FirstShape ==
  ASSUME NEW s, NEW p \in Nat, FirstType(s[p + 1]) \in ScanTypes
  PROVE  Shape(s, p, p + 1, FirstType(s[p + 1]))
<1> DEFINE c == s[p + 1]
           t == FirstType(c)
<1>1. p < p + 1 /\ (\A k \in p + 1 .. p + 1 : k = p + 1) /\ p + 2 .. p + 1 = {}
  OBVIOUS
<1>2. /\ t = "INT" => c \in Digits
      /\ t = "SYMBOL" => c \in WordStart
      /\ t = "STRING" => c = "\""
      /\ t # "FLOAT"
  BY DEF FirstType, WordStart
<1>3. t \in OperatorTypes => One(t, c) \/ (t = "COMPARE" /\ c = "!")
  <2>1. /\ t = "COMPARE" => c \in {"<", ">", "!"}
        /\ t = "ASSIGN" => c = "="
        /\ t = "DOT" => c = "."
        /\ t = "MULDIV" => c \in {"*", "/", "%"}
    BY DEF FirstType
  <2>2. /\ t = "ADDSUB" => c \in {"+", "-"}
        /\ t = "AMP" => c = "&"
        /\ t = "BAR" => c = "|"
        /\ t = "CARET" => c = "^"
    BY DEF FirstType
  <2>3. /\ t = "COLON" => c = ":"
        /\ t = "COMMA" => c = ","
        /\ t = "LGROUP" => c \in {"(", "[", "{"}
        /\ t = "RGROUP" => c \in {")", "]", "}"}
    BY DEF FirstType
  <2>4. t \notin {"THICC_ARROW", "RIGHT_ARROW", "BITSHIFT", "RANGE"}
    BY DEF FirstType
  <2> HIDE DEF c, t
  <2> QED  BY <2>1, <2>2, <2>3, <2>4 DEF One, OperatorTypes
<1> HIDE DEF c, t
<1>4. t \in OperatorTypes \cup {"INT", "SYMBOL", "STRING"}
  BY <1>2 DEF ScanTypes, t, c
<1>5. t = "INT" => Shape(s, p, p + 1, t)
  BY <1>1, <1>2 DEF Shape, NumberAt, c
<1>6. t = "SYMBOL" => Shape(s, p, p + 1, t)
  BY <1>1, <1>2 DEF Shape, WordAt, c
<1>7. t = "STRING" => Shape(s, p, p + 1, t)
  BY <1>1, <1>2, Zenon DEF Shape, c
<1>8. t \in OperatorTypes => Shape(s, p, p + 1, t)
  BY <1>3 DEF Shape, OperatorAt, c
<1> QED  BY <1>4, <1>5, <1>6, <1>7, <1>8 DEF t, c

\* A character that goes on with a token.
LEMMA TurnShape ==
  ASSUME NEW s, NEW p \in Nat, i \in Nat, p < i, Shape(s, p, i, token.type), token \in Current,
         token.type \in ScanTypes, token.type # "STRING",
         NEW tk \in Turn(s[i], s[i + 1])
  PROVE  tk.type = "NONE" \/ Shape(s, p, i + 1, tk.type)
<1> DEFINE a == s[i]
           c == s[i + 1]
<1>1. \A k \in p + 1 .. i + 1 : k \in p + 1 .. i \/ k = i + 1
  OBVIOUS
<1>2. \A k \in p + 2 .. i + 1 : k \in p + 2 .. i \/ k = i + 1
  OBVIOUS
<1>3. token.tag \in Tags /\ token.type \in Types
  BY DEF Current
<1>4. "INT" \notin OperatorTypes /\ "FLOAT" \notin OperatorTypes /\ "SYMBOL" \notin OperatorTypes
      /\ "STRING" \notin OperatorTypes
  BY DEF OperatorTypes
<1>5. ASSUME NEW type \in ScanTypes, NEW tag \in Tags, tk \in Becomes(type, tag)
      PROVE  tk.type = type
  BY <1>5, ChangedIs DEF Types
<1>6. ASSUME NEW tag \in Tags, tk \in Becomes("NONE", tag)
      PROVE  tk.type = "NONE"
  BY <1>6, ChangedIs DEF Types
<1>7. CASE token.type = "INT"
  <2>1. NumberAt(s, p, i)
    BY <1>4, <1>7 DEF Shape
  <2>2. CASE c = "."
    <3>1. tk \in Becomes("FLOAT", token.tag)
      BY <1>7, <2>2 DEF Turn
    <3>2. tk.type = "FLOAT"
      BY <1>3, <1>5, <3>1 DEF ScanTypes
    <3>3. i + 1 \in p + 2 .. i + 1
      OBVIOUS
    <3>4. \A k \in p + 1 .. i + 1 : k # i + 1 => s[k] \in Digits
      BY <1>1, <2>1 DEF NumberAt
    <3> QED  BY <2>2, <3>2, <3>3, <3>4 DEF Shape
  <2>3. CASE c # "."
    <3>1. c \in Digits /\ tk = token
      BY <1>7, <2>3 DEF Turn, Stops, Stays
    <3>2. NumberAt(s, p, i + 1)
      BY <1>1, <2>1, <3>1 DEF NumberAt
    <3> QED  BY <1>7, <3>1, <3>2 DEF Shape
  <2> QED  BY <2>2, <2>3
<1>8. CASE token.type = "FLOAT"
  <2>1. CASE c \in Digits
    <3>1. tk = token
      BY <1>8, <2>1 DEF Turn, Float, Stays
    <3>2. PICK d \in p + 2 .. i : s[d] = "." /\ \A k \in p + 1 .. i : k # d => s[k] \in Digits
      BY <1>4, <1>8 DEF Shape
    <3>3. d \in p + 2 .. i + 1
      OBVIOUS
    <3>4. \A k \in p + 1 .. i + 1 : k # d => s[k] \in Digits
      BY <1>1, <2>1, <3>2
    <3> QED  BY <1>8, <3>1, <3>2, <3>3, <3>4 DEF Shape
  <2>2. CASE c \notin Digits
    <3>1. tk \in Becomes("NONE", "NONE")
      BY <1>8, <2>2 DEF Turn, Float, Stops
    <3> QED  BY <1>6, <3>1 DEF Tags
  <2> QED  BY <2>1, <2>2
<1>9. CASE token.type = "SYMBOL"
  <2>1. WordAt(s, p, i)
    BY <1>4, <1>9 DEF Shape
  <2>2. c \in WordMore /\ tk = token
    BY <1>9 DEF Turn, Stops, Stays, WordMore
  <2>3. WordAt(s, p, i + 1)
    BY <1>2, <2>1, <2>2 DEF WordAt
  <2> QED  BY <1>9, <2>2, <2>3 DEF Shape
<1>10. CASE token.type \in OperatorTypes
  <2> DEFINE t == token.type
  <2>1. \/ i = p + 1 /\ One(t, a)
        \/ i = p + 2 /\ Two(t, s[p + 1], a)
        \/ i = p + 1 /\ t = "COMPARE" /\ a = "!"
    BY <1>4, <1>10 DEF Shape, OperatorAt
  <2>2. /\ t = "COMPARE" => (i = p + 1 /\ a \in {"<", ">", "!"}) \/ (i = p + 2 /\ a = "=")
        /\ t = "ASSIGN" => i = p + 1 /\ a = "="
        /\ t = "DOT" => i = p + 1 /\ a = "."
        /\ t = "ADDSUB" => i = p + 1
    <3> HIDE DEF a, t
    <3> QED  BY <2>1 DEF One, Two
  <2>3. ASSUME NEW u \in OperatorTypes, i = p + 1, Two(u, a, c), tk.type = u
        PROVE  Shape(s, p, i + 1, tk.type)
    <3>1. i + 1 = p + 2 /\ a = s[p + 1] /\ c = s[p + 2]
      BY <2>3
    <3>2. OperatorAt(s, p, i + 1, u)
      BY <2>3, <3>1 DEF OperatorAt
    <3> QED  BY <2>3, <3>2 DEF Shape
  <2>4. CASE t = "ASSIGN"
    <3>1. \/ c = "=" /\ tk \in Becomes("COMPARE", "INFIX_OPERATOR")
          \/ c = ">" /\ tk \in Becomes("THICC_ARROW", token.tag)
      BY <2>4 DEF Turn, Stops
    <3>2. (c = "=" /\ tk.type = "COMPARE") \/ (c = ">" /\ tk.type = "THICC_ARROW")
      BY <1>3, <1>5, <3>1 DEF ScanTypes, OperatorTypes, Tags
    <3>3. Two(tk.type, a, c) /\ tk.type \in OperatorTypes
      BY <2>2, <2>4, <3>2 DEF Two, OperatorTypes
    <3> QED  BY <2>2, <2>3, <2>4, <3>3
  <2>5. CASE t = "COMPARE"
    <3>1. \/ c \in {"<", ">"} /\ a = c /\ tk \in Becomes("BITSHIFT", token.tag)
          \/ tk \in Becomes("NONE", token.tag)
          \/ a \in {"<", ">", "!"} /\ c = "=" /\ tk = token
      BY <2>5 DEF Turn, Compare, Stops, Stays
    <3>2. \/ c \in {"<", ">"} /\ a = c /\ tk.type = "BITSHIFT"
          \/ tk.type = "NONE"
          \/ a \in {"<", ">", "!"} /\ c = "=" /\ tk.type = "COMPARE"
      BY <1>3, <1>5, <1>6, <2>5, <3>1 DEF ScanTypes, OperatorTypes
    <3>3. tk.type = "NONE" \/ (Two(tk.type, a, c) /\ tk.type \in OperatorTypes /\ i = p + 1)
      BY <2>2, <2>5, <3>2 DEF Two, OperatorTypes
    <3> QED  BY <2>3, <3>3
  <2>6. CASE t = "DOT"
    <3>1. c = "." /\ tk \in Becomes("RANGE", "OPERATOR")
      BY <2>6 DEF Turn, Stops
    <3>2. tk.type = "RANGE"
      BY <1>5, <3>1 DEF ScanTypes, OperatorTypes, Tags
    <3>3. Two(tk.type, a, c) /\ tk.type \in OperatorTypes
      BY <2>2, <2>6, <3>1, <3>2 DEF Two, OperatorTypes
    <3> QED  BY <2>2, <2>3, <2>6, <3>3
  <2>7. CASE t = "ADDSUB"
    <3>1. a = "-" /\ c = ">" /\ tk \in Becomes("RIGHT_ARROW", "OPERATOR")
      BY <2>7 DEF Turn, Stops
    <3>2. tk.type = "RIGHT_ARROW"
      BY <1>5, <3>1 DEF ScanTypes, OperatorTypes, Tags
    <3>3. Two(tk.type, a, c) /\ tk.type \in OperatorTypes
      BY <3>1, <3>2 DEF Two, OperatorTypes
    <3> QED  BY <2>2, <2>3, <2>7, <3>3
  <2>8. CASE t \notin {"ASSIGN", "COMPARE", "DOT", "ADDSUB"}
    <3>1. t \notin {"NONE", "INT", "FLOAT", "SYMBOL", "ASSIGN", "COMPARE", "DOT", "ADDSUB"}
      BY <1>10, <2>8 DEF OperatorTypes
    <3> QED  BY <3>1 DEF Turn, Stops
  <2> QED  BY <2>4, <2>5, <2>6, <2>7, <2>8
<1> QED  BY <1>7, <1>8, <1>9, <1>10 DEF ScanTypes

\* A token ends where it cannot go on.
LEMMA TurnEnds ==
  ASSUME NEW s, NEW p \in Nat, i \in Nat, p < i, Shape(s, p, i, token.type),
         token.type \in ScanTypes, token.type # "STRING", NEW c, Turn(s[i], c) = {}
  PROVE  Ended(s, p, i, token.type, c)
<1> DEFINE a == s[i]
           t == token.type
<1>1. /\ Stays # {}
      /\ \A type, tag : Becomes(type, tag) # {}
  BY DEF Stays, Becomes
<1>2. CASE t = "INT"
  <2>1. c \notin Digits /\ c # "."
    BY <1>1, <1>2 DEF Turn
  <2> QED  BY <1>2, <2>1 DEF Ended
<1>3. CASE t = "FLOAT"
  <2>1. c \notin Digits /\ a # "."
    BY <1>1, <1>3 DEF Turn, Float
  <2> QED  BY <1>3, <2>1 DEF Ended
<1>4. CASE t = "SYMBOL"
  <2>1. c \notin WordMore
    BY <1>1, <1>4 DEF Turn, WordMore
  <2> QED  BY <1>4, <2>1 DEF Ended
<1>5. CASE t \in OperatorTypes
  <2>1. t \notin {"INT", "FLOAT", "SYMBOL", "STRING", "NONE"}
    BY <1>5 DEF OperatorTypes
  <2>2. ASSUME i = p + 1 PROVE One(t, a) \/ (t = "COMPARE" /\ a = "!")
    <3>1. i # p + 2 /\ a = s[p + 1]
      BY <2>2
    <3> QED  BY <2>1, <3>1 DEF Shape, OperatorAt
  <2>3. CASE t = "COMPARE"
    <3>1. /\ ~(c \in {"<", ">"} /\ a = c) /\ ~(a = "!" /\ c # "=")
          /\ ~(a \in {"<", ">", "!"} /\ c = "=")
      BY <1>1, <2>3 DEF Turn, Compare
    <3>2. i = p + 1 => a \in {"<", ">", "!"}
      BY <2>2, <2>3 DEF One
    <3>3. i = p + 1 => a # "!" /\ \A u : ~Two(u, a, c)
      BY <3>1, <3>2 DEF Two
    <3> QED  BY <1>5, <3>3 DEF Ended
  <2>4. CASE t = "ASSIGN"
    <3>1. c # "=" /\ c # ">"
      BY <1>1, <2>4 DEF Turn
    <3>2. i = p + 1 => a = "="
      BY <2>2, <2>4 DEF One
    <3>3. i = p + 1 => a # "!" /\ \A u : ~Two(u, a, c)
      BY <3>1, <3>2 DEF Two
    <3> QED  BY <1>5, <3>3 DEF Ended
  <2>5. CASE t = "DOT"
    <3>1. c # "."
      BY <1>1, <2>5 DEF Turn
    <3>2. i = p + 1 => a = "."
      BY <2>2, <2>5 DEF One
    <3>3. i = p + 1 => a # "!" /\ \A u : ~Two(u, a, c)
      BY <3>1, <3>2 DEF Two
    <3> QED  BY <1>5, <3>3 DEF Ended
  <2>6. CASE t = "ADDSUB"
    <3>1. ~(a = "-" /\ c = ">")
      BY <1>1, <2>6 DEF Turn
    <3>2. i = p + 1 => a \in {"+", "-"}
      BY <2>2, <2>6 DEF One
    <3>3. i = p + 1 => a # "!" /\ \A u : ~Two(u, a, c)
      BY <3>1, <3>2 DEF Two
    <3> QED  BY <1>5, <3>3 DEF Ended
  <2>7. CASE t \notin {"COMPARE", "ASSIGN", "DOT", "ADDSUB"}
    <3>1. i = p + 1 => a \notin {"=", "!", "<", ">", "-", "."}
      BY <2>2, <2>7 DEF One
    <3>2. i = p + 1 => a # "!" /\ \A u : ~Two(u, a, c)
      BY <3>1 DEF Two
    <3> QED  BY <1>5, <3>2 DEF Ended
  <2> QED  BY <2>3, <2>4, <2>5, <2>6, <2>7
<1> QED  BY <1>2, <1>3, <1>4, <1>5 DEF ScanTypes

-----------------------------------------------------------------------------
(* What is between two tokens.                                             *)

CommentTo(s, lo, n) == \E j \in lo + 1 .. n : s[j] = "#" /\ \A h \in j .. n : s[h] # "\n"
Blanked(s, lo, hi) ==
    \A n \in lo + 1 .. hi : \/ s[n] \in Blanks \cup {"\n"}
                            \/ CommentTo(s, lo, n)
                            \/ s[n] = "\\" /\ n < hi /\ s[n + 1] = "\n"
NoEnd(s, lo, hi) == \A n \in lo + 1 .. hi : s[n] = "\n" => n > lo + 1 /\ s[n - 1] = "\\"

\* What lex_next may leave out, from where a token ends: a newline only behind one.
Lead(s, lo, behind, hi) ==
    /\ lo <= hi /\ hi <= Len(s) /\ Blanked(s, lo, hi)
    /\ ~behind => NoEnd(s, lo, hi)

LEMMA NothingBetween ==
  ASSUME NEW s, NEW lo \in Nat
  PROVE  Blanked(s, lo, lo) /\ NoEnd(s, lo, lo)
<1>1. lo + 1 .. lo = {}
  OBVIOUS
<1> QED  BY <1>1 DEF Blanked, NoEnd

\* One character more, or the two of a continuation.
LEMMA CommentGoesOn ==
  ASSUME NEW s, NEW lo \in Nat, NEW hi \in Nat, lo <= hi, s[hi + 1] # "\n",
         CommentTo(s, lo, hi) \/ s[hi + 1] = "#"
  PROVE  CommentTo(s, lo, hi + 1)
<1>1. \A h : h \in hi + 1 .. hi + 1 => h = hi + 1
  OBVIOUS
<1>2. hi + 1 \in lo + 1 .. hi + 1
  OBVIOUS
<1>3. CASE s[hi + 1] = "#"
  BY <1>1, <1>2, <1>3 DEF CommentTo
<1>4. CASE CommentTo(s, lo, hi)
  <2>1. PICK j \in lo + 1 .. hi : s[j] = "#" /\ \A h \in j .. hi : s[h] # "\n"
    BY <1>4 DEF CommentTo
  <2>2. j \in lo + 1 .. hi + 1
    OBVIOUS
  <2>3. \A h \in j .. hi + 1 : h \in j .. hi \/ h = hi + 1
    OBVIOUS
  <2> QED  BY <2>1, <2>2, <2>3 DEF CommentTo
<1> QED  BY <1>3, <1>4

LEMMA BlankBehind ==
  ASSUME NEW s, NEW lo \in Nat, NEW hi \in Nat, lo <= hi, Blanked(s, lo, hi),
         s[hi + 1] \in Blanks \cup {"\n"} \/ CommentTo(s, lo, hi + 1)
  PROVE  Blanked(s, lo, hi + 1)
<1> SUFFICES ASSUME NEW n \in lo + 1 .. hi + 1
             PROVE  \/ s[n] \in Blanks \cup {"\n"}
                    \/ CommentTo(s, lo, n)
                    \/ s[n] = "\\" /\ n < hi + 1 /\ s[n + 1] = "\n"
  BY Zenon DEF Blanked
<1>1. n \in lo + 1 .. hi \/ n = hi + 1
  OBVIOUS
<1>2. n < hi => n < hi + 1
  OBVIOUS
<1> QED  BY <1>1, <1>2, Zenon DEF Blanked

LEMMA ContinuedBehind ==
  ASSUME NEW s, NEW lo \in Nat, NEW hi \in Nat, lo <= hi, Blanked(s, lo, hi),
         s[hi + 1] = "\\", s[hi + 2] = "\n"
  PROVE  /\ Blanked(s, lo, hi + 2)
         /\ NoEnd(s, lo, hi) => NoEnd(s, lo, hi + 2)
<1> DEFINE cont(n) == s[n] = "\\"
           line(n) == s[n] = "\n"
           a == hi + 1
           b == hi + 2
<1>1. cont(a) /\ line(b)
  OBVIOUS
<1>2. ~line(a)
  OBVIOUS
<1>3. Blanked(s, lo, b) <=> \A n \in lo + 1 .. b : \/ s[n] \in Blanks \cup {"\n"}
                                                   \/ CommentTo(s, lo, n)
                                                   \/ cont(n) /\ n < b /\ line(n + 1)
  BY Zenon DEF Blanked
<1>4. Blanked(s, lo, hi) <=> \A n \in lo + 1 .. hi : \/ s[n] \in Blanks \cup {"\n"}
                                                     \/ CommentTo(s, lo, n)
                                                     \/ cont(n) /\ n < hi /\ line(n + 1)
  BY Zenon DEF Blanked
<1>5. line(b) => s[b] \in Blanks \cup {"\n"}
  OBVIOUS
<1>6. \A h : NoEnd(s, lo, h) <=> \A n \in lo + 1 .. h : line(n) => n > lo + 1 /\ cont(n - 1)
  BY Zenon DEF NoEnd
<1> HIDE DEF cont, line, a, b
<1>7. a \in Nat /\ b \in Nat /\ a < b /\ a + 1 = b /\ b - 1 = a /\ b > lo + 1 /\ a = hi + 1 /\ b = hi + 2
  BY DEF a, b
<1>8. \A n \in lo + 1 .. b : n \in lo + 1 .. hi \/ n = a \/ n = b
  BY <1>7
<1>9. \A n \in lo + 1 .. hi : n < hi => n < b
  BY <1>7
<1>10. Blanked(s, lo, b)
  <2> SUFFICES ASSUME NEW n \in lo + 1 .. b
               PROVE  \/ s[n] \in Blanks \cup {"\n"}
                      \/ CommentTo(s, lo, n)
                      \/ cont(n) /\ n < b /\ line(n + 1)
    BY <1>3
  <2>1. CASE n \in lo + 1 .. hi
    BY <1>4, <1>9, <2>1, Zenon
  <2>2. CASE n = a
    BY <1>1, <1>7, <2>2, Zenon
  <2>3. CASE n = b
    BY <1>1, <1>5, <2>3
  <2> QED  BY <1>8, <2>1, <2>2, <2>3
<1>11. NoEnd(s, lo, hi) => NoEnd(s, lo, b)
  <2> SUFFICES ASSUME NoEnd(s, lo, hi), NEW n \in lo + 1 .. b, line(n)
               PROVE  n > lo + 1 /\ cont(n - 1)
    BY <1>6
  <2>1. CASE n \in lo + 1 .. hi
    BY <1>6, <2>1
  <2>2. CASE n = b
    BY <1>1, <1>7, <2>2
  <2> QED  BY <1>2, <1>8, <2>1, <2>2
<1> QED  BY <1>10, <1>11 DEF b

LEMMA NoEndBehind ==
  ASSUME NEW s, NEW lo \in Nat, NEW hi \in Nat, NoEnd(s, lo, hi), s[hi + 1] # "\n"
  PROVE  NoEnd(s, lo, hi + 1)
<1>1. \A n \in lo + 1 .. hi + 1 : n \in lo + 1 .. hi \/ n = hi + 1
  OBVIOUS
<1> QED  BY <1>1, Zenon DEF NoEnd

\* What is between two tokens, of its characters.
LEMMA LeadMeans ==
  ASSUME NEW s \in Seq(Character), NEW lo \in Nat, NEW hi \in Nat, NEW behind \in BOOLEAN,
         Lead(s, lo, behind, hi)
  PROVE  /\ Skippable(SubSeq(s, lo + 1, hi))
         /\ EndsStatement(SubSeq(s, lo + 1, hi)) => behind
<1> DEFINE v == SubSeq(s, lo + 1, hi)
           l == hi - lo
<1>1. lo <= hi /\ hi <= Len(s) /\ Blanked(s, lo, hi) /\ (~behind => NoEnd(s, lo, hi))
  BY DEF Lead
<1>2. /\ v \in Seq(Character) /\ Len(v) = l /\ DOMAIN v = 1 .. l
      /\ \A k \in 1 .. l : v[k] = s[lo + k]
  BY <1>1, PieceIs
<1> HIDE DEF v
<1>3. ASSUME NEW k \in 1 .. l
      PROVE  v[k] \in Blanks \cup {"\n"} \/ InComment(v, k) \/ Continued(v, k)
  <2>1. lo + k \in lo + 1 .. hi
    BY <1>1
  <2>2. v[k] = s[lo + k]
    BY <1>2
  <2>3. CASE s[lo + k] \in Blanks \cup {"\n"}
    BY <2>2, <2>3
  <2>4. CASE CommentTo(s, lo, lo + k)
    <3>1. PICK j \in lo + 1 .. lo + k : s[j] = "#" /\ \A h \in j .. lo + k : s[h] # "\n"
      BY <2>4 DEF CommentTo
    <3>2. CASE j = lo + k
      BY <2>2, <3>1, <3>2 DEF Blanks
    <3>3. CASE j # lo + k
      <4>1. j - lo \in 1 .. k - 1 /\ j - lo \in 1 .. l /\ lo + (j - lo) = j
        BY <3>3
      <4>2. v[j - lo] = "#"
        BY <1>2, <3>1, <4>1
      <4>3. ASSUME NEW h \in j - lo .. k PROVE v[h] # "\n"
        <5>1. h \in 1 .. l /\ lo + h \in j .. lo + k
          BY <4>1
        <5> QED  BY <1>2, <3>1, <5>1
      <4> QED  BY <4>1, <4>2, <4>3 DEF InComment
    <3> QED  BY <3>2, <3>3
  <2>5. CASE s[lo + k] = "\\" /\ lo + k < hi /\ s[(lo + k) + 1] = "\n"
    <3>1. lo + k < hi
      BY <2>5
    <3>2. k < l /\ k + 1 \in 1 .. l /\ lo + (k + 1) = (lo + k) + 1
      <4> HIDE <2>5
      <4> QED  BY <3>1
    <3>3. v[k + 1] = s[(lo + k) + 1]
      BY <1>2, <3>2
    <3> QED  BY <1>2, <2>2, <2>5, <3>2, <3>3, Zenon DEF Continued
  <2> QED  BY <1>1, <2>1, <2>3, <2>4, <2>5, Zenon DEF Blanked
<1>4. ASSUME EndsStatement(v), ~behind PROVE FALSE
  <2>1. PICK k \in 1 .. l : v[k] = "\n" /\ (k = 1 \/ v[k - 1] # "\\")
    BY <1>2, <1>4, Zenon DEF EndsStatement
  <2>2. k \in Int
    OBVIOUS
  <2>3. lo + k \in lo + 1 .. hi /\ ((lo + k > lo + 1) <=> k # 1)
    OBVIOUS
  <2>4. v[k] = s[lo + k]
    BY <1>2
  <2>5. lo + k > lo + 1 /\ s[(lo + k) - 1] = "\\"
    BY <1>1, <1>4, <2>1, <2>3, <2>4, Zenon DEF NoEnd
  <2>6. k # 1 => k - 1 \in 1 .. l /\ lo + (k - 1) = (lo + k) - 1
    OBVIOUS
  <2>7. k # 1 => v[k - 1] = s[(lo + k) - 1]
    BY <1>2, <2>6
  <2> QED  BY <2>1, <2>3, <2>5, <2>7, Zenon
<1>5. Skippable(v)
  BY <1>2, <1>3 DEF Skippable
<1> QED  BY <1>4, <1>5 DEF v

-----------------------------------------------------------------------------
(* The tokens so far, and what lex_next has read behind them.              *)

EndOf(ts, k) == IF k = 0 THEN 0 ELSE ts[k].pos + Len(ts[k].value)
OnLine(ts, k) == k > 0 /\ ts[k].type = "NEWLINE"
LeadTo(s, ts, k, hi) == Lead(s, EndOf(ts, k), OnLine(ts, k), hi)

\* A token is that of its characters.
Reads(s, t) ==
    /\ t.pos + Len(t.value) <= Len(s) /\ t.value = SubSeq(s, t.pos + 1, t.pos + Len(t.value))
    /\ t.type = "EOF" => t.pos = Len(s)
    /\ t.type = "NEWLINE" => t.value = <<>> /\ t.pos < Len(s) /\ s[t.pos + 1] = "\n"
    /\ t.type \notin {"EOF", "NEWLINE"} => Whole(s, t.pos, t.pos + Len(t.value), t.type)

ExactTo(s, ts) ==
    \A k \in 1 .. Len(ts) :
        ts[k].type # "NONE" => LeadTo(s, ts, k - 1, ts[k].pos) /\ Reads(s, ts[k])

Ready == lexing = "idle" /\ Given => LeadTo(string, tokens, Len(tokens), at.pos)
Passing == lexing = "skip" /\ token.type = "NONE" =>
              /\ LeadTo(string, tokens, Len(tokens), at.pos)
              /\ comment => CommentTo(string, EndOf(tokens, Len(tokens)), at.pos)
Breaking == lexing = "skip" /\ token.type = "NEWLINE" =>
              /\ LeadTo(string, tokens, Len(tokens), token.pos)
              /\ token.pos < Len(string) /\ string[token.pos + 1] = "\n"
              /\ token.pos <= at.pos /\ Blanked(string, token.pos, at.pos)
              /\ comment => CommentTo(string, token.pos, at.pos)
Reading == lexing = "scan" =>
              /\ LeadTo(string, tokens, Len(tokens), token.pos)
              /\ token.type # "NONE" => Shape(string, token.pos, i, token.type)
ExactInv == ExactTo(string, tokens) /\ Ready /\ Passing /\ Breaking /\ Reading

\* The end of a token is in the naturals, and does not depend on what is behind.
LEMMA EndIs ==
  ASSUME NEW ts \in Seq(TokenType), NEW k \in 0 .. Len(ts)
  PROVE  EndOf(ts, k) \in Nat /\ OnLine(ts, k) \in BOOLEAN
<1>1. CASE k = 0
  BY <1>1 DEF EndOf, OnLine
<1>2. CASE k # 0
  <2>1. k \in 1 .. Len(ts) /\ Len(ts) \in Nat
    BY <1>2, LenProperties
  <2>2. ts[k] \in TokenType
    BY <2>1, ElementOfSeq
  <2>3. ts[k].pos \in Nat /\ Len(ts[k].value) \in Nat
    BY <2>2, LenProperties DEF TokenType
  <2> QED  BY <1>2, <2>3 DEF EndOf, OnLine
<1> QED  BY <1>1, <1>2

\* A token is put behind the others.
FinishedBy(tk, end) ==
    \/ tk.type = "NONE"
    \/ /\ tk.type = "NEWLINE" /\ end = at.pos /\ tk.pos <= end /\ end <= Len(string)
       /\ tk.pos < Len(string) /\ string[tk.pos + 1] = "\n" /\ Blanked(string, tk.pos, end)
    \/ tk.type = "EOF" /\ end = at.pos /\ tk.pos = end /\ end = Len(string)
    \/ /\ tk.type \in ScanTypes /\ tk.pos = at.pos /\ at.pos < end /\ end <= Len(string)
       /\ Whole(string, at.pos, end,
                IF tk.type = "SYMBOL" THEN WordType(SubSeq(string, at.pos + 1, end)) ELSE tk.type)

LEMMA ReservedTypes ==
  ASSUME NEW v
  PROVE  WordType(v) \in Types \ {"NONE", "EOF", "NEWLINE"}
<1>1. CASE v \in DOMAIN Reserved
  BY <1>1, ReservedAssumption DEF WordType, Types, ScanTypes, OperatorTypes
<1>2. CASE v \notin DOMAIN Reserved
  BY <1>2 DEF WordType, Types, ScanTypes
<1> QED  BY <1>1, <1>2

LEMMA FinishExact ==
  ASSUME CursorInv, ExactInv, lexing \in {"skip", "scan"}, NEW tk \in Current, Tagged(tk),
         NEW end \in Nat, Finish(tk, at, end), FinishedBy(tk, end),
         LeadTo(string, tokens, Len(tokens), tk.pos)
  PROVE  ExactInv'
<1> DEFINE n == Len(tokens)
           v == Value(at, end)
           t == Made(tk, v)
<1>1. Text /\ at \in Position /\ tokens \in Seq(TokenType) /\ n \in Nat /\ at.pos \in Nat
      /\ string \in Seq(Character) /\ Len(string) \in Nat /\ tk.pos \in Nat
  BY LenProperties DEF CursorInv, Typed1, Text, Position, Current
<1>2. tk.type = "NONE" \/ end <= Len(string)
  BY <1>1 DEF FinishedBy
<1>3. /\ tokens' = Append(tokens, t) /\ at' = [at EXCEPT !.pos = end] /\ string' = string
      /\ lexing' = "idle"
  BY <1>2, FinishStep
<1>4. v \in Seq(Character)
  BY <1>1, ValueIs
<1>5. t \in TokenType /\ t.pos = tk.pos /\ t.value = v /\ (tk.type = "NONE" => t.type = "NONE")
  <2>1. t.pos = tk.pos /\ t.value = v
    BY DEF Made
  <2> QED  BY <1>4, <2>1, MadeIs
<1>6. t.type = IF tk.type = "SYMBOL" THEN WordType(v) ELSE tk.type
  <2>1. t.type = Word(tk, v).type
    BY DEF Made
  <2> QED  BY <2>1 DEF Word, WordType
<1>7. /\ Len(tokens') = n + 1 /\ tokens'[n + 1] = t /\ tokens' \in Seq(TokenType)
      /\ \A k \in 1 .. n : tokens'[k] = tokens[k]
  <2> HIDE DEF t
  <2> QED  BY <1>1, <1>3, <1>5, AppendProperties
<1> DEFINE ts == tokens'
<1>8. at'.pos = end
  BY <1>1, <1>3 DEF Position
<1>9. ASSUME tk.type # "NONE", at.pos <= end
      PROVE  v = SubSeq(string, at.pos + 1, end) /\ Len(v) = end - at.pos
  <2>1. (IF end < Len(string) THEN end ELSE Len(string)) = end
    BY <1>1, <1>2, <1>9
  <2>2. v = SubSeq(string, at.pos + 1, end)
    BY <2>1 DEF Value
  <2> QED  BY <1>1, <1>2, <1>9, <2>2, PieceIs
<1>10. ASSUME tk.type # "NONE"
       PROVE  Reads(string, t) /\ Lead(string, t.pos + Len(v), t.type = "NEWLINE", end)
  <2>1. CASE tk.type = "NEWLINE"
    <3>1. t.type = "NEWLINE" /\ end = at.pos /\ at.pos <= end
      BY <1>1, <1>6, <2>1 DEF FinishedBy, ScanTypes, OperatorTypes
    <3>2. /\ tk.pos <= end /\ end <= Len(string) /\ tk.pos < Len(string)
          /\ string[tk.pos + 1] = "\n" /\ Blanked(string, tk.pos, end)
      BY <2>1 DEF FinishedBy, ScanTypes, OperatorTypes
    <3>3. Len(v) = 0 /\ v = <<>>
      <4>1. Len(v) = end - at.pos
        BY <1>9, <1>10, <3>1
      <4>2. Len(v) = 0
        BY <1>1, <3>1, <4>1
      <4> QED  BY <1>4, <4>2, EmptySeq
    <3>4. SubSeq(string, tk.pos + 1, tk.pos) = <<>>
      <4> DEFINE w == SubSeq(string, tk.pos + 1, tk.pos)
      <4>1. tk.pos <= tk.pos /\ tk.pos <= Len(string) /\ tk.pos - tk.pos = 0
        BY <1>1, <3>2
      <4>2. w \in Seq(Character) /\ Len(w) = tk.pos - tk.pos
        BY <1>1, <4>1, PieceIs
      <4> HIDE DEF w
      <4>3. w = <<>>
        BY <4>1, <4>2, EmptySeq
      <4> QED  BY <4>3 DEF w
    <3>5. t.pos + Len(v) = tk.pos /\ tk.pos <= Len(string)
      BY <1>1, <1>5, <3>2, <3>3
    <3> HIDE DEF t, v
    <3>6. Reads(string, t)
      BY <1>5, <3>1, <3>2, <3>3, <3>4, <3>5 DEF Reads
    <3>7. Lead(string, tk.pos, t.type = "NEWLINE", end)
      BY <3>1, <3>2 DEF Lead
    <3> QED  BY <3>5, <3>6, <3>7
  <2>2. CASE tk.type = "EOF"
    <3>1. t.type = "EOF" /\ end = at.pos /\ tk.pos = end /\ end = Len(string) /\ at.pos <= end
      BY <1>1, <1>6, <2>2 DEF FinishedBy, ScanTypes, OperatorTypes
    <3>2. v = SubSeq(string, at.pos + 1, end)
      BY <1>9, <1>10, <3>1
    <3> HIDE DEF t, v
    <3>3. t.pos + Len(v) = end /\ at.pos = t.pos
      <4>1. Len(v) = end - at.pos
        BY <1>9, <1>10, <3>1
      <4>2. end - at.pos = 0 /\ end + 0 = end
        BY <3>1
      <4> QED  BY <1>5, <3>1, <4>1, <4>2
    <3>4. Reads(string, t)
      BY <1>1, <1>5, <3>1, <3>2, <3>3 DEF Reads
    <3>5. end <= end /\ end <= Len(string)
      BY <3>1
    <3>6. Lead(string, end, t.type = "NEWLINE", end)
      BY <3>5, NothingBetween DEF Lead
    <3> QED  BY <3>3, <3>4, <3>6
  <2>3. CASE tk.type \in ScanTypes
    <3>1. tk.type \notin {"NONE", "EOF", "NEWLINE"}
      BY <2>3 DEF ScanTypes, OperatorTypes
    <3>2. /\ tk.pos = at.pos /\ at.pos < end /\ end <= Len(string)
          /\ Whole(string, at.pos, end,
                   IF tk.type = "SYMBOL" THEN WordType(SubSeq(string, at.pos + 1, end)) ELSE tk.type)
      BY <3>1 DEF FinishedBy
    <3>3. at.pos <= end
      BY <1>1, <3>2
    <3>4. v = SubSeq(string, at.pos + 1, end) /\ Len(v) = end - at.pos
      BY <1>9, <1>10, <3>3
    <3>5. t.pos = at.pos /\ t.pos + Len(v) = end
      BY <1>1, <1>5, <3>2, <3>4
    <3>6. Whole(string, at.pos, end, t.type)
      BY <1>6, <3>2, <3>4
    <3>7. t.type \notin {"EOF", "NEWLINE"}
      BY <1>6, <3>1, ReservedTypes
    <3> HIDE DEF t, v
    <3>8. Reads(string, t)
      BY <1>5, <3>2, <3>4, <3>5, <3>6, <3>7 DEF Reads
    <3>9. end <= end
      OBVIOUS
    <3>10. Lead(string, end, t.type = "NEWLINE", end)
      BY <3>2, <3>9, NothingBetween DEF Lead
    <3> QED  BY <3>5, <3>8, <3>10
  <2> QED  BY <1>10, <2>1, <2>2, <2>3 DEF FinishedBy
<1> HIDE DEF t, v
<1>11. \A k \in 0 .. n : EndOf(ts, k) = EndOf(tokens, k) /\ OnLine(ts, k) = OnLine(tokens, k)
  <2> TAKE k \in 0 .. n
  <2>1. k = 0 \/ k \in 1 .. n
    BY <1>1
  <2> QED  BY <1>7, <2>1 DEF EndOf, OnLine
<1>12. ExactTo(string, ts)
  <2> SUFFICES ASSUME NEW k \in 1 .. n + 1, ts[k].type # "NONE"
               PROVE  LeadTo(string, ts, k - 1, ts[k].pos) /\ Reads(string, ts[k])
    BY <1>7 DEF ExactTo
  <2>1. k - 1 \in 0 .. n /\ (k \in 1 .. n \/ k = n + 1)
    BY <1>1
  <2>2. EndOf(ts, k - 1) = EndOf(tokens, k - 1) /\ OnLine(ts, k - 1) = OnLine(tokens, k - 1)
    BY <1>11, <2>1
  <2>3. CASE k \in 1 .. n
    <3>1. ts[k] = tokens[k]
      BY <1>7, <2>3
    <3>2. LeadTo(string, tokens, k - 1, tokens[k].pos) /\ Reads(string, tokens[k])
      BY <2>3, <3>1 DEF ExactInv, ExactTo
    <3> QED  BY <2>2, <3>1, <3>2 DEF LeadTo
  <2>4. CASE k = n + 1
    <3>1. ts[k] = t /\ k - 1 = n /\ tk.type # "NONE"
      BY <1>1, <1>5, <1>7, <2>4
    <3> QED  BY <1>5, <1>10, <2>2, <3>1 DEF LeadTo
  <2> QED  BY <2>1, <2>3, <2>4
<1>13. Ready'
  <2> SUFFICES ASSUME Given' PROVE LeadTo(string, ts, n + 1, end)
    BY <1>3, <1>7, <1>8 DEF Ready
  <2>1. ts # <<>> /\ n + 1 # 0 /\ n + 1 > 0
    BY <1>1, <1>7, EmptySeq
  <2>2. t.type # "NONE" /\ tk.type # "NONE"
    BY <1>5, <1>7, <2>1 DEF Given
  <2>3. EndOf(ts, n + 1) = t.pos + Len(v) /\ OnLine(ts, n + 1) = (t.type = "NEWLINE")
    BY <1>5, <1>7, <2>1 DEF EndOf, OnLine
  <2> QED  BY <1>10, <2>2, <2>3 DEF LeadTo
<1> QED  BY <1>3, <1>12, <1>13 DEF ExactInv, Passing, Breaking, Reading

LEMMA SameTokensExact ==
  ASSUME ExactInv, UNCHANGED <<string, tokens>>, Ready', Passing', Breaking', Reading'
  PROVE  ExactInv'
BY DEF ExactInv

LEMMA SkipBlanks ==
  ASSUME CursorInv, Skip, NEW lo \in Nat, lo <= at.pos, Blanked(string, lo, at.pos),
         comment => CommentTo(string, lo, at.pos)
  PROVE  /\ at'.pos \in Nat /\ lo <= at'.pos /\ at'.pos <= Len(string) /\ Blanked(string, lo, at'.pos)
         /\ NoEnd(string, lo, at.pos) => NoEnd(string, lo, at'.pos)
         /\ comment' => CommentTo(string, lo, at'.pos)
<1> DEFINE p == at.pos
           c == CharAt(p)
<1>1. /\ Text /\ at \in Position /\ Len(string) \in Nat /\ p <= Len(string) /\ p \in Nat
      /\ lexing = "skip" /\ UNCHANGED <<string, lexing>>
  BY LenProperties DEF Skip, CursorInv, Typed1, Text, Busy, Position
<1>2. at'.pos \in Nat /\ at'.pos <= Len(string)
  <2>1. CursorInv'
    BY SkipStep
  <2> QED  BY <1>1, <2>1 DEF CursorInv, Typed1, Busy, Position
<1>3. ASSUME c # "NUL" PROVE c = string[p + 1]
  BY <1>1, <1>3, CharIs
<1>4. CASE ContinuesLine /\ at' = NextLineFrom(at) /\ comment' = FALSE
  <2>1. c = "\\" /\ CharAt(p + 1) = "\n" /\ "\\" # "NUL"
    BY <1>4, Zenon DEF ContinuesLine
  <2>2. string[p + 1] = "\\"
    BY <1>3, <2>1, Zenon
  <2>3. string[p + 2] = "\n"
    <3>1. p + 1 \in Nat /\ (p + 1) + 1 = p + 2
      BY <1>1
    <3>2. CharAt(p + 1) = "\n"
      BY <1>4 DEF ContinuesLine
    <3>3. string[(p + 1) + 1] = "\n"
      BY <1>1, <3>1, <3>2, NewlineAt
    <3> QED  BY <3>1, <3>3
  <2>4. at'.pos = p + 2
    BY <1>4 DEF NextLineFrom
  <2>5. /\ Blanked(string, lo, p + 2)
        /\ NoEnd(string, lo, p) => NoEnd(string, lo, p + 2)
    BY <1>1, <2>2, <2>3, ContinuedBehind, Zenon
  <2>6. lo <= p + 2
    <3> HIDE <1>4
    <3> QED  BY <1>1
  <2> QED  BY <1>2, <1>4, <2>4, <2>5, <2>6
<1>5. CASE Skips /\ at' = Forward(at) /\ comment' = (comment \/ c = "#")
  <2>1. c # "NUL" /\ (c \in Blanks \/ (comment /\ c # "\n"))
    BY <1>5 DEF Skips
  <2>2. string[p + 1] = c /\ c # "\n"
    BY <1>3, <2>1 DEF Blanks
  <2>3. at'.pos = p + 1 /\ lo <= p + 1
    BY <1>1, <1>5 DEF Forward, Position
  <2> HIDE DEF c, p
  <2>4. comment \/ c = "#" => CommentTo(string, lo, p + 1)
    BY <1>1, <2>2, CommentGoesOn DEF p
  <2>5. Blanked(string, lo, p + 1)
    BY <1>1, <2>1, <2>2, <2>4, BlankBehind DEF p
  <2>6. NoEnd(string, lo, p) => NoEnd(string, lo, p + 1)
    BY <1>1, <2>2, NoEndBehind
  <2> QED  BY <1>2, <1>5, <2>3, <2>4, <2>5, <2>6 DEF p
<1> QED  BY <1>4, <1>5 DEF Skip

LEMMA SkipExact ==
  ASSUME CursorInv, ExactInv, Skip
  PROVE  ExactInv'
<1> DEFINE n == Len(tokens)
           lo == EndOf(tokens, n)
<1>1. /\ lexing = "skip" /\ UNCHANGED <<string, tokens, lexing, token>>
      /\ tokens \in Seq(TokenType) /\ n \in 0 .. n /\ token \in Current
  BY LenProperties DEF Skip, CursorInv, Typed1
<1>2. lo \in Nat
  BY <1>1, EndIs
<1>3. Passing'
  <2> SUFFICES ASSUME token.type = "NONE"
               PROVE  /\ LeadTo(string, tokens, n, at'.pos)
                      /\ comment' => CommentTo(string, lo, at'.pos)
    BY <1>1 DEF Passing
  <2>1. LeadTo(string, tokens, n, at.pos) /\ (comment => CommentTo(string, lo, at.pos))
    BY <1>1 DEF ExactInv, Passing
  <2>2. lo <= at.pos /\ Blanked(string, lo, at.pos)
    BY <2>1 DEF LeadTo, Lead
  <2>3. /\ lo <= at'.pos /\ at'.pos <= Len(string) /\ Blanked(string, lo, at'.pos)
        /\ NoEnd(string, lo, at.pos) => NoEnd(string, lo, at'.pos)
        /\ comment' => CommentTo(string, lo, at'.pos)
    BY <1>2, <2>1, <2>2, SkipBlanks
  <2> QED  BY <2>1, <2>3 DEF LeadTo, Lead
<1>4. Breaking'
  <2> SUFFICES ASSUME token.type = "NEWLINE"
               PROVE  /\ LeadTo(string, tokens, n, token.pos)
                      /\ token.pos < Len(string) /\ string[token.pos + 1] = "\n"
                      /\ token.pos <= at'.pos /\ Blanked(string, token.pos, at'.pos)
                      /\ comment' => CommentTo(string, token.pos, at'.pos)
    BY <1>1 DEF Breaking
  <2>1. token.pos \in Nat
    BY <1>1 DEF Current
  <2>2. /\ LeadTo(string, tokens, n, token.pos)
        /\ token.pos < Len(string) /\ string[token.pos + 1] = "\n"
        /\ token.pos <= at.pos /\ Blanked(string, token.pos, at.pos)
        /\ comment => CommentTo(string, token.pos, at.pos)
    BY <1>1 DEF ExactInv, Breaking
  <2> QED  BY <2>1, <2>2, SkipBlanks
<1>5. Ready' /\ Reading'
  BY <1>1 DEF Ready, Reading
<1> QED  BY <1>1, <1>3, <1>4, <1>5, SameTokensExact

LEMMA StartTokenExact ==
  ASSUME CursorInv, ExactInv, StartToken
  PROVE  ExactInv'
<1>1. /\ lexing = "skip" /\ token.type = "NONE" /\ lexing' = "scan"
      /\ UNCHANGED <<string, at, tokens>>
  BY DEF StartToken, Skipped
<1>2. token'.type = "NONE" /\ token'.pos = at.pos
  BY DEF StartToken, NoToken
<1>3. Reading'
  BY <1>1, <1>2 DEF ExactInv, Passing, Reading
<1>4. Ready' /\ Passing' /\ Breaking'
  BY <1>1 DEF Ready, Passing, Breaking
<1> QED  BY <1>1, <1>3, <1>4, SameTokensExact

LEMMA ScanExact ==
  ASSUME CursorInv, ExactInv, Scan
  PROVE  ExactInv'
<1> DEFINE c == CharAt(i)
           prev == CharAt(i - 1)
           turn == Turn(prev, c)
           p == token.pos
           n == Len(tokens)
<1>1. /\ Text /\ Len(string) \in Nat /\ at \in Position /\ at.pos <= Len(string) /\ at.pos \in Nat
      /\ lexing = "scan" /\ token.type # "STRING" /\ token \in Current /\ i \in Nat /\ at.pos <= i
      /\ p = at.pos /\ Tagged(token) /\ string \in Seq(Character) /\ p \in Nat
  BY LenProperties DEF Scan, CursorInv, Typed1, Text, Busy, Position, Scanning
<1>2. \/ token.type = "NONE" /\ i <= Len(string) + 1
      \/ token.type \in ScanTypes /\ token.type # "NONE" /\ p < i /\ i <= Len(string)
  BY <1>1 DEF CursorInv, Scanning, ScanTypes, OperatorTypes
<1>3. /\ LeadTo(string, tokens, n, p)
      /\ token.type # "NONE" => Shape(string, p, i, token.type)
  BY <1>1 DEF ExactInv, Reading
<1>4. \/ turn = {} /\ Finish(token, at, i)
      \/ \E tk \in turn : IF tk.type = "EOF" THEN Finish(tk, at, i) ELSE Iterates(tk, at, i)
  BY DEF Scan
<1>5. i < Len(string) => c = string[i + 1]
  BY <1>1, CharIs
<1>6. p < i /\ i <= Len(string) => prev = string[i]
  <2> SUFFICES ASSUME p < i, i <= Len(string) PROVE prev = string[i]
    OBVIOUS
  <2>1. i - 1 \in Nat /\ i - 1 < Len(string) /\ (i - 1) + 1 = i
    BY <1>1
  <2> QED  BY <1>1, <2>1, CharIs
<1>7. CASE turn = {} /\ Finish(token, at, i)
  <2>1. FinishedBy(token, i)
    <3>1. CASE token.type = "NONE"
      BY <3>1 DEF FinishedBy
    <3>2. CASE token.type # "NONE"
      <4>1. token.type \in ScanTypes /\ p < i /\ i <= Len(string) /\ Shape(string, p, i, token.type)
        BY <1>2, <1>3, <3>2
      <4>2. Turn(string[i], c) = {}
        BY <1>6, <1>7, <4>1
      <4> HIDE DEF c
      <4>3. Ended(string, p, i, token.type, c)
        BY <1>1, <4>1, <4>2, TurnEnds
      <4>4. Whole(string, p, i, IF token.type = "SYMBOL" THEN WordType(SubSeq(string, p + 1, i))
                                ELSE token.type)
        BY <1>1, <1>5, <4>1, <4>3, LexemeEnds
      <4> QED  BY <1>1, <4>1, <4>4 DEF FinishedBy
    <3> QED  BY <3>1, <3>2
  <2> QED  BY <1>1, <1>3, <1>7, <2>1, FinishExact
<1>8. ASSUME NEW tk \in turn, IF tk.type = "EOF" THEN Finish(tk, at, i) ELSE Iterates(tk, at, i)
      PROVE  ExactInv'
  <2>1. Goes1(tk, c)
    BY <1>1, TurnIs
  <2>2. tk \in Current /\ Tagged(tk) /\ tk.pos = p
    BY <2>1 DEF Goes1
  <2>3. /\ FirstType(c) = "EOF" <=> c = "NUL"
        /\ FirstType(c) = "NEWLINE" <=> c = "\n"
        /\ FirstType(c) \in ScanTypes \cup {"NONE", "EOF", "NEWLINE"}
    BY FirstIs
  <2>4. "EOF" \notin ScanTypes /\ "NEWLINE" \notin ScanTypes /\ "NONE" \notin ScanTypes
    BY DEF ScanTypes, OperatorTypes
  <2>5. c = "NUL" <=> i >= Len(string)
    BY <1>1, CharIs
  <2>6. CASE tk.type = "EOF"
    <3> HIDE DEF turn, c
    <3>1. i = at.pos /\ c = "NUL"
      BY <2>1, <2>3, <2>4, <2>6 DEF Goes1
    <3>2. i = Len(string)
      BY <1>1, <2>5, <3>1
    <3>3. FinishedBy(tk, i)
      BY <1>1, <2>2, <2>6, <3>1, <3>2 DEF FinishedBy
    <3>4. Finish(tk, at, i)
      BY <1>8, <2>6
    <3>5. LeadTo(string, tokens, Len(tokens), tk.pos)
      BY <1>3, <2>2
    <3> QED  BY <1>1, <2>2, <3>3, <3>4, <3>5, FinishExact
  <2>7. CASE tk.type # "EOF"
    <3>1. /\ token' = tk /\ i' = i + 1 /\ at' = [at EXCEPT !.charpos = @ + 1]
          /\ lexing' = (IF tk.type = "NEWLINE" THEN "skip" ELSE "scan") /\ comment' = FALSE
          /\ UNCHANGED <<string, tokens>>
      BY <1>8, <2>7 DEF Iterates
    <3>2. at'.pos = at.pos
      BY <1>1, <3>1 DEF Position
    <3>3. tk.type \notin {"NONE", "NEWLINE"} => Shape(string, p, i + 1, tk.type)
      <4> SUFFICES ASSUME tk.type \notin {"NONE", "NEWLINE"} PROVE Shape(string, p, i + 1, tk.type)
        OBVIOUS
      <4>1. CASE token.type = "NONE"
        <5>1. i = p /\ tk.type = FirstType(c)
          BY <1>1, <2>1, <4>1 DEF Goes1
        <5>2. c # "NUL" /\ FirstType(c) \in ScanTypes
          BY <2>3, <2>7, <5>1
        <5>3. c = string[p + 1]
          <6>1. i < Len(string)
            <7> HIDE DEF c
            <7> QED  BY <1>1, <2>5, <5>2
          <6> QED  BY <1>5, <5>1, <6>1
        <5> HIDE DEF c
        <5>4. Shape(string, p, p + 1, FirstType(string[p + 1]))
          BY <1>1, <5>2, <5>3, FirstShape
        <5> QED  BY <5>1, <5>3, <5>4
      <4>2. CASE token.type # "NONE"
        <5>1. token.type \in ScanTypes /\ p < i /\ i <= Len(string) /\ Shape(string, p, i, token.type)
          BY <1>2, <1>3, <4>2
        <5>2. c # "NUL"
          BY <2>1, <4>2 DEF Goes1
        <5>3. i < Len(string)
          <6> HIDE DEF c
          <6> QED  BY <1>1, <2>5, <5>2
        <5>4. tk \in Turn(string[i], string[i + 1])
          BY <1>5, <1>6, <5>1, <5>3
        <5> QED  BY <1>1, <5>1, <5>4, TurnShape
      <4> QED  BY <4>1, <4>2
    <3>4. Reading'
      BY <1>3, <2>2, <3>1, <3>3 DEF Reading
    <3>5. Breaking'
      <4> SUFFICES ASSUME tk.type = "NEWLINE"
                   PROVE  /\ LeadTo(string, tokens, n, p)
                          /\ p < Len(string) /\ string[p + 1] = "\n"
                          /\ p <= at'.pos /\ Blanked(string, p, at'.pos)
        BY <2>2, <3>1 DEF Breaking
      <4>1. i = p /\ c = "\n"
        <5> HIDE DEF turn, c
        <5> QED  BY <1>1, <2>1, <2>3, <2>4 DEF Goes1
      <4>2. p < Len(string) /\ string[p + 1] = "\n"
        BY <1>1, <4>1, NewlineAt
      <4>3. p <= at'.pos /\ at'.pos = p
        BY <1>1, <3>2
      <4> QED  BY <1>1, <1>3, <4>2, <4>3, NothingBetween
    <3>6. Ready' /\ Passing'
      BY <3>1 DEF Ready, Passing
    <3> QED  BY <3>1, <3>4, <3>5, <3>6, SameTokensExact
  <2> QED  BY <2>6, <2>7
<1> QED  BY <1>4, <1>7, <1>8

LEMMA ScanStringExact ==
  ASSUME CursorInv, ExactInv, ScanString
  PROVE  ExactInv'
<1> DEFINE c == CharAt(i)
           p == token.pos
<1>1. /\ Text /\ Len(string) \in Nat /\ at \in Position /\ at.pos \in Nat
      /\ lexing = "scan" /\ token.type = "STRING" /\ token \in Current /\ i \in Nat
      /\ p = at.pos /\ Tagged(token) /\ string \in Seq(Character) /\ p \in Nat
  BY LenProperties DEF ScanString, CursorInv, Typed1, Text, Position, Scanning
<1>2. p < i /\ i <= Len(string)
  BY <1>1 DEF CursorInv, Scanning
<1>3. c = "NUL" <=> i >= Len(string)
  BY <1>1, CharIs
<1>4. LeadTo(string, tokens, Len(tokens), p) /\ Shape(string, p, i, "STRING")
  BY <1>1 DEF ExactInv, Reading
<1>5. CharAt(i - 1) = string[i]
  <2>1. i - 1 \in Nat /\ i - 1 < Len(string) /\ (i - 1) + 1 = i
    BY <1>1, <1>2
  <2> QED  BY <1>1, <2>1, CharIs
<1>6. CASE c = "\"" /\ CharAt(i - 1) # "\\"
  <2>1. c # "NUL"
    BY <1>6
  <2>2. i < Len(string)
    BY <1>1, <1>3, <2>1
  <2>3. i + 1 <= Len(string) /\ i + 1 \in Nat /\ at.pos < i + 1
    BY <1>1, <1>2, <2>2
  <2>4. c = string[i + 1]
    BY <1>1, <2>2, CharIs
  <2>5. Closes(string, i)
    BY <1>5, <1>6, <2>4, Zenon DEF Closes
  <2>6. Whole(string, p, i + 1, "STRING")
    BY <1>1, <1>2, <1>4, <2>2, <2>5, StringEnds
  <2>7. Finish(token, at, i + 1)
    BY <1>6 DEF ScanString
  <2>8. FinishedBy(token, i + 1)
    BY <1>1, <2>3, <2>6 DEF FinishedBy, ScanTypes
  <2> QED  BY <1>1, <1>4, <2>3, <2>7, <2>8, FinishExact
<1>7. CASE ~(c = "\"" /\ CharAt(i - 1) # "\\") /\ c = "NUL"
  <2> DEFINE tk == [token EXCEPT !.type = "NONE", !.tag = "NONE"]
  <2>1. Finish(tk, at, i)
    BY <1>7 DEF ScanString
  <2>2. tk \in Current /\ tk.type = "NONE" /\ tk.tag = "NONE" /\ tk.pos = p
    BY <1>1 DEF Current, Types, Tags
  <2>3. Tagged(tk)
    BY <2>2 DEF Tagged, OperandTypes
  <2>4. FinishedBy(tk, i)
    BY <2>2 DEF FinishedBy
  <2> HIDE DEF tk
  <2> QED  BY <1>1, <1>4, <2>1, <2>2, <2>3, <2>4, FinishExact
<1>8. CASE ~(c = "\"" /\ CharAt(i - 1) # "\\") /\ c # "NUL"
  <2>1. Iterates(token, at, i)
    BY <1>8, Zenon DEF ScanString
  <2>2. /\ token' = token /\ i' = i + 1 /\ lexing' = "scan"
        /\ UNCHANGED <<string, tokens>>
    BY <1>1, <2>1 DEF Iterates
  <2>3. c # "NUL" /\ ~(c = "\"" /\ CharAt(i - 1) # "\\")
    BY <1>8
  <2>4. i < Len(string)
    <3>1. c # "NUL"
      BY <2>3
    <3> HIDE DEF c
    <3> HIDE <1>8, <2>3
    <3> QED  BY <1>1, <1>3, <3>1
  <2>5. c = string[i + 1]
    BY <1>1, <2>4, CharIs
  <2>6. string[i + 1] = "\"" => string[i] = "\\"
    BY <1>5, <2>3, <2>5, Zenon
  <2>7. Shape(string, p, i + 1, "STRING")
    <3>1. p < i + 1
      BY <1>1, <1>2
    <3>2. \A k \in p + 2 .. i + 1 : k \in p + 2 .. i \/ (k = i + 1 /\ k - 1 = i)
      BY <1>1
    <3>3. string[p + 1] = "\"" /\ \A k \in p + 2 .. i : string[k] = "\"" => string[k - 1] = "\\"
      BY <1>4 DEF Shape, OperatorTypes
    <3>4. \A k \in p + 2 .. i + 1 : string[k] = "\"" => string[k - 1] = "\\"
      BY <2>6, <3>2, <3>3, Zenon
    <3> QED  BY <3>1, <3>3, <3>4, Zenon DEF Shape
  <2>8. Reading'
    BY <1>1, <1>4, <2>2, <2>7 DEF Reading
  <2>9. Ready' /\ Passing' /\ Breaking'
    BY <2>2 DEF Ready, Passing, Breaking
  <2> QED  BY <2>2, <2>8, <2>9, SameTokensExact
<1> QED  BY <1>6, <1>7, <1>8

LEMMA ScanNewlineExact ==
  ASSUME CursorInv, ExactInv, ScanNewline
  PROVE  ExactInv'
<1> DEFINE p == token.pos
<1>1. /\ Text /\ Len(string) \in Nat /\ at \in Position /\ at.pos <= Len(string) /\ at.pos \in Nat
      /\ lexing = "skip" /\ token.type = "NEWLINE" /\ token \in Current /\ p \in Nat
  BY LenProperties DEF ScanNewline, Skipped, CursorInv, Typed1, Text, Busy, Position, Current
<1>2. token.tag = "NONE"
  BY <1>1 DEF CursorInv, Skipping, NoToken
<1>3. Tagged(token)
  BY <1>1, <1>2 DEF Tagged, OperandTypes
<1>4. /\ LeadTo(string, tokens, Len(tokens), p)
      /\ p < Len(string) /\ string[p + 1] = "\n"
      /\ p <= at.pos /\ Blanked(string, p, at.pos)
  BY <1>1 DEF ExactInv, Breaking
<1>5. CASE CharAt(at.pos) # "\n"
  <2>1. Finish(token, at, at.pos)
    BY <1>5 DEF ScanNewline
  <2>2. FinishedBy(token, at.pos)
    BY <1>1, <1>4 DEF FinishedBy
  <2> QED  BY <1>1, <1>3, <1>4, <2>1, <2>2, FinishExact
<1>6. CASE CharAt(at.pos) = "\n"
  <2>1. /\ token' = token /\ at' = [LineStart(at) EXCEPT !.charpos = @ + 1] /\ lexing' = "skip"
        /\ comment' = FALSE /\ UNCHANGED <<string, tokens>>
    BY <1>1, <1>6 DEF ScanNewline, Iterates
  <2>2. at'.pos = at.pos + 1
    BY <2>1 DEF LineStart
  <2>3. string[at.pos + 1] = "\n"
    BY <1>1, <1>6, NewlineAt
  <2>4. Blanked(string, p, at.pos + 1)
    BY <1>1, <1>4, <2>3, BlankBehind
  <2>5. p <= at.pos + 1
    BY <1>1, <1>4
  <2>6. Breaking'
    BY <1>4, <2>1, <2>2, <2>4, <2>5 DEF Breaking
  <2>7. Ready' /\ Passing' /\ Reading'
    BY <1>1, <2>1 DEF Ready, Passing, Reading
  <2> QED  BY <2>1, <2>6, <2>7, SameTokensExact
<1> QED  BY <1>5, <1>6

LEMMA BeginTokenExact ==
  ASSUME CursorInv, ExactInv, BeginToken
  PROVE  ExactInv'
<1>1. /\ lexing = "idle" /\ token_pos = Len(tokens) /\ comment' = FALSE
      /\ token_pos > 0 => tokens[token_pos].type \notin {"NONE", "EOF"}
      /\ lexing' = "skip" /\ UNCHANGED <<string, at, tokens, token_pos, token, i, put_backs>>
  BY DEF BeginToken, Asked
<1>2. Len(tokens) \in Nat /\ tokens \in Seq(TokenType)
  BY LenProperties DEF CursorInv, Typed1
<1>3. Given
  <2> SUFFICES ASSUME tokens # <<>> PROVE tokens[Len(tokens)].type # "NONE"
    BY DEF Given
  <2>1. Len(tokens) > 0
    BY <1>2, EmptySeq
  <2> QED  BY <1>1, <2>1
<1>4. token.type = "NONE"
  BY <1>1 DEF CursorInv, Off, NoToken
<1>5. Passing'
  BY <1>1, <1>3 DEF ExactInv, Ready, Passing
<1>6. Ready' /\ Breaking' /\ Reading'
  BY <1>1, <1>4 DEF Ready, Breaking, Reading
<1> QED  BY <1>1, <1>5, <1>6, SameTokensExact

LEMMA CursorMovesExact ==
  ASSUME CursorInv, ExactInv, NextKept \/ PutBack
  PROVE  ExactInv'
<1>1. lexing = "idle" /\ UNCHANGED <<string, at, tokens, lexing, token, i>>
  BY DEF NextKept, PutBack, Asked
<1>2. Ready' /\ Passing' /\ Breaking' /\ Reading'
  BY <1>1 DEF ExactInv, Ready, Passing, Breaking, Reading, Given
<1> QED  BY <1>1, <1>2, SameTokensExact

LEMMA LexerStepExact ==
  ASSUME CursorInv, ExactInv, LexNext \/ PutBack
  PROVE  ExactInv'
BY SkipExact, StartTokenExact, ScanExact, ScanStringExact, ScanNewlineExact, BeginTokenExact,
   CursorMovesExact DEF LexNext, Working

LEMMA BeginLexingExact ==
  ASSUME NEW s, Len(s) \in Nat, BeginLexing(s)
  PROVE  ExactInv'
<1>1. string' = s /\ at' = [pos |-> 0, lino |-> 1, charpos |-> 0] /\ tokens' = <<>> /\ lexing' = "idle"
  BY DEF BeginLexing
<1>2. Len(tokens') = 0
  BY <1>1, EmptySeq
<1>3. ExactTo(string, tokens)'
  BY <1>2 DEF ExactTo
<1>4. at'.pos = 0 /\ 0 \in Nat /\ 0 <= Len(s)
  BY <1>1
<1>5. Blanked(s, 0, 0) /\ NoEnd(s, 0, 0)
  BY <1>4, NothingBetween
<1>6. Lead(s, 0, FALSE, 0)
  BY <1>4, <1>5 DEF Lead
<1>7. EndOf(tokens', 0) = 0 /\ OnLine(tokens', 0) = FALSE
  BY DEF EndOf, OnLine
<1>8. Ready'
  BY <1>1, <1>2, <1>4, <1>6, <1>7 DEF Ready, LeadTo
<1> QED  BY <1>1, <1>3, <1>8 DEF ExactInv, Passing, Breaking, Reading

LEMMA LexerOffExact ==
  ASSUME ExactInv, lexing' = "off", UNCHANGED <<string, tokens>>
  PROVE  ExactInv'
<1>1. Ready' /\ Passing' /\ Breaking' /\ Reading'
  BY DEF Ready, Passing, Breaking, Reading
<1> QED  BY <1>1, SameTokensExact

LEMMA LexerStartsExact ==
  ASSUME LexerOff
  PROVE  ExactInv
<1>1. tokens = <<>> /\ lexing = "off" /\ Len(tokens) = 0
  BY EmptySeq DEF LexerOff
<1> QED  BY <1>1 DEF ExactInv, ExactTo, Ready, Passing, Breaking, Reading

LEMMA LexerStillExact ==
  ASSUME ExactInv, UNCHANGED lexVars
  PROVE  ExactInv'
BY DEF lexVars, ExactInv, Ready, Passing, Breaking, Reading, Given

\* What the invariant says of the tokens is the property.
LEMMA TokensAreExact ==
  ASSUME CursorInv, ExactInv
  PROVE  LexemesExact
<1>1. /\ tokens \in Seq(TokenType) /\ DOMAIN tokens = 1 .. Len(tokens) /\ Len(tokens) \in Nat
      /\ Text /\ string \in Seq(Character)
  BY LenProperties DEF CursorInv, Typed1, Text
<1> DEFINE Exactly(t, gap, k) ==
              /\ t.value = SubSeq(string, t.pos + 1, t.pos + Len(t.value))
              /\ Skippable(gap)
              /\ EndsStatement(gap) => tokens[k - 1].type = "NEWLINE"
              /\ CASE t.type = "EOF" -> t.pos = Len(string)
                   [] t.type = "NEWLINE" -> t.value = <<>> /\ CharAt(t.pos) = "\n"
                   [] OTHER -> /\ Lexemes(t.value) = {t.type}
                               /\ \A n \in t.pos + Len(t.value) + 1 .. Len(string) :
                                     Lexemes(SubSeq(string, t.pos + 1, n)) = {}
<1>2. ASSUME NEW k \in Good PROVE Exactly(tokens[k], Gap(k), k)
  <2> DEFINE t == tokens[k]
             lo == EndOf(tokens, k - 1)
  <2>1. k \in 1 .. Len(tokens) /\ t.type # "NONE" /\ k - 1 \in 0 .. Len(tokens)
    BY <1>1 DEF Good
  <2>2. t \in TokenType
    BY <1>1, <2>1, ElementOfSeq
  <2>3. t.pos \in Nat /\ Len(t.value) \in Nat
    BY <2>2, LenProperties DEF TokenType
  <2>4. LeadTo(string, tokens, k - 1, t.pos) /\ Reads(string, t)
    BY <2>1 DEF ExactInv, ExactTo
  <2>5. lo \in Nat /\ OnLine(tokens, k - 1) \in BOOLEAN
    BY <1>1, <2>1, EndIs
  <2>6. Gap(k) = SubSeq(string, lo + 1, t.pos)
    <3>1. k = 1 \/ (k # 1 /\ k - 1 # 0)
      BY <2>1
    <3>2. CASE k = 1
      <4>1. k - 1 = 0 /\ 0 + 1 = 1
        BY <3>2
      <4> QED  BY <3>2, <4>1 DEF Gap, EndOf
    <3>3. CASE k # 1 /\ k - 1 # 0
      BY <3>3 DEF Gap, EndOf
    <3> QED  BY <3>1, <3>2, <3>3
  <2> HIDE DEF lo
  <2>7. Skippable(Gap(k)) /\ (EndsStatement(Gap(k)) => OnLine(tokens, k - 1))
    <3>1. Lead(string, lo, OnLine(tokens, k - 1), t.pos)
      BY <2>4 DEF LeadTo, lo
    <3> QED  BY <1>1, <2>3, <2>5, <2>6, <3>1, LeadMeans
  <2>8. OnLine(tokens, k - 1) => tokens[k - 1].type = "NEWLINE"
    BY DEF OnLine
  <2>9. t.type = "NEWLINE" => t.value = <<>> /\ CharAt(t.pos) = "\n"
    BY <1>1, <2>3, <2>4, NewlineAt DEF Reads
  <2>10. t.value = SubSeq(string, t.pos + 1, t.pos + Len(t.value))
    BY <2>4 DEF Reads
  <2>11. t.type \notin {"EOF", "NEWLINE"} =>
            /\ Lexemes(t.value) = {t.type}
            /\ \A n \in t.pos + Len(t.value) + 1 .. Len(string) :
                   Lexemes(SubSeq(string, t.pos + 1, n)) = {}
    BY <2>4, <2>10 DEF Reads, Whole
  <2>12. t.type = "EOF" => t.pos = Len(string)
    BY <2>4 DEF Reads
  <2> HIDE DEF t
  <2>13. CASE t.type = "EOF"
    <3>1. t.type # "NEWLINE"
      BY <2>13
    <3> QED  BY <2>7, <2>8, <2>10, <2>12, <2>13, <3>1, Zenon DEF t
  <2>14. CASE t.type = "NEWLINE"
    <3>1. t.type # "EOF"
      BY <2>14
    <3> QED  BY <2>7, <2>8, <2>9, <2>10, <2>14, <3>1, Zenon DEF t
  <2>15. CASE t.type # "EOF" /\ t.type # "NEWLINE"
    <3>1. t.type \notin {"EOF", "NEWLINE"}
      BY <2>15
    <3> QED  BY <2>7, <2>8, <2>10, <2>11, <2>15, <3>1, Zenon DEF t
  <2> QED  BY <2>13, <2>14, <2>15
<1> QED  BY <1>2, Zenon DEF LexemesExact
=============================================================================
