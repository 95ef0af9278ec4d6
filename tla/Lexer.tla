-------------------------------- MODULE Lexer -------------------------------
(***************************************************************************)
(* parse/lexer.c: one token a call, character by character, out of a       *)
(* string it has a copy of; tokens are kept, and the parser puts the       *)
(* cursor among them back when an alternative fails.                       *)
(***************************************************************************)
EXTENDS Integers, Sequences, SequencesExt, FiniteSets

CONSTANTS Reserved,    \* the type and tag of each word that is no name
          MaxPutBacks  \* bound: how often the parser goes back

ASSUME BackAssumption == MaxPutBacks \in Nat
\* lexer.c:365-408: "in" compares, the truth values are operands.
ASSUME ReservedAssumption ==
    \A w \in DOMAIN Reserved :
        /\ Reserved[w].type \in {"KEYWORD", "BOOL", "COMPARE", "AND", "OR", "XOR"}
        /\ Reserved[w].tag \in {"OPERAND", "OPERATOR", "INFIX_OPERATOR"}
        /\ Reserved[w].tag = "OPERAND" <=> Reserved[w].type = "BOOL"

VARIABLES string,    \* the text, without its terminator
          at,        \* lex->pos, lino and charpos
          tokens, token_pos,
          lexing,    \* "off", "idle", or within lex_next "scan", or "skip" in
                     \* lex_skip_whitespace
          comment,   \* the local of lex_skip_whitespace
          token, i,  \* the locals of lex_next
          put_backs

lexVars == <<string, at, tokens, token_pos, lexing, comment, token, i, put_backs>>

NoToken == [type |-> "NONE", tag |-> "NONE", pos |-> 0, lino |-> 1, charpos |-> 0]

LexerOff == /\ string = <<>> /\ at = [pos |-> 0, lino |-> 1, charpos |-> 0]
            /\ tokens = <<>> /\ token_pos = 0 /\ lexing = "off"
            /\ comment = FALSE /\ token = NoToken /\ i = 0 /\ put_backs = 0

\* init_lexer; as it would be with the cursor of the last text:
BeginLexingAgain(s) ==
    /\ string' = s /\ at' = [pos |-> 0, lino |-> 1, charpos |-> 0]
    /\ tokens' = <<>> /\ lexing' = "idle"
    /\ UNCHANGED <<token_pos, comment, token, i, put_backs>>
BeginLexing(s) ==
    /\ string' = s /\ at' = [pos |-> 0, lino |-> 1, charpos |-> 0]
    /\ tokens' = <<>> /\ token_pos' = 0 /\ lexing' = "idle"
    /\ UNCHANGED <<comment, token, i, put_backs>>

CharAt(k) == IF k \in 0 .. Len(string) - 1 THEN string[k + 1] ELSE "NUL"
-----------------------------------------------------------------------------
Digits == {"0", "1", "2", "3", "4", "5", "6", "7", "8", "9"}
Letters == {"a", "b", "c", "d", "e", "f", "g", "h", "i", "j", "k", "l", "m",
            "n", "o", "p", "q", "r", "s", "t", "u", "v", "w", "x", "y", "z",
            "A", "B", "C", "D", "E", "F", "G", "H", "I", "J", "K", "L", "M",
            "N", "O", "P", "Q", "R", "S", "T", "U", "V", "W", "X", "Y", "Z"}
Blanks == {" ", "\t", "\r", "#"}

FirstType(c) == CASE c = "NUL" -> "EOF"
                  [] c \in Digits -> "INT"
                  [] c \in {"(", "[", "{"} -> "LGROUP"
                  [] c \in {")", "]", "}"} -> "RGROUP"
                  [] c = ":" -> "COLON"
                  [] c = "\n" -> "NEWLINE"
                  [] c = "," -> "COMMA"
                  [] c \in Letters \cup {"_", "@", "$"} -> "SYMBOL"
                  [] c = "=" -> "ASSIGN"
                  [] c \in {"<", ">", "!"} -> "COMPARE"
                  [] c = "." -> "DOT"
                  [] c \in {"*", "/", "%"} -> "MULDIV"
                  [] c \in {"+", "-"} -> "ADDSUB"
                  [] c = "\"" -> "STRING"
                  [] c = "&" -> "AMP"
                  [] c = "|" -> "BAR"
                  [] c = "^" -> "CARET"
                  [] OTHER -> "NONE"

FirstTag(type) == CASE type \in {"INT", "SYMBOL", "STRING"} -> "OPERAND"
                    [] type \in {"LGROUP", "RGROUP", "COLON", "COMMA", "ASSIGN"} -> "OPERATOR"
                    [] type \in {"NONE", "EOF", "NEWLINE"} -> "NONE"
                    [] OTHER -> "INFIX_OPERATOR"

\* A turn of the loop of lex_next: the token with its new type and tag, or none
\* when it ends before the character.
Becomes(type, tag) == {[token EXCEPT !.type = type, !.tag = tag]}
Stays == {token}
Stops == {}

\* As Float would be if the tag were kept.
FloatKeepsTag(prev, c) == IF c \in Digits THEN Stays
                          ELSE IF prev = "." THEN Becomes("NONE", token.tag) ELSE Stops
Float(prev, c) == IF c \in Digits THEN Stays
                  ELSE IF prev = "." THEN Becomes("NONE", "NONE") ELSE Stops

\* As Compare would be if any operator could go on with a `='.
CompareLoose(prev, c) ==
    CASE c \in {"<", ">"} /\ prev = c -> Becomes("BITSHIFT", token.tag)
      [] prev = "!" /\ c # "=" -> Becomes("NONE", token.tag)
      [] c = "=" -> Stays
      [] OTHER -> Stops
Compare(prev, c) ==
    CASE c \in {"<", ">"} /\ prev = c -> Becomes("BITSHIFT", token.tag)
      [] prev = "!" /\ c # "=" -> Becomes("NONE", token.tag)
      [] prev \in {"<", ">", "!"} /\ c = "=" -> Stays
      [] OTHER -> Stops

Turn(prev, c) ==
    CASE token.type = "NONE" -> IF i # at.pos THEN Stops ELSE Becomes(FirstType(c), FirstTag(FirstType(c)))
      [] token.type = "INT" -> IF c = "." THEN Becomes("FLOAT", token.tag)
                               ELSE IF c \in Digits THEN Stays ELSE Stops
      [] token.type = "FLOAT" -> Float(prev, c)
      [] token.type = "SYMBOL" -> IF c \in Letters \cup Digits \cup {"_", "'"} THEN Stays ELSE Stops
      [] token.type = "ASSIGN" -> CASE c = "=" -> Becomes("COMPARE", "INFIX_OPERATOR")
                                    [] c = ">" -> Becomes("THICC_ARROW", token.tag)
                                    [] OTHER -> Stops
      [] token.type = "COMPARE" -> Compare(prev, c)
      [] token.type = "DOT" -> IF c = "." THEN Becomes("RANGE", "OPERATOR") ELSE Stops
      [] token.type = "ADDSUB" -> IF prev = "-" /\ c = ">" THEN Becomes("RIGHT_ARROW", "OPERATOR") ELSE Stops
      [] OTHER -> Stops
-----------------------------------------------------------------------------
\* The end of lex_next: a copy of the characters, the type of a reserved word, and
\* the token behind the others.
Word(tk, value) == IF tk.type = "SYMBOL" /\ value \in DOMAIN Reserved
                   THEN [type |-> Reserved[value].type, tag |-> Reserved[value].tag]
                   ELSE [type |-> tk.type, tag |-> tk.tag]

\* As CursorAfter would be without the last line of lex_next.
CursorKept == token_pos
CursorAfter == token_pos + 1

Finish(tk, from, end) ==
    LET value == SubSeq(string, from.pos + 1, IF end < Len(string) THEN end ELSE Len(string))
        word == Word(tk, value)
    IN  /\ tokens' = Append(tokens, [type |-> word.type, tag |-> word.tag, value |-> value,
                                     pos |-> tk.pos, lino |-> tk.lino, charpos |-> tk.charpos])
        /\ token_pos' = CursorAfter
        /\ at' = [from EXCEPT !.pos = end]
        /\ lexing' = "idle" /\ token' = NoToken /\ i' = 0
        /\ UNCHANGED <<string, comment, put_backs>>

\* As Asked would be if a token that is none were one failure among others.
AskedOn == lexing = "idle" /\ (token_pos > 0 => tokens[token_pos].type # "EOF")
\* The parser asks for no token behind the end, or behind one that is no token:
\* both of its failures are final.
Asked == lexing = "idle" /\ (token_pos > 0 => tokens[token_pos].type \notin {"NONE", "EOF"})

NextKept == /\ Asked /\ token_pos < Len(tokens)
            /\ token_pos' = token_pos + 1
            /\ UNCHANGED <<string, at, tokens, lexing, comment, token, i, put_backs>>

\* lex_next begins, by calling lex_skip_whitespace.
BeginToken == /\ Asked /\ token_pos = Len(tokens)
              /\ lexing' = "skip" /\ comment' = FALSE
              /\ UNCHANGED <<string, at, tokens, token_pos, token, i, put_backs>>

\* A turn of the loop of lex_skip_whitespace, which a continuation is two characters of.
ContinuesLine == CharAt(at.pos) = "\\" /\ CharAt(at.pos + 1) = "\n"
Skips == LET c == CharAt(at.pos)
         IN  c # "NUL" /\ (c \in Blanks \/ (comment /\ c # "\n"))
NextLineFrom(p) == [pos |-> p.pos + 2, lino |-> p.lino + 1, charpos |-> 0]
Forward(p) == [p EXCEPT !.pos = @ + 1, !.charpos = @ + 1]

Skip == /\ lexing = "skip"
        /\ \/ ContinuesLine /\ at' = NextLineFrom(at) /\ comment' = FALSE
           \/ /\ ~ContinuesLine /\ Skips
              /\ at' = Forward(at) /\ comment' = (comment \/ CharAt(at.pos) = "#")
        /\ UNCHANGED <<string, tokens, token_pos, lexing, token, i, put_backs>>

Skipped == lexing = "skip" /\ ~ContinuesLine /\ ~Skips

\* The token starts where the blanks before it end.
StartToken == /\ Skipped /\ token.type = "NONE"
              /\ token' = [NoToken EXCEPT !.pos = at.pos, !.lino = at.lino, !.charpos = at.charpos]
              /\ i' = at.pos /\ lexing' = "scan"
              /\ UNCHANGED <<string, at, tokens, token_pos, comment, put_backs>>

\* The loop of lex_next goes on; for a newline, by skipping what is behind it.
Iterates(tk, from, k) == /\ token' = tk /\ i' = k + 1
                         /\ at' = [from EXCEPT !.charpos = @ + 1]
                         /\ lexing' = IF tk.type = "NEWLINE" THEN "skip" ELSE "scan"
                         /\ comment' = FALSE
                         /\ UNCHANGED <<string, tokens, token_pos, put_backs>>

Scan ==
    /\ lexing = "scan" /\ token.type # "STRING"
    /\ LET turn == Turn(CharAt(i - 1), CharAt(i))
       IN  \/ turn = {} /\ Finish(token, at, i)
           \/ \E tk \in turn : IF tk.type = "EOF" THEN Finish(tk, at, i) ELSE Iterates(tk, at, i)

\* Whatever it holds, newlines too; the quotation mark that ends it is not counted
\* in charpos.
ScanString ==
    /\ lexing = "scan" /\ token.type = "STRING"
    /\ CASE CharAt(i) = "\"" /\ CharAt(i - 1) # "\\" -> Finish(token, at, i + 1)
         [] CharAt(i) = "NUL" -> Finish([token EXCEPT !.type = "NONE", !.tag = "NONE"], at, i)
         [] OTHER -> Iterates(token, at, i)

\* Behind a newline; as it would be if charpos were set to the start of the line
\* at once, or nothing but charpos changed.
LineFromZero(p) == [pos |-> p.pos + 1, lino |-> p.lino + 1, charpos |-> 0]
LineStuck(p) == [p EXCEPT !.charpos = -1]
LineStart(p) == [pos |-> p.pos + 1, lino |-> p.lino + 1, charpos |-> -1]

\* All the newlines in a row, with the blanks and comments between them, and
\* nothing of them in the value.
ScanNewline == /\ Skipped /\ token.type = "NEWLINE"
               /\ IF CharAt(at.pos) # "\n" THEN Finish(token, at, at.pos)
                  ELSE Iterates(token, LineStart(at), at.pos)

\* The macros `consume' and `call' of the parser, behind a failed alternative.
PutBack == /\ lexing = "idle" /\ put_backs < MaxPutBacks
           /\ \E k \in 0 .. token_pos - 1 : token_pos' = k
           /\ put_backs' = put_backs + 1
           /\ UNCHANGED <<string, at, tokens, lexing, comment, token, i>>

Working == Skip \/ StartToken \/ Scan \/ ScanString \/ ScanNewline
LexNext == NextKept \/ BeginToken \/ Working
-----------------------------------------------------------------------------
(* What a token is, of the characters alone.                               *)

Number(s) == s # <<>> /\ \A k \in DOMAIN s : s[k] \in Digits
IsFloat(s) == \E k \in DOMAIN s : /\ s[k] = "." /\ Number(SubSeq(s, 1, k - 1))
                                  /\ Number(SubSeq(s, k + 1, Len(s)))
IsWord(s) == /\ s # <<>> /\ s[1] \in Letters \cup {"_", "@", "$"}
             /\ \A k \in 2 .. Len(s) : s[k] \in Letters \cup Digits \cup {"_", "'"}
IsString(s) == /\ Len(s) >= 2 /\ s[1] = "\"" /\ s[Len(s)] = "\"" /\ s[Len(s) - 1] # "\\"
               /\ \A k \in 2 .. Len(s) - 1 : s[k] = "\"" => s[k - 1] = "\\"

Operators == [COMPARE |-> {<<"=", "=">>, <<"!", "=">>, <<"<", "=">>, <<">", "=">>, <<"<">>, <<">">>},
              ASSIGN |-> {<<"=">>}, THICC_ARROW |-> {<<"=", ">">>}, RIGHT_ARROW |-> {<<"-", ">">>},
              BITSHIFT |-> {<<"<", "<">>, <<">", ">">>}, DOT |-> {<<".">>}, RANGE |-> {<<".", ".">>},
              MULDIV |-> {<<"*">>, <<"/">>, <<"%">>}, ADDSUB |-> {<<"+">>, <<"-">>},
              AMP |-> {<<"&">>}, BAR |-> {<<"|">>}, CARET |-> {<<"^">>},
              COLON |-> {<<":">>}, COMMA |-> {<<",">>},
              LGROUP |-> {<<"(">>, <<"[">>, <<"{">>}, RGROUP |-> {<<")">>, <<"]">>, <<"}">>}]

\* The types a text may have as a token: one, or none.
Lexemes(s) == {t \in DOMAIN Operators : s \in Operators[t]}
              \cup (IF Number(s) THEN {"INT"} ELSE {})
              \cup (IF IsFloat(s) THEN {"FLOAT"} ELSE {})
              \cup (IF IsString(s) THEN {"STRING"} ELSE {})
              \cup (IF IsWord(s) THEN {IF s \in DOMAIN Reserved THEN Reserved[s].type ELSE "SYMBOL"} ELSE {})

InComment(s, k) == \E j \in 1 .. k - 1 : s[j] = "#" /\ \A h \in j .. k : s[h] # "\n"
Continued(s, k) == s[k] = "\\" /\ k < Len(s) /\ s[k + 1] = "\n"
Skippable(s) == \A k \in DOMAIN s : s[k] \in Blanks \cup {"\n"} \/ InComment(s, k) \/ Continued(s, k)
EndsStatement(s) == \E k \in DOMAIN s : s[k] = "\n" /\ (k = 1 \/ s[k - 1] # "\\")

Good == {k \in DOMAIN tokens : \A j \in 1 .. k : tokens[j].type # "NONE"}
\* Between the token before the k-th and the k-th.
Gap(k) == SubSeq(string, IF k = 1 THEN 1 ELSE tokens[k - 1].pos + Len(tokens[k - 1].value) + 1, tokens[k].pos)

\* Of the text nothing is lost and nothing made up by the types that lex_next goes
\* through (lexer.c:167-349): each token has the type of its characters, and no
\* longer ones would be a token; between two there are only blanks, comments and
\* continuations, and a newline exactly where there is a token for it.
LexemesExact ==
    \A k \in Good :
        LET t == tokens[k]
            gap == Gap(k)
        IN  /\ t.value = SubSeq(string, t.pos + 1, t.pos + Len(t.value))
            /\ Skippable(gap)
            /\ EndsStatement(gap) => tokens[k - 1].type = "NEWLINE"
            /\ CASE t.type = "EOF" -> t.pos = Len(string)
                 [] t.type = "NEWLINE" -> t.value = <<>> /\ CharAt(t.pos) = "\n"
                 [] OTHER -> /\ Lexemes(t.value) = {t.type}
                             /\ \A n \in t.pos + Len(t.value) + 1 .. Len(string) :
                                   Lexemes(SubSeq(string, t.pos + 1, n)) = {}

\* The parser takes a token for an operand by its tag alone (parser.c:292, :1164),
\* before it looks whether it is a token at all: the types a token went through
\* leave no tag behind.
OperandsAreTagged ==
    \A k \in DOMAIN tokens :
        (tokens[k].tag = "OPERAND") <=> (tokens[k].type \in {"INT", "FLOAT", "SYMBOL", "BOOL", "STRING"})

\* The line and column of an error message (main.c:230, :336) are those of its
\* token, whatever newlines, comments and continuations are before it, if no string
\* is: charpos is -1 for a moment so that it comes out right.
PositionsRight ==
    \A k \in DOMAIN tokens :
        (\A j \in 1 .. k - 1 : tokens[j].type # "STRING") =>
            LET before == {n \in 1 .. tokens[k].pos : CharAt(n - 1) = "\n"}
                start == IF before = {} THEN 0 ELSE CHOOSE n \in before : \A m \in before : m <= n
            IN  tokens[k].lino = 1 + Cardinality(before) /\ tokens[k].charpos = tokens[k].pos - start

\* The string is read behind its terminator only for a token that cannot be one,
\* after which nothing is read any more.
CursorInside == /\ i <= Len(string) + (IF token.type = "NONE" THEN 1 ELSE 0)
                /\ at.pos > Len(string) => tokens # <<>> /\ Last(tokens).type = "NONE"

\* However the parser goes back and asks again, it gets one sequence of tokens, in
\* order: no call takes a token from it, gives one twice or makes one out of
\* characters that have been used.
GivenInOrder ==
    [][lexing # "off" /\ lexing' # "off" =>
          /\ IsPrefix(tokens, tokens')
          /\ tokens' # tokens => token_pos = Len(tokens) /\ token_pos' = Len(tokens')]_lexVars

\* Each call of lex_next gives a token in the end.
TokenEnds == (lexing \in {"skip", "scan"}) ~> (lexing = "idle")
=============================================================================
