------------------------------- MODULE Parsing ------------------------------
(***************************************************************************)
(* The parser against the grammar: a program is written statement by       *)
(* statement, then its text is damaged token by token.                     *)
(***************************************************************************)
EXTENDS Parser, Grammar

CONSTANTS Programs,     \* for each statement of a program, the trees to write
          Damaged,      \* those of one statement whose text is damaged
          Alphabet,     \* the tokens the text may be damaged with
          MaxDamage     \* bound

VARIABLES program, input, damage,
          against   \* where the text follows a comment that the code contradicts

vars == <<program, input, damage, against>>

Newlines == {<<>>, <<"nl">>}

Init == program = <<>> /\ input = <<>> /\ damage = 0 /\ against = {}

\* A match takes the newline behind its last case (:594, :619), so that no statement
\* can follow it, though one may (:1424).
Write(s, nl, places) ==
    /\ damage = 0
    /\ Text(s, nl, places) = Text(s, nl, {}) => places = {}
    /\ program' = Append(program, s)
    /\ input' = IF input = <<>> THEN Text(s, nl, places)
                ELSE input \o <<"nl">> \o Text(s, nl, places)
    /\ against' = against \cup places
                  \cup {x \in {"tree"} : IsAgainst(s)}
                  \cup {x \in {"after match"} : program # <<>> /\ EndsInCase(Last(program))}
    /\ UNCHANGED damage

\* The lexer never gives two newlines in a row.
Lexed(ts) == \A i \in 1 .. Len(ts) - 1 : <<ts[i], ts[i + 1]>> # <<"nl", "nl">>

Damage(ts) == /\ damage < MaxDamage /\ Lexed(ts) /\ against = {}
              /\ input' = ts /\ damage' = damage + 1
              /\ UNCHANGED <<program, against>>

Drop(i) == Damage(RemoveAt(input, i))
Insert(i, t) == Damage(InsertAt(input, i, t))

Next == \/ /\ Len(program) < Len(Programs)
           /\ \E s \in Programs[Len(program) + 1], nl \in Newlines,
                 places \in {{}} \cup {{p} : p \in TextPlaces} : Write(s, nl, places)
        \/ /\ Len(program) = 1 /\ program[1] \in Damaged
           /\ \E i \in DOMAIN input : Drop(i) \/ \E t \in Alphabet : Insert(i, t)

Spec == Init /\ [][Next]_vars
-----------------------------------------------------------------------------
\* What is written after the grammar comments is parsed whatever alternatives fail
\* before the right one is tried, and to the tree it was written from: precedence and
\* association are those of the comments, and no failure on the way is fatal.
WrittenAsParsed == LET r == LangParser(input) IN r.ok /\ r.kids = program

\* So it is but for the places where the code contradicts the comments (see Grammar),
\* and in each of these it is not.
WrittenIsParsed == damage = 0 => (WrittenAsParsed <=> against = {})

\* What the grammar comments say without exception (parser.c:230, :553, :635, ...).
CommentsHold == damage = 0 => WrittenAsParsed

Significant(ts) == SelectSeq(ts, LAMBDA t : t \notin {"(", ")", ",", "nl"})

\* A program is accepted whole or not at all: the tree of any text that is accepted
\* has every token of it, in its place.  A cursor that were not put back after a
\* failed alternative would lose some.
TokensKept ==
    LET r == LangParser(input)
    IN  r.ok => Significant(FlattenSeq([i \in DOMAIN r.kids |-> Text(r.kids[i], <<>>, {})]))
                = Significant(input)
=============================================================================
