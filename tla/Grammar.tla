------------------------------- MODULE Grammar ------------------------------
(***************************************************************************)
(* The reference for Parser: a text of a syntax tree, as the grammar       *)
(* comments of parser.c have it where the code does not contradict them.   *)
(* It is one text of the many they allow, with parentheses only where      *)
(* precedence asks for them, or its wide form, with newlines wherever the  *)
(* parser takes one.                                                       *)
(*                                                                         *)
(* The code takes more than the comments say: statements in an if or for,  *)
(* expressions in the cases of a match, all and some, newlines; trees of   *)
(* these kinds are written too.  It takes less in the places listed below: *)
(* what is written there is what the code wants, or what the comment says  *)
(* if the place is in `against'.  For the others only the code's text is   *)
(* written:                                                                *)
(*   :913 says any union may be a parameter: a symbol must be (:927);      *)
(*   :686 and :961 both name type_func, with | and with ->: it is ->;      *)
(*   :996 says a class need have no name and may have components: it has a *)
(*        name and nothing but true (:1006, :1030);                        *)
(*   :1317 says a where may run over any expression: one that starts with  *)
(*        another symbol and `in' is taken for a where of its own (:1371); *)
(*   :496-498 repeat the keywords that :964 and :996 start with;           *)
(*   :1424 says nothing stands between statements: a newline must.         *)
(***************************************************************************)
EXTENDS Integers, Sequences, SequencesExt

\* Where a text may follow a comment against the code: the separator of the cases of
\* a match (parser.c:553, :597), the iterator of a for loop (:1269, :1303), a prefix
\* behind a dot (:386, :387), a type of several names behind a colon in a type or an
\* argument (:689, :708-717; :1038, :1192-1202).
TextPlaces == {"or", "iterator", "prefix", "type"}

\* The loosest operator last: what an operand of a level may be without
\* parentheses is what has that level or a lower one.
LevelOfOperator(o) ==
    CASE o = "." -> 1 [] o = "app" -> 2 [] o \in {"*", "/", "%"} -> 4 [] o \in {"+", "-"} -> 5
      [] o \in {"<<", ">>"} -> 6 [] o = "&" -> 7 [] o = "|" -> 8 [] o = "^" -> 9
      [] o \in {"<", "in"} -> 10 [] o = "and" -> 11 [] o = "or" -> 12 [] o = "xor" -> 13
      [] OTHER -> 14

Level(t) ==
    CASE t.label \in {"pass", "stop"} -> 14
      [] t.kids = <<>> \/ t.label \in {"[", "{"} -> 0
      [] t.label \in {"*", "-"} /\ Len(t.kids) = 1 -> 3
      [] OTHER -> LevelOfOperator(t.label)

TypeLevel(t) == CASE t.kids = <<>> -> 0 [] t.label = "&" -> 2 [] t.label = "*" -> 3
                  [] t.label = "|" -> 4 [] t.label = "=>" -> 5 [] t.label = "->" -> 6
                  [] OTHER -> 1

InParens(text, nl) == <<"(">> \o nl \o text \o nl \o <<")">>

\* The texts, with op between them.
Join(texts, op) == IF texts = <<>> THEN <<>>
                   ELSE FoldLeft(LAMBDA all, x : all \o op \o x, Head(texts), Tail(texts))

RECURSIVE TypeText(_, _, _), Text(_, _, _), EndsInCase(_), IsAgainst(_)

TypeText(t, nl, against) ==
    LET part(k, level) == IF TypeLevel(k) <= level THEN TypeText(k, nl, against)
                          ELSE InParens(TypeText(k, nl, against), <<>>)
        parts(level) == [i \in DOMAIN t.kids |-> part(t.kids[i], level)]
    IN  CASE t.label \in {"&", "*"} -> Join(parts(TypeLevel(t) - 1), <<t.label>>)
          [] t.label = "|" -> Join(parts(3), nl \o <<"|">>)
          [] t.label = "=>" -> Join(parts(4), <<"=>">>)
          [] t.label = "->" -> Join(<<part(t.kids[1], 5), part(t.kids[2], 6)>>, <<"->">>)
          [] t.label = ":" -> Join(parts(IF "type" \in against THEN 6 ELSE 0), <<":">>)
          [] t.label = "." -> Join([i \in 1 .. 2 |-> part(t.kids[Len(t.kids) - 2 + i], 0)], <<".">>)
          [] OTHER -> <<t.label>> \o FlattenSeq(parts(0))

\* An argument of a function with its type, or alone.
ArgumentText(a, nl, against) ==
    IF a.label # ":" THEN Text(a, nl, against)
    ELSE <<a.kids[1].label, ":">> \o (IF a.kids[2].kids = <<>> \/ a.kids[2].label = "." \/ "type" \in against
                                      THEN TypeText(a.kids[2], nl, against)
                                      ELSE InParens(TypeText(a.kids[2], nl, against), <<>>))

Text(t, nl, against) ==
    LET n == Len(t.kids)
        part(i, level) == IF Level(t.kids[i]) <= level THEN Text(t.kids[i], nl, against)
                          ELSE InParens(Text(t.kids[i], nl, against), nl)
        whole(i) == Text(t.kids[i], nl, against)
        comma == <<",">> \o nl
        bracketed(close) == <<t.label>> \o nl
                            \o (IF n = 0 THEN <<>> ELSE Join([i \in 1 .. n |-> whole(i)], comma) \o nl)
                            \o <<close>>
        case == IF "or" \in against THEN <<"or">> ELSE <<"to">>
        iterator == IF "iterator" \in against THEN whole(n - 1) ELSE part(n - 1, 0)
    IN  CASE t.label = "[" -> bracketed("]")
          [] t.label = "{" -> bracketed("}")
          [] n = 0 -> <<t.label>>
          [] t.label = "app" -> part(1, 2) \o part(2, 1)
          [] Level(t) = 3 -> <<t.label>> \o part(1, 2)
          [] t.label = "with" -> <<"with">> \o Join([i \in 1 .. n |-> whole(i)], comma)
          [] t.label = "if" -> <<"if">> \o whole(1) \o nl \o <<"then">> \o nl \o whole(2)
                               \o (IF n = 2 THEN <<>> ELSE nl \o <<"else">> \o nl \o whole(3))
          [] t.label = "for" -> <<"for">> \o FlattenSeq([i \in 1 .. n - 2 |-> whole(i)])
                                \o <<"in">> \o iterator \o nl \o whole(n)
          [] t.label = "match" ->
                <<"match">> \o whole(1) \o nl \o <<"to">> \o nl \o whole(2)
                \o FlattenSeq([i \in 1 .. n - 2 |->
                                  nl \o (IF t.kids[i + 2].label = "else" THEN <<>> ELSE case)
                                  \o whole(i + 2)])
          [] t.label = "else" -> <<"else">> \o whole(1)
          [] t.label = "=>" -> part(1, 0) \o <<"=>">> \o whole(2)
          [] t.label = "where" ->
                <<t.kids[1].kids[1].label, "in">>
                \o (LET over == t.kids[1].kids[2]
                    IN  IF Level(over) \in 10 .. 13 THEN InParens(Text(over, nl, against), nl)
                        ELSE Text(over, nl, against))
                \o <<"where">> \o nl \o whole(2)
          [] t.label = "=" -> whole(1) \o <<"=">> \o whole(2)
          [] t.label = ":" -> <<t.kids[1].label, ":">> \o TypeText(t.kids[2], nl, against)
          [] t.label = "type" -> <<"type">> \o TypeText(t.kids[1], nl, against)
          [] t.label = "enum" -> <<"enum">> \o Join([i \in 1 .. n |-> whole(i)], nl \o <<"|">>)
          [] t.label = "class" -> <<"class">> \o whole(1) \o <<"where">> \o whole(2)
          [] t.label = ".." -> Join([i \in 1 .. n |-> whole(i)], <<"..">>)
          [] t.label = "." /\ "prefix" \in against /\ Level(t.kids[n]) = 3 ->
                part(1, 1) \o <<".">> \o whole(n)
          [] LevelOfOperator(t.label) < 14 ->
                Join([i \in 1 .. n |-> part(i, IF i = 1 THEN Level(t) ELSE Level(t) - 1)],
                     <<t.label>>)
          [] OTHER -> <<t.label>> \o FlattenSeq([i \in 1 .. n |-> ArgumentText(t.kids[i], nl, against)])

\* The last thing in the text of a tree is a case of a match.
EndsInCase(t) ==
    \/ t.label = "match" /\ Last(t.kids).label = "=>"
    \/ /\ t.label \in {"=", "with", "if", "for", "where", "match", "=>", "else"}
       /\ EndsInCase(Last(t.kids))

\* t has a node no text of which the code takes, though a comment has one: an empty
\* dictionary (:230, :223), an if without an else (:635, :672).
IsAgainst(t) == \/ t.label = "{" /\ t.kids = <<>>
                \/ t.label = "if" /\ Len(t.kids) = 2
                \/ \E i \in DOMAIN t.kids : IsAgainst(t.kids[i])
=============================================================================
