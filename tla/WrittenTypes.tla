---------------------------- MODULE WrittenTypes ----------------------------
(***************************************************************************)
(* The types that Compile makes, against the text they are written in.     *)
(***************************************************************************)
EXTENDS Compile

RECURSIVE Words(_), WordsOf(_), Plain(_)

NameWord(n) == IF n = Unnamed THEN <<>> ELSE <<n>>

\* The names of a type, and of its tree, in the order they are written in.
Words(type) == IF type.kind = "PRIMITIVE" THEN <<type.name>>
               ELSE FlattenSeq([i \in DOMAIN type.fields |-> NameWord(type.names[i]) \o Words(type.fields[i])])
WordsOf(t) == IF t.kids = <<>> THEN <<t.label>> ELSE FlattenSeq([i \in DOMAIN t.kids |-> WordsOf(t.kids[i])])

\* The types generate_type does not drop or turn around a part of: no operator has
\* three operands, no name has arguments, and what is intersected is one field.
Plain(t) ==
    \/ t.kids = <<>> /\ t.label \in TypeNames
    \/ t.label = ":" /\ Plain(t.kids[2])
    \/ t.label \in {"*", "|", "->"} /\ Len(t.kids) = 2 /\ Plain(t.kids[1]) /\ Plain(t.kids[2])
    \/ t.label = "&" /\ Len(t.kids) = 2 /\ \A i \in 1 .. 2 : t.kids[i].label = ":" /\ Plain(t.kids[i])

NoTree == [label |-> "none", kids |-> <<>>]

\* The tree of the type statement t is written with, if it is.
AnnotationOf(t) == IF t.label = ":" THEN t.kids[2]
                   ELSE IF t.label = "=" /\ t.kids[1].label = ":" THEN t.kids[1].kids[2]
                   ELSE NoTree

TypeOfStatement(e) == IF e.tag = "assign" THEN e.annotation ELSE e.type

\* Lists that are filled backwards and turned around, loops that flatten nested
\* operands, fields taken out of one-field products: a type that is made has the
\* names of its text, each once and in order.
TypesAsWritten ==
    \A i \in DOMAIN ir :
       LET a == AnnotationOf(tree[i])
       IN  (mode = "repl" /\ a # NoTree /\ Plain(a))
           => Words(TypeOfStatement(ir[i])) = WordsOf(a)
=============================================================================
