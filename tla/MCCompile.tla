----------------------------- MODULE MCCompile ------------------------------
(* TLC instances of Compile: the programs that are compiled, and the parser. *)
EXTENDS WrittenTypes, Grammar, Recursion

P == INSTANCE Parser WITH Symbols <- Names \cup TypeNames
ParserOf(tokens) == P!LangParser(tokens)
SourceText(program) == Join([i \in DOMAIN program |-> Text(program[i], <<>>, {})], <<"nl">>)

\* The other passes and references, as those of Recursion.
CallGenerateType(t, b, made) == LET r == GenerateType(t, b, made) IN r
CallSpine(t, label) == LET r == Spine(t, label) IN r
CallConvert(t, b, made) == LET r == Convert(t, b, made) IN r
CallTreeMeaning(t, env) == LET r == TreeMeaning(t, env) IN r
CallSubtrees(t) == LET r == Subtrees(t) IN r
CallShapes(t) == LET r == Shapes(t) IN r

MCNames == {"x", "y", "f"}

Node(label, kids) == [label |-> label, kids |-> kids]
Leaf(label) == Node(label, <<>>)
Bin(o, l, r) == Node(o, <<l, r>>)
X == Leaf("x")
Y == Leaf("y")
F == Leaf("f")
One == Leaf("1")
Half == Leaf("0.5")
True == Leaf("true")
Let(head, e) == Bin("=", head, e)
Typed(n, t) == Bin(":", n, t)
WithTree(as, e) == Node("with", Append(as, e))
IfTree(c, t, e) == Node("if", <<c, t, e>>)

Whole == Leaf("Int")
Fraction == Leaf("Float")
Truth == Leaf("Bool")

\* Expressions of every form that is converted, over x.
Small == {X, One, Half}
Expressions ==
    {Bin(o, l, r) : o \in {"*", "-", "%", "<", "in"}, l \in Small, r \in Small}
    \cup {Bin("-", X, Bin("-", One, Half)), Bin("-", Bin("-", X, One), X), Bin("*", Bin("+", X, One), Half),
          Bin("and", Bin("<", X, One), True), Bin("xor", True, Bin("or", True, Bin("<", One, X))),
          Node("-", <<X>>), Node("*", <<X>>), Bin("-", Node("-", <<X>>), One), Bin(".", X, One),
          WithTree(<<Let(X, Half), Let(Y, Bin("+", X, One))>>, Bin("-", X, Y)),
          WithTree(<<Typed(Y, Whole), Let(Y, X)>>, WithTree(<<Let(X, True)>>, IfTree(X, Y, One))),
          IfTree(Bin("<", X, One), Bin("-", X, One), Node("-", <<One>>)), IfTree(X, One, One),
          IfTree(True, Let(Y, One), Let(Y, X)), IfTree(True, Typed(Y, F), Typed(Y, F)), Bin("app", F, X), Leaf("string"), Leaf("f")}

\* What is defined besides variables, and what is not converted.
Definitions == {Let(Node("f", <<Typed(X, Whole), Typed(Y, Bin("->", Whole, Truth))>>), X),
                Let(Node("f", <<X>>), X), Let(Node("f", <<Typed(X, Whole)>>), Leaf("string")),
                Let(Bin("..", X, Y), One), Let(Node(".", <<X, One>>), One), Let(X, Node("type", <<Whole>>)),
                Leaf("pass"), Node("for", <<X, Y, X>>)}

\* Types: all trees of two operators that the grammar has, over two names.
Named == {Typed(X, Whole), Typed(Y, Truth)}
Types1 == {Bin(o, l, r) : o \in {"*", "|", "->"}, l \in {Whole, Truth}, r \in {Whole, Fraction}}
          \cup {Bin("&", l, r) : l \in Named, r \in Named} \cup {Typed(X, Whole)}
          \cup {Bin("|", Typed(X, Whole), Typed(Y, Truth))}
Some1 == {Bin("*", Whole, Truth), Bin("|", Truth, Whole), Bin("->", Whole, Truth), Typed(X, Whole)}
Types2 == {Bin(o, l, r) : o \in {"*", "|", "->"}, l \in Some1 \cup {Truth}, r \in Some1 \cup {Whole}}
          \cup {Typed(Y, t) : t \in Some1}
          \cup {Bin("&", Typed(X, t), Typed(Y, t)) : t \in Some1}
          \cup {Bin("&", Typed(X, Whole), Bin("*", Whole, Truth)), Bin("&", Whole, Typed(X, Whole)),
                Node("*", <<Whole, Truth, Fraction>>), Node("|", <<Whole, Truth, Fraction>>),
                Node("Int", <<Truth>>), Bin("=>", X, Whole), Leaf("f"), Bin("*", Whole, X)}

\* The types of two variables one of which is assigned to the other.
Assigned == {Whole, Truth, Typed(X, Whole), Typed(Y, Whole), Bin("*", Whole, Truth), Bin("*", Whole, Whole),
             Bin("&", Typed(X, Whole), Typed(Y, Truth)),
             Bin("|", Whole, Truth), Bin("|", Whole, Bin("*", Whole, Truth)), Bin("|", Bin("|", Whole, Truth), Fraction),
             Bin("|", Typed(X, Whole), Typed(Y, Truth)), Bin("*", Whole, Bin("|", Whole, Truth)), Bin("->", Whole, Truth)}

MCPrograms ==
    {<<Let(X, v), Let(Y, e), Let(X, v)>> : v \in {One, Half}, e \in Expressions}
    \cup {<<d, Let(X, One)>> : d \in Definitions}
    \cup {<<Typed(X, t), Let(X, One)>> : t \in Types1 \cup Types2}
    \cup {<<Let(Typed(X, t), One), Let(Y, X)>> : t \in {Whole, Truth, Bin("|", Truth, Whole), Bin("*", Whole, Truth)}}
    \cup {<<Typed(X, t), Typed(Y, u), Let(X, Y)>> : t \in Assigned, u \in Assigned}
    \cup {<<>>, <<One>>, <<Typed(X, Bin("*", Whole, Truth)), One>>, <<One, Typed(X, Bin("->", Whole, Truth))>>,
          <<Let(X, One), Typed(X, F), Let(X, Half)>>}

\* What the theorems about Compile suppose of programs, of these.
MCTrees == UNION {UNION {Subtrees(p[i]) : i \in DOMAIN p} : p \in Programs}
MCTypeTrees == UNION {Subtrees(t.kids[2]) : t \in {u \in MCTrees : u.label = ":"}}

ASSUME /\ \A t \in MCTrees : Grammatical(t)
       /\ \A u \in MCTypeTrees : GrammaticalType(u)
       /\ \A p \in Programs : ParserOf(SourceText(p)).ok => ParserOf(SourceText(p)).kids = p
=============================================================================
