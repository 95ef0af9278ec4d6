------------------------------ MODULE MCParsing -----------------------------
(* TLC instances of Parsing. *)
EXTENDS Parsing

X == Leaf("x")
F == Leaf("f")
One == Leaf("1")
Bin(o, l, r) == Node(o, <<l, r>>)

\* An operator of each kind and level, and all trees of at most two of them.
Small == {X, One}
Single == {Bin(o, l, r) : o \in {".", "app", "*", "-", "in", "xor"}, l \in Small, r \in Small}
          \cup {Node("-", <<X>>), Node("*", <<X>>), Node("[", <<>>), Node("{", <<X>>)}
Operands2 == {X, Bin(".", X, One), Bin("app", F, X), Bin("*", X, One), Bin("-", One, X),
              Bin("<", One, X), Bin("and", One, X), Node("-", <<X>>), Leaf("pass"),
              Node("[", <<One, X>>)}
Double == {Bin(o, l, r) : o \in {".", "app", "/", "+", "<<", "&", "|", "^", "<", "and", "or", "xor"},
                          l \in Operands2, r \in Operands2}
          \cup {Node(o, <<x>>) : o \in {"-", "*", "["}, x \in Operands2}

Type1 == {X, Node("x", <<F>>), Bin("*", X, F), Bin("->", X, F), Bin(":", X, F)}
TypeTrees == {Bin(o, l, r) : o \in {"->", "|", "*", "&"}, l \in Type1, r \in Type1}
         \cup {Node("x", <<t>>) : t \in Type1} \cup {Bin(":", X, t) : t \in Type1}
         \cup {Bin("=>", X, t) : t \in Type1}
         \cup {Node("|", <<X, F, X>>), Node("&", <<X, F, X>>), Node("=>", <<X, F, X>>)}
\* Of the combinations, those the type rules can make: n-ary nodes do not nest.
Flat(t) == \A i \in DOMAIN t.kids : t.label # t.kids[i].label \/ t.label = "->" \/ t.kids[i].kids = <<>>
MCTypes == {t \in TypeTrees : Flat(t) \/ t.label = "x"}

Let(n, e) == Node("=", <<Leaf(n), e>>)
With(e) == Node("with", <<Let("x", One), Node(":", <<F, X>>), e>>)
If(c, t, e) == Node("if", <<c, t, e>>)
Where(v, e) == Node("where", <<Bin("in", X, v), e>>)
Arm(v, e) == Node("=>", <<v, e>>)
MatchOf(cs) == Node("match", <<X>> \o cs)

Compound == {With(X), With(Bin("app", F, X)), If(X, Let("x", One), F), Where(F, Bin("<", X, One)),
             Node("for", <<X, F, Let("x", X)>>), Node("for", <<Leaf("all"), X, F, Bin("app", F, X)>>)}
Nested == {If(a, b, a) : a \in Compound, b \in Compound}
          \cup {Bin("+", a, X) : a \in Compound} \cup {Bin("app", F, a) : a \in Compound}
          \cup {Where(a, a) : a \in Compound} \cup {Node("for", <<X, a, a>>) : a \in Compound}
          \cup {Node("[", <<a, X, a>>) : a \in Compound} \cup {Let("x", a) : a \in Compound}
          \cup {Node("{", <<Let("x", a), a>>) : a \in Compound}
          \cup {Node("with", <<Let("x", a), Let("f", a), a>>) : a \in Compound}

Definitions == {Let("x", Node("type", <<t>>)) : t \in MCTypes}
               \cup {Node(":", <<X, t>>) : t \in MCTypes}
               \cup {Node("=", <<Node(":", <<X, Bin("|", X, F)>>), One>>),
                     Node("=", <<Bin("..", X, F), X>>),
                     Node("=", <<Node(".", <<X, One, Node("[", <<X>>)>>), X>>),
                     Node("=", <<Node("f", <<One, X, Bin(":", F, X), Bin(":", X, Bin("->", X, F))>>), X>>),
                     Let("x", Node("enum", <<X, F>>)),
                     Let("x", Node("class", <<Node("f", <<X>>), Leaf("true")>>))}

Matches == {MatchOf(<<Arm(X, One)>>),
            Let("x", MatchOf(<<Arm(One, With(X)), Arm(Node("[", <<X>>), Bin("+", X, One))>>)),
            Let("x", MatchOf(<<Arm(X, One), Node("else", <<F>>)>>))}

MCDamaged == Compound \cup Matches \cup {d \in Definitions : d.label = "=" /\ d.kids[2].label # "type"}
             \cup {Bin("-", Bin("app", F, X), Node("[", <<One, Node("{", <<Let("x", One), X>>)>>)),
                   Let("x", Node("type", <<Bin("->", Node("&", <<X, F, Bin(":", X, F)>>), Node("|", <<X, F>>))>>)),
                   Let("x", Node("type", <<Node("=>", <<X, F, Node("x", <<Bin("->", X, F)>>)>>)>>))}
\* What the comments allow and the code does not, and what it does with parentheses.
Contradicted == {Node("{", <<>>), Let("x", Node("{", <<>>)), Node("if", <<X, Let("x", One)>>),
                 If(X, Node("if", <<X, F>>), F), Let("f", If(X, Node("{", <<>>), F)),
                 Bin(".", X, Node("-", <<F>>)), Bin("app", F, Bin(".", X, Node("*", <<One>>)))}
                \cup {Node("for", <<X, e, X>>) : e \in Operands2 \cup {Bin("<<", One, X), Bin("xor", One, X)}}

MCPrograms == <<Single \cup Double \cup Nested \cup Definitions \cup MCDamaged \cup Contradicted,
                {Node("-", <<X>>)}>>
MCSymbols == {"x", "f"}
MCAlphabet == {"x", "1", "(", ")", ",", "=", ":", ".", "nl", "-", "in", "else", "to", "?"}

\* An empty dictionary, which a grammar comment allows and the code does not.
NoPrograms == {}
DictPrograms == <<{X, Bin("app", F, X), Let("x", Node("{", <<>>))}>>
=============================================================================
