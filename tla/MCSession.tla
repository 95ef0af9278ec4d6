----------------------------- MODULE MCSession ------------------------------
(* TLC instances of Session: the checker, the code generator and the       *)
(* meaning of programs in their places, and the chunks of input of the runs. *)
EXTENDS Session, Recursion

MCNames == {"x", "y", "z"}
X == Symbol("x")
Y == Symbol("y")
One == Literal("Int", "1")
Two == Literal("Int", "2")
Half == Literal("Float", "0.5")
True == Literal("Bool", "true")
Add(l, r) == Infix("+", l, r)
Less(l, r) == Infix("<", l, r)
IntOrFloat == Union(<<IntType, FloatType>>, Unnameds(<<IntType, FloatType>>), 0)
MCComposites == {IntOrFloat}

\* Single statements without declarations or comparisons of booleans, one of
\* them a with that fails once it has bound x; what they assign never depends
\* on the variable itself, so values stay few.
SoundChunks == {
    <<Assign("x", One)>>, <<Assign("x", Two)>>, <<Assign("x", Half)>>,
    <<Assign("y", Add(X, Half))>>,
    <<Assign("z", Less(X, Y))>>,
    <<X>>, <<Y>>,
    <<With(<<Assign("x", Half), Assign("y", Add(X, One))>>, Add(X, Y))>>,
    <<With(<<Assign("x", Half)>>, Add(X, True))>>,
    <<If(Symbol("z"), X, Add(Two, X))>>,
    <<If(Infix("and", Symbol("z"), Less(One, X)), X, One)>>,
    <<Prefix("neg", X)>>, <<Infix("%", X, Two)>>, <<Infix("xor", Symbol("z"), True)>>,
    <<Assign("z", With(<<Assign("x", True)>>, X))>>,
    <<Assign("x", Func)>> }

\* Chunks of several statements, with declarations and input that fails.
MixedChunks == {
    <<Assign("x", One)>>, <<Assign("x", Half)>>, <<X>>,
    <<Assign("y", True), Symbol("z")>>,
    <<Declare("x", IntType), Assign("x", Two)>>,
    <<Declare("y", FloatType), X>>,
    <<Assign("z", Half), Declare("z", NoType), Assign("y", Y)>>,
    <<X, Declare("x", IntType)>>,
    <<Assign("y", With(<<Declare("x", IntType), Assign("x", Two)>>, X)), Less(Y, X)>>,
    <<Declare("z", StringType)>>, <<Unsupported>>,
    <<If(Y, Assign("y", True), Y)>>,
    <<Declare("z", IntOrFloat), Assign("z", One), Two>>, <<Assign("z", Half), One>>,
    <<Infix("none", X, One)>>, <<Prefix("span", X)>>,
    <<With(<<Declare("x", FloatType), Assign("x", Half)>>, Add(X, True))>>,
    <<If(True, Declare("x", FloatType), Declare("x", FloatType))>> }

AnnotatedChunks == { <<AssignTyped("x", FloatType, One)>>, <<AssignTyped("y", IntType, One)>> }
PartialChunks == { <<Assign("x", One), Y>>, <<X>>, <<Assign("x", Two)>> }

RECURSIVE Annotated(_)

\* The S expressions the checker makes of those in S, over any root scope.
Annotated(S) ==
    LET more == {Check(e, <<root>>, TRUE) : e \in S, root \in RootScopes}
        all == S \cup {r.sexpr : r \in {c \in more : c.ok}}
    IN  IF all = S THEN S ELSE Annotated(all)

RECURSIVE Memories(_, _)

\* What the variables may come to hold, from what is in M, by statements of S.
Memories(S, M) ==
    LET Next1(m) == {After(e, m) : e \in {x \in S : /\ x.tag = "assign" /\ Built(x, TypesOf(m)) # Bad
                                                     /\ m[x.name].type \in {NoValue.type, Built(x, TypesOf(m)).type}}}
        all == M \cup UNION {Next1(m) : m \in M}
    IN  IF all = M THEN M ELSE Memories(S, all)

\* The checker and the code generator keep the contract the proofs about Session rest on.
ASSUME ContractAssumption ==
    LET S == Annotated(UNION {{chunk[i] : i \in DOMAIN chunk} : chunk \in Chunks})
    IN  Contract(S) /\ ValueContract(S, Memories(S, {[n \in Names |-> NoValue]}))
=============================================================================
