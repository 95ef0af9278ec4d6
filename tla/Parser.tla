------------------------------- MODULE Parser -------------------------------
(***************************************************************************)
(* The recursive descent parser of parse/parser.c: its functions as rules, *)
(* and Run for the macros `consume', `call' and `push_lexer' they are      *)
(* written with, from the position of the token cursor to a result.        *)
(*                                                                         *)
(* A token is its text.  All newlines in a row are one token, "nl", as the *)
(* lexer makes them, and "?" is a token the lexer could not make sense of. *)
(***************************************************************************)
EXTENDS Integers, Sequences

CONSTANT Symbols  \* the names in use

Operands == Symbols \cup {"1", "0.5", "true", "string"}

Node(label, kids) == [label |-> label, kids |-> kids]
Leaf(token) == Node(token, <<>>)
-----------------------------------------------------------------------------
(* What a function of the parser is made of.                               *)

Take(tokens) == [do |-> "take", tokens |-> tokens]   \* consume, and keep
Skip(tokens) == [do |-> "skip", tokens |-> tokens]   \* consume
Newline == [do |-> "newline"]                        \* consume one if it is there
Mark(label) == [do |-> "mark", label |-> label]      \* a tree of no tokens
Call(rule) == [do |-> "call", rule |-> rule]
Must(g) == [do |-> "must", of |-> g]                 \* any failure is fatal
Parts(gs) == [do |-> "seq", of |-> gs]
Alt(gs) == [do |-> "alt", of |-> gs]
Opt(g) == Alt(<<g, Parts(<<>>)>>)
\* As long as there is a first, what follows it is required.
Many(first, rest) == [do |-> "many", first |-> first, rest |-> rest]
\* A left operand, then pairs of an operator and a right operand.
Left(g, pair) == [do |-> "left", of |-> g, pair |-> pair]
More(top, pair) == [do |-> "more", top |-> top, pair |-> pair]
\* One tree: with this label, with the first token as its label, or with this
\* label if there is more than one.
Tree(label, g) == [do |-> "tree", label |-> label, of |-> g]
Headed(g) == [do |-> "headed", of |-> g]
Wrap(label, g) == [do |-> "wrap", label |-> label, of |-> g]

Symbol == Take(Symbols)
Assign == Skip({"="})
Expr == Call("expression")
Type == Call("type_func")
-----------------------------------------------------------------------------
(* Values.                                                                 *)

\* An item that is not there is fatal: in an empty dictionary, and after a
\* last comma.
DictItem == Alt(<<Tree("=", Parts(<<Symbol, Assign, Must(Expr)>>)), Must(Expr)>>)

\* After a comma with no item the cursor is put back before the newline that
\* may follow the comma.
Bracketed(open, item, close) ==
    Tree(open, Parts(<<
        Skip({open}),
        Opt(Parts(<<Newline, item, Many(Skip({","}), Opt(Parts(<<Newline, item>>)))>>)),
        Newline, Must(Skip({close}))>>))

Value == Alt(<<Take(Operands), Bracketed("[", Expr, "]"), Bracketed("{", DictItem, "}"),
               Parts(<<Skip({"("}), Newline, Must(Expr), Newline, Must(Skip({")"}))>>)>>)
-----------------------------------------------------------------------------
(* Operators.                                                              *)

\* infix_parser
Infix(subparser, operators) ==
    Left(Call(subparser), Parts(<<Take(operators), Must(Call(subparser))>>))

Application == Left(Call("attribute"), Parts(<<Mark("app"), Call("attribute")>>))

Prefix == Alt(<<Headed(Parts(<<Take({"*", "-"}), Must(Application)>>)), Application>>)
-----------------------------------------------------------------------------
(* Types.                                                                  *)

TypeParen == Parts(<<Skip({"("}), Must(Type), Must(Skip({")"}))>>)
TypeTyped == Tree(":", Parts(<<Symbol, Skip({":"}), Alt(<<Symbol, Must(TypeParen)>>)>>))
TypeApplication == Headed(Parts(<<Symbol, Many(Alt(<<Symbol, TypeParen>>), Parts(<<>>))>>))
TypeIntersectArg == Alt(<<TypeTyped, TypeApplication, TypeParen>>)

\* One tree for all operands.
TypeIntersection == Wrap("&", Parts(<<TypeIntersectArg, Many(Skip({"&"}), TypeIntersectArg)>>))
TypeProduct == Wrap("*", Parts(<<TypeIntersection, Many(Skip({"*"}), TypeIntersection)>>))
TypeUnion == Wrap("|", Parts(<<TypeProduct, Many(Parts(<<Newline, Skip({"|"})>>), TypeProduct)>>))
TypeParameterised == Wrap("=>", Parts(<<Many(Parts(<<Symbol, Skip({"=>"})>>), Parts(<<>>)), TypeUnion>>))
\* Associates to the right.
TypeFunc == Wrap("->", Parts(<<TypeParameterised, Opt(Parts(<<Skip({"->"}), Must(Type)>>))>>))

EnumParser == Tree("enum", Parts(<<Skip({"enum"}), Must(Symbol),
                                  Many(Parts(<<Newline, Skip({"|"})>>), Must(Symbol))>>))
Class == Tree("class", Parts(<<Skip({"class"}), Must(Headed(Parts(<<Symbol, Many(Symbol, Parts(<<>>))>>))),
                              Must(Skip({"where"})), Must(Take({"true"}))>>))
-----------------------------------------------------------------------------
(* Assignments and declarations.                                           *)

RangeAssignment == Tree("=", Parts(<<Tree("..", Parts(<<Symbol, Skip({".."}), Must(Symbol)>>)),
                                    Must(Assign), Must(Expr)>>))

TypedAssignment == Wrap("=", Parts(<<Tree(":", Parts(<<Symbol, Skip({":"}), Must(Type)>>)),
                                    Opt(Parts(<<Assign, Must(Expr)>>))>>))

AttributeAssignment ==
    Tree("=", Parts(<<Tree(".", Parts(<<Symbol, Skip({"."}), Must(Call("value")),
                                      Many(Skip({"."}), Must(Call("value")))>>)),
                     Assign, Must(Expr)>>))

\* The dot of an attribute starts with a count of two children it does not have.
ArgumentType ==
    Alt(<<TypeParen,
          Tree(".", Parts(<<Mark("NULL"), Mark("NULL"), Symbol, Skip({"."}), Must(Symbol)>>)),
          Symbol>>)
Argument == Alt(<<Tree(":", Parts(<<Symbol, Skip({":"}), Must(ArgumentType)>>)), Take(Operands)>>)

FunctionAssignment ==
    Tree("=", Parts(<<Headed(Parts(<<Symbol, Argument, Many(Argument, Parts(<<>>))>>)), Assign, Must(Expr)>>))

Definition ==
    Tree("=", Parts(<<Symbol, Assign, Alt(<<Tree("type", Parts(<<Skip({"type"}), Must(Type)>>)),
                                          EnumParser, Class, Must(Expr)>>)>>))

Assignment == Alt(<<RangeAssignment, TypedAssignment, AttributeAssignment, FunctionAssignment, Definition>>)
-----------------------------------------------------------------------------
(* The other expressions, and statements.                                  *)

WithExpr == Tree("with", Parts(<<
    Skip({"with"}), Must(Call("assignment")),
    Many(Parts(<<Skip({","}), Newline, Call("assignment")>>), Parts(<<>>)),
    Must(Skip({","})), Newline, Must(Expr)>>))

Case == Tree("=>", Parts(<<Must(Call("value")), Must(Skip({"=>"})), Must(Expr)>>))

\* A newline after the last case is not given back when no `to' follows it.
Match == Tree("match", Parts(<<
    Skip({"match"}), Must(Expr), Newline, Must(Skip({"to"})), Newline, Case,
    Many(Parts(<<Newline, Skip({"to"})>>), Case),
    Newline, Opt(Parts(<<Newline, Tree("else", Parts(<<Skip({"else"}), Must(Expr)>>))>>))>>))

IfExpr == Tree("if", Parts(<<
    Skip({"if"}), Must(Expr), Newline,
    Must(Skip({"then"})), Newline, Must(Call("statement")), Newline,
    Must(Skip({"else"})), Newline, Must(Call("statement"))>>))

ForLoop == Tree("for", Parts(<<
    Skip({"for"}), Opt(Take({"all", "some"})), Must(Symbol), Must(Skip({"in"})), Must(Call("value")),
    Newline, Must(Call("statement"))>>))

WhereExpr == Tree("where", Parts(<<Tree("in", Parts(<<Symbol, Skip({"in"}), Expr>>)),
                                  Skip({"where"}), Newline, Must(Expr)>>))

Expression == Alt(<<Take({"pass", "stop"}), WhereExpr, WithExpr, IfExpr, ForLoop, Match, Call("xor")>>)

\* As Statement would be if the cursor stayed behind the symbol assignment() consumes.
StatementNoReset == Alt(<<Call("assignment"), Parts(<<Opt(Skip(Symbols)), Expr>>)>>)
Statement == Alt(<<Call("assignment"), Expr>>)

LangRule == Tree("root", Parts(<<Opt(Statement), Many(Skip({"nl"}), Opt(Statement)), Must(Skip({"eof"}))>>))

Rules == [
    value |-> Value, attribute |-> Infix("value", {"."}), prefix |-> Prefix,
    muldiv |-> Infix("prefix", {"*", "/"}), addsub |-> Infix("muldiv", {"+", "-"}),
    bitshift |-> Infix("addsub", {"<<", ">>"}), bitand |-> Infix("bitshift", {"&"}),
    bitor |-> Infix("bitand", {"|"}), bitxor |-> Infix("bitor", {"^"}),
    compare |-> Infix("bitxor", {"<", "in"}), and |-> Infix("compare", {"and"}),
    or |-> Infix("and", {"or"}), xor |-> Infix("or", {"xor"}),
    type_func |-> TypeFunc, assignment |-> Assignment, expression |-> Expression, statement |-> Statement]
-----------------------------------------------------------------------------
(* Running them.  A result has the trees made so far.  A failure needs no  *)
(* position: the macros put the cursor back to where the attempt was made. *)

Ok(kids, p) == [ok |-> TRUE, fatal |-> FALSE, kids |-> kids, pos |-> p]
No(fatal) == [ok |-> FALSE, fatal |-> fatal, kids |-> <<>>, pos |-> 0]

TokenAt(ts, p) == IF p \in DOMAIN ts THEN ts[p] ELSE "eof"

\* consume_string, consume_type and consume_tag.
Consume(ts, tokens, p) ==
    IF TokenAt(ts, p) \in tokens THEN Ok(<<Leaf(TokenAt(ts, p))>>, p + 1) ELSE No(TokenAt(ts, p) = "?")

\* The trees of a result made one.
Made(r, tree) == IF r.ok THEN Ok(<<tree>>, r.pos) ELSE r

\* As Grow would be in the branch of infix_parser that associates to the right.
GrowRight(top, operator, right) ==
    IF Len(top.kids) = 2 THEN Node(top.label, <<top.kids[1], Node(operator, <<top.kids[2], right>>)>>)
    ELSE Node(operator, <<top, right>>)

\* The branch that associates to the left, the only one taken for operators.
Grow(top, operator, right) == Node(operator, <<top, right>>)

RECURSIVE Run(_, _, _)

\* What comes after a result.
After(ts, r, g) == IF ~r.ok THEN r
                   ELSE LET s == Run(ts, g, r.pos)
                        IN  IF s.ok THEN Ok(r.kids \o s.kids, s.pos) ELSE s

Run(ts, g, p) ==
    CASE g.do = "skip" -> LET r == Consume(ts, g.tokens, p) IN [r EXCEPT !.kids = <<>>]
      [] g.do = "take" -> Consume(ts, g.tokens, p)
      [] g.do = "newline" -> Ok(<<>>, IF TokenAt(ts, p) = "nl" THEN p + 1 ELSE p)
      [] g.do = "mark" -> Ok(<<Leaf(g.label)>>, p)
      [] g.do = "call" -> Run(ts, Rules[g.rule], p)
      [] g.do = "must" -> LET r == Run(ts, g.of, p) IN IF r.ok THEN r ELSE No(TRUE)
      [] g.do = "seq" -> IF g.of = <<>> THEN Ok(<<>>, p)
                         ELSE After(ts, Run(ts, Head(g.of), p), Parts(Tail(g.of)))
      [] g.do = "alt" -> LET r == Run(ts, Head(g.of), p)
                         IN  IF r.ok \/ r.fatal \/ Len(g.of) = 1 THEN r ELSE Run(ts, Alt(Tail(g.of)), p)
      [] g.do = "many" -> LET r == Run(ts, g.first, p)
                          IN  IF r.ok THEN After(ts, After(ts, r, g.rest), g)
                              ELSE IF r.fatal THEN r ELSE Ok(<<>>, p)
      [] g.do = "left" -> LET r == Run(ts, g.of, p)
                          IN  IF r.ok THEN Run(ts, More(r.kids[1], g.pair), r.pos) ELSE r
      [] g.do = "more" -> LET r == Run(ts, g.pair, p)
                          IN  IF r.ok THEN Run(ts, More(Grow(g.top, r.kids[1].label, r.kids[2]), g.pair), r.pos)
                              ELSE IF r.fatal THEN r ELSE Ok(<<g.top>>, p)
      [] g.do = "tree" -> LET r == Run(ts, g.of, p) IN Made(r, Node(g.label, r.kids))
      [] g.do = "headed" -> LET r == Run(ts, g.of, p) IN Made(r, Node(r.kids[1].label, Tail(r.kids)))
      [] g.do = "wrap" -> LET r == Run(ts, g.of, p)
                          IN  IF Len(r.kids) = 1 THEN r ELSE Made(r, Node(g.label, r.kids))

\* The statements of the root it makes.
LangParser(ts) == LET r == Run(ts, LangRule, 1) IN IF r.ok THEN Ok(r.kids[1].kids, r.pos) ELSE r
=============================================================================
