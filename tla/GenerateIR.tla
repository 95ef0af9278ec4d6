----------------------------- MODULE GenerateIR -----------------------------
(***************************************************************************)
(* convert_ast_node of ir/generate_ir.c: the S expression of a syntax tree. *)
(* builtins and made are those of TypeGenerators.                          *)
(***************************************************************************)
EXTENDS TypeGenerators, SExpressions

\* convert_ast_node calls itself through this.
CONSTANT Converts(_, _, _)  \* Convert

LiteralType == [l \in {"1", "0.5", "true"} |-> CASE l = "1" -> "Int" [] l = "0.5" -> "Float"
                                                [] l = "true" -> "Bool"]

\* The class of an infix operator; `in' and `.' have none.
OperatorOf(label) == CASE label \in {"+", "-", "*", "/"} -> "+"
                       [] label \in {"%", "<<", ">>", "&", "|", "^"} -> "%"
                       [] label \in {"<", "and", "or", "xor"} -> label
                       [] OTHER -> "none"

InfixLabels == {"+", "-", "*", "/", "%", "<<", ">>", "&", "|", "^", "<", "and", "or", "xor",
                "in", "."}

\* ok: nothing is NULL, or has no tag, in what print_ir goes through next.
Converted(e, made) == [ok |-> TRUE, sexpr |-> e, made |-> made]
NotConverted == [ok |-> FALSE, sexpr |-> Unsupported, made |-> 0]

ConvertEach(ts, builtins, made) ==
    LET r[k \in 0 .. Len(ts)] ==
            IF k = 0 THEN [ok |-> TRUE, sexprs |-> <<>>, made |-> made]
            ELSE LET c == Converts(ts[k], builtins, r[k - 1].made)
                 IN  [ok |-> r[k - 1].ok /\ c.ok, sexprs |-> Append(r[k - 1].sexprs, c.sexpr), made |-> c.made]
    IN  r[Len(ts)]

\* Every argument is taken for one with a type.  The type of the body is lost: the
\* value assigned is a mere reference to the function.
ConvertFunction(t, builtins, made) ==
    LET args == t.kids[1].kids
        body == Converts(t.kids[2], builtins,
                         GenerateEach([i \in DOMAIN args |-> args[i].kids[2]], builtins, made).made)
    IN  IF \A i \in DOMAIN args : args[i].label = ":" /\ body.ok
        THEN Converted(Assign(t.kids[1].label, Func), body.made) ELSE NotConverted

\* A symbol, a symbol with a type, or a function; other heads leave the name NULL.
ConvertAssign(t, builtins, made) ==
    LET head == t.kids[1]
        type == IF head.label = ":" THEN GenerateType(head.kids[2], builtins, made) ELSE Generated(NoType, made)
        value == Converts(t.kids[2], builtins, type.made)
        name == IF head.label = ":" THEN head.kids[1].label ELSE head.label
    IN  IF head.label \in Names /\ head.kids # <<>> THEN ConvertFunction(t, builtins, made)
        ELSE IF name \in Names /\ value.ok
             THEN Converted(AssignTyped(name, type.type, value.sexpr), value.made)
        ELSE NotConverted

ConvertDeclare(t, builtins, made) ==
    LET type == GenerateType(t.kids[2], builtins, made)
    IN  Converted(Declare(t.kids[1].label, type.type), type.made)

ConvertWith(t, builtins, made) ==
    LET r == ConvertEach(t.kids, builtins, made)
    IN  IF r.ok THEN Converted(With(Front(r.sexprs), Last(r.sexprs)), r.made) ELSE NotConverted

\* As ConvertInfix would be with the operands the other way round.
ConvertInfixSwapped(t, builtins, made) ==
    LET r == ConvertEach(t.kids, builtins, made)
    IN  IF r.ok THEN Converted(Infix(OperatorOf(t.label), r.sexprs[2], r.sexprs[1]), r.made) ELSE NotConverted

ConvertInfix(t, builtins, made) ==
    LET r == ConvertEach(t.kids, builtins, made)
    IN  IF r.ok THEN Converted(Infix(OperatorOf(t.label), r.sexprs[1], r.sexprs[2]), r.made) ELSE NotConverted

ConvertPrefix(t, builtins, made) ==
    LET r == Converts(t.kids[1], builtins, made)
    IN  IF r.ok THEN Converted(Prefix(IF t.label = "-" THEN "neg" ELSE "span", r.sexpr), r.made) ELSE NotConverted

ConvertIf(t, builtins, made) ==
    LET r == ConvertEach(t.kids, builtins, made)
    IN  IF r.ok THEN Converted(If(r.sexprs[1], r.sexprs[2], r.sexprs[3]), r.made) ELSE NotConverted

\* A string leaves the tag unset; what has no case becomes NULL.
Convert(t, builtins, made) ==
    CASE t.kids = <<>> /\ t.label \in DOMAIN LiteralType ->
            Converted(Literal(LiteralType[t.label], t.label), made)
      [] t.kids = <<>> /\ t.label \in Names -> Converted(Symbol(t.label), made)
      [] Len(t.kids) = 2 /\ t.label \in InfixLabels -> ConvertInfix(t, builtins, made)
      [] Len(t.kids) = 1 /\ t.label \in {"*", "-"} -> ConvertPrefix(t, builtins, made)
      [] t.label = "=" -> ConvertAssign(t, builtins, made)
      [] t.label = ":" -> ConvertDeclare(t, builtins, made)
      [] t.label = "with" -> ConvertWith(t, builtins, made)
      [] t.label = "if" -> ConvertIf(t, builtins, made)
      [] OTHER -> NotConverted
=============================================================================
