----------------------------- MODULE Semantics ------------------------------
(***************************************************************************)
(* What an S expression means: the reference for the compiler.  A value    *)
(* has the type it has at run time; env is the stack of scopes around the  *)
(* expression.  Nothing here looks at the types the checker fills in.      *)
(***************************************************************************)
EXTENDS SExpressions

ToFloat(v) == IF v.type = "Int" THEN Term("sitofp", <<v.term>>) ELSE v.term
Promote(v, w) == IF v.type # w.type /\ {v.type, w.type} = {"Int", "Float"}
                 THEN <<ToFloat(v), ToFloat(w)>> ELSE <<v.term, w.term>>

OperatorType(o, v, w) == IF o \in {"<", "and", "or", "xor"} THEN "Bool"
                         ELSE IF "Float" \in {v.type, w.type} THEN "Float" ELSE "Int"

\* The scope that the assignments of a local scope fill.
AssignsMean(assigns, env) ==
    LET s[k \in 0 .. Len(assigns)] ==
            IF k = 0 THEN Append(env, [n \in Names |-> NoValue])
            ELSE IF assigns[k].tag = "assign"
            THEN Bind(s[k - 1], assigns[k].name, Means(assigns[k].value, s[k - 1]))
            ELSE s[k - 1]
    IN  s[Len(assigns)]

Meaning(e, env) ==
    CASE e.tag \in Literals -> Value(e.tag, Const(e.literal))
      [] e.tag = "symbol" ->
            LET i == Innermost(env, e.name, NoValue)
            IN  IF i = 0 THEN NoValue ELSE env[i][e.name]
      [] e.tag = "infix" ->
            LET l == Means(e.left, env)
                r == Means(e.right, env)
            IN  Value(OperatorType(e.op, l, r), Term(e.op, Promote(l, r)))
      [] e.tag = "prefix" ->
            LET x == Means(e.operand, env) IN Value(x.type, Term(e.op, <<x.term>>))
      [] e.tag = "local_scope" -> Means(e.value, AssignsMean(e.assigns, env))
      [] e.tag = "if" ->
            LET c == Means(e.cond, env)
                t == Means(e.then, env)
                f == Means(e.elsy, env)
            IN  Value(t.type, Term("if", <<c.term, t.term, f.term>>))
      [] OTHER -> NoValue
=============================================================================
