------------------------------ MODULE Checker -------------------------------
(***************************************************************************)
(* The type checker, correctness/check.c over the scopes of scope.c.  A    *)
(* stack of scopes is a sequence, innermost last; a scope is its var_types *)
(* map, with NoType for the names it does not hold.  (var_vals is written  *)
(* but read by nobody.)  builtins tells whether create_primatives put the  *)
(* builtin types and operators into the root scope, where a lookup through *)
(* the parents finds them; nothing else ever adds any.                     *)
(***************************************************************************)
EXTENDS SExpressions, Subtyping

PushScope(s) == Append(s, [n \in Names |-> NoType])
PopScope(s) == SubSeq(s, 1, Len(s) - 1)

LookupVarType(s, n) ==
    LET i == Innermost(s, n, NoType)
    IN  IF i = 0 THEN NoType ELSE s[i][n]

LookupType(builtins, t) == IF builtins THEN t ELSE NoType

Operator(o, l, r, out) == [op |-> o, left |-> l, right |-> r, out |-> out]

InfixOperators == {Operator("+", IntType, IntType, IntType), Operator("+", FloatType, IntType, FloatType),
                   Operator("+", IntType, FloatType, FloatType), Operator("+", FloatType, FloatType, FloatType),
                   Operator("%", IntType, IntType, IntType)}

\* No two of them fit the same operands.
LookupInfix(builtins, o, l, r) ==
    LET fit == {f \in InfixOperators : /\ builtins /\ f.op = o
                                       /\ TypeSubtype(f.left, l) /\ TypeSubtype(f.right, r)}
    IN  IF fit = {} THEN NoType ELSE (CHOOSE f \in fit : TRUE).out

LookupPrefix(builtins, t) == IF builtins /\ t \in {IntType, FloatType} THEN t ELSE NoType

-----------------------------------------------------------------------------
(* check_correctness_helper: whether e passes, e with its types filled in, *)
(* and the scopes as they are when the helper returns.  A failure returns  *)
(* at once: whatever was pushed stays pushed, whatever was added stays.    *)
(* undefined: it followed a NULL type or took another field for operators. *)

Accepted(e, s) == [ok |-> TRUE, undefined |-> FALSE, sexpr |-> e, scopes |-> s]
Failed(e, s) == [ok |-> FALSE, undefined |-> FALSE, sexpr |-> e, scopes |-> s]
Undefined(e, s) == [ok |-> FALSE, undefined |-> TRUE, sexpr |-> e, scopes |-> s]
Passed(e, s) == IF e.type # NoType THEN Accepted(e, s) ELSE Failed(e, s)
\* As r, with e and s of the caller.
Unsuccessful(r, e) == [r EXCEPT !.sexpr = e]

\* The S expressions of es one after the other, up to the first that fails.
CheckEach(es, s, builtins) ==
    LET r[k \in 0 .. Len(es)] ==
            IF k = 0 THEN Accepted(<<>>, s)
            ELSE IF ~r[k - 1].ok THEN r[k - 1]
            ELSE LET c == Checks(es[k], r[k - 1].scopes, builtins)
                 IN  [c EXCEPT !.sexpr = Append(r[k - 1].sexpr, @)]
    IN  r[Len(es)]

CheckAssign(e, s, builtins) ==
    LET c == Checks(e.value, s, builtins)
        known == c.scopes[Len(s)][e.name]   \* of the innermost scope alone
        type == IF known = NoType THEN c.sexpr.type ELSE known
    IN  IF ~c.ok THEN Unsuccessful(c, e)
        ELSE IF known # NoType /\ ~TypeSubtype(known, c.sexpr.type) THEN Failed(e, c.scopes)
        ELSE Accepted([e EXCEPT !.value = c.sexpr, !.type = type],
                      Bind(c.scopes, e.name, type))

\* As CheckLocalScope would be if the scope were not popped.
CheckLocalScopeKept(e, s, builtins) ==
    LET as == CheckEach(e.assigns, PushScope(s), builtins)
        v == Checks(e.value, as.scopes, builtins)
    IN  IF ~as.ok THEN Unsuccessful(as, e)
        ELSE IF ~v.ok THEN Unsuccessful(v, e)
        ELSE Accepted([e EXCEPT !.assigns = as.sexpr, !.value = v.sexpr,
                                !.type = v.sexpr.type], v.scopes)

CheckLocalScope(e, s, builtins) ==
    LET as == CheckEach(e.assigns, PushScope(s), builtins)
        v == Checks(e.value, as.scopes, builtins)
    IN  IF ~as.ok THEN Unsuccessful(as, e)
        ELSE IF ~v.ok THEN Unsuccessful(v, e)
        ELSE Accepted([e EXCEPT !.assigns = as.sexpr, !.value = v.sexpr,
                                !.type = v.sexpr.type], PopScope(v.scopes))

CheckIf(e, s, builtins) ==
    LET c == Checks(e.cond, s, builtins)
        bs == CheckEach(<<e.then, e.elsy>>, c.scopes, builtins)
    IN  IF ~c.ok THEN Unsuccessful(c, e)
        ELSE IF ~TypesEqual(c.sexpr.type, LookupType(builtins, BoolType)) THEN Failed(e, c.scopes)
        ELSE IF ~bs.ok THEN Unsuccessful(bs, e)
        ELSE IF ~TypesEqual(bs.sexpr[1].type, bs.sexpr[2].type) THEN Failed(e, bs.scopes)
        ELSE Accepted([e EXCEPT !.cond = c.sexpr, !.then = bs.sexpr[1],
                                !.elsy = bs.sexpr[2], !.type = bs.sexpr[1].type], bs.scopes)

\* Comparisons and logical operators pass with the type Bool, be it NULL.  No
\* operation is in, whose case nothing reaches.  infix_ops[-1] is another field.
CheckInfix(e, s, builtins) ==
    LET bs == CheckEach(<<e.left, e.right>>, s, builtins)
        l == bs.sexpr[1]
        r == bs.sexpr[2]
        Typed(t) == [e EXCEPT !.left = l, !.right = r, !.type = t]
        bool == LookupType(builtins, BoolType)
    IN  IF ~bs.ok THEN Unsuccessful(bs, e)
        ELSE CASE e.op = "<" -> Accepted(Typed(bool), bs.scopes)
               [] e.op \in {"and", "or", "xor"} ->
                     IF TypesEqual(l.type, bool) /\ TypesEqual(r.type, bool)
                     THEN Accepted(Typed(bool), bs.scopes) ELSE Failed(e, bs.scopes)
               [] e.op = "none" -> Undefined(e, bs.scopes)
               [] OTHER -> Passed(Typed(LookupInfix(builtins, e.op, l.type, r.type)), bs.scopes)

\* Unary *, the span, makes a curry of a product.
CheckPrefix(e, s, builtins) ==
    LET x == Checks(e.operand, s, builtins)
        Typed(t) == [e EXCEPT !.operand = x.sexpr, !.type = t]
    IN  IF ~x.ok THEN Unsuccessful(x, e)
        ELSE IF e.op = "neg" THEN Passed(Typed(LookupPrefix(builtins, x.sexpr.type)), x.scopes)
        ELSE IF x.sexpr.type = NoType THEN Undefined(e, x.scopes)
        ELSE IF x.sexpr.type.kind # "PRODUCT" THEN Failed(e, x.scopes)
        ELSE Accepted(Typed(Curry(x.sexpr.type.fields)), x.scopes)

Check(e, s, builtins) ==
    CASE e.tag \in Literals ->
            Accepted([e EXCEPT !.type = LookupType(builtins, Primitive(e.tag))], s)
      [] e.tag = "symbol" -> Passed([e EXCEPT !.type = LookupVarType(s, e.name)], s)
      [] e.tag = "assign" -> CheckAssign(e, s, builtins)
      [] e.tag = "declare" -> Accepted(e, Bind(s, e.name, e.type))
      [] e.tag = "local_scope" -> CheckLocalScope(e, s, builtins)
      [] e.tag = "if" -> CheckIf(e, s, builtins)
      [] e.tag = "infix" -> CheckInfix(e, s, builtins)
      [] e.tag = "prefix" -> CheckPrefix(e, s, builtins)
      [] OTHER -> Failed(e, s)
=============================================================================
