------------------------------ MODULE Codegen -------------------------------
(***************************************************************************)
(* The LLVM IR codegen.c builds for one S expression, as data flow: an     *)
(* LLVMValueRef is its LLVM type and the term that computes it.  (The      *)
(* basic blocks it is spread over are the subject of ControlFlow.)         *)
(*                                                                         *)
(* Bad is what comes of a NULL value, or of an instruction whose operands  *)
(* have types it does not take: LLVM dereferences NULL, or goes on with IR *)
(* that means nothing.                                                     *)
(***************************************************************************)
EXTENDS SExpressions

NoLocal == NoValue

InternalTypeToLlvm(t) == CASE t = IntType -> "i64"
                           [] t = FloatType -> "double"
                           [] t = BoolType -> "i1"
                           [] t.kind = "FUNC" -> "func.app.type"
                           [] OTHER -> "void"

\* An instruction of type t over the operands vs, which must all have type p.
Instruction(t, o, vs, p) == IF \A i \in DOMAIN vs : vs[i].type = p
                            THEN Value(t, Term(o, [i \in DOMAIN vs |-> vs[i].term])) ELSE Bad

\* LLVMBuildSIToFP on the operand v when the checker says it is an Int and the
\* other operand a Float.  The types are looked at without a check for NULL.
Cast(v, type, other) == IF NoType \in {type, other} THEN Bad
                        ELSE IF type = IntType /\ other = FloatType
                        THEN Instruction("double", "sitofp", <<v>>, "i64") ELSE v

\* build_infix, given the values of its operands; lt and rt are their types.
BuildInfix(e, left, right) ==
    LET lt == e.left.type
        rt == e.right.type
        vs == IF e.op \in {"and", "or"} THEN <<left, right>>
              ELSE <<Cast(left, lt, rt), Cast(right, rt, lt)>>
        number == IF e.type = IntType THEN "i64" ELSE "double"
    IN  CASE e.op = "+" -> Instruction(number, e.op, vs, number)
          [] e.op = "%" -> Instruction("i64", e.op, vs, "i64")
          [] e.op = "<" -> Instruction("i1", e.op, vs,
                                       IF {lt, rt} = {IntType} THEN "i64" ELSE "double")
          [] e.op = "none" -> Bad
          [] OTHER -> Instruction("i1", e.op, vs, "i1")

\* build_assignment in a local scope; a value that is Bad stays so.
SaveLocal(local, n, v) == IF local[Len(local)][n] = Bad THEN local ELSE Bind(local, n, v)

NoLocals == [n \in Names |-> NoLocal]

\* The scope that the assignments of a local scope fill.
BuildAssigns(assigns, local, globals) ==
    LET s[k \in 0 .. Len(assigns)] ==
            IF k = 0 THEN Append(local, NoLocals)
            ELSE IF assigns[k].tag = "assign"
            THEN SaveLocal(s[k - 1], assigns[k].name, Builds(assigns[k].value, s[k - 1], globals))
            ELSE s[k - 1]
    IN  s[Len(assigns)]

\* build_expression: local is the stack of env->local, innermost last, and
\* globals gives the LLVM type of each global of the header module.
Build(e, local, globals) ==
    CASE e.tag \in Literals ->
            Value(InternalTypeToLlvm(Primitive(e.tag)), Const(e.literal))
      [] e.tag = "symbol" ->
            LET i == Innermost(local, e.name, NoLocal)
            IN  IF i # 0 THEN local[i][e.name]
                ELSE IF globals[e.name] = Absent THEN Bad
                ELSE Value(globals[e.name], Load(e.name))
      [] e.tag = "infix" ->
            LET left == Builds(e.left, local, globals)
                inner == IF e.op \in {"and", "or"} THEN Append(local, NoLocals)
                         ELSE local
            IN  BuildInfix(e, left, Builds(e.right, inner, globals))
      [] e.tag = "prefix" /\ e.op = "neg" ->
            LET number == IF e.operand.type = IntType THEN "i64" ELSE "double"
            IN  Instruction(number, e.op, <<Builds(e.operand, local, globals)>>, number)
      [] e.tag = "local_scope" ->
            LET built == BuildAssigns(e.assigns, local, globals)
            IN  IF \E n \in Names : built[Len(built)][n] = Bad THEN Bad
                ELSE Builds(e.value, built, globals)
      [] e.tag = "if" ->
            LET cond == Builds(e.cond, local, globals)
                inner == Append(local, NoLocals)
                then == Builds(e.then, inner, globals)
                elsy == Builds(e.elsy, inner, globals)
            IN  IF cond.type = "i1" /\ then.type = elsy.type /\ Bad \notin {then, elsy}
                THEN Value(then.type, Term("if", <<cond.term, then.term, elsy.term>>))
                ELSE Bad
      [] OTHER -> Bad
-----------------------------------------------------------------------------
(* What the JIT compiles a term to: loads read the memory of the session.  *)

Evaluate(x, mem) ==
    IF x.op = "load" THEN mem[x.literal].term
    ELSE [x EXCEPT !.args = [i \in DOMAIN x.args |-> Computes(x.args[i], mem)]]

Loads(x) == (IF x.op = "load" THEN {x.literal} ELSE {})
            \cup UNION {Reads(x.args[i]) : i \in DOMAIN x.args}
=============================================================================
