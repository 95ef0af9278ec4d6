---------------------------- MODULE SExpressions ----------------------------
(***************************************************************************)
(* The S expressions of ir/generate_ir.h, which the checker annotates with *)
(* types and the code generator turns into LLVM IR.  An S expression is a  *)
(* record with its tag, its type (NoType until the checker has been there) *)
(* and the fields of its tag.                                              *)
(*                                                                         *)
(* Operators are classes of operators: "+" stands for + - * /, "%" for %   *)
(* << >> & | ^, "<" for the six comparisons; and, or and xor are their     *)
(* own; "none" is the -1 of `in' and `.'.  A literal is a string, which    *)
(* nothing looks into.  The tag of a literal is the name of its builtin    *)
(* type, as is the type of a value.                                        *)
(***************************************************************************)
EXTENDS CurlyTypes, SequencesExt

CONSTANT Names  \* the symbols programs use

(* The passes over S expressions call themselves for the parts of one.  Each such   *)
(* call goes through one of these operators, to which a model gives the pass        *)
(* itself for its value, so that no definition is recursive, and what is proved     *)
(* of a pass is proved from what it does with what it gets for the parts.           *)
CONSTANTS Checks(_, _, _),  \* check_correctness_helper: Checker!Check
          Builds(_, _, _),  \* build_expression: Codegen!Build
          Computes(_, _),   \* the JIT on a term and the memory it loads from: Codegen!Evaluate
          Reads(_),         \* the globals a term loads: Codegen!Loads
          Means(_, _)       \* the meaning of an S expression: Semantics!Meaning

Literals == {"Int", "Float", "Bool"}

-----------------------------------------------------------------------------
(* convert_ast_node.                                                       *)

Literal(t, l) == [tag |-> t, type |-> NoType, literal |-> l]
Symbol(n) == [tag |-> "symbol", type |-> NoType, name |-> n]
Infix(o, l, r) == [tag |-> "infix", type |-> NoType, op |-> o, left |-> l, right |-> r]
Prefix(o, x) == [tag |-> "prefix", type |-> NoType, op |-> o, operand |-> x]
With(as, v) == [tag |-> "local_scope", type |-> NoType, assigns |-> as, value |-> v]
If(c, t, e) == [tag |-> "if", type |-> NoType, cond |-> c, then |-> t, elsy |-> e]
Declare(n, t) == [tag |-> "declare", type |-> t, name |-> n]
Func == [tag |-> "func", type |-> NoType]

\* name: annotation = v, where the annotation may be absent or name no type.
AssignTyped(n, a, v) == [tag |-> "assign", type |-> a, annotation |-> a, name |-> n, value |-> v]
Assign(n, v) == AssignTyped(n, NoType, v)

\* Syntax for which convert_ast_node returns NULL or leaves the tag unset.
Unsupported == [tag |-> "unsupported", type |-> NoType]
-----------------------------------------------------------------------------
(* Values: the type a value has, and the term that says how it is computed.*)

Const(l) == [op |-> "const", literal |-> l, args |-> <<>>]
Load(n) == [op |-> "load", literal |-> n, args |-> <<>>]
Term(o, as) == [op |-> o, literal |-> "", args |-> as]

Value(t, x) == [type |-> t, term |-> x]
NoValue == Value("NULL", Const("none"))
Bad == Value("bad", Const("none"))   \* what no sound LLVM value is

MachineTypes == {"i64", "double", "i1"}
LlvmTypes == MachineTypes \cup {"func.app.type"}

\* The builtin type of the values of a machine type.
LanguageType(t) == CASE t = "i64" -> "Int" [] t = "double" -> "Float" [] t = "i1" -> "Bool"
                     [] OTHER -> "NULL"

Absent == "absent"  \* the type of a global the header module does not have

(* Stacks of scopes, each a function from names, innermost scope last.     *)

\* The innermost scope that has n, where absent names have the value none.
Innermost(stack, n, none) ==
    LET found == {i \in DOMAIN stack : stack[i][n] # none}
    IN  IF found = {} THEN 0 ELSE CHOOSE i \in found : \A j \in found : j <= i

Bind(stack, n, x) == [stack EXCEPT ![Len(stack)][n] = x]
=============================================================================
