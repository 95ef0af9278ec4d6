----------------------------- MODULE Recursion ------------------------------
(***************************************************************************)
(* The passes as the values of the constants through which they call       *)
(* themselves: with these, TLC runs the recursion of the code.  A LET ends *)
(* the walk of TLC's coverage into the value of a constant, which would    *)
(* otherwise follow the calls in a circle.                                 *)
(***************************************************************************)
EXTENDS Checker, Codegen, Semantics

CallCheck(e, stack, builtins) == LET r == Check(e, stack, builtins) IN r
CallTypeSubtype(super, sub) == LET r == TypeSubtype(super, sub) IN r
CallTypesEqual(t1, t2) == LET r == TypesEqual(t1, t2) IN r
CallBuild(e, local, globals) == LET r == Build(e, local, globals) IN r
CallEvaluate(x, mem) == LET r == Evaluate(x, mem) IN r
CallLoads(x) == LET r == Loads(x) IN r
CallMeaning(e, env) == LET r == Meaning(e, env) IN r
=============================================================================
