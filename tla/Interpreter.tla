----------------------------- MODULE Interpreter ----------------------------
(***************************************************************************)
(* What the REPL promises its user: a chunk of input, if it is executed at *)
(* all, is executed statement by statement over the variables as earlier   *)
(* chunks left them, and the value of its last statement is printed.       *)
(***************************************************************************)
EXTENDS SExpressions

CONSTANT Chunks  \* what may be typed: sequences of statements

VARIABLES env,    \* the value of every variable
          shown   \* the value printed last

\* One statement after the state r has been reached.
Step(r, stmt) ==
    CASE stmt.tag = "declare" -> r
      [] stmt.tag = "assign" ->
            LET v == Means(stmt.value, <<r.env>>)
            IN  [env |-> [r.env EXCEPT ![stmt.name] = v], value |-> v]
      [] OTHER -> [r EXCEPT !.value = Means(stmt, <<r.env>>)]

\* The state after the first k statements of chunk.
Run(chunk) ==
    LET r[k \in 0 .. Len(chunk)] ==
            IF k = 0 THEN [env |-> env, value |-> NoValue] ELSE Step(r[k - 1], chunk[k])
    IN  r

Execute(chunk) ==
    LET last == Run(chunk)[Len(chunk)]
    IN  env' = last.env /\ shown' = last.value

InterpreterInit == env = [n \in Names |-> NoValue] /\ shown = NoValue
InterpreterNext == \E chunk \in Chunks : Execute(chunk)
InterpreterSpec == InterpreterInit /\ [][InterpreterNext]_<<env, shown>>
=============================================================================
