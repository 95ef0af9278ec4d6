------------------------------- MODULE Compile -------------------------------
(***************************************************************************)
(* One source text through the compiler: parser, IR generation, checker    *)
(* and, for a file, code generation and execution; the other branch of     *)
(* main.c.  A chunk of the REPL takes the same way to the end of the check, *)
(* with a scope that has the builtin types from the start; Session has the *)
(* rest of it.  A file is converted with an empty scope and checked with   *)
(* another one, which create_primatives fills only if no type exists yet.  *)
(***************************************************************************)
EXTENDS GenerateIR, Checker, Codegen, Semantics

CONSTANTS Programs,      \* the texts, as the sequences of trees they are written from
          SourceOf(_),   \* the tokens of a text: Grammar
          Parses(_)      \* the trees the parser makes of tokens: Parser

\* References below that call themselves go through these.
CONSTANTS TreeMeans(_, _),  \* TreeMeaning
          Within(_),        \* Subtrees
          ShapesOf(_)       \* Shapes

VARIABLES mode,        \* "repl" or "file"
          written,     \* the program
          source,      \* its text, token by token
          tree,        \* its root as parsed
          ir,          \* the S expressions of the root
          types_made,  \* the length of the list of all types
          builtins,    \* the root scope of the check has the builtin types
          scopes,      \* the scopes of the check
          global_type, \* the LLVM type of each global, Absent without one
          body,        \* the values main computes, with the global each is stored in
          phase, pos,
          memory,      \* the value of each global
          status

vars == <<mode, written, source, tree, ir, types_made, builtins, scopes, global_type, body,
          phase, pos, memory, status>>

text == <<mode, written, source>>

PrimativesMade == 5 + 22 + 2   \* types, infix and prefix operators

Init == /\ mode \in {"repl", "file"} /\ written \in Programs
        /\ source = SourceOf(written)
        /\ tree = <<>> /\ ir = <<>>
        /\ types_made = (IF mode = "repl" THEN PrimativesMade ELSE 0)
        /\ builtins = (mode = "repl")
        /\ scopes = <<[n \in Names |-> NoType]>>
        /\ global_type = [n \in Names |-> Absent] /\ body = <<>>
        /\ phase = "parse" /\ pos = 0
        /\ memory = [n \in Names |-> NoValue] /\ status = "running"

In(p) == status = "running" /\ phase = p
GoTo(p, i) == phase' = p /\ pos' = i
Ends(s) == /\ status' = s
           /\ UNCHANGED <<text, tree, ir, types_made, builtins, scopes, global_type,
                          body, phase, pos, memory>>

ParseSource ==
    /\ In("parse")
    /\ LET r == Parses(source)
       IN  IF ~r.ok \/ (mode = "repl" /\ r.kids = <<>>) THEN Ends("rejected")
           ELSE /\ tree' = r.kids /\ GoTo("convert", 1)
                /\ UNCHANGED <<text, ir, types_made, builtins, scopes, global_type, body,
                               memory, status>>

\* One turn of convert_ast_to_ir.  What it cannot convert crashes at once, or in
\* print_ir after the last turn.
ConvertNext ==
    /\ In("convert") /\ pos \in DOMAIN tree
    /\ LET c == Convert(tree[pos], mode = "repl", types_made)
       IN  IF ~c.ok THEN Ends("undefined")
           ELSE /\ ir' = Append(ir, c.sexpr) /\ types_made' = c.made
                /\ GoTo("convert", pos + 1)
                /\ UNCHANGED <<text, tree, builtins, scopes, global_type, body, memory, status>>


\* check_correctness up to its loop.
BeginCheck ==
    /\ In("convert") /\ pos = Len(tree) + 1
    /\ IF types_made = 0 THEN builtins' = TRUE /\ types_made' = PrimativesMade
       ELSE UNCHANGED <<builtins, types_made>>
    /\ GoTo("check", 1)
    /\ UNCHANGED <<text, tree, ir, scopes, global_type, body, memory, status>>

CheckNext ==
    /\ In("check") /\ pos \in DOMAIN ir
    /\ LET r == Check(ir[pos], scopes, builtins)
       IN  IF r.undefined THEN Ends("undefined")
           ELSE IF ~r.ok THEN Ends("rejected")
           ELSE /\ scopes' = r.scopes /\ ir' = [ir EXCEPT ![pos] = r.sexpr]
                /\ GoTo("check", pos + 1)
                /\ UNCHANGED <<text, tree, types_made, builtins, global_type, body, memory, status>>

EndCheck ==
    /\ In("check") /\ pos = Len(ir) + 1
    /\ GoTo(IF mode = "file" THEN "build" ELSE "session", 1)
    /\ UNCHANGED <<text, tree, ir, types_made, builtins, scopes, global_type, body, memory, status>>

\* llvm_save_value in a module of its own: a new global starts as an i64, whatever
\* its type; LLVM may or may not refuse that.
SaveGlobal(n, v) ==
    \/ /\ global_type[n] \in {Absent, v.type}
       /\ global_type' = [global_type EXCEPT ![n] = v.type]
       /\ body' = Append(body, [name |-> n, value |-> v]) /\ GoTo("build", pos + 1)
       /\ UNCHANGED <<text, tree, ir, types_made, builtins, scopes, memory, status>>
    \/ /\ global_type[n] # v.type
       /\ global_type[n] = Absent => v.type # "i64"
       /\ Ends("undefined")

BuildNext ==
    /\ In("build") /\ pos \in DOMAIN ir
    /\ LET e == ir[pos]
           v == Build(IF e.tag = "assign" THEN e.value ELSE e, <<>>, global_type)
       IN  IF e.tag # "declare" /\ v = Bad THEN Ends("undefined")
           ELSE IF e.tag = "assign" THEN SaveGlobal(e.name, v)
           ELSE /\ GoTo("build", pos + 1)
                /\ UNCHANGED <<text, tree, ir, types_made, builtins, scopes, global_type, body,
                               memory, status>>

Store(m, instr) == [m EXCEPT ![instr.name] = Value(instr.value.type, Evaluate(instr.value.term, m))]

\* The memory once all of main's stores have been made.
Stored(m, stores) ==
    LET s[k \in 0 .. Len(stores)] == IF k = 0 THEN m ELSE Store(s[k - 1], stores[k])
    IN  s[Len(stores)]

\* The JIT runs main, and the process ends.
RunFile ==
    /\ In("build") /\ pos = Len(ir) + 1
    /\ memory' = Stored(memory, body) /\ status' = "done"
    /\ UNCHANGED <<text, tree, ir, types_made, builtins, scopes, global_type, body, phase, pos>>

Next == ParseSource \/ ConvertNext \/ BeginCheck \/ CheckNext \/ EndCheck \/ BuildNext \/ RunFile

Spec == Init /\ [][Next]_vars
-----------------------------------------------------------------------------
(* The trees a program is written from: what grammar comments and the      *)
(* parser agree on.                                                        *)

Keywords == DOMAIN LiteralType \cup InfixLabels \cup {"=", ":", "with", "if"}

ASSUME KeywordsAssumption == Names \cap Keywords = {}

\* Of expressions and statements.
Grammatical(t) ==
    /\ t.label \in {"=", ":"} => Len(t.kids) = 2
    /\ t.label = ":" => t.kids[1].label \in Names
    /\ t.label = "=" => t.kids[2].label # ":"
    /\ t.label = "with" => t.kids # <<>> /\ Last(t.kids).label # ":"
    /\ t.label = "if" => Len(t.kids) = 3

\* Of types.
GrammaticalType(u) == u.label \in {"*", "|", "&", "->"} => Len(u.kids) >= 2
-----------------------------------------------------------------------------
(* The meaning of a program, read off the trees it was written from.       *)

\* The name that is assigned to, with a type or without.
NameOf(head) == IF head.label = ":" THEN head.kids[1].label ELSE head.label

\* A function is no value here.
AssignedMeaning(t, env) == IF t.kids[1].label \in Names /\ t.kids[1].kids # <<>> THEN NoValue
                    ELSE TreeMeans(t.kids[2], env)

TreeBind(env, t) == IF t.label = "=" THEN Bind(env, NameOf(t.kids[1]), AssignedMeaning(t, env)) ELSE env

\* The scopes after the statements ts.
TreesMean(ts, env) ==
    LET s[k \in 0 .. Len(ts)] == IF k = 0 THEN env ELSE TreeBind(s[k - 1], ts[k])
    IN  s[Len(ts)]

NoValues == [n \in Names |-> NoValue]

TreeMeaning(t, env) ==
    CASE t.kids = <<>> /\ t.label \in DOMAIN LiteralType -> Value(LiteralType[t.label], Const(t.label))
      [] t.kids = <<>> /\ t.label \in Names ->
            LET i == Innermost(env, t.label, NoValue) IN IF i = 0 THEN NoValue ELSE env[i][t.label]
      [] Len(t.kids) = 1 /\ t.label \in {"*", "-"} ->
            LET x == TreeMeans(t.kids[1], env)
            IN  Value(x.type, Term(IF t.label = "-" THEN "neg" ELSE "span", <<x.term>>))
      [] Len(t.kids) = 2 /\ t.label \in InfixLabels ->
            LET l == TreeMeans(t.kids[1], env)
                r == TreeMeans(t.kids[2], env)
                o == OperatorOf(t.label)
            IN  Value(OperatorType(o, l, r), Term(o, Promote(l, r)))
      [] t.label = "with" -> TreeMeans(Last(t.kids), TreesMean(Front(t.kids), Append(env, NoValues)))
      [] t.label = "if" ->
            LET c == TreeMeans(t.kids[1], env)
                x == TreeMeans(t.kids[2], env)
                y == TreeMeans(t.kids[3], env)
            IN  Value(x.type, Term("if", <<c.term, x.term, y.term>>))
      [] OTHER -> NoValue

ProgramMeaning == TreesMean(written, <<NoValues>>)[1]

LanguageValue(v) == [v EXCEPT !.type = LanguageType(@)]

\* From text to memory: a file that runs to its end leaves in every variable what
\* its text says, through parser, IR generation, checker, code generator and JIT.
RunsAsMeant == status = "done" => \A n \in Names : LanguageValue(memory[n]) = ProgramMeaning[n]
-----------------------------------------------------------------------------
(* Types.                                                                  *)

Shape(kind, name, parts) == [kind |-> kind, name |-> name, parts |-> parts]

\* The values of a union are those of its alternatives; those of another type have
\* a value of each field.  (A function counts as a pair.)
Shapes(t) ==
    IF t.kind = "UNION" THEN UNION {ShapesOf(t.fields[i]) : i \in DOMAIN t.fields}
    ELSE {Shape(t.kind, t.name, parts) :
             parts \in {p \in [DOMAIN t.fields -> UNION {ShapesOf(t.fields[i]) : i \in DOMAIN t.fields}] :
                           \A i \in DOMAIN t.fields : p[i] \in ShapesOf(t.fields[i])}}

\* The statements that have been through the check.
HasPassed(i) == phase \in {"build", "session"} \/ (phase = "check" /\ i < pos)

\* An assignment the checker lets through cannot put into a variable what its type
\* does not allow: every shape of the value's type is one of the variable's.
AssignmentsAdmitted ==
    \A i \in DOMAIN ir :
       (HasPassed(i) /\ ir[i].tag = "assign") => Shapes(ir[i].value.type) \subseteq Shapes(ir[i].type)

\* A tree and the trees in it.
Subtrees(t) == {t} \cup UNION {Within(t.kids[i]) : i \in DOMAIN t.kids}

\* t writes a type that is not a name alone.
MakesType(t) == \E u \in Subtrees(t) : u.label = ":" /\ u.kids[2].kids # <<>>

\* t has an if with a declaration for its value: branches are statements, and those
\* of the same type, be it NULL.
DeclaresInBranch(t) == \E u \in Subtrees(t) : u.label = "if" /\ u.kids[2].label = ":"

\* Types are found in whichever scope the check runs in: what passes it has a type,
\* so that the code generator may look into it, except in a file that makes a type
\* before create_primatives does.
CheckedIsTyped ==
    phase \in {"build", "session"} =>
       \A i \in DOMAIN ir :
          \/ ir[i].type # NoType
          \/ ir[i].tag = "declare" \/ DeclaresInBranch(written[i])
          \/ mode = "file" /\ \E j \in DOMAIN written : MakesType(written[j])


TypeOK ==
    /\ mode \in {"repl", "file"} /\ types_made \in Nat /\ builtins \in BOOLEAN
    /\ Len(ir) <= Len(tree)
    /\ DOMAIN scopes = {1} /\ DOMAIN scopes[1] = Names
    /\ global_type \in [Names -> {"i64", "double", "i1", Absent}]
    /\ phase \in {"parse", "convert", "check", "build", "session"} /\ pos \in 0 .. Len(tree) + 1
    /\ status \in {"running", "rejected", "undefined", "done"}
=============================================================================
