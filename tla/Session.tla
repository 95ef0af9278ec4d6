------------------------------ MODULE Session -------------------------------
(***************************************************************************)
(* The read-eval-print loop of main.c: one root scope and one header       *)
(* module live through the session, and every chunk of input goes through  *)
(* the checker, the code generator and the JIT, which sees the globals of  *)
(* the header module at the slots of the global_vals array.                *)
(*                                                                         *)
(* Checks and Builds are the checker and the code generator on one S       *)
(* expression; Computes runs the code of one LLVM value, whose loads read  *)
(* the globals Reads gives.                                                *)
(*                                                                         *)
(* status tells what happens to the process: "undefined" once it has acted *)
(* on a NULL pointer or on ill-typed IR, "corrupt" once it has touched     *)
(* memory past the end of global_vals and that memory was not spare.       *)
(***************************************************************************)
EXTENDS SExpressions, FiniteSets

CONSTANTS Chunks,           \* what may be typed: sequences of root S expressions
          Composites,       \* the types they are declared with, besides the builtin ones
          ReplLast,         \* the name of the global "repl.last"
          LlvmType(_),      \* internal_type_to_llvm
          MaxLeaked         \* bound: no input is read once this many scopes leaked

ASSUME NamesAssumption == ReplLast \notin Names /\ IsFiniteSet(Names)

VARIABLES scopes,        \* the scopes of the checker, the root one first
          leaked,        \* scopes pushed and never popped
          header,        \* the globals of the header module, in list order
          global_type,   \* the LLVM type of each global, Absent without one
          ir,            \* the S expressions of the current chunk
          phase, pos,    \* where main() is, and at which S expression
          body,          \* the stores of the main function being built
          mapped,        \* the slot the engine knows each global by
          global_vals,   \* the memory at the slots of global_vals
          globals_count, \* how many of them are allocated
          printed,       \* the last value printed
          status

vars == <<scopes, leaked, header, global_type, ir, phase, pos, body, mapped,
          global_vals, globals_count, printed, status>>
process == <<ir, phase, pos, body, mapped>>
memory == <<global_vals, globals_count>>

Globals == Names \cup {ReplLast}
SlotBound == Cardinality(Names)
Types == Primitives \cup Composites
RootScopes == [Names -> Types \cup {NoType}]

\* As IsNamed would be if repl.last were taken for a variable.
IsNamedOrLast(i) == i \in DOMAIN header
IsNamed(i) == i \in DOMAIN header /\ header[i] # ReplLast
Named == {header[i] : i \in {j \in DOMAIN header : IsNamed(j)}}
Place(n) == CHOOSE i \in DOMAIN header : header[i] = n

\* The list of globals once repl.last, if it is there, has been deleted.
LastDeleted == IF \E i \in DOMAIN header : header[i] = ReplLast
               THEN RemoveAt(header, Place(ReplLast)) ELSE header

\* As Slot would be if the counter moved on at repl.last too.
SlotInList(n) == Place(n) - 1

\* The counter i of the mapping loop when it comes to n: the named globals
\* before n, repl.last having a place of its own.
Slot(n) == Cardinality({j \in 1 .. Place(n) - 1 : IsNamed(j)})

NoMapping == [n \in {} |-> 0]

Init == /\ scopes = <<[n \in Names |-> NoType]>> /\ leaked = 0
        /\ header = <<>> /\ global_type = [n \in Globals |-> Absent]
        /\ ir = <<>> /\ phase = "read" /\ pos = 0 /\ body = <<>>
        /\ mapped = NoMapping
        /\ global_vals = [i \in 0 .. SlotBound |-> NoValue] /\ globals_count = 0
        /\ printed = NoValue /\ status = "running"

In(p) == status = "running" /\ phase = p
GoTo(p, i) == phase' = p /\ pos' = i

\* Where the code's behaviour ends: nothing it does from here on is claimed.
Ends(s) == /\ status' = s
           /\ UNCHANGED <<scopes, leaked, header, global_type, process, memory, printed>>

-----------------------------------------------------------------------------
\* convert_ast_to_ir leaves NULL for syntax it does not know, which print_ir
\* follows.  Input that does not parse, or is empty, changes nothing.
ReadChunk(chunk) ==
    /\ In("read") /\ leaked < MaxLeaked
    /\ IF \E i \in DOMAIN chunk : chunk[i].tag = "unsupported" THEN Ends("undefined")
       ELSE /\ ir' = chunk /\ GoTo("check", 1)
            /\ UNCHANGED <<scopes, leaked, header, global_type, body, mapped, memory,
                           printed, status>>

\* The scopes a rejected chunk leaves; as they would be if the root scope went too,
\* or if the innermost one were taken for it.
RootAnew(stack) == <<[n \in Names |-> NoType]>>
RootInnermost(stack) == <<stack[Len(stack)]>>
RootOf(stack) == <<stack[1]>>

\* The check of one S expression, in a scope with the builtin types and operators.
Checked(e, stack) == Checks(e, stack, TRUE)

\* One turn of the loop of check_correctness.  Its `while (scope->parent)' has
\* only ever the root scope to look at, so the scopes a failed helper call
\* leaves above it are not popped; clean_ir then ends the chunk.
CheckNext ==
    /\ In("check") /\ pos \in DOMAIN ir
    /\ LET r == Checked(ir[pos], scopes)
       IN  IF r.undefined THEN Ends("undefined")
           ELSE /\ IF r.ok
                   THEN /\ scopes' = r.scopes /\ ir' = [ir EXCEPT ![pos] = r.sexpr]
                        /\ GoTo("check", pos + 1)
                        /\ UNCHANGED leaked
                   ELSE /\ scopes' = RootOf(r.scopes) /\ leaked' = leaked + Len(r.scopes) - 1
                        /\ ir' = <<>> /\ GoTo("read", 0)
                /\ UNCHANGED <<header, global_type, body, mapped, memory, printed, status>>

\* The type of the new repl.last; as it would be if one that is there were used again.
LastTypedOnce(t) == IF global_type[ReplLast] = Absent
                    THEN [global_type EXCEPT ![ReplLast] = t] ELSE global_type
LastTyped(t) == [global_type EXCEPT ![ReplLast] = t]

\* As BeginModule would be if the old repl.last were not deleted.
BeginModuleKeepLast ==
    /\ In("check") /\ pos = Len(ir) + 1
    /\ LET t == LlvmType(ir[Len(ir)].type)
       IN  IF t = "void" THEN Ends("undefined")
           ELSE /\ header' = Append(header, ReplLast)
                /\ global_type' = LastTyped(t)
                /\ body' = <<>> /\ GoTo("build", 1)
                /\ UNCHANGED <<scopes, leaked, ir, mapped, memory, printed, status>>

\* generate_code up to its loop: repl.last is made anew, of the type of the
\* chunk's last S expression, behind the globals the header already has.
BeginModule ==
    /\ In("check") /\ pos = Len(ir) + 1
    /\ LET t == LlvmType(ir[Len(ir)].type)
       IN  IF t = "void" THEN Ends("undefined")
           ELSE /\ header' = Append(LastDeleted, ReplLast)
                /\ global_type' = LastTyped(t)
                /\ body' = <<>> /\ GoTo("build", 1)
                /\ UNCHANGED <<scopes, leaked, ir, mapped, memory, printed, status>>

Instr(n, v) == [name |-> n, value |-> v]

\* llvm_save_value without a local scope: a missing global is created with the
\* type of the value, an existing one keeps the type it was created with.
SaveValue(n, v) ==
    IF global_type[n] \notin {Absent, v.type} THEN Ends("undefined")
    ELSE /\ IF global_type[n] = Absent
            THEN header' = Append(header, n) /\ global_type' = [global_type EXCEPT ![n] = v.type]
            ELSE UNCHANGED <<header, global_type>>
         /\ body' = Append(body, Instr(n, v)) /\ GoTo("build", pos + 1)
         /\ UNCHANGED <<scopes, leaked, ir, mapped, memory, printed, status>>

\* What is built of an S expression; of an assignment, what it assigns.
Operand(e) == IF e.tag = "assign" THEN e.value ELSE e
Built(e, types) == Builds(Operand(e), <<>>, types)

\* One turn of the loop of generate_code.  A value that is only printed is kept
\* in body under repl.last: whatever is last there is what main stores in it.
BuildNext ==
    /\ In("build") /\ pos \in DOMAIN ir
    /\ LET e == ir[pos]
           v == Built(e, global_type)
       IN  IF e.tag = "declare"
           THEN /\ GoTo("build", pos + 1)
                /\ UNCHANGED <<scopes, leaked, header, global_type, ir, body, mapped, memory,
                               printed, status>>
           ELSE IF v = Bad THEN Ends("undefined")
           ELSE IF e.tag = "assign" THEN SaveValue(e.name, v)
           ELSE /\ body' = Append(body, Instr(ReplLast, v)) /\ GoTo("build", pos + 1)
                /\ UNCHANGED <<scopes, leaked, header, global_type, ir, mapped, memory,
                               printed, status>>

\* generate_code stores the value built last, NULL if there is none, in
\* repl.last; then the execution engine is created, or main() returns.
FinishModule ==
    /\ In("build") /\ pos = Len(ir) + 1
    /\ IF body = <<>> THEN Ends("undefined")
       ELSE IF body[Len(body)].value.type # global_type[ReplLast] THEN Ends("undefined")
       ELSE \/ /\ GoTo("map", 0)
               /\ UNCHANGED <<scopes, leaked, header, global_type, ir, body, mapped, memory,
                              printed, status>>
            \/ Ends("exited")

\* The loop over the globals of the header module.  global_vals only grows at a
\* slot it already has, which then holds for the later ones too; it is allocated
\* with none.
MapGlobals ==
    /\ In("map")
    /\ mapped' = [n \in Named |-> Slot(n)]
    /\ globals_count' = IF globals_count = 0 THEN 0 ELSE globals_count + Cardinality(Named)
    /\ GoTo("run", 0)
    /\ UNCHANGED <<scopes, leaked, header, global_type, ir, body, global_vals, printed, status>>

Touched == {n \in Names : \E i \in DOMAIN body : n = body[i].name
                                                 \/ n \in Reads(body[i].value.term)}

\* The instructions of one S expression: its loads, and the store to its global.
Execute(r, instr) ==
    LET loaded == [n \in DOMAIN mapped |-> r.vals[mapped[n]]]
        v == [type |-> instr.value.type, term |-> Computes(instr.value.term, loaded)]
    IN  [vals |-> IF instr.name = ReplLast THEN r.vals
                  ELSE [r.vals EXCEPT ![mapped[instr.name]] = v],
         last |-> v]

\* The memory and the value computed last, once main has come to its k-th S expression.
Executed[k \in 0 .. Len(body)] ==
    IF k = 0 THEN [vals |-> global_vals, last |-> NoValue] ELSE Execute(Executed[k - 1], body[k])

\* LLVMRunFunction, which ends with the store to last_repl_val; the printing of
\* it by the checker's type of the last S expression; and the clean up.
RunMain ==
    /\ In("run")
    /\ \/ /\ LET r == Executed[Len(body)]
              IN  /\ global_vals' = r.vals
                  /\ printed' = [type |-> ir[Len(ir)].type.name, term |-> r.last.term]
          /\ GoTo("read", 0) /\ ir' = <<>> /\ body' = <<>> /\ mapped' = NoMapping
          /\ UNCHANGED <<scopes, leaked, header, global_type, globals_count, status>>
       \/ /\ \E n \in Touched : mapped[n] >= globals_count
          /\ Ends("corrupt")

\* :q, :quit or the end of the input.
Quit == In("read") /\ Ends("exited")

Next == \/ \E chunk \in Chunks : ReadChunk(chunk)
        \/ CheckNext \/ BeginModule \/ BuildNext \/ FinishModule
        \/ MapGlobals \/ RunMain \/ Quit

Spec == Init /\ [][Next]_vars
-----------------------------------------------------------------------------
(* What the session needs of the parts it calls, where SExprs are the S expressions  *)
(* they pass on: a chunk that parses has a statement; a check that succeeds leaves   *)
(* one root scope and an S expression; and what is built, if it can be, has a type.  *)

Contract(SExprs) ==
    /\ \A chunk \in Chunks : \/ chunk \in Seq(SExprs) \ {<<>>}
                             \/ \E i \in DOMAIN chunk : chunk[i].tag = "unsupported"
    /\ \A e \in SExprs, root \in RootScopes :
          LET r == Checked(e, <<root>>)
          IN  /\ r.scopes \in Seq(RootScopes) \ {<<>>}
              /\ r.ok => r.sexpr \in SExprs /\ r.scopes = <<r.scopes[1]>>
    /\ \A e \in SExprs : /\ LlvmType(e.type) \in LlvmTypes \cup {"void"}
                         /\ e.tag = "assign" => e.name \in Names
    /\ \A e \in SExprs, types \in [Globals -> LlvmTypes \cup {Absent}] :
          e.tag = "assign" => Built(e, types) = Bad \/ Built(e, types).type \in LlvmTypes

\* What they have in common, as types of the variables and of their globals.
Agree(root, types) == \A n \in Names :
    types[n] = IF root[n] = NoType THEN Absent ELSE LlvmType(root[n])

\* What an assignment to a name adds to the root scope, if e is one.
Assigned(e, root) == IF e.tag = "assign" THEN [root EXCEPT ![e.name] = e.type] ELSE root

(* What makes sessions sound, where Roots are the root scopes that come up.  The   *)
(* chunks are single statements.  One that is rejected changes nothing; one that   *)
(* is not changes no variable that has a type, and the value built for it, in a    *)
(* module with the globals of the scope, has its type.                             *)

SoundIn(e, root) ==
    /\ e.tag = "assign" => root[e.name] \in {NoType, e.type}
    /\ e.tag # "declare" /\ e.type # NoType /\ LlvmType(e.type) # "void"
    /\ \A types \in [Globals -> LlvmTypes \cup {Absent}] :
          Agree(root, types) => LET v == Built(e, types) IN v # Bad /\ v.type = LlvmType(e.type)

SoundContract(Roots) ==
    /\ [n \in Names |-> NoType] \in Roots /\ Roots \subseteq RootScopes
    /\ \A chunk \in Chunks : chunk = <<chunk[1]>> /\ chunk[1].tag # "unsupported"
    /\ \A chunk \in Chunks, root \in Roots :
          LET r == Checked(chunk[1], <<root>>)
          IN  /\ ~r.undefined /\ r.scopes[1] \in Roots
              /\ ~r.ok => r.scopes[1] = root
              /\ r.ok => r.scopes[1] = Assigned(r.sexpr, root) /\ SoundIn(r.sexpr, root)

\* The values of the variables, as the machine has them and as the language does.
Held == [n \in Names |-> IF n \in Named THEN global_vals[Slot(n)] ELSE NoValue]
View(m) == [n \in Names |-> [m[n] EXCEPT !.type = LanguageType(@)]]
Env == View(Held)

(* What makes a session an interpreter, where Memories are what the variables may  *)
(* hold.  A check that succeeds leaves what a statement means; and what is built   *)
(* for it, whatever globals are added meanwhile, computes what it means.           *)

\* The types of the globals that hold m.
TypesOf(m) == [n \in Globals |-> IF n \in Names /\ m[n] # NoValue THEN m[n].type ELSE Absent]

\* What the variables hold after a statement.
Result(e, m) == LET v == Built(e, TypesOf(m)) IN Value(v.type, Computes(v.term, m))
After(e, m) == IF e.tag = "assign" THEN [m EXCEPT ![e.name] = Result(e, m)] ELSE m

Alike(d, e, Memories) ==
    /\ d.tag = e.tag
    /\ e.tag = "assign" => d.name = e.name
    /\ \A m \in Memories : Means(Operand(d), <<View(m)>>) = Means(Operand(e), <<View(m)>>)

Translated(e, m, Memories) ==
    LET v == Built(e, TypesOf(m))
    IN  /\ \A t \in LlvmTypes : Built(e, [TypesOf(m) EXCEPT ![ReplLast] = t]) = v
        /\ v # Bad =>
              /\ v.type \in MachineTypes
              /\ \A D \in SUBSET Names : {n \in Names : m[n] # NoValue} \subseteq D =>
                    Value(LanguageType(v.type), Computes(v.term, [n \in D |-> m[n]]))
                    = Means(Operand(e), <<View(m)>>)
              /\ e.tag = "assign" /\ m[e.name].type \in {NoValue.type, v.type}
                    => After(e, m) \in Memories

ValueContract(SExprs, Memories) ==
    /\ [n \in Names |-> NoValue] \in Memories
    /\ \A m \in Memories : /\ m = [n \in Names |-> m[n]]
                            /\ \A n \in Names : \/ m[n] = NoValue
                                                \/ \E t \in MachineTypes : m[n] = Value(t, m[n].term)
    /\ \A e \in SExprs : /\ LlvmType(e.type) \in MachineTypes
                               => e.type.name = LanguageType(LlvmType(e.type))
                         /\ e.tag # "declare" => \A m \in Memories : Translated(e, m, Memories)
    /\ \A e \in SExprs :
          LET checks == {Checked(e, <<root>>) : root \in RootScopes}
          IN  \A d \in {r.sexpr : r \in {c \in checks : c.ok}} : Alike(d, e, Memories)

-----------------------------------------------------------------------------
(* Properties.                                                             *)

TypeOK ==
    /\ \A i \in DOMAIN scopes : scopes[i] \in RootScopes
    /\ scopes # <<>> /\ leaked \in Nat
    /\ header \in Seq(Globals)
    /\ global_type \in [Globals -> LlvmTypes \cup {Absent}]
    /\ phase \in {"read", "check", "build", "map", "run"} /\ pos \in 0 .. Len(ir) + 1
    /\ DOMAIN mapped \subseteq Names
    /\ DOMAIN global_vals = 0 .. SlotBound /\ globals_count \in Nat
    /\ status \in {"running", "exited", "undefined", "corrupt"}

\* The list of globals the mapping loop walks holds every global the module has,
\* once: deleting and re-adding repl.last (codegen.c:494-499) and creating globals
\* as they are assigned to (:338-352) keep list and symbol table in step.
HeaderSound == /\ \A i, j \in DOMAIN header : header[i] = header[j] => i = j
               /\ \A n \in Globals : global_type[n] # Absent <=> n \in {header[i] : i \in DOMAIN header}

\* The mapping loop numbers the globals anew for every chunk (main.c:183-198), in
\* a list that is edited between chunks; a variable still never moves to another
\* slot of global_vals, where it would find another variable's value.
SlotsStable == [][\A n \in Names : n \in Named => n \in Named' /\ Slot(n)' = Slot(n)]_vars

I == INSTANCE Interpreter WITH env <- Env, shown <- printed

\* The session is an interpreter of the chunks it executes, as far as what it
\* does is defined: variables keep their values from chunk to chunk, the ones of
\* a `with' are gone after it, a rejected chunk changes no value, and the value
\* printed is that of the chunk's last statement, with its type.
ImplementsInterpreter == I!InterpreterSpec

\* main.c:158 says "Build the LLVM IR if it's correct code": code that passes the
\* check can be built, no name it reads is without a global, and no instruction
\* gets operands of the wrong type.
CheckedCodeBuilds == status # "undefined"

\* Between chunks the checker and the code generator know the same variables,
\* with the same types.
NamesAgree == phase = "read" => Agree(scopes[1], global_type)

\* design.curly:2 says "a variable must remain the same type through its lifetime".
TypesFixed == [][\A n \in Names : scopes[1][n] # NoType => scopes'[1][n] = scopes[1][n]]_vars

\* The variables that a chunk's S expression declares outside of a `with'.
DeclaredBy(e) == CASE e.tag = "declare" -> {e.name}
                   [] e.tag = "if" -> {d.name : d \in {x \in {e.then, e.elsy} : x.tag = "declare"}}
                   [] OTHER -> {}

\* Where variables are declared (check.c:69), they do change their types, whatever
\* code built earlier takes them for.  Nothing else in a session does it: no
\* assignment, no declaration that is local to a `with', and not the end of one that
\* fails with its scope still pushed (:76-81).
RetypedByDeclaring == [][\A n \in Names : scopes[1][n] \notin {NoType, scopes'[1][n]}
                            => phase = "check" /\ n \in DeclaredBy(ir[pos])]_vars

\* check.c:54 says "Assert the type is empty or matches": an assignment that passes
\* has the type it was annotated with.
AnnotationsHold == phase = "check" => \A i \in DOMAIN ir :
                      /\ i < pos /\ ir[i].tag = "assign" /\ ir[i].annotation # NoType
                      => ir[i].type = ir[i].annotation
=============================================================================
