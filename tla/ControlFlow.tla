---------------------------- MODULE ControlFlow -----------------------------
(***************************************************************************)
(* The basic blocks codegen.c spreads one function over.  Building an      *)
(* expression moves the builder from block to block; the code remembers    *)
(* blocks and values across recursive calls that move it on, and env holds *)
(* its own idea of the current block and the stack of local variables.     *)
(*                                                                         *)
(* The program is not fixed in advance: wherever build_expression is       *)
(* called the model chooses what S expression it is called on, so that     *)
(* every program within the bounds is built.  A value is the block it is   *)
(* computed in, or Constant.                                               *)
(***************************************************************************)
EXTENDS Integers, Sequences, FiniteSets, SequencesExt

CONSTANTS Locals,    \* the names `with' binds
          MaxBlocks, \* bound: no branch is begun that takes more blocks
          MaxDepth,  \* bound: how deep expressions nest
          MaxRoots   \* bound: root S expressions of the function

ASSUME BoundsAssumption == MaxBlocks \in Nat /\ MaxDepth \in Nat /\ MaxRoots \in Nat

VARIABLES blocks,        \* how many blocks the function has; 1 is its entry
          succ,          \* the successors of each block, {} while it is open
          phis,          \* the phi nodes, with their incoming values and blocks
          uses,          \* pairs: a value, and a block with an instruction using it
          at,            \* where the builder is
          current_block, \* env->current_block
          local,         \* env->local, innermost scope last
          frames,        \* the build_expression calls under way, innermost last
          value,         \* what the last call returned, Pending while one is to run
          roots          \* root S expressions still to come, 0 at the end

vars == <<blocks, succ, phis, uses, at, current_block, local, frames, value, roots>>

Constant == 0
Pending == -1
Unbound == -1

Blocks == 1 .. blocks
NewScope == [n \in Locals |-> Unbound]

\* A call of build_expression: what it builds, how far it is, the value and the
\* two or three blocks it holds on to.
Frame(k, s, v, b, e, p) == [kind |-> k, stage |-> s, held |-> v, from |-> b,
                            elsy |-> e, post |-> p]
Begun(k) == Frame(k, "begun", Constant, 0, 0, 0)

Top == frames[Len(frames)]
Returned(k, s) == value # Pending /\ frames # <<>> /\ Top.kind = k /\ Top.stage = s
Replace(f) == frames' = [frames EXCEPT ![Len(frames)] = f]
Leave == frames' = SubSeq(frames, 1, Len(frames) - 1)

Init == /\ blocks = 1 /\ succ = <<{}>> /\ phis = {} /\ uses = {}
        /\ at = 1 /\ current_block = 1 /\ local = <<>> /\ frames = <<>>
        /\ value = Pending /\ roots = MaxRoots

\* LLVMAppendBasicBlock, n times, after closing the builder's block with a
\* branch to the blocks of s.
AppendBlocks(n, s) == /\ blocks' = blocks + n
                 /\ succ' = [b \in 1 .. blocks + n |->
                                IF b = at THEN succ[b] \cup s
                                ELSE IF b \in Blocks THEN succ[b] ELSE {}]
BranchTo(b) == succ' = [succ EXCEPT ![at] = @ \cup {b}] /\ UNCHANGED blocks
\* As MoveTo would be without the assignment to env->current_block.
MoveToBuilderOnly(b) == at' = b /\ UNCHANGED current_block
MoveTo(b) == at' = b /\ current_block' = b
Use(vs) == uses' = uses \cup {<<v, at>> : v \in vs \ {Constant}}
Phi(b, vs, bs) == phis' = phis \cup {[block |-> b, values |-> vs, incoming |-> bs]}

PushLocal == local' = Append(local, NewScope)
PopLocal == local' = SubSeq(local, 1, Len(local) - 1)

CanCall == value = Pending /\ roots > 0
CanNest == CanCall /\ Len(frames) < MaxDepth

-----------------------------------------------------------------------------
(* Expressions without subexpressions.                                     *)

Lookup(n) == LET found == {i \in DOMAIN local : local[i][n] # Unbound}
             IN  IF found = {} THEN Unbound
                 ELSE local[CHOOSE i \in found : \A j \in found : j <= i][n]

BuildLiteral == /\ CanCall
                /\ value' = Constant
                /\ UNCHANGED <<blocks, succ, phis, uses, at, current_block, local, frames, roots>>

\* A local is the value it was bound to; a global is loaded where it is used.
BuildSymbol(n) == /\ CanCall
                  /\ value' = IF Lookup(n) = Unbound THEN at ELSE Lookup(n)
                  /\ UNCHANGED <<blocks, succ, phis, uses, at, current_block, local, frames,
                                 roots>>

Begin(k) == /\ CanNest
            /\ frames' = Append(frames, Begun(k))
            /\ UNCHANGED <<blocks, succ, phis, uses, at, current_block, local, value, roots>>

-----------------------------------------------------------------------------
(* Operators: build_infix, and the negative sign.                          *)

InfixLeft == /\ Returned("infix", "begun")
             /\ Replace([Top EXCEPT !.stage = "right", !.held = value])
             /\ value' = Pending
             /\ UNCHANGED <<blocks, succ, phis, uses, at, current_block, local, roots>>

PrefixOperand == /\ Returned("prefix", "begun")
                 /\ Use({value})
                 /\ value' = at
                 /\ Leave
                 /\ UNCHANGED <<blocks, succ, phis, at, current_block, local, roots>>

InfixRight == /\ Returned("infix", "right")
              /\ Use({Top.held, value})
              /\ value' = at
              /\ Leave
              /\ UNCHANGED <<blocks, succ, phis, at, current_block, local, roots>>

-----------------------------------------------------------------------------
(* and, or: the right operand gets a block of its own and a local scope.   *)

LogicLeft == /\ Returned("logic", "begun") /\ blocks + 2 <= MaxBlocks
             /\ AppendBlocks(2, {blocks + 1, blocks + 2})
             /\ Use({value})
             /\ Replace(Frame("logic", "right", value, current_block, 0, blocks + 2))
             /\ MoveTo(blocks + 1) /\ PushLocal
             /\ value' = Pending
             /\ UNCHANGED <<phis, roots>>

\* As LogicRight would be without `right_block = env->current_block'.
LogicRightStale == /\ Returned("logic", "right")
                   /\ BranchTo(Top.post)
                   /\ Phi(Top.post, <<Top.held, value>>, <<Top.from, Top.post - 1>>)
                   /\ MoveTo(Top.post) /\ PopLocal
                   /\ value' = Top.post
                   /\ Leave
                   /\ UNCHANGED <<uses, roots>>

\* As LogicRight would be with its incoming values swapped.
LogicRightSwapped == /\ Returned("logic", "right")
                     /\ BranchTo(Top.post)
                     /\ Phi(Top.post, <<value, Top.held>>, <<Top.from, current_block>>)
                     /\ MoveTo(Top.post) /\ PopLocal
                     /\ value' = Top.post
                     /\ Leave
                     /\ UNCHANGED <<uses, roots>>

LogicRight == /\ Returned("logic", "right")
              /\ BranchTo(Top.post)
              /\ Phi(Top.post, <<Top.held, value>>, <<Top.from, current_block>>)
              /\ MoveTo(Top.post) /\ PopLocal
              /\ value' = Top.post
              /\ Leave
              /\ UNCHANGED <<uses, roots>>

-----------------------------------------------------------------------------
(* if: each branch gets a block of its own and a local scope.              *)

\* As IfCondition would be if the else block were not kept.
IfConditionNoElse == /\ Returned("if", "begun") /\ blocks + 3 <= MaxBlocks
                     /\ AppendBlocks(3, {blocks + 1, blocks + 2})
                     /\ Use({value})
                     /\ Replace(Frame("if", "then", Constant, 0, 0, blocks + 3))
                     /\ MoveTo(blocks + 1) /\ PushLocal
                     /\ value' = Pending
                     /\ UNCHANGED <<phis, roots>>

IfCondition == /\ Returned("if", "begun") /\ blocks + 3 <= MaxBlocks
               /\ AppendBlocks(3, {blocks + 1, blocks + 2})
               /\ Use({value})
               /\ Replace(Frame("if", "then", Constant, 0, blocks + 2, blocks + 3))
               /\ MoveTo(blocks + 1) /\ PushLocal
               /\ value' = Pending
               /\ UNCHANGED <<phis, roots>>

IfThen == /\ Returned("if", "then")
          /\ BranchTo(Top.post)
          /\ Replace([Top EXCEPT !.stage = "else", !.held = value, !.from = current_block])
          /\ MoveTo(Top.elsy) /\ local' = [local EXCEPT ![Len(local)] = NewScope]
          /\ value' = Pending
          /\ UNCHANGED <<phis, uses, roots>>

IfElse == /\ Returned("if", "else")
          /\ BranchTo(Top.post)
          /\ Phi(Top.post, <<Top.held, value>>, <<Top.from, current_block>>)
          /\ MoveTo(Top.post) /\ PopLocal
          /\ value' = Top.post
          /\ Leave
          /\ UNCHANGED <<uses, roots>>

-----------------------------------------------------------------------------
(* with: assignments, one after the other, in a scope they fill.           *)

\* Declarations among the assignments build nothing: there may be none to build.
BeginWith(s) ==
    /\ CanNest
    /\ frames' = Append(frames, Frame("with", s, Constant, 0, 0, 0))
    /\ PushLocal
    /\ UNCHANGED <<blocks, succ, phis, uses, at, current_block, value, roots>>

\* build_assignment: the value goes to the scope; then the next assignment, or
\* the expression itself, is to be built.
WithAssign(n, s) == /\ Returned("with", "begun")
                    /\ local' = [local EXCEPT ![Len(local)][n] = value]
                    /\ Replace([Top EXCEPT !.stage = s])
                    /\ value' = Pending
                    /\ UNCHANGED <<blocks, succ, phis, uses, at, current_block, roots>>

\* As WithValue would be without pop_llvm_scope.
WithValueNoPop == /\ Returned("with", "value")
                  /\ Leave
                  /\ UNCHANGED <<blocks, succ, phis, uses, at, current_block, local, value, roots>>

WithValue == /\ Returned("with", "value")
             /\ PopLocal
             /\ Leave
             /\ UNCHANGED <<blocks, succ, phis, uses, at, current_block, value, roots>>

-----------------------------------------------------------------------------
\* generate_code: a root S expression is built and its value stored, in a global
\* or in repl.last; after the last one the function returns.
FinishRoot == /\ value # Pending /\ frames = <<>>
              /\ Use({value})
              /\ value' = Pending /\ roots' = roots - 1
              /\ UNCHANGED <<blocks, succ, phis, at, current_block, local, frames>>

Calls == \/ BuildLiteral
         \/ \E n \in Locals : BuildSymbol(n)
         \/ \E s \in {"begun", "value"} : BeginWith(s)
         \/ \E k \in {"prefix", "infix", "logic", "if"} : Begin(k)

Returns == \/ PrefixOperand \/ InfixLeft \/ InfixRight \/ LogicLeft \/ LogicRight
           \/ IfCondition \/ IfThen \/ IfElse \/ WithValue \/ FinishRoot
           \/ \E n \in Locals, s \in {"begun", "value"} : WithAssign(n, s)

Next == Calls \/ Returns
Spec == Init /\ [][Next]_vars
-----------------------------------------------------------------------------
(* Properties.                                                             *)

TypeOK ==
    /\ blocks \in Nat \ {0} /\ succ \in [Blocks -> SUBSET Blocks]
    /\ at \in Blocks /\ current_block \in Blocks
    /\ \A p \in phis : p.block \in Blocks /\ p.values \in Seq(Nat) /\ p.incoming \in Seq(Blocks)
    /\ uses \subseteq Blocks \X Blocks
    /\ local \in Seq([Locals -> {Unbound, Constant} \cup Blocks])
    /\ value \in {Pending, Constant} \cup Blocks
    /\ roots \in 0 .. MaxRoots

\* The builder and env->current_block, which are moved by separate statements
\* (codegen.c:202-210, :236-238, :299-317), are at the same block whenever a call
\* begins or returns, and that block has no terminator yet: no instruction ever
\* lands behind a branch, and no block is closed twice.
BuilderInOpenBlock == at = current_block /\ succ[at] = {}

AtRoot == frames = <<>>

\* env->local is NULL again between root S expressions (so an assignment there
\* makes a global and not a local, codegen.c:335), and no block but the builder's
\* is left without a terminator.
RootsStartClean == AtRoot => local = <<>> /\ \A b \in Blocks \ {at} : succ[b] # {}

Preds(b) == {p \in Blocks : b \in succ[p]}

\* The blocks a phi names, as remembered across the calls that built its values
\* (codegen.c:191-212, :223-244, :287-321), are exactly the predecessors of the
\* phi's block, each once: what LLVM demands of a phi node.
PhisMatchPredecessors ==
    AtRoot => \A p \in phis : /\ ToSet(p.incoming) = Preds(p.block)
                              /\ p.incoming[1] # p.incoming[2]

\* The blocks that can be reached from the entry without passing through d.
ReachableAvoiding(d) ==
    LET reach[k \in Nat] ==
            IF k = 0 THEN {1} \ {d}
            ELSE reach[k - 1] \cup ((UNION {succ[b] : b \in reach[k - 1]}) \ {d})
    IN  reach[blocks]

Dominates(d, b) == d = Constant \/ b \notin ReachableAvoiding(d)

\* A local bound in one branch is never visible where that branch may not have
\* run: every value an instruction uses is computed on every path to it, and every
\* value a phi takes on every path to the block it takes it from.
ValuesDominateUses ==
    AtRoot => /\ \A u \in uses : Dominates(u[1], u[2])
              /\ \A p \in phis : \A i \in 1 .. 2 : Dominates(p.values[i], p.incoming[i])
=============================================================================
