----------------------------- MODULE Dictionary -----------------------------
(***************************************************************************)
(* What utils/hashmap.h promises its callers: a map from keys to values.   *)
(* A key is bound by Put, unbound by Remove, and Get, Contains and KeyList *)
(* report the bindings without changing them.  As in map_get, NULL is both *)
(* a value that can be stored and the answer for a key that is not there.  *)
(***************************************************************************)
CONSTANTS Keys,    \* the strings used as keys
          Values,  \* the void* values, Null among them
          Null     \* the NULL pointer

VARIABLES dict,    \* the bindings: a function from the bound keys to values
          reply    \* the last operation, the key it was about, and the value it
                   \* was given or returned

dictVars == <<dict, reply>>

Answer(o, k, r) == [op |-> o, key |-> k, out |-> r]
NoAnswer == Answer("none", Null, Null)

Bound == DOMAIN dict

DictInit == /\ dict = [k \in {} |-> Null]
            /\ reply = NoAnswer

Put(k, v) == /\ dict' = [x \in Bound \cup {k} |-> IF x = k THEN v ELSE dict[x]]
             /\ reply' = Answer("add", k, v)

Remove(k) == /\ dict' = [x \in Bound \ {k} |-> dict[x]]
             /\ reply' = Answer("remove", k, Null)

Get(k) == /\ reply' = Answer("get", k, IF k \in Bound THEN dict[k] ELSE Null)
          /\ UNCHANGED dict

Contains(k) == /\ reply' = Answer("contains", k, k \in Bound)
               /\ UNCHANGED dict

KeyList == /\ reply' = Answer("keys", Null, Bound)
           /\ UNCHANGED dict

DictNext == \/ \E k \in Keys, v \in Values : Put(k, v)
            \/ \E k \in Keys : Remove(k) \/ Get(k) \/ Contains(k)
            \/ KeyList

DictSpec == DictInit /\ [][DictNext]_dictVars
=============================================================================
