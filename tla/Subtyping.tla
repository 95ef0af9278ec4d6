------------------------------ MODULE Subtyping -----------------------------
(***************************************************************************)
(* Equality and subtyping of types.c.                                      *)
(***************************************************************************)
EXTENDS CurlyTypes

\* Both are called for the fields of types through these, whose values they are.
CONSTANTS Subsumes(_, _),  \* TypeSubtype
          Equals(_, _)     \* TypesEqual

\* As SameFields would be if the loop returned from its first turn.
SameFieldsFirst(super, sub) ==
    super.fields # <<>> => Subsumes(super.fields[1], sub.fields[1])

\* Names count only where both have one.
SameFields(super, sub) ==
    \A i \in DOMAIN super.fields :
       /\ Unnamed \in {super.names[i], sub.names[i]} \/ super.names[i] = sub.names[i]
       /\ Subsumes(super.fields[i], sub.fields[i])

\* Some alternative fits: a union is no subtype of another object with the same ones.
UnionHas(union, sub) ==
    union = sub \/ \E i \in DOMAIN union.fields : Subsumes(union.fields[i], sub)

\* Lists and generators have no syntax that makes them.
TypeSubtype(super, sub) ==
    IF NoType \in {super, sub} THEN super = sub
    ELSE IF super.kind = "UNION" THEN UnionHas(super, sub)
    ELSE /\ super.kind = sub.kind /\ Len(super.fields) = Len(sub.fields)
         /\ super.name = sub.name
         /\ SameFields(super, sub)

TypesEqual(t1, t2) ==
    IF NoType \in {t1, t2} THEN t1 = t2
    ELSE /\ t1.kind = t2.kind /\ Len(t1.fields) = Len(t2.fields)
         /\ t1.name = t2.name
         /\ \A i \in DOMAIN t1.fields : Equals(t1.fields[i], t2.fields[i])
=============================================================================
