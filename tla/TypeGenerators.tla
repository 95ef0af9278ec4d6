--------------------------- MODULE TypeGenerators ---------------------------
(***************************************************************************)
(* generate_type of correctness/type_generators.c: the type a syntax tree  *)
(* of a type stands for.  builtins tells whether the scope it is called    *)
(* with has the builtin types.  made counts the types made so far, which   *)
(* tells one union from another; a type is made before its operands are    *)
(* looked at.                                                              *)
(***************************************************************************)
EXTENDS CurlyTypes, SequencesExt

\* generate_type calls itself, and goes on down its loops, through these.
CONSTANTS Generates(_, _, _),  \* GenerateType
          Descends(_, _)       \* Spine

TypeNames == {p.name : p \in Primitives}

\* A type, NoType for NULL, and how many types have been made.
Generated(type, made) == [type |-> type, made |-> made]

\* Arguments of a type, the children of its name, are not looked at.
GenerateSymbol(name, builtins) ==
    IF builtins /\ name \in TypeNames THEN Primitive(name) ELSE NoType

\* The loops of products, unions and intersections: the second child of each tree
\* in turn, down the first children as long as they have the same label, and last
\* the tree that has another one.  Further children are dropped.
Spine(t, label) == IF t.label = label THEN <<t.kids[2]>> \o Descends(t.kids[1], label) ELSE <<t>>

IsField(type) == type.kind = "PRODUCT" /\ Len(type.fields) = 1

\* In an union, what is declared with a name becomes an alternative with that name.
UnionOf(types, object) ==
    Union([i \in DOMAIN types |-> IF IsField(types[i]) THEN types[i].fields[1] ELSE types[i]],
          [i \in DOMAIN types |-> IF IsField(types[i]) THEN types[i].names[1] ELSE Unnamed],
          object)

\* As ProductOf would be if the types stayed in the order they were met in.
ProductOfReversed(types) == Product(Reverse(types), Unnameds(types))
ProductOf(types) == Product(types, Unnameds(types))

\* The fields of each operand are appended to a list that is reversed as a whole.
IntersectionOf(types) ==
    Product(FlattenSeq([i \in DOMAIN types |-> Reverse(types[i].fields)]),
            FlattenSeq([i \in DOMAIN types |-> Reverse(types[i].names)]))

\* The types of the trees ts one after the other; types is empty once one is NULL.
GenerateEach(ts, builtins, made) ==
    LET r[k \in 0 .. Len(ts)] ==
            IF k = 0 THEN [ok |-> TRUE, types |-> <<>>, made |-> made]
            ELSE IF ~r[k - 1].ok THEN r[k - 1]
            ELSE LET g == Generates(ts[k], builtins, r[k - 1].made)
                 IN  [ok |-> g.type # NoType, types |-> Append(r[k - 1].types, g.type), made |-> g.made]
    IN  r[Len(ts)]

GenerateField(t, builtins, made) ==
    LET g == Generates(t.kids[2], builtins, made + 1)
    IN  Generated(Product(<<g.type>>, <<t.kids[1].label>>), g.made)

\* The operands of a loop are met last one first.
GenerateOperands(t, builtins, made) ==
    LET r == GenerateEach(Spine(t, t.label), builtins, made + 1)
        types == Reverse(r.types)
    IN  IF ~r.ok THEN Generated(NoType, r.made)
        ELSE CASE t.label = "*" -> Generated(ProductOf(types), r.made)
               [] t.label = "|" -> Generated(UnionOf(types, made), r.made)
               [] t.label = "&" ->
                     Generated(IF \E i \in DOMAIN types : types[i].kind = "PRIMITIVE" THEN NoType
                               ELSE IntersectionOf(types), r.made)

GenerateFunction(t, builtins, made) ==
    LET r == GenerateEach(SubSeq(t.kids, 1, 2), builtins, made + 1)
    IN  Generated(IF r.ok THEN Function(r.types[1], r.types[2]) ELSE NoType, r.made)

\* Generator and list types have no syntax.
GenerateType(t, builtins, made) ==
    CASE t.label = ":" -> GenerateField(t, builtins, made)
      [] t.label \in {"*", "|", "&"} -> GenerateOperands(t, builtins, made)
      [] t.label = "->" -> GenerateFunction(t, builtins, made)
      [] t.label \in {"=>", "."} -> Generated(NoType, made)
      [] OTHER -> Generated(GenerateSymbol(t.label, builtins), made)
=============================================================================
