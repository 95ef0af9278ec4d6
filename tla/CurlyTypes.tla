----------------------------- MODULE CurlyTypes -----------------------------
(***************************************************************************)
(* The types of correctness/types.c: a type_t with its kind, its name and  *)
(* its fields, which may have names.  Types are compared as pointers in one *)
(* place that structure cannot tell, where a union is compared with itself: *)
(* `object' tells unions apart, by the number of types made before them.   *)
(***************************************************************************)
EXTENDS Integers, Sequences

Unnamed == ""

TypeOf(kind, name, fields, names, object) ==
    [kind |-> kind, name |-> name, fields |-> fields, names |-> names, object |-> object]

Unnameds(fields) == [i \in DOMAIN fields |-> Unnamed]

NoType == TypeOf("NULL", "NULL", <<>>, <<>>, 0)   \* the NULL type, also of an undeclared name

Primitive(n) == TypeOf("PRIMITIVE", n, <<>>, <<>>, 0)
Product(fields, names) == TypeOf("PRODUCT", Unnamed, fields, names, 0)
Union(fields, names, object) == TypeOf("UNION", Unnamed, fields, names, object)
Function(arg, result) == TypeOf("FUNC", Unnamed, <<arg, result>>, Unnameds(<<arg, result>>), 0)
Curry(fields) == TypeOf("CURRY", Unnamed, fields, Unnameds(fields), 0)

IntType == Primitive("Int")
FloatType == Primitive("Float")
BoolType == Primitive("Bool")
StringType == Primitive("String")
EnumType == Primitive("Enum")
Primitives == {IntType, FloatType, BoolType, StringType, EnumType}
=============================================================================
