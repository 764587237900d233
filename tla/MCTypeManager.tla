---------------------------- MODULE MCTypeManager ----------------------------
(***************************************************************************)
(* Tables with one column of a type that users can define.                 *)
(***************************************************************************)
EXTENDS TypeManager

Col(n, t) == [name |-> n, type |-> t]
DocDefs == {<<Col("a", "int4"), Col("c", t)>> : t \in {"mood", "mood[]", "pair", "mixed"}}
=============================================================================
