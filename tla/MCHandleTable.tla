--------------------------- MODULE MCHandleTable ---------------------------
(***************************************************************************)
(* HandleTable with four entries, four ids of two types whose hashes       *)
(* collide and wrap, and two ids no table accepts.                         *)
(***************************************************************************)
EXTENDS HandleTable

Id(t, s) == [type |-> t, serial |-> s]

MCWireIds ==
  {Id(0, 0), Id(9, 1), Id(1, 1), Id(2, 1), Id(1, 2), Id(1, 3)}

MCParentIds == {Id(0, 0), Id(9, 1), Id(1, 1)}

MCHash == [w \in MCWireIds |->
             CASE w = Id(1, 2) -> 0 [] w = Id(1, 3) -> 2 [] OTHER -> 3]
=============================================================================
