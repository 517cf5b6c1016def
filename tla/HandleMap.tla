----------------------------- MODULE HandleMap -----------------------------
(***************************************************************************)
(* What the handle table of src/handle.c promises its callers: a bounded   *)
(* map from wire ids to a parent id and a native handle.  How the entries  *)
(* are stored, hashed, probed and marked as deleted does not show.         *)
(***************************************************************************)
EXTENDS Naturals, FiniteSets

CONSTANTS
  Ids,      \* the ids that can be stored
  AnyIds,   \* the ids a caller may pass
  Values,   \* what an id maps to: <<parent id, native handle>>
  None,     \* no id
  Limit     \* how many ids the map can hold

VARIABLES
  objects,  \* the map
  result    \* the last call and what it returned

mapVars == <<objects, result>>

Stored == DOMAIN objects
Status(op, i, s) == [op |-> op, id |-> i, status |-> s]
Value(op, i, v) == [op |-> op, id |-> i, status |-> "OK", value |-> v]

Init == objects = [i \in {} |-> i] /\ result = Status("init", None, "OK")

\* A full map refuses everything, then a duplicate is refused.
Insert(i, v) ==
  \/ /\ Cardinality(Stored) = Limit
     /\ result' = Status("insert", i, "ENOSPC") /\ UNCHANGED objects
  \/ /\ Cardinality(Stored) # Limit /\ i \in Stored
     /\ result' = Status("insert", i, "EEXIST") /\ UNCHANGED objects
  \/ /\ Cardinality(Stored) # Limit /\ i \notin Stored
     /\ result' = Status("insert", i, "OK")
     /\ objects' = [j \in Stored \cup {i} |-> IF j = i THEN v ELSE objects[j]]

Lookup(i) ==
  /\ result' = IF i \in Stored THEN Value("lookup", i, objects[i])
                               ELSE Status("lookup", i, "ENOENT")
  /\ UNCHANGED objects

\* Only the native handle is given back.
Remove(i) ==
  /\ result' = IF i \in Stored THEN Value("remove", i, <<None, objects[i][2]>>)
                               ELSE Status("remove", i, "ENOENT")
  /\ objects' = [j \in Stored \ {i} |-> objects[j]]

\* An id, a parent or a type that makes no sense.
Refuse(op, i) == result' = Status(op, i, "EINVAL") /\ UNCHANGED objects

Next ==
  \/ \E i \in Ids : Lookup(i) \/ Remove(i) \/ \E v \in Values : Insert(i, v)
  \/ \E op \in {"insert", "lookup", "remove"}, i \in AnyIds : Refuse(op, i)

Spec == Init /\ [][Next]_mapVars
=============================================================================
