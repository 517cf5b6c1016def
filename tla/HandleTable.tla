---------------------------- MODULE HandleTable ----------------------------
(***************************************************************************)
(* The handle table of src/handle.c: the service's open-addressing map     *)
(* from wire ids to native Vulkan handles.  Entries are found by linear    *)
(* probing from the id's hash; a removed entry leaves a tombstone, which   *)
(* lookups pass and inserts reuse.  Every operation is atomic: the context *)
(* mutex of src/bridge_service.c is held around it.                        *)
(*                                                                         *)
(* A wire id is a record of its two bit fields.  The hash is any function: *)
(* nothing here depends on how well it mixes.  Capacity is a power of two  *)
(* in the code, where & (capacity - 1) is the % below.                     *)
(***************************************************************************)
EXTENDS Integers, FiniteSets

CONSTANTS
  WireIds,      \* ids a request may carry, [type, serial]
  ParentIds,    \* ids a request may carry for the parent
  ObjectTypes,  \* enum bvb_object_type without BVB_OBJECT_INVALID
  Natives,      \* native_bits, 0 included
  Capacity,     \* table->capacity
  Hash          \* hash_wire_id

NoParent == [type |-> 0, serial |-> 0]

ASSUME CapacityAssumption == Capacity \in Nat \ {0}
ASSUME IdAssumption ==
  /\ WireIds \subseteq [type : Nat, serial : Nat]
  /\ ObjectTypes \subseteq Nat \ {0}
  /\ Natives \subseteq Nat /\ 0 \in Natives
  /\ NoParent \in WireIds /\ ParentIds \subseteq WireIds
ASSUME HashAssumption == Hash \in [WireIds -> 0 .. Capacity - 1]

VARIABLES
  entries,   \* table->entries
  count,     \* table->count
  result     \* the last call and what it returned

vars == <<entries, count, result>>

Indexes == 0 .. Capacity - 1
Empty == [state |-> "EMPTY", wire_id |-> NoParent, parent_id |-> NoParent,
          native_bits |-> 0]
Tombstone == [Empty EXCEPT !.state = "TOMBSTONE"]
Entry(w, p, n) ==
  [state |-> "OCCUPIED", wire_id |-> w, parent_id |-> p, native_bits |-> n]

\* bvb_handle_type and bvb_handle_serial: an id that names an object.
IsHandle(w) == w.type \in ObjectTypes /\ w.serial # 0

Handles == {w \in WireIds : IsHandle(w)}

\* bvb_handle_expect
Expect(w, type) == IsHandle(w) /\ w.type = type

(***************************************************************************)
(* The probe loop.  The k-th entry probed for w, and where the loop stops: *)
(* at the first entry that is EMPTY or holds w, or after Capacity probes.  *)
(***************************************************************************)
Probe(w, k) == (Hash[w] + k) % Capacity

Holds(w, k) == /\ entries[Probe(w, k)].state = "OCCUPIED"
               /\ entries[Probe(w, k)].wire_id = w

IsEmpty(w, k) == entries[Probe(w, k)].state = "EMPTY"

IsTombstone(w, k) == entries[Probe(w, k)].state = "TOMBSTONE"

StopsAt(w, k) ==
  /\ k \in 0 .. Capacity
  /\ \A j \in 0 .. k - 1 : ~IsEmpty(w, j) /\ ~Holds(w, j)
  /\ k < Capacity => IsEmpty(w, k) \/ Holds(w, k)

\* The first tombstone passed before probe k, or k if there was none.
ReusesAt(w, k, t) ==
  /\ t \in 0 .. k
  /\ \A j \in 0 .. t - 1 : ~IsTombstone(w, j)
  /\ t < k => IsTombstone(w, t)

-----------------------------------------------------------------------------
Init ==
  /\ entries = [i \in Indexes |-> Empty]
  /\ count = 0
  /\ result = [op |-> "init", id |-> NoParent, status |-> "OK"]

\* The call op on w returns a status; lookup hands back the parent and the
\* native handle of the entry at index i, remove the native handle only.
Returns(op, w, s) == result' = [op |-> op, id |-> w, status |-> s]
ReturnsEntry(op, w, p, i) ==
  result' = [op |-> op, id |-> w, status |-> "OK",
             value |-> <<p, entries[i].native_bits>>]

\* A wrong argument: nothing is read.
Refuses(op, w) == Returns(op, w, "EINVAL") /\ UNCHANGED <<entries, count>>

\* Mutant: the entry where the probe stopped is used, past the last one too.
InsertAt_Stop(w, p, n, k) ==
  /\ entries' = [entries EXCEPT ![Probe(w, k)] = Entry(w, p, n)]
  /\ count' = count + 1
  /\ Returns("insert", w, "OK")

\* w is not in the table and the probe stopped at k: the entry goes to the
\* first tombstone passed, else to the EMPTY entry at k, else there is none.
InsertAt(w, p, n, k) ==
  \E t \in 0 .. k :
    /\ ReusesAt(w, k, t)
    /\ IF t = Capacity
       THEN Returns("insert", w, "ENOSPC") /\ UNCHANGED <<entries, count>>
       ELSE /\ entries' = [entries EXCEPT ![Probe(w, t)] = Entry(w, p, n)]
            /\ count' = count + 1
            /\ Returns("insert", w, "OK")

\* bvb_handle_table_insert
Insert(w, p, n) ==
  IF ~IsHandle(w) \/ n = 0 \/ (p # NoParent /\ ~IsHandle(p))
  THEN Refuses("insert", w)
  ELSE IF count = Capacity
       THEN Returns("insert", w, "ENOSPC") /\ UNCHANGED <<entries, count>>
       ELSE \E k \in 0 .. Capacity :
              /\ StopsAt(w, k)
              /\ IF k < Capacity /\ Holds(w, k)
                 THEN /\ Returns("insert", w, "EEXIST")
                      /\ UNCHANGED <<entries, count>>
                 ELSE InsertAt(w, p, n, k)

\* Mutant: the search gives up at a tombstone.
Lookup_StopsAtTombstone(w, type) ==
  IF ~Expect(w, type) THEN Refuses("lookup", w)
  ELSE /\ \E k \in 0 .. Capacity :
            /\ StopsAt(w, k)
            /\ IF /\ k < Capacity /\ Holds(w, k)
                  /\ \A j \in 0 .. k - 1 : ~IsTombstone(w, j)
               THEN ReturnsEntry("lookup", w,
                                 entries[Probe(w, k)].parent_id, Probe(w, k))
               ELSE Returns("lookup", w, "ENOENT")
       /\ UNCHANGED <<entries, count>>

\* bvb_handle_table_lookup with find_entry
Lookup(w, type) ==
  IF ~Expect(w, type) THEN Refuses("lookup", w)
  ELSE /\ \E k \in 0 .. Capacity :
            /\ StopsAt(w, k)
            /\ IF k < Capacity /\ Holds(w, k)
               THEN ReturnsEntry("lookup", w,
                                 entries[Probe(w, k)].parent_id, Probe(w, k))
               ELSE Returns("lookup", w, "ENOENT")
       /\ UNCHANGED <<entries, count>>

\* Mutant: the removed entry becomes EMPTY again.
Remove_Empties(w, type) ==
  IF ~Expect(w, type) THEN Refuses("remove", w)
  ELSE \E k \in 0 .. Capacity :
         /\ StopsAt(w, k)
         /\ IF k < Capacity /\ Holds(w, k)
            THEN /\ ReturnsEntry("remove", w, NoParent, Probe(w, k))
                 /\ entries' = [entries EXCEPT ![Probe(w, k)] = Empty]
                 /\ count' = count - 1
            ELSE Returns("remove", w, "ENOENT") /\ UNCHANGED <<entries, count>>

\* bvb_handle_table_remove
Remove(w, type) ==
  IF ~Expect(w, type) THEN Refuses("remove", w)
  ELSE \E k \in 0 .. Capacity :
         /\ StopsAt(w, k)
         /\ IF k < Capacity /\ Holds(w, k)
            THEN /\ ReturnsEntry("remove", w, NoParent, Probe(w, k))
                 /\ entries' = [entries EXCEPT ![Probe(w, k)] = Tombstone]
                 /\ count' = count - 1
            ELSE Returns("remove", w, "ENOENT") /\ UNCHANGED <<entries, count>>

Next ==
  \E w \in WireIds :
    \/ \E p \in ParentIds, n \in Natives : Insert(w, p, n)
    \/ \E type \in ObjectTypes : Lookup(w, type) \/ Remove(w, type)

Spec == Init /\ [][Next]_vars

-----------------------------------------------------------------------------
(***************************************************************************)
(* Properties.                                                             *)
(***************************************************************************)

Values == WireIds \X Natives
Operations == {"init", "insert", "lookup", "remove"}
Statuses == {"OK", "EINVAL", "ENOSPC", "EEXIST", "ENOENT"}

\* Every field keeps its type and count stays within the table.
TypeOK ==
  /\ entries \in [Indexes -> [state : {"EMPTY", "OCCUPIED", "TOMBSTONE"},
                              wire_id : WireIds, parent_id : WireIds,
                              native_bits : Natives]]
  /\ count \in 0 .. Capacity
  /\ result \in [op : Operations, id : WireIds, status : Statuses] \cup
       [op : Operations, id : WireIds, status : {"OK"}, value : Values]

Occupied == {i \in Indexes : entries[i].state = "OCCUPIED"}

\* The inductive core of the table: no id is stored twice, and no EMPTY entry
\* lies on the way from an id's hash to its entry, so that every probe for a
\* stored id reaches it whatever was inserted and removed in between.
EntriesReachable ==
  \A i \in Occupied :
    /\ IsHandle(entries[i].wire_id)
    /\ \A j \in Occupied : entries[i].wire_id = entries[j].wire_id => i = j
    /\ \E k \in Indexes :
         /\ Probe(entries[i].wire_id, k) = i
         /\ \A j \in 0 .. k - 1 : ~IsEmpty(entries[i].wire_id, j)

\* count is the number of entries in use: -ENOSPC is returned when the table
\* is full and only then.
CountIsOccupancy == count = Cardinality(Occupied)

\* The map the entries stand for.
StoredIds == {entries[i].wire_id : i \in Occupied}
IndexOf(w) == CHOOSE i \in Occupied : entries[i].wire_id = w
Stored == [w \in StoredIds |-> <<entries[IndexOf(w)].parent_id,
                                 entries[IndexOf(w)].native_bits>>]

Map == INSTANCE HandleMap WITH Ids <- Handles, AnyIds <- WireIds,
                               None <- NoParent, Limit <- Capacity,
                               objects <- Stored

\* The table implements the map: whatever the collisions, tombstones and
\* wrap-around, every call returns and does what the map's operation does.
ImplementsMap == Map!Spec
=============================================================================
