------------------------- MODULE HandleTableProofs -------------------------
(***************************************************************************)
(* Proofs about HandleTable for every capacity, every set of ids and every *)
(* hash function: the probing invariant, and that the table implements the *)
(* map of HandleMap.                                                       *)
(***************************************************************************)
EXTENDS HandleTable, FiniteSetTheorems, FunctionTheorems, TLAPS

\* The inductive invariant.
TableInv == TypeOK /\ EntriesReachable /\ CountIsOccupancy

-----------------------------------------------------------------------------
(***************************************************************************)
(* The probe sequence of an id visits every index of the table.            *)
(***************************************************************************)

\* A sum of two numbers below the capacity, reduced.
LEMMA Wrap ==
  ASSUME NEW h \in Indexes, NEW k \in Indexes
  PROVE  (h + k) % Capacity = IF h + k < Capacity THEN h + k
                                                  ELSE h + k - Capacity
<1>1. CASE h + k < Capacity
  BY <1>1, CapacityAssumption DEF Indexes
<1>2. CASE h + k \in Capacity .. Capacity + Capacity - 1
  BY <1>2, CapacityAssumption DEF Indexes
<1> QED BY <1>1, <1>2, CapacityAssumption DEF Indexes

\* Every probe is an index of the table.
LEMMA ProbeInTable ==
  ASSUME NEW w \in WireIds, NEW k \in Nat
  PROVE  Probe(w, k) \in Indexes
<1>1. Hash[w] \in Nat
  BY HashAssumption, CapacityAssumption
<1> QED BY <1>1, CapacityAssumption DEF Probe, Indexes

\* Capacity probes look at every entry.
LEMMA ProbeOnto ==
  ASSUME NEW w \in WireIds, NEW i \in Indexes
  PROVE  \E k \in Indexes : Probe(w, k) = i
<1>1. Hash[w] \in Indexes
  BY HashAssumption DEF Indexes
<1> DEFINE k == IF i >= Hash[w] THEN i - Hash[w] ELSE i - Hash[w] + Capacity
<1>2. k \in Indexes
  BY <1>1, CapacityAssumption DEF Indexes
<1>3. Probe(w, k) = IF Hash[w] + k < Capacity THEN Hash[w] + k
                                              ELSE Hash[w] + k - Capacity
  BY <1>1, <1>2, Wrap DEF Probe
<1>4. Probe(w, k) = i
  BY <1>1, <1>2, <1>3, CapacityAssumption DEF Indexes
<1> QED BY <1>2, <1>4

-----------------------------------------------------------------------------
(***************************************************************************)
(* What a search finds.                                                    *)
(***************************************************************************)

\* No id is stored at two indexes, so the index of an id is well defined.
LEMMA IndexUnique ==
  ASSUME EntriesReachable, NEW i \in Occupied
  PROVE  IndexOf(entries[i].wire_id) = i
  BY DEF EntriesReachable, IndexOf

\* A search for w stops at its entry exactly if w is stored.
LEMMA SearchFinds ==
  ASSUME TableInv, NEW w \in WireIds, NEW k \in 0 .. Capacity, StopsAt(w, k)
  PROVE  /\ (k < Capacity /\ Holds(w, k)) <=> w \in StoredIds
         /\ k < Capacity /\ Holds(w, k) =>
              /\ Probe(w, k) \in Occupied
              /\ entries[Probe(w, k)].wire_id = w
              /\ IndexOf(w) = Probe(w, k)
<1>1. ASSUME k < Capacity, Holds(w, k)
      PROVE  /\ Probe(w, k) \in Occupied
             /\ entries[Probe(w, k)].wire_id = w
             /\ IndexOf(w) = Probe(w, k)
             /\ w \in StoredIds
  <2>1. Probe(w, k) \in Indexes
    BY ProbeInTable, CapacityAssumption
  <2>2. Probe(w, k) \in Occupied /\ entries[Probe(w, k)].wire_id = w
    BY <1>1, <2>1 DEF Holds, Occupied
  <2> QED BY <2>2, IndexUnique DEF TableInv, StoredIds
<1>2. ASSUME w \in StoredIds
      PROVE  k < Capacity /\ Holds(w, k)
  <2>1. PICK i \in Occupied : entries[i].wire_id = w
    BY <1>2 DEF StoredIds
  <2>2. PICK l \in Indexes : /\ Probe(w, l) = i
                             /\ \A j \in 0 .. l - 1 : ~IsEmpty(w, j)
    BY <2>1 DEF TableInv, EntriesReachable
  <2>3. Holds(w, l)
    BY <2>1, <2>2 DEF Holds, Occupied
  <2>4. ~(l \in 0 .. k - 1)
    BY <2>3 DEF StopsAt
  <2>5. k <= l /\ k < Capacity
    BY <2>4, CapacityAssumption DEF Indexes
  <2>6. IsEmpty(w, k) \/ Holds(w, k)
    BY <2>5 DEF StopsAt
  <2>7. CASE k = l
    BY <2>7, <2>3, <2>5
  <2>8. CASE k # l
    <3>1. k \in 0 .. l - 1
      BY <2>5, <2>8, CapacityAssumption DEF Indexes
    <3> QED BY <3>1, <2>2, <2>5, <2>6
  <2> QED BY <2>7, <2>8
<1> QED BY <1>1, <1>2

-----------------------------------------------------------------------------
(***************************************************************************)
(* What a call does, whichever way its search went.                        *)
(***************************************************************************)

Quiet == UNCHANGED <<entries, count>>

\* A call stored w at an index not in use that its probes reach.
Adds(w, p, n) ==
  /\ w \in Handles /\ w \notin StoredIds /\ p \in WireIds /\ n \in Natives
  /\ \E t \in Indexes :
       /\ Probe(w, t) \notin Occupied
       /\ \A j \in 0 .. t - 1 : ~IsEmpty(w, j)
       /\ entries' = [entries EXCEPT ![Probe(w, t)] = Entry(w, p, n)]
       /\ count' = count + 1

\* A call deleted the entry of w.
Deletes(w) ==
  /\ w \in StoredIds
  /\ IndexOf(w) \in Occupied /\ entries[IndexOf(w)].wire_id = w
  /\ entries' = [entries EXCEPT ![IndexOf(w)] = Tombstone]
  /\ count' = count - 1

\* A table whose every entry is in use is full.
LEMMA AllProbesOccupied ==
  ASSUME TableInv, NEW w \in WireIds,
         \A j \in 0 .. Capacity - 1 : ~IsEmpty(w, j) /\ ~IsTombstone(w, j)
  PROVE  count = Capacity
<1>1. Occupied = Indexes
  <2> SUFFICES ASSUME NEW i \in Indexes PROVE i \in Occupied
    BY DEF Occupied
  <2>1. PICK k \in Indexes : Probe(w, k) = i
    BY ProbeOnto
  <2>2. entries[i].state \in {"EMPTY", "OCCUPIED", "TOMBSTONE"}
    BY DEF TableInv, TypeOK
  <2>3. entries[i].state # "EMPTY" /\ entries[i].state # "TOMBSTONE"
    BY <2>1 DEF IsEmpty, IsTombstone, Indexes
  <2> QED BY <2>2, <2>3 DEF Occupied
<1>2. Cardinality(0 .. Capacity - 1) = Capacity
  BY FS_Interval, CapacityAssumption
<1> QED BY <1>1, <1>2 DEF TableInv, CountIsOccupancy, Indexes

\* What an insert does: refuse, find the table full, find the id, or store it.
LEMMA InsertDoes ==
  ASSUME TableInv, NEW w \in WireIds, NEW p \in ParentIds, NEW n \in Natives,
         Insert(w, p, n)
  PROVE  \/ Quiet /\ Returns("insert", w, "EINVAL")
         \/ /\ Quiet /\ Returns("insert", w, "ENOSPC")
            /\ w \in Handles /\ count = Capacity
         \/ /\ Quiet /\ Returns("insert", w, "EEXIST")
            /\ w \in Handles /\ count # Capacity /\ w \in StoredIds
         \/ Adds(w, p, n) /\ Returns("insert", w, "OK") /\ count # Capacity
<1> USE DEF Quiet
<1>1. CASE ~IsHandle(w) \/ n = 0 \/ (p # NoParent /\ ~IsHandle(p))
  BY <1>1 DEF Insert, Refuses
<1>2. CASE /\ ~(~IsHandle(w) \/ n = 0 \/ (p # NoParent /\ ~IsHandle(p)))
           /\ count = Capacity
  BY <1>2 DEF Insert, Handles
<1>3. CASE /\ ~(~IsHandle(w) \/ n = 0 \/ (p # NoParent /\ ~IsHandle(p)))
           /\ count # Capacity
  <2>1. PICK k \in 0 .. Capacity :
          /\ StopsAt(w, k)
          /\ IF k < Capacity /\ Holds(w, k)
             THEN /\ Returns("insert", w, "EEXIST")
                  /\ UNCHANGED <<entries, count>>
             ELSE InsertAt(w, p, n, k)
    BY <1>3 DEF Insert
  <2>2. w \in Handles
    BY <1>3 DEF Handles
  <2>3. CASE k < Capacity /\ Holds(w, k)
    BY <2>1, <2>2, <2>3, <1>3, SearchFinds
  <2>4. CASE ~(k < Capacity /\ Holds(w, k))
    <3>1. w \notin StoredIds
      BY <2>1, <2>4, SearchFinds
    <3>2. PICK t \in 0 .. k :
            /\ ReusesAt(w, k, t)
            /\ IF t = Capacity
               THEN Returns("insert", w, "ENOSPC") /\ UNCHANGED <<entries, count>>
               ELSE /\ entries' = [entries EXCEPT ![Probe(w, t)] = Entry(w, p, n)]
                    /\ count' = count + 1
                    /\ Returns("insert", w, "OK")
      BY <2>1, <2>4 DEF InsertAt
    <3>3. t # Capacity
      <4> SUFFICES ASSUME t = Capacity PROVE FALSE
        OBVIOUS
      <4>1. k = Capacity
        BY <3>2, CapacityAssumption
      <4>2. \A j \in 0 .. Capacity - 1 : ~IsEmpty(w, j) /\ ~IsTombstone(w, j)
        BY <4>1, <2>1, <3>2 DEF StopsAt, ReusesAt
      <4> QED BY <4>2, AllProbesOccupied, <1>3
    <3>4. t \in Indexes
      BY <3>3, <3>2, CapacityAssumption DEF Indexes
    <3>5. \A j \in 0 .. t - 1 : ~IsEmpty(w, j)
      BY <2>1, <3>2, CapacityAssumption DEF StopsAt
    <3>6. Probe(w, t) \notin Occupied
      <4>1. CASE t < k
        BY <4>1, <3>2 DEF ReusesAt, IsTombstone, Occupied
      <4>2. CASE t = k
        BY <4>2, <2>1, <2>4, <3>4, CapacityAssumption
           DEF StopsAt, IsEmpty, Occupied, Indexes
      <4> QED BY <4>1, <4>2, <3>2
    <3>7. p \in WireIds
      BY IdAssumption
    <3> QED BY <2>2, <3>1, <3>2, <3>3, <3>4, <3>5, <3>6, <3>7, <1>3 DEF Adds
  <2> QED BY <2>3, <2>4
<1> QED BY <1>1, <1>2, <1>3

\* What a lookup does.
LEMMA LookupDoes ==
  ASSUME TableInv, NEW w \in WireIds, NEW type \in ObjectTypes,
         Lookup(w, type)
  PROVE  /\ Quiet
         /\ \/ Returns("lookup", w, "EINVAL")
            \/ /\ w \in Handles /\ w \in StoredIds
               /\ ReturnsEntry("lookup", w, entries[IndexOf(w)].parent_id,
                               IndexOf(w))
            \/ /\ w \in Handles /\ w \notin StoredIds
               /\ Returns("lookup", w, "ENOENT")
<1>1. CASE ~Expect(w, type)
  BY <1>1 DEF Lookup, Refuses, Quiet
<1>2. CASE Expect(w, type)
  <2>1. PICK k \in 0 .. Capacity :
          /\ StopsAt(w, k)
          /\ IF k < Capacity /\ Holds(w, k)
             THEN ReturnsEntry("lookup", w, entries[Probe(w, k)].parent_id,
                               Probe(w, k))
             ELSE Returns("lookup", w, "ENOENT")
    BY <1>2 DEF Lookup
  <2>2. w \in Handles
    BY <1>2 DEF Expect, Handles
  <2>3. Quiet
    BY <1>2 DEF Lookup, Quiet
  <2> QED BY <2>1, <2>2, <2>3, SearchFinds
<1> QED BY <1>1, <1>2

\* What a remove does.
LEMMA RemoveDoes ==
  ASSUME TableInv, NEW w \in WireIds, NEW type \in ObjectTypes,
         Remove(w, type)
  PROVE  \/ Quiet /\ Returns("remove", w, "EINVAL")
         \/ /\ Quiet /\ Returns("remove", w, "ENOENT")
            /\ w \in Handles /\ w \notin StoredIds
         \/ /\ Deletes(w) /\ w \in Handles
            /\ ReturnsEntry("remove", w, NoParent, IndexOf(w))
<1>1. CASE ~Expect(w, type)
  BY <1>1 DEF Remove, Refuses, Quiet
<1>2. CASE Expect(w, type)
  <2>1. PICK k \in 0 .. Capacity :
          /\ StopsAt(w, k)
          /\ IF k < Capacity /\ Holds(w, k)
             THEN /\ ReturnsEntry("remove", w, NoParent, Probe(w, k))
                  /\ entries' = [entries EXCEPT ![Probe(w, k)] = Tombstone]
                  /\ count' = count - 1
             ELSE Returns("remove", w, "ENOENT") /\ UNCHANGED <<entries, count>>
    BY <1>2 DEF Remove
  <2>2. w \in Handles
    BY <1>2 DEF Expect, Handles
  <2> QED BY <2>1, <2>2, SearchFinds DEF Deletes, Quiet
<1> QED BY <1>1, <1>2

-----------------------------------------------------------------------------
(***************************************************************************)
(* The invariant.                                                          *)
(***************************************************************************)

\* The entries in use are finitely many.
LEMMA OccupiedFinite ==
  IsFiniteSet(Occupied) /\ Cardinality(Occupied) \in 0 .. Capacity
<1>1. IsFiniteSet(Indexes) /\ Cardinality(Indexes) = Capacity
  BY FS_Interval, CapacityAssumption DEF Indexes
<1>2. Occupied \in SUBSET Indexes
  BY DEF Occupied
<1>3. IsFiniteSet(Occupied) /\ Cardinality(Occupied) <= Capacity
  BY <1>1, <1>2, FS_Subset
<1> QED BY <1>3, FS_CardinalityType, CapacityAssumption

\* Storing an id keeps the table reachable and counted.
LEMMA AddsKeeps ==
  ASSUME TableInv, NEW w, NEW p, NEW n, Adds(w, p, n)
  PROVE  /\ entries' \in [Indexes -> [state : {"EMPTY", "OCCUPIED", "TOMBSTONE"},
                                      wire_id : WireIds, parent_id : WireIds,
                                      native_bits : Natives]]
         /\ EntriesReachable' /\ CountIsOccupancy' /\ count' \in 0 .. Capacity
<1>1. PICK t \in Indexes :
        /\ Probe(w, t) \notin Occupied
        /\ \A j \in 0 .. t - 1 : ~IsEmpty(w, j)
        /\ entries' = [entries EXCEPT ![Probe(w, t)] = Entry(w, p, n)]
        /\ count' = count + 1
  BY DEF Adds
<1> DEFINE x == Probe(w, t)
<1>2. w \in WireIds /\ IsHandle(w) /\ w \notin StoredIds
      /\ p \in WireIds /\ n \in Natives
  BY DEF Adds, Handles
<1>3. x \in Indexes /\ x \notin Occupied
  BY <1>1, <1>2, ProbeInTable, CapacityAssumption DEF Indexes
<1>4. entries' = [entries EXCEPT ![x] = Entry(w, p, n)]
  BY <1>1
<1> HIDE DEF x
<1>5. entries' \in [Indexes -> [state : {"EMPTY", "OCCUPIED", "TOMBSTONE"},
                               wire_id : WireIds, parent_id : WireIds,
                               native_bits : Natives]]
  BY <1>2, <1>3, <1>4 DEF TableInv, TypeOK, Entry
<1>6. /\ entries'[x] = Entry(w, p, n)
      /\ \A i \in Indexes : i # x => entries'[i] = entries[i]
  BY <1>3, <1>4 DEF TableInv, TypeOK
<1>7. Occupied' = Occupied \cup {x}
  BY <1>3, <1>6 DEF Occupied, Entry
<1>8. ASSUME NEW v \in WireIds, NEW j \in Nat, ~IsEmpty(v, j)
      PROVE  entries'[Probe(v, j)].state # "EMPTY"
  <2>1. Probe(v, j) \in Indexes
    BY ProbeInTable
  <2> QED BY <1>6, <1>8, <2>1 DEF IsEmpty, Entry
<1>9. EntriesReachable'
  <2>1. ASSUME NEW i \in Occupied
        PROVE  /\ entries'[i].wire_id = entries[i].wire_id
               /\ entries[i].wire_id # w
               /\ entries[i].wire_id \in WireIds
               /\ IsHandle(entries[i].wire_id)
    BY <1>2, <1>3, <1>6 DEF Occupied, StoredIds, TableInv, TypeOK, EntriesReachable
  <2>2. entries'[x].wire_id = w
    BY <1>6 DEF Entry
  <2> SUFFICES ASSUME NEW i \in Occupied'
               PROVE  /\ IsHandle(entries'[i].wire_id)
                      /\ \A j \in Occupied' :
                           entries'[i].wire_id = entries'[j].wire_id => i = j
                      /\ \E k \in Indexes :
                           /\ Probe(entries'[i].wire_id, k) = i
                           /\ \A j \in 0 .. k - 1 :
                                entries'[Probe(entries'[i].wire_id, j)].state # "EMPTY"
    BY DEF EntriesReachable, IsHandle, Probe, IsEmpty
  <2>3. IsHandle(entries'[i].wire_id)
    BY <1>2, <1>7, <2>1, <2>2
  <2>4. \A j \in Occupied' : entries'[i].wire_id = entries'[j].wire_id => i = j
    <3>1. \A a, b \in Occupied : entries[a].wire_id = entries[b].wire_id => a = b
      BY DEF TableInv, EntriesReachable
    <3> QED BY <1>7, <2>1, <2>2, <3>1
  <2>5. CASE i = x
    <3>1. Probe(w, t) = x
      BY DEF x
    <3>2. \A j \in 0 .. t - 1 : entries'[Probe(w, j)].state # "EMPTY"
      BY <1>1, <1>2, <1>8, CapacityAssumption DEF Indexes
    <3> QED BY <2>3, <2>4, <2>5, <2>2, <3>1, <3>2
  <2>6. CASE i # x
    <3>1. i \in Occupied
      BY <1>7, <2>6
    <3>2. PICK k \in Indexes :
            /\ Probe(entries[i].wire_id, k) = i
            /\ \A j \in 0 .. k - 1 : ~IsEmpty(entries[i].wire_id, j)
      BY <3>1 DEF TableInv, EntriesReachable
    <3>3. \A j \in 0 .. k - 1 : entries'[Probe(entries[i].wire_id, j)].state # "EMPTY"
      BY <1>8, <2>1, <3>1, <3>2, CapacityAssumption DEF Indexes
    <3> QED BY <2>1, <2>3, <2>4, <3>1, <3>2, <3>3
  <2> QED BY <2>5, <2>6
<1>10. CountIsOccupancy' /\ count' \in 0 .. Capacity
  <2>1. Cardinality(Occupied') = Cardinality(Occupied) + 1
    BY <1>3, <1>7, OccupiedFinite, FS_AddElement
  <2>2. Occupied' \in SUBSET Indexes
    BY <1>3, <1>7 DEF Occupied
  <2>3. IsFiniteSet(Indexes) /\ Cardinality(Indexes) = Capacity
    BY FS_Interval, CapacityAssumption DEF Indexes
  <2>4. Cardinality(Occupied') <= Capacity
    BY <2>2, <2>3, FS_Subset
  <2> QED BY <1>1, <2>1, <2>4, OccupiedFinite, CapacityAssumption
           DEF TableInv, CountIsOccupancy
<1> QED BY <1>5, <1>9, <1>10

\* Deleting an id keeps the table reachable and counted.
LEMMA DeletesKeeps ==
  ASSUME TableInv, NEW w, Deletes(w)
  PROVE  /\ entries' \in [Indexes -> [state : {"EMPTY", "OCCUPIED", "TOMBSTONE"},
                                      wire_id : WireIds, parent_id : WireIds,
                                      native_bits : Natives]]
         /\ EntriesReachable' /\ CountIsOccupancy' /\ count' \in 0 .. Capacity
<1> DEFINE x == IndexOf(w)
<1>1. /\ x \in Occupied /\ entries[x].wire_id = w
      /\ entries' = [entries EXCEPT ![x] = Tombstone]
      /\ count' = count - 1
  BY DEF Deletes
<1> HIDE DEF x
<1>2. x \in Indexes
  BY <1>1 DEF Occupied
<1>3. NoParent \in WireIds
  BY IdAssumption
<1>4. entries' \in [Indexes -> [state : {"EMPTY", "OCCUPIED", "TOMBSTONE"},
                               wire_id : WireIds, parent_id : WireIds,
                               native_bits : Natives]]
  BY <1>1, <1>2, <1>3, IdAssumption DEF TableInv, TypeOK, Tombstone, Empty
<1>5. /\ entries'[x] = Tombstone
      /\ \A i \in Indexes : i # x => entries'[i] = entries[i]
  BY <1>1, <1>2 DEF TableInv, TypeOK
<1>6. Occupied' = Occupied \ {x}
  BY <1>2, <1>5 DEF Occupied, Tombstone, Empty
<1>7. EntriesReachable'
  <2> SUFFICES ASSUME NEW i \in Occupied'
               PROVE  /\ IsHandle(entries'[i].wire_id)
                      /\ \A j \in Occupied' :
                           entries'[i].wire_id = entries'[j].wire_id => i = j
                      /\ \E k \in Indexes :
                           /\ Probe(entries'[i].wire_id, k) = i
                           /\ \A j \in 0 .. k - 1 :
                                entries'[Probe(entries'[i].wire_id, j)].state # "EMPTY"
    BY DEF EntriesReachable, IsHandle, Probe, IsEmpty
  <2>1. \A j \in Occupied' : j \in Occupied /\ entries'[j] = entries[j]
    BY <1>5, <1>6 DEF Occupied
  <2>2. PICK k \in Indexes :
          /\ Probe(entries[i].wire_id, k) = i
          /\ \A j \in 0 .. k - 1 : ~IsEmpty(entries[i].wire_id, j)
    BY <2>1 DEF TableInv, EntriesReachable
  <2>3. entries[i].wire_id \in WireIds
    BY <2>1 DEF TableInv, TypeOK, Occupied
  <2>4. ASSUME NEW j \in 0 .. k - 1
        PROVE  entries'[Probe(entries[i].wire_id, j)].state # "EMPTY"
    <3>1. ~IsEmpty(entries[i].wire_id, j) /\ j \in Nat
      BY <2>2, CapacityAssumption DEF Indexes
    <3>2. Probe(entries[i].wire_id, j) \in Indexes
      BY <3>1, <2>3, ProbeInTable
    <3> QED BY <3>1, <3>2, <1>5 DEF IsEmpty, Tombstone, Empty
  <2> QED BY <2>1, <2>2, <2>4 DEF TableInv, EntriesReachable
<1>8. CountIsOccupancy' /\ count' \in 0 .. Capacity
  <2>1. Cardinality(Occupied') = Cardinality(Occupied) - 1
    BY <1>1, <1>6, OccupiedFinite, FS_RemoveElement
  <2>2. Cardinality(Occupied) # 0
    BY <1>1, OccupiedFinite, FS_EmptySet
  <2> QED BY <1>1, <2>1, <2>2, OccupiedFinite, CapacityAssumption
           DEF TableInv, CountIsOccupancy
<1> QED BY <1>4, <1>7, <1>8


\* What a call returns is typed.
LEMMA ResultTyped ==
  ASSUME TableInv, Next
  PROVE  result' \in [op : Operations, id : WireIds, status : Statuses] \cup
           [op : Operations, id : WireIds, status : {"OK"}, value : Values]
<1> DEFINE Typed == result' \in
              [op : Operations, id : WireIds, status : Statuses] \cup
              [op : Operations, id : WireIds, status : {"OK"}, value : Values]
<1>1. ASSUME NEW op \in Operations, NEW w \in WireIds, NEW s \in Statuses,
             Returns(op, w, s)
      PROVE  Typed
  BY <1>1 DEF Returns
<1>2. ASSUME NEW op \in Operations, NEW w \in WireIds, NEW p \in WireIds,
             NEW i \in Occupied, ReturnsEntry(op, w, p, i)
      PROVE  Typed
  <2>1. i \in Indexes /\ entries[i].state = "OCCUPIED"
    BY DEF Occupied
  <2>2. <<p, entries[i].native_bits>> \in Values
    BY <2>1 DEF TableInv, TypeOK, Values
  <2> QED BY <1>2, <2>2 DEF ReturnsEntry
<1> HIDE DEF Typed
<1>3. {"insert", "lookup", "remove"} \subseteq Operations
  BY DEF Operations
<1>4. {"OK", "EINVAL", "ENOSPC", "EEXIST", "ENOENT"} \subseteq Statuses
  BY DEF Statuses
<1>5. ASSUME NEW w \in StoredIds
      PROVE  IndexOf(w) \in Occupied /\ entries[IndexOf(w)].parent_id \in WireIds
  <2>1. IndexOf(w) \in Occupied
    BY <1>5, IndexUnique DEF StoredIds, TableInv
  <2> QED BY <2>1 DEF Occupied, TableInv, TypeOK
<1>6. PICK w \in WireIds :
        \/ \E p \in ParentIds, n \in Natives : Insert(w, p, n)
        \/ \E type \in ObjectTypes : Lookup(w, type) \/ Remove(w, type)
  BY DEF Next
<1>7. ASSUME NEW p \in ParentIds, NEW n \in Natives, Insert(w, p, n)
      PROVE  Typed
  BY <1>1, <1>3, <1>4, <1>7, InsertDoes
<1>8. ASSUME NEW type \in ObjectTypes, Lookup(w, type) PROVE Typed
  BY <1>1, <1>2, <1>3, <1>4, <1>5, <1>8, LookupDoes
<1>9. ASSUME NEW type \in ObjectTypes, Remove(w, type) PROVE Typed
  BY <1>1, <1>2, <1>3, <1>4, <1>5, <1>9, RemoveDoes, IdAssumption DEF Deletes
<1> QED BY <1>6, <1>7, <1>8, <1>9 DEF Typed

\* Every step leaves the table as it was, stores an id or deletes one.
LEMMA StepDoes ==
  ASSUME TableInv, [Next]_vars
  PROVE  Quiet \/ (\E w, p, n : Adds(w, p, n)) \/ (\E w : Deletes(w))
<1>1. CASE UNCHANGED vars
  BY <1>1 DEF vars, Quiet
<1>2. CASE Next
  <2>1. PICK w \in WireIds :
          \/ \E p \in ParentIds, n \in Natives : Insert(w, p, n)
          \/ \E type \in ObjectTypes : Lookup(w, type) \/ Remove(w, type)
    BY <1>2 DEF Next
  <2>2. ASSUME NEW p \in ParentIds, NEW n \in Natives, Insert(w, p, n)
        PROVE  Quiet \/ Adds(w, p, n)
    BY <2>2, InsertDoes
  <2>3. ASSUME NEW type \in ObjectTypes, Lookup(w, type) PROVE Quiet
    BY <2>3, LookupDoes
  <2>4. ASSUME NEW type \in ObjectTypes, Remove(w, type)
        PROVE  Quiet \/ Deletes(w)
    BY <2>4, RemoveDoes
  <2> QED BY <2>1, <2>2, <2>3, <2>4
<1> QED BY <1>1, <1>2

\* The empty table satisfies the invariant.
LEMMA InitTable == Init => TableInv
<1> SUFFICES ASSUME Init PROVE TableInv
  OBVIOUS
<1>1. Occupied = {}
  BY DEF Init, Occupied, Empty
<1>2. TypeOK
  BY IdAssumption, CapacityAssumption
     DEF Init, TypeOK, Empty, Operations, Statuses
<1>3. EntriesReachable
  BY <1>1 DEF EntriesReachable
<1>4. CountIsOccupancy
  BY <1>1, FS_EmptySet DEF Init, CountIsOccupancy
<1> QED BY <1>2, <1>3, <1>4 DEF TableInv

\* Every step preserves the invariant.
LEMMA StepTable == TableInv /\ [Next]_vars => TableInv'
<1> SUFFICES ASSUME TableInv, [Next]_vars PROVE TableInv'
  OBVIOUS
<1>1. result' \in [op : Operations, id : WireIds, status : Statuses] \cup
        [op : Operations, id : WireIds, status : {"OK"}, value : Values]
  <2>1. CASE Next
    BY <2>1, ResultTyped
  <2>2. CASE UNCHANGED vars
    BY <2>2 DEF vars, TableInv, TypeOK
  <2> QED BY <2>1, <2>2
<1>2. CASE Quiet
  <2>1. TypeOK'
    BY <1>1, <1>2 DEF Quiet, TableInv, TypeOK
  <2>2. EntriesReachable'
    BY <1>2 DEF Quiet, TableInv, EntriesReachable, Occupied, IsHandle, Probe,
                IsEmpty
  <2>3. CountIsOccupancy'
    BY <1>2 DEF Quiet, TableInv, CountIsOccupancy, Occupied
  <2> QED BY <2>1, <2>2, <2>3 DEF TableInv
<1>3. ASSUME NEW w, NEW p, NEW n, Adds(w, p, n) PROVE TableInv'
  BY <1>1, <1>3, AddsKeeps DEF TableInv, TypeOK
<1>4. ASSUME NEW w, Deletes(w) PROVE TableInv'
  BY <1>1, <1>4, DeletesKeeps DEF TableInv, TypeOK
<1> QED BY <1>2, <1>3, <1>4, StepDoes

\* The probing invariant, the count and the types hold in every table built by
\* bvb_handle_table_insert and bvb_handle_table_remove.
THEOREM TableInvariant == Spec => []TableInv
  BY InitTable, StepTable, PTL DEF Spec

\* Every probe for a stored id reaches it: no removal hides another object's
\* entry and no insert stores an id a second time.
THEOREM AlwaysReachable == Spec => []EntriesReachable
<1>1. TableInv => EntriesReachable
  BY DEF TableInv
<1> QED BY <1>1, TableInvariant, PTL

\* table->count is the number of entries in use.
THEOREM AlwaysCounted == Spec => []CountIsOccupancy
<1>1. TableInv => CountIsOccupancy
  BY DEF TableInv
<1> QED BY <1>1, TableInvariant, PTL

-----------------------------------------------------------------------------
(***************************************************************************)
(* The refinement.                                                         *)
(***************************************************************************)

\* As many ids are stored as entries are in use.
LEMMA StoredCount ==
  ASSUME TableInv
  PROVE  Cardinality(StoredIds) = count
<1> DEFINE f == [i \in Occupied |-> entries[i].wire_id]
<1>1. f \in Bijection(Occupied, StoredIds)
  BY DEF TableInv, EntriesReachable, StoredIds, Bijection, Injection,
         Surjection, IsInjective
<1>2. ExistsBijection(Occupied, StoredIds)
  BY <1>1 DEF ExistsBijection
<1> QED BY <1>2, OccupiedFinite, FS_Bijection DEF TableInv, CountIsOccupancy

\* Storing w adds it to the map and changes nothing else.
LEMMA AddsToMap ==
  ASSUME TableInv, TableInv', NEW w, NEW p, NEW n, Adds(w, p, n)
  PROVE  /\ StoredIds' = StoredIds \cup {w}
         /\ Stored' = [v \in StoredIds' |-> Stored'[v]]
         /\ Stored'[w] = <<p, n>>
         /\ \A v \in StoredIds : Stored'[v] = Stored[v]
<1>1. PICK t \in Indexes :
        /\ Probe(w, t) \notin Occupied
        /\ entries' = [entries EXCEPT ![Probe(w, t)] = Entry(w, p, n)]
  BY DEF Adds
<1> DEFINE x == Probe(w, t)
<1>2. x \in Indexes /\ x \notin Occupied /\ w \notin StoredIds
  BY <1>1, ProbeInTable, CapacityAssumption DEF Indexes, Adds, Handles
<1>3. /\ entries'[x] = Entry(w, p, n)
      /\ \A i \in Indexes : i # x => entries'[i] = entries[i]
  BY <1>1, <1>2 DEF TableInv, TypeOK
<1> HIDE DEF x
<1>4. Occupied' = Occupied \cup {x}
  BY <1>2, <1>3 DEF Occupied, Entry
<1>5. /\ entries'[x].wire_id = w /\ entries'[x].parent_id = p
      /\ entries'[x].native_bits = n
  BY <1>3 DEF Entry
<1>6. \A i \in Occupied : i # x /\ entries'[i] = entries[i]
  BY <1>2, <1>3 DEF Occupied
<1>7. StoredIds' = StoredIds \cup {w}
  BY <1>4, <1>5, <1>6 DEF StoredIds
<1>8. ASSUME NEW v, NEW i \in Occupied', entries'[i].wire_id = v
      PROVE  IndexOf(v)' = i
  <2>1. \A j \in Occupied' : entries'[j].wire_id = v => j = i
    BY <1>8 DEF TableInv, EntriesReachable
  <2> QED BY <1>8, <2>1 DEF IndexOf
<1>9. ASSUME NEW v \in StoredIds
      PROVE  /\ v # w
             /\ <<entries'[IndexOf(v)'].parent_id,
                  entries'[IndexOf(v)'].native_bits>> = Stored[v]
  <2>1. PICK i \in Occupied : entries[i].wire_id = v
    BY <1>9 DEF StoredIds
  <2>2. IndexOf(v) = i
    BY <2>1, IndexUnique DEF TableInv
  <2>3. IndexOf(v)' = i
    BY <2>1, <1>4, <1>6, <1>8
  <2> QED BY <1>2, <1>6, <1>9, <2>1, <2>2, <2>3 DEF Stored
<1>10. IndexOf(w)' = x
  BY <1>4, <1>5, <1>8
<1>11. Stored' = [v \in StoredIds' |-> <<entries'[IndexOf(v)'].parent_id,
                                        entries'[IndexOf(v)'].native_bits>>]
  BY DEF Stored
<1> QED BY <1>5, <1>7, <1>9, <1>10, <1>11


\* Deleting w takes it out of the map and changes nothing else.
LEMMA DeletesFromMap ==
  ASSUME TableInv, TableInv', NEW w, Deletes(w)
  PROVE  Stored' = [v \in StoredIds \ {w} |-> Stored[v]]
<1> DEFINE x == IndexOf(w)
<1>1. /\ x \in Occupied /\ entries[x].wire_id = w
      /\ entries' = [entries EXCEPT ![x] = Tombstone]
  BY DEF Deletes
<1> HIDE DEF x
<1>2. /\ entries'[x] = Tombstone
      /\ \A i \in Indexes : i # x => entries'[i] = entries[i]
  BY <1>1 DEF TableInv, TypeOK, Occupied
<1>3. Occupied' = Occupied \ {x}
  BY <1>1, <1>2 DEF Occupied, Tombstone, Empty
<1>4. \A i \in Occupied' : i \in Occupied /\ entries'[i] = entries[i]
  BY <1>2, <1>3 DEF Occupied
<1>5. \A i \in Occupied : entries[i].wire_id = w => i = x
  BY <1>1 DEF TableInv, EntriesReachable
<1>6. StoredIds' = StoredIds \ {w}
  BY <1>1, <1>3, <1>4, <1>5 DEF StoredIds
<1>7. ASSUME NEW v \in StoredIds \ {w}
      PROVE  <<entries'[IndexOf(v)'].parent_id,
               entries'[IndexOf(v)'].native_bits>> = Stored[v]
  <2>1. PICK i \in Occupied : entries[i].wire_id = v
    BY <1>7 DEF StoredIds
  <2>2. IndexOf(v) = i
    BY <2>1, IndexUnique DEF TableInv
  <2>3. i \in Occupied' /\ entries'[i] = entries[i]
    BY <2>1, <1>1, <1>3, <1>4, <1>7
  <2>4. \A j \in Occupied' : entries'[j].wire_id = v => j = i
    BY <2>1, <2>3 DEF TableInv, EntriesReachable
  <2>5. IndexOf(v)' = i
    BY <2>1, <2>3, <2>4 DEF IndexOf
  <2> QED BY <1>7, <2>2, <2>3, <2>5 DEF Stored
<1>8. Stored' = [v \in StoredIds' |-> <<entries'[IndexOf(v)'].parent_id,
                                       entries'[IndexOf(v)'].native_bits>>]
  BY DEF Stored
<1> QED BY <1>6, <1>7, <1>8

\* Counting is the same on both sides of the refinement.
LEMMA SameCardinality == \A S : Map!Cardinality(S) = Cardinality(S)
  BY DEF Map!Cardinality, Cardinality

\* Each call of the table is the call of the same name on the map.
LEMMA StepImplements ==
  ASSUME TableInv, TableInv', [Next]_vars
  PROVE  [Map!Next]_(Map!mapVars)
<1>1. DOMAIN Stored = StoredIds
  BY DEF Stored
<1>2. Quiet => Stored' = Stored
  BY DEF Quiet, Stored, StoredIds, IndexOf, Occupied
<1>3. CASE UNCHANGED vars
  BY <1>2, <1>3 DEF vars, Quiet, Map!mapVars
<1>4. CASE Next
  <2>1. PICK w \in WireIds :
          \/ \E p \in ParentIds, n \in Natives : Insert(w, p, n)
          \/ \E type \in ObjectTypes : Lookup(w, type) \/ Remove(w, type)
    BY <1>4 DEF Next
  <2>2. ASSUME NEW op \in {"insert", "lookup", "remove"}, Quiet,
               Returns(op, w, "EINVAL")
        PROVE  Map!Next
    <3>1. Map!Refuse(op, w)
      BY <1>2, <2>2 DEF Map!Refuse, Map!Status, Returns
    <3> QED BY <3>1 DEF Map!Next
  <2>3. ASSUME NEW p \in ParentIds, NEW n \in Natives, Insert(w, p, n)
        PROVE  Map!Next
    <3>1. <<p, n>> \in Values
      BY IdAssumption DEF Values
    <3>2. CASE Quiet /\ Returns("insert", w, "EINVAL")
      BY <2>2, <3>2
    <3>3. CASE /\ Quiet /\ Returns("insert", w, "ENOSPC")
               /\ w \in Handles /\ count = Capacity
      <4>1. Map!Insert(w, <<p, n>>)
        BY <1>1, <1>2, <3>3, StoredCount, SameCardinality
           DEF Map!Insert, Map!Status, Map!Stored, Returns
      <4> QED BY <3>1, <3>3, <4>1 DEF Map!Next
    <3>4. CASE /\ Quiet /\ Returns("insert", w, "EEXIST")
               /\ w \in Handles /\ count # Capacity /\ w \in StoredIds
      <4>1. Map!Insert(w, <<p, n>>)
        BY <1>1, <1>2, <3>4, StoredCount, SameCardinality
           DEF Map!Insert, Map!Status, Map!Stored, Returns
      <4> QED BY <3>1, <3>4, <4>1 DEF Map!Next
    <3>5. CASE Adds(w, p, n) /\ Returns("insert", w, "OK") /\ count # Capacity
      <4>1. w \in Handles /\ w \notin StoredIds
        BY <3>5 DEF Adds
      <4>2. Stored' = [v \in StoredIds \cup {w} |->
                         IF v = w THEN <<p, n>> ELSE Stored[v]]
        <5>1. /\ StoredIds' = StoredIds \cup {w}
              /\ Stored' = [v \in StoredIds' |-> Stored'[v]]
              /\ Stored'[w] = <<p, n>>
              /\ \A v \in StoredIds : Stored'[v] = Stored[v]
          BY <3>5, AddsToMap
        <5> QED BY <4>1, <5>1
      <4>3. Map!Insert(w, <<p, n>>)
        BY <1>1, <3>5, <4>1, <4>2, StoredCount, SameCardinality
           DEF Map!Insert, Map!Status, Map!Stored, Returns
      <4> QED BY <3>1, <4>1, <4>3 DEF Map!Next
    <3> QED BY <2>3, <3>2, <3>3, <3>4, <3>5, InsertDoes
  <2>4. ASSUME NEW type \in ObjectTypes, Lookup(w, type)
        PROVE  Map!Next
    <3>1. CASE Quiet /\ Returns("lookup", w, "EINVAL")
      BY <2>2, <3>1
    <3>2. CASE /\ Quiet /\ w \in Handles /\ w \in StoredIds
               /\ ReturnsEntry("lookup", w, entries[IndexOf(w)].parent_id,
                               IndexOf(w))
      <4>1. Map!Lookup(w)
        BY <1>1, <1>2, <3>2
           DEF Map!Lookup, Map!Value, Map!Stored, ReturnsEntry, Stored
      <4> QED BY <3>2, <4>1 DEF Map!Next
    <3>3. CASE /\ Quiet /\ w \in Handles /\ w \notin StoredIds
               /\ Returns("lookup", w, "ENOENT")
      <4>1. Map!Lookup(w)
        BY <1>1, <1>2, <3>3 DEF Map!Lookup, Map!Status, Map!Stored, Returns
      <4> QED BY <3>3, <4>1 DEF Map!Next
    <3> QED BY <2>4, <3>1, <3>2, <3>3, LookupDoes
  <2>5. ASSUME NEW type \in ObjectTypes, Remove(w, type)
        PROVE  Map!Next
    <3>1. CASE Quiet /\ Returns("remove", w, "EINVAL")
      BY <2>2, <3>1
    <3>2. CASE /\ Quiet /\ Returns("remove", w, "ENOENT")
               /\ w \in Handles /\ w \notin StoredIds
      <4>1. Stored' = [v \in StoredIds \ {w} |-> Stored[v]]
        BY <1>2, <3>2 DEF Stored
      <4>2. Map!Remove(w)
        BY <1>1, <3>2, <4>1 DEF Map!Remove, Map!Status, Map!Stored, Returns
      <4> QED BY <3>2, <4>2 DEF Map!Next
    <3>3. CASE /\ Deletes(w) /\ w \in Handles
               /\ ReturnsEntry("remove", w, NoParent, IndexOf(w))
      <4>1. w \in StoredIds
        BY <3>3 DEF Deletes
      <4>2. Stored' = [v \in StoredIds \ {w} |-> Stored[v]]
        BY <3>3, DeletesFromMap
      <4>3. Stored[w] = <<entries[IndexOf(w)].parent_id,
                          entries[IndexOf(w)].native_bits>>
        BY <4>1 DEF Stored
      <4>4. Map!Remove(w)
        BY <1>1, <3>3, <4>1, <4>2, <4>3
           DEF Map!Remove, Map!Value, Map!Stored, ReturnsEntry
      <4> QED BY <3>3, <4>4 DEF Map!Next
    <3> QED BY <2>5, <3>1, <3>2, <3>3, RemoveDoes
  <2> QED BY <2>1, <2>3, <2>4, <2>5
<1> QED BY <1>3, <1>4

\* The handle table of src/handle.c implements the bounded map of HandleMap:
\* for every capacity and every hash function, every call returns and does
\* what the map's operation does.
THEOREM RefinesMap == Spec => ImplementsMap
<1>1. Init => Map!Init
  <2> SUFFICES ASSUME Init PROVE Map!Init
    OBVIOUS
  <2>1. StoredIds = {}
    BY DEF Init, StoredIds, Occupied, Empty
  <2>2. Stored = [i \in {} |-> i]
    BY <2>1 DEF Stored
  <2> QED BY <2>2 DEF Init, Map!Init, Map!Status
<1> QED BY <1>1, StepImplements, TableInvariant, PTL
         DEF Spec, ImplementsMap, Map!Spec

=============================================================================
