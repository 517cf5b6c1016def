------------------------- MODULE DescriptorSetsProofs -------------------------
(***************************************************************************)
(* Journal and leases for any number of pools, sets, banks and records and *)
(* any limits: SetsInv is inductive.  The service accepts every journal of *)
(* a working connection and would agree with the application about every   *)
(* set, leases are live and offered once, pool space is accounted for, and *)
(* the shared mode implements DescriptorPools.                             *)
(***************************************************************************)
EXTENDS DescriptorSets, SequenceTheorems, FiniteSetTheorems,
        WellFoundedInduction, TLAPS

(***************************************************************************)
(* Natural numbers.                                                        *)
(***************************************************************************)

\* A non-empty set of natural numbers has a least member.
LEMMA LeastMember ==
  ASSUME NEW S \in SUBSET Nat, S # {}
  PROVE  \E x \in S : \A y \in S : x <= y
<1> DEFINE R == {ss \in Nat \X Nat : ss[1] < ss[2]}
<1>1. IsWellFoundedOn(R, Nat)
  BY NatLessThanWellFounded DEF OpToRel
<1>2. \A y \in Nat, z \in Nat : y < z => <<y, z>> \in R
  <2> SUFFICES ASSUME NEW y \in Nat, NEW z \in Nat, y < z
               PROVE  <<y, z>> \in R
    OBVIOUS
  <2>1. <<y, z>> \in Nat \X Nat /\ <<y, z>>[1] = y /\ <<y, z>>[2] = z
    OBVIOUS
  <2>2. <<y, z>>[1] < <<y, z>>[2]
    BY <2>1
  <2> QED
    BY <2>1, <2>2, Zenon
<1> HIDE DEF R
<1>3. PICK x \in S : \A y \in S : ~ (<<y, x>> \in R)
  BY <1>1, WFMin
<1>4. ASSUME NEW y \in S PROVE x <= y
  <2>1. x \in Nat /\ y \in Nat
    OBVIOUS
  <2>2. ~(y < x)
    BY <1>2, <1>3, <2>1, Zenon
  <2> QED
    BY <2>1, <2>2
<1> QED
  BY <1>4

\* A set that holds zero and the successor of each of its members holds every
\* natural number.
LEMMA SetInduction ==
  ASSUME NEW T \in SUBSET Nat, 0 \in T, \A n \in T : n + 1 \in T
  PROVE  T = Nat
<1> SUFFICES ASSUME T # Nat PROVE FALSE
  OBVIOUS
<1>1. PICK x \in Nat \ T : \A y \in Nat \ T : x <= y
  BY LeastMember
<1>2. x - 1 \in Nat /\ ~(x <= x - 1) /\ (x - 1) + 1 = x
  BY <1>1
<1>3. x - 1 \in T
  BY <1>1, <1>2
<1> QED
  BY <1>1, <1>2, <1>3

\* The least and the greatest of two numbers.
LEMMA MinMaxOfTwo ==
  ASSUME NEW i \in Nat, NEW j \in Nat
  PROVE  /\ Min({i, j}) = IF i <= j THEN i ELSE j
         /\ Max({i, j}) = IF i >= j THEN i ELSE j
<1>1. \E x \in {i, j} : \A y \in {i, j} : x <= y
  OBVIOUS
<1>2. \E x \in {i, j} : \A y \in {i, j} : x >= y
  OBVIOUS
<1>3. Min({i, j}) \in {i, j} /\ \A y \in {i, j} : Min({i, j}) <= y
  BY <1>1, Zenon DEF Min
<1>4. Max({i, j}) \in {i, j} /\ \A y \in {i, j} : Max({i, j}) >= y
  BY <1>2, Zenon DEF Max
<1> QED
  BY <1>3, <1>4

\* The least member of a set of natural numbers is Min.
LEMMA MinOfSet ==
  ASSUME NEW S \in SUBSET Nat, S # {}
  PROVE  Min(S) \in S
<1>1. \E x \in S : \A y \in S : x <= y
  BY LeastMember
<1> QED
  BY <1>1, Zenon DEF Min

\* The greatest member of a bounded set of natural numbers is Max.
LEMMA MaxOfSet ==
  ASSUME NEW n \in Nat, NEW S \in SUBSET (1 .. n), S # {}
  PROVE  Max(S) \in S /\ \A y \in S : Max(S) >= y
<1> DEFINE D == {n - x : x \in S}
<1>1. D \in SUBSET Nat /\ D # {}
  <2>1. \A x \in S : n - x \in Nat
    OBVIOUS
  <2> QED
    BY <2>1
<1>2. PICK d \in D : \A e \in D : d <= e
  <2> HIDE DEF D
  <2> QED
    BY <1>1, LeastMember
<1>3. PICK x \in S : d = n - x
  BY <1>2
<1>4. \A y \in S : x >= y
  <2> SUFFICES ASSUME NEW y \in S PROVE x >= y
    OBVIOUS
  <2>1. n - y \in D
    OBVIOUS
  <2>2. n - x <= n - y
    BY <1>2, <1>3, <2>1
  <2>3. x \in Nat /\ y \in Nat
    BY <1>3
  <2> QED
    BY <2>2, <2>3
<1>5. \E z \in S : \A y \in S : z >= y
  BY <1>3, <1>4
<1> QED
  BY <1>5, Zenon DEF Max

\* Division and remainder by a positive number.
LEMMA DivMod ==
  ASSUME NEW m \in Nat, NEW n \in Nat, n > 0
  PROVE  /\ m \div n \in Nat /\ (m \div n) * n <= m
         /\ m \div n <= m
         /\ m % n \in 0 .. n - 1
         /\ m < n => m % n = m
  OBVIOUS

(***************************************************************************)
(* The sizes of batches.                                                   *)
(***************************************************************************)

\* A batch of whole repetitions is no larger than the largest request.
LEMMA BatchSetCountFacts ==
  ASSUME NEW n \in 1 .. MaxPerAllocate, NEW r \in Nat
  PROVE  BatchSetCount(n, r) \in 0 .. MaxPerAllocate
<1> DEFINE q == MaxPerAllocate \div n
           k == Min({r, q})
<1>1. MaxPerAllocate \in Nat
  BY LimitsAssumption
<1>2. q \in Nat /\ q * n <= MaxPerAllocate
  BY <1>1, DivMod
<1>3. k = IF r <= q THEN r ELSE q
  BY <1>2, MinMaxOfTwo
<1>4. k \in Nat /\ k <= q
  BY <1>2, <1>3
<1>5. BatchSetCount(n, r) = k * n
  BY DEF BatchSetCount, MaxRepetitions
<1> HIDE DEF q, k
<1>6. k * n \in Nat /\ k * n <= q * n
  BY <1>2, <1>4
<1> QED
  BY <1>1, <1>2, <1>5, <1>6

\* A smaller batch is smaller, and no smaller than the request.
LEMMA SmallerBatchFacts ==
  ASSUME NEW n \in Nat, n > 0, NEW c \in Nat, c > n
  PROVE  SmallerBatch(c, n) \in n .. c - 1
<1> DEFINE r == c \div n
           q == r \div 2
<1>1. r \in Nat /\ r * n <= c
  BY DivMod
<1>2. q \in Nat /\ 2 * q <= r
  BY <1>1
<1>3. SmallerBatch(c, n) = IF q > 1 THEN q * n ELSE n
  BY DEF SmallerBatch
<1> HIDE DEF r, q
<1>4. CASE q > 1
  <2>1. q * n \in Nat /\ q * n >= n /\ (2 * q) * n <= r * n
    BY <1>1, <1>2, <1>4
  <2>2. (2 * q) * n = q * n + q * n
    BY <1>2
  <2>3. q * n < c
    BY <1>1, <2>1, <2>2
  <2> QED
    BY <1>3, <1>4, <2>1, <2>3
<1>5. CASE ~(q > 1)
  BY <1>3, <1>5
<1> QED
  BY <1>4, <1>5

\* The loop of descriptor_lease_allocate_live_batch up to batches of m sets.
Tries(f, n, fit, m) ==
  f = [k \in 0 .. m |->
         IF k <= n \/ k > Room \/ k <= fit THEN k ELSE f[SmallerBatch(k, n)]]

\* There is such a function for every m.
LEMMA TriesExist ==
  ASSUME NEW n \in Nat, n > 0, NEW fit, NEW m \in Nat
  PROVE  \E f : Tries(f, n, fit, m)
<1> DEFINE T == {i \in Nat : \E f : Tries(f, n, fit, i)}
<1>1. 0 \in T
  <2>1. PICK f : f = [k \in 0 .. 0 |-> k]
    OBVIOUS
  <2>2. \A k \in 0 .. 0 : k <= n
    OBVIOUS
  <2>3. Tries(f, n, fit, 0)
    BY <2>1, <2>2 DEF Tries
  <2> QED
    BY <2>3
<1>2. ASSUME NEW i \in T PROVE i + 1 \in T
  <2>1. PICK g : Tries(g, n, fit, i)
    OBVIOUS
  <2>2. PICK f : f = [k \in 0 .. i + 1 |->
                        IF k = i + 1
                        THEN IF k <= n \/ k > Room \/ k <= fit THEN k
                             ELSE g[SmallerBatch(k, n)]
                        ELSE g[k]]
    OBVIOUS
  <2>3. i \in Nat
    OBVIOUS
  <2>4. \A j \in 0 .. i : f[j] = g[j]
    BY <2>2, <2>3
  <2>5. ASSUME NEW k \in 0 .. i + 1
        PROVE  f[k] = IF k <= n \/ k > Room \/ k <= fit THEN k
                      ELSE f[SmallerBatch(k, n)]
    <3>1. k \in Nat
      OBVIOUS
    <3>2. ASSUME ~(k <= n) PROVE f[SmallerBatch(k, n)] = g[SmallerBatch(k, n)]
      <4>1. SmallerBatch(k, n) \in n .. k - 1
        BY <3>1, <3>2, SmallerBatchFacts
      <4>2. SmallerBatch(k, n) \in 0 .. i
        BY <2>3, <4>1
      <4> QED
        BY <2>4, <4>2
    <3>3. CASE k = i + 1
      BY <2>2, <3>2, <3>3
    <3>4. CASE k # i + 1
      <4>1. k \in 0 .. i
        BY <2>3, <3>1, <3>4
      <4>2. g[k] = IF k <= n \/ k > Room \/ k <= fit THEN k
                   ELSE g[SmallerBatch(k, n)]
        BY <2>1, <4>1 DEF Tries
      <4> QED
        BY <2>4, <3>2, <4>1, <4>2
    <3> QED
      BY <3>3, <3>4
  <2>6. Tries(f, n, fit, i + 1)
    <3>1. DOMAIN f = 0 .. i + 1 /\ f = [k \in 0 .. i + 1 |-> f[k]]
      BY <2>2
    <3> QED
      BY <2>5, <3>1 DEF Tries
  <2> QED
    BY <2>6
<1> HIDE DEF T
<1>3. T = Nat
  <2>1. T \in SUBSET Nat
    BY DEF T
  <2> QED
    BY <1>1, <1>2, <2>1, SetInduction
<1> QED
  BY <1>3 DEF T

\* The batch that is made in the end lies between the request and the first
\* attempt.
LEMMA BatchTriedFacts ==
  ASSUME NEW n \in Nat, n > 0, NEW fit, NEW c \in n .. MaxPerAllocate
  PROVE  BatchTried(c, n, fit) \in n .. c
<1>1. MaxPerAllocate \in Nat
  BY LimitsAssumption
<1> DEFINE IsF(f) ==
      f = [k \in 0 .. MaxPerAllocate |->
             IF k <= n \/ k > Room \/ k <= fit THEN k ELSE f[SmallerBatch(k, n)]]
<1>2. \A f : IsF(f) <=> Tries(f, n, fit, MaxPerAllocate)
  BY Zenon DEF Tries
<1>3. \E f : IsF(f)
  <2> HIDE DEF IsF
  <2> QED
    BY <1>1, <1>2, TriesExist
<1>4. PICK f : f = CHOOSE g : IsF(g)
  OBVIOUS
<1>5. BatchTried(c, n, fit) = f[c]
  BY <1>4, Zenon DEF BatchTried
<1>6. IsF(f)
  <2> HIDE DEF IsF
  <2> QED
    BY <1>3, <1>4, Zenon
<1> DEFINE Bad == {k \in n .. MaxPerAllocate : f[k] \notin n .. k}
<1>7. ASSUME Bad # {} PROVE FALSE
  <2>1. Bad \in SUBSET Nat
    BY <1>1
  <2>2. PICK k \in Bad : \A j \in Bad : k <= j
    <3> HIDE DEF Bad
    <3> QED
      BY <1>7, <2>1, LeastMember
  <2>3. k \in n .. MaxPerAllocate /\ k \in 0 .. MaxPerAllocate /\ k \in Nat
        /\ f[k] \notin n .. k
    BY <1>1, <2>2
  <2>4. f[k] = IF k <= n \/ k > Room \/ k <= fit THEN k
               ELSE f[SmallerBatch(k, n)]
    BY <1>6, <2>3
  <2>5. k > n /\ f[k] = f[SmallerBatch(k, n)]
    BY <2>3, <2>4
  <2>6. PICK j : j = SmallerBatch(k, n)
    OBVIOUS
  <2>7. j \in n .. k - 1
    BY <2>3, <2>5, <2>6, SmallerBatchFacts
  <2>8. j \in n .. MaxPerAllocate /\ j \notin Bad
    BY <1>1, <2>2, <2>3, <2>7
  <2>9. f[j] \in n .. j
    BY <2>8
  <2> QED
    BY <2>3, <2>5, <2>6, <2>7, <2>9
<1>8. c \notin Bad
  BY <1>7
<1> QED
  BY <1>5, <1>8

(***************************************************************************)
(* The journal and the leases.                                             *)
(***************************************************************************)

Updates == [set : Serials, content : Contents]

\* A replay changes contents only, and only of the sets its records name.
LEMMA ReplayFacts ==
  ASSUME NEW D, NEW table \in [D -> SetRecords], NEW records \in Seq(Updates)
  PROVE  /\ Replay(table, records) \in [D -> SetRecords]
         /\ \A s \in D :
              /\ Replay(table, records)[s].pool = table[s].pool
              /\ Replay(table, records)[s].layout = table[s].layout
              /\ (\A k \in DOMAIN records : records[k].set # s)
                   => Replay(table, records)[s] = table[s]
<1> DEFINE new == Replay(table, records)
<1>1. DOMAIN new = D /\ new = [s \in D |-> new[s]]
  BY DEF Replay
<1>2. ASSUME NEW s \in D
      PROVE  /\ new[s] \in SetRecords
             /\ new[s].pool = table[s].pool /\ new[s].layout = table[s].layout
             /\ (\A k \in DOMAIN records : records[k].set # s)
                  => new[s] = table[s]
  <2>1. PICK R : R = RecordsOf(records, s)
    OBVIOUS
  <2>2. new[s] = IF R = {} THEN table[s]
                 ELSE [table[s] EXCEPT !.content = records[Max(R)].content]
    BY <2>1 DEF Replay
  <2>3. CASE R = {}
    BY <2>2, <2>3
  <2>4. CASE R # {}
    <3>1. DOMAIN records = 1 .. Len(records) /\ Len(records) \in Nat
      BY LenProperties
    <3>2. R \in SUBSET (1 .. Len(records))
      BY <2>1, <3>1 DEF RecordsOf
    <3>3. Max(R) \in R
      BY <2>4, <3>1, <3>2, MaxOfSet
    <3>4. records[Max(R)] \in Updates /\ records[Max(R)].set = s
      BY <2>1, <3>1, <3>2, <3>3 DEF RecordsOf
    <3>5. PICK c \in Contents : c = records[Max(R)].content
      BY <3>4 DEF Updates
    <3>6. new[s] = [table[s] EXCEPT !.content = c]
      BY <2>2, <2>4, <3>5
    <3>7. table[s] \in SetRecords
      OBVIOUS
    <3>8. Max(R) \in DOMAIN records
      BY <3>1, <3>2, <3>3
    <3> HIDE DEF new
    <3>9. new[s] \in SetRecords
          /\ new[s].pool = table[s].pool /\ new[s].layout = table[s].layout
      BY <3>6, <3>7 DEF SetRecords
    <3> QED
      BY <3>4, <3>8, <3>9
  <2> QED
    BY <2>3, <2>4
<1> HIDE DEF new
<1>3. new \in [D -> SetRecords]
  BY <1>1, <1>2
<1>4. \A s \in D :
        /\ new[s].pool = table[s].pool
        /\ new[s].layout = table[s].layout
        /\ (\A k \in DOMAIN records : records[k].set # s) => new[s] = table[s]
  BY <1>2
<1> QED
  BY <1>3, <1>4 DEF new

\* An empty journal changes nothing.
LEMMA ReplayEmpty ==
  ASSUME NEW D, NEW table \in [D -> SetRecords]
  PROVE  Replay(table, <<>>) = table
<1>1. \A s : RecordsOf(<<>>, s) = {}
  BY DEF RecordsOf
<1> QED
  BY <1>1 DEF Replay

\* One more record decides the content of its set and nothing else.
LEMMA ReplayAppend ==
  ASSUME NEW D, NEW table \in [D -> SetRecords], NEW records \in Seq(Updates),
         NEW r \in Updates, NEW s \in D
  PROVE  /\ s = r.set => Replay(table, Append(records, r))[s]
                          = [Replay(table, records)[s] EXCEPT !.content = r.content]
         /\ s # r.set => Replay(table, Append(records, r))[s]
                          = Replay(table, records)[s]
<1> DEFINE n == Len(records)
           more == Append(records, r)
           old == RecordsOf(records, s)
           new == RecordsOf(more, s)
<1>1. /\ n \in Nat /\ DOMAIN records = 1 .. n
      /\ DOMAIN more = 1 .. n + 1 /\ more[n + 1] = r
      /\ \A k \in 1 .. n : more[k] = records[k]
  BY LenProperties, AppendProperties
<1>2. Replay(table, more)[s] =
        IF new = {} THEN table[s]
        ELSE [table[s] EXCEPT !.content = more[Max(new)].content]
  BY DEF Replay
<1>3. Replay(table, records)[s] =
        IF old = {} THEN table[s]
        ELSE [table[s] EXCEPT !.content = records[Max(old)].content]
  BY DEF Replay
<1>4. CASE s = r.set
  <2>1. n + 1 \in new /\ new \in SUBSET (1 .. n + 1)
    BY <1>1, <1>4 DEF RecordsOf
  <2>2. Max(new) \in new /\ \A y \in new : Max(new) >= y
    <3> HIDE DEF new, n
    <3> QED
      BY <1>1, <2>1, MaxOfSet
  <2>3. Max(new) = n + 1
    <3>1. PICK x : x = Max(new)
      OBVIOUS
    <3>2. x \in 1 .. n + 1 /\ x >= n + 1
      BY <2>1, <2>2, <3>1
    <3> QED
      BY <1>1, <3>1, <3>2
  <2>4. Replay(table, more)[s] = [table[s] EXCEPT !.content = r.content]
    BY <1>1, <1>2, <2>1, <2>3
  <2>5. PICK t \in SetRecords : t = table[s]
    OBVIOUS
  <2>6. \A c : [[t EXCEPT !.content = c] EXCEPT !.content = r.content]
                 = [t EXCEPT !.content = r.content]
    BY <2>5 DEF SetRecords
  <2> HIDE DEF old, new
  <2> QED
    BY <1>3, <1>4, <2>4, <2>5, <2>6
<1>5. CASE s # r.set
  <2>1. new = old
    BY <1>1, <1>5 DEF RecordsOf
  <2>2. CASE old = {}
    BY <1>2, <1>3, <1>5, <2>1, <2>2
  <2>3. CASE old # {}
    <3>1. old \in SUBSET (1 .. n)
      BY <1>1 DEF RecordsOf
    <3>2. Max(old) \in 1 .. n
      <4> HIDE DEF old, n
      <4> QED
        BY <1>1, <2>3, <3>1, MaxOfSet
    <3>3. more[Max(old)] = records[Max(old)]
      BY <1>1, <3>2
    <3> HIDE DEF old, new
    <3> QED
      BY <1>2, <1>3, <1>5, <2>1, <2>3, <3>3
  <2> QED
    BY <2>2, <2>3
<1> QED
  BY <1>4, <1>5

\* The leases of a bank by their places in the bank.
LEMMA UnclaimedFacts ==
  ASSUME TablesKnown, NEW b \in Banks
  PROVE  /\ banks[b].ready => Len(Unclaimed(b)) = Len(banks[b].records) - banks[b].cursor
         /\ ~banks[b].ready => Unclaimed(b) = <<>>
         /\ \A k \in DOMAIN Unclaimed(b) :
              /\ k \in Nat /\ banks[b].cursor + k \in Offered(b)
              /\ Unclaimed(b)[k] = banks[b].records[banks[b].cursor + k]
         /\ \A j \in Offered(b) : \E k \in DOMAIN Unclaimed(b) :
              j = banks[b].cursor + k
         /\ banks[b].ready => DOMAIN Unclaimed(b) = 1 .. Len(Unclaimed(b))
<1>1. PICK r : r = banks[b].records
  OBVIOUS
<1>2. PICK c : c = banks[b].cursor
  OBVIOUS
<1>3. r \in Seq(LeaseRecords) /\ c \in 0 .. Len(r)
  BY <1>1, <1>2 DEF TablesKnown, TypeOK, BankRecords
<1>4. Len(r) \in Nat /\ DOMAIN r = 1 .. Len(r)
  BY <1>3, LenProperties
<1>5. CASE banks[b].ready
  <2>1. PICK u : u = SubSeq(r, c + 1, Len(r))
    OBVIOUS
  <2>2. Unclaimed(b) = u
    BY <1>1, <1>2, <1>5, <2>1 DEF Unclaimed
  <2>3. /\ Len(u) = Len(r) - c /\ DOMAIN u = 1 .. Len(r) - c
        /\ \A k \in 1 .. Len(r) - c : u[k] = r[c + k]
    <3>1. /\ c + 1 \in Int /\ Len(r) \in Int
          /\ \A i \in c + 1 .. Len(r) : r[i] \in LeaseRecords
      BY <1>3, <1>4
    <3>2. /\ u \in Seq(LeaseRecords)
          /\ Len(u) = IF c + 1 <= Len(r) THEN Len(r) - (c + 1) + 1 ELSE 0
          /\ \A k \in 1 .. Len(r) - (c + 1) + 1 : u[k] = r[c + 1 + k - 1]
      <4>1. PICK m \in Int : m = c + 1
        BY <3>1
      <4>2. PICK n \in Int : n = Len(r)
        BY <3>1
      <4>3. /\ SubSeq(r, m, n) \in Seq(LeaseRecords)
            /\ Len(SubSeq(r, m, n)) = IF m <= n THEN n - m + 1 ELSE 0
            /\ \A i \in 1 .. n - m + 1 : SubSeq(r, m, n)[i] = r[m + i - 1]
        BY <3>1, <4>1, <4>2, SubSeqProperties
      <4> QED
        BY <2>1, <4>1, <4>2, <4>3
    <3>3. Len(u) = Len(r) - c /\ Len(r) - (c + 1) + 1 = Len(r) - c
      <4>1. PICK n \in Nat : n = Len(r)
        BY <1>4
      <4>2. c \in 0 .. n /\ Len(u) = IF c + 1 <= n THEN n - (c + 1) + 1 ELSE 0
        BY <1>3, <3>2, <4>1
      <4> QED
        BY <4>1, <4>2
    <3>4. \A k \in 1 .. Len(r) - c : u[k] = r[c + k]
      <4> SUFFICES ASSUME NEW k \in 1 .. Len(r) - c PROVE u[k] = r[c + k]
        OBVIOUS
      <4>1. c + 1 + k - 1 = c + k
        BY <1>3, <1>4
      <4> QED
        BY <3>2, <3>3, <4>1
    <3>5. DOMAIN u = 1 .. Len(u)
      BY <3>2, LenProperties
    <3> QED
      BY <3>3, <3>4, <3>5
  <2>4. Offered(b) = (c + 1) .. Len(r)
    BY <1>1, <1>2, <1>3, <1>4, <1>5 DEF Offered
  <2>5. \A k \in 1 .. Len(r) - c : k \in Nat /\ c + k \in (c + 1) .. Len(r)
    BY <1>3, <1>4
  <2>6. \A j \in (c + 1) .. Len(r) : \E k \in 1 .. Len(r) - c : j = c + k
    <3> SUFFICES ASSUME NEW j \in (c + 1) .. Len(r)
                 PROVE  \E k \in 1 .. Len(r) - c : j = c + k
      OBVIOUS
    <3>1. j - c \in 1 .. Len(r) - c /\ j = c + (j - c)
      BY <1>3, <1>4
    <3> QED
      BY <3>1
  <2> QED
    BY <1>1, <1>2, <1>5, <2>2, <2>3, <2>4, <2>5, <2>6, SMTT(40)
<1>6. CASE ~banks[b].ready
  <2>1. Unclaimed(b) = <<>> /\ Offered(b) = {}
    BY <1>6 DEF Unclaimed, Offered
  <2> QED
    BY <1>6, <2>1
<1> QED
  BY <1>5, <1>6

(***************************************************************************)
(* The invariant: steps that change contents.                              *)
(***************************************************************************)

\* The limits are positive numbers, and the empty plan and bank have types.
LEMMA Constants ==
  /\ MaxSets \in Nat \ {0} /\ BankCount \in Nat \ {0}
  /\ MaxPerAllocate \in Nat \ {0} /\ MaxRecords \in Nat \ {0}
  /\ MaxSequence \in Nat \ {0} /\ MaxEpoch \in Nat \ {0}
  /\ TableRoom \in Nat /\ MaxSerial \in Nat
  /\ Max({2, MaxPerAllocate}) \in Nat /\ Max({2, MaxPerAllocate}) >= 2
  /\ Max({2, MaxPerAllocate}) >= MaxPerAllocate
  /\ Serials \subseteq Nat
<1>1. MaxPerAllocate \in Nat
  BY LimitsAssumption
<1>2. Max({2, MaxPerAllocate})
        = IF 2 >= MaxPerAllocate THEN 2 ELSE MaxPerAllocate
  BY <1>1, MinMaxOfTwo
<1>3. Max({2, MaxPerAllocate}) \in Nat /\ Max({2, MaxPerAllocate}) >= 2
      /\ Max({2, MaxPerAllocate}) >= MaxPerAllocate
  BY <1>1, <1>2
<1> QED
  BY <1>3, LimitsAssumption DEF Serials

\* An unused bank and an unused plan have their types and offer nothing.
LEMMA EmptyFacts ==
  /\ NoPlan \in PlanRecords /\ NoBank \in BankRecords
  /\ ~NoPlan.published /\ ~NoPlan.batch_disabled
  /\ ~NoBank.ready /\ NoBank.cursor = 0 /\ NoBank.records = <<>>
<1>1. <<>> \in Seq(Layouts) /\ <<>> \in Seq(LeaseRecords)
  OBVIOUS
<1>2. NoPlan \in PlanRecords
  BY <1>1, Constants DEF NoPlan, PlanRecords
<1>3. NoBank \in BankRecords
  BY <1>1, Constants DEF NoBank, BankRecords
<1> QED
  BY <1>2, <1>3 DEF NoPlan, NoBank

\* The invariant holds at the start.
LEMMA SetsInvInit == Init => SetsInv
<1> SUFFICES ASSUME Init PROVE SetsInv
  OBVIOUS
<1>1. DOMAIN NoSets = {} /\ \A S : NoSets \in [DOMAIN NoSets -> S]
  BY DEF NoSets
<1>2. \A b \in Banks : lease_plans[b] = NoPlan /\ banks[b] = NoBank
  BY DEF Init
<1>3. <<>> \in Seq(Updates) /\ Len(<<>>) = 0 /\ DOMAIN <<>> = {}
  OBVIOUS
<1>4. TypeOK
  <2>1. \A table \in {proxies, sets, submitted} : DOMAIN table = {}
    BY <1>1 DEF Init
  <2>2. DOMAIN proxies \cup DOMAIN sets \cup used \subseteq Serials
    BY <1>1 DEF Init
  <2>3. /\ poisoned \in BOOLEAN /\ link \in {"up", "down"}
        /\ pool \in [Pools -> {"none", "live", "gone"}]
        /\ journal \in Seq(Updates) /\ Len(journal) <= MaxRecords
        /\ journal_sequence \in 1..MaxSequence /\ last_sequence \in 0..MaxSequence
        /\ next_serial \in 1..(MaxSerial + 1)
    <3>1. poisoned \in BOOLEAN
      BY DEF Init
    <3>2. link \in {"up", "down"} /\ pool \in [Pools -> {"none", "live", "gone"}]
      BY DEF Init
    <3>3. journal \in Seq(Updates) /\ Len(journal) <= MaxRecords
      BY <1>3, Constants DEF Init
    <3>4. /\ journal_sequence \in 1..MaxSequence /\ last_sequence \in 0..MaxSequence
          /\ next_serial \in 1..(MaxSerial + 1)
      BY Constants DEF Init
    <3> QED
      BY <3>1, <3>2, <3>3, <3>4
  <2>4. \A b \in Banks :
          /\ lease_plans[b].batch_repetitions \in 0..Max({2, MaxPerAllocate})
          /\ lease_plans[b].observed \in 0..2
          /\ lease_plans[b].epoch \in 0..MaxEpoch
          /\ banks[b].cursor \in 0..Len(banks[b].records)
    BY <1>2, <1>3, Constants DEF NoPlan, NoBank
  <2>5. \A table \in {proxies, sets, submitted} : \A s \in DOMAIN table :
          table[s] \in [pool : Pools, layout : Layouts,
                        content : Contents \cup {Blank}]
    BY <2>1, Zenon
  <2> QED
    BY <2>2, <2>3, <2>4, <2>5, Zenon DEF TypeOK, Updates
<1>5. TablesKnown
  <2>1. lease_plans \in [Banks -> PlanRecords] /\ banks \in [Banks -> BankRecords]
    BY EmptyFacts DEF Init
  <2> QED
    BY <1>1, <1>4, <2>1 DEF TablesKnown, Init
<1>6. SerialsKnown
  BY <1>1, <1>2, EmptyFacts DEF SerialsKnown, Init
<1>7. JournalKnown /\ InSync
  BY <1>1, <1>3 DEF JournalKnown, InSync, Init
<1>8. \A b \in Banks : Offered(b) = {}
  BY <1>2, EmptyFacts DEF Offered
<1>9. OffersKnown /\ BanksKnown /\ SpaceKnown
  BY <1>1, <1>2, <1>8, EmptyFacts DEF OffersKnown, BanksKnown, SpaceKnown, Init
<1> QED
  BY <1>5, <1>6, <1>7, <1>9 DEF SetsInv

\* What a journal does to the table of the service.
LEMMA CurrentFacts ==
  ASSUME SetsInv
  PROVE  /\ journal \in Seq(Updates)
         /\ Current \in [DOMAIN sets -> SetRecords]
         /\ \A s \in DOMAIN sets : Current[s].pool = sets[s].pool
         /\ Working => \A s \in DOMAIN sets \ DOMAIN proxies :
                         Current[s] = sets[s]
         /\ Working => \A s \in DOMAIN proxies :
                         s \in DOMAIN sets /\ Current[s] = proxies[s]
<1>1. journal \in Seq(Updates) /\ sets \in [DOMAIN sets -> SetRecords]
  BY DEF SetsInv, TablesKnown, TypeOK, Updates
<1>2. /\ Replay(sets, journal) \in [DOMAIN sets -> SetRecords]
      /\ \A s \in DOMAIN sets :
           /\ Replay(sets, journal)[s].pool = sets[s].pool
           /\ (\A k \in DOMAIN journal : journal[k].set # s)
                => Replay(sets, journal)[s] = sets[s]
  BY <1>1, ReplayFacts
<1>3. Working => \A k \in DOMAIN journal : journal[k].set \in DOMAIN proxies
  BY DEF SetsInv, JournalKnown
<1>4. Working => \A s \in DOMAIN proxies : s \in DOMAIN sets /\ Current[s] = proxies[s]
  BY DEF SetsInv, InSync, Working
<1> QED
  BY <1>1, <1>2, <1>3, <1>4 DEF Current

\* The journal of a working connection is accepted and leaves an empty one.
LEMMA JournalFacts ==
  ASSUME SetsInv, Working
  PROVE  /\ journal_sequence < MaxSequence => Accepted
         /\ Flushed \/ Applied =>
              /\ journal' = <<>> /\ journal' \in Seq(Updates)
              /\ Len(journal') <= MaxRecords /\ DOMAIN journal' = {}
              /\ journal_sequence' \in 1..MaxSequence
              /\ last_sequence' \in 0..MaxSequence
              /\ journal_sequence' = last_sequence' + 1
<1>1. /\ journal_sequence \in 1..MaxSequence /\ last_sequence \in 0..MaxSequence
      /\ journal_sequence = last_sequence + 1
      /\ \A k \in DOMAIN journal : journal[k].set \in DOMAIN proxies
  BY DEF SetsInv, TablesKnown, TypeOK, JournalKnown
<1>2. \A s \in DOMAIN proxies : s \in DOMAIN sets
  BY CurrentFacts
<1>3. journal_sequence < MaxSequence => Accepted
  BY <1>1, <1>2, Constants DEF Accepted
<1>4. <<>> \in Seq(Updates) /\ Len(<<>>) <= MaxRecords /\ DOMAIN <<>> = {}
  BY Constants
<1>5. ASSUME Applied
      PROVE  /\ journal' = <<>> /\ journal_sequence' \in 1..MaxSequence
             /\ last_sequence' \in 0..MaxSequence
             /\ journal_sequence' = last_sequence' + 1
  BY <1>1, <1>5, Constants DEF Applied
<1>6. ASSUME journal = <<>>, UNCHANGED <<journal, journal_sequence, last_sequence>>
      PROVE  /\ journal' = <<>> /\ journal_sequence' \in 1..MaxSequence
             /\ last_sequence' \in 0..MaxSequence
             /\ journal_sequence' = last_sequence' + 1
  BY <1>1, <1>6
<1> QED
  BY <1>3, <1>4, <1>5, <1>6 DEF Flushed

\* The types after a step, from the types of the tables.
LEMMA TablesNext ==
  ASSUME SetsInv, poisoned' \in BOOLEAN, link' \in {"up", "down"},
         pool' \in [Pools -> {"none", "live", "gone"}],
         journal' \in Seq(Updates), Len(journal') <= MaxRecords,
         journal_sequence' \in 1..MaxSequence, last_sequence' \in 0..MaxSequence,
         next_serial' \in 1..(MaxSerial + 1),
         DOMAIN proxies' \cup DOMAIN sets' \cup used' \subseteq Serials,
         proxies' \in [DOMAIN proxies' -> SetRecords],
         sets' \in [DOMAIN sets' -> SetRecords],
         \A s \in DOMAIN submitted' : submitted'[s] \in SetRecords,
         lease_plans' \in [Banks -> PlanRecords],
         banks' \in [Banks -> BankRecords],
         \A b \in Banks : banks'[b].cursor \in 0..Len(banks'[b].records)
  PROVE  TablesKnown'
<1>1. \A table \in {proxies', sets', submitted'} : \A s \in DOMAIN table :
        table[s] \in [pool : Pools, layout : Layouts,
                      content : Contents \cup {Blank}]
  <2>1. \A s \in DOMAIN proxies' : proxies'[s] \in SetRecords
    OBVIOUS
  <2>2. \A s \in DOMAIN sets' : sets'[s] \in SetRecords
    OBVIOUS
  <2> QED
    BY <2>1, <2>2, Zenon DEF SetRecords
<1>2. \A b \in Banks :
        /\ lease_plans'[b].batch_repetitions \in 0..Max({2, MaxPerAllocate})
        /\ lease_plans'[b].observed \in 0..2
        /\ lease_plans'[b].epoch \in 0..MaxEpoch
        /\ banks'[b].cursor \in 0..Len(banks'[b].records)
  <2>1. \A b \in Banks : lease_plans'[b] \in PlanRecords
    OBVIOUS
  <2> QED
    BY <2>1 DEF PlanRecords
<1>3. journal' \in Seq([set : Serials, content : Contents])
  BY DEF Updates
<1>4. TypeOK'
  BY <1>1, <1>2, <1>3, Zenon DEF TypeOK, Banks
<1> QED
  BY <1>4, Zenon DEF TablesKnown, Banks, PlanRecords, BankRecords, SetRecords

\* What the invariant says about ids and banks, in one place.
LEMMA TableFacts ==
  ASSUME SetsInv
  PROVE  /\ proxies \in [DOMAIN proxies -> SetRecords]
         /\ sets \in [DOMAIN sets -> SetRecords]
         /\ DOMAIN proxies \subseteq Serials /\ DOMAIN sets \subseteq Serials
         /\ used \subseteq Serials /\ DOMAIN proxies \subseteq used
         /\ next_serial \in 1..(MaxSerial + 1)
         /\ \A s \in used \cup DOMAIN sets : s < next_serial
         /\ lease_plans \in [Banks -> PlanRecords]
         /\ banks \in [Banks -> BankRecords]
         /\ \A b \in Banks : banks[b].cursor \in 0..Len(banks[b].records)
         /\ \A b \in Banks : \A k \in DOMAIN banks[b].records :
              banks[b].records[k].set < next_serial
         /\ pool \in [Pools -> {"none", "live", "gone"}]
         /\ link \in {"up", "down"}
         /\ journal \in Seq(Updates) /\ Len(journal) <= MaxRecords
         /\ journal_sequence \in 1..MaxSequence
         /\ last_sequence \in 0..MaxSequence
  BY DEF SetsInv, TablesKnown, TypeOK, SerialsKnown, Updates

\* poisoned is a truth value.
LEMMA PoisonedType == SetsInv => poisoned \in BOOLEAN
  BY DEF SetsInv, TablesKnown, TypeOK

\* A working connection goes on: the sets stay, and contents change only where
\* the application has a proxy, in step with it.
LEMMA ContentStep ==
  ASSUME SetsInv, Working,
         UNCHANGED <<poisoned, link, next_serial, lease_plans, banks, used>>,
         pool' \in [Pools -> {"none", "live", "gone"}],
         \A p \in Pools : pool[p] = "live" => pool'[p] = "live",
         journal' \in Seq(Updates), Len(journal') <= MaxRecords,
         journal_sequence' \in 1..MaxSequence, last_sequence' \in 0..MaxSequence,
         journal_sequence' = last_sequence' + 1,
         \A k \in DOMAIN journal' : journal'[k].set \in DOMAIN proxies,
         sets' \in [DOMAIN sets -> SetRecords],
         \A s \in DOMAIN sets : sets'[s].pool = sets[s].pool,
         \A s \in DOMAIN sets \ DOMAIN proxies : sets'[s] = sets[s],
         proxies' \in [DOMAIN proxies -> SetRecords],
         \A s \in DOMAIN proxies : Replay(sets', journal')[s] = proxies'[s],
         \A s \in DOMAIN submitted' : submitted'[s] \in SetRecords
  PROVE  SetsInv'
<1>1. DOMAIN sets' = DOMAIN sets /\ DOMAIN proxies' = DOMAIN proxies
  OBVIOUS
<1>2. Working' <=> Working
  BY DEF Working
<1>3. TablesKnown'
  <2>1. poisoned' \in BOOLEAN
    BY PoisonedType
  <2> QED
    BY <1>1, <2>1, TableFacts, TablesNext
<1>4. SerialsKnown'
  BY <1>1 DEF SetsInv, SerialsKnown, Banks
<1>5. JournalKnown'
  BY <1>1 DEF JournalKnown
<1>6. InSync'
  <2>1. \A s \in DOMAIN proxies : s \in DOMAIN sets
    BY CurrentFacts
  <2> QED
    BY <1>1, <2>1 DEF InSync, Current
<1>7. \A b \in Banks : Offered(b)' = Offered(b)
  BY DEF Offered
<1>8. OffersKnown'
  BY <1>7 DEF SetsInv, OffersKnown, Banks
<1>9. \A b \in Banks : \A k \in Offered(b) :
        banks[b].records[k].set \notin DOMAIN proxies
  BY TableFacts DEF SetsInv, OffersKnown, Working
<1>10. BanksKnown'
  BY <1>1, <1>7, <1>9 DEF SetsInv, BanksKnown, Banks
<1>11. SpaceKnown'
  BY <1>1, <1>7 DEF SetsInv, SpaceKnown, Banks
<1> QED
  BY <1>3, <1>4, <1>5, <1>6, <1>8, <1>10, <1>11 DEF SetsInv

\* NoSets holds no record.
LEMMA NoSetsEmpty == \A s \in DOMAIN NoSets : NoSets[s] \in SetRecords
  BY DEF NoSets

\* The requests that only flush the journal.
LEMMA FlushStep ==
  ASSUME SetsInv, Exchange, sets' = Current,
         UNCHANGED <<poisoned, link, proxies, next_serial, lease_plans, banks, used>>,
         pool' \in [Pools -> {"none", "live", "gone"}],
         \A p \in Pools : pool[p] = "live" => pool'[p] = "live",
         \A s \in DOMAIN submitted' : submitted'[s] \in SetRecords
  PROVE  SetsInv'
<1>1. Working /\ Flushed
  BY DEF Exchange, Working
<1>2. /\ journal' = <<>> /\ journal' \in Seq(Updates)
      /\ Len(journal') <= MaxRecords /\ DOMAIN journal' = {}
      /\ journal_sequence' \in 1..MaxSequence /\ last_sequence' \in 0..MaxSequence
      /\ journal_sequence' = last_sequence' + 1
  BY <1>1, JournalFacts
<1>3. /\ sets' \in [DOMAIN sets -> SetRecords]
      /\ \A s \in DOMAIN sets : sets'[s].pool = sets[s].pool
      /\ \A s \in DOMAIN sets \ DOMAIN proxies : sets'[s] = sets[s]
      /\ \A s \in DOMAIN proxies : s \in DOMAIN sets /\ sets'[s] = proxies[s]
  BY <1>1, CurrentFacts
<1>4. Replay(sets', journal') = sets'
  BY <1>2, <1>3, ReplayEmpty
<1> QED
  BY <1>1, <1>2, <1>3, <1>4, TableFacts, ContentStep

\* A new pool has no sets and no banks.
LEMMA CreatePoolStep ==
  ASSUME SetsInv, NEW p \in Pools, CreatePool(p)
  PROVE  SetsInv'
<1>1. /\ Exchange /\ sets' = Current /\ submitted' = NoSets
      /\ UNCHANGED <<poisoned, link, proxies, next_serial, lease_plans, banks, used>>
      /\ pool' = [pool EXCEPT ![p] = "live"]
  BY DEF CreatePool, NothingReturned
<1>2. pool' \in [Pools -> {"none", "live", "gone"}]
      /\ \A q \in Pools : pool[q] = "live" => pool'[q] = "live"
  BY <1>1, TableFacts
<1> QED
  BY <1>1, <1>2, NoSetsEmpty, FlushStep

\* A submission only takes the journal with it.
LEMMA SubmitStep ==
  ASSUME SetsInv, Submit
  PROVE  SetsInv'
<1>1. /\ Exchange /\ sets' = Current
      /\ submitted' = [s \in DOMAIN proxies \cap DOMAIN sets |-> Current[s]]
      /\ UNCHANGED <<poisoned, link, pool, proxies, next_serial, lease_plans,
                     banks, used>>
  BY DEF Submit
<1>2. \A s \in DOMAIN submitted' : submitted'[s] \in SetRecords
  BY <1>1, CurrentFacts
<1> QED
  BY <1>1, <1>2, TableFacts, FlushStep

\* So does any other request.
LEMMA OtherExchangeStep ==
  ASSUME SetsInv, OtherExchange
  PROVE  SetsInv'
<1>1. /\ Exchange /\ sets' = Current /\ submitted' = NoSets
      /\ UNCHANGED <<poisoned, link, pool, proxies, next_serial, lease_plans,
                     banks, used>>
  BY DEF OtherExchange, NothingReturned
<1> QED
  BY <1>1, NoSetsEmpty, TableFacts, FlushStep

\* One content is overwritten.
LEMMA OneContent ==
  ASSUME NEW D, NEW table \in [D -> SetRecords], NEW s \in D, NEW c \in Contents
  PROVE  /\ [table EXCEPT ![s].content = c] \in [D -> SetRecords]
         /\ [table EXCEPT ![s].content = c][s] = [table[s] EXCEPT !.content = c]
         /\ [table EXCEPT ![s].content = c][s].pool = table[s].pool
         /\ \A t \in D : t # s =>
              [table EXCEPT ![s].content = c][t] = table[t]
<1>1. PICK r \in SetRecords : r = table[s]
  OBVIOUS
<1>2. [r EXCEPT !.content = c] \in SetRecords
      /\ [r EXCEPT !.content = c].pool = r.pool
  BY DEF SetRecords
<1>3. [table EXCEPT ![s].content = c] = [table EXCEPT ![s] = [r EXCEPT !.content = c]]
  BY <1>1
<1> QED
  BY <1>1, <1>2, <1>3

\* vkUpdateDescriptorSets changes the set on both sides, behind the journal.
LEMMA UpdateStep ==
  ASSUME SetsInv, NEW s \in Serials, NEW c \in Contents, UpdateDescriptorSets(s, c)
  PROVE  SetsInv'
<1>1. /\ Exchange /\ s \in DOMAIN proxies /\ submitted' = NoSets
      /\ sets' = Overwrite(Current, [set |-> s, content |-> c])
      /\ proxies' = [proxies EXCEPT ![s].content = c]
      /\ UNCHANGED <<poisoned, link, pool, next_serial, lease_plans, banks, used>>
  BY DEF UpdateDescriptorSets, NothingReturned
<1>2. Working /\ Flushed
  BY <1>1 DEF Exchange, Working
<1>3. /\ journal' = <<>> /\ journal' \in Seq(Updates)
      /\ Len(journal') <= MaxRecords /\ DOMAIN journal' = {}
      /\ journal_sequence' \in 1..MaxSequence /\ last_sequence' \in 0..MaxSequence
      /\ journal_sequence' = last_sequence' + 1
  BY <1>2, JournalFacts
<1>4. PICK cur : cur = Current
  OBVIOUS
<1>5. /\ cur \in [DOMAIN sets -> SetRecords]
      /\ \A t \in DOMAIN sets : cur[t].pool = sets[t].pool
      /\ \A t \in DOMAIN sets \ DOMAIN proxies : cur[t] = sets[t]
      /\ \A t \in DOMAIN proxies : t \in DOMAIN sets /\ cur[t] = proxies[t]
  BY <1>2, <1>4, CurrentFacts
<1>6. s \in DOMAIN sets /\ sets' = [cur EXCEPT ![s].content = c]
  BY <1>1, <1>4, <1>5 DEF Overwrite
<1>7. /\ sets' \in [DOMAIN sets -> SetRecords]
      /\ sets'[s] = [cur[s] EXCEPT !.content = c] /\ sets'[s].pool = cur[s].pool
      /\ \A t \in DOMAIN sets : t # s => sets'[t] = cur[t]
  BY <1>5, <1>6, OneContent
<1>8. /\ proxies' \in [DOMAIN proxies -> SetRecords]
      /\ proxies'[s] = [proxies[s] EXCEPT !.content = c]
      /\ \A t \in DOMAIN proxies : t # s => proxies'[t] = proxies[t]
  BY <1>1, TableFacts, OneContent
<1>9. Replay(sets', journal') = sets'
  BY <1>3, <1>7, ReplayEmpty
<1>10. \A t \in DOMAIN proxies : Replay(sets', journal')[t] = proxies'[t]
  BY <1>1, <1>5, <1>7, <1>8, <1>9
<1>11. /\ \A t \in DOMAIN sets : sets'[t].pool = sets[t].pool
       /\ \A t \in DOMAIN sets \ DOMAIN proxies : sets'[t] = sets[t]
  BY <1>1, <1>5, <1>7
<1> QED
  BY <1>1, <1>2, <1>3, <1>7, <1>8, <1>10, <1>11, TableFacts, NoSetsEmpty,
     ContentStep

\* An update in the journal changes the proxy now and the set when it is
\* replayed; a full journal is flushed first.
LEMMA TemplateStep ==
  ASSUME SetsInv, NEW s \in Serials, NEW c \in Contents, Working,
         UpdateDescriptorSetWithTemplate(s, c)
  PROVE  SetsInv'
<1> DEFINE r == [set |-> s, content |-> c]
<1>1. /\ s \in DOMAIN proxies /\ submitted' = NoSets
      /\ proxies' = [proxies EXCEPT ![s].content = c]
      /\ UNCHANGED <<poisoned, link, pool, next_serial, lease_plans, banks, used>>
  BY DEF UpdateDescriptorSetWithTemplate, NothingReturned
<1>2. r \in Updates /\ r.set = s /\ r.content = c
  BY DEF Updates
<1>3. /\ proxies' \in [DOMAIN proxies -> SetRecords]
      /\ proxies'[s] = [proxies[s] EXCEPT !.content = c]
      /\ \A t \in DOMAIN proxies : t # s => proxies'[t] = proxies[t]
  BY <1>1, TableFacts, OneContent
<1>4. PICK cur : cur = Current
  OBVIOUS
<1>5. /\ cur \in [DOMAIN sets -> SetRecords]
      /\ \A t \in DOMAIN sets : cur[t].pool = sets[t].pool
      /\ \A t \in DOMAIN sets \ DOMAIN proxies : cur[t] = sets[t]
      /\ \A t \in DOMAIN proxies : t \in DOMAIN sets /\ cur[t] = proxies[t]
  BY <1>4, CurrentFacts
<1>6. /\ journal_sequence = last_sequence + 1
      /\ \A k \in DOMAIN journal : journal[k].set \in DOMAIN proxies
      /\ Len(journal) \in Nat /\ DOMAIN journal = 1 .. Len(journal)
  BY TableFacts, LenProperties DEF SetsInv, JournalKnown
<1> HIDE DEF r
<1>7. CASE /\ Len(journal) < MaxRecords
           /\ journal' = Append(journal, r)
           /\ UNCHANGED <<journal_sequence, last_sequence, sets>>
  <2>1. /\ journal' \in Seq(Updates) /\ Len(journal') = Len(journal) + 1
        /\ DOMAIN journal' = 1 .. Len(journal) + 1
        /\ journal'[Len(journal) + 1] = r
        /\ \A k \in 1 .. Len(journal) : journal'[k] = journal[k]
    BY <1>2, <1>7, TableFacts, AppendProperties, LenProperties
  <2>2. \A k \in DOMAIN journal' : journal'[k].set \in DOMAIN proxies
    <3> SUFFICES ASSUME NEW k \in 1 .. Len(journal) + 1
                 PROVE  journal'[k].set \in DOMAIN proxies
      BY <2>1
    <3>1. k = Len(journal) + 1 \/ k \in 1 .. Len(journal)
      BY <1>6
    <3> QED
      BY <1>1, <1>2, <1>6, <2>1, <3>1
  <2>3. Len(journal') <= MaxRecords
    BY <1>6, <1>7, <2>1, Constants
  <2>4. ASSUME NEW t \in DOMAIN proxies
        PROVE  Replay(sets', journal')[t] = proxies'[t]
    <3>1. /\ sets \in [DOMAIN sets -> SetRecords] /\ journal \in Seq(Updates)
          /\ t \in DOMAIN sets
      BY <1>5, TableFacts
    <3>2. /\ t = s => Replay(sets, Append(journal, r))[t]
                        = [Replay(sets, journal)[t] EXCEPT !.content = r.content]
          /\ t # s => Replay(sets, Append(journal, r))[t]
                        = Replay(sets, journal)[t]
      BY <1>2, <3>1, ReplayAppend, SMTT(40)
    <3>3. Replay(sets, journal)[t] = proxies[t]
      BY <1>4, <1>5 DEF Current
    <3> QED
      BY <1>2, <1>3, <1>7, <3>2, <3>3
  <2>5. \A t \in DOMAIN proxies : Replay(sets', journal')[t] = proxies'[t]
    BY <2>4
  <2> QED
    BY <1>1, <1>3, <1>6, <1>7, <2>1, <2>2, <2>3, <2>5, TableFacts, NoSetsEmpty,
       ContentStep
<1>8. CASE /\ Applied \/ (Accepted /\ journal_sequence < MaxSequence)
           /\ journal' = <<r>>
           /\ journal_sequence' = journal_sequence + 1
           /\ last_sequence' = journal_sequence
           /\ sets' = Current
  <2>1. /\ journal' \in Seq(Updates) /\ Len(journal') = 1
        /\ \A k \in DOMAIN journal' : journal'[k] = r
    BY <1>2, <1>8
  <2>2. /\ journal_sequence' \in 1..MaxSequence /\ last_sequence' \in 0..MaxSequence
        /\ journal_sequence' = last_sequence' + 1
    BY <1>8, TableFacts, Constants, SMTT(40) DEF Applied
  <2>3. <<r>> = Append(<<>>, r) /\ <<>> \in Seq(Updates)
    OBVIOUS
  <2>4. Replay(cur, <<>>) = cur
    BY <1>5, ReplayEmpty
  <2>5. ASSUME NEW t \in DOMAIN proxies
        PROVE  Replay(sets', journal')[t] = proxies'[t]
    <3>1. PICK none : none = <<>>
      OBVIOUS
    <3>2. none \in Seq(Updates) /\ t \in DOMAIN sets
      BY <1>5, <2>3, <3>1
    <3>3. /\ t = s => Replay(cur, Append(none, r))[t]
                        = [Replay(cur, none)[t] EXCEPT !.content = r.content]
          /\ t # s => Replay(cur, Append(none, r))[t] = Replay(cur, none)[t]
      BY <1>2, <1>5, <3>2, ReplayAppend
    <3>4. Replay(cur, none)[t] = proxies[t]
      BY <1>5, <2>4, <3>1
    <3>5. sets' = cur /\ journal' = Append(none, r)
      BY <1>4, <1>8, <2>3, <3>1
    <3> QED
      BY <1>2, <1>3, <3>3, <3>4, <3>5
  <2>6. \A t \in DOMAIN proxies : Replay(sets', journal')[t] = proxies'[t]
    BY <2>5
  <2>7. Len(journal') <= MaxRecords
    BY <2>1, Constants
  <2> QED
    BY <1>1, <1>2, <1>3, <1>4, <1>5, <1>8, <2>1, <2>2, <2>6, <2>7, TableFacts,
       NoSetsEmpty, ContentStep
<1> QED
  BY <1>7, <1>8 DEF UpdateDescriptorSetWithTemplate, r

\* A step of a connection that does not work any more.
LEMMA BrokenStep ==
  ASSUME SetsInv, ~poisoned, poisoned' \in BOOLEAN, link' \in {"up", "down"},
         ~Working',
         UNCHANGED <<pool, journal_sequence, last_sequence, next_serial, banks, used>>,
         journal' \in Seq(Updates), Len(journal') <= MaxRecords,
         DOMAIN sets' \subseteq DOMAIN sets, sets' \in [DOMAIN sets' -> SetRecords],
         proxies' \in [DOMAIN proxies -> SetRecords],
         lease_plans' \in [Banks -> PlanRecords], submitted' = NoSets
  PROVE  SetsInv'
<1>1. DOMAIN proxies' = DOMAIN proxies
  OBVIOUS
<1>2. TablesKnown'
  BY <1>1, TableFacts, NoSetsEmpty, TablesNext
<1>3. SerialsKnown'
  BY <1>1 DEF SetsInv, SerialsKnown, Banks
<1>4. \A b \in Banks : Offered(b)' = Offered(b)
  BY DEF Offered
<1>5. OffersKnown'
  BY <1>4 DEF SetsInv, OffersKnown, Banks
<1>6. JournalKnown' /\ BanksKnown' /\ SpaceKnown'
  BY DEF JournalKnown, BanksKnown, SpaceKnown
<1>7. InSync'
  BY DEF InSync, Working
<1> QED
  BY <1>2, <1>3, <1>5, <1>6, <1>7 DEF SetsInv

\* An update on a connection whose service has gone reaches only the journal.
LEMMA TemplateBrokenStep ==
  ASSUME SetsInv, NEW s \in Serials, NEW c \in Contents, ~Working,
         UpdateDescriptorSetWithTemplate(s, c)
  PROVE  SetsInv'
<1> DEFINE r == [set |-> s, content |-> c]
<1>1. r \in Updates
  BY DEF Updates
<1>2. /\ ~poisoned /\ link # "up" /\ s \in DOMAIN proxies
      /\ submitted' = NoSets
      /\ proxies' = [proxies EXCEPT ![s].content = c]
      /\ UNCHANGED <<poisoned, link, pool, next_serial, lease_plans, banks, used>>
      /\ Len(journal) < MaxRecords /\ journal' = Append(journal, r)
      /\ UNCHANGED <<journal_sequence, last_sequence, sets>>
  BY DEF UpdateDescriptorSetWithTemplate, NothingReturned, Working
<1> HIDE DEF r
<1>3. journal' \in Seq(Updates) /\ Len(journal') = Len(journal) + 1
      /\ Len(journal) \in Nat
  BY <1>1, <1>2, TableFacts, AppendProperties, LenProperties
<1>4. Len(journal') <= MaxRecords
  BY <1>2, <1>3, Constants
<1>5. proxies' \in [DOMAIN proxies -> SetRecords]
  BY <1>2, TableFacts, OneContent
<1>6. ~Working' /\ poisoned' \in BOOLEAN
  BY <1>2, PoisonedType DEF Working
<1> QED
  BY <1>2, <1>3, <1>4, <1>5, <1>6, TableFacts, BrokenStep

\* The service or the connection ends; what is left on the client's side stays.
LEMMA EndsStep ==
  ASSUME SetsInv, ServiceEnds \/ Poison
  PROVE  SetsInv'
<1>1. /\ ~poisoned /\ link' = "down" /\ sets' = NoSets /\ submitted' = NoSets
      /\ lease_plans' = [b \in Banks |-> NoPlan]
      /\ UNCHANGED <<pool, proxies, journal, journal_sequence, last_sequence,
                     next_serial, banks, used>>
  BY DEF ServiceEnds, Poison, ConnectionEnds, NothingReturned
<1>2. poisoned' \in BOOLEAN
  BY PoisonedType DEF ServiceEnds, Poison
<1>3. ~Working'
  BY <1>1 DEF Working
<1>4. DOMAIN sets' = {} /\ sets' \in [DOMAIN sets' -> SetRecords]
  BY <1>1 DEF NoSets
<1>5. lease_plans' \in [Banks -> PlanRecords]
  BY <1>1, EmptyFacts
<1> QED
  BY <1>1, <1>2, <1>3, <1>4, <1>5, TableFacts, BrokenStep

(***************************************************************************)
(* The invariant: a pool is reset or destroyed.                            *)
(***************************************************************************)

\* The sets of another pool stay as they are.
LEMMA WithoutFacts ==
  ASSUME NEW D, NEW table \in [D -> SetRecords], NEW p
  PROVE  /\ Without(table, p) \in [DOMAIN Without(table, p) -> SetRecords]
         /\ \A s : s \in DOMAIN Without(table, p) <=> s \in D /\ table[s].pool # p
         /\ \A s \in DOMAIN Without(table, p) : Without(table, p)[s] = table[s]
  BY DEF Without, OfPool

\* The pool's sets, proxies and banks go together, whatever becomes of its
\* plans; everything of another pool stays.
LEMMA PoolEndsStep ==
  ASSUME SetsInv, NEW p \in Pools, Exchange,
         sets' = Without(Current, p), proxies' = Without(proxies, p),
         banks' = BanksWithout(p), submitted' = NoSets,
         lease_plans' \in [Banks -> PlanRecords],
         \A b \in Banks \ BanksOf(p) : lease_plans'[b] = lease_plans[b],
         pool' \in [Pools -> {"none", "live", "gone"}],
         \A q \in Pools \ {p} : pool'[q] = pool[q],
         UNCHANGED <<poisoned, link, next_serial, used>>
  PROVE  SetsInv'
<1>1. Working /\ Flushed /\ (Working' <=> Working)
  BY DEF Exchange, Working
<1>2. /\ journal' = <<>> /\ journal' \in Seq(Updates)
      /\ Len(journal') <= MaxRecords /\ DOMAIN journal' = {}
      /\ journal_sequence' \in 1..MaxSequence /\ last_sequence' \in 0..MaxSequence
      /\ journal_sequence' = last_sequence' + 1
  BY <1>1, JournalFacts
<1>3. PICK cur : cur = Current
  OBVIOUS
<1>4. /\ cur \in [DOMAIN sets -> SetRecords]
      /\ \A t \in DOMAIN sets : cur[t].pool = sets[t].pool
      /\ \A t \in DOMAIN sets \ DOMAIN proxies : cur[t] = sets[t]
      /\ \A t \in DOMAIN proxies : t \in DOMAIN sets /\ cur[t] = proxies[t]
  BY <1>1, <1>3, CurrentFacts
<1>5. /\ sets' \in [DOMAIN sets' -> SetRecords]
      /\ \A s : s \in DOMAIN sets' <=> s \in DOMAIN sets /\ sets[s].pool # p
      /\ \A s \in DOMAIN sets' : sets'[s] = cur[s]
  BY <1>3, <1>4, WithoutFacts
<1>6. /\ proxies' \in [DOMAIN proxies' -> SetRecords]
      /\ \A s : s \in DOMAIN proxies' <=> s \in DOMAIN proxies /\ proxies[s].pool # p
      /\ \A s \in DOMAIN proxies' : proxies'[s] = proxies[s]
  BY TableFacts, WithoutFacts
<1>7. /\ banks' \in [Banks -> BankRecords]
      /\ \A b \in BanksOf(p) : b \in Banks /\ banks'[b] = NoBank
      /\ \A b \in Banks \ BanksOf(p) : banks'[b] = banks[b]
  BY TableFacts, EmptyFacts DEF BanksWithout, BanksOf
<1>8. \A b \in Banks : b \in BanksOf(p) <=> lease_plans[b].pool = p
  BY DEF BanksOf
<1>9. /\ \A b \in Banks \ BanksOf(p) : Offered(b)' = Offered(b)
      /\ \A b \in BanksOf(p) : Offered(b)' = {}
  BY <1>7, EmptyFacts DEF Offered
<1>10. TablesKnown'
  <2>1. \A b \in Banks : banks'[b].cursor \in 0..Len(banks'[b].records)
    <3>1. 0 \in 0 .. Len(<<>>)
      OBVIOUS
    <3> QED
      BY <1>7, <3>1, TableFacts, EmptyFacts
  <2>2. DOMAIN proxies' \cup DOMAIN sets' \cup used' \subseteq Serials
    BY <1>5, <1>6, TableFacts
  <2>3. poisoned' \in BOOLEAN
    BY PoisonedType
  <2> QED
    BY <1>2, <1>5, <1>6, <1>7, <2>1, <2>2, <2>3, TableFacts, NoSetsEmpty,
       TablesNext
<1>11. SerialsKnown'
  <2>1. \A b \in Banks : \A k \in DOMAIN banks'[b].records :
          banks'[b].records[k].set < next_serial'
    <3>1. DOMAIN <<>> = {}
      OBVIOUS
    <3> QED
      BY <1>7, <3>1, TableFacts, EmptyFacts
  <2>2. \A s \in used' \cup DOMAIN sets' : s < next_serial'
    BY <1>5, TableFacts
  <2>3. DOMAIN proxies' \subseteq used'
    BY <1>6, TableFacts
  <2> QED
    BY <2>1, <2>2, <2>3 DEF SerialsKnown, Banks
<1>12. JournalKnown'
  BY <1>2 DEF JournalKnown
<1>13. InSync'
  <2>1. Replay(sets', journal') = sets'
    BY <1>2, <1>5, ReplayEmpty
  <2>2. \A s \in DOMAIN proxies' : s \in DOMAIN sets' /\ sets'[s] = proxies'[s]
    BY <1>4, <1>5, <1>6
  <2> QED
    BY <2>1, <2>2 DEF InSync, Current
<1>14. OffersKnown'
  BY <1>7, <1>9 DEF SetsInv, OffersKnown, Banks
<1>15. BanksKnown'
  <2> SUFFICES ASSUME NEW b \in Banks, banks'[b].ready
        PROVE  /\ lease_plans'[b].published /\ lease_plans'[b].pool = banks'[b].pool
               /\ banks'[b].pool \in Pools /\ pool'[banks'[b].pool] = "live"
               /\ \A k \in Offered(b)' :
                    /\ banks'[b].records[k].set \in DOMAIN sets'
                    /\ sets'[banks'[b].records[k].set]
                         = DescriptorSet(banks'[b].pool,
                                         banks'[b].records[k].layout, Blank)
    BY DEF BanksKnown, Banks, DescriptorSet
  <2>1. b \notin BanksOf(p) /\ banks'[b] = banks[b]
    BY <1>7, EmptyFacts
  <2>2. /\ lease_plans[b].published /\ lease_plans[b].pool = banks[b].pool
        /\ banks[b].pool \in Pools /\ pool[banks[b].pool] = "live"
        /\ banks[b].pool # p
    BY <1>1, <1>8, <2>1 DEF SetsInv, BanksKnown
  <2>3. ASSUME NEW k \in Offered(b)
        PROVE  /\ banks[b].records[k].set \in DOMAIN sets'
               /\ sets'[banks[b].records[k].set]
                    = DescriptorSet(banks[b].pool, banks[b].records[k].layout, Blank)
    <3>1. PICK s : s = banks[b].records[k].set
      OBVIOUS
    <3>2. /\ s \in DOMAIN sets
          /\ sets[s] = DescriptorSet(banks[b].pool, banks[b].records[k].layout, Blank)
      BY <1>1, <2>1, <3>1 DEF SetsInv, BanksKnown
    <3>3. s \notin DOMAIN proxies
      BY <1>1, <3>1, TableFacts DEF SetsInv, OffersKnown, Working
    <3>4. sets[s].pool # p
      BY <2>2, <3>2 DEF DescriptorSet
    <3> QED
      BY <1>4, <1>5, <3>1, <3>2, <3>3, <3>4
  <2> QED
    BY <1>9, <2>1, <2>2, <2>3
<1>16. SpaceKnown'
  <2> SUFFICES ASSUME NEW s \in DOMAIN sets'
        PROVE  \/ s \in DOMAIN proxies'
               \/ \E b \in Banks : \E k \in Offered(b)' : banks'[b].records[k].set = s
               \/ \E b \in Banks : /\ lease_plans'[b].pool = sets'[s].pool
                                   /\ lease_plans'[b].epoch = MaxEpoch
                                   /\ lease_plans'[b].batch_disabled
    BY DEF SpaceKnown, Banks
  <2>1. s \in DOMAIN sets /\ sets[s].pool # p /\ sets'[s].pool = sets[s].pool
    BY <1>4, <1>5
  <2>2. CASE s \in DOMAIN proxies
    BY <1>4, <1>6, <2>1, <2>2
  <2>3. ASSUME NEW b \in Banks, NEW k \in Offered(b), banks[b].records[k].set = s
        PROVE  \E d \in Banks : \E j \in Offered(d)' : banks'[d].records[j].set = s
    <3>1. banks[b].ready
      BY DEF Offered
    <3>2. sets[s].pool = banks[b].pool /\ lease_plans[b].pool = banks[b].pool
      <4>1. /\ lease_plans[b].pool = banks[b].pool
            /\ sets[s] = DescriptorSet(banks[b].pool,
                                       banks[b].records[k].layout, Blank)
        BY <1>1, <2>3, <3>1 DEF SetsInv, BanksKnown
      <4> QED
        BY <4>1 DEF DescriptorSet
    <3>3. b \in Banks \ BanksOf(p)
      BY <1>8, <2>1, <3>2
    <3> QED
      BY <1>7, <1>9, <2>3, <3>3
  <2>4. ASSUME NEW b \in Banks, lease_plans[b].pool = sets[s].pool,
               lease_plans[b].epoch = MaxEpoch, lease_plans[b].batch_disabled
        PROVE  /\ lease_plans'[b].pool = sets'[s].pool
               /\ lease_plans'[b].epoch = MaxEpoch
               /\ lease_plans'[b].batch_disabled
    BY <1>8, <2>1, <2>4
  <2> QED
    BY <1>1, <2>1, <2>2, <2>3, <2>4 DEF SetsInv, SpaceKnown
<1> QED
  BY <1>10, <1>11, <1>12, <1>13, <1>14, <1>15, <1>16 DEF SetsInv

\* One field of a plan is set.
LEMMA PlanField ==
  ASSUME NEW plan \in PlanRecords
  PROVE  /\ \A v \in BOOLEAN : [plan EXCEPT !.published = v] \in PlanRecords
         /\ \A v \in BOOLEAN : [plan EXCEPT !.batch_disabled = v] \in PlanRecords
         /\ \A v \in 0..2 : [plan EXCEPT !.observed = v] \in PlanRecords
         /\ \A v \in 0..MaxEpoch : [plan EXCEPT !.epoch = v] \in PlanRecords
         /\ \A v \in 0..Max({2, MaxPerAllocate}) :
              [plan EXCEPT !.batch_repetitions = v] \in PlanRecords
<1>1. ASSUME NEW v \in BOOLEAN
      PROVE  /\ [plan EXCEPT !.published = v] \in PlanRecords
             /\ [plan EXCEPT !.batch_disabled = v] \in PlanRecords
  BY DEF PlanRecords
<1>2. ASSUME NEW v \in 0..2 PROVE [plan EXCEPT !.observed = v] \in PlanRecords
  BY DEF PlanRecords
<1>3. ASSUME NEW v \in 0..MaxEpoch PROVE [plan EXCEPT !.epoch = v] \in PlanRecords
  BY DEF PlanRecords
<1>4. ASSUME NEW v \in 0..Max({2, MaxPerAllocate})
      PROVE  [plan EXCEPT !.batch_repetitions = v] \in PlanRecords
  BY DEF PlanRecords
<1> QED
  BY <1>1, <1>2, <1>3, <1>4

\* A reset pool: its plans are cold.
LEMMA ResetStep ==
  ASSUME SetsInv, NEW p \in Pools, ResetDescriptorPool(p)
  PROVE  SetsInv'
<1>1. /\ Exchange /\ sets' = Without(Current, p)
      /\ proxies' = Without(proxies, p) /\ banks' = BanksWithout(p)
      /\ submitted' = NoSets /\ lease_plans' = PlansAfterReset(p)
      /\ UNCHANGED <<poisoned, link, pool, next_serial, used>>
  BY DEF ResetDescriptorPool, NothingReturned
<1>2. ASSUME NEW plan \in PlanRecords PROVE Cold(plan) \in PlanRecords
  <2>1. PICK p1 \in PlanRecords : p1 = [plan EXCEPT !.published = FALSE]
    BY PlanField
  <2>2. PICK p2 \in PlanRecords : p2 = [p1 EXCEPT !.batch_disabled = FALSE]
    BY PlanField
  <2>3. 0 \in 0..2 /\ 2 \in 0..Max({2, MaxPerAllocate})
    BY Constants
  <2>4. PICK p3 \in PlanRecords : p3 = [p2 EXCEPT !.batch_repetitions = 2]
    BY <2>3, PlanField, Zenon
  <2>5. PICK p4 \in PlanRecords : p4 = [p3 EXCEPT !.observed = 0]
    BY <2>3, PlanField, Zenon
  <2> QED
    BY <2>1, <2>2, <2>4, <2>5, Zenon DEF Cold
<1>3. lease_plans' \in [Banks -> PlanRecords]
  BY <1>1, <1>2, TableFacts DEF PlansAfterReset
<1>4. \A b \in Banks \ BanksOf(p) : lease_plans'[b] = lease_plans[b]
  BY <1>1 DEF PlansAfterReset
<1> QED
  BY <1>1, <1>3, <1>4, TableFacts, PoolEndsStep

\* A destroyed pool: its plans are forgotten.
LEMMA DestroyStep ==
  ASSUME SetsInv, NEW p \in Pools, DestroyDescriptorPool(p)
  PROVE  SetsInv'
<1>1. /\ Exchange /\ sets' = Without(Current, p)
      /\ proxies' = Without(proxies, p) /\ banks' = BanksWithout(p)
      /\ submitted' = NoSets /\ lease_plans' = PlansAfterDestroy(p)
      /\ pool' = [pool EXCEPT ![p] = "gone"]
      /\ UNCHANGED <<poisoned, link, next_serial, used>>
  BY DEF DestroyDescriptorPool, NothingReturned
<1>2. lease_plans' \in [Banks -> PlanRecords]
  BY <1>1, EmptyFacts, TableFacts DEF PlansAfterDestroy
<1>3. \A b \in Banks \ BanksOf(p) : lease_plans'[b] = lease_plans[b]
  BY <1>1 DEF PlansAfterDestroy
<1>4. /\ pool' \in [Pools -> {"none", "live", "gone"}]
      /\ \A q \in Pools \ {p} : pool'[q] = pool[q]
  BY <1>1, TableFacts
<1> QED
  BY <1>1, <1>2, <1>3, <1>4, PoolEndsStep

(***************************************************************************)
(* The invariant: a claim.                                                 *)
(***************************************************************************)

\* A signature is a short sequence of layouts.
LEMMA SignatureFacts ==
  ASSUME NEW sig \in Signatures
  PROVE  /\ sig \in Seq(Layouts) /\ Len(sig) \in 1..MaxPerAllocate
         /\ Len(sig) \in Nat /\ DOMAIN sig = 1 .. Len(sig)
         /\ \A k \in DOMAIN sig : sig[k] \in Layouts
  BY SignaturesAssumption, LenProperties, Constants

\* The ids of an allocation are distinct, one for each layout, and new.
FreshIds(ids, sig) ==
  /\ DOMAIN ids = DOMAIN sig
  /\ \A k \in DOMAIN sig : sig[k] \in Layouts /\ ids[k] \notin DOMAIN proxies
  /\ \A j \in DOMAIN sig, k \in DOMAIN sig : ids[j] = ids[k] => j = k

\* The proxies are extended by them, with pool, layout and blank content.
Extended(table, p, ids, sig) ==
  /\ table \in [DOMAIN proxies \cup Range(ids) -> SetRecords]
  /\ \A s \in DOMAIN proxies : table[s] = proxies[s]
  /\ \A k \in DOMAIN sig :
       ids[k] \in Range(ids) /\ table[ids[k]] = DescriptorSet(p, sig[k], Blank)

\* The proxies an allocation adds.
LEMMA NewProxiesFacts ==
  ASSUME SetsInv, NEW p \in Pools, NEW ids, NEW sig, FreshIds(ids, sig)
  PROVE  Extended(NewProxies(p, ids, sig), p, ids, sig)
<1> USE DEF FreshIds
<1> DEFINE new == NewProxies(p, ids, sig)
<1>1. /\ new = [s \in DOMAIN new |-> new[s]]
      /\ DOMAIN new = DOMAIN proxies \cup Range(ids)
  BY DEF NewProxies
<1>2. Range(ids) = {ids[k] : k \in DOMAIN sig}
  BY DEF Range
<1>3. ASSUME NEW s \in DOMAIN proxies PROVE new[s] = proxies[s]
  <2>1. s \notin Range(ids)
    BY <1>2
  <2> QED
    BY <2>1 DEF NewProxies
<1>4. ASSUME NEW k \in DOMAIN sig
      PROVE  ids[k] \in Range(ids) /\ new[ids[k]] = DescriptorSet(p, sig[k], Blank)
  <2>1. ids[k] \in Range(ids)
    BY <1>2
  <2>2. (CHOOSE j \in DOMAIN sig : ids[j] = ids[k]) = k
    OBVIOUS
  <2>3. new[ids[k]]
          = DescriptorSet(p, sig[CHOOSE j \in DOMAIN sig : ids[j] = ids[k]], Blank)
    BY <2>1 DEF NewProxies
  <2> QED
    BY <2>1, <2>2, <2>3
<1>5. \A l \in Layouts : DescriptorSet(p, l, Blank) \in SetRecords
  BY DEF DescriptorSet, SetRecords
<1> HIDE DEF new
<1>6. ASSUME NEW s \in DOMAIN new PROVE new[s] \in SetRecords
  <2>1. CASE s \in DOMAIN proxies
    BY <1>3, <2>1, TableFacts
  <2>2. CASE s \in Range(ids)
    BY <1>2, <1>4, <1>5, <2>2
  <2> QED
    BY <1>1, <2>1, <2>2
<1>7. new \in [DOMAIN proxies \cup Range(ids) -> SetRecords]
  BY <1>1, <1>6
<1> QED
  BY <1>3, <1>4, <1>7 DEF new, Extended

\* What a claim takes: the first leases of one bank, each of them new.
LEMMA ClaimFacts ==
  ASSUME SetsInv, NEW p \in Pools, NEW sig \in Signatures, ClaimLeases(p, sig)
  PROVE  \E b, ids :
           /\ b \in Banks /\ banks[b].ready /\ banks[b].pool = p
           /\ banks' = [banks EXCEPT ![b].cursor = banks[b].cursor + Len(sig)]
           /\ banks[b].cursor + Len(sig) <= Len(banks[b].records)
           /\ ids = [k \in DOMAIN sig |->
                       banks[b].records[banks[b].cursor + k].set]
           /\ \A k \in DOMAIN sig :
                /\ banks[b].cursor + k \in Offered(b)
                /\ banks[b].records[banks[b].cursor + k].layout = sig[k]
                /\ ids[k] \in Serials \ used
           /\ \A j \in DOMAIN sig, k \in DOMAIN sig : ids[j] = ids[k] => j = k
           /\ proxies' = NewProxies(p, ids, sig)
           /\ used' = used \cup Range(ids)
           /\ result' = [status |-> "SUCCESS", ids |-> ids]
<1>1. PICK b : b = Min(Claimable(p, sig))
  OBVIOUS
<1>2. PICK ids : ids = [k \in DOMAIN sig |-> Unclaimed(b)[k].set]
  OBVIOUS
<1>3. /\ ~poisoned /\ MayClaim(p, sig)
      /\ banks' = CursorMoved(b, Len(sig))
      /\ proxies' = NewProxies(p, ids, sig) /\ used' = used \cup Range(ids)
      /\ result' = [status |-> "SUCCESS", ids |-> ids]
  BY <1>1, <1>2, Zenon DEF ClaimLeases
<1>4. b \in Banks /\ Matches(b, p, sig)
  <2>1. Claimable(p, sig) \in SUBSET Nat /\ Claimable(p, sig) # {}
    BY <1>3, Constants DEF Claimable, MayClaim, Banks
  <2>2. b \in Claimable(p, sig)
    BY <1>1, <2>1, MinOfSet
  <2> QED
    BY <2>2 DEF Claimable
<1>5. PICK c : c = banks[b].cursor
  OBVIOUS
<1>6. PICK r : r = banks[b].records
  OBVIOUS
<1>7. c \in 0 .. Len(r) /\ r \in Seq(LeaseRecords) /\ Len(r) \in Nat
      /\ DOMAIN r = 1 .. Len(r)
  <2>1. banks[b] \in BankRecords
    BY <1>4, TableFacts
  <2>2. r \in Seq(LeaseRecords)
    BY <1>6, <2>1 DEF BankRecords
  <2> QED
    BY <1>4, <1>5, <1>6, <2>2, TableFacts, LenProperties
<1>8. /\ banks[b].ready /\ banks[b].pool = p
      /\ Len(sig) <= Len(Unclaimed(b))
      /\ \A k \in DOMAIN sig : Unclaimed(b)[k].layout = sig[k]
  BY <1>4 DEF Matches
<1>9. /\ Len(Unclaimed(b)) = Len(r) - c
      /\ DOMAIN Unclaimed(b) = 1 .. Len(Unclaimed(b))
      /\ \A k \in DOMAIN Unclaimed(b) :
           c + k \in Offered(b) /\ Unclaimed(b)[k] = r[c + k]
  BY <1>4, <1>5, <1>6, <1>8, UnclaimedFacts DEF SetsInv
<1>10. c + Len(sig) <= Len(r) /\ \A k \in DOMAIN sig : k \in DOMAIN Unclaimed(b)
  BY <1>7, <1>8, <1>9, SignatureFacts
<1>11. \A k \in DOMAIN sig :
         /\ c + k \in Offered(b) /\ r[c + k].layout = sig[k]
         /\ ids[k] = r[c + k].set
  BY <1>2, <1>8, <1>9, <1>10
<1>12. \A k \in DOMAIN sig : ids[k] \in Serials \ used
  <2> SUFFICES ASSUME NEW k \in DOMAIN sig PROVE ids[k] \in Serials \ used
    OBVIOUS
  <2>1. c + k \in DOMAIN r
    BY <1>6, <1>11 DEF Offered
  <2>2. r[c + k] \in LeaseRecords
    BY <1>7, <2>1
  <2>3. r[c + k].set \in Serials
    BY <2>2 DEF LeaseRecords
  <2>4. r[c + k].set \notin used
    BY <1>3, <1>4, <1>6, <1>11 DEF SetsInv, OffersKnown
  <2> QED
    BY <1>11, <2>3, <2>4
<1>13. ASSUME NEW j \in DOMAIN sig, NEW k \in DOMAIN sig, ids[j] = ids[k]
       PROVE  j = k
  <2>1. r[c + j].set = r[c + k].set /\ c + j \in Offered(b) /\ c + k \in Offered(b)
    BY <1>11, <1>13
  <2>2. c + j = c + k
    BY <1>3, <1>4, <1>6, <2>1 DEF SetsInv, OffersKnown
  <2> QED
    BY <1>7, <2>2, SignatureFacts
<1>14. banks' = [banks EXCEPT ![b].cursor = c + Len(sig)]
  BY <1>3, <1>5 DEF CursorMoved
<1>15. ids = [k \in DOMAIN sig |-> r[c + k].set]
  BY <1>2, <1>9, <1>10
<1> QED
  BY <1>3, <1>4, <1>5, <1>6, <1>8, <1>10, <1>11, <1>12, <1>13, <1>14, <1>15,
     ZenonT(40)

\* A claim hands over what the bank offered, and moves the cursor past it.
LEMMA ClaimStep ==
  ASSUME SetsInv, NEW p \in Pools, NEW sig \in Signatures, ClaimLeases(p, sig)
  PROVE  SetsInv'
<1>1. PICK b, ids :
        /\ b \in Banks /\ banks[b].ready /\ banks[b].pool = p
        /\ banks' = [banks EXCEPT ![b].cursor = banks[b].cursor + Len(sig)]
        /\ banks[b].cursor + Len(sig) <= Len(banks[b].records)
        /\ ids = [k \in DOMAIN sig |->
                    banks[b].records[banks[b].cursor + k].set]
        /\ \A k \in DOMAIN sig :
             /\ banks[b].cursor + k \in Offered(b)
             /\ banks[b].records[banks[b].cursor + k].layout = sig[k]
             /\ ids[k] \in Serials \ used
        /\ \A j \in DOMAIN sig, k \in DOMAIN sig : ids[j] = ids[k] => j = k
        /\ proxies' = NewProxies(p, ids, sig)
        /\ used' = used \cup Range(ids)
        /\ result' = [status |-> "SUCCESS", ids |-> ids]
  BY ClaimFacts
<1>2. /\ ~poisoned /\ journal = <<>> /\ submitted' = NoSets
      /\ UNCHANGED <<poisoned, link, pool, journal, journal_sequence>>
      /\ UNCHANGED <<last_sequence, sets, next_serial, lease_plans>>
  BY Zenon DEF ClaimLeases, MayClaim
<1>3. PICK c : c = banks[b].cursor
  OBVIOUS
<1>4. PICK r : r = banks[b].records
  OBVIOUS
<1>5. PICK n : n = Len(sig)
  OBVIOUS
<1>6. /\ c \in Nat /\ n \in Nat /\ Len(r) \in Nat /\ c + n <= Len(r)
      /\ DOMAIN r = 1 .. Len(r) /\ DOMAIN sig = 1 .. n
      /\ r \in Seq(LeaseRecords) /\ banks[b] \in BankRecords
  <2>1. banks[b] \in BankRecords
    BY <1>1, TableFacts
  <2>2. r \in Seq(LeaseRecords) /\ c \in Nat
    BY <1>3, <1>4, <2>1 DEF BankRecords
  <2> QED
    BY <1>1, <1>3, <1>4, <1>5, <2>1, <2>2, SignatureFacts, LenProperties
<1>7. PICK bank : bank = [banks[b] EXCEPT !.cursor = c + n]
  OBVIOUS
<1>8. /\ bank \in BankRecords /\ bank.ready = banks[b].ready
      /\ bank.pool = banks[b].pool /\ bank.records = r /\ bank.cursor = c + n
  BY <1>4, <1>6, <1>7 DEF BankRecords
<1>9. /\ banks' \in [Banks -> BankRecords] /\ banks'[b] = bank
      /\ \A d \in Banks : d # b => banks'[d] = banks[d]
  BY <1>1, <1>3, <1>5, <1>7, <1>8, TableFacts
<1>10. /\ \A d \in Banks : d # b => Offered(d)' = Offered(d)
       /\ Offered(b)' = {k \in Offered(b) : c + n < k}
  <2>1. \A d \in Banks : d # b => Offered(d)' = Offered(d)
    BY <1>9 DEF Offered
  <2>2. Offered(b) = {k \in 1 .. Len(r) : c < k}
    BY <1>1, <1>3, <1>4, <1>6 DEF Offered
  <2>3. Offered(b)' = {k \in 1 .. Len(r) : c + n < k}
    <3>1. /\ DOMAIN banks'[b].records = 1 .. Len(r) /\ banks'[b].cursor = c + n
          /\ banks'[b].ready = banks[b].ready
      BY <1>6, <1>8, <1>9
    <3>2. Offered(b)' = {k \in 1 .. Len(r) : banks'[b].ready /\ c + n < k}
      BY <3>1, Zenon DEF Offered
    <3> QED
      BY <1>1, <3>1, <3>2, Zenon
  <2> QED
    BY <1>6, <2>1, <2>2, <2>3
<1>11. \A d \in Banks : banks'[d].records = banks[d].records
         /\ banks'[d].ready = banks[d].ready /\ banks'[d].pool = banks[d].pool
  BY <1>4, <1>8, <1>9
<1>12. /\ DOMAIN ids = DOMAIN sig
       /\ \A k \in DOMAIN sig : /\ c + k \in Offered(b) /\ ids[k] = r[c + k].set
                                /\ r[c + k].layout = sig[k]
  BY <1>1, <1>3, <1>4
<1>13. \A s \in Range(ids) : \E k \in DOMAIN sig : s = ids[k]
  BY <1>12 DEF Range
<1>14. /\ proxies' \in [DOMAIN proxies \cup Range(ids) -> SetRecords]
       /\ \A s \in DOMAIN proxies : proxies'[s] = proxies[s]
       /\ \A k \in DOMAIN sig :
            ids[k] \in Range(ids) /\ proxies'[ids[k]] = DescriptorSet(p, sig[k], Blank)
  <2>1. FreshIds(ids, sig)
    <3>1. \A k \in DOMAIN sig : sig[k] \in Layouts
      BY SignatureFacts
    <3>2. \A k \in DOMAIN sig : ids[k] \notin DOMAIN proxies
      BY <1>1, TableFacts
    <3>3. \A j \in DOMAIN sig, k \in DOMAIN sig : ids[j] = ids[k] => j = k
      BY <1>1
    <3> QED
      BY <1>12, <3>1, <3>2, <3>3 DEF FreshIds
  <2>2. Extended(NewProxies(p, ids, sig), p, ids, sig)
    BY <2>1, NewProxiesFacts
  <2>3. proxies' = NewProxies(p, ids, sig)
    BY <1>1
  <2> QED
    BY <2>2, <2>3 DEF Extended
<1>15. DOMAIN proxies' = DOMAIN proxies \cup Range(ids)
  BY <1>14
\* The leases that are no longer offered are those of the call.
<1>16. ASSUME NEW k \in Offered(b), ~(c + n < k) PROVE r[k].set \in Range(ids)
  <2>1. k \in 1 .. Len(r) /\ c < k
    BY <1>3, <1>4, <1>6 DEF Offered
  <2>2. PICK i : i = k - c
    OBVIOUS
  <2>3. i \in DOMAIN sig /\ c + i = k
    BY <1>6, <1>16, <2>1, <2>2
  <2> QED
    BY <1>12, <1>14, <2>3
<1>17. TablesKnown'
  <2>1. Range(ids) \subseteq Serials
    <3>1. \A k \in DOMAIN sig : ids[k] \in Serials
      BY <1>1
    <3> QED
      BY <1>13, <3>1
  <2>2. DOMAIN proxies' \cup DOMAIN sets' \cup used' \subseteq Serials
    BY <1>1, <1>2, <1>15, <2>1, TableFacts
  <2>3. \A d \in Banks : banks'[d].cursor \in 0..Len(banks'[d].records)
    <3>1. c + n \in 0 .. Len(r)
      BY <1>6
    <3> QED
      BY <1>8, <1>9, <3>1, TableFacts
  <2>4. poisoned' \in BOOLEAN
    BY <1>2, PoisonedType
  <2>5. proxies' \in [DOMAIN proxies' -> SetRecords]
    BY <1>14, <1>15
  <2>6. \A s \in DOMAIN submitted' : submitted'[s] \in SetRecords
    BY <1>2, NoSetsEmpty
  <2>7. /\ link' \in {"up", "down"} /\ pool' \in [Pools -> {"none", "live", "gone"}]
        /\ journal' \in Seq(Updates) /\ Len(journal') <= MaxRecords
        /\ journal_sequence' \in 1..MaxSequence /\ last_sequence' \in 0..MaxSequence
        /\ next_serial' \in 1..(MaxSerial + 1)
        /\ sets' \in [DOMAIN sets' -> SetRecords]
        /\ lease_plans' \in [Banks -> PlanRecords]
    BY <1>2, TableFacts
  <2> QED
    BY <1>9, <2>2, <2>3, <2>4, <2>5, <2>6, <2>7, TablesNext
<1>18. SerialsKnown'
  <2>1. \A s \in Range(ids) : s < next_serial
    <3> SUFFICES ASSUME NEW k \in DOMAIN sig PROVE ids[k] < next_serial
      BY <1>13
    <3>1. c + k \in DOMAIN r
      BY <1>4, <1>12 DEF Offered
    <3> QED
      BY <1>1, <1>4, <1>12, <3>1, TableFacts, SMTT(40)
  <2>2. \A s \in used' \cup DOMAIN sets' : s < next_serial'
    BY <1>1, <1>2, <2>1, TableFacts
  <2>3. DOMAIN proxies' \subseteq used'
    BY <1>1, <1>15, TableFacts
  <2>4. \A d \in Banks : \A k \in DOMAIN banks'[d].records :
          banks'[d].records[k].set < next_serial'
    BY <1>2, <1>11, TableFacts
  <2> QED
    BY <2>2, <2>3, <2>4 DEF SerialsKnown, Banks
<1>19. JournalKnown'
  <2>1. DOMAIN journal' = {}
    BY <1>2
  <2>2. Working' => Working
    BY <1>2 DEF Working
  <2> QED
    BY <1>2, <2>1, <2>2 DEF SetsInv, JournalKnown
<1>20. Working' <=> Working
  BY <1>2 DEF Working
<1>21. InSync'
  <2> SUFFICES ASSUME Working, NEW s \in DOMAIN proxies'
               PROVE  s \in DOMAIN sets /\ sets[s] = proxies'[s]
    <3>1. Replay(sets', journal') = sets
      BY <1>2, TableFacts, ReplayEmpty
    <3> QED
      BY <1>2, <1>20, <3>1 DEF InSync, Current, Working
  <2>1. CASE s \in DOMAIN proxies
    <3>1. Current = sets
      BY <1>2, TableFacts, ReplayEmpty DEF Current
    <3> QED
      BY <1>14, <2>1, <3>1, CurrentFacts
  <2>2. CASE s \in Range(ids)
    <3>1. PICK k \in DOMAIN sig : s = ids[k]
      BY <1>13, <2>2
    <3>2. /\ r[c + k].set \in DOMAIN sets
          /\ sets[r[c + k].set] = DescriptorSet(p, r[c + k].layout, Blank)
      BY <1>1, <1>4, <1>12 DEF SetsInv, BanksKnown
    <3> QED
      BY <1>12, <1>14, <3>1, <3>2
  <2> QED
    BY <1>15, <2>1, <2>2
<1>22. OffersKnown'
  <2> SUFFICES ASSUME NEW d \in Banks, NEW k \in Offered(d)'
        PROVE  /\ banks'[d].records[k].set \notin used'
               /\ \A e \in Banks : \A j \in Offered(e)' :
                    banks'[e].records[j].set = banks'[d].records[k].set
                      => e = d /\ j = k
    BY DEF OffersKnown, Banks
  <2>1. k \in Offered(d) /\ \A e \in Banks : \A j \in Offered(e)' : j \in Offered(e)
    BY <1>10
  <2>2. /\ banks[d].records[k].set \notin used
        /\ \A e \in Banks : \A j \in Offered(e) :
             banks[e].records[j].set = banks[d].records[k].set => e = d /\ j = k
    BY <1>2, <2>1 DEF SetsInv, OffersKnown
  <2>3. banks[d].records[k].set \notin Range(ids)
    <3> SUFFICES ASSUME NEW i \in DOMAIN sig, ids[i] = banks[d].records[k].set
                 PROVE  FALSE
      BY <1>13
    <3>1. c + i \in Offered(b) /\ banks[b].records[c + i].set = banks[d].records[k].set
      BY <1>4, <1>12
    <3>2. b = d /\ c + i = k
      BY <1>1, <2>2, <3>1
    <3>3. c + n < k
      BY <1>10, <3>2
    <3> QED
      BY <1>6, <3>2, <3>3
  <2>4. banks'[d].records[k].set \notin used'
    <3>1. used' = used \cup Range(ids)
      BY <1>1
    <3> QED
      BY <1>11, <2>2, <2>3, <3>1
  <2>5. ASSUME NEW e \in Banks, NEW j \in Offered(e)',
               banks'[e].records[j].set = banks'[d].records[k].set
        PROVE  e = d /\ j = k
    <3>1. j \in Offered(e) /\ banks[e].records[j].set = banks[d].records[k].set
      BY <1>11, <2>1, <2>5
    <3> QED
      BY <2>2, <3>1
  <2> QED
    BY <2>4, <2>5
<1>23. BanksKnown'
  <2>1. \A d \in Banks : \A k \in Offered(d)' : k \in Offered(d)
    BY <1>10
  <2> QED
    BY <1>2, <1>11, <1>20, <2>1 DEF SetsInv, BanksKnown, Banks
<1>24. SpaceKnown'
  <2> SUFFICES ASSUME Working, NEW s \in DOMAIN sets
        PROVE  \/ s \in DOMAIN proxies'
               \/ \E d \in Banks : \E k \in Offered(d)' : banks'[d].records[k].set = s
               \/ \E d \in Banks : /\ lease_plans[d].pool = sets[s].pool
                                   /\ lease_plans[d].epoch = MaxEpoch
                                   /\ lease_plans[d].batch_disabled
    BY <1>2, <1>20 DEF SpaceKnown, Banks
  <2>1. ASSUME NEW d \in Banks, NEW k \in Offered(d), banks[d].records[k].set = s
        PROVE  \/ s \in DOMAIN proxies'
               \/ \E e \in Banks : \E j \in Offered(e)' : banks'[e].records[j].set = s
    <3>1. CASE d = b /\ ~(c + n < k)
      BY <1>4, <1>15, <1>16, <2>1, <3>1
    <3>2. CASE d # b \/ c + n < k
      <4>1. k \in Offered(d)'
        BY <1>10, <3>2
      <4> QED
        BY <1>11, <2>1, <4>1
    <3> QED
      BY <3>1, <3>2
  <2> QED
    BY <1>15, <2>1 DEF SetsInv, SpaceKnown
<1> QED
  BY <1>17, <1>18, <1>19, <1>21, <1>22, <1>23, <1>24 DEF SetsInv

(***************************************************************************)
(* The invariant: a call of the ring.                                      *)
(***************************************************************************)

\* The service has made count sets, none or at least as many as were asked for,
\* and answers with ids.
Answered(p, sig, count, ids) ==
  /\ count \in Nat /\ (count = 0 \/ count >= Len(sig))
  /\ next_serial' = next_serial + count /\ next_serial' \in 1..(MaxSerial + 1)
  /\ sets' \in [DOMAIN sets \cup next_serial..(next_serial + count - 1)
                  -> SetRecords]
  /\ \A s \in DOMAIN sets : sets'[s] = Current[s]
  /\ \A s \in next_serial..(next_serial + count - 1) :
       sets'[s] = DescriptorSet(p, sig[((s - next_serial) % Len(sig)) + 1], Blank)
  /\ DOMAIN ids = IF count = 0 THEN {} ELSE DOMAIN sig
  /\ ids \in [DOMAIN ids -> Serials]
  /\ \A k \in DOMAIN ids : ids[k] = next_serial + k - 1
  /\ Range(ids) = IF count = 0 THEN {}
                  ELSE next_serial..(next_serial + Len(sig) - 1)
  /\ proxies' \in [DOMAIN proxies \cup Range(ids) -> SetRecords]
  /\ \A s \in DOMAIN proxies : proxies'[s] = proxies[s]
  /\ \A s \in Range(ids) : s \in DOMAIN sets' /\ proxies'[s] = sets'[s]
  /\ used' = used \cup Range(ids)
  /\ result'.ids = ids

\* Answer does that.
LEMMA AnswerFacts ==
  ASSUME SetsInv, NEW p \in Pools, NEW sig \in Signatures,
         NEW c \in Nat, Len(sig) <= c, NEW fit, NEW refused,
         Answer(p, sig, c, fit, refused)
  PROVE  \E ids :
           Answered(p, sig,
                    IF AllocateStatus(c, fit, refused) = "SUCCESS" THEN c ELSE 0,
                    ids)
<1>1. PICK status : status = AllocateStatus(c, fit, refused)
  OBVIOUS
<1>2. PICK count : count = IF status = "SUCCESS" THEN c ELSE 0
  OBVIOUS
<1>3. PICK given : given = IF status = "SUCCESS" THEN sig ELSE <<>>
  OBVIOUS
<1>4. PICK new : new = next_serial .. (next_serial + count - 1)
  OBVIOUS
<1>5. PICK ids : ids = [k \in DOMAIN given |-> next_serial + k - 1]
  OBVIOUS
<1>6. /\ next_serial + count <= MaxSerial + 1
      /\ sets' = [s \in DOMAIN sets \cup new |->
                    IF s \in new
                    THEN DescriptorSet(p, sig[((s - next_serial) % Len(sig)) + 1],
                                       Blank)
                    ELSE Current[s]]
      /\ next_serial' = next_serial + count
      /\ proxies' = NewProxies(p, ids, given)
      /\ used' = used \cup Range(ids)
      /\ result' = [status |-> status, ids |-> ids]
  BY <1>1, <1>2, <1>3, <1>4, <1>5, Zenon DEF Answer
<1>7. PICK n : n = Len(sig)
  OBVIOUS
<1>8. PICK first : first = next_serial
  OBVIOUS
<1>9. /\ n \in Nat /\ n > 0 /\ DOMAIN sig = 1 .. n
      /\ \A k \in 1 .. n : sig[k] \in Layouts
      /\ first \in Nat /\ first >= 1 /\ MaxSerial \in Nat
  BY <1>7, <1>8, SignatureFacts, TableFacts, Constants, SMTT(40)
<1>10. count \in Nat /\ (count = 0 \/ count >= n)
       /\ (status = "SUCCESS" => count = c) /\ (status # "SUCCESS" => count = 0)
  BY <1>2, <1>7
<1>11. next_serial' = first + count /\ next_serial' \in 1..(MaxSerial + 1)
  BY <1>6, <1>8, <1>9, <1>10
<1>12. \A s \in new : s \in Nat /\ first <= s /\ s \notin DOMAIN sets
                      /\ s \notin used
  BY <1>4, <1>8, <1>9, <1>10, TableFacts
<1>13. ASSUME NEW s \in new
       PROVE  /\ sets'[s] = DescriptorSet(p, sig[((s - first) % n) + 1], Blank)
              /\ sets'[s] \in SetRecords
  <2>1. s - first \in Nat
    BY <1>9, <1>12
  <2>2. ((s - first) % n) + 1 \in 1 .. n
    <3>1. PICK m \in Nat : m = s - first
      BY <2>1
    <3>2. m % n \in 0 .. n - 1
      BY <1>9, DivMod
    <3>3. PICK q : q = m % n
      OBVIOUS
    <3>4. q + 1 \in 1 .. n
      BY <1>9, <3>2, <3>3
    <3> QED
      BY <3>1, <3>3, <3>4
  <2>3. sig[((s - first) % n) + 1] \in Layouts
    BY <1>9, <2>2
  <2>4. sets'[s] = DescriptorSet(p, sig[((s - first) % n) + 1], Blank)
    BY <1>6, <1>7, <1>8
  <2>5. \A l \in Layouts : DescriptorSet(p, l, Blank) \in SetRecords
    BY DEF DescriptorSet, SetRecords
  <2> QED
    BY <2>3, <2>4, <2>5
<1>14. \A s \in DOMAIN sets : sets'[s] = Current[s] /\ sets'[s] \in SetRecords
  BY <1>6, <1>12, CurrentFacts
<1>15. sets' \in [DOMAIN sets \cup new -> SetRecords]
       /\ DOMAIN sets' = DOMAIN sets \cup new
  <2>1. DOMAIN sets' = DOMAIN sets \cup new /\ sets' = [s \in DOMAIN sets' |-> sets'[s]]
    BY <1>6
  <2> QED
    BY <1>13, <1>14, <2>1
<1>16. DOMAIN given = IF count = 0 THEN {} ELSE 1 .. n
  <2>1. CASE status = "SUCCESS"
    BY <1>3, <1>9, <1>10, <2>1
  <2>2. CASE status # "SUCCESS"
    BY <1>3, <1>10, <2>2
  <2> QED
    BY <2>1, <2>2
<1>17. /\ DOMAIN ids = DOMAIN given
       /\ \A k \in DOMAIN given : /\ k \in 1 .. n /\ given[k] = sig[k]
                                  /\ ids[k] = first + k - 1
                                  /\ ids[k] \in new
  <2>1. DOMAIN ids = DOMAIN given
        /\ \A k \in DOMAIN given : ids[k] = first + k - 1
    BY <1>5, <1>8
  <2>2. ASSUME NEW k \in DOMAIN given PROVE k \in 1 .. n /\ given[k] = sig[k]
    BY <1>3, <1>10, <1>16
  <2>3. ASSUME NEW k \in DOMAIN given PROVE first + k - 1 \in new
    <3>1. k \in 1 .. n /\ count >= n
      BY <1>10, <1>16
    <3> QED
      BY <1>4, <1>8, <1>9, <1>10, <3>1
  <2> QED
    BY <2>1, <2>2, <2>3
<1>18. Range(ids) = IF count = 0 THEN {} ELSE first .. (first + n - 1)
  <2>1. Range(ids) = {ids[k] : k \in DOMAIN given}
    BY <1>17 DEF Range
  <2>2. CASE count = 0
    BY <1>16, <2>1, <2>2
  <2>3. CASE count # 0
    <3>1. \A k \in 1 .. n : ids[k] \in first .. (first + n - 1)
      <4>1. \A k \in 1 .. n : ids[k] = first + k - 1
        BY <1>16, <1>17, <2>3
      <4>2. \A k \in 1 .. n : first + k - 1 \in first .. (first + n - 1)
        BY <1>9
      <4> QED
        BY <4>1, <4>2
    <3>2. ASSUME NEW s \in first .. (first + n - 1)
          PROVE  \E k \in 1 .. n : ids[k] = s
      <4>1. PICK k : k = s - first + 1
        OBVIOUS
      <4>2. k \in 1 .. n /\ first + k - 1 = s
        BY <1>9, <4>1
      <4> QED
        BY <1>16, <1>17, <2>3, <4>2
    <3>3. Range(ids) = {ids[k] : k \in 1 .. n}
      BY <1>16, <2>1, <2>3
    <3>4. {ids[k] : k \in 1 .. n} = first .. (first + n - 1)
      BY <3>1, <3>2, Zenon
    <3> QED
      BY <2>3, <3>3, <3>4
  <2> QED
    BY <2>2, <2>3
<1>19. FreshIds(ids, given)
  <2>1. ASSUME NEW k \in DOMAIN given
        PROVE  given[k] \in Layouts /\ ids[k] \notin DOMAIN proxies
    BY <1>9, <1>12, <1>17, TableFacts
  <2>2. ASSUME NEW j \in DOMAIN given, NEW k \in DOMAIN given, ids[j] = ids[k]
        PROVE  j = k
    BY <1>9, <1>17, <2>2
  <2> QED
    BY <1>17, <2>1, <2>2 DEF FreshIds
<1>20. Extended(proxies', p, ids, given)
  <2>1. Extended(NewProxies(p, ids, given), p, ids, given)
    BY <1>19, NewProxiesFacts
  <2> QED
    BY <1>6, <2>1
<1>21. ASSUME NEW s \in Range(ids)
       PROVE  s \in DOMAIN sets' /\ proxies'[s] = sets'[s]
  <2>1. PICK k \in DOMAIN given : s = ids[k]
    BY <1>17 DEF Range
  <2>2. proxies'[s] = DescriptorSet(p, sig[k], Blank)
    BY <1>17, <1>20, <2>1 DEF Extended
  <2>3. s \in new /\ s - first = k - 1 /\ k \in 1 .. n
    BY <1>9, <1>17, <2>1
  <2>4. ((s - first) % n) + 1 = k
    <3>1. PICK m \in Nat : m = k - 1
      BY <2>3
    <3>2. m < n /\ m + 1 = k
      BY <1>9, <2>3, <3>1
    <3>3. m % n = m
      BY <1>9, <3>2, DivMod
    <3> QED
      BY <2>3, <3>1, <3>2, <3>3
  <2> QED
    BY <1>13, <1>15, <2>2, <2>3, <2>4
<1>22. /\ proxies' \in [DOMAIN proxies \cup Range(ids) -> SetRecords]
       /\ \A s \in DOMAIN proxies : proxies'[s] = proxies[s]
  BY <1>20 DEF Extended
<1>23. result'.ids = ids /\ used' = used \cup Range(ids)
  BY <1>6
<1>24. Answered(p, sig, count, ids)
  <2>1. DOMAIN ids = IF count = 0 THEN {} ELSE DOMAIN sig
    BY <1>9, <1>16, <1>17
  <2>2. \A s \in first .. (first + count - 1) :
          sets'[s] = DescriptorSet(p, sig[((s - first) % Len(sig)) + 1], Blank)
    BY <1>4, <1>7, <1>8, <1>13
  <2>3. sets' \in [DOMAIN sets \cup first .. (first + count - 1) -> SetRecords]
    BY <1>4, <1>8, <1>15
  <2>4. \A k \in DOMAIN ids : ids[k] = first + k - 1
    BY <1>17
  <2>5. ids \in [DOMAIN ids -> Serials]
    <3>1. \A s \in new : s \in Serials
      BY <1>4, <1>8, <1>9, <1>10, <1>11 DEF Serials
    <3>2. ids = [k \in DOMAIN ids |-> ids[k]]
      BY <1>5
    <3> QED
      BY <1>17, <3>1, <3>2
  <2> QED
    BY <1>7, <1>8, <1>10, <1>11, <1>14, <1>18, <1>21, <1>22, <1>23, <2>1, <2>2,
       <2>3, <2>4, <2>5 DEF Answered
<1> QED
  BY <1>1, <1>2, <1>24

\* The extra sets of a batch, published in bank b.
Filled(b, p, sig, count) ==
  /\ b \in Banks /\ count > Len(sig)
  /\ banks'[b].ready /\ banks'[b].pool = p /\ banks'[b].cursor = 0
  /\ banks'[b].records = Extras(sig, count)

\* The extras are the sets behind those of the answer, in the layouts they have.
LEMMA ExtrasFacts ==
  ASSUME NEW sig \in Signatures, NEW count \in Nat, count > Len(sig)
  PROVE  /\ DOMAIN Extras(sig, count) = 1 .. (count - Len(sig))
         /\ \A k \in 1 .. (count - Len(sig)) :
              /\ Extras(sig, count)[k].set = next_serial + Len(sig) + k - 1
              /\ Extras(sig, count)[k].layout
                   = sig[((Len(sig) + k - 1) % Len(sig)) + 1]
  BY DEF Extras

\* A call of the ring: an answer, and at most one bank is emptied or filled
\* anew, which had nothing left to claim.
LEMMA RingStep ==
  ASSUME SetsInv, Working, Applied, submitted' = NoSets,
         UNCHANGED <<poisoned, link, pool>>,
         NEW p \in Pools, pool[p] = "live", NEW sig \in Signatures,
         NEW count, NEW ids, Answered(p, sig, count, ids),
         lease_plans' \in [Banks -> PlanRecords],
         banks' \in [Banks -> BankRecords],
         \A d \in Banks : banks'[d].cursor \in 0..Len(banks'[d].records),
         NEW b, \A d \in Banks : d # b => banks'[d] = banks[d],
         b \in Banks =>
           \/ banks'[b] = banks[b]
           \/ Offered(b) = {} /\ (banks'[b] = NoBank \/ Filled(b, p, sig, count)),
         \A d \in Banks : banks'[d].ready =>
           lease_plans'[d].published /\ lease_plans'[d].pool = banks'[d].pool,
         \A d \in Banks : lease_plans[d].batch_disabled =>
           lease_plans'[d] = lease_plans[d],
         count > Len(sig) =>
           \/ Filled(b, p, sig, count) /\ Offered(b) = {}
           \/ \E d \in Banks : /\ lease_plans'[d].pool = p
                               /\ lease_plans'[d].epoch = MaxEpoch
                               /\ lease_plans'[d].batch_disabled
  PROVE  SetsInv'
<1>1. Working' /\ ~poisoned /\ ~poisoned'
  BY DEF Working
<1>2. /\ journal' = <<>> /\ journal' \in Seq(Updates)
      /\ Len(journal') <= MaxRecords /\ DOMAIN journal' = {}
      /\ journal_sequence' \in 1..MaxSequence /\ last_sequence' \in 0..MaxSequence
      /\ journal_sequence' = last_sequence' + 1
  BY JournalFacts
<1>3. PICK n : n = Len(sig)
  OBVIOUS
<1>4. PICK first : first = next_serial
  OBVIOUS
<1>5. PICK new : new = first .. (first + count - 1)
  OBVIOUS
<1>6. PICK given : given = Range(ids)
  OBVIOUS
<1>7. /\ n \in Nat /\ n > 0 /\ first \in Nat /\ first >= 1
      /\ count \in Nat /\ (count = 0 \/ count >= n)
      /\ next_serial' = first + count /\ next_serial' \in 1..(MaxSerial + 1)
      /\ MaxSerial \in Nat
  <2>1. n \in Nat /\ n > 0 /\ first \in Nat /\ first >= 1 /\ MaxSerial \in Nat
    BY <1>3, <1>4, SignatureFacts, TableFacts, Constants, SMTT(40)
  <2>2. /\ count \in Nat /\ (count = 0 \/ count >= n)
        /\ next_serial' = first + count /\ next_serial' \in 1..(MaxSerial + 1)
    BY <1>3, <1>4, Zenon DEF Answered
  <2> QED
    BY <2>1, <2>2
<1>8. /\ sets' \in [DOMAIN sets \cup new -> SetRecords]
      /\ \A s \in DOMAIN sets : sets'[s] = Current[s]
      /\ \A s \in new :
           sets'[s] = DescriptorSet(p, sig[((s - first) % n) + 1], Blank)
  BY <1>3, <1>4, <1>5 DEF Answered
<1>9. given = IF count = 0 THEN {} ELSE first .. (first + n - 1)
  BY <1>3, <1>4, <1>6 DEF Answered
<1>10. /\ proxies' \in [DOMAIN proxies \cup given -> SetRecords]
       /\ \A s \in DOMAIN proxies : proxies'[s] = proxies[s]
       /\ \A s \in given : s \in DOMAIN sets' /\ proxies'[s] = sets'[s]
       /\ used' = used \cup given
  BY <1>6 DEF Answered
<1>11. DOMAIN sets' = DOMAIN sets \cup new /\ DOMAIN proxies' = DOMAIN proxies \cup given
  BY <1>8, <1>10
<1>12. /\ \A s \in new : s \in Serials /\ first <= s /\ s < next_serial'
       /\ given \subseteq new
       /\ \A s \in new \ given : s >= first + n /\ count > n
  <2>1. \A s \in new : s \in Serials /\ first <= s /\ s < next_serial'
    BY <1>5, <1>7 DEF Serials
  <2>2. given \subseteq new
    BY <1>5, <1>7, <1>9
  <2>3. ASSUME NEW s \in new \ given PROVE s >= first + n /\ count > n
    BY <1>5, <1>7, <1>9
  <2> QED
    BY <2>1, <2>2, <2>3
<1>13. \A s \in used \cup DOMAIN sets : s < first /\ s \in Nat
  BY <1>4, TableFacts, Constants
<1>14. \A d \in Banks : \A k \in DOMAIN banks[d].records :
         banks[d].records[k].set < first
  BY <1>4, TableFacts
<1>15. /\ Current \in [DOMAIN sets -> SetRecords]
       /\ \A s \in DOMAIN sets : Current[s].pool = sets[s].pool
       /\ \A s \in DOMAIN sets \ DOMAIN proxies : Current[s] = sets[s]
       /\ \A s \in DOMAIN proxies : s \in DOMAIN sets /\ Current[s] = proxies[s]
  BY CurrentFacts
\* What the bank offers that has been filled.
<1>16. ASSUME Filled(b, p, sig, count)
       PROVE  /\ b \in Banks /\ banks'[b].pool = p /\ banks'[b].ready
              /\ DOMAIN banks'[b].records = 1 .. (count - n)
              /\ Offered(b)' = 1 .. (count - n)
              /\ \A k \in 1 .. (count - n) :
                   /\ banks'[b].records[k].set = first + n + k - 1
                   /\ banks'[b].records[k].set \in new \ given
                   /\ sets'[banks'[b].records[k].set]
                        = DescriptorSet(p, banks'[b].records[k].layout, Blank)
  <2>1. /\ b \in Banks /\ count > n /\ banks'[b].ready /\ banks'[b].pool = p
        /\ banks'[b].cursor = 0 /\ banks'[b].records = Extras(sig, count)
    BY <1>3, <1>16 DEF Filled
  <2>2. /\ DOMAIN Extras(sig, count) = 1 .. (count - n)
        /\ \A k \in 1 .. (count - n) :
             /\ Extras(sig, count)[k].set = first + n + k - 1
             /\ Extras(sig, count)[k].layout = sig[((n + k - 1) % n) + 1]
    <3>1. count \in Nat /\ count > Len(sig)
      BY <1>3, <1>7, <2>1
    <3>2. /\ DOMAIN Extras(sig, count) = 1 .. (count - Len(sig))
          /\ \A k \in 1 .. (count - Len(sig)) :
               /\ Extras(sig, count)[k].set = next_serial + Len(sig) + k - 1
               /\ Extras(sig, count)[k].layout
                    = sig[((Len(sig) + k - 1) % Len(sig)) + 1]
      BY <3>1, ExtrasFacts, Zenon
    <3> QED
      BY <1>3, <1>4, <3>2, Zenon
  <2>3. Offered(b)' = 1 .. (count - n)
    <3>1. \A k \in 1 .. (count - n) : 0 < k
      BY <1>7
    <3> QED
      BY <2>1, <2>2, <3>1 DEF Offered
  <2>4. ASSUME NEW k \in 1 .. (count - n)
        PROVE  /\ first + n + k - 1 \in new \ given
               /\ (first + n + k - 1) - first = n + k - 1
    BY <1>5, <1>7, <1>9
  <2>5. ASSUME NEW k \in 1 .. (count - n)
        PROVE  /\ banks'[b].records[k].set = first + n + k - 1
               /\ banks'[b].records[k].set \in new \ given
               /\ sets'[banks'[b].records[k].set]
                    = DescriptorSet(p, banks'[b].records[k].layout, Blank)
    <3>1. PICK x : x = first + n + k - 1
      OBVIOUS
    <3>2. PICK l : l = sig[((n + k - 1) % n) + 1]
      OBVIOUS
    <3>3. banks'[b].records[k].set = x /\ banks'[b].records[k].layout = l
      BY <2>1, <2>2, <3>1, <3>2, Zenon
    <3>4. x \in new \ given /\ x - first = n + k - 1
      BY <2>4, <3>1
    <3>5. sets'[x] = DescriptorSet(p, l, Blank)
      BY <1>8, <3>2, <3>4, Zenon
    <3> QED
      BY <3>1, <3>3, <3>4, <3>5
  <2>6. DOMAIN banks'[b].records = 1 .. (count - n)
    BY <2>1, <2>2
  <2> QED
    BY <2>1, <2>3, <2>5, <2>6
\* An old bank that is still there.
<1>17. ASSUME NEW d \in Banks, banks'[d].ready,
              ~(d = b /\ Filled(b, p, sig, count))
       PROVE  banks'[d] = banks[d] /\ Offered(d)' = Offered(d)
  <2>1. banks'[d] = banks[d]
    BY <1>17, EmptyFacts
  <2> QED
    BY <2>1 DEF Offered
\* An old offer is still there.
<1>18. ASSUME NEW d \in Banks, NEW k \in Offered(d)
       PROVE  banks'[d] = banks[d] /\ k \in Offered(d)'
  <2>1. banks'[d] = banks[d]
    OBVIOUS
  <2> QED
    BY <2>1 DEF Offered
<1>19. TablesKnown'
  <2>1. DOMAIN proxies' \cup DOMAIN sets' \cup used' \subseteq Serials
    BY <1>10, <1>11, <1>12, TableFacts
  <2>2. poisoned' \in BOOLEAN
    BY PoisonedType
  <2>3. proxies' \in [DOMAIN proxies' -> SetRecords]
        /\ sets' \in [DOMAIN sets' -> SetRecords]
    BY <1>8, <1>10, <1>11
  <2>4. link' \in {"up", "down"} /\ pool' \in [Pools -> {"none", "live", "gone"}]
    BY TableFacts
  <2> QED
    BY <1>2, <1>7, <2>1, <2>2, <2>3, <2>4, NoSetsEmpty, TablesNext
<1>20. SerialsKnown'
  <2>1. \A s \in used' \cup DOMAIN sets' : s < next_serial'
    BY <1>7, <1>10, <1>11, <1>12, <1>13
  <2>2. DOMAIN proxies' \subseteq used'
    BY <1>10, <1>11, TableFacts
  <2>3. ASSUME NEW d \in Banks, NEW k \in DOMAIN banks'[d].records
        PROVE  banks'[d].records[k].set < next_serial'
    <3>1. CASE d = b /\ Filled(b, p, sig, count)
      BY <1>12, <1>16, <2>3, <3>1
    <3>2. CASE banks'[d] = banks[d]
      <4>1. banks[d] \in BankRecords /\ k \in DOMAIN banks[d].records
        BY <3>2, TableFacts
      <4>2. banks[d].records \in Seq(LeaseRecords)
        BY <4>1 DEF BankRecords
      <4>3. banks[d].records[k] \in LeaseRecords
        BY <4>1, <4>2
      <4>4. banks[d].records[k].set \in Nat
        BY <4>3, Constants DEF LeaseRecords
      <4> QED
        BY <1>7, <1>14, <3>2, <4>1, <4>4
    <3>3. CASE banks'[d] = NoBank
      <4>1. DOMAIN <<>> = {}
        OBVIOUS
      <4> QED
        BY <3>3, <4>1, EmptyFacts
    <3> QED
      BY <3>1, <3>2, <3>3
  <2> QED
    BY <2>1, <2>2, <2>3 DEF SerialsKnown, Banks
<1>21. JournalKnown'
  BY <1>2 DEF JournalKnown
<1>22. InSync'
  <2>1. Replay(sets', journal') = sets'
    BY <1>2, <1>8, ReplayEmpty
  <2>2. \A s \in DOMAIN proxies' : s \in DOMAIN sets' /\ sets'[s] = proxies'[s]
    BY <1>8, <1>10, <1>11, <1>15
  <2> QED
    BY <2>1, <2>2 DEF InSync, Current
<1>23. OffersKnown'
  <2>1. ASSUME NEW d \in Banks, NEW k \in Offered(d)'
        PROVE  \/ d = b /\ Filled(b, p, sig, count)
               \/ banks'[d] = banks[d] /\ k \in Offered(d)
    <3>1. banks'[d].ready
      BY DEF Offered
    <3> QED
      BY <1>17, <3>1
  <2>2. ASSUME NEW d \in Banks, NEW k \in Offered(d)
        PROVE  /\ banks[d].records[k].set < first
               /\ banks[d].records[k].set \in Nat
               /\ banks[d].records[k].set \notin used
    <3>1. k \in DOMAIN banks[d].records /\ banks[d] \in BankRecords
      BY TableFacts DEF Offered
    <3>2. banks[d].records \in Seq(LeaseRecords)
      BY <3>1 DEF BankRecords
    <3>3. banks[d].records[k] \in LeaseRecords
      BY <3>1, <3>2
    <3>4. banks[d].records[k].set \in Nat
      BY <3>3, Constants DEF LeaseRecords
    <3> QED
      BY <1>1, <1>14, <3>1, <3>4 DEF SetsInv, OffersKnown
  <2>3. ASSUME NEW d \in Banks, NEW k \in Offered(d)'
        PROVE  banks'[d].records[k].set \notin used'
    <3>1. CASE d = b /\ Filled(b, p, sig, count)
      <4>1. banks'[d].records[k].set \in new \ given
        BY <1>16, <2>3, <3>1
      <4> QED
        BY <1>7, <1>10, <1>12, <1>13, <4>1
    <3>2. CASE banks'[d] = banks[d] /\ k \in Offered(d)
      <4>1. PICK s : s = banks[d].records[k].set
        OBVIOUS
      <4>2. s < first /\ s \in Nat /\ s \notin used
        BY <2>2, <3>2, <4>1
      <4>3. s \notin given
        BY <1>7, <1>9, <4>2
      <4> QED
        BY <1>10, <3>2, <4>1, <4>2, <4>3
    <3> QED
      BY <2>1, <3>1, <3>2
  <2>4. ASSUME NEW d \in Banks, NEW k \in Offered(d)',
               NEW e \in Banks, NEW j \in Offered(e)',
               banks'[e].records[j].set = banks'[d].records[k].set
        PROVE  e = d /\ j = k
    <3>1. CASE /\ d = b /\ e = b /\ Filled(b, p, sig, count)
      <4>1. /\ k \in 1 .. (count - n) /\ j \in 1 .. (count - n)
            /\ banks'[d].records[k].set = first + n + k - 1
            /\ banks'[e].records[j].set = first + n + j - 1
        BY <1>16, <2>4, <3>1
      <4> QED
        BY <1>7, <2>4, <3>1, <4>1
    <3>2. CASE /\ banks'[d] = banks[d] /\ k \in Offered(d)
               /\ banks'[e] = banks[e] /\ j \in Offered(e)
      BY <1>1, <2>4, <3>2 DEF SetsInv, OffersKnown
    <3>3. ASSUME NEW x \in Banks, NEW i \in Offered(x)', x = b,
                 Filled(b, p, sig, count)
          PROVE  banks'[x].records[i].set \in Nat /\ banks'[x].records[i].set >= first
      <4>1. banks'[x].records[i].set \in new
        BY <1>16, <3>3
      <4> QED
        BY <1>12, <4>1, Constants
    <3>4. ASSUME NEW x \in Banks, NEW i \in Offered(x), banks'[x] = banks[x]
          PROVE  banks'[x].records[i].set \in Nat /\ banks'[x].records[i].set < first
      BY <2>2, <3>4
    <3>5. CASE /\ d = b /\ Filled(b, p, sig, count)
               /\ banks'[e] = banks[e] /\ j \in Offered(e)
      BY <1>7, <2>4, <3>3, <3>4, <3>5
    <3>6. CASE /\ e = b /\ Filled(b, p, sig, count)
               /\ banks'[d] = banks[d] /\ k \in Offered(d)
      BY <1>7, <2>4, <3>3, <3>4, <3>6
    <3> QED
      BY <2>1, <2>4, <3>1, <3>2, <3>5, <3>6
  <2> QED
    BY <2>3, <2>4 DEF OffersKnown, Banks
<1>24. BanksKnown'
  <2> SUFFICES ASSUME NEW d \in Banks, banks'[d].ready
        PROVE  /\ banks'[d].pool \in Pools /\ pool'[banks'[d].pool] = "live"
               /\ \A k \in Offered(d)' :
                    /\ banks'[d].records[k].set \in DOMAIN sets'
                    /\ sets'[banks'[d].records[k].set]
                         = DescriptorSet(banks'[d].pool,
                                         banks'[d].records[k].layout, Blank)
    BY DEF BanksKnown, Banks, DescriptorSet
  <2>1. CASE d = b /\ Filled(b, p, sig, count)
    BY <1>11, <1>16, <2>1
  <2>2. CASE ~(d = b /\ Filled(b, p, sig, count))
    <3>1. banks'[d] = banks[d] /\ Offered(d)' = Offered(d)
      BY <1>17, <2>2
    <3>2. banks[d].pool \in Pools /\ pool[banks[d].pool] = "live"
      BY <3>1 DEF SetsInv, BanksKnown
    <3>3. ASSUME NEW k \in Offered(d)
          PROVE  /\ banks[d].records[k].set \in DOMAIN sets'
                 /\ sets'[banks[d].records[k].set]
                      = DescriptorSet(banks[d].pool, banks[d].records[k].layout, Blank)
      <4>1. PICK s : s = banks[d].records[k].set
        OBVIOUS
      <4>2. /\ s \in DOMAIN sets
            /\ sets[s] = DescriptorSet(banks[d].pool, banks[d].records[k].layout, Blank)
        BY <3>1, <4>1 DEF SetsInv, BanksKnown
      <4>3. s \notin DOMAIN proxies
        BY <1>1, <4>1, TableFacts DEF SetsInv, OffersKnown
      <4> QED
        BY <1>8, <1>11, <1>15, <4>1, <4>2, <4>3
    <3> QED
      BY <3>1, <3>2, <3>3
  <2> QED
    BY <2>1, <2>2
<1>25. SpaceKnown'
  <2> SUFFICES ASSUME NEW s \in DOMAIN sets'
        PROVE  \/ s \in DOMAIN proxies'
               \/ \E d \in Banks : \E k \in Offered(d)' : banks'[d].records[k].set = s
               \/ \E d \in Banks : /\ lease_plans'[d].pool = sets'[s].pool
                                   /\ lease_plans'[d].epoch = MaxEpoch
                                   /\ lease_plans'[d].batch_disabled
    BY DEF SpaceKnown, Banks
  <2>1. CASE s \in DOMAIN sets
    <3>1. sets'[s].pool = sets[s].pool
      BY <1>8, <1>15, <2>1
    <3>2. ASSUME NEW d \in Banks, NEW k \in Offered(d), banks[d].records[k].set = s
          PROVE  k \in Offered(d)' /\ banks'[d].records[k].set = s
      BY <1>18, <3>2
    <3>3. ASSUME NEW d \in Banks, lease_plans[d].pool = sets[s].pool,
                 lease_plans[d].epoch = MaxEpoch, lease_plans[d].batch_disabled
          PROVE  /\ lease_plans'[d].pool = sets'[s].pool
                 /\ lease_plans'[d].epoch = MaxEpoch
                 /\ lease_plans'[d].batch_disabled
      BY <3>1, <3>3
    <3> QED
      BY <1>11, <2>1, <3>2, <3>3 DEF SetsInv, SpaceKnown
  <2>2. CASE s \in new
    <3>1. CASE s \in given
      BY <1>11, <3>1
    <3>2. CASE s \notin given
      <4>1. s >= first + n /\ count > n /\ s \in first .. (first + count - 1)
        BY <1>5, <1>12, <2>2, <3>2
      <4>2. CASE Filled(b, p, sig, count)
        <5>1. PICK k : k = s - first - n + 1
          OBVIOUS
        <5>2. s \in Nat /\ s <= first + count - 1
          BY <1>7, <4>1
        <5>3. k \in 1 .. (count - n) /\ first + n + k - 1 = s
          <6>1. n \in Nat /\ first \in Nat /\ count \in Nat /\ s \in Nat
            BY <1>7, <5>2
          <6>2. k \in Int /\ first + n + k - 1 = s
            BY <5>1, <6>1
          <6>3. k >= 1
            BY <4>1, <5>1, <6>1
          <6>4. k <= count - n
            BY <5>1, <5>2, <6>1
          <6> QED
            BY <6>1, <6>2, <6>3, <6>4
        <5>4. /\ b \in Banks /\ k \in Offered(b)'
              /\ banks'[b].records[k].set = s
          BY <1>16, <4>2, <5>3
        <5> QED
          BY <5>4
      <4>3. sets'[s].pool = p
        <5>1. sets'[s] = DescriptorSet(p, sig[((s - first) % n) + 1], Blank)
          BY <1>8, <2>2
        <5> QED
          BY <5>1 DEF DescriptorSet
      <4> QED
        BY <1>3, <4>1, <4>2, <4>3
    <3> QED
      BY <3>1, <3>2
  <2> QED
    BY <1>11, <2>1, <2>2
<1> QED
  BY <1>19, <1>20, <1>21, <1>22, <1>23, <1>24, <1>25 DEF SetsInv

\* A plan that starts.
LEMMA NewPlanFacts ==
  ASSUME NEW p \in Pools, NEW sig \in Signatures, NEW b, lease_plans[b] = NoPlan
  PROVE  /\ PlanFor(b, p, sig) \in PlanRecords
         /\ PlanFor(b, p, sig).pool = p /\ PlanFor(b, p, sig).signature = sig
         /\ ~PlanFor(b, p, sig).published
<1>1. PICK plan : plan = [pool |-> p, signature |-> sig, batch_repetitions |-> 2,
                          observed |-> 0, published |-> FALSE,
                          batch_disabled |-> FALSE, epoch |-> 0]
  OBVIOUS
<1>2. PlanFor(b, p, sig) = plan
  <2>1. PlanFor(b, p, sig) =
          [NoPlan EXCEPT !.pool = p, !.signature = sig, !.batch_repetitions = 2]
    BY Zenon DEF PlanFor
  <2> QED
    BY <1>1, <2>1 DEF NoPlan
<1>3. sig \in Seq(Layouts) /\ 2 \in 0 .. Max({2, MaxPerAllocate}) /\ 0 \in 0 .. 2
      /\ 0 \in 0 .. MaxEpoch
  BY SignatureFacts, Constants
<1>4. plan \in PlanRecords
  BY <1>1, <1>3 DEF PlanRecords
<1>5. plan.pool = p /\ plan.signature = sig /\ ~plan.published
  BY <1>1
<1> QED
  BY <1>2, <1>4, <1>5

\* The plan of a call: the one of the pool and the signature, or a new one in a
\* place without a plan.
LEMMA PlanFacts ==
  ASSUME SetsInv, NEW p \in Pools, NEW sig \in Signatures, PlanIndex(p, sig) # 0
  PROVE  /\ PlanIndex(p, sig) \in Banks
         /\ PlanFor(PlanIndex(p, sig), p, sig) \in PlanRecords
         /\ PlanFor(PlanIndex(p, sig), p, sig).pool = p
         /\ PlanFor(PlanIndex(p, sig), p, sig).signature = sig
         /\ \/ lease_plans[PlanIndex(p, sig)] = PlanFor(PlanIndex(p, sig), p, sig)
            \/ /\ lease_plans[PlanIndex(p, sig)] = NoPlan
               /\ ~PlanFor(PlanIndex(p, sig), p, sig).published
<1>1. PICK found : found = {d \in Banks : lease_plans[d].pool = p
                                         /\ lease_plans[d].signature = sig}
  OBVIOUS
<1>2. PICK empty : empty = {d \in Banks : lease_plans[d] = NoPlan}
  OBVIOUS
<1>3. PICK b : b = PlanIndex(p, sig)
  OBVIOUS
<1>4. b = IF found # {} THEN Min(found) ELSE IF empty # {} THEN Min(empty) ELSE 0
  BY <1>1, <1>2, <1>3, Zenon DEF PlanIndex
<1>5. Banks \subseteq Nat
  BY Constants DEF Banks
<1>6. CASE found # {}
  <2>1. b \in found
    BY <1>1, <1>4, <1>5, <1>6, MinOfSet
  <2>2. b \in Banks /\ lease_plans[b].pool = p /\ lease_plans[b].signature = sig
    BY <1>1, <2>1
  <2>3. sig # <<>>
    BY SignatureFacts
  <2>4. lease_plans[b] # NoPlan
    BY <2>2, <2>3 DEF NoPlan
  <2>5. PlanFor(b, p, sig) = lease_plans[b]
    BY <2>4 DEF PlanFor
  <2>6. lease_plans[b] \in PlanRecords
    BY <2>2, TableFacts
  <2> QED
    BY <1>3, <2>2, <2>5, <2>6
<1>7. CASE found = {}
  <2>1. b \in empty
    BY <1>2, <1>3, <1>4, <1>5, <1>7, MinOfSet
  <2>2. b \in Banks /\ lease_plans[b] = NoPlan
    BY <1>2, <2>1
  <2> QED
    BY <1>3, <2>2, NewPlanFacts
<1> QED
  BY <1>6, <1>7

\* A call of the ring that allocates what was asked for and leaves the banks.
LEMMA QuietStep ==
  ASSUME SetsInv, Working, Applied, submitted' = NoSets,
         UNCHANGED <<poisoned, link, pool, banks>>,
         NEW p \in Pools, pool[p] = "live", NEW sig \in Signatures,
         NEW fit, NEW refused, Answer(p, sig, Len(sig), fit, refused),
         lease_plans' \in [Banks -> PlanRecords],
         \A d \in Banks : banks[d].ready =>
           lease_plans'[d].published /\ lease_plans'[d].pool = lease_plans[d].pool,
         \A d \in Banks : lease_plans[d].batch_disabled =>
           lease_plans'[d] = lease_plans[d]
  PROVE  SetsInv'
<1>1. PICK count : count = IF AllocateStatus(Len(sig), fit, refused) = "SUCCESS"
                           THEN Len(sig) ELSE 0
  OBVIOUS
<1>2. Len(sig) \in Nat /\ Len(sig) <= Len(sig)
  BY SignatureFacts
<1>3. PICK ids : Answered(p, sig, count, ids)
  BY <1>1, <1>2, AnswerFacts
<1>4. ~(count > Len(sig))
  BY <1>1, <1>2
<1>5. \A d \in Banks : banks'[d] = banks[d]
  OBVIOUS
<1>6. /\ banks' \in [Banks -> BankRecords]
      /\ \A d \in Banks : banks'[d].cursor \in 0..Len(banks'[d].records)
  BY TableFacts
<1>7. \A d \in Banks : banks'[d].ready =>
        lease_plans'[d].published /\ lease_plans'[d].pool = banks'[d].pool
  BY DEF SetsInv, BanksKnown
<1> HIDE DEF SetsInv
<1> QED
  BY <1>3, <1>4, <1>5, <1>6, <1>7, RingStep

\* ... because there is no plan, or the plan does not batch.
LEMMA ExactStep ==
  ASSUME SetsInv, Working, Applied, submitted' = NoSets,
         UNCHANGED <<poisoned, link, pool>>,
         NEW p \in Pools, pool[p] = "live", NEW sig \in Signatures,
         NEW fit, NEW refused, ExactCall(p, sig, fit, refused)
  PROVE  SetsInv'
<1>1. PICK b : b = PlanIndex(p, sig)
  OBVIOUS
<1>2. PICK plan : plan = PlanFor(b, p, sig)
  OBVIOUS
<1>3. /\ \/ b = 0 /\ UNCHANGED lease_plans
         \/ b # 0 /\ lease_plans' = [lease_plans EXCEPT ![b] = plan]
      /\ Answer(p, sig, Len(sig), fit, refused) /\ UNCHANGED banks
  BY <1>1, <1>2, Zenon DEF ExactCall
<1>4. lease_plans \in [Banks -> PlanRecords]
  BY TableFacts
<1>5. \A d \in Banks : banks[d].ready => lease_plans[d].published
  BY DEF SetsInv, BanksKnown
<1>6. CASE b = 0
  BY <1>3, <1>4, <1>5, <1>6, QuietStep
<1>7. CASE b # 0
  <2>1. /\ b \in Banks /\ plan \in PlanRecords /\ plan.pool = p
        /\ (lease_plans[b] = plan \/ lease_plans[b] = NoPlan)
    BY <1>1, <1>2, <1>7, PlanFacts
  <2>2. /\ lease_plans' \in [Banks -> PlanRecords]
        /\ \A d \in Banks : d # b => lease_plans'[d] = lease_plans[d]
        /\ lease_plans'[b] = plan
    BY <1>3, <1>4, <1>7, <2>1
  <2>3. lease_plans[b] = NoPlan => ~banks[b].ready /\ ~lease_plans[b].batch_disabled
    BY <1>5, <2>1, EmptyFacts
  <2>4. \A d \in Banks : banks[d].ready => lease_plans'[d] = lease_plans[d]
    BY <2>1, <2>2, <2>3
  <2>5. \A d \in Banks : lease_plans[d].batch_disabled =>
          lease_plans'[d] = lease_plans[d]
    BY <2>1, <2>2, <2>3
  <2>6. \A d \in Banks : banks[d].ready =>
          lease_plans'[d].published /\ lease_plans'[d].pool = lease_plans[d].pool
    BY <1>5, <2>4
  <2> QED
    BY <1>3, <2>2, <2>5, <2>6, QuietStep
<1> QED
  BY <1>6, <1>7

\* ... because the signature is only observed so far.
LEMMA ObservingStep ==
  ASSUME SetsInv, Working, Applied, submitted' = NoSets,
         UNCHANGED <<poisoned, link, pool>>,
         NEW p \in Pools, pool[p] = "live", NEW sig \in Signatures,
         NEW fit, NEW refused, ObservingCall(p, sig, fit, refused)
  PROVE  SetsInv'
<1>1. PICK b : b = PlanIndex(p, sig)
  OBVIOUS
<1>2. PICK plan : plan = PlanFor(b, p, sig)
  OBVIOUS
<1>3. PICK next : next = [plan EXCEPT !.observed = plan.observed + 1]
  OBVIOUS
<1>4. /\ b # 0 /\ ~plan.batch_disabled /\ ~plan.published /\ plan.observed < 2
      /\ lease_plans' = [lease_plans EXCEPT ![b] = next]
      /\ Answer(p, sig, Len(sig), fit, refused) /\ UNCHANGED banks
  BY <1>1, <1>2, <1>3, Zenon DEF ObservingCall, Batching
<1>5. lease_plans \in [Banks -> PlanRecords]
  BY TableFacts
<1>6. \A d \in Banks : banks[d].ready => lease_plans[d].published
  BY DEF SetsInv, BanksKnown
<1>7. /\ b \in Banks /\ plan \in PlanRecords
      /\ (lease_plans[b] = plan \/ lease_plans[b] = NoPlan)
  BY <1>1, <1>2, <1>4, PlanFacts
<1>8. plan.observed + 1 \in 0 .. 2
  BY <1>4, <1>7 DEF PlanRecords
<1>9. next \in PlanRecords
  BY <1>3, <1>7, <1>8, PlanField
<1>10. /\ lease_plans' \in [Banks -> PlanRecords]
       /\ \A d \in Banks : d # b => lease_plans'[d] = lease_plans[d]
  BY <1>4, <1>5, <1>7, <1>9
<1>11. ~banks[b].ready /\ ~lease_plans[b].batch_disabled
  BY <1>4, <1>6, <1>7, EmptyFacts
<1>12. \A d \in Banks : banks[d].ready =>
         lease_plans'[d].published /\ lease_plans'[d].pool = lease_plans[d].pool
  BY <1>6, <1>10, <1>11
<1>13. \A d \in Banks : lease_plans[d].batch_disabled =>
         lease_plans'[d] = lease_plans[d]
  BY <1>10, <1>11
<1> QED
  BY <1>4, <1>10, <1>12, <1>13, QuietStep

\* ... because there are leases left that the call could not use.
LEMMA PassingStep ==
  ASSUME SetsInv, Working, Applied, submitted' = NoSets,
         UNCHANGED <<poisoned, link, pool>>,
         NEW p \in Pools, pool[p] = "live", NEW sig \in Signatures,
         NEW fit, NEW refused, PassingCall(p, sig, fit, refused)
  PROVE  SetsInv'
<1>1. Answer(p, sig, Len(sig), fit, refused) /\ UNCHANGED <<lease_plans, banks>>
  BY Zenon DEF PassingCall
<1>2. lease_plans' \in [Banks -> PlanRecords]
  BY <1>1, TableFacts
<1>3. \A d \in Banks : banks[d].ready => lease_plans[d].published
  BY DEF SetsInv, BanksKnown
<1> QED
  BY <1>1, <1>2, <1>3, QuietStep

\* A plan that grows keeps its type and batches at least as much as before.
LEMMA GrownFacts ==
  ASSUME NEW plan \in PlanRecords, plan.signature \in Signatures
  PROVE  /\ Grown(plan) \in PlanRecords
         /\ Grown(plan).pool = plan.pool /\ Grown(plan).epoch = plan.epoch
         /\ Grown(plan).batch_repetitions >= plan.batch_repetitions
         /\ Grown(plan).batch_repetitions \in Nat
<1>1. PICK n : n = Len(plan.signature)
  OBVIOUS
<1>2. PICK m : m = MaxRepetitions(n)
  OBVIOUS
<1>3. PICK r : r = plan.batch_repetitions
  OBVIOUS
<1>4. PICK lim : lim = Max({2, MaxPerAllocate})
  OBVIOUS
<1>5. /\ n \in Nat /\ n > 0 /\ MaxPerAllocate \in Nat
      /\ lim \in Nat /\ lim >= MaxPerAllocate
  BY <1>1, <1>4, SignatureFacts, Constants
<1>6. m \in Nat /\ m <= MaxPerAllocate
  BY <1>2, <1>5, DivMod DEF MaxRepetitions
<1>7. r \in 0 .. lim
  BY <1>3, <1>4 DEF PlanRecords
<1>8. PICK low : low = Min({2 * r, m})
  OBVIOUS
<1>9. r \in Nat /\ 2 * r \in Nat
  BY <1>5, <1>7
<1>10. low = IF 2 * r <= m THEN 2 * r ELSE m
  BY <1>6, <1>8, <1>9, MinMaxOfTwo
<1>11. low \in Nat /\ low <= m
  BY <1>6, <1>9, <1>10
<1>12. PICK high : high = Max({r, low})
  OBVIOUS
<1>13. high = IF r >= low THEN r ELSE low
  BY <1>9, <1>11, <1>12, MinMaxOfTwo
<1>14. high \in 0 .. lim /\ high >= r /\ high \in Nat
  BY <1>5, <1>6, <1>7, <1>9, <1>11, <1>13
<1>15. PICK cold : cold = [plan EXCEPT !.published = FALSE]
  OBVIOUS
<1>16. /\ cold \in PlanRecords /\ cold.pool = plan.pool /\ cold.epoch = plan.epoch
       /\ cold.batch_repetitions = r
  BY <1>3, <1>15, PlanField DEF PlanRecords
<1>17. PICK grown : grown = [cold EXCEPT !.batch_repetitions = high]
  OBVIOUS
<1>18. /\ grown \in PlanRecords /\ grown.pool = cold.pool /\ grown.epoch = cold.epoch
       /\ grown.batch_repetitions = high
  BY <1>4, <1>14, <1>16, <1>17, PlanField DEF PlanRecords
<1>19. Grown(plan) = grown
  BY <1>1, <1>2, <1>3, <1>8, <1>12, <1>15, <1>16, <1>17 DEF Grown
<1> QED
  BY <1>3, <1>14, <1>16, <1>18, <1>19

\* More repetitions give no smaller batch.
LEMMA BatchGrows ==
  ASSUME NEW n \in 1 .. MaxPerAllocate, NEW r \in Nat, NEW t \in Nat, r <= t,
         BatchSetCount(n, r) > n
  PROVE  BatchSetCount(n, t) > n /\ BatchSetCount(n, t) \in n .. MaxPerAllocate
<1>1. n \in Nat /\ n > 0 /\ MaxPerAllocate \in Nat
  BY Constants
<1>2. PICK m : m = MaxRepetitions(n)
  OBVIOUS
<1>3. m \in Nat
  BY <1>1, <1>2, DivMod DEF MaxRepetitions
<1>4. PICK i : i = Min({r, m})
  OBVIOUS
<1>5. PICK j : j = Min({t, m})
  OBVIOUS
<1>6. i = (IF r <= m THEN r ELSE m) /\ j = (IF t <= m THEN t ELSE m)
  BY <1>3, <1>4, <1>5, MinMaxOfTwo
<1>7. i \in Nat /\ j \in Nat /\ i <= j
  BY <1>3, <1>6
<1>8. i * n > n
  BY <1>2, <1>4 DEF BatchSetCount
<1>9. i >= 2
  <2>1. i # 0 /\ i # 1
    BY <1>1, <1>8
  <2> QED
    BY <1>7, <2>1
<1>10. j >= 2
  BY <1>7, <1>9
<1>11. PICK k \in Nat : j = k + 2
  <2>1. j - 2 \in Nat /\ j = (j - 2) + 2
    BY <1>7, <1>10
  <2> QED
    BY <2>1
<1>12. j * n = k * n + 2 * n /\ k * n \in Nat
  BY <1>1, <1>11
<1>13. j * n > n
  BY <1>1, <1>12
<1>14. BatchSetCount(n, t) = j * n
  BY <1>2, <1>5 DEF BatchSetCount
<1>15. BatchSetCount(n, t) \in 0 .. MaxPerAllocate
  BY BatchSetCountFacts
<1> QED
  BY <1>1, <1>13, <1>14, <1>15

\* Extras are lease records.
LEMMA ExtrasType ==
  ASSUME SetsInv, NEW sig \in Signatures, NEW count \in Nat, count > Len(sig),
         next_serial + count <= MaxSerial + 1
  PROVE  /\ Extras(sig, count) \in Seq(LeaseRecords)
         /\ Len(Extras(sig, count)) \in Nat
<1>1. PICK n : n = Len(sig)
  OBVIOUS
<1>2. PICK first : first = next_serial
  OBVIOUS
<1>3. /\ n \in Nat /\ n > 0 /\ first \in Nat /\ first >= 1 /\ MaxSerial \in Nat
      /\ count > n /\ first + count <= MaxSerial + 1
      /\ \A k \in 1 .. n : sig[k] \in Layouts
  BY <1>1, <1>2, SignatureFacts, TableFacts, Constants, SMTT(40)
<1>4. PICK more \in Nat : more = count - n
  <2>1. count - n \in Nat
    BY <1>3
  <2> QED
    BY <2>1
<1>5. ASSUME NEW k \in 1 .. more
      PROVE  [layout |-> sig[((n + k - 1) % n) + 1], set |-> first + n + k - 1]
               \in LeaseRecords
  <2>1. first + n + k - 1 \in Serials
    BY <1>3, <1>4 DEF Serials
  <2>2. PICK m \in Nat : m = n + k - 1
    <3>1. n + k - 1 \in Nat
      BY <1>3, <1>4
    <3> QED
      BY <3>1
  <2>3. m % n \in 0 .. n - 1
    BY <1>3, DivMod
  <2>4. (m % n) + 1 \in 1 .. n
    BY <1>3, <2>3
  <2>5. sig[((n + k - 1) % n) + 1] \in Layouts
    BY <1>3, <2>2, <2>4
  <2> QED
    BY <2>1, <2>5 DEF LeaseRecords
<1>6. Extras(sig, count) =
        [k \in 1 .. more |->
           [layout |-> sig[((n + k - 1) % n) + 1], set |-> first + n + k - 1]]
  BY <1>1, <1>2, <1>4, Zenon DEF Extras
<1>7. Extras(sig, count) \in [1 .. more -> LeaseRecords]
  BY <1>5, <1>6
<1>8. Extras(sig, count) \in Seq(LeaseRecords)
  BY <1>4, <1>7
<1> QED
  BY <1>8, LenProperties

\* What becomes of a plan and its bank when a batch of c sets is tried: the bank
\* is emptied, or holds the extras, which are dropped only with the last epoch.
Renewed(plan, bank, p, sig, c, status) ==
  \/ /\ bank = NoBank
     /\ \/ c <= Len(sig)
        \/ status # "SUCCESS"
        \/ plan.epoch = MaxEpoch /\ plan.batch_disabled
  \/ /\ c > Len(sig) /\ status = "SUCCESS"
     /\ plan.published
     /\ bank = [ready |-> TRUE, pool |-> p, epoch |-> plan.epoch,
                records |-> Extras(sig, c), cursor |-> 0]

\* A batch: the plan of a drained bank is renewed, and the bank is emptied or
\* holds the extras.
LEMMA RefillStep ==
  ASSUME SetsInv, Working, Applied, submitted' = NoSets,
         UNCHANGED <<poisoned, link, pool>>,
         NEW p \in Pools, pool[p] = "live", NEW sig \in Signatures,
         NEW c \in Nat, Len(sig) <= c, NEW fit, NEW refused,
         Answer(p, sig, c, fit, refused),
         NEW b \in Banks, Offered(b) = {}, ~lease_plans[b].batch_disabled,
         NEW plan \in PlanRecords, plan.pool = p,
         lease_plans' = [lease_plans EXCEPT ![b] = plan],
         NEW bank, banks' = [banks EXCEPT ![b] = bank],
         Renewed(plan, bank, p, sig, c, AllocateStatus(c, fit, refused))
  PROVE  SetsInv'
<1>1. PICK count : count = IF AllocateStatus(c, fit, refused) = "SUCCESS"
                           THEN c ELSE 0
  OBVIOUS
<1>2. PICK ids : Answered(p, sig, count, ids)
  BY <1>1, AnswerFacts
<1>3. /\ Len(sig) \in Nat /\ next_serial' = next_serial + count
      /\ next_serial' \in 1 .. (MaxSerial + 1) /\ MaxSerial \in Nat /\ count \in Nat
  BY <1>1, <1>2, SignatureFacts, Constants DEF Answered
<1>4. lease_plans \in [Banks -> PlanRecords] /\ banks \in [Banks -> BankRecords]
  BY TableFacts
<1>5. /\ lease_plans' \in [Banks -> PlanRecords] /\ lease_plans'[b] = plan
      /\ \A d \in Banks : d # b => lease_plans'[d] = lease_plans[d]
  BY <1>4
<1>6. /\ banks'[b] = bank
      /\ \A d \in Banks : d # b => banks'[d] = banks[d]
  BY <1>4
<1>7. /\ bank \in BankRecords /\ bank.cursor \in 0 .. Len(bank.records)
      /\ bank.ready => plan.published /\ bank.pool = p
      /\ \/ bank = NoBank
         \/ count > Len(sig) /\ bank.ready /\ bank.pool = p /\ bank.cursor = 0
              /\ bank.records = Extras(sig, count)
  <2>1. CASE bank = NoBank
    <3>1. Len(<<>>) = 0
      OBVIOUS
    <3>2. bank \in BankRecords /\ ~bank.ready /\ bank.cursor = 0 /\ bank.records = <<>>
      BY <2>1, EmptyFacts
    <3> QED
      BY <2>1, <3>1, <3>2
  <2>2. CASE bank # NoBank
    <3>1. /\ c > Len(sig) /\ count = c /\ plan.published
          /\ bank = [ready |-> TRUE, pool |-> p, epoch |-> plan.epoch,
                     records |-> Extras(sig, c), cursor |-> 0]
      BY <1>1, <2>2, Zenon DEF Renewed
    <3>2. next_serial + c <= MaxSerial + 1
      BY <1>3, <3>1
    <3>3. Extras(sig, c) \in Seq(LeaseRecords) /\ Len(Extras(sig, c)) \in Nat
      BY <3>1, <3>2, ExtrasType
    <3>4. plan.epoch \in 0 .. MaxEpoch
      BY DEF PlanRecords
    <3>5. bank \in BankRecords
      BY <3>1, <3>3, <3>4 DEF BankRecords
    <3>6. /\ bank.ready /\ bank.pool = p /\ bank.cursor = 0
          /\ bank.records = Extras(sig, count)
      BY <3>1
    <3>7. bank.cursor \in 0 .. Len(bank.records)
      BY <3>1, <3>3, <3>6
    <3> QED
      BY <3>1, <3>5, <3>6, <3>7
  <2> QED
    BY <2>1, <2>2
<1>8. banks' \in [Banks -> BankRecords]
  BY <1>4, <1>7
<1>9. \A d \in Banks : banks'[d].cursor \in 0 .. Len(banks'[d].records)
  BY <1>6, <1>7, TableFacts
<1>10. banks'[b] = NoBank \/ Filled(b, p, sig, count)
  BY <1>6, <1>7 DEF Filled
<1>11. \A d \in Banks : banks'[d].ready =>
         lease_plans'[d].published /\ lease_plans'[d].pool = banks'[d].pool
  <2>1. \A d \in Banks : banks[d].ready =>
          lease_plans[d].published /\ lease_plans[d].pool = banks[d].pool
    BY DEF SetsInv, BanksKnown
  <2> QED
    BY <1>5, <1>6, <1>7, <2>1
<1>12. \A d \in Banks : lease_plans[d].batch_disabled =>
         lease_plans'[d] = lease_plans[d]
  BY <1>5
<1>13. ASSUME count > Len(sig)
       PROVE  \/ Filled(b, p, sig, count) /\ Offered(b) = {}
              \/ \E d \in Banks : /\ lease_plans'[d].pool = p
                                  /\ lease_plans'[d].epoch = MaxEpoch
                                  /\ lease_plans'[d].batch_disabled
  <2>1. count = c /\ c > Len(sig) /\ AllocateStatus(c, fit, refused) = "SUCCESS"
    BY <1>1, <1>3, <1>13
  <2>2. CASE bank = NoBank
    <3>1. ~(c <= Len(sig))
      BY <1>3, <2>1
    <3>2. ~bank.ready
      BY <2>2, EmptyFacts
    <3>3. plan.epoch = MaxEpoch /\ plan.batch_disabled
      BY <2>1, <3>1, <3>2 DEF Renewed
    <3> QED
      BY <1>5, <3>3
  <2>3. CASE bank # NoBank
    BY <1>6, <1>10, <2>3
  <2> QED
    BY <2>2, <2>3
<1> QED
  BY <1>2, <1>5, <1>6, <1>8, <1>9, <1>10, <1>11, <1>12, <1>13, RingStep

\* A bank without leases to claim offers nothing.
LEMMA DrainedOffersNothing ==
  ASSUME TablesKnown, NEW b \in Banks, Unclaimed(b) = <<>> \/ ~banks[b].ready
  PROVE  Offered(b) = {}
<1>1. CASE Unclaimed(b) = <<>>
  <2>1. DOMAIN Unclaimed(b) = {}
    BY <1>1
  <2> QED
    BY <2>1, UnclaimedFacts
<1>2. CASE ~banks[b].ready
  BY <1>2 DEF Offered
<1> QED
  BY <1>1, <1>2

\* The plan a batch is made for, and its size: no less than what was asked for.
LEMMA BatchCount ==
  ASSUME SetsInv, NEW p \in Pools, NEW sig \in Signatures, Refill(p, sig), NEW fit,
         NEW old, old = PlanFor(PlanIndex(p, sig), p, sig),
         NEW plan, plan = IF old.published THEN Grown(old) ELSE old
  PROVE  /\ plan \in PlanRecords /\ plan.pool = p /\ plan.epoch = old.epoch
         /\ BatchTried(BatchSetCount(Len(sig), plan.batch_repetitions), Len(sig), fit)
              \in Len(sig) .. MaxPerAllocate
<1>1. PICK n : n = Len(sig)
  OBVIOUS
<1>2. /\ PlanIndex(p, sig) # 0 /\ BatchSetCount(n, old.batch_repetitions) > n
  BY <1>1, Zenon DEF Refill, Batching
<1>3. old \in PlanRecords /\ old.pool = p /\ old.signature = sig
  BY <1>2, PlanFacts
<1>4. /\ plan \in PlanRecords /\ plan.pool = p /\ plan.epoch = old.epoch
      /\ plan.batch_repetitions >= old.batch_repetitions
      /\ plan.batch_repetitions \in Nat /\ old.batch_repetitions \in Nat
  <2>1. old.batch_repetitions \in Nat
    BY <1>3, Constants DEF PlanRecords
  <2>2. CASE old.published
    BY <1>3, <2>1, <2>2, GrownFacts
  <2>3. CASE ~old.published
    BY <1>3, <2>1, <2>3
  <2> QED
    BY <2>2, <2>3
<1>5. n \in Nat /\ n > 0 /\ n \in 1 .. MaxPerAllocate
  BY <1>1, SignatureFacts
<1>6. PICK start : start = BatchSetCount(n, plan.batch_repetitions)
  OBVIOUS
<1>7. start \in n .. MaxPerAllocate
  BY <1>2, <1>4, <1>5, <1>6, BatchGrows
<1>8. BatchTried(start, n, fit) \in n .. start
  BY <1>5, <1>7, BatchTriedFacts
<1>9. BatchTried(start, n, fit) \in n .. MaxPerAllocate
  BY <1>5, <1>7, <1>8, Constants
<1> QED
  BY <1>1, <1>4, <1>6, <1>9

\* The call that makes a batch.
LEMMA BatchStep ==
  ASSUME SetsInv, Working, Applied, submitted' = NoSets,
         UNCHANGED <<poisoned, link, pool>>,
         NEW p \in Pools, pool[p] = "live", NEW sig \in Signatures,
         NEW fit, NEW refused, BatchCall(p, sig, fit, refused)
  PROVE  SetsInv'
<1>1. PICK b : b = PlanIndex(p, sig)
  OBVIOUS
<1>2. PICK old : old = PlanFor(b, p, sig)
  OBVIOUS
<1>3. PICK plan : plan = IF old.published THEN Grown(old) ELSE old
  OBVIOUS
<1>4. PICK n : n = Len(sig)
  OBVIOUS
<1>5. PICK c : c = BatchTried(BatchSetCount(n, plan.batch_repetitions), n, fit)
  OBVIOUS
<1>6. PICK made : made = [plan EXCEPT !.batch_repetitions = c \div n]
  OBVIOUS
<1>7. PICK status : status = AllocateStatus(c, fit, refused)
  OBVIOUS
<1>8. Refill(p, sig) /\ Answer(p, sig, c, fit, refused)
  BY <1>1, <1>2, <1>3, <1>4, <1>5, Zenon DEF BatchCall
<1>9. \/ /\ c <= n
         /\ lease_plans' =
              [lease_plans EXCEPT ![b] = [plan EXCEPT !.batch_disabled = TRUE]]
         /\ banks' = [banks EXCEPT ![b] = NoBank]
      \/ /\ c > n /\ status # "SUCCESS"
         /\ lease_plans' = [lease_plans EXCEPT ![b] = plan]
         /\ banks' = [banks EXCEPT ![b] = NoBank]
      \/ /\ c > n /\ status = "SUCCESS" /\ old.epoch < MaxEpoch
         /\ lease_plans' =
              [lease_plans EXCEPT ![b] = [made EXCEPT !.epoch = @ + 1,
                                                      !.published = TRUE]]
         /\ banks' =
              [banks EXCEPT ![b] =
                 [ready |-> TRUE, pool |-> p, epoch |-> old.epoch + 1,
                  records |-> Extras(sig, c), cursor |-> 0]]
      \/ /\ c > n /\ status = "SUCCESS" /\ ~(old.epoch < MaxEpoch)
         /\ lease_plans' =
              [lease_plans EXCEPT ![b] = [made EXCEPT !.batch_disabled = TRUE]]
         /\ banks' = [banks EXCEPT ![b] = NoBank]
  BY <1>1, <1>2, <1>3, <1>4, <1>5, <1>6, <1>7, ZenonT(40) DEF BatchCall
<1>10. /\ b # 0 /\ ~old.batch_disabled
       /\ BatchSetCount(n, old.batch_repetitions) > n
       /\ Unclaimed(b) = <<>> \/ ~old.published
  BY <1>1, <1>2, <1>4, <1>8, Zenon DEF Refill, Batching
<1>11. /\ b \in Banks /\ old \in PlanRecords /\ old.pool = p /\ old.signature = sig
       /\ (lease_plans[b] = old \/ lease_plans[b] = NoPlan)
  BY <1>1, <1>2, <1>10, PlanFacts
<1>12. ~lease_plans[b].batch_disabled
  BY <1>10, <1>11, EmptyFacts
<1>13. Offered(b) = {}
  <2>1. \A d \in Banks : banks[d].ready => lease_plans[d].published
    BY DEF SetsInv, BanksKnown
  <2>2. Unclaimed(b) = <<>> \/ ~banks[b].ready
    BY <1>10, <1>11, <2>1, EmptyFacts
  <2>3. TablesKnown
    BY DEF SetsInv
  <2> QED
    BY <1>11, <2>2, <2>3, DrainedOffersNothing
<1>14. plan \in PlanRecords /\ plan.pool = p /\ plan.epoch = old.epoch
  BY <1>1, <1>2, <1>3, <1>8, BatchCount
<1>15. n \in Nat /\ n > 0
  BY <1>4, SignatureFacts
<1>16. c \in n .. MaxPerAllocate
  BY <1>1, <1>2, <1>3, <1>4, <1>5, <1>8, BatchCount
<1>19. c \in Nat /\ n <= c /\ c <= MaxPerAllocate
  BY <1>15, <1>16, Constants
<1>20. c \div n \in 0 .. Max({2, MaxPerAllocate})
  <2>1. c \div n \in Nat /\ c \div n <= c
    BY <1>15, <1>19, DivMod
  <2> QED
    BY <1>19, <2>1, Constants
<1>21. made \in PlanRecords /\ made.pool = p /\ made.epoch = old.epoch
  BY <1>6, <1>14, <1>20, PlanField DEF PlanRecords
<1>22. old.epoch \in 0 .. MaxEpoch /\ MaxEpoch \in Nat
  BY <1>11, Constants DEF PlanRecords
<1>23. CASE /\ c <= n
            /\ lease_plans' =
                 [lease_plans EXCEPT ![b] = [plan EXCEPT !.batch_disabled = TRUE]]
            /\ banks' = [banks EXCEPT ![b] = NoBank]
  <2>1. PICK off : off = [plan EXCEPT !.batch_disabled = TRUE]
    OBVIOUS
  <2>2. off \in PlanRecords /\ off.pool = p
    BY <1>14, <2>1, PlanField DEF PlanRecords
  <2>3. Len(sig) <= c /\ c <= Len(sig)
    BY <1>4, <1>19, <1>23
  <2>4. Renewed(off, NoBank, p, sig, c, AllocateStatus(c, fit, refused))
    BY <2>3 DEF Renewed
  <2> QED
    BY <1>8, <1>11, <1>12, <1>13, <1>19, <1>23, <2>1, <2>2, <2>3, <2>4, RefillStep
<1>24. CASE /\ c > n /\ status # "SUCCESS"
            /\ lease_plans' = [lease_plans EXCEPT ![b] = plan]
            /\ banks' = [banks EXCEPT ![b] = NoBank]
  <2>1. Len(sig) <= c /\ AllocateStatus(c, fit, refused) # "SUCCESS"
    BY <1>4, <1>7, <1>19, <1>24
  <2>2. plan \in PlanRecords /\ plan.pool = p
    BY <1>14
  <2>3. PICK bank : bank = NoBank
    OBVIOUS
  <2>4. Renewed(plan, bank, p, sig, c, AllocateStatus(c, fit, refused))
    BY <2>1, <2>3, Zenon DEF Renewed
  <2>5. /\ lease_plans' = [lease_plans EXCEPT ![b] = plan]
        /\ banks' = [banks EXCEPT ![b] = bank]
    BY <1>24, <2>3, Zenon
  <2>6. c \in Nat /\ Len(sig) <= c /\ b \in Banks
    BY <1>11, <1>19, <2>1
  <2> QED
    BY <1>8, <1>12, <1>13, <2>2, <2>4, <2>5, <2>6, RefillStep
<1>25. CASE /\ c > n /\ status = "SUCCESS" /\ old.epoch < MaxEpoch
            /\ lease_plans' =
                 [lease_plans EXCEPT ![b] = [made EXCEPT !.epoch = @ + 1,
                                                         !.published = TRUE]]
            /\ banks' =
                 [banks EXCEPT ![b] =
                    [ready |-> TRUE, pool |-> p, epoch |-> old.epoch + 1,
                     records |-> Extras(sig, c), cursor |-> 0]]
  <2>1. PICK fresh : fresh = [made EXCEPT !.epoch = made.epoch + 1,
                                          !.published = TRUE]
    OBVIOUS
  <2>2. PICK next : next = [made EXCEPT !.epoch = made.epoch + 1]
    OBVIOUS
  <2>3. made.epoch + 1 \in 0 .. MaxEpoch
    BY <1>21, <1>22, <1>25
  <2>4. next \in PlanRecords /\ next.pool = p /\ next.epoch = old.epoch + 1
    BY <1>21, <2>2, <2>3, PlanField DEF PlanRecords
  <2>5. fresh = [next EXCEPT !.published = TRUE]
    BY <2>1, <2>2, Zenon
  <2>6. fresh \in PlanRecords /\ fresh.pool = p /\ fresh.epoch = old.epoch + 1
    BY <2>4, <2>5, PlanField DEF PlanRecords
  <2>7. fresh.published
    BY <2>4, <2>5 DEF PlanRecords
  <2>8. lease_plans' = [lease_plans EXCEPT ![b] = fresh]
    BY <1>25, <2>1, Zenon
  <2>9. PICK bank : bank = [ready |-> TRUE, pool |-> p, epoch |-> fresh.epoch,
                            records |-> Extras(sig, c), cursor |-> 0]
    OBVIOUS
  <2>10. banks' = [banks EXCEPT ![b] = bank]
    BY <1>25, <2>6, <2>9
  <2>11. /\ Len(sig) <= c /\ c > Len(sig)
         /\ AllocateStatus(c, fit, refused) = "SUCCESS"
    BY <1>4, <1>7, <1>19, <1>25
  <2>12. Renewed(fresh, bank, p, sig, c, AllocateStatus(c, fit, refused))
    BY <2>7, <2>9, <2>11, Zenon DEF Renewed
  <2>13. c \in Nat /\ Len(sig) <= c /\ b \in Banks
    BY <1>11, <1>19, <2>11
  <2> QED
    BY <1>8, <1>12, <1>13, <2>6, <2>8, <2>10, <2>12, <2>13, RefillStep
<1>26. CASE /\ c > n /\ status = "SUCCESS" /\ ~(old.epoch < MaxEpoch)
            /\ lease_plans' =
                 [lease_plans EXCEPT ![b] = [made EXCEPT !.batch_disabled = TRUE]]
            /\ banks' = [banks EXCEPT ![b] = NoBank]
  <2>1. PICK off : off = [made EXCEPT !.batch_disabled = TRUE]
    OBVIOUS
  <2>2. off \in PlanRecords /\ off.pool = p /\ off.epoch = old.epoch
    BY <1>21, <2>1, PlanField DEF PlanRecords
  <2>3. off.batch_disabled
    BY <1>21, <2>1 DEF PlanRecords
  <2>4. off.epoch = MaxEpoch
    BY <1>22, <1>26, <2>2
  <2>5. Len(sig) <= c
    BY <1>4, <1>19
  <2>6. Renewed(off, NoBank, p, sig, c, AllocateStatus(c, fit, refused))
    BY <2>3, <2>4 DEF Renewed
  <2> QED
    BY <1>8, <1>11, <1>12, <1>13, <1>19, <1>26, <2>1, <2>2, <2>5, <2>6, RefillStep
<1> QED
  BY <1>9, <1>23, <1>24, <1>25, <1>26

\* A call of the ring keeps the invariant.
LEMMA RingCallStep ==
  ASSUME SetsInv, NEW p \in Pools, NEW sig \in Signatures, RingCall(p, sig)
  PROVE  SetsInv'
<1>1. /\ Working /\ Applied /\ pool[p] = "live" /\ submitted' = NoSets
      /\ UNCHANGED <<poisoned, link, pool>>
  BY DEF RingCall, Working
<1>2. PICK fit, refused : \/ ExactCall(p, sig, fit, refused)
                          \/ ObservingCall(p, sig, fit, refused)
                          \/ PassingCall(p, sig, fit, refused)
                          \/ BatchCall(p, sig, fit, refused)
  BY Zenon DEF RingCall
<1>3. CASE ExactCall(p, sig, fit, refused)
  BY <1>1, <1>3, ExactStep
<1>4. CASE ObservingCall(p, sig, fit, refused)
  BY <1>1, <1>4, ObservingStep
<1>5. CASE PassingCall(p, sig, fit, refused)
  BY <1>1, <1>5, PassingStep
<1>6. CASE BatchCall(p, sig, fit, refused)
  BY <1>1, <1>6, BatchStep
<1> QED
  BY <1>2, <1>3, <1>4, <1>5, <1>6

\* A step that changes nothing keeps the invariant.
LEMMA StutterStep ==
  ASSUME SetsInv, UNCHANGED vars
  PROVE  SetsInv'
<1>1. /\ UNCHANGED <<poisoned, link, pool, proxies, journal, journal_sequence>>
      /\ UNCHANGED <<last_sequence, sets, next_serial, lease_plans, banks>>
      /\ UNCHANGED <<used, submitted, result>>
  BY DEF vars, clientVars, serviceVars, historyVars
<1>2. UNCHANGED Current
  BY <1>1 DEF Current, Replay, RecordsOf
<1>3. TypeOK'
  BY <1>1 DEF SetsInv, TablesKnown, TypeOK
<1>4. TablesKnown'
  BY <1>1, <1>3 DEF SetsInv, TablesKnown
<1>5. SerialsKnown' /\ JournalKnown'
  BY <1>1 DEF SetsInv, SerialsKnown, JournalKnown, Working
<1>6. InSync'
  BY <1>1, <1>2 DEF SetsInv, InSync
<1>7. OffersKnown' /\ BanksKnown' /\ SpaceKnown'
  BY <1>1 DEF SetsInv, OffersKnown, BanksKnown, SpaceKnown, Offered, Working
<1> QED
  BY <1>4, <1>5, <1>6, <1>7 DEF SetsInv

\* SetsInv holds at the beginning and every call, update and failure keeps it.
THEOREM SetsInvariant == Spec => []SetsInv
<1>1. Init => SetsInv
  BY SetsInvInit
<1>2. SetsInv /\ [Next]_vars => SetsInv'
  <2> SUFFICES ASSUME SetsInv, [Next]_vars PROVE SetsInv'
    OBVIOUS
  <2>1. ASSUME NEW p \in Pools, CreatePool(p) PROVE SetsInv'
    BY <2>1, CreatePoolStep
  <2>2. ASSUME NEW p \in Pools, ResetDescriptorPool(p) PROVE SetsInv'
    BY <2>2, ResetStep
  <2>3. ASSUME NEW p \in Pools, DestroyDescriptorPool(p) PROVE SetsInv'
    BY <2>3, DestroyStep
  <2>4. ASSUME NEW p \in Pools, NEW sig \in Signatures, ClaimLeases(p, sig)
        PROVE  SetsInv'
    BY <2>4, ClaimStep
  <2>5. ASSUME NEW p \in Pools, NEW sig \in Signatures, RingCall(p, sig)
        PROVE  SetsInv'
    BY <2>5, RingCallStep
  <2>6. ASSUME NEW s \in Serials, NEW c \in Contents,
               UpdateDescriptorSetWithTemplate(s, c)
        PROVE  SetsInv'
    BY <2>6, TemplateStep, TemplateBrokenStep
  <2>7. ASSUME NEW s \in Serials, NEW c \in Contents, UpdateDescriptorSets(s, c)
        PROVE  SetsInv'
    BY <2>7, UpdateStep
  <2>8. CASE Submit
    BY <2>8, SubmitStep
  <2>9. CASE OtherExchange
    BY <2>9, OtherExchangeStep
  <2>10. CASE ServiceEnds \/ Poison
    BY <2>10, EndsStep
  <2>11. CASE UNCHANGED vars
    BY <2>11, StutterStep
  <2> QED
    BY <2>1, <2>2, <2>3, <2>4, <2>5, <2>6, <2>7, <2>8, <2>9, <2>10, <2>11 DEF Next
<1> QED
  BY <1>1, <1>2, PTL DEF Spec

\* No update is lost, misdirected or overtaken (InSync), on any working
\* connection.
THEOREM AlwaysInSync == Spec => []InSync
<1>1. SetsInv => InSync
  BY DEF SetsInv
<1> QED
  BY <1>1, SetsInvariant, PTL

\* The service never refuses the journal of a working connection.
THEOREM AlwaysAccepted == Spec => []JournalAccepted
<1>1. ASSUME SetsInv PROVE JournalAccepted
  BY <1>1, JournalFacts DEF JournalAccepted, Working
<1> QED
  BY <1>1, SetsInvariant, PTL

\* What the records of a bank offer are its unclaimed leases: each is a live
\* blank set of the bank's pool, new to the application and offered once.
THEOREM LeasesAlwaysLive == Spec => []LeasesAreLive
<1>1. ASSUME SetsInv PROVE LeasesAreLive
  <2>1. TypeOK /\ TablesKnown
    BY <1>1 DEF SetsInv, TablesKnown
  <2>2. ASSUME Working, NEW b \in Banks, NEW k \in DOMAIN Unclaimed(b)
        PROVE  /\ Unclaimed(b)[k].set \in DOMAIN sets
               /\ Current[Unclaimed(b)[k].set] =
                    DescriptorSet(banks[b].pool, Unclaimed(b)[k].layout, Blank)
               /\ pool[banks[b].pool] = "live"
               /\ Unclaimed(b)[k].set \notin used
               /\ \A d \in Banks : \A j \in DOMAIN Unclaimed(d) :
                    Unclaimed(d)[j].set = Unclaimed(b)[k].set => <<d, j>> = <<b, k>>
    <3>1. ~poisoned
      BY <2>2 DEF Working
    <3>2. /\ k \in Nat /\ banks[b].cursor + k \in Offered(b)
          /\ Unclaimed(b)[k] = banks[b].records[banks[b].cursor + k]
      BY <2>1, UnclaimedFacts
    <3>3. PICK i : i = banks[b].cursor + k
      OBVIOUS
    <3>4. i \in Offered(b) /\ banks[b].ready
      BY <3>2, <3>3 DEF Offered
    <3>5. PICK s : s = banks[b].records[i].set
      OBVIOUS
    <3>6. PICK l : l = banks[b].records[i].layout
      OBVIOUS
    <3>7. Unclaimed(b)[k].set = s /\ Unclaimed(b)[k].layout = l
      BY <3>2, <3>3, <3>5, <3>6
    <3>8. /\ s \in DOMAIN sets /\ sets[s] = DescriptorSet(banks[b].pool, l, Blank)
          /\ pool[banks[b].pool] = "live"
      BY <1>1, <2>2, <3>4, <3>5, <3>6 DEF SetsInv, BanksKnown
    <3>9. s \notin used
      BY <1>1, <3>1, <3>4, <3>5 DEF SetsInv, OffersKnown
    <3>10. Current[s] = sets[s]
      BY <1>1, <2>2, <3>8, <3>9, CurrentFacts, TableFacts
    <3>11. ASSUME NEW d \in Banks, NEW j \in DOMAIN Unclaimed(d),
                  Unclaimed(d)[j].set = s
           PROVE  d = b /\ j = k
      <4>1. /\ j \in Nat /\ banks[d].cursor + j \in Offered(d)
            /\ Unclaimed(d)[j] = banks[d].records[banks[d].cursor + j]
        BY <2>1, UnclaimedFacts
      <4>2. PICK h : h = banks[d].cursor + j
        OBVIOUS
      <4>3. h \in Offered(d) /\ banks[d].records[h].set = banks[b].records[i].set
        BY <3>5, <3>11, <4>1, <4>2
      <4>4. d = b /\ h = i
        BY <1>1, <3>1, <3>4, <4>3 DEF SetsInv, OffersKnown
      <4>5. banks[b].cursor \in Nat
        BY <1>1, TableFacts DEF BankRecords
      <4> QED
        BY <3>2, <3>3, <4>1, <4>2, <4>4, <4>5
    <3> QED
      BY <3>7, <3>8, <3>9, <3>10, <3>11
  <2> QED
    BY <2>1, <2>2 DEF LeasesAreLive, Working
<1> QED
  BY <1>1, SetsInvariant, PTL

\* No native set is lost: the application has it, a bank offers it, or it went
\* with the last epoch of a plan.
THEOREM SpaceAlwaysAccounted == Spec => []PoolSpaceAccounted
<1>1. ASSUME SetsInv PROVE PoolSpaceAccounted
  <2>1. TablesKnown
    BY <1>1 DEF SetsInv
  <2>2. ASSUME NEW b \in Banks, NEW i \in Offered(b)
        PROVE  \E k \in DOMAIN Unclaimed(b) :
                 Unclaimed(b)[k].set = banks[b].records[i].set
    <3>1. PICK k \in DOMAIN Unclaimed(b) : i = banks[b].cursor + k
      BY <2>1, UnclaimedFacts
    <3>2. Unclaimed(b)[k] = banks[b].records[banks[b].cursor + k]
      BY <2>1, UnclaimedFacts
    <3> QED
      BY <3>1, <3>2
  <2>3. ASSUME Working, NEW s \in DOMAIN sets
        PROVE  \/ s \in DOMAIN proxies
               \/ \E b \in Banks : \E k \in DOMAIN Unclaimed(b) :
                    Unclaimed(b)[k].set = s
               \/ \E b \in Banks : /\ lease_plans[b].pool = sets[s].pool
                                   /\ lease_plans[b].epoch = MaxEpoch
                                   /\ lease_plans[b].batch_disabled
    BY <1>1, <2>2, <2>3 DEF SetsInv, SpaceKnown
  <2> QED
    BY <2>3 DEF PoolSpaceAccounted, Working
<1> QED
  BY <1>1, SetsInvariant, PTL

(***************************************************************************)
(* The shared mode implements DescriptorPools.                             *)
(***************************************************************************)

\* Counting is the same on both sides of the refinement.
LEMMA SameCount == \A S : AbstractPools!Cardinality(S) = Cardinality(S)
  BY DEF AbstractPools!Cardinality, Cardinality

\* An allocation whose ids are distinct and new is one of the abstract pools.
LEMMA AllocateMaps ==
  ASSUME NEW p \in Pools, NEW n \in Nat, NEW ids \in [1 .. n -> Serials],
         \A j \in 1 .. n, k \in 1 .. n : ids[j] = ids[k] => j = k,
         Range(ids) \subseteq Serials \ used,
         result'.ids = ids, used' = used \cup Range(ids), submitted' = NoSets,
         DOMAIN proxies' = DOMAIN proxies \cup Range(ids),
         \A s \in DOMAIN proxies : proxies'[s] = proxies[s],
         \A s \in Range(ids) :
           \E l \in Layouts : proxies'[s] = DescriptorSet(p, l, Blank)
  PROVE  AbstractPools!Allocate(p)
<1>1. PICK new : new = {ids[k] : k \in DOMAIN ids}
  OBVIOUS
<1>2. new = Range(ids)
  BY <1>1 DEF Range
<1>3. ids \in Seq(Serials) /\ Len(ids) = n
  BY LenProperties
<1>4. Cardinality(new) = n
  <2>1. ids \in Bijection(1 .. n, new)
    <3>1. ids \in [1 .. n -> new]
      BY <1>1
    <3>2. ids \in Injection(1 .. n, new)
      BY <3>1 DEF Injection, IsInjective
    <3>3. ids \in Surjection(1 .. n, new)
      BY <1>1, <3>1 DEF Surjection
    <3> QED
      BY <3>2, <3>3 DEF Bijection
  <2>2. ExistsBijection(1 .. n, new)
    BY <2>1 DEF ExistsBijection
  <2> QED
    BY <2>2, FS_CountingElements
<1>5. {result'.ids[k] : k \in DOMAIN result'.ids} = new
  BY <1>1
<1>6. AbstractPools!Cardinality(new) = Len(result'.ids)
  BY <1>3, <1>4, SameCount
<1>7. submitted' = AbstractPools!NoSets
  BY DEF NoSets, AbstractPools!NoSets
<1>8. \A s \in new : \E l \in Layouts :
        proxies'[s] = AbstractPools!DescriptorSet(p, l, Blank)
  BY <1>2 DEF DescriptorSet, AbstractPools!DescriptorSet
<1> QED
  BY <1>2, <1>5, <1>6, <1>7, <1>8, Zenon DEF AbstractPools!Allocate

\* An answer of the service maps to an allocation.
LEMMA AnswerMaps ==
  ASSUME SetsInv, NEW p \in Pools, NEW sig \in Signatures, NEW count, NEW ids,
         Answered(p, sig, count, ids), submitted' = NoSets
  PROVE  AbstractPools!Allocate(p)
<1>1. PICK first : first = next_serial
  OBVIOUS
<1>2. PICK n : n = IF count = 0 THEN 0 ELSE Len(sig)
  OBVIOUS
<1>3. /\ count \in Nat /\ (count = 0 \/ count >= Len(sig)) /\ Len(sig) \in Nat
      /\ DOMAIN sig = 1 .. Len(sig) /\ n \in Nat /\ first \in Nat /\ n <= count
  <2>1. count \in Nat /\ (count = 0 \/ count >= Len(sig))
    BY Zenon DEF Answered
  <2> QED
    BY <1>1, <1>2, <2>1, SignatureFacts, TableFacts
<1>4. DOMAIN ids = 1 .. n
  <2>1. DOMAIN ids = IF count = 0 THEN {} ELSE DOMAIN sig
    BY Zenon DEF Answered
  <2>2. CASE count = 0
    <3>1. n = 0 /\ 1 .. 0 = {}
      BY <1>2, <2>2
    <3> QED
      BY <2>1, <2>2, <3>1
  <2>3. CASE count # 0
    BY <1>2, <1>3, <2>1, <2>3
  <2> QED
    BY <2>2, <2>3
<1>5. ids \in [1 .. n -> Serials]
  BY <1>4 DEF Answered
<1>6. \A k \in 1 .. n : ids[k] = first + k - 1
  BY <1>1, <1>4 DEF Answered
<1>7. \A j \in 1 .. n, k \in 1 .. n : ids[j] = ids[k] => j = k
  BY <1>3, <1>6
<1>8. ASSUME NEW s \in Range(ids)
      PROVE  /\ s \in Serials \ used
             /\ \E l \in Layouts : proxies'[s] = DescriptorSet(p, l, Blank)
  <2>1. PICK k \in 1 .. n : s = ids[k]
    BY <1>4 DEF Range
  <2>2. s = first + k - 1 /\ s \in Serials
    BY <1>5, <1>6, <2>1
  <2>3. s >= first /\ s \in first .. (first + count - 1)
    BY <1>3, <2>2
  <2>4. s \notin used
    BY <1>1, <1>3, <2>3, TableFacts, Constants, SMTT(40)
  <2>5. PICK l : l = sig[((s - first) % Len(sig)) + 1]
    OBVIOUS
  <2>6. sets'[s] = DescriptorSet(p, l, Blank)
    BY <1>1, <2>3, <2>5, Zenon DEF Answered
  <2>7. proxies'[s] = DescriptorSet(p, l, Blank)
    BY <2>6 DEF Answered
  <2>8. proxies' \in [DOMAIN proxies \cup Range(ids) -> SetRecords]
    BY Zenon DEF Answered
  <2>9. DescriptorSet(p, l, Blank) \in SetRecords
    BY <2>7, <2>8
  <2>10. l \in Layouts
    BY <2>9 DEF DescriptorSet, SetRecords
  <2> QED
    BY <2>2, <2>4, <2>7, <2>10
<1>9. /\ used' = used \cup Range(ids) /\ result'.ids = ids
      /\ DOMAIN proxies' = DOMAIN proxies \cup Range(ids)
      /\ \A s \in DOMAIN proxies : proxies'[s] = proxies[s]
  <2>1. /\ used' = used \cup Range(ids) /\ result'.ids = ids
        /\ proxies' \in [DOMAIN proxies \cup Range(ids) -> SetRecords]
        /\ \A s \in DOMAIN proxies : proxies'[s] = proxies[s]
    BY Zenon DEF Answered
  <2> QED
    BY <2>1
<1>10. Range(ids) \subseteq Serials \ used
  BY <1>8
<1> QED
  BY <1>3, <1>5, <1>7, <1>8, <1>9, <1>10, AllocateMaps

\* So does a call of the ring, whatever the worker does behind it.
LEMMA RingCallMaps ==
  ASSUME SetsInv, NEW p \in Pools, NEW sig \in Signatures, RingCall(p, sig)
  PROVE  AbstractPools!Allocate(p)
<1>1. submitted' = NoSets
  BY Zenon DEF RingCall
<1>2. PICK fit, refused : \/ ExactCall(p, sig, fit, refused)
                          \/ ObservingCall(p, sig, fit, refused)
                          \/ PassingCall(p, sig, fit, refused)
                          \/ BatchCall(p, sig, fit, refused)
  BY Zenon DEF RingCall
<1>3. Len(sig) \in Nat /\ Len(sig) <= Len(sig)
  BY SignatureFacts
<1>4. \E c \in Nat : Len(sig) <= c /\ Answer(p, sig, c, fit, refused)
  <2>1. CASE BatchCall(p, sig, fit, refused)
    <3>1. PICK old : old = PlanFor(PlanIndex(p, sig), p, sig)
      OBVIOUS
    <3>2. PICK plan : plan = IF old.published THEN Grown(old) ELSE old
      OBVIOUS
    <3>3. PICK c : c = BatchTried(BatchSetCount(Len(sig), plan.batch_repetitions),
                                  Len(sig), fit)
      OBVIOUS
    <3>4. Refill(p, sig) /\ Answer(p, sig, c, fit, refused)
      BY <2>1, <3>1, <3>2, <3>3, Zenon DEF BatchCall
    <3>5. c \in Len(sig) .. MaxPerAllocate
      BY <3>1, <3>2, <3>3, <3>4, BatchCount
    <3>6. c \in Nat /\ Len(sig) <= c
      BY <1>3, <3>5, Constants
    <3> QED
      BY <3>4, <3>6
  <2>2. CASE ~BatchCall(p, sig, fit, refused)
    <3>1. Answer(p, sig, Len(sig), fit, refused)
      BY <1>2, <2>2, Zenon DEF ExactCall, ObservingCall, PassingCall
    <3> QED
      BY <1>3, <3>1
  <2> QED
    BY <2>1, <2>2
<1>5. PICK c \in Nat : Len(sig) <= c /\ Answer(p, sig, c, fit, refused)
  BY <1>4
<1>6. PICK count : count = IF AllocateStatus(c, fit, refused) = "SUCCESS"
                           THEN c ELSE 0
  OBVIOUS
<1>7. PICK ids : Answered(p, sig, count, ids)
  BY <1>5, <1>6, AnswerFacts
<1> QED
  BY <1>1, <1>7, AnswerMaps

\* A claim is an allocation too, without the service.
LEMMA ClaimMaps ==
  ASSUME SetsInv, NEW p \in Pools, NEW sig \in Signatures, ClaimLeases(p, sig)
  PROVE  AbstractPools!Allocate(p)
<1>0. PICK b, ids :
        /\ b \in Banks /\ banks[b].ready /\ banks[b].pool = p
        /\ banks' = [banks EXCEPT ![b].cursor = banks[b].cursor + Len(sig)]
        /\ banks[b].cursor + Len(sig) <= Len(banks[b].records)
        /\ ids = [k \in DOMAIN sig |->
                    banks[b].records[banks[b].cursor + k].set]
        /\ \A k \in DOMAIN sig :
             /\ banks[b].cursor + k \in Offered(b)
             /\ banks[b].records[banks[b].cursor + k].layout = sig[k]
             /\ ids[k] \in Serials \ used
        /\ \A j \in DOMAIN sig, k \in DOMAIN sig : ids[j] = ids[k] => j = k
        /\ proxies' = NewProxies(p, ids, sig)
        /\ used' = used \cup Range(ids)
        /\ result' = [status |-> "SUCCESS", ids |-> ids]
  BY ClaimFacts
<1>1. /\ DOMAIN ids = DOMAIN sig /\ ids = [k \in DOMAIN sig |-> ids[k]]
      /\ \A k \in DOMAIN sig : ids[k] \in Serials \ used
      /\ \A j \in DOMAIN sig, k \in DOMAIN sig : ids[j] = ids[k] => j = k
      /\ proxies' = NewProxies(p, ids, sig)
      /\ used' = used \cup Range(ids)
      /\ result'.ids = ids
  BY <1>0
<1>2. submitted' = NoSets
  BY Zenon DEF ClaimLeases
<1>3. PICK n : n = Len(sig)
  OBVIOUS
<1>4. n \in Nat /\ DOMAIN sig = 1 .. n /\ \A k \in DOMAIN sig : sig[k] \in Layouts
  BY <1>3, SignatureFacts
<1>5. ids \in [1 .. n -> Serials]
  BY <1>1, <1>4
<1>6. FreshIds(ids, sig)
  BY <1>1, <1>4, TableFacts DEF FreshIds
<1>7. Extended(proxies', p, ids, sig)
  <2>1. Extended(NewProxies(p, ids, sig), p, ids, sig)
    BY <1>6, NewProxiesFacts
  <2> QED
    BY <1>1, <2>1
<1>8. /\ DOMAIN proxies' = DOMAIN proxies \cup Range(ids)
      /\ \A s \in DOMAIN proxies : proxies'[s] = proxies[s]
      /\ \A k \in DOMAIN sig : proxies'[ids[k]] = DescriptorSet(p, sig[k], Blank)
  BY <1>7 DEF Extended
<1>9. ASSUME NEW s \in Range(ids)
      PROVE  /\ s \in Serials \ used
             /\ \E l \in Layouts : proxies'[s] = DescriptorSet(p, l, Blank)
  <2>1. PICK k \in DOMAIN sig : s = ids[k]
    BY <1>1 DEF Range
  <2> QED
    BY <1>1, <1>4, <1>8, <2>1
<1>10. /\ Range(ids) \subseteq Serials \ used
       /\ \A j \in 1 .. n, k \in 1 .. n : ids[j] = ids[k] => j = k
  BY <1>1, <1>4, <1>9
<1> QED
  BY <1>1, <1>2, <1>4, <1>5, <1>8, <1>9, <1>10, AllocateMaps

\* Reset and destroy discard the sets of the pool.
LEMMA PoolEndMaps ==
  ASSUME NEW p \in Pools, ResetDescriptorPool(p) \/ DestroyDescriptorPool(p)
  PROVE  AbstractPools!Discard(p)
<1>1. /\ proxies' = Without(proxies, p) /\ used' = used
      /\ submitted' = NoSets /\ result' = NoResult
  BY Zenon DEF ResetDescriptorPool, DestroyDescriptorPool, NothingReturned
<1>2. DOMAIN proxies \ OfPool(proxies, p) = {t \in DOMAIN proxies : proxies[t].pool # p}
  BY DEF OfPool
<1>3. proxies' = [s \in {t \in DOMAIN proxies : proxies[t].pool # p} |-> proxies[s]]
  BY <1>1, <1>2 DEF Without
<1>4. submitted' = AbstractPools!NoSets /\ result'.ids = <<>>
  BY <1>1 DEF NoSets, NoResult, AbstractPools!NoSets
<1> QED
  BY <1>1, <1>3, <1>4, Zenon DEF AbstractPools!Discard

\* Both ways to update a set are the one update, though only one of them
\* reaches the service.
LEMMA UpdateMaps ==
  ASSUME NEW s \in Serials, NEW c \in Contents,
         UpdateDescriptorSetWithTemplate(s, c) \/ UpdateDescriptorSets(s, c)
  PROVE  AbstractPools!Update(s, c)
<1>1. /\ s \in DOMAIN proxies /\ proxies' = [proxies EXCEPT ![s].content = c]
      /\ used' = used /\ submitted' = NoSets /\ result' = NoResult
  BY Zenon DEF UpdateDescriptorSetWithTemplate, UpdateDescriptorSets, NothingReturned
<1>2. submitted' = AbstractPools!NoSets /\ result'.ids = <<>>
  BY <1>1 DEF NoSets, NoResult, AbstractPools!NoSets
<1> QED
  BY <1>1, <1>2, Zenon DEF AbstractPools!Update

\* A submission finds the sets as the application has left them.
LEMMA SubmitMaps ==
  ASSUME SetsInv, Submit
  PROVE  AbstractPools!Submit
<1>1. /\ Working /\ submitted' = [s \in DOMAIN proxies \cap DOMAIN sets |-> Current[s]]
      /\ result' = NoResult /\ UNCHANGED <<proxies, used>>
  BY DEF Submit, Exchange, Working
<1>2. \A s \in DOMAIN proxies : s \in DOMAIN sets /\ Current[s] = proxies[s]
  BY <1>1, CurrentFacts
<1>3. DOMAIN proxies \cap DOMAIN sets = DOMAIN proxies
  BY <1>2
<1>4. proxies = [s \in DOMAIN proxies |-> proxies[s]]
  BY TableFacts
<1>5. submitted' = proxies
  BY <1>1, <1>2, <1>3, <1>4
<1>6. result'.ids = <<>>
  BY <1>1 DEF NoResult
<1> QED
  BY <1>1, <1>5, <1>6 DEF AbstractPools!Submit

\* The other requests and the failures do not concern the sets.
LEMMA OtherMaps ==
  ASSUME \/ \E p \in Pools : CreatePool(p)
         \/ OtherExchange \/ ServiceEnds \/ Poison
  PROVE  AbstractPools!Other
<1>1. submitted' = NoSets /\ result' = NoResult /\ proxies' = proxies /\ used' = used
  BY DEF CreatePool, OtherExchange, ServiceEnds, Poison, ConnectionEnds,
         NothingReturned
<1>2. submitted' = AbstractPools!NoSets /\ result'.ids = <<>>
  BY <1>1 DEF NoSets, NoResult, AbstractPools!NoSets
<1> QED
  BY <1>1, <1>2 DEF AbstractPools!Other

\* The application cannot tell the shared mode, with its journal, leases and
\* batches, from pools that do every call at once.
THEOREM RefinesPools == Spec => ImplementsPools
<1>1. Init => AbstractPools!Init
  BY DEF Init, NoSets, NoResult, AbstractPools!Init, AbstractPools!NoSets
<1>2. SetsInv /\ [Next]_vars => [AbstractPools!Next]_(AbstractPools!poolVars)
  <2> SUFFICES ASSUME SetsInv, [Next]_vars
               PROVE  [AbstractPools!Next]_(AbstractPools!poolVars)
    OBVIOUS
  <2>1. ASSUME NEW p \in Pools, NEW sig \in Signatures,
               ClaimLeases(p, sig) \/ RingCall(p, sig)
        PROVE  AbstractPools!Next
    <3>1. AbstractPools!Allocate(p)
      BY <2>1, ClaimMaps, RingCallMaps
    <3> QED
      BY <3>1, Zenon DEF AbstractPools!Next
  <2>2. ASSUME NEW p \in Pools, ResetDescriptorPool(p) \/ DestroyDescriptorPool(p)
        PROVE  AbstractPools!Next
    <3>1. AbstractPools!Discard(p)
      BY <2>2, PoolEndMaps
    <3> QED
      BY <3>1, Zenon DEF AbstractPools!Next
  <2>3. ASSUME NEW s \in Serials, NEW c \in Contents,
               UpdateDescriptorSetWithTemplate(s, c) \/ UpdateDescriptorSets(s, c)
        PROVE  AbstractPools!Next
    <3>1. AbstractPools!Update(s, c)
      BY <2>3, UpdateMaps
    <3> QED
      BY <3>1, Zenon DEF AbstractPools!Next
  <2>4. CASE Submit
    <3>1. AbstractPools!Submit
      BY <2>4, SubmitMaps
    <3> QED
      BY <3>1, Zenon DEF AbstractPools!Next
  <2>5. CASE (\E p \in Pools : CreatePool(p)) \/ OtherExchange \/ ServiceEnds \/ Poison
    <3>1. AbstractPools!Other
      BY <2>5, OtherMaps
    <3> QED
      BY <3>1, Zenon DEF AbstractPools!Next
  <2>6. CASE UNCHANGED vars
    <3>1. UNCHANGED <<proxies, used, result, submitted>>
      BY <2>6 DEF vars, clientVars, serviceVars, historyVars
    <3> QED
      BY <3>1 DEF AbstractPools!poolVars
  <2> QED
    BY <2>1, <2>2, <2>3, <2>4, <2>5, <2>6 DEF Next
<1> QED
  BY <1>1, <1>2, SetsInvariant, PTL DEF Spec, ImplementsPools, AbstractPools!Spec

=============================================================================
