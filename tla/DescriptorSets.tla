--------------------------- MODULE DescriptorSets ---------------------------
(***************************************************************************)
(* The shared descriptor mode: the update journal and the lease banks of   *)
(* the client (src/global_dispatch.c), the journal replay and the live     *)
(* signature batches of the service (src/bridge_service.c) and the         *)
(* descriptor pools below them (src/vulkan_global.c).                      *)
(*                                                                         *)
(* A call is one step.  The client holds bvb_global_client.mutex from the  *)
(* first check to the last store of every one of these calls, it waits in  *)
(* the call for the answer, and the service works under its context mutex, *)
(* so no other call comes between; the waiting itself is the subject of    *)
(* DescriptorRing.  A call that gets no answer poisons the connection:     *)
(* connect_locked then refuses every later call, so what the service does  *)
(* after that is seen by nobody.                                           *)
(***************************************************************************)
EXTENDS Naturals, Sequences, FiniteSets, FiniteSetsExt, SequencesExt

CONSTANTS
  Pools, Layouts,  \* wire ids; a pool id is never given out twice
  Signatures,      \* the layout sequences the application asks for
  Contents, Blank, \* what an update writes; what a new set holds
  MaxSets,         \* maxSets of every pool
  TableRoom,       \* the entries of the service's handle table left for sets
  BankCount,       \* BVB_DESCRIPTOR_LEASE_BANK_COUNT
  MaxPerAllocate,  \* BVB_VULKAN_MAX_DESCRIPTOR_SETS_PER_ALLOCATE
  MaxRecords,      \* BVB_DESCRIPTOR_JOURNAL_MAX_RECORDS
  MaxSequence,     \* the largest journal sequence (UINT64_MAX)
  MaxEpoch,        \* the largest epoch of a plan (UINT64_MAX)
  MaxSerial,       \* bound: the descriptor sets allocated in a run
  Fragments        \* whether the native pool may refuse for fragmentation

ASSUME SignaturesAssumption ==
  /\ Blank \notin Contents
  /\ \A sig \in Signatures :
       /\ sig \in Seq(Layouts)
       /\ Len(sig) \in 1..MaxPerAllocate
ASSUME LimitsAssumption ==
  /\ {MaxSets, BankCount, MaxPerAllocate, MaxRecords, MaxSequence, MaxEpoch}
       \subseteq Nat \ {0}
  /\ {TableRoom, MaxSerial} \subseteq Nat
  /\ Fragments \in BOOLEAN

Banks == 1..BankCount
Serials == 1..MaxSerial

VARIABLES
  \* the client
  poisoned,          \* connection_poisoned, and the socket closed
  link,              \* whether the service is there: "up" or "down"
  pool,              \* the pools of the application: none, live or gone
  proxies,           \* its sets; the client keeps id and pool, layout and
                     \* content are what the application asked for
  journal,           \* the records in the shared region, not yet flushed
  journal_sequence,  \* next_descriptor_journal_sequence
  \* the service
  last_sequence,     \* of the last journal applied
  sets,              \* the native sets in the handle table
  next_serial,       \* next_descriptor_set_serial
  lease_plans,       \* of the worker, one per bank
  banks,             \* the lease banks, in memory both sides have mapped
  \* history
  used,              \* every set id the application was given
  submitted,         \* the sets as the submission in this step finds them
  result             \* what the allocation in this step returns

clientVars == <<poisoned, link, pool, proxies, journal, journal_sequence>>
serviceVars == <<last_sequence, sets, next_serial, lease_plans, banks>>
historyVars == <<used, submitted, result>>
vars == <<clientVars, serviceVars, historyVars>>

NoPool == "no pool"
NoSets == [s \in {} |-> Blank]
NoResult == [status |-> "none", ids |-> <<>>]
NoBank == [ready |-> FALSE, pool |-> NoPool, epoch |-> 0, records |-> <<>>,
           cursor |-> 0]
NoPlan == [pool |-> NoPool, signature |-> <<>>, batch_repetitions |-> 0,
           observed |-> 0, published |-> FALSE, batch_disabled |-> FALSE,
           epoch |-> 0]

DescriptorSet(p, l, c) == [pool |-> p, layout |-> l, content |-> c]
OfPool(table, p) == {s \in DOMAIN table : table[s].pool = p}
Without(table, p) ==
  [s \in DOMAIN table \ OfPool(table, p) |-> table[s]]

\* The leases of a bank that nobody has claimed.
Unclaimed(b) ==
  IF banks[b].ready
  THEN SubSeq(banks[b].records, banks[b].cursor + 1, Len(banks[b].records))
  ELSE <<>>

-----------------------------------------------------------------------------
(* The journal. *)

Overwrite(table, record) ==
  IF record.set \in DOMAIN table
  THEN [table EXCEPT ![record.set].content = record.content] ELSE table

RecordsOf(records, s) == {k \in DOMAIN records : records[k].set = s}

\* Mutant: the records are replayed from the last to the first.
Replay_NewestFirst(table, records) ==
  [s \in DOMAIN table |->
     IF RecordsOf(records, s) = {} THEN table[s]
     ELSE [table[s] EXCEPT !.content = records[Min(RecordsOf(records, s))].content]]

\* replay_descriptor_journal_snapshot: the records are applied in the order of
\* the calls, so that the last one for a set is what remains.
Replay(table, records) ==
  [s \in DOMAIN table |->
     IF RecordsOf(records, s) = {} THEN table[s]
     ELSE [table[s] EXCEPT !.content = records[Max(RecordsOf(records, s))].content]]

\* What the service asks of a journal: the sequence follows the last one
\* applied, and every record names a set of the handle table.
Accepted ==
  /\ last_sequence # MaxSequence
  /\ journal_sequence = last_sequence + 1
  /\ \A k \in DOMAIN journal : journal[k].set \in DOMAIN sets

\* Mutant: the client does not count a journal without records.
Applied_CountsRecords ==
  /\ Accepted
  /\ journal_sequence < MaxSequence
  /\ journal' = <<>>
  /\ journal_sequence' = journal_sequence + Min({1, Len(journal)})
  /\ last_sequence' = journal_sequence

\* The journal has been applied and the client counts on; a sequence that
\* wraps to 0 poisons the connection instead (see Poison).
Applied ==
  /\ Accepted
  /\ journal_sequence < MaxSequence
  /\ journal' = <<>>
  /\ journal_sequence' = journal_sequence + 1
  /\ last_sequence' = journal_sequence

\* flush_descriptor_journal_locked: nothing to do when the journal is empty
Flushed ==
  \/ journal # <<>> /\ Applied
  \/ journal = <<>> /\ UNCHANGED <<journal, journal_sequence, last_sequence>>

\* What comes before every exchange: connect_locked, the flush of the journal
\* and a socket with the service at its other end.
Exchange == ~poisoned /\ link = "up" /\ Flushed

\* Mutant: the request overtakes the journal.
Current_BeforeFlush == sets

\* The table of the service when the exchanged request reaches it.
Current == Replay(sets, journal)

-----------------------------------------------------------------------------
Init ==
  /\ poisoned = FALSE
  /\ link = "up"
  /\ pool = [p \in Pools |-> "none"]
  /\ proxies = NoSets
  /\ journal = <<>>
  /\ journal_sequence = 1
  /\ last_sequence = 0
  /\ sets = NoSets
  /\ next_serial = 1
  /\ lease_plans = [b \in Banks |-> NoPlan]
  /\ banks = [b \in Banks |-> NoBank]
  /\ used = {}
  /\ submitted = NoSets
  /\ result = NoResult

NothingReturned == submitted' = NoSets /\ result' = NoResult

CreatePool(p) ==
  /\ pool[p] = "none"
  /\ Exchange
  /\ pool' = [pool EXCEPT ![p] = "live"]
  /\ sets' = Current
  /\ NothingReturned
  /\ UNCHANGED <<poisoned, link, proxies, next_serial, lease_plans, banks, used>>

\* vkUpdateDescriptorSetWithTemplate: the update is put into the journal,
\* which is flushed first when it is full.
UpdateDescriptorSetWithTemplate(s, c) ==
  /\ ~poisoned
  /\ s \in DOMAIN proxies
  /\ \/ /\ Len(journal) < MaxRecords
        /\ journal' = Append(journal, [set |-> s, content |-> c])
        /\ UNCHANGED <<journal_sequence, last_sequence, sets>>
     \/ /\ Len(journal) = MaxRecords
        /\ link = "up"
        /\ Accepted
        /\ journal_sequence < MaxSequence
        /\ journal' = <<[set |-> s, content |-> c]>>
        /\ journal_sequence' = journal_sequence + 1
        /\ last_sequence' = journal_sequence
        /\ sets' = Current
  /\ proxies' = [proxies EXCEPT ![s].content = c]
  /\ NothingReturned
  /\ UNCHANGED <<poisoned, link, pool, next_serial, lease_plans, banks, used>>

\* vkUpdateDescriptorSets: a request of its own, behind the journal.
UpdateDescriptorSets(s, c) ==
  /\ s \in DOMAIN proxies
  /\ Exchange
  /\ sets' = Overwrite(Current, [set |-> s, content |-> c])
  /\ proxies' = [proxies EXCEPT ![s].content = c]
  /\ NothingReturned
  /\ UNCHANGED <<poisoned, link, pool, next_serial, lease_plans, banks, used>>

\* A submission: the service sees the sets as they are behind the journal.
Submit ==
  /\ Exchange
  /\ sets' = Current
  /\ submitted' = [s \in DOMAIN proxies \cap DOMAIN sets |-> Current[s]]
  /\ result' = NoResult
  /\ UNCHANGED <<poisoned, link, pool, proxies, next_serial, lease_plans, banks,
                 used>>

\* Any other request, and one of the above that the driver refuses.
OtherExchange ==
  /\ Exchange
  /\ journal # <<>>
  /\ sets' = Current
  /\ NothingReturned
  /\ UNCHANGED <<poisoned, link, pool, proxies, next_serial, lease_plans, banks,
                 used>>

-----------------------------------------------------------------------------
(* Pools come to an end. *)

BanksOf(p) == {b \in Banks : lease_plans[b].pool = p}

\* descriptor_lease_after_pool_reset: the plan is cold again, the epoch stays
Cold(plan) ==
  [plan EXCEPT !.published = FALSE, !.batch_disabled = FALSE,
               !.batch_repetitions = 2, !.observed = 0]

PlansAfterReset(p) ==
  [b \in Banks |-> IF b \in BanksOf(p) THEN Cold(lease_plans[b])
                                       ELSE lease_plans[b]]

\* descriptor_lease_forget_pool
PlansAfterDestroy(p) ==
  [b \in Banks |-> IF b \in BanksOf(p) THEN NoPlan ELSE lease_plans[b]]

\* Mutant: the banks of the pool are left as they are.
BanksWithout_Kept(p) == banks

BanksWithout(p) ==
  [b \in Banks |-> IF b \in BanksOf(p) THEN NoBank ELSE banks[b]]

ResetDescriptorPool(p) ==
  /\ pool[p] = "live"
  /\ Exchange
  /\ sets' = Without(Current, p)
  /\ lease_plans' = PlansAfterReset(p)
  /\ banks' = BanksWithout(p)
  /\ proxies' = Without(proxies, p)
  /\ NothingReturned
  /\ UNCHANGED <<poisoned, link, pool, next_serial, used>>

DestroyDescriptorPool(p) ==
  /\ pool[p] = "live"
  /\ Exchange
  /\ sets' = Without(Current, p)
  /\ lease_plans' = PlansAfterDestroy(p)
  /\ banks' = BanksWithout(p)
  /\ proxies' = Without(proxies, p)
  /\ pool' = [pool EXCEPT ![p] = "gone"]
  /\ NothingReturned
  /\ UNCHANGED <<poisoned, link, next_serial, used>>

-----------------------------------------------------------------------------
(* vkAllocateDescriptorSets from a lease bank. *)

\* The entries left in the handle table.
Room == TableRoom - Cardinality(DOMAIN sets)

\* The leases at the cursor of bank b are what the call asks for.
Matches(b, p, sig) ==
  /\ banks[b].ready
  /\ banks[b].pool = p
  /\ Len(sig) <= Len(Unclaimed(b))
  /\ \A k \in DOMAIN sig : Unclaimed(b)[k].layout = sig[k]

Claimable(p, sig) == {b \in Banks : Matches(b, p, sig)}

\* A claim is made only with an empty journal.
MayClaim(p, sig) == journal = <<>> /\ Claimable(p, sig) # {}

NewProxies(p, ids, sig) ==
  [s \in DOMAIN proxies \cup Range(ids) |->
     IF s \in Range(ids)
     THEN DescriptorSet(p, sig[CHOOSE k \in DOMAIN sig : ids[k] = s], Blank)
     ELSE proxies[s]]

\* Mutant: the cursor is not stored.
CursorMoved_Not(b, n) == banks

CursorMoved(b, n) == [banks EXCEPT ![b].cursor = @ + n]

\* bvb_descriptor_lease_claim: the first bank that matches.  Neither the
\* service nor the socket takes part, so the link is not looked at.
ClaimLeases(p, sig) ==
  /\ ~poisoned
  /\ pool[p] = "live"
  /\ MayClaim(p, sig)
  /\ LET b == Min(Claimable(p, sig))
         ids == [k \in DOMAIN sig |-> Unclaimed(b)[k].set] IN
       /\ banks' = CursorMoved(b, Len(sig))
       /\ proxies' = NewProxies(p, ids, sig)
       /\ used' = used \cup Range(ids)
       /\ result' = [status |-> "SUCCESS", ids |-> ids]
  /\ submitted' = NoSets
  /\ UNCHANGED <<poisoned, link, pool, journal, journal_sequence>>
  /\ UNCHANGED <<last_sequence, sets, next_serial, lease_plans>>

-----------------------------------------------------------------------------
(* vkAllocateDescriptorSets over the transaction ring. *)

MaxRepetitions(n) == MaxPerAllocate \div n

\* descriptor_lease_batch_set_count
BatchSetCount(n, repetitions) == Min({repetitions, MaxRepetitions(n)}) * n

\* descriptor_lease_smaller_batch_set_count
SmallerBatch(c, n) ==
  IF (c \div n) \div 2 > 1 THEN ((c \div n) \div 2) * n ELSE n

FreeInPool(p) == MaxSets - Cardinality(OfPool(sets, p))

\* bvb_vulkan_global_context_allocate_descriptor_sets for c sets, where fit is
\* the largest allocation the native pool makes now and refused says whether
\* the driver fails for another reason.
AllocateStatus(c, fit, refused) ==
  CASE c > Room -> "TOO_MANY_OBJECTS"
    [] c <= Room /\ c > fit -> "OUT_OF_POOL_MEMORY"
    [] c <= Room /\ c <= fit /\ refused -> "NATIVE_ERROR"
    [] OTHER -> "SUCCESS"

\* The batch at which the loop of descriptor_lease_allocate_live_batch stops,
\* starting from c: it goes on to a smaller one while the pool is too full.
BatchTried(c, n, fit) ==
  LET tried[k \in 0..MaxPerAllocate] ==
        IF k <= n \/ k > Room \/ k <= fit THEN k ELSE tried[SmallerBatch(k, n)]
  IN  tried[c]

\* descriptor_lease_plan_find: the plan of this pool and signature, else the
\* first unused place, else none (0).
PlanIndex(p, sig) ==
  LET found == {b \in Banks : lease_plans[b].pool = p
                              /\ lease_plans[b].signature = sig}
      empty == {b \in Banks : lease_plans[b] = NoPlan}
  IN  IF found # {} THEN Min(found) ELSE IF empty # {} THEN Min(empty) ELSE 0

PlanFor(b, p, sig) ==
  IF lease_plans[b] # NoPlan THEN lease_plans[b]
  ELSE [NoPlan EXCEPT !.pool = p, !.signature = sig, !.batch_repetitions = 2]

\* A bank has been drained: the next batch is twice as large.
Grown(plan) ==
  [plan EXCEPT !.published = FALSE,
               !.batch_repetitions =
                  Max({@, Min({2 * @, MaxRepetitions(Len(plan.signature))})})]

\* The worker allocates c sets in the layouts of sig, over and over, and answers
\* with the first Len(sig); the client makes proxies of those.
Answer(p, sig, c, fit, refused) ==
  LET n == Len(sig)
      status == AllocateStatus(c, fit, refused)
      count == IF status = "SUCCESS" THEN c ELSE 0
      given == IF status = "SUCCESS" THEN sig ELSE <<>>
      new == next_serial .. (next_serial + count - 1)
      ids == [k \in DOMAIN given |-> next_serial + k - 1]
  IN  /\ next_serial + count <= MaxSerial + 1
      /\ sets' = [s \in DOMAIN sets \cup new |->
                    IF s \in new
                    THEN DescriptorSet(p, sig[((s - next_serial) % n) + 1], Blank)
                    ELSE Current[s]]
      /\ next_serial' = next_serial + count
      /\ proxies' = NewProxies(p, ids, given)
      /\ used' = used \cup Range(ids)
      /\ result' = [status |-> status, ids |-> ids]

\* The extra sets of a batch of c, as lease records.
Extras(sig, c) ==
  [k \in 1..(c - Len(sig)) |->
     [layout |-> sig[((Len(sig) + k - 1) % Len(sig)) + 1],
      set |-> next_serial + Len(sig) + k - 1]]

\* No plan, or one that does not batch: only what was asked for.
ExactCall(p, sig, fit, refused) ==
  LET b == PlanIndex(p, sig)
      plan == PlanFor(b, p, sig)
  IN  /\ \/ b = 0 /\ UNCHANGED lease_plans
         \/ /\ b # 0
            /\ \/ plan.batch_disabled
               \/ BatchSetCount(Len(sig), plan.batch_repetitions) <= Len(sig)
            /\ lease_plans' = [lease_plans EXCEPT ![b] = plan]
      /\ Answer(p, sig, Len(sig), fit, refused)
      /\ UNCHANGED banks

Batching(p, sig) ==
  LET b == PlanIndex(p, sig)
      plan == PlanFor(b, p, sig)
  IN  /\ b # 0
      /\ ~plan.batch_disabled
      /\ BatchSetCount(Len(sig), plan.batch_repetitions) > Len(sig)

\* The first two calls with a signature are observed only.
ObservingCall(p, sig, fit, refused) ==
  LET b == PlanIndex(p, sig)
      plan == PlanFor(b, p, sig)
  IN  /\ Batching(p, sig)
      /\ ~plan.published /\ plan.observed < 2
      /\ lease_plans' =
           [lease_plans EXCEPT ![b] = [plan EXCEPT !.observed = @ + 1]]
      /\ Answer(p, sig, Len(sig), fit, refused)
      /\ UNCHANGED banks

\* There are still leases in the bank, which this call could not use.
PassingCall(p, sig, fit, refused) ==
  LET b == PlanIndex(p, sig)
      plan == PlanFor(b, p, sig)
  IN  /\ Batching(p, sig)
      /\ plan.published /\ Unclaimed(b) # <<>>
      /\ Answer(p, sig, Len(sig), fit, refused)
      /\ UNCHANGED <<lease_plans, banks>>

\* Mutant: a batch is made with leases left in the bank.
Refill_NotDrained(p, sig) ==
  LET plan == PlanFor(PlanIndex(p, sig), p, sig)
  IN  Batching(p, sig) /\ (plan.published \/ plan.observed >= 2)

\* A plan that is due for a batch, the bank of the last one being drained.
Refill(p, sig) ==
  LET b == PlanIndex(p, sig)
      plan == PlanFor(b, p, sig)
  IN  /\ Batching(p, sig)
      /\ \/ plan.published /\ Unclaimed(b) = <<>>
         \/ ~plan.published /\ plan.observed >= 2

\* The batch is made, cut down until it fits.
BatchCall(p, sig, fit, refused) ==
  LET b == PlanIndex(p, sig)
      old == PlanFor(b, p, sig)
      plan == IF old.published THEN Grown(old) ELSE old
      n == Len(sig)
      c == BatchTried(BatchSetCount(n, plan.batch_repetitions), n, fit)
      made == [plan EXCEPT !.batch_repetitions = c \div n]
      publish == old.epoch < MaxEpoch
  IN  /\ Refill(p, sig)
      /\ Answer(p, sig, c, fit, refused)
      /\ \/ /\ c <= n
            /\ lease_plans' =
                 [lease_plans EXCEPT ![b] = [plan EXCEPT !.batch_disabled = TRUE]]
            /\ banks' = [banks EXCEPT ![b] = NoBank]
         \/ /\ c > n
            /\ AllocateStatus(c, fit, refused) # "SUCCESS"
            /\ lease_plans' = [lease_plans EXCEPT ![b] = plan]
            /\ banks' = [banks EXCEPT ![b] = NoBank]
         \/ /\ c > n
            /\ AllocateStatus(c, fit, refused) = "SUCCESS"
            /\ publish
            /\ lease_plans' =
                 [lease_plans EXCEPT ![b] = [made EXCEPT !.epoch = @ + 1,
                                                         !.published = TRUE]]
            /\ banks' =
                 [banks EXCEPT ![b] =
                    [ready |-> TRUE, pool |-> p, epoch |-> old.epoch + 1,
                     records |-> Extras(sig, c), cursor |-> 0]]
         \/ /\ c > n
            /\ AllocateStatus(c, fit, refused) = "SUCCESS"
            /\ ~publish
            /\ lease_plans' =
                 [lease_plans EXCEPT ![b] = [made EXCEPT !.batch_disabled = TRUE]]
            /\ banks' = [banks EXCEPT ![b] = NoBank]

\* One call of the ring: the journal goes with the request, empty or not.
RingCall(p, sig) ==
  /\ ~poisoned /\ link = "up"
  /\ pool[p] = "live"
  /\ ~MayClaim(p, sig)
  /\ Applied
  /\ \E fit \in IF Fragments THEN 0..FreeInPool(p) ELSE {FreeInPool(p)},
        refused \in BOOLEAN :
       \/ ExactCall(p, sig, fit, refused)
       \/ ObservingCall(p, sig, fit, refused)
       \/ PassingCall(p, sig, fit, refused)
       \/ BatchCall(p, sig, fit, refused)
  /\ submitted' = NoSets
  /\ UNCHANGED <<poisoned, link, pool>>

-----------------------------------------------------------------------------
(* Failures. *)

\* The sets and the plans belong to the connection: the service stops the worker
\* and nobody reaches them again (serve_connection destroys the context or keeps
\* it only for the driver).  The banks stay where the client has them mapped.
ConnectionEnds ==
  /\ link' = "down"
  /\ sets' = NoSets
  /\ lease_plans' = [b \in Banks |-> NoPlan]
  /\ NothingReturned
  /\ UNCHANGED <<pool, proxies, journal, journal_sequence>>
  /\ UNCHANGED <<last_sequence, next_serial, banks, used>>

\* The service goes; the client learns of it by its next exchange or ring call.
ServiceEnds == ~poisoned /\ link = "up" /\ ConnectionEnds /\ UNCHANGED poisoned

\* poison_descriptor_journal_connection_locked: the socket is closed.  A flush or
\* a ring call has failed (the service is gone, it has no memory for the snapshot
\* or a record, its answer is lost or too late, the sequence has wrapped), with
\* any part of the journal applied, or an update named a set that is gone, an
\* error the call cannot return.
Poison ==
  /\ ~poisoned
  /\ \/ journal # <<>>
     \/ \E p \in Pools, sig \in Signatures :
          pool[p] = "live" /\ ~MayClaim(p, sig)
     \/ \E s \in used : s \notin DOMAIN proxies
  /\ poisoned' = TRUE
  /\ ConnectionEnds

Next ==
  \/ \E p \in Pools :
       \/ CreatePool(p)
       \/ ResetDescriptorPool(p)
       \/ DestroyDescriptorPool(p)
       \/ \E sig \in Signatures : ClaimLeases(p, sig) \/ RingCall(p, sig)
  \/ \E s \in Serials, c \in Contents :
       \/ UpdateDescriptorSetWithTemplate(s, c)
       \/ UpdateDescriptorSets(s, c)
  \/ Submit
  \/ OtherExchange
  \/ ServiceEnds
  \/ Poison

Spec == Init /\ [][Next]_vars
-----------------------------------------------------------------------------
(* Properties. *)

TypeOK ==
  /\ poisoned \in BOOLEAN
  /\ link \in {"up", "down"}
  /\ pool \in [Pools -> {"none", "live", "gone"}]
  /\ DOMAIN proxies \cup DOMAIN sets \cup used \subseteq Serials
  /\ \A table \in {proxies, sets, submitted} : \A s \in DOMAIN table :
       table[s] \in [pool : Pools, layout : Layouts,
                     content : Contents \cup {Blank}]
  /\ journal \in Seq([set : Serials, content : Contents])
  /\ Len(journal) <= MaxRecords
  /\ journal_sequence \in 1..MaxSequence
  /\ last_sequence \in 0..MaxSequence
  /\ next_serial \in 1..(MaxSerial + 1)
  /\ \A b \in Banks :
       /\ lease_plans[b].batch_repetitions \in 0..Max({2, MaxPerAllocate})
       /\ lease_plans[b].observed \in 0..2
       /\ lease_plans[b].epoch \in 0..MaxEpoch
       /\ banks[b].cursor \in 0..Len(banks[b].records)

\* While the connection works, the service would have every set of the
\* application, with its pool, layout and content, once it had the journal: no
\* update is lost, none is applied to another set and none overtakes a later one
\* (global_dispatch.c:348-357, 976-1004; bridge_service.c:2248-2270).
InSync ==
  ~poisoned /\ link = "up" =>
    \A s \in DOMAIN proxies : s \in DOMAIN sets /\ Current[s] = proxies[s]

\* The service never refuses the journal of a working connection: the sequence
\* is the one it expects, after flushes and after ring calls with or without
\* records, and no record names a set that has gone with its pool
\* (bridge_service.c:2290-2294, 2762-2773; global_dispatch.c:5560-5567).
JournalAccepted ==
  ~poisoned /\ link = "up" /\ journal_sequence < MaxSequence => Accepted

\* The types hold, and a lease nobody has claimed is a live native set of the bank's pool, with the
\* layout the record names, nobody has it and no other record offers it: a claim,
\* which asks the service nothing, cannot return a set of an earlier epoch of the
\* pool or one that is in use (descriptor_transaction_ring.c:385-470,
\* bridge_service.c:2672-2710).
LeasesAreLive ==
  /\ TypeOK
  /\ ~poisoned /\ link = "up" =>
       \A b \in Banks : \A k \in DOMAIN Unclaimed(b) :
         LET lease == Unclaimed(b)[k] IN
           /\ lease.set \in DOMAIN sets
           /\ Current[lease.set] =
                DescriptorSet(banks[b].pool, lease.layout, Blank)
           /\ pool[banks[b].pool] = "live"
           /\ lease.set \notin used
           /\ \A d \in Banks : \A j \in DOMAIN Unclaimed(d) :
                Unclaimed(d)[j].set = lease.set => <<d, j>> = <<b, k>>

\* Pool space is not lost: a native set belongs to the application or waits in a
\* bank for a claim.  The one exception is a plan whose epoch has run out, which
\* drops its last extras (bridge_service.c:2659-2668).
PoolSpaceAccounted ==
  ~poisoned /\ link = "up" =>
    \A s \in DOMAIN sets :
      \/ s \in DOMAIN proxies
      \/ \E b \in Banks : \E k \in DOMAIN Unclaimed(b) : Unclaimed(b)[k].set = s
      \/ \E b \in Banks : /\ lease_plans[b].pool = sets[s].pool
                          /\ lease_plans[b].epoch = MaxEpoch
                          /\ lease_plans[b].batch_disabled

\* The application cannot tell the shared mode from an implementation that does
\* every call at once: what it owns, that the sets it gets are new, and what a
\* submission finds in them is as DescriptorPools says.
AbstractPools ==
  INSTANCE DescriptorPools WITH Ids <- Serials, owned <- proxies,
                                obtained <- result.ids

ImplementsPools == AbstractPools!Spec
-----------------------------------------------------------------------------
(***************************************************************************)
(* The inductive invariant.                                                *)
(***************************************************************************)

SetRecords == [pool : Pools, layout : Layouts, content : Contents \cup {Blank}]
LeaseRecords == [layout : Layouts, set : Serials]
PlanRecords ==
  [pool : Pools \cup {NoPool}, signature : Seq(Layouts),
   batch_repetitions : 0..Max({2, MaxPerAllocate}), observed : 0..2,
   published : BOOLEAN, batch_disabled : BOOLEAN,
   epoch : 0..MaxEpoch]
BankRecords ==
  [ready : BOOLEAN, pool : Pools \cup {NoPool}, epoch : 0..MaxEpoch,
   records : Seq(LeaseRecords), cursor : Nat]

Working == ~poisoned /\ link = "up"

TablesKnown ==
  /\ TypeOK
  /\ proxies \in [DOMAIN proxies -> SetRecords]
  /\ sets \in [DOMAIN sets -> SetRecords]
  /\ lease_plans \in [Banks -> PlanRecords]
  /\ banks \in [Banks -> BankRecords]

\* Every set id that is anywhere has been given out before.
SerialsKnown ==
  /\ \A s \in used \cup DOMAIN sets : s < next_serial
  /\ DOMAIN proxies \subseteq used
  /\ \A b \in Banks : \A k \in DOMAIN banks[b].records :
       banks[b].records[k].set < next_serial

\* The journal is the next one the service expects, and its records name sets
\* of the application.
JournalKnown ==
  Working => /\ journal_sequence = last_sequence + 1
             /\ \A k \in DOMAIN journal : journal[k].set \in DOMAIN proxies

\* The places of the records in bank b that can be claimed.
Offered(b) == {k \in DOMAIN banks[b].records :
                 banks[b].ready /\ banks[b].cursor < k}

\* What can be claimed is new and offered once, also when the service is gone.
OffersKnown ==
  ~poisoned =>
    \A b \in Banks : \A k \in Offered(b) :
      /\ banks[b].records[k].set \notin used
      /\ \A d \in Banks : \A j \in Offered(d) :
           banks[d].records[j].set = banks[b].records[k].set => d = b /\ j = k

\* A bank belongs to the plan at its place, which knows that it is published,
\* and its offers are blank sets of a live pool.
BanksKnown ==
  Working =>
    \A b \in Banks : banks[b].ready =>
      /\ lease_plans[b].published /\ lease_plans[b].pool = banks[b].pool
      /\ banks[b].pool \in Pools /\ pool[banks[b].pool] = "live"
      /\ \A k \in Offered(b) :
           /\ banks[b].records[k].set \in DOMAIN sets
           /\ sets[banks[b].records[k].set]
                = DescriptorSet(banks[b].pool, banks[b].records[k].layout, Blank)

\* PoolSpaceAccounted in terms of Offered.
SpaceKnown ==
  Working =>
    \A s \in DOMAIN sets :
      \/ s \in DOMAIN proxies
      \/ \E b \in Banks : \E k \in Offered(b) : banks[b].records[k].set = s
      \/ \E b \in Banks : /\ lease_plans[b].pool = sets[s].pool
                          /\ lease_plans[b].epoch = MaxEpoch
                          /\ lease_plans[b].batch_disabled

SetsInv ==
  /\ TablesKnown /\ SerialsKnown /\ JournalKnown /\ InSync
  /\ OffersKnown /\ BanksKnown /\ SpaceKnown
=============================================================================
