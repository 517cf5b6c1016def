-------------------------- MODULE DescriptorPools --------------------------
(***************************************************************************)
(* What Vulkan promises an application about its descriptor sets, and what *)
(* the shared descriptor mode has to keep (docs/ARCHITECTURE.md: "strict   *)
(* mode is the semantic A/B control"): a set is new when it is allocated,  *)
(* it has the pool and the layout asked for, an update takes effect before *)
(* anything submitted later, and the sets of a pool go away together.      *)
(***************************************************************************)
EXTENDS Naturals, Sequences, FiniteSets

CONSTANTS Ids, Pools, Layouts, Contents, Blank

VARIABLES
  owned,      \* the sets of the application: id -> [pool, layout, content]
  used,       \* every id ever handed out
  obtained,   \* the sets an allocation returns; empty after other calls
  submitted   \* the sets as a submission finds them; empty after other calls

poolVars == <<owned, used, obtained, submitted>>

NoSets == [s \in {} |-> Blank]

DescriptorSet(p, l, c) == [pool |-> p, layout |-> l, content |-> c]

Init ==
  owned = NoSets /\ used = {} /\ obtained = <<>> /\ submitted = NoSets

\* Any number of sets of one pool, each of them new and returned once; the
\* others stay as they are.
Allocate(p) ==
  LET new == {obtained'[k] : k \in DOMAIN obtained'} IN
    /\ new \subseteq Ids \ used
    /\ Cardinality(new) = Len(obtained')
    /\ DOMAIN owned' = DOMAIN owned \cup new
    /\ \A s \in DOMAIN owned : owned'[s] = owned[s]
    /\ \A s \in new : \E l \in Layouts : owned'[s] = DescriptorSet(p, l, Blank)
    /\ used' = used \cup new
    /\ submitted' = NoSets

Update(s, c) ==
  /\ s \in DOMAIN owned
  /\ owned' = [owned EXCEPT ![s].content = c]
  /\ UNCHANGED used
  /\ obtained' = <<>> /\ submitted' = NoSets

\* Reset or destroy of a pool.
Discard(p) ==
  /\ owned' = [s \in {t \in DOMAIN owned : owned[t].pool # p} |-> owned[s]]
  /\ UNCHANGED used
  /\ obtained' = <<>> /\ submitted' = NoSets

\* What is submitted uses the sets as the application has left them.
Submit == submitted' = owned /\ obtained' = <<>> /\ UNCHANGED <<owned, used>>

\* A call that does not concern the sets, and one that fails.
Other == submitted' = NoSets /\ obtained' = <<>> /\ UNCHANGED <<owned, used>>

Next ==
  \/ \E p \in Pools : Allocate(p) \/ Discard(p)
  \/ \E s \in Ids, c \in Contents : Update(s, c)
  \/ Submit
  \/ Other

Spec == Init /\ [][Next]_poolVars
=============================================================================
