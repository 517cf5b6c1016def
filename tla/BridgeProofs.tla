----------------------------- MODULE BridgeProofs -----------------------------
(***************************************************************************)
(* Client and service for any application, any table, any number of        *)
(* objects: BridgeInv is inductive.  The client's lists are the service's  *)
(* table while the connection works, the table is exact, objects die       *)
(* before their parents, and requests about them are accepted.             *)
(***************************************************************************)
EXTENDS Bridge, FiniteSetTheorems, WellFoundedInduction, TLAPS

(***************************************************************************)
(* Natural numbers.                                                        *)
(***************************************************************************)

\* A non-empty set of natural numbers has a least member.
LEMMA LeastMember ==
  ASSUME NEW S \in SUBSET Nat, S # {}
  PROVE  \E x \in S : \A y \in S : x <= y
<1> DEFINE R == {ss \in Nat \X Nat : ss[1] < ss[2]}
<1>1. IsWellFoundedOn(R, Nat)
  BY NatLessThanWellFounded DEF OpToRel
<1>2. \A y \in Nat, z \in Nat : y < z => <<y, z>> \in R
  <2> SUFFICES ASSUME NEW y \in Nat, NEW z \in Nat, y < z
               PROVE  <<y, z>> \in R
    OBVIOUS
  <2>1. <<y, z>> \in Nat \X Nat /\ <<y, z>>[1] = y /\ <<y, z>>[2] = z
    OBVIOUS
  <2>2. <<y, z>>[1] < <<y, z>>[2]
    BY <2>1
  <2> QED
    BY <2>1, <2>2, Zenon
<1> HIDE DEF R
<1>3. PICK x \in S : \A y \in S : ~ (<<y, x>> \in R)
  BY <1>1, WFMin
<1>4. ASSUME NEW y \in S PROVE x <= y
  <2>1. x \in Nat /\ y \in Nat
    OBVIOUS
  <2>2. ~(y < x)
    BY <1>2, <1>3, <2>1, Zenon
  <2> QED
    BY <2>1, <2>2
<1> QED
  BY <1>4

\* A set that holds zero and the successor of each of its members holds every
\* natural number.
LEMMA SetInduction ==
  ASSUME NEW T \in SUBSET Nat, 0 \in T, \A n \in T : n + 1 \in T
  PROVE  T = Nat
<1> SUFFICES ASSUME T # Nat PROVE FALSE
  OBVIOUS
<1>1. PICK x \in Nat \ T : \A y \in Nat \ T : x <= y
  BY LeastMember
<1>2. x - 1 \in Nat /\ ~(x <= x - 1) /\ (x - 1) + 1 = x
  BY <1>1
<1>3. x - 1 \in T
  BY <1>1, <1>2
<1> QED
  BY <1>1, <1>2, <1>3

(***************************************************************************)
(* Contexts that lose objects.                                             *)
(***************************************************************************)

\* x is c after the table entries of K were removed: the natives are there.
Unlisted(c, x, K) ==
    /\ DOMAIN x = DOMAIN NewContext
    /\ Live(x) = Live(c) \ K
    /\ \A id \in Live(x) : x.table[id] = c.table[id]
    /\ x.meta = c.meta \ K /\ x.bound = c.bound \ K
    /\ x.native = c.native /\ x.early = c.early /\ x.chain = c.chain
    /\ x.mirrored = c.mirrored /\ x.lost = c.lost
    /\ x.negotiated = c.negotiated /\ x.present = c.present

\* x is c without the objects R and without the records of the swapchains ss.
Without(c, x, R, ss) ==
    /\ DOMAIN x = DOMAIN NewContext
    /\ Live(x) = Live(c) \ R
    /\ \A id \in Live(x) : x.table[id] = c.table[id]
    /\ DOMAIN x.native = DOMAIN c.native \ R
    /\ \A id \in DOMAIN x.native : x.native[id] = c.native[id]
    /\ x.meta = c.meta \ R /\ x.bound = c.bound \ R
    /\ DOMAIN x.chain = DOMAIN c.chain \ ss
    /\ \A s \in DOMAIN x.chain : x.chain[s] = c.chain[s]
    /\ x.early = c.early /\ x.mirrored = c.mirrored /\ x.lost = c.lost
    /\ x.negotiated = c.negotiated /\ x.present = c.present

\* The natives are those of the table.
Owned(c) ==
    /\ DOMAIN c = DOMAIN NewContext
    /\ DOMAIN c.native = {id \in Live(c) : Type(id) \notin Borrowed}
    /\ \A id \in DOMAIN c.native : c.native[id] = c.table[id]

\* The fields of a context.
LEMMA ContextFields ==
  DOMAIN NewContext = {"negotiated", "present", "table", "native", "meta",
                       "bound", "mirrored", "chain", "lost", "early"}
BY DEF NewContext

\* Forgotten removes table entries.
LEMMA ForgottenUnlists ==
  ASSUME NEW c, DOMAIN c = DOMAIN NewContext, NEW K
  PROVE  Unlisted(c, Forgotten(c, K), K)
BY ContextFields DEF Unlisted, Forgotten, Live, Restrict

\* Nothing forgotten, nothing unlisted.
LEMMA SameUnlists ==
  ASSUME NEW c, DOMAIN c = DOMAIN NewContext
  PROVE  Unlisted(c, c, {})
BY DEF Unlisted

\* The same for both.
LEMMA SameWithout ==
  ASSUME NEW c, DOMAIN c = DOMAIN NewContext
  PROVE  Without(c, c, {}, {})
BY DEF Without

\* Removals add up.
LEMMA WithoutBoth ==
  ASSUME NEW c, NEW x, NEW y, NEW R, NEW S, NEW ss, NEW tt,
         Without(c, x, R, ss), Without(x, y, S, tt)
  PROVE  Without(c, y, R \cup S, ss \cup tt)
BY DEF Without

\* What is left is owned as before.
LEMMA WithoutOwned ==
  ASSUME NEW c, NEW x, NEW R, NEW ss, Without(c, x, R, ss), Owned(c)
  PROVE  Owned(x)
BY DEF Without, Owned

\* Objects whose children in the table are all unlisted, which they are only
\* if a pool's destruction frees them, go with those children and nothing is
\* destroyed too early.
LEMMA DestroyedWithout ==
  ASSUME NEW c, Owned(c), NEW I, NEW K, NEW x, Unlisted(c, x, K),
         I \subseteq Live(c),
         \A id \in Live(c) : c.table[id] \in I <=> id \in K,
         K \subseteq Live(c),
         \A id \in K : Type(c.table[id]) \in Pools /\ Type(id) \notin Borrowed
  PROVE  Without(c, Destroyed(x, I), I \cup K, {})
<1>1. PICK f : f = Forgotten(x, I)
  OBVIOUS
<1>2. Unlisted(x, f, I)
  BY <1>1, ForgottenUnlists DEF Unlisted
<1>3. f.native = c.native /\ DOMAIN f = DOMAIN NewContext
  BY <1>2 DEF Unlisted
<1>4. PICK y : y = NativelyDestroyed(f, I)
  OBVIOUS
<1>5. PICK children : children = {k \in DOMAIN f.native : f.native[k] \in I}
  OBVIOUS
<1>6. children = K
  BY <1>3, <1>5 DEF Owned
<1>7. PICK freed : freed = {k \in children : Type(f.native[k]) \in Pools}
  OBVIOUS
<1>8. freed = K
  BY <1>3, <1>6, <1>7 DEF Owned
<1>9. y = [f EXCEPT !.native = Restrict(@, DOMAIN @ \ (I \cup freed)),
                    !.early = @ \cup {Type(f.native[k]) : k \in children \ freed}]
  BY <1>4, <1>5, <1>7, Zenon DEF NativelyDestroyed
<1>10. DOMAIN y = DOMAIN NewContext
       /\ y.native = [k \in DOMAIN c.native \ (I \cup K) |-> c.native[k]]
       /\ y.early = f.early
       /\ y.table = f.table /\ y.meta = f.meta /\ y.bound = f.bound
       /\ y.chain = f.chain /\ y.mirrored = f.mirrored /\ y.lost = f.lost
       /\ y.negotiated = f.negotiated /\ y.present = f.present
  BY <1>3, <1>6, <1>8, <1>9, ContextFields DEF Restrict
<1>11. Without(c, y, I \cup K, {})
  BY <1>2, <1>10 DEF Unlisted, Without, Live
<1> QED
  BY <1>1, <1>4, <1>11 DEF Destroyed

\* R holds with every object its children, with every swapchain its images, and
\* no image of another swapchain, no mirrored memory; ss are its swapchains.
Closed(c, R, ss) ==
    /\ R \subseteq Live(c)
    /\ \A id \in Live(c) : c.table[id] \in R => id \in R
    /\ ss = R \cap DOMAIN c.chain
    /\ \A s \in DOMAIN c.chain : s \notin R => c.chain[s] \cap R = {}
    /\ R \cap c.mirrored = {}

\* What is left when such a set goes is a context again.
LEMMA WithoutKnown ==
  ASSUME NEW c, ContextKnown(c), NEW x, NEW R, NEW ss, Without(c, x, R, ss),
         Closed(c, R, ss)
  PROVE  ContextKnown(x)
<1>1. Live(x) \subseteq Live(c) /\ R \subseteq Live(c) /\ Live(x) = Live(c) \ R
  BY DEF Without, Closed
<1>2. IsFiniteSet(Live(x)) /\ Cardinality(Live(x)) <= Capacity
  <2>1. IsFiniteSet(Live(c)) /\ Cardinality(Live(c)) <= Capacity
    BY DEF ContextKnown, TableKnown
  <2>2. IsFiniteSet(Live(x)) /\ Cardinality(Live(x)) <= Cardinality(Live(c))
    BY <1>1, <2>1, FS_Subset
  <2>3. Cardinality(Live(c)) \in Nat /\ Cardinality(Live(x)) \in Nat
    BY <2>1, <2>2, FS_CardinalityType
  <2> QED
    BY <2>1, <2>2, <2>3, ServiceObjectsAssumption
<1>3. IsFiniteSet(x.lost) /\ x.lost \cap Live(x) = {} /\ (Live(x) # {} => x.present)
  BY <1>1 DEF ContextKnown, TableKnown, Without
<1>4. ASSUME NEW id \in Live(x)
      PROVE  /\ Type(id) \in ObjectTypes
             /\ IF Type(id) = "INSTANCE" THEN x.table[id] = NoObject
                ELSE /\ x.table[id] \in Live(x)
                     /\ Type(x.table[id]) = ParentType(Type(id))
  <2>1. x.table[id] = c.table[id] /\ id \in Live(c) /\ id \notin R
    BY <1>1 DEF Without
  <2>2. c.table[id] \notin R
    BY <2>1 DEF Closed
  <2> QED
    BY <1>1, <2>1, <2>2 DEF ContextKnown, TableKnown
<1>41. \A id \in x.lost : Type(id) \in ObjectTypes
  BY <1>1 DEF ContextKnown, TableKnown, Without
<1>5. TableKnown(x)
  BY <1>2, <1>3, <1>4, <1>41 DEF TableKnown
<1>6. NativesKnown(x)
  <2>1. DOMAIN x.native = {id \in Live(x) : Type(id) \notin Borrowed}
    BY <1>1 DEF Without, ContextKnown, NativesKnown
  <2>2. \A id \in DOMAIN x.native : x.native[id] = x.table[id]
    BY <2>1, <1>1 DEF Without, ContextKnown, NativesKnown
  <2>3. x.meta = {id \in Live(x) : Type(id) \in Described}
    BY <1>1 DEF Without, ContextKnown, NativesKnown
  <2>4. x.bound \subseteq OfType(x, "BUFFER")
    BY <1>1 DEF Without, ContextKnown, NativesKnown, OfType
  <2>5. x.mirrored \subseteq OfType(x, "DEVICE_MEMORY")
    BY <1>1 DEF Without, Closed, ContextKnown, NativesKnown, OfType
  <2>6. x.early = {}
    BY DEF Without, ContextKnown, NativesKnown
  <2> QED
    BY <2>1, <2>2, <2>3, <2>4, <2>5, <2>6 DEF NativesKnown
<1>7. ChainsKnown(x)
  <2>1. DOMAIN x.chain = OfType(x, "SWAPCHAIN")
    BY <1>1 DEF Without, Closed, ContextKnown, ChainsKnown, OfType
  <2>2. ASSUME NEW s \in DOMAIN x.chain, NEW i \in x.chain[s]
        PROVE  /\ i \in OfType(x, "IMAGE") /\ x.table[i] = x.table[s]
               /\ \A t \in DOMAIN x.chain : i \in x.chain[t] => t = s
    <3>1. s \in DOMAIN c.chain /\ x.chain[s] = c.chain[s] /\ s \notin ss
      BY DEF Without
    <3>2. s \in Live(c) /\ i \in OfType(c, "IMAGE") /\ c.table[i] = c.table[s]
          /\ \A t \in DOMAIN c.chain : i \in c.chain[t] => t = s
      BY <3>1 DEF ContextKnown, ChainsKnown, OfType
    <3>3. s \notin R /\ i \notin R
      BY <3>1, <3>2 DEF Closed
    <3>4. \A t \in DOMAIN x.chain : t \in DOMAIN c.chain /\ x.chain[t] = c.chain[t]
      BY DEF Without
    <3> QED
      BY <1>1, <3>1, <3>2, <3>3, <3>4 DEF Without, OfType
  <2> QED
    BY <2>1, <2>2 DEF ChainsKnown
<1> QED
  BY <1>5, <1>6, <1>7 DEF ContextKnown, Without

\* A context owns its natives.
LEMMA KnownOwned ==
  ASSUME NEW c, ContextKnown(c)
  PROVE  Owned(c)
BY DEF ContextKnown, NativesKnown, Owned

\* NoObject has no type of an object.
LEMMA NoObjectType == Type(NoObject) = "NONE"
BY DEF Type, NoObject

\* The type of the parent of a live object.
LEMMA ParentFacts ==
  ASSUME NEW c, ContextKnown(c), NEW id \in Live(c)
  PROVE  /\ Type(id) = "INSTANCE" => c.table[id] = NoObject
         /\ Type(id) # "INSTANCE" => c.table[id] \in Live(c)
         /\ Type(id) # "INSTANCE" => Type(c.table[id]) = ParentType(Type(id))
         /\ Type(id) \in ObjectTypes
         /\ Type(c.table[id]) \in {"NONE", "INSTANCE", "PHYSICAL_DEVICE", "DEVICE",
                                  "COMMAND_POOL", "DESCRIPTOR_POOL", "IMAGE"}
BY NoObjectType DEF ContextKnown, TableKnown, ParentType

\* The images of the swapchains ss.
ImagesOf(c, ss) == UNION {c.chain[s] : s \in ss}

\* Swapchains whose images have no views go with their images.
LEMMA ChainsGone ==
  ASSUME NEW c, ContextKnown(c), NEW ss, ss \subseteq DOMAIN c.chain,
         \A id \in Live(c) : c.table[id] \notin ImagesOf(c, ss)
  PROVE  LET x == destroy_swapchain_metadata(c, ss) IN
         /\ Without(c, x, ss \cup ImagesOf(c, ss), ss)
         /\ Closed(c, ss \cup ImagesOf(c, ss), ss)
         /\ ContextKnown(x)
<1>1. PICK x : x = destroy_swapchain_metadata(c, ss)
  OBVIOUS
<1>2. PICK images : images = ImagesOf(c, ss)
  OBVIOUS
<1>3. PICK gone : gone = Destroyed(c, images)
  OBVIOUS
<1>4. ss \subseteq OfType(c, "SWAPCHAIN") /\ images \subseteq OfType(c, "IMAGE")
  BY <1>2 DEF ContextKnown, ChainsKnown, ImagesOf
<1>5. ss \subseteq Live(c) /\ images \subseteq Live(c)
      /\ (\A s \in ss : Type(s) = "SWAPCHAIN") /\ (\A i \in images : Type(i) = "IMAGE")
  BY <1>4 DEF OfType
<1>6. Without(c, gone, images, {})
  <2>1. Unlisted(c, c, {})
    BY SameUnlists DEF ContextKnown
  <2>2. Without(c, Destroyed(c, images), images \cup {}, {})
    BY <1>2, <1>5, <2>1, KnownOwned, DestroyedWithout
  <2> QED
    BY <1>3, <2>2
<1>7. ASSUME NEW id \in Live(c) PROVE c.table[id] \notin ss
  <2>1. Type(c.table[id]) # "SWAPCHAIN"
    BY ParentFacts
  <2> QED
    BY <1>5, <2>1
<1>8. Owned(gone) /\ Live(gone) = Live(c) \ images
      /\ \A id \in Live(gone) : gone.table[id] = c.table[id]
  <2>1. Owned(c)
    BY KnownOwned
  <2>2. Owned(gone)
    BY <1>6, <2>1, WithoutOwned, Zenon
  <2> QED
    BY <1>6, <2>2 DEF Without
<1>9. PICK y : y = Destroyed(gone, ss)
  OBVIOUS
<1>10. Without(gone, y, ss, {})
  <2>1. Unlisted(gone, gone, {})
    BY <1>8, SameUnlists DEF Owned
  <2>2. ss \subseteq Live(gone)
    BY <1>5, <1>8
  <2>3. Without(gone, Destroyed(gone, ss), ss \cup {}, {})
    BY <1>7, <1>8, <2>1, <2>2, DestroyedWithout
  <2> QED
    BY <1>9, <2>3
<1>11. x = [y EXCEPT !.chain = Restrict(@, DOMAIN @ \ ss)]
  BY <1>1, <1>2, <1>3, <1>9, Zenon DEF destroy_swapchain_metadata, ImagesOf
<1>12. Without(y, x, {}, ss)
  <2>1. DOMAIN y = DOMAIN NewContext
    BY <1>10 DEF Without
  <2> QED
    BY <1>11, <2>1, ContextFields DEF Without, Restrict, Live
<1>13. Without(c, x, (images \cup ss) \cup {}, ({} \cup {}) \cup ss)
  BY <1>6, <1>10, <1>12, WithoutBoth
<1>14. Without(c, x, ss \cup images, ss)
  <2>1. (images \cup ss) \cup {} = ss \cup images /\ ({} \cup {}) \cup ss = ss
    OBVIOUS
  <2> QED
    BY <1>13, <2>1
<1>15. Closed(c, ss \cup images, ss)
  <2>1. ss \cup images \subseteq Live(c)
    BY <1>5
  <2>2. \A id \in Live(c) : c.table[id] \in ss \cup images => id \in ss \cup images
    BY <1>2, <1>7
  <2>3. ss = (ss \cup images) \cap DOMAIN c.chain
    BY <1>5 DEF ContextKnown, ChainsKnown, OfType
  <2>4. ASSUME NEW s \in DOMAIN c.chain, s \notin ss \cup images
        PROVE  c.chain[s] \cap (ss \cup images) = {}
    <3>1. \A i \in c.chain[s] : Type(i) = "IMAGE" /\ \A t \in DOMAIN c.chain : i \in c.chain[t] => t = s
      BY DEF ContextKnown, ChainsKnown, OfType
    <3> QED
      BY <1>2, <1>5, <2>4, <3>1 DEF ImagesOf
  <2>5. (ss \cup images) \cap c.mirrored = {}
    BY <1>5 DEF ContextKnown, NativesKnown, OfType
  <2> QED
    BY <2>1, <2>2, <2>3, <2>4, <2>5 DEF Closed
<1> QED
  BY <1>1, <1>2, <1>14, <1>15, WithoutKnown

(***************************************************************************)
(* Tearing devices down.                                                   *)
(***************************************************************************)

\* The types of a device's objects, and which of them are on the devices ds.
Grandchildren == {"COMMAND_BUFFER", "DESCRIPTOR_SET", "IMAGE_VIEW"}
OnDevices(c, ds) ==
    {id \in Live(c) : Type(id) \in DeviceChildren \cup Grandchildren
                      /\ DeviceOf(c, id) \in ds}

\* The device of a device's object.
LEMMA DeviceOfFacts ==
  ASSUME NEW c, ContextKnown(c), NEW id \in Live(c)
  PROVE  /\ Type(id) \in DeviceChildren =>
              DeviceOf(c, id) = c.table[id] /\ c.table[id] \in OfType(c, "DEVICE")
         /\ Type(id) \in Grandchildren =>
              /\ c.table[id] \in Live(c) /\ Type(c.table[id]) = ParentType(Type(id))
              /\ Type(c.table[id]) \in DeviceChildren
              /\ DeviceOf(c, id) = c.table[c.table[id]]
              /\ c.table[c.table[id]] \in OfType(c, "DEVICE")
<1>1. ASSUME NEW x \in Live(c), Type(x) \in DeviceChildren
      PROVE  DeviceOf(c, x) = c.table[x] /\ c.table[x] \in OfType(c, "DEVICE")
  <2>1. Type(x) # "INSTANCE" /\ ParentType(Type(x)) = "DEVICE"
    BY <1>1 DEF DeviceChildren, Pools, ParentType
  <2>2. c.table[x] \in Live(c) /\ Type(c.table[x]) = "DEVICE"
    BY <2>1, ParentFacts
  <2> QED
    BY <2>2 DEF DeviceOf, OfType
<1>2. ASSUME Type(id) \in Grandchildren
      PROVE  /\ c.table[id] \in Live(c) /\ Type(c.table[id]) = ParentType(Type(id))
             /\ Type(c.table[id]) \in DeviceChildren
             /\ DeviceOf(c, id) = c.table[c.table[id]]
             /\ c.table[c.table[id]] \in OfType(c, "DEVICE")
  <2>1. Type(id) # "INSTANCE" /\ ParentType(Type(id)) \in DeviceChildren
        /\ ParentType(Type(id)) # "DEVICE"
    BY <1>2 DEF DeviceChildren, Pools, ParentType, Grandchildren
  <2>2. c.table[id] \in Live(c) /\ Type(c.table[id]) = ParentType(Type(id))
    BY <2>1, ParentFacts
  <2>3. c.table[c.table[id]] \in OfType(c, "DEVICE")
    BY <1>1, <2>1, <2>2
  <2> QED
    BY <2>1, <2>2, <2>3 DEF DeviceOf
<1> QED
  BY <1>1, <1>2

\* Removing objects leaves the others on their devices.
LEMMA OnDevicesWithout ==
  ASSUME NEW c, ContextKnown(c), NEW x, ContextKnown(x), NEW R, NEW ss,
         Without(c, x, R, ss), NEW ds
  PROVE  OnDevices(x, ds) = OnDevices(c, ds) \ R
<1>1. ASSUME NEW id \in Live(x), Type(id) \in DeviceChildren \cup Grandchildren
      PROVE  DeviceOf(x, id) = DeviceOf(c, id)
  <2>1. id \in Live(c) /\ x.table[id] = c.table[id]
    BY DEF Without
  <2>2. CASE Type(id) \in DeviceChildren
    BY <2>1, <2>2, DeviceOfFacts
  <2>3. CASE Type(id) \in Grandchildren
    <3>1. x.table[id] \in Live(x) /\ DeviceOf(x, id) = x.table[x.table[id]]
      BY <2>3, DeviceOfFacts
    <3>2. DeviceOf(c, id) = c.table[c.table[id]]
      BY <2>1, <2>3, DeviceOfFacts
    <3>3. x.table[x.table[id]] = c.table[x.table[id]]
      BY <3>1 DEF Without
    <3> QED
      BY <2>1, <3>1, <3>2, <3>3
  <2> QED
    BY <1>1, <2>2, <2>3
<1>2. Live(x) = Live(c) \ R
  BY DEF Without
<1> QED
  BY <1>1, <1>2 DEF OnDevices

\* What a teardown may start from: the swapchains of the devices are gone and
\* none of their memories is mapped.
Idle(c, ds) ==
    /\ ds \subseteq OfType(c, "DEVICE")
    /\ \A s \in DOMAIN c.chain : c.table[s] \notin ds
    /\ \A m \in c.mirrored : c.table[m] \notin ds

\* One pass removes objects of the devices only, and all those of its type.
LEMMA SweptFacts ==
  ASSUME NEW c, ContextKnown(c), NEW ds, Idle(c, ds),
         NEW type \in (DeviceChildren \cup {"IMAGE_VIEW"}) \ {"SWAPCHAIN"},
         type = "IMAGE" => \A id \in OnDevices(c, ds) : Type(id) # "IMAGE_VIEW"
  PROVE  \E R : /\ Without(c, Swept(c, ds, type), R, {}) /\ Closed(c, R, {})
                /\ R \subseteq OnDevices(c, ds)
                /\ \A id \in OnDevices(c, ds) : Type(id) = type => id \in R
<1>1. PICK mine : mine = {id \in OfType(c, type) : DeviceOf(c, id) \in ds}
  OBVIOUS
<1>2. PICK theirs : theirs = {id \in Live(c) : type \in Pools /\ c.table[id] \in mine}
  OBVIOUS
<1>3. type \in DeviceChildren \cup Grandchildren /\ type # "SWAPCHAIN" /\ type # "DEVICE"
  BY DEF Grandchildren, DeviceChildren, Pools
<1>4. mine \subseteq OnDevices(c, ds) /\ mine \subseteq Live(c)
      /\ (\A id \in mine : Type(id) = type)
      /\ \A id \in OnDevices(c, ds) : Type(id) = type => id \in mine
  BY <1>1, <1>3 DEF OnDevices, OfType
<1>5. ASSUME NEW id \in theirs
      PROVE  Type(id) \in {"COMMAND_BUFFER", "DESCRIPTOR_SET"} /\ id \in OnDevices(c, ds)
             /\ Type(c.table[id]) \in Pools
  <2>1. id \in Live(c) /\ c.table[id] \in mine /\ type \in Pools
    BY <1>2
  <2>2. Type(c.table[id]) = type /\ Type(c.table[id]) \in Pools
    BY <1>4, <2>1
  <2>3. Type(id) # "INSTANCE"
    BY <2>2, ParentFacts, NoObjectType, <2>1 DEF Pools
  <2>4. ParentType(Type(id)) \in Pools
    BY <2>1, <2>2, <2>3, ParentFacts
  <2>5. Type(id) \in {"COMMAND_BUFFER", "DESCRIPTOR_SET"}
    BY <2>4 DEF ParentType, Pools
  <2>6. DeviceOf(c, id) = c.table[c.table[id]]
    BY <2>1, <2>5, DeviceOfFacts DEF Grandchildren
  <2>7. type \in DeviceChildren
    BY <2>1 DEF DeviceChildren
  <2>8. DeviceOf(c, c.table[id]) = c.table[c.table[id]] /\ DeviceOf(c, c.table[id]) \in ds
    BY <1>1, <1>4, <2>1, <2>2, <2>7, DeviceOfFacts
  <2> QED
    BY <2>1, <2>2, <2>5, <2>6, <2>8 DEF OnDevices, Grandchildren
<1>6. ASSUME NEW id \in Live(c), c.table[id] \in mine PROVE id \in theirs
  <2>1. Type(c.table[id]) = type /\ c.table[id] \in Live(c)
    BY <1>4, <1>6
  <2>2. type \in Pools \cup {"IMAGE"}
    BY <1>3, <2>1, ParentFacts DEF Pools, DeviceChildren, Grandchildren
  <2>3. CASE type = "IMAGE"
    <3>1. Type(id) # "INSTANCE"
      BY <2>1, <2>3, ParentFacts, NoObjectType
    <3>2. ParentType(Type(id)) = "IMAGE"
      BY <2>1, <2>3, <3>1, ParentFacts
    <3>3. Type(id) = "IMAGE_VIEW"
      BY <3>2 DEF ParentType
    <3>4. DeviceOf(c, id) = c.table[c.table[id]]
      BY <3>3, DeviceOfFacts DEF Grandchildren
    <3>5. type \in DeviceChildren
      BY <2>3 DEF DeviceChildren
    <3>6. DeviceOf(c, c.table[id]) = c.table[c.table[id]] /\ DeviceOf(c, c.table[id]) \in ds
      BY <1>1, <1>6, <2>1, <3>5, DeviceOfFacts
    <3>7. id \in OnDevices(c, ds)
      BY <3>3, <3>4, <3>6 DEF OnDevices, Grandchildren
    <3> QED
      BY <2>3, <3>3, <3>7
  <2> QED
    BY <1>2, <1>6, <2>2, <2>3
<1>7. PICK R : R = mine \cup theirs
  OBVIOUS
<1>8. Closed(c, R, {})
  <2>1. R \subseteq Live(c)
    BY <1>2, <1>4, <1>7
  <2>2. ASSUME NEW id \in Live(c), c.table[id] \in R PROVE id \in R
    <3>1. c.table[id] \notin theirs
      BY <1>5, ParentFacts
    <3> QED
      BY <1>6, <1>7, <2>2, <3>1
  <2>3. \A id \in R : Type(id) # "SWAPCHAIN"
    BY <1>3, <1>4, <1>5, <1>7
  <2>4. R \cap DOMAIN c.chain = {}
    BY <2>3 DEF ContextKnown, ChainsKnown, OfType
  <2>5. ASSUME NEW id \in R, Type(id) \in DeviceChildren PROVE c.table[id] \in ds
    <3>1. id \in OnDevices(c, ds)
      BY <1>4, <1>5, <1>7
    <3> QED
      BY <2>1, <2>5, <3>1, DeviceOfFacts DEF OnDevices
  <2>6. ASSUME NEW s \in DOMAIN c.chain PROVE c.chain[s] \cap R = {}
    <3>1. ASSUME NEW i \in c.chain[s] PROVE i \notin R
      <4>1. c.table[i] \notin ds /\ Type(i) \in DeviceChildren
        BY DEF ContextKnown, ChainsKnown, OfType, Idle, DeviceChildren
      <4> QED
        BY <2>5, <4>1
    <3> QED
      BY <3>1
  <2>7. R \cap c.mirrored = {}
    <3>1. ASSUME NEW m \in c.mirrored PROVE m \notin R
      <4>1. c.table[m] \notin ds /\ Type(m) \in DeviceChildren
        BY DEF ContextKnown, NativesKnown, OfType, Idle, DeviceChildren
      <4> QED
        BY <2>5, <4>1
    <3> QED
      BY <3>1
  <2> QED
    BY <2>1, <2>2, <2>4, <2>6, <2>7 DEF Closed
<1>9. PICK x : x = Swept(c, ds, type)
  OBVIOUS
<1>10. Without(c, x, R, {})
  <2>1. DOMAIN c = DOMAIN NewContext
    BY DEF ContextKnown
  <2>2. CASE type = "QUEUE"
    <3>1. theirs = {} /\ R = mine
      BY <1>2, <1>7, <2>2 DEF Pools
    <3>2. x = Forgotten(c, mine)
      BY <1>1, <1>9, <2>2, Zenon DEF Swept
    <3>3. Unlisted(c, x, mine)
      BY <2>1, <3>2, ForgottenUnlists
    <3>4. mine \cap DOMAIN c.native = {}
      BY <1>4, <2>2 DEF ContextKnown, NativesKnown, Borrowed
    <3> QED
      BY <3>1, <3>3, <3>4 DEF Unlisted, Without
  <2>3. CASE type # "QUEUE"
    <3>1. x = Destroyed(Forgotten(c, theirs), mine)
      BY <1>1, <1>2, <1>9, <2>3, Zenon DEF Swept
    <3>2. Unlisted(c, Forgotten(c, theirs), theirs)
      BY <2>1, ForgottenUnlists
    <3>3. \A id \in Live(c) : c.table[id] \in mine <=> id \in theirs
      BY <1>2, <1>6
    <3>4. theirs \subseteq Live(c)
      BY <1>2
    <3>5. \A id \in theirs : Type(c.table[id]) \in Pools /\ Type(id) \notin Borrowed
      BY <1>5 DEF Borrowed
    <3>6. Owned(c)
      BY KnownOwned
    <3>7. Without(c, Destroyed(Forgotten(c, theirs), mine), mine \cup theirs, {})
      BY <1>4, <3>2, <3>3, <3>4, <3>5, <3>6, DestroyedWithout
    <3> QED
      BY <1>7, <3>1, <3>7
  <2> QED
    BY <2>2, <2>3
<1>11. R \subseteq OnDevices(c, ds)
  BY <1>4, <1>5, <1>7
<1>12. \A id \in OnDevices(c, ds) : Type(id) = type => id \in R
  BY <1>4, <1>7
<1> QED
  BY <1>8, <1>9, <1>10, <1>11, <1>12

\* Every type of device's object that has a pass of its own, and the views
\* before the images.
LEMMA OrderFacts ==
  /\ Len(TeardownOrder) = 15
  /\ \A n \in 1 .. 15 :
       TeardownOrder[n] \in (DeviceChildren \cup {"IMAGE_VIEW"}) \ {"SWAPCHAIN"}
  /\ \A n \in 1 .. 15 : TeardownOrder[n] = "IMAGE" => n = 10
  /\ TeardownOrder[9] = "IMAGE_VIEW"
  /\ \A type \in (DeviceChildren \cup {"IMAGE_VIEW"}) \ {"SWAPCHAIN"} :
       \E n \in 1 .. 15 : TeardownOrder[n] = type
<1> DEFINE T == TeardownOrder
<1>1. /\ Len(T) = 15
      /\ T[1] = "PIPELINE" /\ T[2] = "PIPELINE_LAYOUT" /\ T[3] = "QUERY_POOL"
      /\ T[4] = "DESCRIPTOR_POOL" /\ T[5] = "SAMPLER" /\ T[6] = "UPDATE_TEMPLATE"
      /\ T[7] = "DESCRIPTOR_SET_LAYOUT" /\ T[8] = "COMMAND_POOL"
      /\ T[9] = "IMAGE_VIEW" /\ T[10] = "IMAGE" /\ T[11] = "BUFFER"
      /\ T[12] = "DEVICE_MEMORY" /\ T[13] = "FENCE" /\ T[14] = "SEMAPHORE"
      /\ T[15] = "QUEUE"
  BY DEF TeardownOrder
<1> HIDE DEF T
<1>2. ASSUME NEW n \in 1 .. 15
      PROVE  n \in {1, 2, 3, 4, 5, 6, 7, 8, 9, 10, 11, 12, 13, 14, 15}
  OBVIOUS
<1>3. \A n \in 1 .. 15 : T[n] \in (DeviceChildren \cup {"IMAGE_VIEW"}) \ {"SWAPCHAIN"}
  BY <1>1, <1>2 DEF DeviceChildren, Pools
<1>4. \A n \in 1 .. 15 : T[n] = "IMAGE" => n = 10
  BY <1>1, <1>2
<1>5. ASSUME NEW type \in (DeviceChildren \cup {"IMAGE_VIEW"}) \ {"SWAPCHAIN"}
      PROVE  \E n \in 1 .. 15 : T[n] = type
  <2>1. type \in {T[1], T[2], T[3], T[4], T[5], T[6], T[7], T[8], T[9], T[10],
                  T[11], T[12], T[13], T[14], T[15]}
    BY <1>1 DEF DeviceChildren, Pools
  <2> QED
    BY <2>1
<1> QED
  BY <1>1, <1>3, <1>4, <1>5 DEF T

\* f holds the contexts after the first m passes over the devices ds.
Passes(f, c, ds, order, m) ==
    f = [n \in 0 .. m |-> IF n = 0 THEN c ELSE Swept(f[n - 1], ds, order[n])]

\* There are such contexts, whatever a pass does.
LEMMA PassesExist ==
  ASSUME NEW c, NEW ds, NEW order, NEW m \in Nat
  PROVE  \E f : Passes(f, c, ds, order, m)
<1> DEFINE S == {i \in Nat : \E f : Passes(f, c, ds, order, i)}
<1>1. 0 \in S
  <2>1. PICK f : f = [n \in 0 .. 0 |-> c]
    OBVIOUS
  <2>2. f = [n \in 0 .. 0 |-> IF n = 0 THEN c ELSE Swept(f[n - 1], ds, order[n])]
    <3>1. \A n \in 0 .. 0 : n = 0
      OBVIOUS
    <3>2. [n \in 0 .. 0 |-> IF n = 0 THEN c ELSE Swept(f[n - 1], ds, order[n])]
            = [n \in 0 .. 0 |-> c]
      BY <3>1
    <3> QED
      BY <2>1, <3>2
  <2> QED
    BY <2>2 DEF Passes
<1>2. ASSUME NEW i \in S PROVE i + 1 \in S
  <2>1. PICK g : Passes(g, c, ds, order, i)
    OBVIOUS
  <2>2. i \in Nat
    OBVIOUS
  <2>3. PICK f : f = [n \in 0 .. i + 1 |->
                        IF n = 0 THEN c ELSE Swept(g[n - 1], ds, order[n])]
    OBVIOUS
  <2>4. \A n \in 0 .. i : g[n] = IF n = 0 THEN c ELSE Swept(g[n - 1], ds, order[n])
    BY <2>1 DEF Passes
  <2>5. \A n \in 0 .. i : f[n] = g[n]
    BY <2>2, <2>3, <2>4
  <2>6. \A n \in 0 .. i + 1 : n # 0 => f[n - 1] = g[n - 1]
    <3>1. \A n \in 0 .. i + 1 : n # 0 => n - 1 \in 0 .. i
      BY <2>2
    <3> QED
      BY <2>5, <3>1
  <2>7. ASSUME NEW n \in 0 .. i + 1
        PROVE  (IF n = 0 THEN c ELSE Swept(g[n - 1], ds, order[n]))
                 = (IF n = 0 THEN c ELSE Swept(f[n - 1], ds, order[n]))
    BY <2>6
  <2>8. f = [n \in 0 .. i + 1 |-> IF n = 0 THEN c ELSE Swept(f[n - 1], ds, order[n])]
    BY <2>3, <2>7, Zenon
  <2>9. i + 1 \in Nat
    BY <2>2
  <2> QED
    BY <2>8, <2>9 DEF Passes
<1>3. S \in SUBSET Nat
  OBVIOUS
<1> HIDE DEF S
<1>4. S = Nat
  BY <1>1, <1>2, <1>3, SetInduction
<1> QED
  BY <1>4 DEF S

\* What has happened after n passes: objects of the devices are gone, and among
\* them all those of the types that had their turn.
Progress(c, ds, x, n) ==
    /\ ContextKnown(x) /\ Idle(x, ds)
    /\ \E R : Without(c, x, R, {}) /\ R \subseteq OnDevices(c, ds)
    /\ \A id \in OnDevices(x, ds) : \A k \in 1 .. n : Type(id) # TeardownOrder[k]

\* A pass makes progress.
LEMMA PassProgress ==
  ASSUME NEW c, ContextKnown(c), NEW ds, NEW n \in 0 .. 14, NEW x, Progress(c, ds, x, n)
  PROVE  Progress(c, ds, Swept(x, ds, TeardownOrder[n + 1]), n + 1)
<1>1. PICK type : type = TeardownOrder[n + 1]
  OBVIOUS
<1>2. PICK y : y = Swept(x, ds, type)
  OBVIOUS
<1>3. type \in (DeviceChildren \cup {"IMAGE_VIEW"}) \ {"SWAPCHAIN"}
  BY <1>1, OrderFacts
<1>4. ContextKnown(x) /\ Idle(x, ds)
  BY DEF Progress
<1>5. ASSUME type = "IMAGE" PROVE \A id \in OnDevices(x, ds) : Type(id) # "IMAGE_VIEW"
  <2>0. n + 1 \in 1 .. 15
    OBVIOUS
  <2>1. n + 1 = 10
    BY <1>1, <1>5, <2>0, OrderFacts, Zenon
  <2>2. 9 \in 1 .. n
    BY <2>1
  <2> QED
    BY <2>2, OrderFacts DEF Progress
<1>6. PICK S : /\ Without(x, y, S, {}) /\ Closed(x, S, {})
               /\ S \subseteq OnDevices(x, ds)
               /\ \A id \in OnDevices(x, ds) : Type(id) = type => id \in S
  BY <1>2, <1>3, <1>4, <1>5, SweptFacts
<1>7. ContextKnown(y)
  BY <1>4, <1>6, WithoutKnown
<1>8. OnDevices(y, ds) = OnDevices(x, ds) \ S
  BY <1>4, <1>6, <1>7, OnDevicesWithout
<1>9. PICK R : Without(c, x, R, {}) /\ R \subseteq OnDevices(c, ds)
  BY DEF Progress
<1>10. OnDevices(x, ds) = OnDevices(c, ds) \ R
  BY <1>4, <1>9, OnDevicesWithout
<1>11. Without(c, y, R \cup S, {}) /\ R \cup S \subseteq OnDevices(c, ds)
  <2>1. Without(c, y, R \cup S, {} \cup {})
    BY <1>6, <1>9, WithoutBoth
  <2>2. {} \cup {} = {}
    OBVIOUS
  <2> QED
    BY <1>6, <1>9, <1>10, <2>1, <2>2
<1>12. \A id \in OnDevices(y, ds) : \A k \in 1 .. n + 1 : Type(id) # TeardownOrder[k]
  <2>1. \A k \in 1 .. n + 1 : k \in 1 .. n \/ k = n + 1
    OBVIOUS
  <2>2. \A id \in OnDevices(x, ds) : \A k \in 1 .. n : Type(id) # TeardownOrder[k]
    BY DEF Progress
  <2> QED
    BY <1>1, <1>6, <1>8, <2>1, <2>2
<1>13. Idle(y, ds)
  <2>1. \A id \in S : Type(id) # "DEVICE"
    BY <1>6 DEF OnDevices, DeviceChildren, Grandchildren, Pools
  <2>2. ds \subseteq OfType(y, "DEVICE")
    BY <1>4, <1>6, <2>1 DEF Idle, Without, OfType
  <2>3. \A s \in DOMAIN y.chain : s \in Live(y) /\ s \in DOMAIN x.chain
                                  /\ y.table[s] = x.table[s]
    BY <1>6, <1>7 DEF Without, ContextKnown, ChainsKnown, OfType
  <2>4. \A m \in y.mirrored : m \in Live(y) /\ m \in x.mirrored
                              /\ y.table[m] = x.table[m]
    BY <1>6, <1>7 DEF Without, ContextKnown, NativesKnown, OfType
  <2> QED
    BY <1>4, <2>2, <2>3, <2>4 DEF Idle
<1>14. Progress(c, ds, y, n + 1)
  BY <1>7, <1>11, <1>12, <1>13 DEF Progress
<1> QED
  BY <1>1, <1>2, <1>14

\* Every pass has been made: nothing is left on the devices.
LEMMA AllPasses ==
  ASSUME NEW c, ContextKnown(c), NEW ds, Idle(c, ds), NEW f,
         Passes(f, c, ds, TeardownOrder, 15)
  PROVE  Progress(c, ds, f[15], 15)
<1> DEFINE S == {n \in Nat : n <= 15 => Progress(c, ds, f[n], n)}
<1>1. \A n \in 0 .. 15 : f[n] = IF n = 0 THEN c ELSE Swept(f[n - 1], ds, TeardownOrder[n])
  BY DEF Passes
<1>2. 0 \in S
  <2>1. f[0] = c
    BY <1>1
  <2>2. Without(c, c, {}, {})
    BY SameWithout DEF ContextKnown
  <2>3. Progress(c, ds, c, 0)
    BY <2>2 DEF Progress
  <2> QED
    BY <2>1, <2>3
<1>3. ASSUME NEW n \in S PROVE n + 1 \in S
  <2>1. n \in Nat /\ n + 1 \in Nat
    OBVIOUS
  <2>2. ASSUME n + 1 <= 15 PROVE Progress(c, ds, f[n + 1], n + 1)
    <3>1. n \in 0 .. 14 /\ n + 1 \in 0 .. 15 /\ n + 1 # 0 /\ (n + 1) - 1 = n /\ n <= 15
      BY <2>1, <2>2
    <3>2. Progress(c, ds, f[n], n)
      BY <3>1
    <3>3. f[n + 1] = Swept(f[n], ds, TeardownOrder[n + 1])
      BY <1>1, <3>1
    <3> QED
      BY <3>1, <3>2, <3>3, PassProgress
  <2> QED
    BY <2>1, <2>2
<1>4. S \in SUBSET Nat
  OBVIOUS
<1> HIDE DEF S
<1>5. S = Nat
  BY <1>2, <1>3, <1>4, SetInduction
<1>6. 15 \in S
  BY <1>5
<1> QED
  BY <1>6 DEF S

\* The swapchains of the devices ds.
ChainsOn(c, ds) == {s \in DOMAIN c.chain : c.table[s] \in ds}

\* A teardown is the passes after the swapchains, and then the devices.
LEMMA TornDownPasses ==
  ASSUME NEW c, NEW ds
  PROVE  \E f : /\ Passes(f, destroy_swapchain_metadata(c, ChainsOn(c, ds)), ds,
                          TeardownOrder, 15)
                /\ device_teardown(c, ds) = Destroyed(f[15], ds)
<1> DEFINE IsF(g) == g = [n \in 0 .. Len(TeardownOrder) |->
                            IF n = 0 THEN destroy_swapchain_metadata(c,
                                            {s \in DOMAIN c.chain : c.table[s] \in ds})
                            ELSE Swept(g[n - 1], ds, TeardownOrder[n])]
<1>1. PICK f : f = CHOOSE g : IsF(g)
  OBVIOUS
<1>2. device_teardown(c, ds) = Destroyed(f[Len(TeardownOrder)], ds)
  BY <1>1, Zenon DEF device_teardown, TornDown
<1>3. Len(TeardownOrder) = 15 /\ 15 \in Nat
  BY OrderFacts
<1>4. \E g : Passes(g, destroy_swapchain_metadata(c, ChainsOn(c, ds)), ds, TeardownOrder, 15)
  BY <1>3, PassesExist
<1>5. ASSUME NEW g
      PROVE  IsF(g) <=> Passes(g, destroy_swapchain_metadata(c, ChainsOn(c, ds)), ds,
                               TeardownOrder, 15)
  BY <1>3, Zenon DEF Passes, ChainsOn
<1> HIDE DEF IsF
<1>6. IsF(f)
  BY <1>1, <1>4, <1>5, Zenon
<1> QED
  BY <1>2, <1>3, <1>5, <1>6

\* After the passes nothing is left on the devices.
LEMMA NothingLeft ==
  ASSUME NEW c, NEW ds, NEW y, Progress(c, ds, y, 15)
  PROVE  OnDevices(y, ds) = {}
<1>1. ContextKnown(y) /\ Idle(y, ds)
  BY DEF Progress
<1>2. ASSUME NEW id \in OnDevices(y, ds)
      PROVE  Type(id) \notin DeviceChildren \cup {"IMAGE_VIEW"}
  <2>1. id \in Live(y) /\ DeviceOf(y, id) \in ds
    BY DEF OnDevices
  <2>2. Type(id) # "SWAPCHAIN"
    <3>1. SUFFICES ASSUME Type(id) = "SWAPCHAIN" PROVE FALSE
      OBVIOUS
    <3>2. y.table[id] \in ds
      BY <1>1, <2>1, <3>1, DeviceOfFacts DEF DeviceChildren
    <3> QED
      BY <1>1, <2>1, <3>1, <3>2 DEF Idle, ContextKnown, ChainsKnown, OfType
  <2>3. ASSUME Type(id) \in DeviceChildren \cup {"IMAGE_VIEW"} PROVE FALSE
    <3>1. PICK k \in 1 .. 15 : TeardownOrder[k] = Type(id)
      BY <2>2, <2>3, OrderFacts
    <3> QED
      BY <3>1 DEF Progress
  <2> QED
    BY <2>3
<1>3. ASSUME NEW id \in OnDevices(y, ds) PROVE FALSE
  <2>1. id \in Live(y) /\ DeviceOf(y, id) \in ds /\ Type(id) \in Grandchildren
    BY <1>2 DEF OnDevices
  <2>2. y.table[id] \in Live(y) /\ Type(y.table[id]) \in DeviceChildren
        /\ DeviceOf(y, id) = y.table[y.table[id]]
    BY <1>1, <2>1, DeviceOfFacts
  <2>3. DeviceOf(y, y.table[id]) = y.table[y.table[id]]
    BY <1>1, <2>2, DeviceOfFacts
  <2>4. y.table[id] \in OnDevices(y, ds)
    BY <2>1, <2>2, <2>3 DEF OnDevices
  <2> QED
    BY <1>2, <2>2, <2>4
<1> QED
  BY <1>3

\* A live object whose parent is a device is on it.
LEMMA ChildOnDevice ==
  ASSUME NEW c, ContextKnown(c), NEW ds, ds \subseteq OfType(c, "DEVICE"),
         NEW id \in Live(c), c.table[id] \in ds
  PROVE  id \in OnDevices(c, ds) /\ Type(id) \in DeviceChildren
<1>1. Type(c.table[id]) = "DEVICE"
  BY DEF OfType
<1>2. Type(id) # "INSTANCE" /\ Type(id) \in ObjectTypes
  BY <1>1, ParentFacts, NoObjectType
<1>3. ParentType(Type(id)) = "DEVICE"
  BY <1>1, <1>2, ParentFacts
<1>4. Type(id) \in DeviceChildren
  BY <1>2, <1>3 DEF ParentType, ObjectTypes
<1> QED
  BY <1>4, DeviceOfFacts DEF OnDevices

\* Devices with everything on them can be taken out of a context.
LEMMA DevicesClosed ==
  ASSUME NEW c, ContextKnown(c), NEW ds, ds \subseteq OfType(c, "DEVICE"),
         \A m \in c.mirrored : c.table[m] \notin ds
  PROVE  Closed(c, OnDevices(c, ds) \cup ds, ChainsOn(c, ds))
<1>1. PICK R : R = OnDevices(c, ds) \cup ds
  OBVIOUS
<1>2. R \subseteq Live(c)
  BY <1>1 DEF OnDevices, OfType
<1>3. ASSUME NEW id \in Live(c), c.table[id] \in R PROVE id \in R
  <2>1. CASE c.table[id] \in ds
    BY <1>1, <2>1, ChildOnDevice
  <2>2. CASE c.table[id] \in OnDevices(c, ds)
    <3>1. c.table[id] \in Live(c) /\ DeviceOf(c, c.table[id]) \in ds
          /\ Type(c.table[id]) \in DeviceChildren \cup Grandchildren
      BY <2>2 DEF OnDevices
    <3>2. Type(c.table[id]) \in Pools \cup {"IMAGE"}
      BY <3>1, ParentFacts DEF Pools, DeviceChildren, Grandchildren
    <3>3. Type(id) # "INSTANCE"
      BY <3>2, ParentFacts, NoObjectType DEF Pools
    <3>4. ParentType(Type(id)) \in Pools \cup {"IMAGE"}
      BY <3>2, <3>3, ParentFacts
    <3>5. Type(id) \in Grandchildren
      BY <3>4 DEF ParentType, Grandchildren, Pools
    <3>6. DeviceOf(c, id) = c.table[c.table[id]] /\ Type(c.table[id]) \in DeviceChildren
      BY <3>5, DeviceOfFacts
    <3>7. DeviceOf(c, c.table[id]) = c.table[c.table[id]]
      BY <3>1, <3>6, DeviceOfFacts
    <3> QED
      BY <1>1, <3>1, <3>5, <3>6, <3>7 DEF OnDevices
  <2> QED
    BY <1>1, <1>3, <2>1, <2>2
<1>4. ASSUME NEW id \in Live(c), Type(id) \in DeviceChildren
      PROVE  id \in R <=> c.table[id] \in ds
  <2>1. id \notin ds
    BY <1>4 DEF OfType, DeviceChildren, Pools
  <2> QED
    BY <1>1, <1>4, <2>1, DeviceOfFacts DEF OnDevices
<1>5. \A s \in DOMAIN c.chain : s \in Live(c) /\ Type(s) \in DeviceChildren
  BY DEF ContextKnown, ChainsKnown, OfType, DeviceChildren
<1>6. ChainsOn(c, ds) = R \cap DOMAIN c.chain
  BY <1>4, <1>5 DEF ChainsOn
<1>7. ASSUME NEW s \in DOMAIN c.chain, s \notin R PROVE c.chain[s] \cap R = {}
  <2>1. ASSUME NEW i \in c.chain[s] PROVE i \notin R
    <3>1. i \in Live(c) /\ Type(i) \in DeviceChildren /\ c.table[i] = c.table[s]
      BY DEF ContextKnown, ChainsKnown, OfType, DeviceChildren
    <3> QED
      BY <1>4, <1>5, <1>7, <3>1
  <2> QED
    BY <2>1
<1>8. R \cap c.mirrored = {}
  <2>1. \A m \in c.mirrored : m \in Live(c) /\ Type(m) \in DeviceChildren
    BY DEF ContextKnown, NativesKnown, OfType, DeviceChildren
  <2> QED
    BY <1>4, <2>1
<1> QED
  BY <1>1, <1>2, <1>3, <1>6, <1>7, <1>8 DEF Closed

\* The teardown of devices whose memory is unmapped and whose swapchain images
\* have no views takes everything on them, in an order no native object resents.
LEMMA TeardownFacts ==
  ASSUME NEW c, ContextKnown(c), NEW ds, ds \subseteq OfType(c, "DEVICE"),
         \A m \in c.mirrored : c.table[m] \notin ds,
         \A id \in Live(c) : c.table[id] \notin ImagesOf(c, ChainsOn(c, ds))
  PROVE  LET x == device_teardown(c, ds) IN
         /\ Without(c, x, OnDevices(c, ds) \cup ds, ChainsOn(c, ds))
         /\ ContextKnown(x)
<1>1. PICK ss : ss = ChainsOn(c, ds)
  OBVIOUS
<1>2. PICK b : b = destroy_swapchain_metadata(c, ss)
  OBVIOUS
<1>3. PICK Z : Z = ss \cup ImagesOf(c, ss)
  OBVIOUS
<1>4. ss \subseteq DOMAIN c.chain
  BY <1>1 DEF ChainsOn
<1>5. Without(c, b, Z, ss) /\ Closed(c, Z, ss) /\ ContextKnown(b)
  BY <1>1, <1>2, <1>3, <1>4, ChainsGone
<1>6. ASSUME NEW z \in Z
      PROVE  z \in OnDevices(c, ds)
  <2>1. z \in Live(c) /\ c.table[z] \in ds
    BY <1>1, <1>3 DEF ChainsOn, ImagesOf, ContextKnown, ChainsKnown, OfType
  <2> QED
    BY <2>1, ChildOnDevice
<1>7. Idle(b, ds)
  <2>1. ds \subseteq OfType(b, "DEVICE")
    BY <1>5, <1>6 DEF Without, OfType, OnDevices, DeviceChildren, Grandchildren, Pools
  <2>2. ASSUME NEW s \in DOMAIN b.chain PROVE b.table[s] \notin ds
    <3>1. s \in Live(b) /\ b.table[s] = c.table[s] /\ s \in DOMAIN c.chain /\ s \notin ss
      BY <1>5 DEF Without, ContextKnown, ChainsKnown, OfType
    <3> QED
      BY <1>1, <3>1 DEF ChainsOn
  <2>3. ASSUME NEW m \in b.mirrored PROVE b.table[m] \notin ds
    <3>1. m \in Live(b) /\ b.table[m] = c.table[m] /\ m \in c.mirrored
      BY <1>5 DEF Without, ContextKnown, NativesKnown, OfType
    <3> QED
      BY <3>1
  <2> QED
    BY <2>1, <2>2, <2>3 DEF Idle
<1>8. PICK f : Passes(f, b, ds, TeardownOrder, 15)
               /\ device_teardown(c, ds) = Destroyed(f[15], ds)
  BY <1>1, <1>2, TornDownPasses
<1>9. PICK y : y = f[15]
  OBVIOUS
<1>10. Progress(b, ds, y, 15)
  BY <1>5, <1>7, <1>8, <1>9, AllPasses
<1>11. OnDevices(y, ds) = {}
  BY <1>10, NothingLeft
<1>12. ContextKnown(y) /\ ds \subseteq OfType(y, "DEVICE")
  BY <1>10 DEF Progress, Idle
<1>13. PICK R : Without(b, y, R, {}) /\ R \subseteq OnDevices(b, ds)
  BY <1>10 DEF Progress
<1>14. OnDevices(y, ds) = OnDevices(b, ds) \ R
  BY <1>5, <1>12, <1>13, OnDevicesWithout
<1>15. OnDevices(b, ds) = OnDevices(c, ds) \ Z
  BY <1>5, OnDevicesWithout
<1>16. PICK x : x = Destroyed(y, ds)
  OBVIOUS
<1>17. Without(y, x, ds \cup {}, {})
  <2>1. ds \subseteq Live(y)
    BY <1>12 DEF OfType
  <2>3. \A id \in Live(y) : y.table[id] \notin ds
    BY <1>11, <1>12, ChildOnDevice
  <2>4. Owned(y) /\ Unlisted(y, y, {})
    BY <1>12, KnownOwned, SameUnlists DEF ContextKnown
  <2>5. \A id \in Live(y) : y.table[id] \in ds <=> id \in {}
    BY <2>3
  <2> QED
    BY <1>16, <2>1, <2>4, <2>5, DestroyedWithout
<1>18. Without(c, x, (Z \cup R) \cup (ds \cup {}), (ss \cup {}) \cup {})
  BY <1>5, <1>13, <1>17, WithoutBoth
<1>19. (Z \cup R) \cup (ds \cup {}) = OnDevices(c, ds) \cup ds /\ (ss \cup {}) \cup {} = ss
  BY <1>6, <1>11, <1>13, <1>14, <1>15
<1>20. Without(c, x, OnDevices(c, ds) \cup ds, ss)
  BY <1>18, <1>19
<1>21. Closed(c, OnDevices(c, ds) \cup ds, ss)
  BY <1>1, DevicesClosed
<1>22. ContextKnown(x)
  BY <1>20, <1>21, WithoutKnown
<1> QED
  BY <1>1, <1>8, <1>9, <1>16, <1>20, <1>22

(***************************************************************************)
(* Contexts that gain objects.                                             *)
(***************************************************************************)

\* A pair is its parts.
LEMMA PairFacts ==
  ASSUME NEW type, NEW n
  PROVE  Type(<<type, n>>) = type /\ <<type, n>>[2] = n
BY DEF Type

\* The ids in use are those of live and of lost objects.
LEMMA TakenFacts ==
  ASSUME NEW c, ContextKnown(c)
  PROVE  /\ Taken(c) \subseteq Live(c) \cup c.lost \cup {NoObject}
         /\ Live(c) \cup c.lost \subseteq Taken(c)
         /\ \A s \in DOMAIN c.chain : c.chain[s] \subseteq Taken(c)
<1>1. DOMAIN c.native \subseteq Live(c)
  BY DEF ContextKnown, NativesKnown
<1>2. Range(c.table) \subseteq Live(c) \cup {NoObject}
  BY DEF ContextKnown, TableKnown, Range, Live
<1>3. UNION Range(c.chain) \subseteq Live(c)
  BY DEF ContextKnown, ChainsKnown, Range, OfType
<1>4. \A s \in DOMAIN c.chain : c.chain[s] \subseteq UNION Range(c.chain)
  BY DEF Range
<1> QED
  BY <1>1, <1>2, <1>3, <1>4 DEF Taken

\* There are more serials of a type than live and lost objects.
LEMMA UnusedCount ==
  ASSUME NEW c, ContextKnown(c), NEW type, type # "NONE"
  PROVE  /\ LastSerial(c) \in Nat
         /\ IsFiniteSet(Unused(c, type, LastSerial(c)))
         /\ Cardinality(Unused(c, type, LastSerial(c))) \in Nat
         /\ Cardinality(Unused(c, type, LastSerial(c))) + Cardinality(Live(c))
              >= Capacity + 1
<1>1. PICK last : last = LastSerial(c)
  OBVIOUS
<1>2. PICK U : U = Unused(c, type, last)
  OBVIOUS
<1>3. PICK used : used = {n \in 1 .. last : <<type, n>> \in Taken(c)}
  OBVIOUS
<1>4. IsFiniteSet(Live(c)) /\ IsFiniteSet(c.lost)
  BY DEF ContextKnown, TableKnown
<1>5. Cardinality(Live(c)) \in Nat /\ Cardinality(c.lost) \in Nat
  BY <1>4, FS_CardinalityType
<1>6. last \in Nat /\ last = Capacity + Cardinality(c.lost) + 1
  BY <1>1, <1>5, ServiceObjectsAssumption DEF LastSerial
<1>7. PICK there : there = Live(c) \cup c.lost
  OBVIOUS
<1>8. IsFiniteSet(there)
      /\ Cardinality(there) <= Cardinality(Live(c)) + Cardinality(c.lost)
      /\ Cardinality(there) \in Nat
  <2>1. IsFiniteSet(there)
        /\ Cardinality(there) = Cardinality(Live(c)) + Cardinality(c.lost)
                                  - Cardinality(Live(c) \cap c.lost)
    BY <1>4, <1>7, FS_Union
  <2>2. Cardinality(Live(c) \cap c.lost) \in Nat
    BY <1>4, FS_Intersection, FS_CardinalityType
  <2> QED
    BY <1>5, <2>1, <2>2, FS_CardinalityType
<1>9. PICK f : f = [n \in used |-> <<type, n>>]
  OBVIOUS
<1>10. f \in Injection(used, there)
  <2>1. ASSUME NEW n \in used PROVE f[n] \in there
    <3>1. f[n] = <<type, n>> /\ <<type, n>> \in Taken(c)
      BY <1>3, <1>9
    <3>2. Type(<<type, n>>) = type
      BY PairFacts
    <3>3. <<type, n>> # NoObject
      BY <3>2, NoObjectType
    <3> QED
      BY <1>7, <3>1, <3>3, TakenFacts
  <2>2. f \in [used -> there]
    BY <1>9, <2>1
  <2>3. ASSUME NEW m \in used, NEW n \in used, f[m] = f[n] PROVE m = n
    <3>1. <<type, m>> = <<type, n>>
      BY <1>9, <2>3
    <3>2. <<type, m>>[2] = m /\ <<type, n>>[2] = n
      BY PairFacts
    <3> QED
      BY <3>1, <3>2
  <2> QED
    BY <2>2, <2>3 DEF Injection, IsInjective
<1>11. IsFiniteSet(used) /\ Cardinality(used) <= Cardinality(there)
  BY <1>8, <1>10, FS_Injection
<1>12. IsFiniteSet(1 .. last) /\ Cardinality(1 .. last) = last
  <2>1. IsFiniteSet(1 .. last) /\ Cardinality(1 .. last) = IF 1 > last THEN 0 ELSE last - 1 + 1
    BY <1>6, FS_Interval
  <2> QED
    BY <1>5, <1>6, <2>1, ServiceObjectsAssumption
<1>13. U = (1 .. last) \ used /\ (1 .. last) \cap used = used
  BY <1>2, <1>3 DEF Unused
<1>14. IsFiniteSet(U) /\ Cardinality(U) = last - Cardinality(used)
  <2>1. PICK I : I = 1 .. last
    OBVIOUS
  <2>2. IsFiniteSet(I) /\ Cardinality(I) = last /\ U = I \ used /\ I \cap used = used
    BY <1>12, <1>13, <2>1, Zenon
  <2>3. IsFiniteSet(I \ used) /\ Cardinality(I \ used) = Cardinality(I) - Cardinality(I \cap used)
    BY <2>2, FS_Difference, Zenon
  <2> QED
    BY <2>2, <2>3
<1>15. Cardinality(used) \in Nat /\ Cardinality(U) \in Nat
  BY <1>11, <1>14, FS_CardinalityType
<1>16. Cardinality(U) + Cardinality(Live(c)) >= Capacity + 1
  BY <1>5, <1>6, <1>8, <1>11, <1>14, <1>15, ServiceObjectsAssumption
<1> QED
  BY <1>1, <1>2, <1>6, <1>14, <1>15, <1>16

\* A fresh id is new and has its type.
LEMMA FreshFacts ==
  ASSUME NEW c, ContextKnown(c), NEW type, type # "NONE"
  PROVE  Fresh(c, type) \notin Taken(c) /\ Type(Fresh(c, type)) = type
<1>1. PICK U : U = Unused(c, type, LastSerial(c))
  OBVIOUS
<1>2. Cardinality(Live(c)) \in Nat /\ Cardinality(Live(c)) <= Capacity
  <2>1. IsFiniteSet(Live(c)) /\ Cardinality(Live(c)) <= Capacity
    BY DEF ContextKnown, TableKnown
  <2> QED
    BY <2>1, FS_CardinalityType
<1>3. Cardinality(U) \in Nat /\ Cardinality(U) + Cardinality(Live(c)) >= Capacity + 1
      /\ LastSerial(c) \in Nat
  BY <1>1, UnusedCount
<1>4. U # {}
  <2>1. Cardinality(U) # 0
    BY <1>2, <1>3, ServiceObjectsAssumption
  <2> QED
    BY <2>1, FS_EmptySet
<1>5. U \in SUBSET Nat
  BY <1>1, <1>3 DEF Unused
<1>6. PICK x \in U : \A y \in U : x <= y
  BY <1>4, <1>5, LeastMember
<1>7. Min(U) \in U
  BY <1>6 DEF Min
<1>8. <<type, Min(U)>> \notin Taken(c)
  BY <1>1, <1>7 DEF Unused
<1> QED
  BY <1>1, <1>8, PairFacts DEF Fresh

\* The fresh ids are new, have their type and are as many as asked for.
LEMMA FreshIdsFacts ==
  ASSUME NEW c, ContextKnown(c), NEW type, type # "NONE", NEW k \in Nat \ {0},
         Cardinality(Live(c)) + k <= Capacity
  PROVE  LET ids == FreshIds(c, type, k) IN
         /\ ids \cap Taken(c) = {}
         /\ \A id \in ids : Type(id) = type
         /\ IsFiniteSet(ids) /\ Cardinality(ids) <= k
<1>1. PICK last : last = LastSerial(c)
  OBVIOUS
<1>2. last \in Nat /\ Cardinality(Unused(c, type, last)) \in Nat
      /\ Cardinality(Unused(c, type, last)) + Cardinality(Live(c)) >= Capacity + 1
  BY <1>1, UnusedCount
<1>3. Cardinality(Live(c)) \in Nat
  BY FS_CardinalityType DEF ContextKnown, TableKnown
<1>4. Cardinality(Unused(c, type, last)) >= k
  BY <1>2, <1>3, ServiceObjectsAssumption
<1>5. ASSUME NEW n \in Nat
      PROVE  IsFiniteSet(Unused(c, type, n)) /\ Cardinality(Unused(c, type, n)) \in Nat
  <2>1. IsFiniteSet(1 .. n)
    BY FS_Interval
  <2>2. PICK I : I = 1 .. n
    OBVIOUS
  <2>3. Unused(c, type, n) \in SUBSET I
    BY <2>2 DEF Unused
  <2>4. IsFiniteSet(I)
    BY <2>1, <2>2
  <2> QED
    BY <2>3, <2>4, FS_Subset, FS_CardinalityType
<1> DEFINE S == {n \in Nat : Cardinality(Unused(c, type, n)) >= k}
<1>6. PICK b \in S : \A n \in S : b <= n
  <2>1. last \in S /\ S \in SUBSET Nat
    BY <1>2, <1>4
  <2>2. S # {}
    BY <2>1
  <2> HIDE DEF S
  <2> QED
    BY <2>1, <2>2, LeastMember
<1>7. b \in Nat /\ Cardinality(Unused(c, type, b)) >= k /\ b <= last
  BY <1>2, <1>4, <1>6
<1>8. b # 0
  <2>1. Unused(c, type, 0) = {}
    BY DEF Unused
  <2>2. Cardinality(Unused(c, type, 0)) = 0
    BY <2>1, FS_EmptySet
  <2> QED
    BY <1>7, <2>2
<1>9. b - 1 \in Nat /\ ~(b <= b - 1)
  BY <1>7, <1>8
<1>10. PICK a : a = b - 1
  OBVIOUS
<1>11. a \in Nat /\ ~(Cardinality(Unused(c, type, a)) >= k)
  BY <1>6, <1>9, <1>10
<1>12. Unused(c, type, b) \subseteq Unused(c, type, a) \cup {b}
  BY <1>7, <1>8, <1>10 DEF Unused
<1>13. Cardinality(Unused(c, type, b)) <= Cardinality(Unused(c, type, a)) + 1
  <2>1. PICK A : A = Unused(c, type, a)
    OBVIOUS
  <2>2. IsFiniteSet(A) /\ Cardinality(A) \in Nat
    BY <1>5, <1>11, <2>1
  <2>3. IsFiniteSet(A \cup {b}) /\ Cardinality(A \cup {b}) \in Nat
        /\ Cardinality(A \cup {b}) = IF b \in A THEN Cardinality(A) ELSE Cardinality(A) + 1
    BY <2>2, FS_AddElement, FS_CardinalityType
  <2>4. Cardinality(Unused(c, type, b)) <= Cardinality(A \cup {b})
    BY <1>12, <2>1, <2>3, FS_Subset
  <2>5. Cardinality(Unused(c, type, b)) \in Nat
    BY <1>5, <1>7
  <2> QED
    BY <2>1, <2>2, <2>3, <2>4, <2>5
<1>14. Cardinality(Unused(c, type, b)) = k
  <2>1. Cardinality(Unused(c, type, b)) \in Nat /\ Cardinality(Unused(c, type, a)) \in Nat
    BY <1>5, <1>7, <1>11
  <2> QED
    BY <1>7, <1>11, <1>13, <2>1
<1>15. b \in 1 .. last
  BY <1>2, <1>7, <1>8
<1>16. PICK e : e = CHOOSE n \in 1 .. last : Cardinality(Unused(c, type, n)) = k
  OBVIOUS
<1>17. e \in 1 .. last /\ Cardinality(Unused(c, type, e)) = k
  BY <1>14, <1>15, <1>16, Zenon
<1>18. PICK V : V = Unused(c, type, e)
  OBVIOUS
<1>19. PICK ids : ids = FreshIds(c, type, k)
  OBVIOUS
<1>20. ids = {<<type, n>> : n \in V}
  BY <1>1, <1>16, <1>18, <1>19, Zenon DEF FreshIds
<1>21. e \in Nat /\ IsFiniteSet(V) /\ Cardinality(V) = k
  BY <1>2, <1>5, <1>17, <1>18
<1>22. ids \cap Taken(c) = {}
  BY <1>18, <1>20 DEF Unused
<1>23. \A id \in ids : Type(id) = type
  BY <1>20, PairFacts
<1>24. IsFiniteSet(ids) /\ Cardinality(ids) <= k
  <2>1. PICK f : f = [n \in V |-> <<type, n>>]
    OBVIOUS
  <2>2. f \in Surjection(V, ids)
    BY <1>20, <2>1 DEF Surjection
  <2> QED
    BY <1>21, <2>2, FS_Surjection
<1> QED
  BY <1>19, <1>22, <1>23, <1>24

\* x is c with the objects ids of the parent p, apart from the swapchains.
Grown(c, x, ids, p) ==
    /\ DOMAIN x = DOMAIN NewContext
    /\ Live(x) = Live(c) \cup ids
    /\ \A id \in Live(c) : x.table[id] = c.table[id]
    /\ \A id \in ids : x.table[id] = p
    /\ DOMAIN x.native = DOMAIN c.native \cup {id \in ids : Type(id) \notin Borrowed}
    /\ \A id \in DOMAIN x.native : x.native[id] = x.table[id]
    /\ x.meta = c.meta \cup {id \in ids : Type(id) \in Described}
    /\ x.bound = c.bound /\ x.mirrored = c.mirrored /\ x.early = c.early
    /\ x.lost = c.lost /\ x.negotiated = c.negotiated /\ x.present = c.present

\* Made adds new ids, and no swapchain records.
LEMMA MadeGrows ==
  ASSUME NEW c, ContextKnown(c), NEW ids, ids \cap Taken(c) = {}, NEW p
  PROVE  Grown(c, Made(c, ids, p), ids, p) /\ Made(c, ids, p).chain = c.chain
<1>1. PICK x : x = Made(c, ids, p)
  OBVIOUS
<1>2. DOMAIN c = DOMAIN NewContext
  BY DEF ContextKnown
<1>3. PICK own : own = {id \in ids : Type(id) \notin Borrowed}
  OBVIOUS
<1>4. /\ DOMAIN x = DOMAIN NewContext
      /\ x.table = Extended(c.table, ids, p)
      /\ x.native = Extended(c.native, own, p)
      /\ x.meta = c.meta \cup {id \in ids : Type(id) \in Described}
      /\ x.bound = c.bound /\ x.mirrored = c.mirrored /\ x.early = c.early
      /\ x.lost = c.lost /\ x.negotiated = c.negotiated /\ x.present = c.present
      /\ x.chain = c.chain
  BY <1>1, <1>2, <1>3, ContextFields DEF Made
<1>5. ids \cap Live(c) = {} /\ own \subseteq ids
  BY <1>3, TakenFacts
<1>6. DOMAIN c.native \subseteq Live(c) /\ \A id \in DOMAIN c.native : c.native[id] = c.table[id]
  BY DEF ContextKnown, NativesKnown
<1>7. Live(x) = Live(c) \cup ids
      /\ (\A id \in Live(c) : x.table[id] = c.table[id])
      /\ (\A id \in ids : x.table[id] = p)
  BY <1>4, <1>5 DEF Extended, Live
<1>8. DOMAIN x.native = DOMAIN c.native \cup own
      /\ (\A id \in DOMAIN c.native : x.native[id] = c.native[id])
      /\ (\A id \in own : x.native[id] = p)
  BY <1>4, <1>5, <1>6 DEF Extended
<1>9. \A id \in DOMAIN x.native : x.native[id] = x.table[id]
  BY <1>5, <1>6, <1>7, <1>8
<1> QED
  BY <1>1, <1>3, <1>4, <1>7, <1>8, <1>9 DEF Grown

\* An object of this type may have this parent.
Fits(c, type, p) ==
    /\ type \in ObjectTypes
    /\ IF type = "INSTANCE" THEN p = NoObject
       ELSE p \in Live(c) /\ Type(p) = ParentType(type)

\* The table and the natives of a context that has grown.
LEMMA GrownKnown ==
  ASSUME NEW c, ContextKnown(c), c.present, NEW ids, ids \cap Taken(c) = {},
         IsFiniteSet(ids), Cardinality(Live(c)) + Cardinality(ids) <= Capacity,
         NEW p, \A id \in ids : Fits(c, Type(id), p),
         NEW x, Grown(c, x, ids, p)
  PROVE  TableKnown(x) /\ NativesKnown(x)
<1>1. ids \cap Live(c) = {} /\ ids \cap c.lost = {}
  BY TakenFacts
<1>2. IsFiniteSet(Live(x)) /\ Cardinality(Live(x)) <= Capacity
  <2>1. IsFiniteSet(Live(c)) /\ Live(x) = Live(c) \cup ids
    BY DEF ContextKnown, TableKnown, Grown
  <2>2. IsFiniteSet(Live(x))
        /\ Cardinality(Live(x)) = Cardinality(Live(c)) + Cardinality(ids)
                                    - Cardinality(Live(c) \cap ids)
    BY <2>1, FS_Union
  <2>3. Live(c) \cap ids = {}
    BY <1>1
  <2>4. Cardinality(Live(c) \cap ids) = 0
    BY <2>3, FS_EmptySet
  <2>5. Cardinality(Live(c)) \in Nat /\ Cardinality(ids) \in Nat
    BY <2>1, FS_CardinalityType
  <2> QED
    BY <2>2, <2>4, <2>5
<1>3. IsFiniteSet(x.lost) /\ x.lost \cap Live(x) = {}
  BY <1>1 DEF ContextKnown, TableKnown, Grown
<1>4. x.present
  BY DEF Grown
<1>5. ASSUME NEW id \in Live(x)
      PROVE  /\ Type(id) \in ObjectTypes
             /\ IF Type(id) = "INSTANCE" THEN x.table[id] = NoObject
                ELSE /\ x.table[id] \in Live(x)
                     /\ Type(x.table[id]) = ParentType(Type(id))
  <2>1. CASE id \in Live(c)
    BY <2>1 DEF ContextKnown, TableKnown, Grown
  <2>2. CASE id \in ids
    BY <2>2 DEF Fits, Grown
  <2> QED
    BY <2>1, <2>2 DEF Grown
<1>51. \A id \in x.lost : Type(id) \in ObjectTypes
  BY <1>1 DEF ContextKnown, TableKnown, Grown
<1>6. TableKnown(x)
  BY <1>2, <1>3, <1>4, <1>5, <1>51 DEF TableKnown
<1>7. DOMAIN x.native = {id \in Live(x) : Type(id) \notin Borrowed}
  BY DEF ContextKnown, NativesKnown, Grown
<1>8. x.meta = {id \in Live(x) : Type(id) \in Described}
  BY DEF ContextKnown, NativesKnown, Grown
<1>9. x.bound \subseteq OfType(x, "BUFFER") /\ x.mirrored \subseteq OfType(x, "DEVICE_MEMORY")
      /\ x.early = {}
  BY DEF ContextKnown, NativesKnown, Grown, OfType
<1>10. \A id \in DOMAIN x.native : x.native[id] = x.table[id]
  BY DEF Grown
<1> QED
  BY <1>6, <1>7, <1>8, <1>9, <1>10 DEF NativesKnown

\* The swapchains of a context that has grown by other objects.
LEMMA GrownChains ==
  ASSUME NEW c, ContextKnown(c), NEW ids, NEW p, NEW x, Grown(c, x, ids, p),
         x.chain = c.chain, \A id \in ids : Type(id) # "SWAPCHAIN"
  PROVE  ChainsKnown(x)
<1>1. DOMAIN x.chain = OfType(x, "SWAPCHAIN")
  BY DEF ContextKnown, ChainsKnown, Grown, OfType
<1>2. ASSUME NEW s \in DOMAIN x.chain, NEW i \in x.chain[s]
      PROVE  /\ i \in OfType(x, "IMAGE") /\ x.table[i] = x.table[s]
             /\ \A t \in DOMAIN x.chain : i \in x.chain[t] => t = s
  BY DEF ContextKnown, ChainsKnown, Grown, OfType
<1> QED
  BY <1>1, <1>2 DEF ChainsKnown

\* One new object that fits makes a context.
LEMMA MadeKnown ==
  ASSUME NEW c, ContextKnown(c), c.present, ~ Full(c, 1), NEW type, NEW p,
         Fits(c, type, p), type # "SWAPCHAIN", NEW id, id = Fresh(c, type)
  PROVE  /\ Grown(c, Made(c, {id}, p), {id}, p)
         /\ ContextKnown(Made(c, {id}, p)) /\ Made(c, {id}, p).chain = c.chain
         /\ id \notin Taken(c) /\ Type(id) = type
<1>1. type # "NONE"
  BY DEF Fits, ObjectTypes, DeviceChildren, Pools
<1>2. id \notin Taken(c) /\ Type(id) = type
  BY <1>1, FreshFacts
<1>3. PICK ids : ids = {id}
  OBVIOUS
<1>4. IsFiniteSet(ids) /\ Cardinality(ids) = 1 /\ ids \cap Taken(c) = {}
  BY <1>2, <1>3, FS_Singleton
<1>5. Cardinality(Live(c)) + Cardinality(ids) <= Capacity
  <2>1. Cardinality(Live(c)) \in Nat
    BY FS_CardinalityType DEF ContextKnown, TableKnown
  <2> QED
    BY <1>4, <2>1, ServiceObjectsAssumption DEF Full
<1>6. PICK x : x = Made(c, ids, p)
  OBVIOUS
<1>7. Grown(c, x, ids, p) /\ x.chain = c.chain
  BY <1>4, <1>6, MadeGrows
<1>8. \A i \in ids : Fits(c, Type(i), p) /\ Type(i) # "SWAPCHAIN"
  BY <1>2, <1>3
<1>9. TableKnown(x) /\ NativesKnown(x)
  BY <1>4, <1>5, <1>7, <1>8, GrownKnown
<1>10. ChainsKnown(x)
  BY <1>7, <1>8, GrownChains
<1>11. ContextKnown(x)
  BY <1>7, <1>9, <1>10 DEF ContextKnown, Grown
<1> QED
  BY <1>2, <1>3, <1>6, <1>7, <1>11

\* x is y with the swapchain records e.
Rechained(y, x, e) == x = [y EXCEPT !.chain = e]

\* A context with other swapchain records has grown just as much.
LEMMA GrownNewChains ==
  ASSUME NEW c, NEW y, NEW ids, NEW p, Grown(c, y, ids, p),
         NEW e, NEW x, Rechained(y, x, e)
  PROVE  Grown(c, x, ids, p) /\ x.chain = e
<1>1. DOMAIN y = DOMAIN NewContext
  BY DEF Grown
<1>2. /\ DOMAIN x = DOMAIN NewContext /\ x.table = y.table /\ x.native = y.native
      /\ x.meta = y.meta /\ x.bound = y.bound /\ x.mirrored = y.mirrored
      /\ x.early = y.early /\ x.lost = y.lost /\ x.negotiated = y.negotiated
      /\ x.present = y.present /\ x.chain = e
  BY <1>1, ContextFields DEF Rechained
<1>3. Live(x) = Live(y)
  BY <1>2 DEF Live
<1> QED
  BY <1>2, <1>3 DEF Grown

\* The context with a swapchain of these images.
Whole(c, images, id, d) ==
    [Made(c, images \cup {id}, d) EXCEPT !.chain = Extended(@, {id}, images)]

\* A prepared swapchain and its images are new, and no view of them exists.
LEMMA PreparedFacts ==
  ASSUME NEW c, ContextKnown(c), c.present, ~ Full(c, ChainImages + 1),
         NEW d \in OfType(c, "DEVICE"),
         NEW images, images = FreshIds(c, "IMAGE", ChainImages),
         NEW id, id = Fresh(c, "SWAPCHAIN"),
         NEW x, x = Whole(c, images, id, d)
  PROVE  /\ Grown(c, x, images \cup {id}, d) /\ ContextKnown(x)
         /\ (images \cup {id}) \cap Taken(c) = {} /\ Type(id) = "SWAPCHAIN"
         /\ \A i \in images : Type(i) = "IMAGE"
         /\ DOMAIN x.chain = DOMAIN c.chain \cup {id} /\ x.chain[id] = images
         /\ \A s \in DOMAIN c.chain : x.chain[s] = c.chain[s]
         /\ \A v \in Live(x) : x.table[v] \notin images
<1>1. Cardinality(Live(c)) \in Nat
  BY FS_CardinalityType DEF ContextKnown, TableKnown
<1>2. Cardinality(Live(c)) + ChainImages + 1 <= Capacity /\ ChainImages \in Nat \ {0}
  BY <1>1, ServiceObjectsAssumption DEF Full
<1>3. images \cap Taken(c) = {} /\ (\A i \in images : Type(i) = "IMAGE")
      /\ IsFiniteSet(images) /\ Cardinality(images) <= ChainImages
  <2>1. Cardinality(Live(c)) + ChainImages <= Capacity
    BY <1>1, <1>2, ServiceObjectsAssumption
  <2> QED
    BY <1>2, <2>1, FreshIdsFacts
<1>4. id \notin Taken(c) /\ Type(id) = "SWAPCHAIN"
  BY FreshFacts
<1>5. PICK ids : ids = images \cup {id}
  OBVIOUS
<1>6. ids \cap Taken(c) = {}
  BY <1>3, <1>4, <1>5
<1>7. IsFiniteSet(ids) /\ Cardinality(Live(c)) + Cardinality(ids) <= Capacity
  <2>1. IsFiniteSet(ids) /\ Cardinality(ids)
          = IF id \in images THEN Cardinality(images) ELSE Cardinality(images) + 1
    BY <1>3, <1>5, FS_AddElement
  <2>2. Cardinality(images) \in Nat
    BY <1>3, FS_CardinalityType
  <2> QED
    BY <1>1, <1>2, <1>3, <2>1, <2>2, ServiceObjectsAssumption
<1>8. PICK y : y = Made(c, ids, d)
  OBVIOUS
<1>9. Grown(c, y, ids, d) /\ y.chain = c.chain
  BY <1>6, <1>8, MadeGrows
<1>10. x = [y EXCEPT !.chain = Extended(@, {id}, images)]
  BY <1>5, <1>8, Zenon DEF Whole
<1>11. Grown(c, x, ids, d) /\ x.chain = Extended(c.chain, {id}, images)
  <2>1. PICK e : e = Extended(y.chain, {id}, images)
    OBVIOUS
  <2>2. Rechained(y, x, e)
    BY <1>10, <2>1 DEF Rechained
  <2>3. Grown(c, y, ids, d)
    BY <1>9
  <2>4. Grown(c, x, ids, d) /\ x.chain = e
    BY <2>2, <2>3, GrownNewChains
  <2> QED
    BY <1>9, <2>1, <2>4, Zenon
<1>12. \A i \in ids : Fits(c, Type(i), d)
  BY <1>3, <1>4, <1>5 DEF Fits, ObjectTypes, DeviceChildren, ParentType, OfType
<1>13. TableKnown(x) /\ NativesKnown(x)
  BY <1>6, <1>7, <1>11, <1>12, GrownKnown
<1>14. id \notin DOMAIN c.chain
  BY <1>4, TakenFacts DEF ContextKnown, ChainsKnown, OfType
<1>15. DOMAIN x.chain = DOMAIN c.chain \cup {id} /\ x.chain[id] = images
       /\ \A s \in DOMAIN c.chain : x.chain[s] = c.chain[s]
  BY <1>11, <1>14 DEF Extended
<1>16. ChainsKnown(x)
  <2>1. DOMAIN x.chain = OfType(x, "SWAPCHAIN")
    <3>1. DOMAIN c.chain = {s \in Live(c) : Type(s) = "SWAPCHAIN"}
      BY DEF ContextKnown, ChainsKnown, OfType
    <3>2. Live(x) = Live(c) \cup ids
      BY <1>11 DEF Grown
    <3> QED
      BY <1>3, <1>4, <1>5, <1>15, <3>1, <3>2 DEF OfType
  <2>2. ASSUME NEW s \in DOMAIN x.chain, NEW i \in x.chain[s]
        PROVE  /\ i \in OfType(x, "IMAGE") /\ x.table[i] = x.table[s]
               /\ \A t \in DOMAIN x.chain : i \in x.chain[t] => t = s
    <3>1. \A t \in DOMAIN c.chain : c.chain[t] \cap images = {}
      BY <1>3, TakenFacts
    <3>2. CASE s = id
      <4>1. i \in images
        BY <1>15, <3>2
      <4>2. i \in Live(x) /\ x.table[i] = d /\ x.table[id] = d
        BY <1>5, <1>11, <4>1 DEF Grown
      <4>3. \A t \in DOMAIN x.chain : i \in x.chain[t] => t = id
        BY <1>15, <3>1, <4>1
      <4> QED
        BY <1>3, <3>2, <4>1, <4>2, <4>3 DEF OfType
    <3>3. CASE s \in DOMAIN c.chain
      <4>1. i \in c.chain[s] /\ i \notin images
        BY <1>15, <3>1, <3>3
      <4>2. i \in OfType(c, "IMAGE") /\ c.table[i] = c.table[s] /\ s \in Live(c)
            /\ \A t \in DOMAIN c.chain : i \in c.chain[t] => t = s
        BY <3>3, <4>1 DEF ContextKnown, ChainsKnown, OfType
      <4> QED
        BY <1>11, <1>15, <4>1, <4>2 DEF OfType, Grown
    <3> QED
      BY <1>15, <3>2, <3>3
  <2> QED
    BY <2>1, <2>2 DEF ChainsKnown
<1>17. ContextKnown(x)
  BY <1>11, <1>13, <1>16 DEF ContextKnown, Grown
<1>18. ASSUME NEW v \in Live(x) PROVE x.table[v] \notin images
  <2>1. CASE v \in ids
    <3>1. x.table[v] = d /\ Type(d) = "DEVICE"
      BY <1>11, <2>1 DEF Grown, OfType
    <3> QED
      BY <1>3, <3>1
  <2>2. CASE v \in Live(c)
    <3>1. c.table[v] \in Taken(c)
      BY <2>2 DEF Taken, Range, Live
    <3> QED
      BY <1>3, <1>11, <2>2, <3>1 DEF Grown
  <2> QED
    BY <1>11, <2>1, <2>2 DEF Grown
<1> QED
  BY <1>3, <1>4, <1>5, <1>6, <1>11, <1>15, <1>17, <1>18

(***************************************************************************)
(* Client and service in step.                                             *)
(***************************************************************************)

\* y is cl without the proxies Q.
Dropped(cl, y, Q) ==
    /\ DOMAIN y = {"proxies", "chains", "mapped"}
    /\ DOMAIN y.proxies = DOMAIN cl.proxies \ Q
    /\ \A id \in DOMAIN y.proxies : y.proxies[id] = cl.proxies[id]
    /\ DOMAIN y.chains = DOMAIN cl.chains \ Q
    /\ \A s \in DOMAIN y.chains : y.chains[s] = cl.chains[s]
    /\ y.mapped = cl.mapped \ Q

\* Two contexts that differ only in natives, records and ids lost that the
\* client does not list are the same to the client.
LEMMA StepAlike ==
  ASSUME NEW c, NEW x, NEW cl, InStep(c, cl), ContextKnown(c), Live(x) = Live(c),
         \A id \in Live(c) : x.table[id] = c.table[id],
         DOMAIN x.chain = DOMAIN c.chain,
         \A s \in DOMAIN c.chain : x.chain[s] = c.chain[s],
         x.mirrored = c.mirrored, c.lost \subseteq x.lost,
         (x.lost \ c.lost) \cap DOMAIN cl.proxies = {}
  PROVE  InStep(x, cl)
<1>1. ASSUME NEW id \in DOMAIN cl.proxies, Type(id) # "SURFACE", id \notin x.lost
      PROVE  id \in Live(x) /\ cl.proxies[id] = ProxyParent(x, id)
  <2>1. id \in Live(c) /\ cl.proxies[id] = ProxyParent(c, id)
    BY <1>1 DEF InStep, ListsKnown
  <2>2. Type(id) = "IMAGE_VIEW" => c.table[id] \in Live(c)
    BY <2>1, DeviceOfFacts DEF Grandchildren
  <2> QED
    BY <2>1, <2>2 DEF ProxyParent
<1>2. ListsKnown(x, cl)
  BY <1>1 DEF InStep, ListsKnown
<1>3. ASSUME NEW s \in DOMAIN cl.chains
      PROVE  IF s \in x.lost THEN cl.chains[s] \subseteq x.lost
             ELSE cl.chains[s] = x.chain[s]
  <2>1. s \in DOMAIN cl.proxies /\ Type(s) = "SWAPCHAIN"
    BY DEF InStep, ClientChainsKnown
  <2>2. CASE s \in c.lost
    BY <2>1, <2>2 DEF InStep, ClientChainsKnown
  <2>3. CASE s \notin c.lost
    <3>1. s \notin x.lost /\ s \in Live(c)
      BY <2>1, <2>3 DEF InStep, ListsKnown
    <3>2. s \in DOMAIN c.chain
      BY <2>1, <3>1 DEF ContextKnown, ChainsKnown, OfType
    <3> QED
      BY <2>3, <3>1, <3>2 DEF InStep, ClientChainsKnown
  <2> QED
    BY <2>2, <2>3
<1>4. ClientChainsKnown(x, cl)
  BY <1>3 DEF InStep, ClientChainsKnown
<1>5. PhysicalsListed(x, cl)
  BY DEF InStep, PhysicalsListed, OfType
<1> QED
  BY <1>2, <1>4, <1>5 DEF InStep

\* Objects removed on both sides: the client forgets what the service does, and
\* nothing else.
LEMMA StepRemoved ==
  ASSUME NEW c, ContextKnown(c), NEW cl, InStep(c, cl), NEW R, NEW ss, NEW x,
         Without(c, x, R, ss), Closed(c, R, ss),
         \A s \in ss : c.chain[s] \subseteq R,
         NEW Q, NEW y, Dropped(cl, y, Q),
         \A id \in DOMAIN cl.proxies : id \in R => id \in Q,
         \A id \in Live(c) : id \in Q => id \in R
  PROVE  InStep(x, y)
<1>1. Live(x) = Live(c) \ R /\ x.lost = c.lost
  BY DEF Without
<1>2. ASSUME NEW id \in DOMAIN y.proxies
      PROVE  /\ Type(id) \in ObjectTypes \cup {"SURFACE"}
             /\ Type(id) # "SURFACE" /\ id \notin x.lost =>
                  id \in Live(x) /\ y.proxies[id] = ProxyParent(x, id)
  <2>1. id \in DOMAIN cl.proxies /\ id \notin Q /\ y.proxies[id] = cl.proxies[id]
    BY DEF Dropped
  <2>2. id \notin R
    BY <2>1
  <2>3. ASSUME Type(id) # "SURFACE", id \notin x.lost
        PROVE  id \in Live(x) /\ y.proxies[id] = ProxyParent(x, id)
    <3>1. id \in Live(c) /\ cl.proxies[id] = ProxyParent(c, id)
      BY <1>1, <2>1, <2>3 DEF InStep, ListsKnown
    <3>2. id \in Live(x) /\ x.table[id] = c.table[id]
      BY <1>1, <2>2, <3>1 DEF Without
    <3>3. ASSUME Type(id) = "IMAGE_VIEW"
          PROVE  x.table[x.table[id]] = c.table[c.table[id]]
      <4>1. c.table[id] \in Live(c)
        BY <3>1, <3>3, DeviceOfFacts DEF Grandchildren
      <4>2. c.table[id] \notin R
        BY <2>2, <3>1 DEF Closed
      <4> QED
        BY <1>1, <3>2, <4>1, <4>2 DEF Without
    <3> QED
      BY <2>1, <3>1, <3>2, <3>3 DEF ProxyParent
  <2> QED
    BY <2>1, <2>3 DEF InStep, ListsKnown
<1>3. ASSUME NEW id \in Live(x), Type(id) \notin Borrowed
      PROVE  id \in DOMAIN y.proxies \/ \E s \in DOMAIN y.chains : id \in y.chains[s]
  <2>1. id \in Live(c) /\ id \notin R /\ id \notin Q /\ id \notin c.lost
    BY <1>1, <1>3 DEF ContextKnown, TableKnown
  <2>2. CASE id \in DOMAIN cl.proxies
    BY <2>1, <2>2 DEF Dropped
  <2>3. CASE \E s \in DOMAIN cl.chains : id \in cl.chains[s]
    <3>1. PICK s \in DOMAIN cl.chains : id \in cl.chains[s]
      BY <2>3
    <3>2. s \notin c.lost /\ cl.chains[s] = c.chain[s]
      BY <2>1, <3>1 DEF InStep, ClientChainsKnown
    <3>3. s \in DOMAIN cl.proxies /\ Type(s) = "SWAPCHAIN"
      BY DEF InStep, ClientChainsKnown
    <3>4. s \in Live(c)
      BY <3>2, <3>3 DEF InStep, ListsKnown
    <3>5. s \in DOMAIN c.chain
      BY <3>3, <3>4 DEF ContextKnown, ChainsKnown, OfType
    <3>6. s \notin R
      BY <2>1, <3>1, <3>2, <3>5 DEF Closed
    <3>7. s \notin Q
      BY <3>3, <3>4, <3>6 DEF Borrowed
    <3> QED
      BY <3>1, <3>7 DEF Dropped
  <2> QED
    BY <1>3, <2>1, <2>2, <2>3 DEF InStep, ListsKnown
<1>4. y.mapped = x.mirrored
  <2>1. c.mirrored \cap Q = {}
    <3>1. ASSUME NEW m \in c.mirrored PROVE m \notin Q
      <4>1. m \in Live(c) /\ Type(m) = "DEVICE_MEMORY" /\ m \notin R
        BY DEF ContextKnown, NativesKnown, OfType, Closed
      <4> QED
        BY <4>1 DEF Borrowed
    <3> QED
      BY <3>1
  <2> QED
    BY <2>1 DEF InStep, ListsKnown, Dropped, Without
<1>5. ListsKnown(x, y)
  BY <1>2, <1>3, <1>4 DEF ListsKnown
<1>6. DOMAIN y.chains = {s \in DOMAIN y.proxies : Type(s) = "SWAPCHAIN"}
  BY DEF InStep, ClientChainsKnown, Dropped
<1>7. ASSUME NEW s \in DOMAIN y.chains
      PROVE  /\ IF s \in x.lost THEN y.chains[s] \subseteq x.lost
                ELSE y.chains[s] = x.chain[s]
             /\ y.chains[s] \cap DOMAIN y.proxies = {}
  <2>1. s \in DOMAIN cl.chains /\ y.chains[s] = cl.chains[s] /\ s \notin Q
    BY DEF Dropped
  <2>2. s \in DOMAIN cl.proxies /\ Type(s) = "SWAPCHAIN"
        /\ cl.chains[s] \cap DOMAIN cl.proxies = {}
    BY <2>1 DEF InStep, ClientChainsKnown
  <2>3. IF s \in c.lost THEN cl.chains[s] \subseteq c.lost ELSE cl.chains[s] = c.chain[s]
    BY <2>1 DEF InStep, ClientChainsKnown
  <2>4. y.chains[s] \cap DOMAIN y.proxies = {}
    BY <2>1, <2>2 DEF Dropped
  <2>5. ASSUME s \notin c.lost PROVE c.chain[s] = x.chain[s]
    <3>1. s \in Live(c)
      BY <2>2, <2>5 DEF InStep, ListsKnown
    <3>2. s \in DOMAIN c.chain /\ s \notin R
      BY <2>1, <2>2, <3>1 DEF ContextKnown, ChainsKnown, OfType
    <3>3. s \in DOMAIN x.chain
      BY <3>2 DEF Without, Closed
    <3> QED
      BY <3>3 DEF Without
  <2> QED
    BY <1>1, <2>1, <2>3, <2>4, <2>5
<1>8. ClientChainsKnown(x, y)
  BY <1>6, <1>7 DEF ClientChainsKnown
<1>9. PhysicalsListed(x, y)
  <2> SUFFICES ASSUME NEW d \in Live(x), Type(d) = "DEVICE"
               PROVE  x.table[d] \in DOMAIN y.proxies
    BY DEF PhysicalsListed, OfType
  <2>1. d \in Live(c) /\ d \notin R /\ x.table[d] = c.table[d]
    BY <1>1 DEF Without
  <2>2. c.table[d] \in DOMAIN cl.proxies
    BY <2>1 DEF InStep, PhysicalsListed, OfType
  <2>3. c.table[d] \in Live(c) /\ c.table[d] \notin R
    BY <2>1, ParentFacts DEF Closed
  <2> QED
    BY <2>1, <2>2, <2>3 DEF Dropped
<1> QED
  BY <1>5, <1>8, <1>9 DEF InStep

\* A new id is unknown to the client.
LEMMA NewToClient ==
  ASSUME NEW c, ContextKnown(c), NEW cl, InStep(c, cl), NEW id, id \notin Taken(c),
         Type(id) # "SURFACE"
  PROVE  /\ id \notin DOMAIN cl.proxies
         /\ \A s \in DOMAIN cl.chains : id \notin cl.chains[s]
<1>1. id \notin Live(c) /\ id \notin c.lost
  BY TakenFacts
<1>2. id \notin DOMAIN cl.proxies
  BY <1>1 DEF InStep, ListsKnown
<1>3. ASSUME NEW s \in DOMAIN cl.chains PROVE id \notin cl.chains[s]
  <2>1. s \in DOMAIN cl.proxies /\ Type(s) = "SWAPCHAIN"
    BY DEF InStep, ClientChainsKnown
  <2>2. CASE s \in c.lost
    BY <1>1, <2>2 DEF InStep, ClientChainsKnown
  <2>3. CASE s \notin c.lost
    <3>1. s \in Live(c)
      BY <2>1, <2>3 DEF InStep, ListsKnown
    <3>2. s \in DOMAIN c.chain
      BY <2>1, <3>1 DEF ContextKnown, ChainsKnown, OfType
    <3>3. c.chain[s] \subseteq Taken(c)
      BY <3>2, TakenFacts
    <3> QED
      BY <2>3, <3>3 DEF InStep, ClientChainsKnown
  <2> QED
    BY <2>2, <2>3
<1> QED
  BY <1>2, <1>3

\* The client lists the objects N of those the service made, and what it does
\* not list are images of the swapchains it lists.
LEMMA StepGrown ==
  ASSUME NEW c, ContextKnown(c), NEW cl, InStep(c, cl), NEW x, ContextKnown(x),
         NEW ids, NEW p, Grown(c, x, ids, p), ids \cap Taken(c) = {},
         DOMAIN c.chain \subseteq DOMAIN x.chain,
         \A s \in DOMAIN c.chain : x.chain[s] = c.chain[s],
         NEW N, N \subseteq ids,
         \A id \in ids : Type(id) \in Borrowed \/ id \in N
                         \/ \E s \in N : Type(s) = "SWAPCHAIN" /\ id \in x.chain[s],
         \A s \in N : Type(s) = "SWAPCHAIN" =>
                        x.chain[s] \subseteq ids /\ x.chain[s] \cap N = {},
         NEW y, DOMAIN y.proxies = DOMAIN cl.proxies \cup N,
         \A id \in DOMAIN cl.proxies : y.proxies[id] = cl.proxies[id],
         \A id \in N : y.proxies[id] = ProxyParent(x, id),
         DOMAIN y.chains = DOMAIN cl.chains \cup {s \in N : Type(s) = "SWAPCHAIN"},
         \A s \in DOMAIN cl.chains : y.chains[s] = cl.chains[s],
         \A s \in N : Type(s) = "SWAPCHAIN" => y.chains[s] = x.chain[s],
         y.mapped = cl.mapped,
         \A id \in ids : Type(id) = "DEVICE" => p \in DOMAIN cl.proxies
  PROVE  InStep(x, y)
<1>1. Live(x) = Live(c) \cup ids /\ x.lost = c.lost /\ x.mirrored = c.mirrored
      /\ \A id \in Live(c) : x.table[id] = c.table[id]
  BY DEF Grown
<1>2. \A id \in ids : Type(id) \in ObjectTypes /\ Type(id) # "SURFACE"
  BY <1>1 DEF ContextKnown, TableKnown, ObjectTypes, DeviceChildren, Pools
<1>3. \A id \in ids : id \notin DOMAIN cl.proxies
                      /\ \A s \in DOMAIN cl.chains : id \notin cl.chains[s]
  BY <1>2, NewToClient
<1>4. ASSUME NEW id \in DOMAIN y.proxies
      PROVE  /\ Type(id) \in ObjectTypes \cup {"SURFACE"}
             /\ Type(id) # "SURFACE" /\ id \notin x.lost =>
                  id \in Live(x) /\ y.proxies[id] = ProxyParent(x, id)
  <2>1. CASE id \in N
    BY <1>1, <1>2, <2>1
  <2>2. CASE id \in DOMAIN cl.proxies
    <3>1. Type(id) \in ObjectTypes \cup {"SURFACE"}
      BY <2>2 DEF InStep, ListsKnown
    <3>2. ASSUME Type(id) # "SURFACE", id \notin x.lost
          PROVE  id \in Live(x) /\ y.proxies[id] = ProxyParent(x, id)
      <4>1. id \in Live(c) /\ cl.proxies[id] = ProxyParent(c, id)
        BY <1>1, <2>2, <3>2 DEF InStep, ListsKnown
      <4>2. Type(id) = "IMAGE_VIEW" => c.table[id] \in Live(c)
        BY <4>1, DeviceOfFacts DEF Grandchildren
      <4>3. ProxyParent(x, id) = ProxyParent(c, id)
        BY <1>1, <4>1, <4>2 DEF ProxyParent
      <4> QED
        BY <1>1, <2>2, <4>1, <4>3
    <3> QED
      BY <3>1, <3>2
  <2> QED
    BY <2>1, <2>2
<1>5. ASSUME NEW id \in Live(x), Type(id) \notin Borrowed
      PROVE  id \in DOMAIN y.proxies \/ \E s \in DOMAIN y.chains : id \in y.chains[s]
  <2>1. CASE id \in ids
    BY <1>5, <2>1
  <2>2. CASE id \in Live(c)
    BY <1>5, <2>2 DEF InStep, ListsKnown
  <2> QED
    BY <1>1, <2>1, <2>2
<1>6. ListsKnown(x, y)
  BY <1>1, <1>4, <1>5 DEF InStep, ListsKnown
<1>7. DOMAIN y.chains = {s \in DOMAIN y.proxies : Type(s) = "SWAPCHAIN"}
  BY DEF InStep, ClientChainsKnown
<1>8. ASSUME NEW s \in DOMAIN y.chains
      PROVE  /\ IF s \in x.lost THEN y.chains[s] \subseteq x.lost
                ELSE y.chains[s] = x.chain[s]
             /\ y.chains[s] \cap DOMAIN y.proxies = {}
  <2>1. CASE s \in N /\ Type(s) = "SWAPCHAIN"
    <3>1. s \notin x.lost
      BY <1>1, <2>1, TakenFacts
    <3>2. y.chains[s] = x.chain[s] /\ x.chain[s] \subseteq ids /\ x.chain[s] \cap N = {}
      BY <2>1
    <3> QED
      BY <1>3, <3>1, <3>2
  <2>2. CASE s \in DOMAIN cl.chains
    <3>1. s \in DOMAIN cl.proxies /\ Type(s) = "SWAPCHAIN" /\ y.chains[s] = cl.chains[s]
          /\ cl.chains[s] \cap DOMAIN cl.proxies = {}
      BY <2>2 DEF InStep, ClientChainsKnown
    <3>2. cl.chains[s] \cap N = {}
      BY <1>3, <2>2
    <3>3. CASE s \in c.lost
      BY <1>1, <2>2, <3>1, <3>2, <3>3 DEF InStep, ClientChainsKnown
    <3>4. CASE s \notin c.lost
      <4>1. s \in Live(c)
        BY <3>1, <3>4 DEF InStep, ListsKnown
      <4>2. s \in DOMAIN c.chain
        BY <3>1, <4>1 DEF ContextKnown, ChainsKnown, OfType
      <4>3. cl.chains[s] = c.chain[s]
        BY <2>2, <3>4 DEF InStep, ClientChainsKnown
      <4> QED
        BY <1>1, <3>1, <3>2, <3>4, <4>2, <4>3
    <3> QED
      BY <3>3, <3>4
  <2> QED
    BY <2>1, <2>2
<1>9. ClientChainsKnown(x, y)
  BY <1>7, <1>8 DEF ClientChainsKnown
<1>10. PhysicalsListed(x, y)
  <2>1. \A id \in ids : x.table[id] = p
    BY DEF Grown
  <2> QED
    BY <1>1, <2>1 DEF InStep, PhysicalsListed, OfType
<1> QED
  BY <1>6, <1>9, <1>10 DEF InStep

\* The client lists a live borrowed object it did not know.
LEMMA StepNamed ==
  ASSUME NEW c, ContextKnown(c), NEW cl, InStep(c, cl), NEW p \in Live(c),
         Type(p) \in Borrowed, NEW y, DOMAIN y.proxies = DOMAIN cl.proxies \cup {p},
         \A id \in DOMAIN cl.proxies : y.proxies[id] = cl.proxies[id],
         p \notin DOMAIN cl.proxies, y.proxies[p] = c.table[p],
         y.chains = cl.chains, y.mapped = cl.mapped
  PROVE  InStep(c, y)
<1>1. Type(p) # "SWAPCHAIN" /\ Type(p) # "IMAGE" /\ Type(p) # "IMAGE_VIEW"
  BY DEF Borrowed
<1>2. Type(p) \in ObjectTypes /\ ProxyParent(c, p) = c.table[p]
  BY <1>1, ParentFacts DEF ProxyParent
<1>3. ListsKnown(c, y)
  BY <1>2 DEF InStep, ListsKnown
<1>4. ASSUME NEW s \in DOMAIN cl.chains PROVE p \notin cl.chains[s]
  <2>1. s \in DOMAIN cl.proxies /\ Type(s) = "SWAPCHAIN"
    BY DEF InStep, ClientChainsKnown
  <2>2. CASE s \in c.lost
    BY <2>2 DEF InStep, ClientChainsKnown, ContextKnown, TableKnown
  <2>3. CASE s \notin c.lost
    <3>1. s \in Live(c)
      BY <2>1, <2>3 DEF InStep, ListsKnown
    <3>2. s \in DOMAIN c.chain
      BY <2>1, <3>1 DEF ContextKnown, ChainsKnown, OfType
    <3>3. cl.chains[s] = c.chain[s]
      BY <2>3 DEF InStep, ClientChainsKnown
    <3> QED
      BY <1>1, <3>2, <3>3 DEF ContextKnown, ChainsKnown, OfType
  <2> QED
    BY <2>2, <2>3
<1>5. ClientChainsKnown(c, y)
  BY <1>1, <1>4 DEF InStep, ClientChainsKnown
<1>6. PhysicalsListed(c, y)
  BY DEF InStep, PhysicalsListed
<1> QED
  BY <1>3, <1>5, <1>6 DEF InStep

\* y has the objects of x.
Alike(x, y) ==
    /\ DOMAIN y = DOMAIN NewContext
    /\ y.table = x.table /\ y.native = x.native /\ y.meta = x.meta
    /\ y.chain = x.chain /\ y.early = x.early

\* The same objects make a context again when what is bound, mirrored and lost
\* fits them.
LEMMA AlikeKnown ==
  ASSUME NEW x, ContextKnown(x), NEW y, Alike(x, y),
         IsFiniteSet(y.lost), y.lost \cap Live(x) = {}, x.present => y.present,
         \A id \in y.lost : Type(id) \in ObjectTypes,
         y.bound \subseteq OfType(x, "BUFFER"),
         y.mirrored \subseteq OfType(x, "DEVICE_MEMORY")
  PROVE  ContextKnown(y)
<1>1. Live(y) = Live(x) /\ y.table = x.table
  BY DEF Alike, Live
<1>2. \A type : OfType(y, type) = OfType(x, type)
  BY <1>1 DEF OfType
<1>3. TableKnown(y)
  <2>1. IsFiniteSet(Live(y)) /\ Cardinality(Live(y)) <= Capacity
    BY <1>1 DEF ContextKnown, TableKnown
  <2>2. Live(y) # {} => y.present
    BY <1>1 DEF ContextKnown, TableKnown
  <2>3. \A id \in Live(y) :
         /\ Type(id) \in ObjectTypes
         /\ IF Type(id) = "INSTANCE" THEN y.table[id] = NoObject
            ELSE /\ y.table[id] \in Live(y)
                 /\ Type(y.table[id]) = ParentType(Type(id))
    BY <1>1 DEF ContextKnown, TableKnown
  <2> QED
    BY <1>1, <2>1, <2>2, <2>3 DEF TableKnown
<1>4. NativesKnown(y)
  BY <1>1, <1>2 DEF ContextKnown, NativesKnown, Alike
<1>5. ChainsKnown(y)
  <2>1. ChainsKnown(x) /\ y.chain = x.chain
    BY DEF ContextKnown, Alike
  <2>2. DOMAIN y.chain = OfType(y, "SWAPCHAIN")
    BY <1>2, <2>1 DEF ChainsKnown
  <2>3. ASSUME NEW s \in DOMAIN y.chain, NEW i \in y.chain[s]
        PROVE  /\ i \in OfType(y, "IMAGE") /\ y.table[i] = y.table[s]
               /\ \A t \in DOMAIN y.chain : i \in y.chain[t] => t = s
    <3>1. s \in DOMAIN x.chain /\ i \in x.chain[s]
      BY <2>1
    <3>2. /\ i \in OfType(x, "IMAGE") /\ x.table[i] = x.table[s]
          /\ \A t \in DOMAIN x.chain : i \in x.chain[t] => t = s
      BY <2>1, <3>1 DEF ChainsKnown
    <3> QED
      BY <1>1, <1>2, <2>1, <3>2
  <2> QED
    BY <2>2, <2>3 DEF ChainsKnown
<1> QED
  BY <1>3, <1>4, <1>5 DEF ContextKnown, Alike

\* c without the swapchains ss, which are lost.
LostFrom(c, ss) ==
    [destroy_swapchain_metadata(c, ss) EXCEPT !.lost = ss \cup ImagesOf(c, ss)]

\* The loss of a device takes swapchains that the client still lists.
LEMMA StepLost ==
  ASSUME NEW c, ContextKnown(c), NEW cl, InStep(c, cl), c.lost = {},
         NEW ss, ss \subseteq DOMAIN c.chain,
         \A id \in Live(c) : c.table[id] \notin ImagesOf(c, ss),
         NEW y, y = LostFrom(c, ss)
  PROVE  ContextKnown(y) /\ InStep(y, cl) /\ y.negotiated = c.negotiated
         /\ y.lost = ss \cup ImagesOf(c, ss) /\ Live(y) = Live(c) \ y.lost
<1>1. PICK R : R = ss \cup ImagesOf(c, ss)
  OBVIOUS
<1>2. PICK x : x = destroy_swapchain_metadata(c, ss)
  OBVIOUS
<1>3. Without(c, x, R, ss) /\ Closed(c, R, ss) /\ ContextKnown(x)
  BY <1>1, <1>2, ChainsGone
<1>4. y = [x EXCEPT !.lost = R] /\ DOMAIN x = DOMAIN NewContext
  BY <1>1, <1>2, <1>3 DEF ContextKnown, LostFrom
<1>5. /\ DOMAIN y = DOMAIN NewContext /\ y.table = x.table /\ y.native = x.native
      /\ y.meta = x.meta /\ y.bound = x.bound /\ y.mirrored = x.mirrored
      /\ y.early = x.early /\ y.lost = R /\ y.negotiated = x.negotiated
      /\ y.present = x.present /\ y.chain = x.chain
  BY <1>4, ContextFields
<1>6. Live(y) = Live(x) /\ Live(x) = Live(c) \ R /\ R \subseteq Live(c)
  BY <1>3, <1>5 DEF Live, Without, Closed
<1>7. IsFiniteSet(R)
  <2>1. IsFiniteSet(Live(c)) /\ R \in SUBSET Live(c)
    BY <1>6 DEF ContextKnown, TableKnown
  <2> QED
    BY <2>1, FS_Subset
<1>8. ContextKnown(y)
  <2>2. y.bound \subseteq OfType(x, "BUFFER")
        /\ y.mirrored \subseteq OfType(x, "DEVICE_MEMORY")
    BY <1>3, <1>5 DEF ContextKnown, NativesKnown
  <2>3. Alike(x, y) /\ y.lost \cap Live(x) = {} /\ (x.present => y.present)
        /\ IsFiniteSet(y.lost)
    BY <1>5, <1>6, <1>7 DEF Alike
  <2>4. \A id \in y.lost : Type(id) \in ObjectTypes
    BY <1>5, <1>6 DEF ContextKnown, TableKnown
  <2> QED
    BY <1>3, <2>2, <2>3, <2>4, AlikeKnown
<1>10. \A id \in Live(y) : y.table[id] = c.table[id]
  BY <1>3, <1>5, <1>6 DEF Without
<1>11. ASSUME NEW id \in DOMAIN cl.proxies, Type(id) # "SURFACE", id \notin y.lost
       PROVE  id \in Live(y) /\ cl.proxies[id] = ProxyParent(y, id)
  <2>1. id \in Live(c) /\ cl.proxies[id] = ProxyParent(c, id) /\ id \notin R
    BY <1>5, <1>11 DEF InStep, ListsKnown
  <2>2. Type(id) = "IMAGE_VIEW" => c.table[id] \in Live(c) /\ c.table[id] \notin R
    BY <1>3, <2>1, DeviceOfFacts DEF Grandchildren, Closed
  <2> QED
    BY <1>6, <1>10, <2>1, <2>2 DEF ProxyParent
<1>12. ListsKnown(y, cl)
  <2>1. y.mirrored = c.mirrored
    BY <1>3, <1>5 DEF Without
  <2> QED
    BY <1>6, <1>11, <2>1 DEF InStep, ListsKnown
<1>13. ASSUME NEW s \in DOMAIN cl.chains
       PROVE  IF s \in y.lost THEN cl.chains[s] \subseteq y.lost
              ELSE cl.chains[s] = y.chain[s]
  <2>1. s \in DOMAIN cl.proxies /\ Type(s) = "SWAPCHAIN" /\ cl.chains[s] = c.chain[s]
    BY DEF InStep, ClientChainsKnown
  <2>2. s \in Live(c)
    BY <2>1 DEF InStep, ListsKnown
  <2>3. s \in DOMAIN c.chain
    BY <2>1, <2>2 DEF ContextKnown, ChainsKnown, OfType
  <2>4. CASE s \in ss
    BY <1>1, <1>5, <2>1, <2>4 DEF ImagesOf
  <2>5. CASE s \notin ss
    <3>1. s \notin R
      BY <1>3, <2>3, <2>5 DEF Closed
    <3>2. s \in DOMAIN x.chain /\ x.chain[s] = c.chain[s]
      BY <1>3, <2>3, <2>5 DEF Without
    <3> QED
      BY <1>5, <2>1, <3>1, <3>2
  <2> QED
    BY <2>4, <2>5
<1>14. ClientChainsKnown(y, cl)
  BY <1>13 DEF InStep, ClientChainsKnown
<1>15. y.negotiated = c.negotiated
  BY <1>3, <1>5 DEF Without
<1>16. PhysicalsListed(y, cl)
  BY <1>6, <1>10 DEF InStep, PhysicalsListed, OfType
<1> QED
  BY <1>1, <1>5, <1>6, <1>8, <1>12, <1>14, <1>15, <1>16 DEF InStep

(***************************************************************************)
(* One exchange.                                                           *)
(***************************************************************************)

\* Context and lists in step on a working connection.
Agreed(c, cl) ==
    /\ ContextKnown(c) /\ InStep(c, cl) /\ c.negotiated = TRUE
    /\ DOMAIN cl = {"proxies", "chains", "mapped"}

\* An outcome on which the client's lists become y keeps the two in step.
Good(c, o, y) ==
    /\ Agreed(o.ctx, y) /\ c.lost \subseteq o.ctx.lost
    /\ o.ctx.lost = {} => o.status \notin Disagreement

\* What is mapped is listed.
LEMMA MappedListed ==
  ASSUME NEW c, ContextKnown(c), NEW cl, InStep(c, cl)
  PROVE  cl.mapped \subseteq DOMAIN cl.proxies
<1> SUFFICES ASSUME NEW m \in cl.mapped PROVE m \in DOMAIN cl.proxies
  OBVIOUS
<1>1. m \in Live(c) /\ Type(m) = "DEVICE_MEMORY"
  BY DEF InStep, ListsKnown, ContextKnown, NativesKnown, OfType
<1>2. ASSUME NEW s \in DOMAIN cl.chains PROVE m \notin cl.chains[s]
  <2>1. CASE s \in c.lost
    BY <1>1, <2>1 DEF InStep, ClientChainsKnown, ContextKnown, TableKnown
  <2>2. CASE s \notin c.lost
    <3>1. s \in DOMAIN cl.proxies /\ Type(s) = "SWAPCHAIN" /\ cl.chains[s] = c.chain[s]
      BY <2>2 DEF InStep, ClientChainsKnown
    <3>2. s \in Live(c)
      BY <2>2, <3>1 DEF InStep, ListsKnown
    <3>3. s \in DOMAIN c.chain
      BY <3>1, <3>2 DEF ContextKnown, ChainsKnown, OfType
    <3> QED
      BY <1>1, <3>1, <3>3 DEF ContextKnown, ChainsKnown, OfType
  <2> QED
    BY <2>1, <2>2
<1>3. Type(m) \notin Borrowed
  BY <1>1 DEF Borrowed
<1> QED
  BY <1>1, <1>2, <1>3 DEF InStep, ListsKnown

\* On a working connection the two sides agree.
LEMMA UpAgreed ==
  ASSUME BridgeInv, link = "up"
  PROVE  Agreed(ctx, client)
<1>1. ctx.negotiated = TRUE
  BY Zenon DEF BridgeInv
<1> QED
  BY <1>1 DEF BridgeInv, Agreed

\* An exchange with a good outcome keeps the invariant, whether or not the
\* connection survives it.
LEMMA ExchangeKeeps ==
  ASSUME BridgeInv, NEW o, NEW y, Exchange(o, y), Good(ctx, o, y)
  PROVE  BridgeInv'
<1>1. link = "up" /\ Agreed(ctx, client)
  BY UpAgreed DEF Exchange
<1>2. CASE /\ ctx' = o.ctx /\ client' = y
           /\ refusals' = refusals \cup (Disagreement \cap {o.status})
           /\ UNCHANGED <<link, menu>>
  <2>1. Agreed(ctx', client') /\ link' = "up"
    BY <1>1, <1>2 DEF Good
  <2>2. ctx'.negotiated /\ ContextKnown(ctx)' /\ InStep(ctx, client)'
    BY <2>1 DEF Agreed
  <2>3. (client.mapped \subseteq Known)'
    BY <2>2, MappedListed DEF Known
  <2>4. (ctx.lost = {} => refusals = {})'
    BY <1>2 DEF Good, BridgeInv
  <2>5. (refusals \subseteq Disagreement /\ menu \in Menus)'
    BY <1>2 DEF BridgeInv
  <2> QED
    BY <2>1, <2>2, <2>3, <2>4, <2>5 DEF BridgeInv, Agreed
<1>3. CASE /\ ctx' \in {ctx, o.ctx} /\ link' = "down"
           /\ UNCHANGED <<client, refusals, menu>>
  <2>1. ContextKnown(ctx)'
    BY <1>1, <1>3 DEF Good, Agreed
  <2>2. (ctx.lost = {} => refusals = {})'
    BY <1>3 DEF Good, BridgeInv
  <2> QED
    BY <1>3, <2>1, <2>2 DEF BridgeInv, Known
<1> QED
  BY <1>2, <1>3 DEF Exchange

\* The answers of a call that changes nothing say so.
Harmless(c, outcomes) ==
    \A o \in outcomes : o.ctx = c /\ (c.lost = {} => o.status \notin Disagreement)

\* An answer that changes nothing is good.
LEMMA SameGood ==
  ASSUME NEW c, NEW cl, Agreed(c, cl), NEW o, o.ctx = c,
         c.lost = {} => o.status \notin Disagreement
  PROVE  Good(c, o, cl)
BY DEF Good

\* A call that changes nothing keeps the invariant.
LEMMA UsesKeep ==
  ASSUME BridgeInv, NEW S, Uses(S), link = "up" => Harmless(ctx, S)
  PROVE  BridgeInv'
<1>1. PICK o \in S : Exchange(o, client)
  BY DEF Uses
<1>2. link = "up"
  BY <1>1 DEF Exchange
<1>3. Good(ctx, o, client)
  BY <1>2, UpAgreed, SameGood DEF Harmless
<1> QED
  BY <1>1, <1>3, ExchangeKeeps

(***************************************************************************)
(* What the client knows.                                                  *)
(***************************************************************************)

\* Unless a device was lost, what the client lists is in the table.
LEMMA ListedLive ==
  ASSUME BridgeInv, link = "up", NEW id \in Known, Type(id) # "SURFACE",
         id \notin ctx.lost
  PROVE  /\ id \in Live(ctx) /\ client.proxies[id] = ProxyParent(ctx, id)
         /\ ctx.present /\ ctx.negotiated
BY DEF BridgeInv, InStep, ListsKnown, Known, ContextKnown, TableKnown

\* A request about a listed object is served.
LEMMA ListedServed ==
  ASSUME BridgeInv, link = "up", ctx.lost = {},
         NEW id \in Known, Type(id) # "SURFACE", NEW S
  PROVE  Served(ctx, S) = S
<1>1. ctx.present /\ ctx.negotiated
  BY ListedLive
<1> QED
  BY <1>1 DEF Served

\* The object is on the device d of the context.
At(c, d, id) ==
    /\ id \in Live(c) /\ c.table[id] \in Live(c)
    /\ DeviceOf(c, id) = d /\ d \in Live(c)

\* Objects on a device resolve.
LEMMA AtResolved ==
  ASSUME NEW c, NEW d \in Live(c), NEW ids, \A id \in ids : At(c, d, id)
  PROVE  Resolved(c, d, ids) = "SUCCESS"
BY DEF Resolved, At

\* What a live object's proxy says of its parent.
LEMMA ProxyAt ==
  ASSUME BridgeInv, link = "up", NEW id \in Known, id \notin ctx.lost
  PROVE  /\ Type(id) \in DeviceChildren \cup {"IMAGE_VIEW"} =>
              At(ctx, client.proxies[id], id)
         /\ Type(id) \in DeviceChildren =>
              client.proxies[id] = ctx.table[id]
         /\ Type(id) \in DeviceChildren \cup {"IMAGE_VIEW"} =>
              Type(client.proxies[id]) = "DEVICE"
         /\ Type(id) \in {"COMMAND_BUFFER", "DESCRIPTOR_SET"} =>
              /\ client.proxies[id] = ctx.table[id] /\ ctx.table[id] \in Live(ctx)
              /\ Type(ctx.table[id]) \in Pools
              /\ At(ctx, ctx.table[ctx.table[id]], id)
              /\ Type(ctx.table[ctx.table[id]]) = "DEVICE"
<1>1. CASE Type(id) \in DeviceChildren
  <2>1. Type(id) # "SURFACE" /\ Type(id) # "IMAGE_VIEW"
        /\ Type(id) \notin {"COMMAND_BUFFER", "DESCRIPTOR_SET"}
    BY <1>1 DEF DeviceChildren, Pools
  <2>2. id \in Live(ctx) /\ client.proxies[id] = ctx.table[id] /\ ContextKnown(ctx)
    BY <2>1, ListedLive DEF ProxyParent, BridgeInv
  <2>3. DeviceOf(ctx, id) = ctx.table[id] /\ ctx.table[id] \in OfType(ctx, "DEVICE")
    BY <1>1, <2>2, DeviceOfFacts
  <2> QED
    BY <2>1, <2>2, <2>3 DEF At, OfType
<1>2. CASE Type(id) = "IMAGE_VIEW"
  <2>1. Type(id) # "SURFACE" /\ Type(id) \in Grandchildren /\ Type(id) \notin DeviceChildren
    BY <1>2 DEF DeviceChildren, Pools, Grandchildren
  <2>2. id \in Live(ctx) /\ client.proxies[id] = ctx.table[ctx.table[id]]
        /\ ContextKnown(ctx)
    BY <1>2, <2>1, ListedLive DEF ProxyParent, BridgeInv
  <2> QED
    BY <1>2, <2>1, <2>2, DeviceOfFacts DEF At, OfType
<1>3. CASE Type(id) \in {"COMMAND_BUFFER", "DESCRIPTOR_SET"}
  <2>1. Type(id) # "SURFACE" /\ Type(id) \in Grandchildren /\ Type(id) # "IMAGE_VIEW"
        /\ Type(id) \notin DeviceChildren /\ ParentType(Type(id)) \in Pools
    BY <1>3 DEF DeviceChildren, Pools, Grandchildren, ParentType
  <2>2. id \in Live(ctx) /\ client.proxies[id] = ctx.table[id] /\ ContextKnown(ctx)
    BY <2>1, ListedLive DEF ProxyParent, BridgeInv
  <2> QED
    BY <1>3, <2>1, <2>2, DeviceOfFacts DEF At, OfType
<1> QED
  BY <1>1, <1>2, <1>3

\* The children the client lists for a device are on it.
LEMMA OfAt ==
  ASSUME BridgeInv, link = "up", ctx.lost = {},
         NEW type \in DeviceChildren \cup {"IMAGE_VIEW"}, NEW d, NEW id \in Of(type, d)
  PROVE  At(ctx, d, id) /\ d \in Live(ctx) /\ Type(d) = "DEVICE"
<1>1. id \in Known /\ Type(id) = type /\ client.proxies[id] = d
  BY DEF Of, P
<1>2. At(ctx, d, id) /\ Type(d) = "DEVICE"
  BY <1>1, ProxyAt
<1> QED
  BY <1>2 DEF At

\* So are the children of its pools.
LEMMA OnDeviceAt ==
  ASSUME BridgeInv, link = "up", ctx.lost = {},
         NEW type \in {"COMMAND_BUFFER", "DESCRIPTOR_SET"},
         NEW d, Type(d) = "DEVICE", NEW id \in OnDevice(type, d)
  PROVE  At(ctx, d, id)
<1>1. id \in Known /\ Type(id) = type
  BY DEF OnDevice, P
<1>2. /\ client.proxies[id] = ctx.table[id] /\ ctx.table[id] \in Live(ctx)
      /\ Type(ctx.table[id]) \in Pools /\ At(ctx, ctx.table[ctx.table[id]], id)
  BY <1>1, ProxyAt
<1>3. client.proxies[id] # d
  BY <1>2 DEF Pools
<1>4. ctx.table[id] \in Known /\ client.proxies[ctx.table[id]] = d
  BY <1>2, <1>3 DEF OnDevice
<1>5. client.proxies[ctx.table[id]] = ctx.table[ctx.table[id]]
  <2>1. Type(ctx.table[id]) \in DeviceChildren
    BY <1>2 DEF DeviceChildren
  <2> QED
    BY <1>4, <2>1, ProxyAt
<1> QED
  BY <1>2, <1>4, <1>5

\* The images the client takes for a device's, when they live, are images of it.
LEMMA ImageFacts ==
  ASSUME BridgeInv, link = "up", NEW d, NEW i \in image_owned_by_device_locked(d)
  PROVE  /\ i \in Live(ctx) => Type(i) = "IMAGE"
         /\ ctx.lost = {} => At(ctx, d, i) /\ ctx.table[i] = d
<1>0. ContextKnown(ctx) /\ InStep(ctx, client)
  BY DEF BridgeInv
<1>1. CASE i \in Of("IMAGE", d)
  <2>1. Type(i) = "IMAGE" /\ i \in Known /\ client.proxies[i] = d
    BY <1>1 DEF Of, P
  <2>2. "IMAGE" \in DeviceChildren
    BY DEF DeviceChildren
  <2> QED
    BY <2>1, <2>2, ProxyAt
<1>2. CASE i \notin Of("IMAGE", d)
  <2>1. PICK s \in Of("SWAPCHAIN", d) : i \in client.chains[s]
    BY <1>2 DEF image_owned_by_device_locked
  <2>2. s \in Known /\ Type(s) = "SWAPCHAIN" /\ client.proxies[s] = d
    BY <2>1 DEF Of, P
  <2>3. s \in DOMAIN client.chains
    BY <1>0, <2>2 DEF InStep, ClientChainsKnown, Known
  <2>4. CASE s \in ctx.lost
    BY <1>0, <2>1, <2>3, <2>4 DEF InStep, ClientChainsKnown, ContextKnown, TableKnown
  <2>5. CASE s \notin ctx.lost
    <3>1. i \in ctx.chain[s]
      BY <1>0, <2>1, <2>3, <2>5 DEF InStep, ClientChainsKnown
    <3>2. "SWAPCHAIN" \in DeviceChildren /\ "IMAGE" \in DeviceChildren
      BY DEF DeviceChildren
    <3>3. At(ctx, d, s) /\ ctx.table[s] = d
      BY <2>2, <2>5, <3>2, ProxyAt
    <3>4. s \in DOMAIN ctx.chain
      BY <1>0, <2>2, <3>3 DEF ContextKnown, ChainsKnown, OfType, At
    <3>5. i \in Live(ctx) /\ Type(i) = "IMAGE" /\ ctx.table[i] = d
      BY <1>0, <3>1, <3>3, <3>4 DEF ContextKnown, ChainsKnown, OfType
    <3>6. DeviceOf(ctx, i) = ctx.table[i]
      BY <1>0, <3>2, <3>5, DeviceOfFacts
    <3> QED
      BY <3>3, <3>5, <3>6 DEF At
  <2> QED
    BY <2>4, <2>5
<1> QED
  BY <1>1, <1>2

\* A live object the client lists resolves with its parent.
LEMMA ChildResolves ==
  ASSUME BridgeInv, link = "up", NEW id \in Known, id \notin ctx.lost,
         Type(id) \notin {"SURFACE", "INSTANCE"}
  PROVE  /\ id \in Live(ctx) /\ ctx.table[id] \in Live(ctx)
         /\ resolve_device_child(ctx, id)
<1>1. id \in Live(ctx) /\ ContextKnown(ctx)
  BY ListedLive DEF BridgeInv
<1>2. ctx.table[id] \in Live(ctx)
  BY <1>1, ParentFacts
<1> QED
  BY <1>1, <1>2 DEF resolve_device_child

\* A command buffer resolves with its pool.
LEMMA CommandBufferResolves ==
  ASSUME BridgeInv, link = "up", NEW cb \in Known, cb \notin ctx.lost,
         Type(cb) = "COMMAND_BUFFER"
  PROVE  resolve_command_buffer(ctx, cb) = "SUCCESS"
<1>1. resolve_device_child(ctx, cb) /\ cb \in Live(ctx) /\ ContextKnown(ctx)
  BY ChildResolves DEF BridgeInv
<1>2. ctx.table[cb] \in Live(ctx) /\ ctx.table[ctx.table[cb]] \in Live(ctx)
  BY <1>1, DeviceOfFacts DEF Grandchildren, OfType
<1> QED
  BY <1>1, <1>2 DEF resolve_command_buffer, resolve_command_pool, resolve_device_child

\* Calls about a listed object that change nothing.
LEMMA ServedUse ==
  ASSUME BridgeInv, NEW id \in Known, Type(id) # "SURFACE", NEW S,
         Uses(Served(ctx, S)), \A o \in S : o.ctx = ctx,
         link = "up" /\ ctx.lost = {} => \A o \in S : o.status \notin Disagreement
  PROVE  BridgeInv'
<1>1. ASSUME link = "up" PROVE Harmless(ctx, Served(ctx, S))
  <2>1. ASSUME NEW o \in Served(ctx, S) PROVE o.ctx = ctx
    BY DEF Served, Fails, Outcome
  <2>2. CASE ctx.lost = {}
    BY <1>1, <2>1, <2>2, ListedServed DEF Harmless
  <2>3. CASE ctx.lost # {}
    BY <2>1, <2>3 DEF Harmless
  <2> QED
    BY <2>2, <2>3
<1> QED
  BY <1>1, UsesKeep

\* Those with one status.
LEMMA StatusUse ==
  ASSUME BridgeInv, NEW id \in Known, Type(id) # "SURFACE", NEW status,
         Uses(Served(ctx, Fails(ctx, status))),
         link = "up" /\ ctx.lost = {} => status \notin Disagreement
  PROVE  BridgeInv'
<1>1. \A o \in Fails(ctx, status) : o.ctx = ctx /\ o.status = status
  BY DEF Fails, Outcome
<1>2. link = "up" /\ ctx.lost = {} =>
        \A o \in Fails(ctx, status) : o.status \notin Disagreement
  BY <1>1
<1> QED
  BY <1>1, <1>2, ServedUse

\* Success is no disagreement.
LEMMA Agreement ==
  /\ "SUCCESS" \notin Disagreement /\ "REFUSED" \notin Disagreement
  /\ "EIO" \notin Disagreement /\ "EBUSY" \notin Disagreement
  /\ "ENOSPC" \notin Disagreement /\ "EINVAL" \notin Disagreement
  /\ "EAGAIN" \notin Disagreement /\ "EPIPE" \notin Disagreement
BY DEF Disagreement

\* Queries about a physical device.
LEMMA PhysicalUse ==
  ASSUME BridgeInv, NEW p \in P("PHYSICAL_DEVICE"),
         Uses(Served(ctx, Fails(ctx, resolve_physical_device(ctx, p))))
  PROVE  BridgeInv'
<1>1. p \in Known /\ Type(p) = "PHYSICAL_DEVICE"
  BY DEF P
<1>2. link = "up" /\ ctx.lost = {} => resolve_physical_device(ctx, p) = "SUCCESS"
  BY <1>1, ChildResolves DEF resolve_physical_device
<1> QED
  BY <1>1, <1>2, Agreement, StatusUse

\* Calls about one child.
LEMMA ChildUse ==
  ASSUME BridgeInv, NEW id \in Known, Type(id) \notin {"SURFACE", "INSTANCE"},
         Uses(Served(ctx, Fails(ctx, IF resolve_device_child(ctx, id) THEN "SUCCESS"
                                     ELSE "ENOENT")))
  PROVE  BridgeInv'
<1>1. link = "up" /\ ctx.lost = {} => resolve_device_child(ctx, id)
  BY ChildResolves
<1>2. link = "up" /\ ctx.lost = {} =>
        (IF resolve_device_child(ctx, id) THEN "SUCCESS" ELSE "ENOENT") \notin Disagreement
  BY <1>1, Agreement
<1>3. Type(id) # "SURFACE"
  OBVIOUS
<1> QED
  BY <1>2, <1>3, StatusUse

\* Calls about one device and objects of it.
LEMMA DeviceUse ==
  ASSUME BridgeInv, NEW id \in Known, Type(id) # "SURFACE", NEW d, NEW ids,
         Uses(Served(ctx, UsedOf(ctx, d, ids))),
         link = "up" /\ ctx.lost = {} => d \in Live(ctx) /\ \A x \in ids : At(ctx, d, x)
  PROVE  BridgeInv'
<1>1. link = "up" /\ ctx.lost = {} => Resolved(ctx, d, ids) = "SUCCESS"
  BY AtResolved
<1>2. Uses(Served(ctx, Fails(ctx, Resolved(ctx, d, ids))))
  BY DEF UsedOf, Used
<1> QED
  BY <1>1, <1>2, Agreement, StatusUse

\* Commands recorded one at a time.
LEMMA RecordUse ==
  ASSUME BridgeInv, NEW d \in P("DEVICE"), NEW cb \in OnDevice("COMMAND_BUFFER", d),
         NEW ids, Uses(Served(ctx, Recorded(ctx, cb, ids))),
         link = "up" /\ ctx.lost = {} => \A x \in ids : At(ctx, d, x)
  PROVE  BridgeInv'
<1>1. cb \in Known /\ Type(cb) = "COMMAND_BUFFER" /\ Type(d) = "DEVICE"
  BY DEF OnDevice, P
<1>2. ASSUME NEW o \in Recorded(ctx, cb, ids) PROVE o.ctx = ctx
  BY DEF Recorded, UsedOf, Used, Fails, Outcome
<1>3. ASSUME link = "up", ctx.lost = {}, NEW o \in Recorded(ctx, cb, ids)
      PROVE  o.status \notin Disagreement
  <2>1. resolve_command_buffer(ctx, cb) = "SUCCESS"
    BY <1>1, <1>3, CommandBufferResolves
  <2>2. At(ctx, d, cb)
    BY <1>1, <1>3, OnDeviceAt
  <2>3. Resolved(ctx, d, ids) = "SUCCESS"
    BY <1>3, <2>2, AtResolved DEF At
  <2> QED
    BY <2>1, <2>2, <2>3, Agreement DEF Recorded, UsedOf, Used, Fails, Outcome, At
<1> QED
  BY <1>1, <1>2, <1>3, ServedUse

(***************************************************************************)
(* The calls that change nothing, call by call.                            *)
(***************************************************************************)

\* The queries about physical devices (the vkGetPhysicalDevice* entry points).
LEMMA PhysicalQueries ==
  ASSUME BridgeInv,
         \/ vkGetPhysicalDeviceProperties \/ vkGetPhysicalDeviceQueueFamilyProperties
         \/ vkGetPhysicalDeviceMemoryProperties \/ vkEnumerateDeviceExtensionProperties
         \/ vkGetPhysicalDeviceFeatures \/ vkGetPhysicalDeviceFeatures2
         \/ vkGetPhysicalDeviceFormatProperties
         \/ vkGetPhysicalDeviceImageFormatProperties
         \/ vkGetPhysicalDeviceExternalBufferProperties
         \/ vkGetPhysicalDeviceExternalSemaphoreProperties
         \/ vkGetPhysicalDeviceSurfaceCapabilitiesKHR
  PROVE  BridgeInv'
<1> USE DEF Used
<1>1. CASE vkGetPhysicalDeviceProperties
  BY <1>1, PhysicalUse DEF vkGetPhysicalDeviceProperties,
     answer_vulkan_physical_device_properties, get_physical_device_properties
<1>2. CASE vkGetPhysicalDeviceQueueFamilyProperties
  BY <1>2, PhysicalUse DEF vkGetPhysicalDeviceQueueFamilyProperties,
     answer_vulkan_queue_family_properties, get_queue_family_properties
<1>3. CASE vkGetPhysicalDeviceMemoryProperties
  BY <1>3, PhysicalUse DEF vkGetPhysicalDeviceMemoryProperties,
     answer_vulkan_memory_properties, get_memory_properties
<1>4. CASE vkEnumerateDeviceExtensionProperties
  BY <1>4, PhysicalUse DEF vkEnumerateDeviceExtensionProperties,
     answer_vulkan_device_extensions, enumerate_device_extensions
<1>5. CASE vkGetPhysicalDeviceFeatures
  BY <1>5, PhysicalUse DEF vkGetPhysicalDeviceFeatures,
     answer_vulkan_physical_device_features, get_physical_device_features
<1>6. CASE vkGetPhysicalDeviceFeatures2
  BY <1>6, PhysicalUse DEF vkGetPhysicalDeviceFeatures2,
     answer_vulkan_core_features, get_core_features
<1>7. CASE vkGetPhysicalDeviceImageFormatProperties
  BY <1>7, PhysicalUse DEF vkGetPhysicalDeviceImageFormatProperties,
     answer_vulkan_image_format_properties, get_image_format_properties
<1>8. CASE vkGetPhysicalDeviceExternalBufferProperties
  BY <1>8, PhysicalUse DEF vkGetPhysicalDeviceExternalBufferProperties,
     answer_vulkan_external_buffer_properties, get_external_buffer_properties
<1>9. CASE vkGetPhysicalDeviceExternalSemaphoreProperties
  BY <1>9, PhysicalUse DEF vkGetPhysicalDeviceExternalSemaphoreProperties,
     answer_vulkan_external_semaphore_properties, get_external_semaphore_properties
<1>10. CASE vkGetPhysicalDeviceFormatProperties
  <2>1. PICK p \in P("PHYSICAL_DEVICE") : Uses(answer_vulkan_format_properties(ctx, p))
    BY <1>10 DEF vkGetPhysicalDeviceFormatProperties
  <2>2. answer_vulkan_format_properties(ctx, p)
          = Served(ctx, Fails(ctx, resolve_physical_device(ctx, p)))
    BY DEF answer_vulkan_format_properties, get_format_properties, get_format_properties_3
  <2> QED
    BY <2>1, <2>2, PhysicalUse
<1>11. CASE vkGetPhysicalDeviceSurfaceCapabilitiesKHR
  <2>1. Uses(answer_activity_status(ctx))
    BY <1>11 DEF vkGetPhysicalDeviceSurfaceCapabilitiesKHR
  <2>2. link = "up" => answer_activity_status(ctx) = Fails(ctx, "SUCCESS")
    BY DEF answer_activity_status, BridgeInv, Succeeds
  <2>3. Harmless(ctx, Fails(ctx, "SUCCESS"))
    BY Agreement DEF Harmless, Fails, Outcome
  <2> QED
    BY <2>1, <2>2, <2>3, UsesKeep
<1> QED
  BY <1>1, <1>2, <1>3, <1>4, <1>5, <1>6, <1>7, <1>8, <1>9, <1>10, <1>11

\* Calls about one object (requirements, fences, pools, command buffers).
LEMMA ObjectQueries ==
  ASSUME BridgeInv,
         \/ vkDeviceWaitIdle \/ queue_result_operation \/ vkResetCommandPool
         \/ vkBeginCommandBuffer \/ vkEndCommandBuffer
         \/ vkGetQueryPoolResults \/ vkResetQueryPool
         \/ vkGetBufferMemoryRequirements \/ vkGetDeviceBufferMemoryRequirements
         \/ vkGetBufferMemoryRequirements2 \/ vkGetBufferDeviceAddress
         \/ bvb_verify_memory_fill
         \/ vkGetImageMemoryRequirements \/ vkGetImageMemoryRequirements2
         \/ fence_result_operation \/ vkWaitForFences \/ vkGetSemaphoreCounterValue
  PROVE  BridgeInv'
<1> USE DEF P, Used
<1>1. CASE vkDeviceWaitIdle
  <2>1. PICK d \in P("DEVICE") : Uses(Served(ctx, UsedOf(ctx, d, {})))
    BY <1>1 DEF vkDeviceWaitIdle, answer_vulkan_device_wait_idle, device_wait_idle
  <2>2. d \in Known /\ Type(d) = "DEVICE"
    OBVIOUS
  <2>3. link = "up" /\ ctx.lost = {} => d \in Live(ctx) /\ \A x \in {} : At(ctx, d, x)
    BY <2>2, ListedLive
  <2> QED
    BY <2>1, <2>2, <2>3, DeviceUse
<1>2. CASE queue_result_operation
  <2>1. PICK q \in P("QUEUE") : Uses(answer_vulkan_queue_operation(ctx, q))
    BY <1>2 DEF queue_result_operation
  <2>2. answer_vulkan_queue_operation(ctx, q)
          = Served(ctx, Fails(ctx, IF resolve_device_child(ctx, q) THEN "SUCCESS"
                                   ELSE "ENOENT"))
    BY DEF answer_vulkan_queue_operation, queue_submit_empty, queue_wait_idle, resolve_queue
  <2> QED
    BY <2>1, <2>2, ChildUse
<1>3. CASE vkResetCommandPool
  BY <1>3, ChildUse DEF vkResetCommandPool, answer_vulkan_command_pool_reset,
     reset_command_pool, resolve_command_pool
<1>4. CASE vkBeginCommandBuffer
  <2>1. PICK cb \in P("COMMAND_BUFFER") :
          Uses(Served(ctx, Fails(ctx, resolve_command_buffer(ctx, cb))))
    BY <1>4 DEF vkBeginCommandBuffer, answer_vulkan_command_buffer_begin, begin_command_buffer
  <2>2. link = "up" /\ ctx.lost = {} => resolve_command_buffer(ctx, cb) = "SUCCESS"
    BY CommandBufferResolves
  <2> QED
    BY <2>1, <2>2, Agreement, StatusUse
<1>5. CASE vkEndCommandBuffer
  <2>1. PICK cb \in P("COMMAND_BUFFER") :
          Uses(Served(ctx, Fails(ctx, resolve_command_buffer(ctx, cb))))
    BY <1>5 DEF vkEndCommandBuffer, answer_vulkan_command_buffer_end, end_command_buffer
  <2>2. link = "up" /\ ctx.lost = {} => resolve_command_buffer(ctx, cb) = "SUCCESS"
    BY CommandBufferResolves
  <2> QED
    BY <2>1, <2>2, Agreement, StatusUse
<1>6. CASE vkGetQueryPoolResults \/ vkResetQueryPool
  <2>1. PICK q \in P("QUERY_POOL") :
          Uses(Served(ctx, IF q \notin ctx.meta THEN Fails(ctx, "EPROTO")
                           ELSE UsedOf(ctx, DeviceOf(ctx, q), {q})))
    BY <1>6 DEF vkGetQueryPoolResults, answer_vulkan_query_pool_results,
       get_query_pool_results, vkResetQueryPool, answer_vulkan_query_pool_reset,
       reset_query_pool, query_pool_metadata_find
  <2>2. q \in Known /\ Type(q) = "QUERY_POOL" /\ Type(q) # "SURFACE"
        /\ Type(q) \in DeviceChildren /\ Type(q) \in Described
    BY DEF DeviceChildren, Described
  <2>3. PICK S : S = IF q \notin ctx.meta THEN Fails(ctx, "EPROTO")
                     ELSE UsedOf(ctx, DeviceOf(ctx, q), {q})
    OBVIOUS
  <2>4. ASSUME NEW o \in S PROVE o.ctx = ctx
    BY <2>3 DEF UsedOf, Fails, Outcome
  <2>5. ASSUME link = "up", ctx.lost = {}, NEW o \in S PROVE o.status \notin Disagreement
    <3>1. At(ctx, client.proxies[q], q)
      BY <2>2, <2>5, ProxyAt
    <3>2. q \in ctx.meta
      BY <2>2, <2>5, <3>1 DEF BridgeInv, ContextKnown, NativesKnown, At
    <3>3. Resolved(ctx, DeviceOf(ctx, q), {q}) = "SUCCESS"
      BY <3>1, AtResolved DEF At
    <3> QED
      BY <2>3, <3>2, <3>3, Agreement DEF UsedOf, Fails, Outcome
  <2> QED
    BY <2>1, <2>2, <2>3, <2>4, <2>5, ServedUse
<1>7. CASE vkGetBufferMemoryRequirements
  BY <1>7, ChildUse DEF vkGetBufferMemoryRequirements, answer_vulkan_buffer_requirements,
     get_buffer_requirements
<1>8. CASE vkGetDeviceBufferMemoryRequirements
  <2>1. PICK d \in P("DEVICE") : Uses(Served(ctx, UsedOf(ctx, d, {})))
    BY <1>8 DEF vkGetDeviceBufferMemoryRequirements,
       answer_vulkan_device_buffer_requirements, get_device_buffer_requirements
  <2>2. d \in Known /\ Type(d) = "DEVICE"
    OBVIOUS
  <2>3. link = "up" /\ ctx.lost = {} => d \in Live(ctx) /\ \A x \in {} : At(ctx, d, x)
    BY <2>2, ListedLive
  <2> QED
    BY <2>1, <2>2, <2>3, DeviceUse
<1>9. CASE vkGetBufferMemoryRequirements2
  BY <1>9, ChildUse DEF vkGetBufferMemoryRequirements2,
     answer_vulkan_buffer_requirements_2, get_buffer_requirements_2
<1>10. CASE vkGetBufferDeviceAddress
  <2>1. PICK b \in P("BUFFER") :
          Uses(Served(ctx, get_buffer_device_address(ctx, b)))
    BY <1>10 DEF vkGetBufferDeviceAddress, answer_vulkan_buffer_device_address
  <2>2. ASSUME NEW o \in get_buffer_device_address(ctx, b) PROVE o.ctx = ctx
    BY DEF get_buffer_device_address, Fails, Outcome, Succeeds
  <2>3. ASSUME link = "up", ctx.lost = {}, NEW o \in get_buffer_device_address(ctx, b)
        PROVE  o.status \notin Disagreement
    <3>1. resolve_device_child(ctx, b)
      BY <2>3, ChildResolves
    <3> QED
      BY <3>1, Agreement DEF get_buffer_device_address, Fails, Outcome, Succeeds
  <2> QED
    BY <2>1, <2>2, <2>3, ServedUse
<1>11. CASE bvb_verify_memory_fill
  <2>1. PICK m \in P("DEVICE_MEMORY") :
          Uses(Served(ctx, verify_memory_fill(ctx, m)))
    BY <1>11 DEF bvb_verify_memory_fill, answer_vulkan_memory_verify_fill
  <2>2. ASSUME NEW o \in verify_memory_fill(ctx, m) PROVE o.ctx = ctx
    BY DEF verify_memory_fill, Fails, Outcome
  <2>3. ASSUME link = "up", ctx.lost = {}, NEW o \in verify_memory_fill(ctx, m)
        PROVE  o.status \notin Disagreement
    <3>1. resolve_device_child(ctx, m)
      BY <2>3, ChildResolves
    <3> QED
      BY <3>1, Agreement DEF verify_memory_fill, Fails, Outcome, Disagreement
  <2> QED
    BY <2>1, <2>2, <2>3, ServedUse
<1>12. CASE vkGetImageMemoryRequirements
  BY <1>12, ChildUse DEF vkGetImageMemoryRequirements, answer_vulkan_image_requirements,
     get_image_requirements
<1>13. CASE vkGetImageMemoryRequirements2
  BY <1>13, ChildUse DEF vkGetImageMemoryRequirements2,
     answer_vulkan_image_requirements_2, get_image_requirements_2
<1>14. CASE fence_result_operation
  <2>1. PICK f \in P("FENCE") : Uses(answer_vulkan_fence_operation(ctx, f))
    BY <1>14 DEF fence_result_operation
  <2>2. answer_vulkan_fence_operation(ctx, f)
          = Served(ctx, Fails(ctx, IF resolve_device_child(ctx, f) THEN "SUCCESS"
                                   ELSE "ENOENT"))
    BY DEF answer_vulkan_fence_operation, get_fence_status, reset_fence
  <2> QED
    BY <2>1, <2>2, ChildUse
<1>15. CASE vkWaitForFences
  BY <1>15, ChildUse DEF vkWaitForFences, answer_vulkan_fence_wait, wait_fence
<1>16. CASE vkGetSemaphoreCounterValue
  BY <1>16, ChildUse DEF vkGetSemaphoreCounterValue, answer_vulkan_semaphore_counter,
     get_semaphore_counter
<1> QED
  BY <1>1, <1>2, <1>3, <1>4, <1>5, <1>6, <1>7, <1>8, <1>9, <1>10, <1>11, <1>12, <1>13,
     <1>14, <1>15, <1>16


\* One element at most of a set.
LEMMA AtMostOneFacts ==
  ASSUME NEW S, NEW T \in AtMostOne(S)
  PROVE  T \subseteq S
BY DEF AtMostOne

\* The types the calls about several objects name.
LEMMA DeviceChildTypes ==
  /\ "SAMPLER" \in DeviceChildren /\ "UPDATE_TEMPLATE" \in DeviceChildren
  /\ "BUFFER" \in DeviceChildren /\ "DEVICE_MEMORY" \in DeviceChildren
  /\ "IMAGE" \in DeviceChildren /\ "PIPELINE_LAYOUT" \in DeviceChildren
  /\ "PIPELINE" \in DeviceChildren /\ "QUERY_POOL" \in DeviceChildren
  /\ "SEMAPHORE" \in DeviceChildren /\ "FENCE" \in DeviceChildren
  /\ "QUEUE" \in DeviceChildren /\ "SWAPCHAIN" \in DeviceChildren
  /\ "DESCRIPTOR_SET_LAYOUT" \in DeviceChildren
  /\ "COMMAND_POOL" \in DeviceChildren /\ "DESCRIPTOR_POOL" \in DeviceChildren
BY DEF DeviceChildren, Pools

\* Commands recorded one exchange at a time (vkCmd*).
LEMMA RecordingCalls ==
  ASSUME BridgeInv,
         \/ vkCmdFillBuffer \/ vkCmdPipelineBarrier2 \/ vkCmdClearColorImage
         \/ vkCmdBindDescriptorSets \/ submit_single_render_record
  PROVE  BridgeInv'
<1>1. CASE vkCmdFillBuffer
  <2>0. PICK d \in P("DEVICE") :
         \E cb \in OnDevice("COMMAND_BUFFER", d), b \in Of("BUFFER", d) :
          Uses(Served(ctx, Recorded(ctx, cb, {b})))
    BY <1>1 DEF vkCmdFillBuffer, answer_vulkan_command_buffer_fill, command_buffer_fill
  <2>1. PICK cb \in OnDevice("COMMAND_BUFFER", d), b \in Of("BUFFER", d) :
          Uses(Served(ctx, Recorded(ctx, cb, {b})))
    BY <2>0
  <2>2. link = "up" /\ ctx.lost = {} => At(ctx, d, b)
    BY DeviceChildTypes, OfAt
  <2> QED
    BY <2>1, <2>2, RecordUse
<1>2. CASE vkCmdPipelineBarrier2
  <2>0. PICK d \in P("DEVICE") :
         \E cb \in OnDevice("COMMAND_BUFFER", d),
             i \in image_owned_by_device_locked(d) :
          Uses(Served(ctx, Recorded(ctx, cb, {i})))
    BY <1>2 DEF vkCmdPipelineBarrier2, answer_vulkan_command_buffer_image_barrier,
       command_buffer_image_barrier
  <2>1. PICK cb \in OnDevice("COMMAND_BUFFER", d),
             i \in image_owned_by_device_locked(d) :
          Uses(Served(ctx, Recorded(ctx, cb, {i})))
    BY <2>0
  <2>2. link = "up" /\ ctx.lost = {} => At(ctx, d, i)
    BY ImageFacts
  <2> QED
    BY <2>1, <2>2, RecordUse
<1>3. CASE vkCmdClearColorImage
  <2>0. PICK d \in P("DEVICE") :
         \E cb \in OnDevice("COMMAND_BUFFER", d),
             i \in image_owned_by_device_locked(d) :
          Uses(Served(ctx, Recorded(ctx, cb, {i})))
    BY <1>3 DEF vkCmdClearColorImage, answer_vulkan_command_buffer_clear_color_image,
       command_buffer_clear_color_image
  <2>1. PICK cb \in OnDevice("COMMAND_BUFFER", d),
             i \in image_owned_by_device_locked(d) :
          Uses(Served(ctx, Recorded(ctx, cb, {i})))
    BY <2>0
  <2>2. link = "up" /\ ctx.lost = {} => At(ctx, d, i)
    BY ImageFacts
  <2> QED
    BY <2>1, <2>2, RecordUse
<1>4. CASE vkCmdBindDescriptorSets
  <2>0. PICK d \in P("DEVICE") :
         \E cb \in OnDevice("COMMAND_BUFFER", d),
             layout \in Of("PIPELINE_LAYOUT", d),
             sets \in AtMostOne(OnDevice("DESCRIPTOR_SET", d)) :
          Uses(Served(ctx, Recorded(ctx, cb, {layout} \cup sets)))
    BY <1>4 DEF vkCmdBindDescriptorSets,
       answer_vulkan_command_buffer_bind_descriptor_sets,
       command_buffer_bind_descriptor_sets
  <2>1. PICK cb \in OnDevice("COMMAND_BUFFER", d),
             layout \in Of("PIPELINE_LAYOUT", d),
             sets \in AtMostOne(OnDevice("DESCRIPTOR_SET", d)) :
          Uses(Served(ctx, Recorded(ctx, cb, {layout} \cup sets)))
    BY <2>0
  <2>2. link = "up" /\ ctx.lost = {} => At(ctx, d, layout)
    BY DeviceChildTypes, OfAt
  <2>3. Type(d) = "DEVICE" /\ sets \subseteq OnDevice("DESCRIPTOR_SET", d)
    BY AtMostOneFacts DEF P
  <2>4. link = "up" /\ ctx.lost = {} => \A x \in sets : At(ctx, d, x)
    BY <2>3, OnDeviceAt
  <2>5. link = "up" /\ ctx.lost = {} => \A x \in {layout} \cup sets : At(ctx, d, x)
    BY <2>2, <2>4
  <2> QED
    BY <2>1, <2>5, RecordUse
<1>5. CASE submit_single_render_record
  <2>0. PICK d \in P("DEVICE") :
         \E cb \in OnDevice("COMMAND_BUFFER", d),
             uses \in AtMostOne(Of("PIPELINE", d) \cup Of("BUFFER", d)
                        \cup Of("IMAGE_VIEW", d) \cup Of("QUERY_POOL", d)) :
          Uses(Served(ctx, Recorded(ctx, cb, uses)))
    BY <1>5 DEF submit_single_render_record,
       answer_vulkan_command_buffer_immediate_record, execute_immediate_record
  <2>1. PICK cb \in OnDevice("COMMAND_BUFFER", d),
             uses \in AtMostOne(Of("PIPELINE", d) \cup Of("BUFFER", d)
                        \cup Of("IMAGE_VIEW", d) \cup Of("QUERY_POOL", d)) :
          Uses(Served(ctx, Recorded(ctx, cb, uses)))
    BY <2>0
  <2>2. uses \subseteq Of("PIPELINE", d) \cup Of("BUFFER", d)
                        \cup Of("IMAGE_VIEW", d) \cup Of("QUERY_POOL", d)
    BY AtMostOneFacts
  <2>3. link = "up" /\ ctx.lost = {} => \A x \in uses : At(ctx, d, x)
    BY <2>2, DeviceChildTypes, OfAt
  <2> QED
    BY <2>1, <2>3, RecordUse
<1> QED
  BY <1>1, <1>2, <1>3, <1>4, <1>5

\* Descriptor updates, by writes or through a template.
LEMMA UpdateCalls ==
  ASSUME BridgeInv, vkUpdateDescriptorSets \/ vkUpdateDescriptorSetWithTemplate
  PROVE  BridgeInv'
<1>1. CASE vkUpdateDescriptorSets
  <2>0. PICK d \in P("DEVICE") :
         \E set \in OnDevice("DESCRIPTOR_SET", d),
             s \in Of("SAMPLER", d) :
          Uses(Served(ctx, UsedOf(ctx, d, {set} \cup {s})))
    BY <1>1 DEF vkUpdateDescriptorSets, answer_vulkan_descriptor_update,
       update_descriptors
  <2>1. PICK set \in OnDevice("DESCRIPTOR_SET", d),
             s \in Of("SAMPLER", d) :
          Uses(Served(ctx, UsedOf(ctx, d, {set} \cup {s})))
    BY <2>0
  <2>2. d \in Known /\ Type(d) = "DEVICE" /\ Type(d) # "SURFACE"
    BY DEF P
  <2>3. link = "up" /\ ctx.lost = {} => At(ctx, d, set)
    BY <2>2, OnDeviceAt
  <2>4. link = "up" /\ ctx.lost = {} => At(ctx, d, s) /\ d \in Live(ctx)
    BY DeviceChildTypes, OfAt
  <2>5. link = "up" /\ ctx.lost = {} =>
          d \in Live(ctx) /\ \A x \in {set} \cup {s} : At(ctx, d, x)
    BY <2>3, <2>4
  <2> QED
    BY <2>1, <2>2, <2>5, DeviceUse
<1>2. CASE vkUpdateDescriptorSetWithTemplate
  <2>0. PICK d \in P("DEVICE") :
         \E set \in OnDevice("DESCRIPTOR_SET", d),
             t \in Of("UPDATE_TEMPLATE", d), views \in AtMostOne(Of("IMAGE_VIEW", d)),
             others \in AtMostOne(Of("BUFFER", d) \cup Of("SAMPLER", d)) :
          Uses(Served(ctx, update_descriptor_set_with_template(ctx, d, set, t, views,
                                                               others)))
    BY <1>2 DEF vkUpdateDescriptorSetWithTemplate,
       answer_vulkan_descriptor_template_update
  <2>1. PICK set \in OnDevice("DESCRIPTOR_SET", d),
             t \in Of("UPDATE_TEMPLATE", d), views \in AtMostOne(Of("IMAGE_VIEW", d)),
             others \in AtMostOne(Of("BUFFER", d) \cup Of("SAMPLER", d)) :
          Uses(Served(ctx, update_descriptor_set_with_template(ctx, d, set, t, views,
                                                               others)))
    BY <2>0
  <2>2. d \in Known /\ Type(d) = "DEVICE" /\ Type(d) # "SURFACE"
    BY DEF P
  <2>3. PICK S : S = update_descriptor_set_with_template(ctx, d, set, t, views, others)
    OBVIOUS
  <2>4. ASSUME NEW o \in S PROVE o.ctx = ctx
    BY <2>3 DEF update_descriptor_set_with_template, Used, Fails, Outcome
  <2>5. ASSUME link = "up", ctx.lost = {}, NEW o \in S PROVE o.status \notin Disagreement
    <3>1. At(ctx, d, set)
      BY <2>2, <2>5, OnDeviceAt
    <3>2. At(ctx, d, t) /\ d \in Live(ctx)
      BY <2>5, DeviceChildTypes, OfAt
    <3>3. others \subseteq Of("BUFFER", d) \cup Of("SAMPLER", d)
          /\ views \subseteq Of("IMAGE_VIEW", d)
      BY AtMostOneFacts
    <3>4. \A x \in others : At(ctx, d, x)
      BY <2>5, <3>3, DeviceChildTypes, OfAt
    <3>5. \A v \in views : At(ctx, d, v)
      BY <2>5, <3>3, OfAt
    <3>6. Resolved(ctx, d, {set, t} \cup others) = "SUCCESS"
      BY <3>1, <3>2, <3>4, AtResolved
    <3>7. \A v \in views : Resolved(ctx, d, {v}) = "SUCCESS"
      BY <3>2, <3>5, AtResolved
    <3>8. {v \in views : descriptor_template_resolve_image_view(ctx, d, v)
                          # "SUCCESS"} = {}
      BY <3>7 DEF descriptor_template_resolve_image_view
    <3>9. S = Fails(ctx, "SUCCESS")
      BY <2>3, <3>6, <3>8, Zenon DEF update_descriptor_set_with_template, Used
    <3> QED
      BY <3>9, Agreement DEF Fails, Outcome
  <2> QED
    BY <2>1, <2>2, <2>3, <2>4, <2>5, ServedUse
<1> QED
  BY <1>1, <1>2

\* Binding image memory.
LEMMA BindImageCall ==
  ASSUME BridgeInv, vkBindImageMemory
  PROVE  BridgeInv'
<1>0. PICK i \in P("IMAGE") :
       \E m \in Of("DEVICE_MEMORY", client.proxies[i]) :
        Uses(Served(ctx, bind_image_memory(ctx, i, m)))
  BY DEF vkBindImageMemory, answer_vulkan_image_bind
<1>1. PICK m \in Of("DEVICE_MEMORY", client.proxies[i]) :
        Uses(Served(ctx, bind_image_memory(ctx, i, m)))
  BY <1>0
<1>2. i \in Known /\ Type(i) = "IMAGE" /\ Type(i) # "SURFACE"
  BY DEF P
<1>3. ASSUME NEW o \in bind_image_memory(ctx, i, m) PROVE o.ctx = ctx
  BY DEF bind_image_memory, Fails, Outcome, Refused, Succeeds
<1>4. ASSUME link = "up", ctx.lost = {}, NEW o \in bind_image_memory(ctx, i, m)
      PROVE  o.status \notin Disagreement
  <2>1. At(ctx, client.proxies[i], i) /\ client.proxies[i] = ctx.table[i]
    BY <1>2, <1>4, DeviceChildTypes, ProxyAt
  <2>2. At(ctx, client.proxies[i], m)
    BY <1>4, DeviceChildTypes, OfAt
  <2>3. Resolved(ctx, ctx.table[i], {i, m}) = "SUCCESS" /\ i \in Live(ctx)
    BY <2>1, <2>2, AtResolved DEF At
  <2> QED
    BY <2>3, Agreement DEF bind_image_memory, Fails, Outcome, Refused, Succeeds
<1> QED
  BY <1>1, <1>2, <1>3, <1>4, ServedUse

\* Semaphores signalled and waited for by the host.
LEMMA SemaphoreCalls ==
  ASSUME BridgeInv, vkSignalSemaphore \/ vkWaitSemaphores
  PROVE  BridgeInv'
<1>1. PICK s \in P("SEMAPHORE") :
        \/ Uses(Served(ctx, signal_semaphore(ctx, client.proxies[s], s)))
        \/ Uses(Served(ctx, wait_semaphores(ctx, client.proxies[s], {s})))
  BY DEF vkSignalSemaphore, vkWaitSemaphores, answer_vulkan_semaphore_signal,
     answer_vulkan_semaphore_wait
<1>2. s \in Known /\ Type(s) = "SEMAPHORE" /\ Type(s) # "SURFACE"
  BY DEF P
<1>3. link = "up" /\ ctx.lost = {} =>
        client.proxies[s] \in Live(ctx)
        /\ Resolved(ctx, client.proxies[s], {s}) = "SUCCESS"
  <2>1. link = "up" /\ ctx.lost = {} => At(ctx, client.proxies[s], s)
    BY <1>2, DeviceChildTypes, ProxyAt
  <2> QED
    BY <2>1, AtResolved DEF At
<1>4. CASE Uses(Served(ctx, signal_semaphore(ctx, client.proxies[s], s)))
  <2>1. PICK st : st = IF Resolved(ctx, client.proxies[s], {s}) = "SUCCESS"
                       THEN "SUCCESS" ELSE "EPROTO"
    OBVIOUS
  <2>2. Uses(Served(ctx, Fails(ctx, st)))
    BY <1>4, <2>1 DEF signal_semaphore, Used
  <2>3. link = "up" /\ ctx.lost = {} => st \notin Disagreement
    BY <1>3, <2>1, Agreement
  <2> QED
    BY <1>2, <2>2, <2>3, StatusUse
<1>5. CASE Uses(Served(ctx, wait_semaphores(ctx, client.proxies[s], {s})))
  <2>1. PICK st : st = IF client.proxies[s] \notin Live(ctx) THEN "ENOENT"
                       ELSE IF Resolved(ctx, client.proxies[s], {s}) = "SUCCESS"
                       THEN "SUCCESS" ELSE "EPROTO"
    OBVIOUS
  <2>2. Uses(Served(ctx, Fails(ctx, st)))
    BY <1>5, <2>1 DEF wait_semaphores, Used
  <2>3. link = "up" /\ ctx.lost = {} => st \notin Disagreement
    BY <1>3, <2>1, Agreement
  <2> QED
    BY <1>2, <2>2, <2>3, StatusUse
<1> QED
  BY <1>1, <1>4, <1>5

\* Submissions: everything named is on the queue's device.
LEMMA SubmitCalls ==
  ASSUME BridgeInv, vkQueueSubmit \/ vkQueueSubmit2
  PROVE  BridgeInv'
<1>0. ASSUME NEW q \in P("QUEUE"), link = "up", ctx.lost = {}
      PROVE  /\ resolve_queue(ctx, q) = "SUCCESS" /\ client.proxies[q] = ctx.table[q]
             /\ Type(ctx.table[q]) = "DEVICE" /\ ctx.table[q] \in Live(ctx)
  <2>1. q \in Known /\ Type(q) = "QUEUE"
    BY DEF P
  <2>2. At(ctx, client.proxies[q], q) /\ client.proxies[q] = ctx.table[q]
        /\ Type(client.proxies[q]) = "DEVICE"
    BY <1>0, <2>1, DeviceChildTypes, ProxyAt
  <2>3. resolve_device_child(ctx, q)
    BY <2>2 DEF At, resolve_device_child
  <2> QED
    BY <2>2, <2>3 DEF resolve_queue, At
<1>00. ASSUME NEW q \in P("QUEUE"), NEW uses, NEW S,
              S = IF resolve_queue(ctx, q) # "SUCCESS" THEN Fails(ctx, "ENOENT")
                  ELSE UsedOf(ctx, ctx.table[q], uses),
              Uses(Served(ctx, S)),
              link = "up" /\ ctx.lost = {} => \A x \in uses : At(ctx, client.proxies[q], x)
       PROVE  BridgeInv'
  <2>1. q \in Known /\ Type(q) # "SURFACE"
    BY DEF P
  <2>2. ASSUME NEW o \in S PROVE o.ctx = ctx
    BY <1>00 DEF UsedOf, Used, Fails, Outcome
  <2>3. ASSUME link = "up", ctx.lost = {}, NEW o \in S PROVE o.status \notin Disagreement
    <3>1. resolve_queue(ctx, q) = "SUCCESS" /\ client.proxies[q] = ctx.table[q]
          /\ ctx.table[q] \in Live(ctx)
      BY <1>0, <2>3
    <3>2. Resolved(ctx, ctx.table[q], uses) = "SUCCESS"
      BY <1>00, <2>3, <3>1, AtResolved
    <3> QED
      BY <1>00, <3>1, <3>2, Agreement DEF UsedOf, Used, Fails, Outcome
  <2> QED
    BY <1>00, <2>1, <2>2, <2>3, ServedUse
<1>1. CASE vkQueueSubmit
  <2>0. PICK q \in P("QUEUE") :
         \E cb \in OnDevice("COMMAND_BUFFER", client.proxies[q]),
             fence \in AtMostOne(Of("FENCE", client.proxies[q])) :
          Uses(IF fence = {} THEN answer_vulkan_queue_submit_command(ctx, q, cb)
               ELSE UNION {answer_vulkan_queue_submit_command_fence(ctx, q, cb, f) :
                             f \in fence})
    BY <1>1 DEF vkQueueSubmit
  <2>1. PICK cb \in OnDevice("COMMAND_BUFFER", client.proxies[q]),
             fence \in AtMostOne(Of("FENCE", client.proxies[q])) :
          Uses(IF fence = {} THEN answer_vulkan_queue_submit_command(ctx, q, cb)
               ELSE UNION {answer_vulkan_queue_submit_command_fence(ctx, q, cb, f) :
                             f \in fence})
    BY <2>0
  <2>2. link = "up" /\ ctx.lost = {} => At(ctx, client.proxies[q], cb)
    BY <1>0, OnDeviceAt
  <2>3. CASE fence = {}
    <3>1. PICK S : S = queue_submit_command(ctx, q, cb)
      OBVIOUS
    <3>2. Uses(Served(ctx, S))
      BY <2>1, <2>3, <3>1 DEF answer_vulkan_queue_submit_command
    <3>3. S = IF resolve_queue(ctx, q) # "SUCCESS" THEN Fails(ctx, "ENOENT")
              ELSE UsedOf(ctx, ctx.table[q], {cb})
      BY <3>1 DEF queue_submit_command
    <3>4. link = "up" /\ ctx.lost = {} => \A x \in {cb} : At(ctx, client.proxies[q], x)
      BY <2>2
    <3> QED
      BY <1>00, <3>2, <3>3, <3>4
  <2>4. CASE fence # {}
    <3>1. PICK f \in Of("FENCE", client.proxies[q]) : fence = {f}
      BY <2>4 DEF AtMostOne
    <3>2. PICK S : S = queue_submit_command_fence(ctx, q, cb, f)
      OBVIOUS
    <3>3. UNION {answer_vulkan_queue_submit_command_fence(ctx, q, cb, g) : g \in fence}
            = Served(ctx, S)
      BY <3>1, <3>2 DEF answer_vulkan_queue_submit_command_fence
    <3>4. Uses(Served(ctx, S))
      BY <2>1, <2>4, <3>3
    <3>5. S = IF resolve_queue(ctx, q) # "SUCCESS" THEN Fails(ctx, "ENOENT")
              ELSE UsedOf(ctx, ctx.table[q], {cb, f})
      BY <3>2 DEF queue_submit_command_fence
    <3>6. link = "up" /\ ctx.lost = {} => At(ctx, client.proxies[q], f)
      BY DeviceChildTypes, OfAt
    <3>7. link = "up" /\ ctx.lost = {} => \A x \in {cb, f} : At(ctx, client.proxies[q], x)
      BY <2>2, <3>6
    <3> QED
      BY <1>00, <3>4, <3>5, <3>7
  <2> QED
    BY <2>3, <2>4
<1>2. CASE vkQueueSubmit2
  <2>0. PICK q \in P("QUEUE") :
         \E cbs \in AtMostOne(OnDevice("COMMAND_BUFFER", client.proxies[q])),
             semaphores \in AtMostOne(Of("SEMAPHORE", client.proxies[q])),
             fence \in AtMostOne(Of("FENCE", client.proxies[q])) :
          Uses(answer_vulkan_queue_submit_2(ctx, q, cbs \cup semaphores \cup fence))
    BY <1>2 DEF vkQueueSubmit2
  <2>1. PICK cbs \in AtMostOne(OnDevice("COMMAND_BUFFER", client.proxies[q])),
             semaphores \in AtMostOne(Of("SEMAPHORE", client.proxies[q])),
             fence \in AtMostOne(Of("FENCE", client.proxies[q])) :
          Uses(answer_vulkan_queue_submit_2(ctx, q, cbs \cup semaphores \cup fence))
    BY <2>0
  <2>2. PICK uses : uses = cbs \cup semaphores \cup fence
    OBVIOUS
  <2>3. PICK S : S = queue_submit_2(ctx, q, uses)
    OBVIOUS
  <2>4. Uses(Served(ctx, S))
    BY <2>1, <2>2, <2>3 DEF answer_vulkan_queue_submit_2
  <2>5. S = IF resolve_queue(ctx, q) # "SUCCESS" THEN Fails(ctx, "ENOENT")
            ELSE UsedOf(ctx, ctx.table[q], uses)
    BY <2>3 DEF queue_submit_2, validate_queue_submit_2, UsedOf, Used
  <2>6. link = "up" /\ ctx.lost = {} => \A x \in cbs : At(ctx, client.proxies[q], x)
    BY <1>0, OnDeviceAt, AtMostOneFacts
  <2>7. link = "up" /\ ctx.lost = {} => \A x \in semaphores : At(ctx, client.proxies[q], x)
    BY DeviceChildTypes, OfAt, AtMostOneFacts
  <2>8. link = "up" /\ ctx.lost = {} => \A x \in fence : At(ctx, client.proxies[q], x)
    BY DeviceChildTypes, OfAt, AtMostOneFacts
  <2>9. link = "up" /\ ctx.lost = {} => \A x \in uses : At(ctx, client.proxies[q], x)
    BY <2>2, <2>6, <2>7, <2>8
  <2> QED
    BY <1>00, <2>4, <2>5, <2>9
<1> QED
  BY <1>1, <1>2

\* Acquiring and presenting swapchain images.
LEMMA FrameCalls ==
  ASSUME BridgeInv, vkAcquireNextImageKHR \/ vkQueuePresentKHR
  PROVE  BridgeInv'
<1>1. ASSUME NEW d, NEW s \in Of("SWAPCHAIN", d), link = "up", ctx.lost = {}
      PROVE  s \in DOMAIN ctx.chain /\ ctx.table[s] = d
  <2>1. s \in Known /\ Type(s) = "SWAPCHAIN" /\ client.proxies[s] = d
    BY DEF Of, P
  <2>2. At(ctx, d, s) /\ ctx.table[s] = d
    BY <1>1, <2>1, DeviceChildTypes, ProxyAt
  <2> QED
    BY <1>1, <2>1, <2>2 DEF At, BridgeInv, ContextKnown, ChainsKnown, OfType
<1>2. CASE vkAcquireNextImageKHR
  <2>0. PICK s \in P("SWAPCHAIN") :
         \E signals \in AtMostOne(Of("SEMAPHORE", client.proxies[s])
                                     \cup Of("FENCE", client.proxies[s])) :
          Uses(Served(ctx, acquire_swapchain_image(ctx, client.proxies[s], s, signals)))
    BY <1>2 DEF vkAcquireNextImageKHR, answer_vulkan_swapchain_acquire
  <2>1. PICK signals \in AtMostOne(Of("SEMAPHORE", client.proxies[s])
                                     \cup Of("FENCE", client.proxies[s])) :
          Uses(Served(ctx, acquire_swapchain_image(ctx, client.proxies[s], s, signals)))
    BY <2>0
  <2>2. s \in Known /\ Type(s) # "SURFACE" /\ s \in Of("SWAPCHAIN", client.proxies[s])
    BY DEF P, Of
  <2>3. PICK S : S = acquire_swapchain_image(ctx, client.proxies[s], s, signals)
    OBVIOUS
  <2>4. ASSUME NEW o \in S PROVE o.ctx = ctx
    BY <2>3 DEF acquire_swapchain_image, Refused, Succeeds, Fails, Outcome
  <2>5. ASSUME link = "up", ctx.lost = {}, NEW o \in S PROVE o.status \notin Disagreement
    <3>1. s \in DOMAIN ctx.chain /\ ctx.table[s] = client.proxies[s]
      BY <1>1, <2>2, <2>5
    <3> QED
      BY <2>3, <3>1, Agreement DEF acquire_swapchain_image, Refused, Succeeds, Fails, Outcome
  <2> QED
    BY <2>1, <2>2, <2>3, <2>4, <2>5, ServedUse
<1>3. CASE vkQueuePresentKHR
  <2>0. PICK q \in P("QUEUE") :
         \E s \in Of("SWAPCHAIN", client.proxies[q]),
             waits \in AtMostOne(Of("SEMAPHORE", client.proxies[q])) :
          Uses(Served(ctx, present_swapchain_image(ctx, s, q, waits)))
    BY <1>3 DEF vkQueuePresentKHR, answer_vulkan_swapchain_present
  <2>1. PICK s \in Of("SWAPCHAIN", client.proxies[q]),
             waits \in AtMostOne(Of("SEMAPHORE", client.proxies[q])) :
          Uses(Served(ctx, present_swapchain_image(ctx, s, q, waits)))
    BY <2>0
  <2>2. q \in Known /\ Type(q) # "SURFACE"
    BY DEF P
  <2>3. PICK S : S = present_swapchain_image(ctx, s, q, waits)
    OBVIOUS
  <2>4. ASSUME NEW o \in S PROVE o.ctx = ctx
    BY <2>3 DEF present_swapchain_image, Refused, Succeeds, Fails, Outcome
  <2>5. ASSUME link = "up", ctx.lost = {}, NEW o \in S PROVE o.status \notin Disagreement
    <3>1. s \in DOMAIN ctx.chain
      BY <1>1, <2>5
    <3> QED
      BY <2>3, <3>1, Agreement DEF present_swapchain_image, Refused, Succeeds, Fails, Outcome
  <2> QED
    BY <2>1, <2>2, <2>3, <2>4, <2>5, ServedUse
<1> QED
  BY <1>2, <1>3

(***************************************************************************)
(* Creations.                                                              *)
(***************************************************************************)

\* What the client adds to its lists.
LEMMA AddedFacts ==
  ASSUME NEW id, NEW p, DOMAIN client = {"proxies", "chains", "mapped"}
  PROVE  LET y == Added(id, p) IN
         /\ DOMAIN y = {"proxies", "chains", "mapped"}
         /\ DOMAIN y.proxies = Known \cup {id}
         /\ \A x \in Known : y.proxies[x] = client.proxies[x]
         /\ id \notin Known => y.proxies[id] = p
         /\ y.chains = client.chains /\ y.mapped = client.mapped
<1>1. PICK e : e = Extended(client.proxies, {id}, p)
  OBVIOUS
<1>2. PICK y : y = Added(id, p)
  OBVIOUS
<1>3. y = [client EXCEPT !.proxies = e]
  BY <1>1, <1>2 DEF Added
<1>4. y.proxies = e /\ y.chains = client.chains /\ y.mapped = client.mapped
      /\ DOMAIN y = {"proxies", "chains", "mapped"}
  BY <1>3
<1>5. DOMAIN e = Known \cup {id} /\ \A x \in Known : e[x] = client.proxies[x]
  BY <1>1 DEF Extended, Known
<1>6. id \notin Known => e[id] = p
  BY <1>1 DEF Extended, Known
<1> QED
  BY <1>2, <1>4, <1>5, <1>6

\* The parent the client lists for an object made with the parent p.
Listed(c, type, p) == IF type = "IMAGE_VIEW" THEN c.table[p] ELSE p

\* A creation whose parent fits keeps the two sides in step.
LEMMA CreatedGood ==
  ASSUME NEW c, Agreed(c, client), c.present, NEW type, NEW p, Fits(c, type, p),
         type # "SWAPCHAIN", type = "DEVICE" => p \in Known, NEW o \in Created(c, type, p)
  PROVE  Good(c, o, AddedOn(o, Listed(c, type, p)))
<1>1. CASE o \in Refused(c)
  <2>1. o.ctx = c /\ o.status = "REFUSED"
    BY <1>1 DEF Refused, Fails, Outcome
  <2>2. AddedOn(o, Listed(c, type, p)) = client
    BY <2>1 DEF AddedOn
  <2> QED
    BY <2>1, <2>2, SameGood, Agreement
<1>2. CASE o \notin Refused(c)
  <2>1. PICK id : id = Fresh(c, type)
    OBVIOUS
  <2>2. ~ Full(c, 1) /\ o = Outcome(Made(c, {id}, p), "SUCCESS", id)
    BY <1>2, <2>1 DEF Created
  <2>3. PICK x : x = Made(c, {id}, p)
    OBVIOUS
  <2>4. o.ctx = x /\ o.status = "SUCCESS" /\ o.id = id
    BY <2>2, <2>3 DEF Outcome
  <2>5. ContextKnown(c) /\ InStep(c, client) /\ DOMAIN client = {"proxies", "chains", "mapped"}
    BY DEF Agreed
  <2>6. /\ Grown(c, x, {id}, p) /\ ContextKnown(x) /\ x.chain = c.chain
        /\ id \notin Taken(c) /\ Type(id) = type
    BY <2>1, <2>2, <2>3, <2>5, MadeKnown
  <2>7. PICK y : y = Added(id, Listed(c, type, p))
    OBVIOUS
  <2>8. type # "SURFACE" /\ Type(id) # "SURFACE" /\ Type(id) # "SWAPCHAIN"
    BY <2>6 DEF Fits, ObjectTypes, DeviceChildren, Pools
  <2>9. id \notin Known
    BY <2>5, <2>6, <2>8, NewToClient DEF Known
  <2>10. /\ DOMAIN y = {"proxies", "chains", "mapped"}
         /\ DOMAIN y.proxies = DOMAIN client.proxies \cup {id}
         /\ \A z \in DOMAIN client.proxies : y.proxies[z] = client.proxies[z]
         /\ y.proxies[id] = Listed(c, type, p)
         /\ y.chains = client.chains /\ y.mapped = client.mapped
    BY <2>5, <2>7, <2>9, AddedFacts DEF Known
  <2>11. ProxyParent(x, id) = Listed(c, type, p)
    <3>1. x.table[id] = p
      BY <2>6 DEF Grown
    <3>2. type = "IMAGE_VIEW" => p \in Live(c)
      BY DEF Fits
    <3>3. type = "IMAGE_VIEW" => x.table[p] = c.table[p]
      BY <2>6, <3>2 DEF Grown
    <3> QED
      BY <2>6, <3>1, <3>3 DEF ProxyParent, Listed
  <2>12. {id} \cap Taken(c) = {} /\ DOMAIN c.chain \subseteq DOMAIN x.chain
         /\ \A s \in DOMAIN c.chain : x.chain[s] = c.chain[s]
    BY <2>6
  <2>13. {s \in {id} : Type(s) = "SWAPCHAIN"} = {}
    BY <2>8
  <2>14. DOMAIN y.chains = DOMAIN client.chains \cup {s \in {id} : Type(s) = "SWAPCHAIN"}
         /\ \A s \in DOMAIN client.chains : y.chains[s] = client.chains[s]
    BY <2>10, <2>13
  <2>16. \A z \in {id} : y.proxies[z] = ProxyParent(x, z)
    BY <2>10, <2>11
  <2>17. InStep(x, y)
    <3>1. PICK N : N = {id}
      OBVIOUS
    <3>2. Grown(c, x, N, p) /\ N \cap Taken(c) = {} /\ N \subseteq N
      BY <2>6, <2>12, <3>1
    <3>3. \A z \in N : Type(z) \in Borrowed \/ z \in N
                       \/ \E s \in N : Type(s) = "SWAPCHAIN" /\ z \in x.chain[s]
      OBVIOUS
    <3>4. \A s \in N : Type(s) = "SWAPCHAIN" =>
                      x.chain[s] \subseteq N /\ x.chain[s] \cap N = {}
      BY <2>8, <3>1
    <3>5. /\ DOMAIN y.proxies = DOMAIN client.proxies \cup N
          /\ \A z \in N : y.proxies[z] = ProxyParent(x, z)
      BY <2>10, <2>16, <3>1
    <3>6. /\ DOMAIN y.chains = DOMAIN client.chains \cup {s \in N : Type(s) = "SWAPCHAIN"}
          /\ \A s \in N : Type(s) = "SWAPCHAIN" => y.chains[s] = x.chain[s]
      BY <2>8, <2>14, <3>1
    <3>7. \A z \in N : Type(z) = "DEVICE" => p \in DOMAIN client.proxies
      BY <2>6, <3>1 DEF Known
    <3> QED
      BY <2>5, <2>6, <2>10, <2>12, <2>14, <3>2, <3>3, <3>4, <3>5, <3>6, <3>7, StepGrown
  <2>18. x.lost = c.lost /\ x.negotiated = TRUE
    BY <2>6 DEF Grown, Agreed
  <2>19. AddedOn(o, Listed(c, type, p)) = y
    BY <2>4, <2>7 DEF AddedOn
  <2> QED
    BY <2>4, <2>6, <2>10, <2>17, <2>18, <2>19, Agreement DEF Good, Agreed
<1> QED
  BY <1>1, <1>2

\* A call that creates objects whose parents fit keeps the invariant.
LEMMA CreatesKeep ==
  ASSUME BridgeInv, NEW type, NEW S, NEW p, Creates(type, S, p),
         link = "up" => \A o \in S : Good(ctx, o, AddedOn(o, p))
  PROVE  BridgeInv'
<1>1. PICK o \in S : Exchange(o, AddedOn(o, p))
  BY DEF Creates
<1>2. Good(ctx, o, AddedOn(o, p))
  BY <1>1 DEF Exchange
<1> QED
  BY <1>1, <1>2, ExchangeKeeps

\* Served or not, an outcome of a call about a listed object is good when the
\* call's own outcomes are.
LEMMA ServedGood ==
  ASSUME BridgeInv, link = "up", NEW id \in Known, Type(id) # "SURFACE", NEW S,
         NEW p, ctx.present => \A o \in S : Good(ctx, o, AddedOn(o, p)),
         NEW o \in Served(ctx, S)
  PROVE  Good(ctx, o, AddedOn(o, p))
<1>1. CASE ctx.negotiated /\ ctx.present
  BY <1>1 DEF Served
<1>2. CASE ~ (ctx.negotiated /\ ctx.present)
  <2>1. o.ctx = ctx /\ o.status = "EPROTO"
    BY <1>2 DEF Served, Fails, Outcome
  <2>2. ctx.lost # {}
    BY <1>2, ListedLive
  <2>3. AddedOn(o, p) = client
    BY <2>1 DEF AddedOn
  <2> QED
    BY <2>1, <2>2, <2>3, UpAgreed, SameGood
<1> QED
  BY <1>1, <1>2

\* A failure that changes nothing is good where no disagreement is possible.
LEMMA FailsGood ==
  ASSUME NEW c, Agreed(c, client), NEW status, NEW o \in Fails(c, status), NEW p,
         status # "SUCCESS", c.lost = {} => status \notin Disagreement
  PROVE  Good(c, o, AddedOn(o, p))
<1>1. o.ctx = c /\ o.status = status
  BY DEF Fails, Outcome
<1>2. AddedOn(o, p) = client
  BY <1>1 DEF AddedOn
<1> QED
  BY <1>1, <1>2, SameGood

\* An object of a device, made from listed objects of the device.
LEMMA CreatedFromGood ==
  ASSUME BridgeInv, link = "up", ctx.present, NEW d \in P("DEVICE"),
         NEW type \in DeviceChildren \ {"SWAPCHAIN"}, NEW ids,
         ctx.lost = {} => \A x \in ids : At(ctx, d, x),
         NEW o \in CreatedFrom(ctx, type, d, ids)
  PROVE  Good(ctx, o, AddedOn(o, d))
<1>0. Agreed(ctx, client)
  BY UpAgreed
<1>1. d \in Known /\ Type(d) = "DEVICE"
  BY DEF P
<1>2. type \in ObjectTypes /\ type # "INSTANCE" /\ ParentType(type) = "DEVICE"
      /\ type # "IMAGE_VIEW"
  BY DEF DeviceChildren, Pools, ParentType, ObjectTypes
<1>3. CASE Resolved(ctx, d, ids) = "SUCCESS"
  <2>1. d \in Live(ctx)
    BY <1>3 DEF Resolved
  <2>2. Fits(ctx, type, d) /\ Listed(ctx, type, d) = d
    BY <1>1, <1>2, <2>1 DEF Fits, Listed
  <2>3. o \in Created(ctx, type, d)
    BY <1>3 DEF CreatedFrom
  <2>4. type # "SWAPCHAIN" /\ (type = "DEVICE" => d \in Known)
    BY <1>1
  <2>5. Good(ctx, o, AddedOn(o, Listed(ctx, type, d)))
    BY <1>0, <2>2, <2>3, <2>4, CreatedGood
  <2> QED
    BY <2>2, <2>5
<1>4. CASE Resolved(ctx, d, ids) # "SUCCESS"
  <2>1. ctx.lost # {}
    <3> SUFFICES ASSUME ctx.lost = {} PROVE FALSE
      OBVIOUS
    <3>1. d \in Live(ctx)
      BY <1>1, ListedLive
    <3> QED
      BY <1>4, <3>1, AtResolved
  <2>2. o \in Fails(ctx, Resolved(ctx, d, ids))
    BY <1>4 DEF CreatedFrom
  <2>3. PICK status : status = Resolved(ctx, d, ids)
    OBVIOUS
  <2>4. status # "SUCCESS" /\ o \in Fails(ctx, status)
        /\ (ctx.lost = {} => status \notin Disagreement)
    BY <1>4, <2>1, <2>2, <2>3
  <2> QED
    BY <1>0, <2>4, FailsGood
<1> QED
  BY <1>3, <1>4

\* The context that was created, or not, for a first request.
LEMMA EnsuredAgreed ==
  ASSUME NEW c, NEW cl, Agreed(c, cl), NEW x \in ensure_vulkan_global_context(c)
  PROVE  Agreed(x, cl) /\ x.lost = c.lost
<1>1. CASE x = c
  BY <1>1
<1>2. CASE x # c
  <2>0. ContextKnown(c) /\ InStep(c, cl)
    BY DEF Agreed
  <2>1. x = [c EXCEPT !.present = TRUE] /\ DOMAIN c = DOMAIN NewContext
    BY <1>2, <2>0 DEF ensure_vulkan_global_context, ContextKnown
  <2>2. Alike(c, x) /\ x.lost = c.lost /\ x.bound = c.bound /\ x.mirrored = c.mirrored
        /\ x.negotiated = c.negotiated /\ x.present = TRUE
    BY <2>1, ContextFields DEF Alike
  <2>3. IsFiniteSet(c.lost) /\ c.lost \cap Live(c) = {}
        /\ (\A id \in c.lost : Type(id) \in ObjectTypes)
        /\ c.bound \subseteq OfType(c, "BUFFER")
        /\ c.mirrored \subseteq OfType(c, "DEVICE_MEMORY")
    BY <2>0 DEF ContextKnown, TableKnown, NativesKnown
  <2>4. ContextKnown(x)
    BY <2>0, <2>2, <2>3, AlikeKnown
  <2>5. Live(x) = Live(c) /\ x.table = c.table /\ x.chain = c.chain
        /\ (x.lost \ c.lost) \cap DOMAIN cl.proxies = {}
    BY <2>2 DEF Alike, Live
  <2>6. InStep(x, cl)
    BY <2>0, <2>2, <2>5, StepAlike
  <2> QED
    BY <2>2, <2>4, <2>6 DEF Agreed
<1> QED
  BY <1>1, <1>2

\* What is good for the context that was created is good.
LEMMA GoodFrom ==
  ASSUME NEW c, NEW x, x.lost = c.lost, NEW o, NEW y, Good(x, o, y)
  PROVE  Good(c, o, y)
BY DEF Good

\* The first requests: they may create the context.
LEMMA FirstCalls ==
  ASSUME BridgeInv,
         \/ vkEnumerateInstanceVersion \/ vkEnumerateInstanceExtensionProperties
         \/ vkCreateInstance
  PROVE  BridgeInv'
<1>0. ASSUME NEW c, NEW o \in create_instance(c)
      PROVE  o \in Refused(c) \cup Fails(c, "EIO") \cup Created(c, "INSTANCE", NoObject)
  BY DEF create_instance
<1>1. CASE vkEnumerateInstanceVersion \/ vkEnumerateInstanceExtensionProperties
  <2>1. PICK o : /\ Exchange(o, client)
                 /\ o \in First(ctx, info) \cup First(ctx, enumerate_instance_extensions)
    BY <1>1 DEF vkEnumerateInstanceVersion, vkEnumerateInstanceExtensionProperties, Uses,
       answer_vulkan_global_info, answer_vulkan_instance_extensions
  <2>2. link = "up" /\ Agreed(ctx, client) /\ ctx.negotiated
    BY <2>1, UpAgreed DEF Exchange, BridgeInv
  <2>3. PICK x \in ensure_vulkan_global_context(ctx) :
          o \in Succeeds(x) \cup Fails(x, "EIO")
    BY <2>1, <2>2 DEF First, info, enumerate_instance_extensions
  <2>4. o.ctx = x /\ o.status \notin Disagreement
    BY <2>3, Agreement DEF Succeeds, Fails, Outcome
  <2>5. Agreed(x, client) /\ x.lost = ctx.lost
    BY <2>2, EnsuredAgreed
  <2>6. Good(ctx, o, client)
    BY <2>4, <2>5 DEF Good
  <2> QED
    BY <2>1, <2>6, ExchangeKeeps
<1>2. CASE vkCreateInstance
  <2>1. Creates("INSTANCE", First(ctx, create_instance), NoObject)
    BY <1>2 DEF vkCreateInstance, answer_vulkan_instance_create
  <2>2. ASSUME link = "up", NEW o \in First(ctx, create_instance)
        PROVE  Good(ctx, o, AddedOn(o, NoObject))
    <3>1. Agreed(ctx, client) /\ ctx.negotiated
      BY <2>2, UpAgreed DEF BridgeInv
    <3>2. PICK x \in ensure_vulkan_global_context(ctx) :
            IF x.present THEN o \in create_instance(x) ELSE o \in Fails(x, "EIO")
      BY <2>2, <3>1 DEF First
    <3>3. Agreed(x, client) /\ x.lost = ctx.lost
      BY <3>1, EnsuredAgreed
    <3>4. CASE o \in Fails(x, "EIO") \cup Refused(x)
      <4>1. PICK status \in {"EIO", "REFUSED"} : o \in Fails(x, status)
        BY <3>4 DEF Refused
      <4>2. status # "SUCCESS" /\ status \notin Disagreement
        BY Agreement
      <4>3. Good(x, o, AddedOn(o, NoObject))
        BY <3>3, <4>1, <4>2, FailsGood
      <4> QED
        BY <3>3, <4>3, GoodFrom
    <3>5. CASE o \notin Fails(x, "EIO") \cup Refused(x)
      <4>1. x.present /\ o \in Created(x, "INSTANCE", NoObject)
        BY <1>0, <3>2, <3>5
      <4>2. Fits(x, "INSTANCE", NoObject) /\ Listed(x, "INSTANCE", NoObject) = NoObject
        BY DEF Fits, Listed, ObjectTypes
      <4>3. Good(x, o, AddedOn(o, NoObject))
        BY <3>3, <4>1, <4>2, CreatedGood
      <4> QED
        BY <3>3, <4>3, GoodFrom
    <3> QED
      BY <3>4, <3>5
  <2> QED
    BY <2>1, <2>2, CreatesKeep
<1> QED
  BY <1>1, <1>2

\* An object is made for a parent that resolves; one that does not was lost.
LEMMA ParentGood ==
  ASSUME BridgeInv, link = "up", ctx.present, NEW p \in Known,
         NEW type \in ObjectTypes \ {"SWAPCHAIN", "INSTANCE", "IMAGE_VIEW"},
         Type(p) = ParentType(type), Type(p) \notin {"SURFACE"}, NEW o,
         \/ p \in Live(ctx) /\ o \in Created(ctx, type, p)
         \/ p \notin Live(ctx) /\ o \in Fails(ctx, "ENOENT")
  PROVE  Good(ctx, o, AddedOn(o, p))
<1>1. Agreed(ctx, client)
  BY UpAgreed
<1>2. CASE p \in Live(ctx)
  <2>1. Fits(ctx, type, p) /\ Listed(ctx, type, p) = p /\ type # "SWAPCHAIN"
    BY <1>2 DEF Fits, Listed
  <2>2. Good(ctx, o, AddedOn(o, Listed(ctx, type, p)))
    BY <1>1, <1>2, <2>1, CreatedGood
  <2> QED
    BY <2>1, <2>2
<1>3. CASE p \notin Live(ctx)
  <2>1. ctx.lost # {}
    BY <1>3, ListedLive
  <2>2. "ENOENT" # "SUCCESS"
    OBVIOUS
  <2> QED
    BY <1>1, <1>3, <2>1, <2>2, FailsGood
<1> QED
  BY <1>2, <1>3

\* The parent of a live object of a child type is live too.
LEMMA ParentLive ==
  ASSUME BridgeInv, link = "up", NEW id \in Live(ctx), Type(id) # "INSTANCE"
  PROVE  ctx.table[id] \in Live(ctx) /\ resolve_device_child(ctx, id)
<1>1. ContextKnown(ctx)
  BY DEF BridgeInv
<1>2. ctx.table[id] \in Live(ctx)
  BY <1>1, ParentFacts
<1> QED
  BY <1>2 DEF resolve_device_child

\* Devices, command pools and what is allocated from pools.
LEMMA ParentCalls ==
  ASSUME BridgeInv,
         \/ vkCreateDevice \/ vkCreateCommandPool \/ vkAllocateCommandBuffers
  PROVE  BridgeInv'
<1>1. CASE vkCreateDevice
  <2>1. PICK p \in P("PHYSICAL_DEVICE") :
          Creates("DEVICE", Served(ctx, create_device_packed(ctx, p)), p)
    BY <1>1 DEF vkCreateDevice, answer_vulkan_device_create
  <2>2. p \in Known /\ Type(p) = "PHYSICAL_DEVICE"
    BY DEF P
  <2>3. ASSUME link = "up", ctx.present, NEW o \in create_device_packed(ctx, p)
        PROVE  Good(ctx, o, AddedOn(o, p))
    <3>1. p \in Live(ctx) => ctx.table[p] \in Live(ctx)
      BY <2>2, <2>3, ParentLive
    <3>2. \/ p \in Live(ctx) /\ o \in Created(ctx, "DEVICE", p)
          \/ p \notin Live(ctx) /\ o \in Fails(ctx, "ENOENT")
      BY <2>3, <3>1 DEF create_device_packed, resolve_physical_device
    <3>3. "DEVICE" \in ObjectTypes \ {"SWAPCHAIN", "INSTANCE", "IMAGE_VIEW"}
          /\ Type(p) = ParentType("DEVICE") /\ Type(p) \notin {"SURFACE"}
      BY <2>2 DEF ObjectTypes, ParentType
    <3> QED
      BY <2>2, <2>3, <3>2, <3>3, ParentGood
  <2>4. Type(p) # "SURFACE"
    BY <2>2
  <2>5. link = "up" => \A o \in Served(ctx, create_device_packed(ctx, p)) :
                         Good(ctx, o, AddedOn(o, p))
    BY <2>2, <2>3, <2>4, ServedGood
  <2> QED
    BY <2>1, <2>5, CreatesKeep
<1>2. CASE vkCreateCommandPool
  <2>1. PICK d \in P("DEVICE") :
          Creates("COMMAND_POOL", Served(ctx, create_command_pool(ctx, d)), d)
    BY <1>2 DEF vkCreateCommandPool, answer_vulkan_command_pool_create
  <2>2. d \in Known /\ Type(d) = "DEVICE"
    BY DEF P
  <2>3. ASSUME link = "up", ctx.present, NEW o \in create_command_pool(ctx, d)
        PROVE  Good(ctx, o, AddedOn(o, d))
    <3>1. d \in Live(ctx) => d \in ctx.meta
      BY <2>2, <2>3 DEF BridgeInv, ContextKnown, NativesKnown, Described
    <3>2. \/ d \in Live(ctx) /\ o \in Created(ctx, "COMMAND_POOL", d)
          \/ d \notin Live(ctx) /\ o \in Fails(ctx, "ENOENT")
      BY <2>3, <3>1 DEF create_command_pool, device_metadata_slot
    <3>3. "COMMAND_POOL" \in ObjectTypes \ {"SWAPCHAIN", "INSTANCE", "IMAGE_VIEW"}
          /\ Type(d) = ParentType("COMMAND_POOL") /\ Type(d) \notin {"SURFACE"}
      BY <2>2 DEF ObjectTypes, DeviceChildren, Pools, ParentType
    <3> QED
      BY <2>2, <2>3, <3>2, <3>3, ParentGood
  <2>4. Type(d) # "SURFACE"
    BY <2>2
  <2>5. link = "up" => \A o \in Served(ctx, create_command_pool(ctx, d)) :
                         Good(ctx, o, AddedOn(o, d))
    BY <2>2, <2>3, <2>4, ServedGood
  <2> QED
    BY <2>1, <2>5, CreatesKeep
<1>3. CASE vkAllocateCommandBuffers
  <2>1. PICK pool \in P("COMMAND_POOL") :
          Creates("COMMAND_BUFFER", Served(ctx, allocate_command_buffer(ctx, pool)), pool)
    BY <1>3 DEF vkAllocateCommandBuffers, answer_vulkan_command_buffer_allocate
  <2>2. pool \in Known /\ Type(pool) = "COMMAND_POOL"
    BY DEF P
  <2>3. ASSUME link = "up", ctx.present, NEW o \in allocate_command_buffer(ctx, pool)
        PROVE  Good(ctx, o, AddedOn(o, pool))
    <3>1. resolve_device_child(ctx, pool) <=> pool \in Live(ctx)
      BY <2>2, <2>3, ParentLive DEF resolve_device_child
    <3>2. \/ pool \in Live(ctx) /\ o \in Created(ctx, "COMMAND_BUFFER", pool)
          \/ pool \notin Live(ctx) /\ o \in Fails(ctx, "ENOENT")
      BY <2>3, <3>1 DEF allocate_command_buffer, resolve_command_pool
    <3>3. "COMMAND_BUFFER" \in ObjectTypes \ {"SWAPCHAIN", "INSTANCE", "IMAGE_VIEW"}
          /\ Type(pool) = ParentType("COMMAND_BUFFER") /\ Type(pool) \notin {"SURFACE"}
      BY <2>2 DEF ObjectTypes, ParentType
    <3> QED
      BY <2>2, <2>3, <3>2, <3>3, ParentGood
  <2>4. Type(pool) # "SURFACE"
    BY <2>2
  <2>5. link = "up" => \A o \in Served(ctx, allocate_command_buffer(ctx, pool)) :
                         Good(ctx, o, AddedOn(o, pool))
    BY <2>2, <2>3, <2>4, ServedGood
  <2> QED
    BY <2>1, <2>5, CreatesKeep
<1> QED
  BY <1>1, <1>2, <1>3

\* Descriptor sets: the pool and the layout are of one device.
LEMMA AllocateSetsCall ==
  ASSUME BridgeInv, vkAllocateDescriptorSets
  PROVE  BridgeInv'
<1>1. PICK pool \in P("DESCRIPTOR_POOL") :
        \E layout \in Of("DESCRIPTOR_SET_LAYOUT", client.proxies[pool]) :
          Creates("DESCRIPTOR_SET",
                  Served(ctx, allocate_descriptor_sets(ctx, pool, layout)), pool)
  BY DEF vkAllocateDescriptorSets, answer_vulkan_descriptor_set_allocate
<1>2. PICK layout \in Of("DESCRIPTOR_SET_LAYOUT", client.proxies[pool]) :
        Creates("DESCRIPTOR_SET",
                Served(ctx, allocate_descriptor_sets(ctx, pool, layout)), pool)
  BY <1>1
<1>3. pool \in Known /\ Type(pool) = "DESCRIPTOR_POOL" /\ Type(pool) # "SURFACE"
  BY DEF P
<1>4. ASSUME link = "up", ctx.present, NEW o \in allocate_descriptor_sets(ctx, pool, layout)
      PROVE  Good(ctx, o, AddedOn(o, pool))
  <2>0. Agreed(ctx, client)
    BY <1>4, UpAgreed
  <2>1. resolve_device_child(ctx, pool) <=> pool \in Live(ctx)
    BY <1>3, <1>4, ParentLive DEF resolve_device_child
  <2>2. CASE Full(ctx, 1)
    <3>1. o \in Fails(ctx, "REFUSED") /\ "REFUSED" # "SUCCESS"
      BY <1>4, <2>2 DEF allocate_descriptor_sets, Refused
    <3> QED
      BY <2>0, <3>1, Agreement, FailsGood
  <2>3. CASE ~ Full(ctx, 1) /\ pool \in Live(ctx)
             /\ Resolved(ctx, ctx.table[pool], {layout}) # "SUCCESS"
    <3>1. PICK status : status = Resolved(ctx, ctx.table[pool], {layout})
      OBVIOUS
    <3>2. o \in Fails(ctx, status) /\ status # "SUCCESS"
      BY <1>4, <2>1, <2>3, <3>1 DEF allocate_descriptor_sets
    <3>3. ctx.lost # {}
      <4> SUFFICES ASSUME ctx.lost = {} PROVE FALSE
        OBVIOUS
      <4>1. At(ctx, client.proxies[pool], layout) /\ client.proxies[pool] \in Live(ctx)
        BY <1>4, DeviceChildTypes, OfAt
      <4>2. client.proxies[pool] = ctx.table[pool]
        BY <1>3, <1>4, DeviceChildTypes, ProxyAt
      <4> QED
        BY <2>3, <4>1, <4>2, AtResolved
    <3> QED
      BY <2>0, <3>2, <3>3, FailsGood
  <2>4. CASE /\ ~ Full(ctx, 1)
             /\ pool \notin Live(ctx) \/ Resolved(ctx, ctx.table[pool], {layout}) = "SUCCESS"
    <3>1. \/ pool \in Live(ctx) /\ o \in Created(ctx, "DESCRIPTOR_SET", pool)
          \/ pool \notin Live(ctx) /\ o \in Fails(ctx, "ENOENT")
      BY <1>4, <2>1, <2>4 DEF allocate_descriptor_sets
    <3>2. "DESCRIPTOR_SET" \in ObjectTypes \ {"SWAPCHAIN", "INSTANCE", "IMAGE_VIEW"}
          /\ Type(pool) = ParentType("DESCRIPTOR_SET") /\ Type(pool) \notin {"SURFACE"}
      BY <1>3 DEF ObjectTypes, ParentType
    <3> QED
      BY <1>3, <1>4, <3>1, <3>2, ParentGood
  <2> QED
    BY <2>2, <2>3, <2>4
<1>5. link = "up" => \A o \in Served(ctx, allocate_descriptor_sets(ctx, pool, layout)) :
                       Good(ctx, o, AddedOn(o, pool))
  BY <1>3, <1>4, ServedGood
<1> QED
  BY <1>2, <1>5, CreatesKeep

\* The objects the application makes on a device.
LEMMA ResourceKeeps ==
  ASSUME BridgeInv, NEW d \in P("DEVICE"), NEW type, NEW ids,
         create_resource_locked(type, d, ids), NEW S,
         answer_vulkan_resource_create(ctx, type, d, ids) = Served(ctx, S),
         link = "up" /\ ctx.present => \A o \in S : Good(ctx, o, AddedOn(o, d))
  PROVE  BridgeInv'
<1>1. d \in Known /\ Type(d) # "SURFACE"
  BY DEF P
<1>2. Creates(type, Served(ctx, S), d)
  BY DEF create_resource_locked
<1>3. link = "up" => \A o \in Served(ctx, S) : Good(ctx, o, AddedOn(o, d))
  BY <1>1, ServedGood
<1> QED
  BY <1>2, <1>3, CreatesKeep

\* Those made from listed objects of the device.
LEMMA ResourceFromKeeps ==
  ASSUME BridgeInv, NEW d \in P("DEVICE"), NEW type \in DeviceChildren \ {"SWAPCHAIN"},
         NEW ids, NEW used, create_resource_locked(type, d, ids),
         answer_vulkan_resource_create(ctx, type, d, ids)
           = Served(ctx, CreatedFrom(ctx, type, d, used)),
         link = "up" /\ ctx.lost = {} => \A x \in used : At(ctx, d, x)
  PROVE  BridgeInv'
<1>1. link = "up" /\ ctx.present => \A o \in CreatedFrom(ctx, type, d, used) :
                                      Good(ctx, o, AddedOn(o, d))
  BY CreatedFromGood
<1> QED
  BY <1>1, ResourceKeeps

\* Objects that need nothing but their device.
LEMMA PlainCreations ==
  ASSUME BridgeInv,
         \/ vkCreateDescriptorPool \/ vkCreateQueryPool \/ vkCreateSampler
         \/ vkCreateBuffer \/ vkCreateImage \/ vkCreateFence \/ vkCreateSemaphore
  PROVE  BridgeInv'
<1>1. PICK type \in {"DESCRIPTOR_POOL", "QUERY_POOL", "SAMPLER", "BUFFER", "IMAGE",
                     "FENCE", "SEMAPHORE"}, d \in P("DEVICE") :
        create_resource_locked(type, d, {})
  BY DEF vkCreateDescriptorPool, vkCreateQueryPool, vkCreateSampler, vkCreateBuffer,
     vkCreateImage, vkCreateFence, vkCreateSemaphore
<1>2. answer_vulkan_resource_create(ctx, type, d, {})
        = Served(ctx, CreatedFrom(ctx, type, d, {}))
  BY DEF answer_vulkan_resource_create, create_descriptor_pool, create_query_pool,
     create_sampler, create_buffer, create_image, create_fence, create_semaphore
<1>3. type \in DeviceChildren \ {"SWAPCHAIN"}
  BY DeviceChildTypes
<1> QED
  BY <1>1, <1>2, <1>3, ResourceFromKeeps

\* Layouts, templates, pipelines and memory: made from others of the device.
LEMMA CompoundCreations ==
  ASSUME BridgeInv,
         \/ vkCreateDescriptorSetLayout \/ vkCreateDescriptorUpdateTemplate
         \/ vkCreatePipelineLayout \/ vkCreateGraphicsPipelines
         \/ create_dxvk_builtin_blit_pipeline \/ vkAllocateMemory
  PROVE  BridgeInv'
<1>1. CASE vkCreateDescriptorSetLayout
  <2>0. PICK d \in P("DEVICE") : \E samplers \in AtMostOne(Of("SAMPLER", d)) :
          create_resource_locked("DESCRIPTOR_SET_LAYOUT", d, samplers)
    BY <1>1 DEF vkCreateDescriptorSetLayout
  <2>1. PICK samplers \in AtMostOne(Of("SAMPLER", d)) :
          create_resource_locked("DESCRIPTOR_SET_LAYOUT", d, samplers)
    BY <2>0
  <2>2. answer_vulkan_resource_create(ctx, "DESCRIPTOR_SET_LAYOUT", d, samplers)
          = Served(ctx, CreatedFrom(ctx, "DESCRIPTOR_SET_LAYOUT", d, samplers))
    BY DEF answer_vulkan_resource_create, create_descriptor_set_layout
  <2>3. link = "up" /\ ctx.lost = {} => \A x \in samplers : At(ctx, d, x)
    BY AtMostOneFacts, DeviceChildTypes, OfAt
  <2>4. "DESCRIPTOR_SET_LAYOUT" \in DeviceChildren \ {"SWAPCHAIN"}
    BY DeviceChildTypes
  <2> QED
    BY <2>1, <2>2, <2>3, <2>4, ResourceFromKeeps
<1>2. CASE vkCreatePipelineLayout
  <2>0. PICK d \in P("DEVICE") : \E layouts \in AtMostOne(Of("DESCRIPTOR_SET_LAYOUT", d)) :
          create_resource_locked("PIPELINE_LAYOUT", d, layouts)
    BY <1>2 DEF vkCreatePipelineLayout
  <2>1. PICK layouts \in AtMostOne(Of("DESCRIPTOR_SET_LAYOUT", d)) :
          create_resource_locked("PIPELINE_LAYOUT", d, layouts)
    BY <2>0
  <2>2. answer_vulkan_resource_create(ctx, "PIPELINE_LAYOUT", d, layouts)
          = Served(ctx, CreatedFrom(ctx, "PIPELINE_LAYOUT", d, layouts))
    BY DEF answer_vulkan_resource_create, create_pipeline_layout
  <2>3. link = "up" /\ ctx.lost = {} => \A x \in layouts : At(ctx, d, x)
    BY AtMostOneFacts, DeviceChildTypes, OfAt
  <2>4. "PIPELINE_LAYOUT" \in DeviceChildren \ {"SWAPCHAIN"}
    BY DeviceChildTypes
  <2> QED
    BY <2>1, <2>2, <2>3, <2>4, ResourceFromKeeps
<1>3. CASE vkCreateGraphicsPipelines
  <2>0. PICK d \in P("DEVICE") : \E layout \in Of("PIPELINE_LAYOUT", d) :
          create_resource_locked("PIPELINE", d, {layout})
    BY <1>3 DEF vkCreateGraphicsPipelines
  <2>1. PICK layout \in Of("PIPELINE_LAYOUT", d) :
          create_resource_locked("PIPELINE", d, {layout})
    BY <2>0
  <2>2. (CHOOSE x \in {layout} : TRUE) = layout
    OBVIOUS
  <2>3. answer_vulkan_resource_create(ctx, "PIPELINE", d, {layout})
          = Served(ctx, CreatedFrom(ctx, "PIPELINE", d, {layout}))
    BY <2>2 DEF answer_vulkan_resource_create, create_graphics_pipeline
  <2>4. link = "up" /\ ctx.lost = {} => \A x \in {layout} : At(ctx, d, x)
    BY DeviceChildTypes, OfAt
  <2>5. "PIPELINE" \in DeviceChildren \ {"SWAPCHAIN"}
    BY DeviceChildTypes
  <2> QED
    BY <2>1, <2>3, <2>4, <2>5, ResourceFromKeeps
<1>4. CASE create_dxvk_builtin_blit_pipeline
  <2>0. PICK d \in P("DEVICE") : \E layout \in Of("PIPELINE_LAYOUT", d) :
          Creates("PIPELINE", answer_vulkan_builtin_graphics_pipeline(ctx, d, layout), d)
    BY <1>4 DEF create_dxvk_builtin_blit_pipeline
  <2>1. PICK layout \in Of("PIPELINE_LAYOUT", d) :
          Creates("PIPELINE", answer_vulkan_builtin_graphics_pipeline(ctx, d, layout), d)
    BY <2>0
  <2>2. answer_vulkan_builtin_graphics_pipeline(ctx, d, layout)
          = Served(ctx, CreatedFrom(ctx, "PIPELINE", d, {layout}))
    BY DEF answer_vulkan_builtin_graphics_pipeline, create_builtin_graphics_pipeline,
       create_general_graphics_pipeline
  <2>3. link = "up" /\ ctx.lost = {} => \A x \in {layout} : At(ctx, d, x)
    BY DeviceChildTypes, OfAt
  <2>4. "PIPELINE" \in DeviceChildren \ {"SWAPCHAIN"} /\ d \in Known /\ Type(d) # "SURFACE"
    BY DeviceChildTypes DEF P
  <2>5. link = "up" /\ ctx.present =>
          \A o \in CreatedFrom(ctx, "PIPELINE", d, {layout}) : Good(ctx, o, AddedOn(o, d))
    BY <2>3, <2>4, CreatedFromGood
  <2>6. link = "up" => \A o \in Served(ctx, CreatedFrom(ctx, "PIPELINE", d, {layout})) :
                         Good(ctx, o, AddedOn(o, d))
    BY <2>4, <2>5, ServedGood
  <2> QED
    BY <2>1, <2>2, <2>6, CreatesKeep
<1>5. CASE vkCreateDescriptorUpdateTemplate
  <2>0. PICK d \in P("DEVICE") : \E layout \in Of("DESCRIPTOR_SET_LAYOUT", d) :
          create_resource_locked("UPDATE_TEMPLATE", d, {layout})
    BY <1>5 DEF vkCreateDescriptorUpdateTemplate
  <2>1. PICK layout \in Of("DESCRIPTOR_SET_LAYOUT", d) :
          create_resource_locked("UPDATE_TEMPLATE", d, {layout})
    BY <2>0
  <2>2. (CHOOSE x \in {layout} : TRUE) = layout
    OBVIOUS
  <2>3. answer_vulkan_resource_create(ctx, "UPDATE_TEMPLATE", d, {layout})
          = Served(ctx, create_descriptor_update_template(ctx, d, layout))
    BY <2>2 DEF answer_vulkan_resource_create
  <2>4. link = "up" /\ ctx.lost = {} => \A x \in {layout} : At(ctx, d, x)
    BY DeviceChildTypes, OfAt
  <2>5. "UPDATE_TEMPLATE" \in DeviceChildren \ {"SWAPCHAIN"}
    BY DeviceChildTypes
  <2>6. ASSUME link = "up", ctx.present,
               NEW o \in create_descriptor_update_template(ctx, d, layout)
        PROVE  Good(ctx, o, AddedOn(o, d))
    <3>1. CASE o \in CreatedFrom(ctx, "UPDATE_TEMPLATE", d, {layout})
      BY <2>4, <2>5, <2>6, <3>1, CreatedFromGood
    <3>2. CASE o \notin CreatedFrom(ctx, "UPDATE_TEMPLATE", d, {layout})
      <4>1. o \in Fails(ctx, "REFUSED") /\ "REFUSED" # "SUCCESS"
        BY <2>6, <3>2 DEF create_descriptor_update_template, CreatedFrom, Refused
      <4> QED
        BY <2>6, <4>1, UpAgreed, FailsGood, Agreement
    <3> QED
      BY <3>1, <3>2
  <2> QED
    BY <2>1, <2>3, <2>6, ResourceKeeps
<1>6. CASE vkAllocateMemory
  <2>0. PICK d \in P("DEVICE") : \E dedicated \in AtMostOne(Of("IMAGE", d)) :
          create_resource_locked("DEVICE_MEMORY", d, dedicated)
    BY <1>6 DEF vkAllocateMemory
  <2>1. PICK dedicated \in AtMostOne(Of("IMAGE", d)) :
          create_resource_locked("DEVICE_MEMORY", d, dedicated)
    BY <2>0
  <2>2. answer_vulkan_resource_create(ctx, "DEVICE_MEMORY", d, dedicated)
          = Served(ctx, allocate_memory_extended(ctx, d, dedicated))
    BY DEF answer_vulkan_resource_create
  <2>3. link = "up" /\ ctx.lost = {} => \A x \in dedicated : At(ctx, d, x)
    BY AtMostOneFacts, DeviceChildTypes, OfAt
  <2>4. "DEVICE_MEMORY" \in DeviceChildren \ {"SWAPCHAIN"} /\ d \in Known
        /\ Type(d) = "DEVICE"
    BY DeviceChildTypes DEF P
  <2>5. ASSUME link = "up", ctx.present, NEW o \in allocate_memory_extended(ctx, d, dedicated)
        PROVE  Good(ctx, o, AddedOn(o, d))
    <3>1. d \in Live(ctx) => ctx.table[d] \in OfType(ctx, "PHYSICAL_DEVICE")
      BY <2>4, <2>5, ParentFacts DEF BridgeInv, ParentType, OfType
    <3>2. d \in Live(ctx) => resolve_physical_device(ctx, ctx.table[d]) = "SUCCESS"
      BY <2>5, <3>1, ParentLive DEF OfType, resolve_physical_device
    <3>3. o \in CreatedFrom(ctx, "DEVICE_MEMORY", d, dedicated)
      BY <2>5, <3>2 DEF allocate_memory_extended
    <3> QED
      BY <2>3, <2>4, <2>5, <3>3, CreatedFromGood
  <2> QED
    BY <2>1, <2>2, <2>5, ResourceKeeps
<1> QED
  BY <1>1, <1>2, <1>3, <1>4, <1>5, <1>6

\* A view is made for a live image of the device.
LEMMA ImageViewCreation ==
  ASSUME BridgeInv, vkCreateImageView
  PROVE  BridgeInv'
<1>0. PICK d \in P("DEVICE") : \E i \in image_owned_by_device_locked(d) :
        create_resource_locked("IMAGE_VIEW", d, {i})
  BY DEF vkCreateImageView
<1>1. PICK i \in image_owned_by_device_locked(d) :
        create_resource_locked("IMAGE_VIEW", d, {i})
  BY <1>0
<1>2. (CHOOSE x \in {i} : TRUE) = i
  OBVIOUS
<1>3. answer_vulkan_resource_create(ctx, "IMAGE_VIEW", d, {i})
        = Served(ctx, create_image_view(ctx, d, i))
  BY <1>2 DEF answer_vulkan_resource_create
<1>4. ASSUME link = "up", ctx.present, NEW o \in create_image_view(ctx, d, i)
      PROVE  Good(ctx, o, AddedOn(o, d))
  <2>0. Agreed(ctx, client)
    BY <1>4, UpAgreed
  <2>1. i \in Live(ctx) => Type(i) = "IMAGE"
    BY <1>4, ImageFacts
  <2>2. CASE resolve_device_child(ctx, i) /\ ctx.table[i] = d /\ i \in ctx.meta
    <3>1. o \in Created(ctx, "IMAGE_VIEW", i)
      BY <1>4, <2>2 DEF create_image_view, image_metadata_slot
    <3>2. Fits(ctx, "IMAGE_VIEW", i) /\ Listed(ctx, "IMAGE_VIEW", i) = d
      BY <2>1, <2>2 DEF Fits, Listed, resolve_device_child, ObjectTypes, ParentType
    <3> QED
      BY <1>4, <2>0, <3>1, <3>2, CreatedGood
  <2>3. CASE resolve_device_child(ctx, i) /\ ctx.table[i] = d /\ i \notin ctx.meta
    <3>1. o \in Fails(ctx, "REFUSED") /\ "REFUSED" # "SUCCESS"
      BY <1>4, <2>3 DEF create_image_view, image_metadata_slot, Refused
    <3> QED
      BY <2>0, <3>1, FailsGood, Agreement
  <2>4. CASE ~ (resolve_device_child(ctx, i) /\ ctx.table[i] = d)
    <3>1. PICK status \in {"EPROTO", "ENOENT"} : o \in Fails(ctx, status)
      BY <1>4, <2>4 DEF create_image_view
    <3>2. ctx.lost # {} /\ status # "SUCCESS"
      BY <1>4, <2>4, ImageFacts DEF At, resolve_device_child
    <3> QED
      BY <2>0, <3>1, <3>2, FailsGood
  <2> QED
    BY <2>2, <2>3, <2>4
<1> QED
  BY <1>1, <1>3, <1>4, ResourceKeeps

\* A borrowed object, old or new, that the client lists or not.
LEMMA BorrowedGood ==
  ASSUME BridgeInv, link = "up", ctx.present, NEW p \in Live(ctx),
         NEW type \in Borrowed, Type(p) = ParentType(type), NEW o, NEW y,
         y = client \/ (y = AddedOn(o, p) /\ o.id \notin Known),
         \/ \E q \in ChildrenOf(ctx, p) : Type(q) = type /\ o = Outcome(ctx, "SUCCESS", q)
         \/ \E status \in {"EIO", "REFUSED", "ENOSPC"} : o \in Fails(ctx, status)
         \/ /\ ~ Full(ctx, 1)
            /\ o = Outcome(Made(ctx, {Fresh(ctx, type)}, p), "SUCCESS", Fresh(ctx, type))
  PROVE  Good(ctx, o, y)
<1>0. Agreed(ctx, client) /\ ContextKnown(ctx) /\ InStep(ctx, client)
      /\ DOMAIN client = {"proxies", "chains", "mapped"}
  BY UpAgreed DEF Agreed
<1>1. ASSUME NEW status \in {"EIO", "REFUSED", "ENOSPC"}, o \in Fails(ctx, status)
      PROVE  Good(ctx, o, y)
  <2>1. o.ctx = ctx /\ o.status = status
    BY <1>1 DEF Fails, Outcome
  <2>2. y = client /\ status \notin Disagreement
    BY <2>1, Agreement DEF AddedOn
  <2> QED
    BY <1>0, <2>1, <2>2, SameGood
<1>2. ASSUME NEW q \in ChildrenOf(ctx, p), Type(q) = type, o = Outcome(ctx, "SUCCESS", q)
      PROVE  Good(ctx, o, y)
  <2>1. o.ctx = ctx /\ o.status = "SUCCESS" /\ o.id = q
    BY <1>2 DEF Outcome
  <2>2. CASE y = client
    BY <1>0, <2>1, <2>2, SameGood, Agreement
  <2>3. CASE y # client
    <3>1. q \notin Known /\ y = Added(q, p)
      BY <2>1, <2>3 DEF AddedOn
    <3>2. q \in Live(ctx) /\ ctx.table[q] = p
      BY <1>2 DEF ChildrenOf
    <3>3. /\ DOMAIN y = {"proxies", "chains", "mapped"}
          /\ DOMAIN y.proxies = DOMAIN client.proxies \cup {q}
          /\ \A z \in DOMAIN client.proxies : y.proxies[z] = client.proxies[z]
          /\ y.proxies[q] = ctx.table[q] /\ q \notin DOMAIN client.proxies
          /\ y.chains = client.chains /\ y.mapped = client.mapped
      BY <1>0, <3>1, <3>2, AddedFacts DEF Known
    <3>4. Type(q) \in Borrowed
      BY <1>2
    <3>5. InStep(ctx, y)
      BY <1>0, <3>2, <3>3, <3>4, StepNamed
    <3> QED
      BY <1>0, <2>1, <3>3, <3>5, Agreement DEF Good, Agreed
  <2> QED
    BY <2>2, <2>3
<1>3. ASSUME ~ Full(ctx, 1),
             o = Outcome(Made(ctx, {Fresh(ctx, type)}, p), "SUCCESS", Fresh(ctx, type))
      PROVE  Good(ctx, o, y)
  <2>1. type \in ObjectTypes /\ type # "INSTANCE" /\ type # "SWAPCHAIN" /\ type # "IMAGE_VIEW"
        /\ type # "DEVICE"
    BY DEF Borrowed, ObjectTypes, DeviceChildren
  <2>2. Fits(ctx, type, p) /\ Listed(ctx, type, p) = p
    BY <2>1 DEF Fits, Listed
  <2>3. CASE y = AddedOn(o, p)
    <3>1. o \in Created(ctx, type, p)
      BY <1>3 DEF Created
    <3>2. Good(ctx, o, AddedOn(o, Listed(ctx, type, p)))
      BY <1>0, <2>1, <2>2, <3>1, CreatedGood
    <3> QED
      BY <2>2, <2>3, <3>2
  <2>4. CASE y = client
    <3>1. PICK id : id = Fresh(ctx, type)
      OBVIOUS
    <3>2. PICK x : x = Made(ctx, {id}, p)
      OBVIOUS
    <3>3. o.ctx = x /\ o.status = "SUCCESS"
      BY <1>3, <3>1, <3>2 DEF Outcome
    <3>4. /\ Grown(ctx, x, {id}, p) /\ ContextKnown(x) /\ x.chain = ctx.chain
          /\ id \notin Taken(ctx) /\ Type(id) = type
      BY <1>0, <1>3, <2>1, <2>2, <3>1, <3>2, MadeKnown
    <3>5. PICK N : N = {}
      OBVIOUS
    <3>6. /\ {id} \cap Taken(ctx) = {} /\ DOMAIN ctx.chain \subseteq DOMAIN x.chain
          /\ \A s \in DOMAIN ctx.chain : x.chain[s] = ctx.chain[s]
          /\ N \subseteq {id}
      BY <3>4, <3>5
    <3>7. /\ \A z \in {id} : Type(z) \in Borrowed \/ z \in N
                   \/ \E s \in N : Type(s) = "SWAPCHAIN" /\ z \in x.chain[s]
          /\ \A s \in N : Type(s) = "SWAPCHAIN" =>
                        x.chain[s] \subseteq {id} /\ x.chain[s] \cap N = {}
      BY <3>4, <3>5
    <3>8. /\ DOMAIN client.proxies = DOMAIN client.proxies \cup N
          /\ \A z \in DOMAIN client.proxies : client.proxies[z] = client.proxies[z]
          /\ \A z \in N : client.proxies[z] = ProxyParent(x, z)
      BY <3>5
    <3>9. /\ DOMAIN client.chains = DOMAIN client.chains \cup {s \in N : Type(s) = "SWAPCHAIN"}
          /\ \A s \in DOMAIN client.chains : client.chains[s] = client.chains[s]
          /\ \A s \in N : Type(s) = "SWAPCHAIN" => client.chains[s] = x.chain[s]
      BY <3>5
    <3>91. \A z \in {id} : Type(z) = "DEVICE" => p \in DOMAIN client.proxies
      BY <2>1, <3>4
    <3>10. InStep(x, client)
      BY <1>0, <3>4, <3>6, <3>7, <3>8, <3>9, <3>91, StepGrown
    <3>11. x.lost = ctx.lost /\ x.negotiated = TRUE
      BY <1>0, <3>4 DEF Grown, Agreed
    <3> QED
      BY <1>0, <2>4, <3>3, <3>4, <3>10, <3>11, Agreement DEF Good, Agreed
  <2> QED
    BY <2>3, <2>4
<1> QED
  BY <1>1, <1>2, <1>3

\* A request that is not served, or is about a lost object, changes nothing.
LEMMA UnservedGood ==
  ASSUME BridgeInv, link = "up", NEW id \in Known, Type(id) # "SURFACE",
         NEW status \in {"ENOENT", "EPROTO"}, NEW o \in Fails(ctx, status),
         ~ (ctx.negotiated /\ ctx.present) \/ id \notin Live(ctx)
  PROVE  Good(ctx, o, client) /\ o.status # "SUCCESS"
<1>1. o.ctx = ctx /\ o.status = status
  BY DEF Fails, Outcome
<1>2. ctx.lost # {}
  BY ListedLive
<1> QED
  BY <1>1, <1>2, SameGood, UpAgreed

\* Physical devices and queues keep the id they were given first.
LEMMA BorrowedCalls ==
  ASSUME BridgeInv, vkEnumeratePhysicalDevices \/ vkGetDeviceQueue
  PROVE  BridgeInv'
<1>1. CASE vkEnumeratePhysicalDevices
  <2>1. PICK i \in P("INSTANCE"), room \in BOOLEAN :
          \E o \in Served(ctx, enumerate_physical_devices(ctx, i)) :
            Exchange(o, IF room /\ o.id \notin Known THEN AddedOn(o, i) ELSE client)
    BY <1>1 DEF vkEnumeratePhysicalDevices, answer_vulkan_physical_devices
  <2>2. PICK o \in Served(ctx, enumerate_physical_devices(ctx, i)) :
          Exchange(o, IF room /\ o.id \notin Known THEN AddedOn(o, i) ELSE client)
    BY <2>1
  <2>3. PICK y : /\ Exchange(o, y)
                 /\ y = client \/ (y = AddedOn(o, i) /\ o.id \notin Known)
    BY <2>2
  <2>4. link = "up" /\ i \in Known /\ Type(i) = "INSTANCE" /\ Type(i) # "SURFACE"
    BY <2>3 DEF Exchange, P
  <2>5. CASE ~ (ctx.negotiated /\ ctx.present) \/ i \notin Live(ctx)
    <3>1. PICK status \in {"ENOENT", "EPROTO"} : o \in Fails(ctx, status)
      BY <2>5 DEF Served, enumerate_physical_devices
    <3>2. Good(ctx, o, client) /\ o.status # "SUCCESS"
      BY <2>4, <2>5, <3>1, UnservedGood
    <3>3. y = client
      BY <2>3, <3>2 DEF AddedOn
    <3> QED
      BY <2>3, <3>2, <3>3, ExchangeKeeps
  <2>6. CASE ctx.negotiated /\ ctx.present /\ i \in Live(ctx)
    <3>1. o \in enumerate_physical_devices(ctx, i)
      BY <2>6 DEF Served
    <3>2. \/ \E q \in ChildrenOf(ctx, i) : Type(q) = "PHYSICAL_DEVICE"
                                          /\ o = Outcome(ctx, "SUCCESS", q)
          \/ \E status \in {"EIO", "REFUSED", "ENOSPC"} : o \in Fails(ctx, status)
          \/ /\ ~ Full(ctx, 1)
             /\ o = Outcome(Made(ctx, {Fresh(ctx, "PHYSICAL_DEVICE")}, i), "SUCCESS",
                            Fresh(ctx, "PHYSICAL_DEVICE"))
      BY <2>6, <3>1 DEF enumerate_physical_devices, existing_physical_device_id, Refused
    <3>3. "PHYSICAL_DEVICE" \in Borrowed /\ Type(i) = ParentType("PHYSICAL_DEVICE")
      BY <2>4 DEF Borrowed, ParentType
    <3>4. Good(ctx, o, y)
      BY <2>3, <2>4, <2>6, <3>2, <3>3, BorrowedGood
    <3> QED
      BY <2>3, <3>4, ExchangeKeeps
  <2> QED
    BY <2>5, <2>6
<1>2. CASE vkGetDeviceQueue
  <2>1. PICK d \in P("DEVICE") :
          \E o \in Served(ctx, get_device_queue(ctx, d)) :
            Exchange(o, IF o.id \in Known THEN client ELSE AddedOn(o, d))
    BY <1>2 DEF vkGetDeviceQueue, answer_vulkan_device_queue
  <2>2. PICK o \in Served(ctx, get_device_queue(ctx, d)) :
          Exchange(o, IF o.id \in Known THEN client ELSE AddedOn(o, d))
    BY <2>1
  <2>3. PICK y : /\ Exchange(o, y)
                 /\ y = client \/ (y = AddedOn(o, d) /\ o.id \notin Known)
    BY <2>2
  <2>4. link = "up" /\ d \in Known /\ Type(d) = "DEVICE" /\ Type(d) # "SURFACE"
    BY <2>3 DEF Exchange, P
  <2>5. d \in Live(ctx) => d \in ctx.meta
    BY <2>4 DEF BridgeInv, ContextKnown, NativesKnown, Described
  <2>6. CASE ~ (ctx.negotiated /\ ctx.present) \/ d \notin Live(ctx)
    <3>1. PICK status \in {"ENOENT", "EPROTO"} : o \in Fails(ctx, status)
      BY <2>6 DEF Served, get_device_queue
    <3>2. Good(ctx, o, client) /\ o.status # "SUCCESS"
      BY <2>4, <2>6, <3>1, UnservedGood
    <3>3. y = client
      BY <2>3, <3>2 DEF AddedOn
    <3> QED
      BY <2>3, <3>2, <3>3, ExchangeKeeps
  <2>7. CASE ctx.negotiated /\ ctx.present /\ d \in Live(ctx)
    <3>1. o \in get_device_queue(ctx, d)
      BY <2>7 DEF Served
    <3>2. \/ \E q \in ChildrenOf(ctx, d) : Type(q) = "QUEUE"
                                          /\ o = Outcome(ctx, "SUCCESS", q)
          \/ \E status \in {"EIO", "REFUSED", "ENOSPC"} : o \in Fails(ctx, status)
          \/ /\ ~ Full(ctx, 1)
             /\ o = Outcome(Made(ctx, {Fresh(ctx, "QUEUE")}, d), "SUCCESS",
                            Fresh(ctx, "QUEUE"))
      BY <2>5, <2>7, <3>1 DEF get_device_queue, existing_queue_id, device_metadata_slot
    <3>3. "QUEUE" \in Borrowed /\ Type(d) = ParentType("QUEUE")
      BY <2>4 DEF Borrowed, ParentType
    <3>4. Good(ctx, o, y)
      BY <2>3, <2>4, <2>7, <3>2, <3>3, BorrowedGood
    <3> QED
      BY <2>3, <3>4, ExchangeKeeps
  <2> QED
    BY <2>6, <2>7
<1> QED
  BY <1>1, <1>2

(***************************************************************************)
(* Destructions.                                                           *)
(***************************************************************************)

\* What the client takes off its lists.
LEMMA RemovedFacts ==
  ASSUME NEW Q, DOMAIN client = {"proxies", "chains", "mapped"}
  PROVE  Dropped(client, Removed(Q), Q)
<1>1. PICK e : e = Restrict(client.proxies, Known \ Q)
  OBVIOUS
<1>2. PICK f : f = Restrict(client.chains, DOMAIN client.chains \ Q)
  OBVIOUS
<1>3. PICK y : y = Removed(Q)
  OBVIOUS
<1>4. y = [client EXCEPT !.proxies = e, !.chains = f, !.mapped = client.mapped \ Q]
  BY <1>1, <1>2, <1>3 DEF Removed
<1>5. y.proxies = e /\ y.chains = f /\ y.mapped = client.mapped \ Q
      /\ DOMAIN y = {"proxies", "chains", "mapped"}
  BY <1>4
<1>6. DOMAIN e = DOMAIN client.proxies \ Q /\ \A x \in DOMAIN e : e[x] = client.proxies[x]
  BY <1>1 DEF Restrict, Known
<1>7. DOMAIN f = DOMAIN client.chains \ Q /\ \A x \in DOMAIN f : f[x] = client.chains[x]
  BY <1>2 DEF Restrict
<1> QED
  BY <1>3, <1>5, <1>6, <1>7 DEF Dropped

\* Objects that leave both sides together leave them in step.
LEMMA RemovedGood ==
  ASSUME BridgeInv, link = "up", NEW R, NEW ss, NEW x, NEW Q,
         Without(ctx, x, R, ss), Closed(ctx, R, ss),
         \A s \in ss : ctx.chain[s] \subseteq R,
         \A id \in Known : id \in R => id \in Q,
         \A id \in Live(ctx) : id \in Q => id \in R,
         NEW o, o.ctx = x, o.status = "SUCCESS"
  PROVE  Good(ctx, o, RemovedOn(o, Q))
<1>1. ContextKnown(ctx) /\ InStep(ctx, client) /\ ctx.negotiated = TRUE
      /\ DOMAIN client = {"proxies", "chains", "mapped"}
  BY UpAgreed DEF Agreed
<1>2. PICK y : y = Removed(Q)
  OBVIOUS
<1>3. Dropped(client, y, Q)
  BY <1>1, <1>2, RemovedFacts
<1>4. \A id \in DOMAIN client.proxies : id \in R => id \in Q
  BY DEF Known
<1>5. InStep(x, y)
  BY <1>1, <1>3, <1>4, StepRemoved
<1>6. ContextKnown(x)
  BY <1>1, WithoutKnown
<1>7. x.lost = ctx.lost /\ x.negotiated = TRUE
  BY <1>1 DEF Without
<1>8. RemovedOn(o, Q) = y
  BY <1>2 DEF RemovedOn
<1> QED
  BY <1>3, <1>5, <1>6, <1>7, <1>8, Agreement DEF Good, Agreed, Dropped

\* A call that removes objects and has good outcomes keeps the invariant.
LEMMA DestroysKeep ==
  ASSUME BridgeInv, NEW S, NEW Q, Destroys(S, Q),
         link = "up" => \A o \in S : Good(ctx, o, RemovedOn(o, Q))
  PROVE  BridgeInv'
<1>1. PICK o \in S : Exchange(o, RemovedOn(o, Q))
  BY DEF Destroys
<1>2. Good(ctx, o, RemovedOn(o, Q))
  BY <1>1 DEF Exchange
<1> QED
  BY <1>1, <1>2, ExchangeKeeps

\* A failure removes nothing.
LEMMA FailsKept ==
  ASSUME BridgeInv, link = "up", NEW status, NEW o \in Fails(ctx, status), NEW Q,
         status # "SUCCESS", ctx.lost = {} => status \notin Disagreement
  PROVE  Good(ctx, o, RemovedOn(o, Q))
<1>1. o.ctx = ctx /\ o.status = status
  BY DEF Fails, Outcome
<1>2. RemovedOn(o, Q) = client
  BY <1>1 DEF RemovedOn
<1> QED
  BY <1>1, <1>2, SameGood, UpAgreed

\* The destruction of a listed object is served, or it was lost.
LEMMA ServedDestroys ==
  ASSUME BridgeInv, NEW id \in Known, Type(id) # "SURFACE", NEW S, NEW Q,
         Destroys(Served(ctx, S), Q),
         link = "up" /\ ctx.present => \A o \in S : Good(ctx, o, RemovedOn(o, Q))
  PROVE  BridgeInv'
<1>1. ASSUME link = "up", NEW o \in Served(ctx, S) PROVE Good(ctx, o, RemovedOn(o, Q))
  <2>1. CASE ctx.negotiated /\ ctx.present
    BY <1>1, <2>1 DEF Served
  <2>2. CASE ~ (ctx.negotiated /\ ctx.present)
    <3>1. o \in Fails(ctx, "EPROTO") /\ ctx.lost # {} /\ "EPROTO" # "SUCCESS"
      BY <1>1, <2>2, ListedLive DEF Served
    <3> QED
      BY <1>1, <3>1, FailsKept
  <2> QED
    BY <2>1, <2>2
<1> QED
  BY <1>1, DestroysKeep

\* A listed object is no image of a swapchain.
LEMMA ListedNoChainImage ==
  ASSUME BridgeInv, link = "up", NEW id \in Known, NEW s \in DOMAIN ctx.chain
  PROVE  id \notin ctx.chain[s] /\ s \in DOMAIN client.chains
         /\ client.chains[s] = ctx.chain[s] /\ s \in Known
<1>1. ContextKnown(ctx) /\ InStep(ctx, client)
  BY DEF BridgeInv
<1>2. s \in Live(ctx) /\ Type(s) = "SWAPCHAIN" /\ s \notin ctx.lost
  BY <1>1 DEF ContextKnown, ChainsKnown, OfType, TableKnown
<1>3. Type(s) \notin Borrowed /\ Type(s) # "IMAGE"
  BY <1>2 DEF Borrowed
<1>4. ASSUME NEW t \in DOMAIN client.chains PROVE s \notin client.chains[t]
  <2>1. t \in Known /\ Type(t) = "SWAPCHAIN"
    BY <1>1 DEF InStep, ClientChainsKnown, Known
  <2>2. CASE t \in ctx.lost
    BY <1>1, <1>2, <2>2 DEF InStep, ClientChainsKnown
  <2>3. CASE t \notin ctx.lost
    <3>1. t \in Live(ctx)
      BY <2>1, <2>3, ListedLive
    <3>2. t \in DOMAIN ctx.chain
      BY <1>1, <2>1, <3>1 DEF ContextKnown, ChainsKnown, OfType
    <3>3. client.chains[t] = ctx.chain[t]
      BY <1>1, <2>3 DEF InStep, ClientChainsKnown
    <3> QED
      BY <1>1, <1>2, <1>3, <3>2, <3>3 DEF ContextKnown, ChainsKnown, OfType
  <2> QED
    BY <2>2, <2>3
<1>5. s \in DOMAIN client.proxies
  BY <1>1, <1>2, <1>3, <1>4 DEF InStep, ListsKnown
<1>6. s \in DOMAIN client.chains
  BY <1>1, <1>2, <1>5 DEF InStep, ClientChainsKnown
<1>7. client.chains[s] = ctx.chain[s] /\ client.chains[s] \cap DOMAIN client.proxies = {}
  BY <1>1, <1>2, <1>6 DEF InStep, ClientChainsKnown
<1> QED
  BY <1>5, <1>6, <1>7 DEF Known

\* An object without children that belongs to no swapchain goes alone.
LEMMA LeafGone ==
  ASSUME NEW c, ContextKnown(c), NEW id \in Live(c), Type(id) # "SWAPCHAIN",
         \A k \in Live(c) : c.table[k] # id, id \notin c.mirrored,
         \A s \in DOMAIN c.chain : id \notin c.chain[s]
  PROVE  Without(c, Destroyed(c, {id}), {id}, {}) /\ Closed(c, {id}, {})
<1>1. Owned(c) /\ DOMAIN c = DOMAIN NewContext
  BY KnownOwned DEF Owned
<1>2. PICK I : I = {id}
  OBVIOUS
<1>3. PICK K : K = {}
  OBVIOUS
<1>4. Unlisted(c, c, K)
  BY <1>1, <1>3, SameUnlists
<1>5. I \subseteq Live(c) /\ K \subseteq Live(c)
      /\ \A k \in Live(c) : c.table[k] \in I <=> k \in K
  BY <1>2, <1>3
<1>6. \A k \in K : Type(c.table[k]) \in Pools /\ Type(k) \notin Borrowed
  BY <1>3
<1>7. Without(c, Destroyed(c, I), I \cup K, {})
  BY <1>1, <1>4, <1>5, <1>6, DestroyedWithout
<1>8. I \cup K = {id}
  BY <1>2, <1>3
<1>9. id \notin DOMAIN c.chain
  BY DEF ContextKnown, ChainsKnown, OfType
<1>10. Closed(c, {id}, {})
  BY <1>9 DEF Closed
<1> QED
  BY <1>2, <1>7, <1>8, <1>10

\* The destruction of a listed object that has no children is good.
LEMMA LeafGood ==
  ASSUME BridgeInv, link = "up", NEW id \in Known, id \in Live(ctx),
         Type(id) # "SWAPCHAIN", \A k \in Live(ctx) : ctx.table[k] # id,
         id \notin ctx.mirrored, NEW o \in Succeeds(Destroyed(ctx, {id}))
  PROVE  Good(ctx, o, RemovedOn(o, {id}))
<1>1. ContextKnown(ctx) /\ \A s \in DOMAIN ctx.chain : id \notin ctx.chain[s]
  BY ListedNoChainImage DEF BridgeInv
<1>2. Without(ctx, Destroyed(ctx, {id}), {id}, {}) /\ Closed(ctx, {id}, {})
  BY <1>1, LeafGone
<1>3. PICK x : x = Destroyed(ctx, {id})
  OBVIOUS
<1>4. o.ctx = x /\ o.status = "SUCCESS"
  BY <1>3 DEF Succeeds, Fails, Outcome
<1>5. PICK R : R = {id}
  OBVIOUS
<1>6. PICK ss : ss = {}
  OBVIOUS
<1>7. /\ Without(ctx, x, R, ss) /\ Closed(ctx, R, ss)
      /\ \A s \in ss : ctx.chain[s] \subseteq R
      /\ \A z \in Known : z \in R => z \in R
      /\ \A z \in Live(ctx) : z \in R => z \in R \/ Type(z) \in Borrowed
  BY <1>2, <1>3, <1>5, <1>6
<1>8. Good(ctx, o, RemovedOn(o, R))
  BY <1>4, <1>7, RemovedGood
<1> QED
  BY <1>5, <1>8

\* Types whose objects are the parents of no other.
LEMMA ChildlessTypes ==
  ASSUME NEW c, ContextKnown(c), NEW id,
         Type(id) \notin {"INSTANCE", "PHYSICAL_DEVICE", "DEVICE", "COMMAND_POOL",
                          "DESCRIPTOR_POOL", "IMAGE", "NONE"}
  PROVE  \A k \in Live(c) : c.table[k] # id
BY ParentFacts

\* One listed object of such a type, which is neither swapchain nor memory.
LEMMA LeafDestroys ==
  ASSUME BridgeInv, NEW id \in Known,
         Type(id) \notin {"INSTANCE", "PHYSICAL_DEVICE", "DEVICE", "COMMAND_POOL",
                          "DESCRIPTOR_POOL", "IMAGE", "NONE", "SWAPCHAIN",
                          "DEVICE_MEMORY", "SURFACE"},
         NEW S, Destroys(Served(ctx, S), {id}),
         link = "up" => S = IF id \in Live(ctx) THEN Succeeds(Destroyed(ctx, {id}))
                            ELSE Fails(ctx, "ENOENT")
  PROVE  BridgeInv'
<1>1. ASSUME link = "up", NEW o \in S PROVE Good(ctx, o, RemovedOn(o, {id}))
  <2>0. ContextKnown(ctx)
    BY <1>1 DEF BridgeInv
  <2>1. CASE id \in Live(ctx)
    <3>1. id \notin ctx.mirrored
      BY <2>0 DEF ContextKnown, NativesKnown, OfType
    <3>2. \A k \in Live(ctx) : ctx.table[k] # id
      BY <2>0, ChildlessTypes
    <3>3. Type(id) # "SWAPCHAIN" /\ o \in Succeeds(Destroyed(ctx, {id}))
      BY <1>1, <2>1
    <3> QED
      BY <1>1, <2>1, <3>1, <3>2, <3>3, LeafGood
  <2>2. CASE id \notin Live(ctx)
    <3>1. ctx.lost # {} /\ o \in Fails(ctx, "ENOENT") /\ "ENOENT" # "SUCCESS"
      BY <1>1, <2>2, ListedLive
    <3> QED
      BY <1>1, <3>1, FailsKept
  <2> QED
    BY <2>1, <2>2
<1>2. Type(id) # "SURFACE"
  OBVIOUS
<1> QED
  BY <1>1, <1>2, ServedDestroys

\* The destructions of plain objects.
LEMMA LeafCalls ==
  ASSUME BridgeInv,
         \/ vkDestroyDescriptorSetLayout \/ vkDestroyQueryPool \/ vkDestroySampler
         \/ vkDestroyDescriptorUpdateTemplate \/ vkDestroyPipelineLayout
         \/ vkDestroyPipeline \/ vkDestroyBuffer \/ vkDestroyFence
         \/ vkDestroySemaphore \/ vkDestroyImageView
  PROVE  BridgeInv'
<1>1. PICK type \in {"DESCRIPTOR_SET_LAYOUT", "QUERY_POOL", "SAMPLER", "UPDATE_TEMPLATE",
                     "PIPELINE_LAYOUT", "PIPELINE", "BUFFER", "FENCE", "SEMAPHORE",
                     "IMAGE_VIEW"} : destroy_resource(type)
  BY DEF vkDestroyDescriptorSetLayout, vkDestroyQueryPool, vkDestroySampler,
     vkDestroyDescriptorUpdateTemplate, vkDestroyPipelineLayout, vkDestroyPipeline,
     vkDestroyBuffer, vkDestroyFence, vkDestroySemaphore, vkDestroyImageView
<1>2. PICK id \in P(type) :
        Destroys(answer_vulkan_resource_destroy(ctx, id), {id})
  <2>1. type # "DESCRIPTOR_POOL"
    OBVIOUS
  <2> QED
    BY <1>1, <2>1 DEF destroy_resource
<1>3. id \in Known /\ Type(id) = type
  BY DEF P
<1>4. PICK S : S = IF type = "IMAGE_VIEW" THEN destroy_image_view(ctx, id)
                   ELSE DestroyedChild(ctx, id)
  OBVIOUS
<1>5. answer_vulkan_resource_destroy(ctx, id) = Served(ctx, S)
  BY <1>3, <1>4 DEF answer_vulkan_resource_destroy, destroy_descriptor_set_layout,
     destroy_query_pool, destroy_sampler, destroy_descriptor_update_template,
     destroy_pipeline_layout, destroy_pipeline, destroy_buffer, destroy_fence,
     destroy_semaphore
<1>6. ASSUME link = "up"
      PROVE  S = IF id \in Live(ctx) THEN Succeeds(Destroyed(ctx, {id}))
                 ELSE Fails(ctx, "ENOENT")
  <2>1. resolve_device_child(ctx, id) <=> id \in Live(ctx)
    BY <1>3, <1>6, ParentLive DEF resolve_device_child
  <2>2. type = "IMAGE_VIEW" /\ id \in Live(ctx) => resolve_device_child(ctx, ctx.table[id])
    <3>1. ContextKnown(ctx)
      BY <1>6 DEF BridgeInv
    <3>2. type = "IMAGE_VIEW" /\ id \in Live(ctx) =>
            ctx.table[id] \in Live(ctx) /\ ctx.table[ctx.table[id]] \in Live(ctx)
      BY <1>3, <3>1, DeviceOfFacts DEF Grandchildren, OfType
    <3> QED
      BY <3>2 DEF resolve_device_child
  <2> QED
    BY <1>4, <2>1, <2>2 DEF destroy_image_view, DestroyedChild
<1>7. Type(id) \notin {"INSTANCE", "PHYSICAL_DEVICE", "DEVICE", "COMMAND_POOL",
                       "DESCRIPTOR_POOL", "IMAGE", "NONE", "SWAPCHAIN",
                       "DEVICE_MEMORY", "SURFACE"}
  BY <1>3
<1> QED
  BY <1>2, <1>3, <1>5, <1>6, <1>7, LeafDestroys

\* A command buffer is freed from the pool its proxy names.
LEMMA FreeCommandBufferCall ==
  ASSUME BridgeInv, vkFreeCommandBuffers
  PROVE  BridgeInv'
<1>1. PICK cb \in P("COMMAND_BUFFER") :
        Destroys(Served(ctx, free_command_buffer(ctx, client.proxies[cb], cb)), {cb})
  BY DEF vkFreeCommandBuffers, answer_vulkan_command_buffer_free
<1>2. cb \in Known /\ Type(cb) = "COMMAND_BUFFER"
  BY DEF P
<1>3. PICK S : S = free_command_buffer(ctx, client.proxies[cb], cb)
  OBVIOUS
<1>4. ASSUME link = "up"
      PROVE  S = IF cb \in Live(ctx) THEN Succeeds(Destroyed(ctx, {cb}))
                 ELSE Fails(ctx, "ENOENT")
  <2>1. CASE cb \in Live(ctx)
    <3>1. cb \notin ctx.lost
      BY <1>4, <2>1 DEF BridgeInv, ContextKnown, TableKnown
    <3>2. client.proxies[cb] = ctx.table[cb] /\ ctx.table[cb] \in Live(ctx)
          /\ Type(ctx.table[cb]) \in Pools
      BY <1>2, <1>4, <3>1, ProxyAt
    <3>3. resolve_command_pool(ctx, ctx.table[cb]) = "SUCCESS"
      BY <1>4, <3>2, ParentLive DEF Pools, resolve_command_pool
    <3> QED
      BY <1>3, <2>1, <3>2, <3>3 DEF free_command_buffer
  <2>2. CASE cb \notin Live(ctx)
    BY <1>3, <2>2 DEF free_command_buffer
  <2> QED
    BY <2>1, <2>2
<1>5. Type(cb) \notin {"INSTANCE", "PHYSICAL_DEVICE", "DEVICE", "COMMAND_POOL",
                       "DESCRIPTOR_POOL", "IMAGE", "NONE", "SWAPCHAIN",
                       "DEVICE_MEMORY", "SURFACE"}
  BY <1>2
<1> QED
  BY <1>1, <1>2, <1>3, <1>4, <1>5, LeafDestroys

\* An image with views stays; without, it goes.
LEMMA DestroyImageCall ==
  ASSUME BridgeInv, vkDestroyImage
  PROVE  BridgeInv'
<1>1. PICK id \in P("IMAGE") : Destroys(answer_vulkan_resource_destroy(ctx, id), {id})
  BY DEF vkDestroyImage, destroy_resource
<1>2. id \in Known /\ Type(id) = "IMAGE" /\ Type(id) # "SURFACE" /\ Type(id) # "SWAPCHAIN"
  BY DEF P
<1>3. answer_vulkan_resource_destroy(ctx, id) = Served(ctx, destroy_image(ctx, id))
  BY <1>2 DEF answer_vulkan_resource_destroy
<1>4. ASSUME link = "up", NEW o \in destroy_image(ctx, id)
      PROVE  Good(ctx, o, RemovedOn(o, {id}))
  <2>0. ContextKnown(ctx)
    BY <1>4 DEF BridgeInv
  <2>1. resolve_device_child(ctx, id) <=> id \in Live(ctx)
    BY <1>2, <1>4, ParentLive DEF resolve_device_child
  <2>2. CASE id \in Live(ctx) /\ ChildrenOf(ctx, id) # {}
    <3>1. o \in Fails(ctx, "EBUSY") /\ "EBUSY" # "SUCCESS"
      BY <1>4, <2>1, <2>2 DEF destroy_image
    <3> QED
      BY <1>4, <3>1, FailsKept, Agreement
  <2>3. CASE id \in Live(ctx) /\ ChildrenOf(ctx, id) = {}
    <3>1. o \in Succeeds(Destroyed(ctx, {id}))
      BY <1>4, <2>1, <2>3 DEF destroy_image, DestroyedChild
    <3>2. \A k \in Live(ctx) : ctx.table[k] # id
      BY <2>3 DEF ChildrenOf
    <3>3. id \notin ctx.mirrored
      BY <1>2, <2>0 DEF ContextKnown, NativesKnown, OfType
    <3> QED
      BY <1>2, <1>4, <2>3, <3>1, <3>2, <3>3, LeafGood
  <2>4. CASE id \notin Live(ctx)
    <3>1. ctx.lost # {} /\ o \in Fails(ctx, "ENOENT") /\ "ENOENT" # "SUCCESS"
      BY <1>2, <1>4, <2>1, <2>4, ListedLive DEF destroy_image, DestroyedChild
    <3> QED
      BY <1>4, <3>1, FailsKept
  <2> QED
    BY <2>2, <2>3, <2>4
<1> QED
  BY <1>1, <1>2, <1>3, <1>4, ServedDestroys

\* What a pool of this type holds.
PoolChild(type) == IF type = "COMMAND_POOL" THEN "COMMAND_BUFFER" ELSE "DESCRIPTOR_SET"

\* The children of a live pool are of one type, childless, and the client lists
\* those of them it knows under the pool.
LEMMA PoolChildren ==
  ASSUME BridgeInv, link = "up", NEW pool \in Known, pool \in Live(ctx),
         Type(pool) \in Pools
  PROVE  /\ \A k \in ChildrenOf(ctx, pool) : Type(k) = PoolChild(Type(pool))
         /\ \A k \in Live(ctx) : ctx.table[k] \notin ChildrenOf(ctx, pool)
         /\ \A k \in Known : k \in ChildrenOf(ctx, pool) =>
                               k \in Of(PoolChild(Type(pool)), pool)
         /\ \A k \in Live(ctx) : k \in Of(PoolChild(Type(pool)), pool) =>
                                   k \in ChildrenOf(ctx, pool)
<1>0. ContextKnown(ctx) /\ pool # NoObject
  BY NoObjectType DEF BridgeInv, Pools
<1>1. ASSUME NEW k \in ChildrenOf(ctx, pool)
      PROVE  k \in Live(ctx) /\ ctx.table[k] = pool /\ Type(k) = PoolChild(Type(pool))
  <2>1. k \in Live(ctx) /\ ctx.table[k] = pool
    BY DEF ChildrenOf
  <2>2. Type(pool) = ParentType(Type(k))
    BY <1>0, <2>1, ParentFacts
  <2> QED
    BY <2>1, <2>2 DEF ParentType, PoolChild, Pools
<1>2. ASSUME NEW k \in Live(ctx), ctx.table[k] \in ChildrenOf(ctx, pool) PROVE FALSE
  <2>1. Type(ctx.table[k]) \in {"COMMAND_BUFFER", "DESCRIPTOR_SET"}
    BY <1>1, <1>2 DEF PoolChild
  <2> QED
    BY <1>0, <2>1, ParentFacts
<1>3. ASSUME NEW k \in Known, k \in Live(ctx), Type(k) = PoolChild(Type(pool))
      PROVE  client.proxies[k] = ctx.table[k]
  <2>1. Type(k) \in {"COMMAND_BUFFER", "DESCRIPTOR_SET"} /\ k \notin ctx.lost
    BY <1>0, <1>3 DEF PoolChild, ContextKnown, TableKnown
  <2> QED
    BY <2>1, ProxyAt
<1>4. ASSUME NEW k \in Known, k \in ChildrenOf(ctx, pool)
      PROVE  k \in Of(PoolChild(Type(pool)), pool)
  BY <1>1, <1>3, <1>4 DEF Of, P
<1>5. ASSUME NEW k \in Live(ctx), k \in Of(PoolChild(Type(pool)), pool)
      PROVE  k \in ChildrenOf(ctx, pool)
  BY <1>3, <1>5 DEF Of, P, ChildrenOf
<1> QED
  BY <1>1, <1>2, <1>4, <1>5

\* A destroyed pool takes along what was allocated from it, on both sides.
LEMMA PoolGood ==
  ASSUME BridgeInv, link = "up", NEW pool \in Known, pool \in Live(ctx),
         Type(pool) \in Pools, NEW Q, Q = {pool} \cup Of(PoolChild(Type(pool)), pool),
         NEW o \in Succeeds(Destroyed(Forgotten(ctx, ChildrenOf(ctx, pool)), {pool}))
  PROVE  Good(ctx, o, RemovedOn(o, Q))
<1>0. ContextKnown(ctx) /\ Owned(ctx) /\ DOMAIN ctx = DOMAIN NewContext
  BY KnownOwned DEF BridgeInv, Owned
<1>1. PICK K : K = ChildrenOf(ctx, pool)
  OBVIOUS
<1>2. PICK I : I = {pool}
  OBVIOUS
<1>3. PICK f : f = Forgotten(ctx, K)
  OBVIOUS
<1>4. Unlisted(ctx, f, K)
  BY <1>0, <1>3, ForgottenUnlists
<1>5. /\ \A k \in K : Type(k) = PoolChild(Type(pool))
      /\ \A k \in Live(ctx) : ctx.table[k] \notin K
      /\ \A k \in Known : k \in K => k \in Q
      /\ \A k \in Live(ctx) : k \in Of(PoolChild(Type(pool)), pool) => k \in K
  BY <1>1, PoolChildren
<1>6. I \subseteq Live(ctx) /\ K \subseteq Live(ctx)
      /\ \A k \in Live(ctx) : ctx.table[k] \in I <=> k \in K
  BY <1>1, <1>2 DEF ChildrenOf
<1>7. \A k \in K : Type(ctx.table[k]) \in Pools /\ Type(k) \notin Borrowed
  BY <1>1, <1>5 DEF ChildrenOf, PoolChild, Borrowed
<1>8. PICK x : x = Destroyed(f, I)
  OBVIOUS
<1>9. PICK R : R = I \cup K
  OBVIOUS
<1>10. PICK ss : ss = {}
  OBVIOUS
<1>11. Without(ctx, x, R, ss)
  BY <1>0, <1>4, <1>6, <1>7, <1>8, <1>9, <1>10, DestroyedWithout
<1>12. \A k \in R : Type(k) \in {"COMMAND_POOL", "DESCRIPTOR_POOL", "COMMAND_BUFFER",
                                 "DESCRIPTOR_SET"}
  BY <1>2, <1>5, <1>9 DEF PoolChild, Pools
<1>13. Closed(ctx, R, ss)
  <2>1. R \cap DOMAIN ctx.chain = {} /\ R \cap ctx.mirrored = {}
    BY <1>0, <1>12 DEF ContextKnown, ChainsKnown, NativesKnown, OfType
  <2>2. \A s \in DOMAIN ctx.chain : ctx.chain[s] \cap R = {}
    BY <1>0, <1>12 DEF ContextKnown, ChainsKnown, OfType
  <2> QED
    BY <1>5, <1>6, <1>9, <1>10, <2>1, <2>2 DEF Closed
<1>14. \A s \in ss : ctx.chain[s] \subseteq R
  BY <1>10
<1>15. \A id \in Known : id \in R => id \in Q
  BY <1>2, <1>5, <1>9
<1>16. \A id \in Live(ctx) : id \in Q => id \in R
  BY <1>2, <1>5, <1>9
<1>17. o.ctx = x /\ o.status = "SUCCESS"
  BY <1>1, <1>2, <1>3, <1>8 DEF Succeeds, Fails, Outcome
<1> QED
  BY <1>11, <1>13, <1>14, <1>15, <1>16, <1>17, RemovedGood

\* A listed pool is destroyed.
LEMMA PoolDestroys ==
  ASSUME BridgeInv, NEW pool \in Known, Type(pool) \in Pools, NEW Q,
         Q = {pool} \cup Of(PoolChild(Type(pool)), pool), NEW S,
         Destroys(Served(ctx, S), Q),
         S = IF resolve_device_child(ctx, pool)
             THEN Succeeds(Destroyed(Forgotten(ctx, ChildrenOf(ctx, pool)), {pool}))
             ELSE Fails(ctx, "ENOENT")
  PROVE  BridgeInv'
<1>1. Type(pool) # "SURFACE" /\ Type(pool) # "INSTANCE"
  BY DEF Pools
<1>2. ASSUME link = "up", NEW o \in S PROVE Good(ctx, o, RemovedOn(o, Q))
  <2>1. resolve_device_child(ctx, pool) <=> pool \in Live(ctx)
    BY <1>1, <1>2, ParentLive DEF resolve_device_child
  <2>2. CASE pool \in Live(ctx)
    BY <1>2, <2>1, <2>2, PoolGood
  <2>3. CASE pool \notin Live(ctx)
    <3>1. ctx.lost # {} /\ o \in Fails(ctx, "ENOENT") /\ "ENOENT" # "SUCCESS"
      BY <1>1, <1>2, <2>1, <2>3, ListedLive
    <3> QED
      BY <1>2, <3>1, FailsKept
  <2> QED
    BY <2>2, <2>3
<1> QED
  BY <1>1, <1>2, ServedDestroys

\* Command pools and descriptor pools are destroyed with their contents.
LEMMA PoolCalls ==
  ASSUME BridgeInv, vkDestroyCommandPool \/ vkDestroyDescriptorPool
  PROVE  BridgeInv'
<1>1. CASE vkDestroyCommandPool
  <2>1. PICK pool \in P("COMMAND_POOL") :
          Destroys(Served(ctx, destroy_command_pool(ctx, pool)),
                   {pool} \cup Of("COMMAND_BUFFER", pool))
    BY <1>1 DEF vkDestroyCommandPool, answer_vulkan_command_pool_destroy,
       remove_command_pool_proxy_locked, remove_command_buffers_for_pool_locked
  <2>2. pool \in Known /\ Type(pool) = "COMMAND_POOL" /\ Type(pool) \in Pools
        /\ PoolChild(Type(pool)) = "COMMAND_BUFFER"
    BY DEF P, Pools, PoolChild
  <2>3. PICK S : S = destroy_command_pool(ctx, pool)
    OBVIOUS
  <2>4. S = IF resolve_device_child(ctx, pool)
            THEN Succeeds(Destroyed(Forgotten(ctx, ChildrenOf(ctx, pool)), {pool}))
            ELSE Fails(ctx, "ENOENT")
    BY <2>3 DEF destroy_command_pool, resolve_command_pool
  <2>5. PICK Q : Q = {pool} \cup Of("COMMAND_BUFFER", pool)
    OBVIOUS
  <2>6. Q = {pool} \cup Of(PoolChild(Type(pool)), pool) /\ Destroys(Served(ctx, S), Q)
    BY <2>1, <2>2, <2>3, <2>5
  <2> QED
    BY <2>2, <2>4, <2>6, PoolDestroys
<1>2. CASE vkDestroyDescriptorPool
  <2>1. PICK pool \in P("DESCRIPTOR_POOL") :
          Destroys(answer_vulkan_resource_destroy(ctx, pool),
                   {pool} \cup Of("DESCRIPTOR_SET", pool))
    BY <1>2 DEF vkDestroyDescriptorPool, destroy_resource,
       remove_descriptor_sets_for_pool_locked
  <2>2. pool \in Known /\ Type(pool) = "DESCRIPTOR_POOL" /\ Type(pool) \in Pools
        /\ PoolChild(Type(pool)) = "DESCRIPTOR_SET"
    BY DEF P, Pools, PoolChild
  <2>3. PICK S : S = destroy_descriptor_pool(ctx, pool)
    OBVIOUS
  <2>4. S = IF resolve_device_child(ctx, pool)
            THEN Succeeds(Destroyed(Forgotten(ctx, ChildrenOf(ctx, pool)), {pool}))
            ELSE Fails(ctx, "ENOENT")
    BY <2>3 DEF destroy_descriptor_pool
  <2>5. PICK Q : Q = {pool} \cup Of("DESCRIPTOR_SET", pool)
    OBVIOUS
  <2>6. Q = {pool} \cup Of(PoolChild(Type(pool)), pool)
    BY <2>2, <2>5
  <2>7. answer_vulkan_resource_destroy(ctx, pool) = Served(ctx, S)
    BY <2>2, <2>3 DEF answer_vulkan_resource_destroy
  <2> QED
    BY <2>1, <2>2, <2>4, <2>5, <2>6, <2>7, PoolDestroys
<1> QED
  BY <1>1, <1>2

\* A reset that takes the sets of a pool out of the table and of the driver.
LEMMA ResetWithout ==
  ASSUME NEW c, DOMAIN c = DOMAIN NewContext, NEW K, NEW r,
         r = [c EXCEPT !.native = Restrict(c.native, DOMAIN c.native \ K)]
  PROVE  Without(c, Forgotten(r, K), K, {})
<1>1. PICK e : e = Restrict(c.native, DOMAIN c.native \ K)
  OBVIOUS
<1>2. r = [c EXCEPT !.native = e]
  BY <1>1
<1>3. /\ DOMAIN r = DOMAIN NewContext /\ r.table = c.table /\ r.native = e
      /\ r.meta = c.meta /\ r.bound = c.bound /\ r.mirrored = c.mirrored
      /\ r.early = c.early /\ r.lost = c.lost /\ r.negotiated = c.negotiated
      /\ r.present = c.present /\ r.chain = c.chain
  BY <1>2, ContextFields
<1>4. DOMAIN e = DOMAIN c.native \ K /\ \A id \in DOMAIN e : e[id] = c.native[id]
  BY <1>1 DEF Restrict
<1>5. PICK x : x = Forgotten(r, K)
  OBVIOUS
<1>6. Unlisted(r, x, K)
  BY <1>3, <1>5, ForgottenUnlists
<1>7. Live(x) = Live(c) \ K /\ \A id \in Live(x) : x.table[id] = c.table[id]
  BY <1>3, <1>6 DEF Unlisted, Live
<1>8. DOMAIN x.native = DOMAIN c.native \ K
      /\ \A id \in DOMAIN x.native : x.native[id] = c.native[id]
  BY <1>3, <1>4, <1>6 DEF Unlisted
<1>9. /\ x.meta = c.meta \ K /\ x.bound = c.bound \ K /\ x.early = c.early
      /\ x.mirrored = c.mirrored /\ x.lost = c.lost
      /\ x.negotiated = c.negotiated /\ x.present = c.present /\ x.chain = c.chain
      /\ DOMAIN x = DOMAIN NewContext
  BY <1>3, <1>6 DEF Unlisted
<1> QED
  BY <1>5, <1>7, <1>8, <1>9 DEF Without

\* A reset descriptor pool loses its sets on both sides.
LEMMA ResetPoolCall ==
  ASSUME BridgeInv, vkResetDescriptorPool
  PROVE  BridgeInv'
<1>1. PICK pool \in P("DESCRIPTOR_POOL") :
        Destroys(Served(ctx, reset_descriptor_pool(ctx, pool)), Of("DESCRIPTOR_SET", pool))
  BY DEF vkResetDescriptorPool, answer_vulkan_descriptor_pool_reset,
     remove_descriptor_sets_for_pool_locked
<1>2. pool \in Known /\ Type(pool) = "DESCRIPTOR_POOL" /\ Type(pool) \in Pools
      /\ PoolChild(Type(pool)) = "DESCRIPTOR_SET" /\ Type(pool) # "SURFACE"
  BY DEF P, Pools, PoolChild
<1>3. PICK Q : Q = Of("DESCRIPTOR_SET", pool)
  OBVIOUS
<1>4. ASSUME link = "up", NEW o \in reset_descriptor_pool(ctx, pool)
      PROVE  Good(ctx, o, RemovedOn(o, Q))
  <2>0. ContextKnown(ctx) /\ DOMAIN ctx = DOMAIN NewContext
    BY <1>4 DEF BridgeInv, ContextKnown
  <2>1. resolve_device_child(ctx, pool) <=> pool \in Live(ctx)
    BY <1>2, <1>4, ParentLive DEF resolve_device_child
  <2>2. CASE pool \notin Live(ctx)
    <3>1. ctx.lost # {} /\ o \in Fails(ctx, "ENOENT") /\ "ENOENT" # "SUCCESS"
      BY <1>2, <1>4, <2>1, <2>2, ListedLive DEF reset_descriptor_pool
    <3> QED
      BY <1>4, <3>1, FailsKept
  <2>3. CASE pool \in Live(ctx) /\ o \in Fails(ctx, "REFUSED")
    BY <1>4, <2>3, FailsKept, Agreement
  <2>4. CASE pool \in Live(ctx) /\ o \notin Fails(ctx, "REFUSED")
    <3>1. PICK K : K = ChildrenOf(ctx, pool)
      OBVIOUS
    <3>2. PICK r : r = [ctx EXCEPT !.native = Restrict(ctx.native, DOMAIN ctx.native \ K)]
      OBVIOUS
    <3>3. PICK x : x = Forgotten(r, K)
      OBVIOUS
    <3>4. o \in Succeeds(x)
      BY <1>4, <2>1, <2>4, <3>1, <3>2, <3>3 DEF reset_descriptor_pool, Refused
    <3>5. o.ctx = x /\ o.status = "SUCCESS"
      BY <3>4 DEF Succeeds, Fails, Outcome
    <3>6. PICK ss : ss = {}
      OBVIOUS
    <3>7. Without(ctx, x, K, ss)
      BY <2>0, <3>2, <3>3, <3>6, ResetWithout
    <3>8. /\ \A k \in K : Type(k) = "DESCRIPTOR_SET"
          /\ \A k \in Live(ctx) : ctx.table[k] \notin K
          /\ \A k \in Known : k \in K => k \in Q
          /\ \A k \in Live(ctx) : k \in Q => k \in K
      BY <1>2, <1>3, <1>4, <2>4, <3>1, PoolChildren
    <3>9. Closed(ctx, K, ss)
      <4>1. K \subseteq Live(ctx)
        BY <3>1 DEF ChildrenOf
      <4>2. K \cap DOMAIN ctx.chain = {} /\ K \cap ctx.mirrored = {}
        BY <2>0, <3>8 DEF ContextKnown, ChainsKnown, NativesKnown, OfType
      <4>3. \A s \in DOMAIN ctx.chain : ctx.chain[s] \cap K = {}
        BY <2>0, <3>8 DEF ContextKnown, ChainsKnown, OfType
      <4> QED
        BY <3>6, <3>8, <4>1, <4>2, <4>3 DEF Closed
    <3>10. \A s \in ss : ctx.chain[s] \subseteq K
      BY <3>6
    <3>11. \A k \in Live(ctx) : k \in Q => k \in K \/ Type(k) \in Borrowed
      BY <3>8
    <3> QED
      BY <1>4, <3>5, <3>7, <3>8, <3>9, <3>10, <3>11, RemovedGood
  <2> QED
    BY <2>2, <2>3, <2>4
<1> QED
  BY <1>1, <1>2, <1>3, <1>4, ServedDestroys

\* u is c with the mirrored memories M, y is cl with the mapped memories M.
Mirrors(c, u, M) == u = [c EXCEPT !.mirrored = M]
Maps(cl, y, M) == y = [cl EXCEPT !.mapped = M]

\* Mapped and mirrored together.
LEMMA MirrorAgreed ==
  ASSUME NEW c, NEW cl, Agreed(c, cl), NEW M, M \subseteq OfType(c, "DEVICE_MEMORY"),
         NEW u, Mirrors(c, u, M), NEW y, Maps(cl, y, M)
  PROVE  /\ Agreed(u, y) /\ u.lost = c.lost /\ u.present = c.present
         /\ u.negotiated = c.negotiated /\ u.mirrored = M
         /\ Live(u) = Live(c) /\ u.table = c.table /\ u.chain = c.chain
         /\ y.proxies = cl.proxies /\ y.chains = cl.chains /\ y.mapped = M
<1>0. ContextKnown(c) /\ InStep(c, cl) /\ DOMAIN c = DOMAIN NewContext
      /\ DOMAIN cl = {"proxies", "chains", "mapped"}
  BY DEF Agreed, ContextKnown
<1>1. Alike(c, u) /\ u.lost = c.lost /\ u.bound = c.bound /\ u.mirrored = M
      /\ u.negotiated = c.negotiated /\ u.present = c.present
  BY <1>0, ContextFields DEF Alike, Mirrors
<1>2. y.proxies = cl.proxies /\ y.chains = cl.chains /\ y.mapped = M
      /\ DOMAIN y = {"proxies", "chains", "mapped"}
  BY <1>0 DEF Maps
<1>3. IsFiniteSet(c.lost) /\ c.lost \cap Live(c) = {} /\ c.bound \subseteq OfType(c, "BUFFER")
      /\ (\A id \in c.lost : Type(id) \in ObjectTypes)
  BY <1>0 DEF ContextKnown, TableKnown, NativesKnown
<1>4. ContextKnown(u)
  <2>1. IsFiniteSet(u.lost) /\ u.lost \cap Live(c) = {} /\ (c.present => u.present)
        /\ (\A id \in u.lost : Type(id) \in ObjectTypes)
        /\ u.bound \subseteq OfType(c, "BUFFER")
        /\ u.mirrored \subseteq OfType(c, "DEVICE_MEMORY")
    BY <1>1, <1>3
  <2> QED
    BY <1>0, <1>1, <2>1, AlikeKnown
<1>5. Live(u) = Live(c) /\ u.table = c.table /\ u.chain = c.chain
  BY <1>1 DEF Alike, Live
<1>7. \A id : ProxyParent(u, id) = ProxyParent(c, id)
  BY <1>5 DEF ProxyParent
<1>8. ListsKnown(u, y)
  BY <1>0, <1>1, <1>2, <1>5, <1>7 DEF InStep, ListsKnown
<1>9. ClientChainsKnown(u, y)
  BY <1>0, <1>1, <1>2, <1>5 DEF InStep, ClientChainsKnown
<1>10. u.negotiated = TRUE
  BY <1>1 DEF Agreed
<1>11. PhysicalsListed(u, y)
  BY <1>0, <1>2, <1>5 DEF InStep, PhysicalsListed, OfType
<1> QED
  BY <1>1, <1>2, <1>4, <1>5, <1>8, <1>9, <1>10, <1>11 DEF Agreed, InStep

\* Mapping memory.
LEMMA MapCall ==
  ASSUME BridgeInv, vkMapMemory
  PROVE  BridgeInv'
<1>1. PICK m \in P("DEVICE_MEMORY") \ client.mapped :
        \E o \in Served(ctx, setup_memory_mirror(ctx, client.proxies[m], m)) :
          Exchange(o, IF o.status = "SUCCESS"
                      THEN [client EXCEPT !.mapped = @ \cup {m}] ELSE client)
  BY DEF vkMapMemory, answer_vulkan_memory_mirror_setup
<1>2. PICK o \in Served(ctx, setup_memory_mirror(ctx, client.proxies[m], m)) :
        Exchange(o, IF o.status = "SUCCESS"
                    THEN [client EXCEPT !.mapped = @ \cup {m}] ELSE client)
  BY <1>1
<1>3. m \in Known /\ Type(m) = "DEVICE_MEMORY" /\ Type(m) # "SURFACE" /\ link = "up"
  BY <1>2 DEF P, Exchange
<1>4. Agreed(ctx, client) /\ ContextKnown(ctx) /\ client.mapped = ctx.mirrored
  BY <1>3, UpAgreed DEF Agreed, InStep, ListsKnown
<1>5. CASE o.ctx = ctx /\ o.status # "SUCCESS" /\ (ctx.lost = {} => o.status \notin Disagreement)
  <2>1. Exchange(o, client) /\ Good(ctx, o, client)
    BY <1>2, <1>4, <1>5, SameGood
  <2> QED
    BY <2>1, ExchangeKeeps
<1>6. ctx.lost = {} => Resolved(ctx, client.proxies[m], {m}) = "SUCCESS"
                       /\ ctx.negotiated /\ ctx.present
  <2>1. ctx.lost = {} => At(ctx, client.proxies[m], m)
    BY <1>3, DeviceChildTypes, ProxyAt
  <2>2. ctx.lost = {} => Resolved(ctx, client.proxies[m], {m}) = "SUCCESS"
    BY <2>1, AtResolved DEF At
  <2> QED
    BY <1>3, <2>2, ListedLive
<1>7. CASE o \in Succeeds([ctx EXCEPT !.mirrored = @ \cup {m}])
           /\ Resolved(ctx, client.proxies[m], {m}) = "SUCCESS"
  <2>1. PICK M : M = ctx.mirrored \cup {m}
    OBVIOUS
  <2>2. PICK u : u = [ctx EXCEPT !.mirrored = M]
    OBVIOUS
  <2>3. PICK y : y = [client EXCEPT !.mapped = M]
    OBVIOUS
  <2>4. o.ctx = u /\ o.status = "SUCCESS"
    BY <1>7, <2>1, <2>2 DEF Succeeds, Fails, Outcome
  <2>5. Exchange(o, y)
    BY <1>2, <1>4, <2>1, <2>3, <2>4
  <2>6. m \in Live(ctx)
    BY <1>7 DEF Resolved
  <2>7. M \subseteq OfType(ctx, "DEVICE_MEMORY")
    BY <1>3, <1>4, <2>1, <2>6 DEF ContextKnown, NativesKnown, OfType
  <2>8. Agreed(u, y) /\ u.lost = ctx.lost
    <3>1. Mirrors(ctx, u, M) /\ Maps(client, y, M)
      BY <2>2, <2>3 DEF Mirrors, Maps
    <3> QED
      BY <1>4, <2>7, <3>1, MirrorAgreed
  <2>9. Good(ctx, o, y)
    BY <2>4, <2>8, Agreement DEF Good
  <2> QED
    BY <2>5, <2>9, ExchangeKeeps
<1>8. \/ o.ctx = ctx /\ o.status # "SUCCESS" /\ (ctx.lost = {} => o.status \notin Disagreement)
      \/ o \in Succeeds([ctx EXCEPT !.mirrored = @ \cup {m}])
           /\ Resolved(ctx, client.proxies[m], {m}) = "SUCCESS"
  <2>1. CASE ~ (ctx.negotiated /\ ctx.present)
    <3>1. o \in Fails(ctx, "EPROTO") /\ ctx.lost # {}
      BY <1>2, <1>6, <2>1 DEF Served
    <3> QED
      BY <3>1 DEF Fails, Outcome
  <2>2. CASE /\ ctx.negotiated /\ ctx.present
             /\ Resolved(ctx, client.proxies[m], {m}) # "SUCCESS"
    <3>1. o \in Fails(ctx, Resolved(ctx, client.proxies[m], {m})) /\ ctx.lost # {}
      BY <1>2, <1>6, <2>2 DEF Served, setup_memory_mirror
    <3> QED
      BY <2>2, <3>1 DEF Fails, Outcome
  <2>3. CASE /\ ctx.negotiated /\ ctx.present
             /\ Resolved(ctx, client.proxies[m], {m}) = "SUCCESS"
    <3>1. o \in Fails(ctx, "REFUSED") \cup Succeeds([ctx EXCEPT !.mirrored = @ \cup {m}])
      BY <1>2, <2>3 DEF Served, setup_memory_mirror, Refused
    <3>2. o \in Fails(ctx, "REFUSED") =>
            o.ctx = ctx /\ o.status # "SUCCESS" /\ o.status \notin Disagreement
      BY Agreement DEF Fails, Outcome
    <3> QED
      BY <2>3, <3>1, <3>2
  <2> QED
    BY <2>1, <2>2, <2>3
<1> QED
  BY <1>5, <1>7, <1>8

\* A mapped memory is unmapped on both sides.
LEMMA UnmapFacts ==
  ASSUME BridgeInv, link = "up", NEW m \in client.mapped, NEW M, M = ctx.mirrored \ {m},
         NEW u, Mirrors(ctx, u, M), NEW y, Maps(client, y, M)
  PROVE  /\ answer_vulkan_memory_mirror_unmap(ctx, m) = Succeeds(u)
         /\ y = [client EXCEPT !.mapped = @ \ {m}] /\ Agreed(u, y)
         /\ u.lost = ctx.lost /\ u.present /\ u.negotiated /\ u.mirrored = M
         /\ Live(u) = Live(ctx) /\ u.table = ctx.table /\ u.chain = ctx.chain
         /\ y.proxies = client.proxies /\ y.chains = client.chains /\ y.mapped = M
         /\ m \in OfType(ctx, "DEVICE_MEMORY")
<1>1. Agreed(ctx, client) /\ ContextKnown(ctx) /\ client.mapped = ctx.mirrored
  BY UpAgreed DEF Agreed, InStep, ListsKnown
<1>2. m \in ctx.mirrored /\ ctx.mirrored \subseteq OfType(ctx, "DEVICE_MEMORY")
  BY <1>1 DEF ContextKnown, NativesKnown
<1>3. m \in Live(ctx) /\ m \in OfType(ctx, "DEVICE_MEMORY") /\ M \subseteq OfType(ctx, "DEVICE_MEMORY")
  BY <1>2 DEF OfType
<1>4. ctx.present /\ ctx.negotiated
  BY <1>1, <1>3 DEF ContextKnown, TableKnown, BridgeInv
<1>5. /\ Agreed(u, y) /\ u.lost = ctx.lost /\ u.present = ctx.present
      /\ u.negotiated = ctx.negotiated /\ u.mirrored = M
      /\ Live(u) = Live(ctx) /\ u.table = ctx.table /\ u.chain = ctx.chain
      /\ y.proxies = client.proxies /\ y.chains = client.chains /\ y.mapped = M
  BY <1>1, <1>3, MirrorAgreed
<1>6. answer_vulkan_memory_mirror_unmap(ctx, m) = Succeeds(u)
  BY <1>2, <1>4 DEF answer_vulkan_memory_mirror_unmap, Served, unmap_memory_mirror,
     Mirrors
<1>7. y = [client EXCEPT !.mapped = @ \ {m}]
  BY <1>1 DEF Maps
<1> QED
  BY <1>3, <1>4, <1>5, <1>6, <1>7

\* Unmapping memory.
LEMMA UnmapCall ==
  ASSUME BridgeInv, vkUnmapMemory
  PROVE  BridgeInv'
<1>0. PICK m \in client.mapped :
        \E o \in answer_vulkan_memory_mirror_unmap(ctx, m) :
          Exchange(o, [client EXCEPT !.mapped = @ \ {m}])
  BY DEF vkUnmapMemory
<1>1. PICK o \in answer_vulkan_memory_mirror_unmap(ctx, m) :
        Exchange(o, [client EXCEPT !.mapped = @ \ {m}])
  BY <1>0
<1>2. link = "up"
  BY <1>1 DEF Exchange
<1>3. PICK M : M = ctx.mirrored \ {m}
  OBVIOUS
<1>4. PICK u : Mirrors(ctx, u, M)
  BY DEF Mirrors
<1>5. PICK y : Maps(client, y, M)
  BY DEF Maps
<1>6. /\ answer_vulkan_memory_mirror_unmap(ctx, m) = Succeeds(u)
      /\ y = [client EXCEPT !.mapped = @ \ {m}] /\ Agreed(u, y)
      /\ u.lost = ctx.lost
  BY <1>2, <1>3, <1>4, <1>5, UnmapFacts
<1>7. o.ctx = u /\ o.status = "SUCCESS"
  BY <1>1, <1>6 DEF Succeeds, Fails, Outcome
<1>8. Good(ctx, o, y) /\ Exchange(o, y)
  BY <1>1, <1>6, <1>7, Agreement DEF Good
<1> QED
  BY <1>8, ExchangeKeeps

\* The memory of an unmapped context is freed.
LEMMA FreedGood ==
  ASSUME BridgeInv, link = "up", NEW m \in Known, Type(m) = "DEVICE_MEMORY",
         m \in client.mapped, NEW M, M = ctx.mirrored \ {m}, NEW u, Mirrors(ctx, u, M),
         NEW o \in answer_vulkan_resource_destroy(u, m)
  PROVE  Good(ctx, o, RemovedOn(o, {m}))
<1>1. PICK y : Maps(client, y, M)
  BY DEF Maps
<1>2. /\ Agreed(u, y) /\ u.lost = ctx.lost /\ u.present /\ u.negotiated
      /\ u.mirrored = M /\ Live(u) = Live(ctx) /\ u.table = ctx.table
      /\ u.chain = ctx.chain /\ y.proxies = client.proxies
      /\ y.chains = client.chains /\ y.mapped = M /\ m \in OfType(ctx, "DEVICE_MEMORY")
  BY <1>1, UnmapFacts
<1>3. ContextKnown(u) /\ InStep(u, y) /\ u.negotiated = TRUE /\ m \in Live(u)
      /\ DOMAIN client = {"proxies", "chains", "mapped"}
  BY <1>2, UpAgreed DEF Agreed, OfType
<1>4. u.table[m] \in Live(u)
  BY <1>3, ParentFacts
<1>5. o \in Succeeds(Destroyed(u, {m}))
  <2>1. answer_vulkan_resource_destroy(u, m) = Served(u, free_memory(u, m))
    BY DEF answer_vulkan_resource_destroy
  <2>2. resolve_device_child(u, m) /\ m \notin u.mirrored
    BY <1>2, <1>3, <1>4 DEF resolve_device_child
  <2> QED
    BY <1>2, <2>1, <2>2 DEF Served, free_memory
<1>6. PICK x : x = Destroyed(u, {m})
  OBVIOUS
<1>7. o.ctx = x /\ o.status = "SUCCESS"
  BY <1>5, <1>6 DEF Succeeds, Fails, Outcome
<1>8. PICK R : R = {m}
  OBVIOUS
<1>9. PICK ss : ss = {}
  OBVIOUS
<1>10. Without(u, x, R, ss) /\ Closed(u, R, ss)
  <2>1. \A k \in Live(u) : u.table[k] # m
    BY <1>3, ChildlessTypes
  <2>2. \A s \in DOMAIN u.chain : m \notin u.chain[s]
    BY <1>3 DEF ContextKnown, ChainsKnown, OfType
  <2>3. Type(m) # "SWAPCHAIN" /\ m \notin u.mirrored
    BY <1>2
  <2> QED
    BY <1>3, <1>6, <1>8, <1>9, <2>1, <2>2, <2>3, LeafGone
<1>11. PICK z : z = Removed(R)
  OBVIOUS
<1>12. Dropped(client, z, R)
  BY <1>3, <1>11, RemovedFacts
<1>13. client.mapped \ R = y.mapped \ R
  <2>1. client.mapped = ctx.mirrored
    BY UpAgreed DEF Agreed, InStep, ListsKnown
  <2> QED
    BY <1>2, <1>8, <2>1
<1>14. Dropped(y, z, R)
  BY <1>2, <1>12, <1>13 DEF Dropped
<1>15. /\ \A s \in ss : u.chain[s] \subseteq R
       /\ \A id \in DOMAIN y.proxies : id \in R => id \in R
       /\ \A id \in Live(u) : id \in R => id \in R
  BY <1>9
<1>16. InStep(x, z)
  BY <1>3, <1>10, <1>14, <1>15, StepRemoved
<1>17. ContextKnown(x)
  BY <1>3, <1>10, WithoutKnown
<1>18. x.lost = ctx.lost /\ x.negotiated = TRUE
  BY <1>2, <1>3, <1>10 DEF Without
<1>19. RemovedOn(o, {m}) = z
  BY <1>7, <1>8, <1>11 DEF RemovedOn
<1> QED
  BY <1>7, <1>12, <1>16, <1>17, <1>18, <1>19, Agreement DEF Good, Agreed, Dropped

\* Freeing memory, mapped or not.
LEMMA FreeMemoryCall ==
  ASSUME BridgeInv, vkFreeMemory
  PROVE  BridgeInv'
<1>1. PICK m \in P("DEVICE_MEMORY") :
        Destroys(UNION {answer_vulkan_resource_destroy(o.ctx, m) :
                          o \in IF m \in client.mapped
                                THEN answer_vulkan_memory_mirror_unmap(ctx, m)
                                ELSE Succeeds(ctx)}, {m})
  BY DEF vkFreeMemory
<1>2. m \in Known /\ Type(m) = "DEVICE_MEMORY" /\ Type(m) # "SURFACE" /\ Type(m) # "SWAPCHAIN"
  BY DEF P
<1>3. PICK S : S = UNION {answer_vulkan_resource_destroy(o.ctx, m) :
                          o \in IF m \in client.mapped
                                THEN answer_vulkan_memory_mirror_unmap(ctx, m)
                                ELSE Succeeds(ctx)}
  OBVIOUS
<1>4. CASE m \in client.mapped
  <2>1. ASSUME link = "up", NEW o \in S PROVE Good(ctx, o, RemovedOn(o, {m}))
    <3>1. PICK M : M = ctx.mirrored \ {m}
      OBVIOUS
    <3>2. PICK u : Mirrors(ctx, u, M)
      BY DEF Mirrors
    <3>3. PICK y : Maps(client, y, M)
      BY DEF Maps
    <3>4. answer_vulkan_memory_mirror_unmap(ctx, m) = Succeeds(u)
      BY <1>4, <2>1, <3>1, <3>2, <3>3, UnmapFacts
    <3>5. \A e \in Succeeds(u) : e.ctx = u
      BY DEF Succeeds, Fails, Outcome
    <3>6. o \in answer_vulkan_resource_destroy(u, m)
      BY <1>3, <1>4, <2>1, <3>4, <3>5
    <3> QED
      BY <1>2, <1>4, <2>1, <3>1, <3>2, <3>6, FreedGood
  <2> QED
    BY <1>1, <1>3, <2>1, DestroysKeep
<1>5. CASE m \notin client.mapped
  <2>1. S = Served(ctx, free_memory(ctx, m))
    <3>1. S = UNION {answer_vulkan_resource_destroy(o.ctx, m) : o \in Succeeds(ctx)}
      BY <1>3, <1>5
    <3>2. UNION {answer_vulkan_resource_destroy(o.ctx, m) : o \in Succeeds(ctx)}
            = answer_vulkan_resource_destroy(ctx, m)
      BY DEF Succeeds, Fails, Outcome
    <3> QED
      BY <1>2, <3>1, <3>2 DEF answer_vulkan_resource_destroy
  <2>2. ASSUME link = "up", NEW o \in free_memory(ctx, m)
        PROVE  Good(ctx, o, RemovedOn(o, {m}))
    <3>0. ContextKnown(ctx) /\ m \notin ctx.mirrored
      BY <1>5, <2>2 DEF BridgeInv, InStep, ListsKnown
    <3>1. resolve_device_child(ctx, m) <=> m \in Live(ctx)
      BY <1>2, <2>2, ParentLive DEF resolve_device_child
    <3>2. CASE m \in Live(ctx)
      <4>1. o \in Succeeds(Destroyed(ctx, {m}))
        BY <2>2, <3>0, <3>1, <3>2 DEF free_memory
      <4>2. \A k \in Live(ctx) : ctx.table[k] # m
        BY <1>2, <3>0, ChildlessTypes
      <4> QED
        BY <1>2, <2>2, <3>0, <3>2, <4>1, <4>2, LeafGood
    <3>3. CASE m \notin Live(ctx)
      <4>1. ctx.lost # {} /\ o \in Fails(ctx, "ENOENT") /\ "ENOENT" # "SUCCESS"
        BY <1>2, <2>2, <3>1, <3>3, ListedLive DEF free_memory
      <4> QED
        BY <2>2, <4>1, FailsKept
    <3> QED
      BY <3>2, <3>3
  <2> QED
    BY <1>1, <1>2, <1>3, <2>1, <2>2, ServedDestroys
<1> QED
  BY <1>4, <1>5

\* b is c with a buffer more that is bound.
Binds(c, u, b) == u = [c EXCEPT !.bound = @ \cup {b}]

\* A context whose buffer was bound is in step all the same.
LEMMA BoundAgreed ==
  ASSUME NEW c, NEW cl, Agreed(c, cl), NEW b \in OfType(c, "BUFFER"), NEW u, Binds(c, u, b)
  PROVE  Agreed(u, cl) /\ u.lost = c.lost
<1>0. ContextKnown(c) /\ InStep(c, cl) /\ DOMAIN c = DOMAIN NewContext
  BY DEF Agreed, ContextKnown
<1>1. Alike(c, u) /\ u.lost = c.lost /\ u.bound = c.bound \cup {b}
      /\ u.mirrored = c.mirrored /\ u.negotiated = c.negotiated /\ u.present = c.present
  BY <1>0, ContextFields DEF Alike, Binds
<1>2. IsFiniteSet(u.lost) /\ u.lost \cap Live(c) = {} /\ (c.present => u.present)
      /\ (\A id \in u.lost : Type(id) \in ObjectTypes)
      /\ u.bound \subseteq OfType(c, "BUFFER")
      /\ u.mirrored \subseteq OfType(c, "DEVICE_MEMORY")
  BY <1>0, <1>1 DEF ContextKnown, TableKnown, NativesKnown
<1>3. ContextKnown(u)
  BY <1>0, <1>1, <1>2, AlikeKnown
<1>4. Live(u) = Live(c) /\ u.table = c.table /\ u.chain = c.chain
      /\ (u.lost \ c.lost) \cap DOMAIN cl.proxies = {}
  BY <1>1 DEF Alike, Live
<1>5. InStep(u, cl)
  BY <1>0, <1>1, <1>4, StepAlike
<1> QED
  BY <1>1, <1>3, <1>5 DEF Agreed

\* Binding buffer memory.
LEMMA BindBufferCall ==
  ASSUME BridgeInv, vkBindBufferMemory
  PROVE  BridgeInv'
<1>0. PICK b \in P("BUFFER") : \E m \in Of("DEVICE_MEMORY", client.proxies[b]) :
        Uses(Served(ctx, bind_buffer_memory(ctx, b, m)))
  BY DEF vkBindBufferMemory, answer_vulkan_buffer_bind
<1>1. PICK m \in Of("DEVICE_MEMORY", client.proxies[b]) :
        Uses(Served(ctx, bind_buffer_memory(ctx, b, m)))
  BY <1>0
<1>2. PICK o \in Served(ctx, bind_buffer_memory(ctx, b, m)) : Exchange(o, client)
  BY <1>1 DEF Uses
<1>3. b \in Known /\ Type(b) = "BUFFER" /\ Type(b) # "SURFACE" /\ link = "up"
  BY <1>2 DEF P, Exchange
<1>4. Agreed(ctx, client)
  BY <1>3, UpAgreed
<1>5. ctx.lost = {} => /\ b \in Live(ctx) /\ Resolved(ctx, ctx.table[b], {b, m}) = "SUCCESS"
                       /\ ctx.negotiated /\ ctx.present
  <2>1. ctx.lost = {} => At(ctx, client.proxies[b], b) /\ client.proxies[b] = ctx.table[b]
    BY <1>3, DeviceChildTypes, ProxyAt
  <2>2. ctx.lost = {} => At(ctx, client.proxies[b], m)
    BY <1>3, DeviceChildTypes, OfAt
  <2>3. ctx.lost = {} => b \in Live(ctx) /\ Resolved(ctx, ctx.table[b], {b, m}) = "SUCCESS"
    BY <2>1, <2>2, AtResolved DEF At
  <2> QED
    BY <1>3, <2>3, ListedLive
<1>6. PICK u : Binds(ctx, u, b)
  BY DEF Binds
<1>7. \/ o.ctx = ctx /\ (ctx.lost = {} => o.status \notin Disagreement)
      \/ b \in Live(ctx) /\ o \in Succeeds(u)
  <2>1. CASE ~ (ctx.negotiated /\ ctx.present)
    <3>1. o \in Fails(ctx, "EPROTO") /\ ctx.lost # {}
      BY <1>2, <1>5, <2>1 DEF Served
    <3> QED
      BY <3>1 DEF Fails, Outcome
  <2>2. CASE /\ ctx.negotiated /\ ctx.present
             /\ ~ (b \in Live(ctx) /\ Resolved(ctx, ctx.table[b], {b, m}) = "SUCCESS")
    <3>1. ctx.lost # {} /\ \E status : o \in Fails(ctx, status)
      BY <1>2, <1>5, <2>2 DEF Served, bind_buffer_memory
    <3> QED
      BY <3>1 DEF Fails, Outcome
  <2>3. CASE /\ ctx.negotiated /\ ctx.present
             /\ b \in Live(ctx) /\ Resolved(ctx, ctx.table[b], {b, m}) = "SUCCESS"
    <3>1. o \in Fails(ctx, "REFUSED") \cup Succeeds(u)
      BY <1>2, <1>6, <2>3 DEF Served, bind_buffer_memory, Refused, Binds
    <3>2. o \in Fails(ctx, "REFUSED") => o.ctx = ctx /\ o.status \notin Disagreement
      BY Agreement DEF Fails, Outcome
    <3> QED
      BY <2>3, <3>1, <3>2
  <2> QED
    BY <2>1, <2>2, <2>3
<1>8. CASE o.ctx = ctx /\ (ctx.lost = {} => o.status \notin Disagreement)
  BY <1>2, <1>4, <1>8, SameGood, ExchangeKeeps
<1>9. CASE b \in Live(ctx) /\ o \in Succeeds(u)
  <2>1. b \in OfType(ctx, "BUFFER") /\ o.ctx = u /\ o.status = "SUCCESS"
    BY <1>3, <1>9 DEF OfType, Succeeds, Fails, Outcome
  <2>2. Agreed(u, client) /\ u.lost = ctx.lost
    BY <1>4, <1>6, <2>1, BoundAgreed
  <2>3. Good(ctx, o, client)
    BY <2>1, <2>2, Agreement DEF Good
  <2> QED
    BY <1>2, <2>3, ExchangeKeeps
<1> QED
  BY <1>7, <1>8, <1>9

(***************************************************************************)
(* Surfaces.                                                               *)
(***************************************************************************)

\* The surfaces of the client do not concern the service.
LEMMA SurfaceStep ==
  ASSUME NEW c, ContextKnown(c), NEW cl, InStep(c, cl), NEW y,
         \A id : Type(id) # "SURFACE" =>
                   (id \in DOMAIN y.proxies <=> id \in DOMAIN cl.proxies),
         \A id \in DOMAIN cl.proxies : Type(id) # "SURFACE" => y.proxies[id] = cl.proxies[id],
         DOMAIN y.chains = DOMAIN cl.chains,
         \A s \in DOMAIN cl.chains : y.chains[s] = cl.chains[s],
         y.mapped = cl.mapped
  PROVE  InStep(c, y)
<1>1. "SURFACE" \notin ObjectTypes
  BY DEF ObjectTypes, DeviceChildren, Pools
<1>2. ASSUME NEW s \in DOMAIN cl.chains, NEW i \in cl.chains[s] PROVE Type(i) # "SURFACE"
  <2>1. CASE s \in c.lost
    BY <1>1, <1>2, <2>1 DEF InStep, ClientChainsKnown, ContextKnown, TableKnown
  <2>2. CASE s \notin c.lost
    <3>1. s \in DOMAIN cl.proxies /\ Type(s) = "SWAPCHAIN" /\ cl.chains[s] = c.chain[s]
      BY <2>2 DEF InStep, ClientChainsKnown
    <3>2. s \in Live(c)
      BY <2>2, <3>1 DEF InStep, ListsKnown
    <3>3. s \in DOMAIN c.chain
      BY <3>1, <3>2 DEF ContextKnown, ChainsKnown, OfType
    <3> QED
      BY <1>2, <3>1, <3>3 DEF ContextKnown, ChainsKnown, OfType
  <2> QED
    BY <2>1, <2>2
<1>3. ASSUME NEW id \in DOMAIN y.proxies
      PROVE  /\ Type(id) \in ObjectTypes \cup {"SURFACE"}
             /\ Type(id) # "SURFACE" /\ id \notin c.lost =>
                  id \in Live(c) /\ y.proxies[id] = ProxyParent(c, id)
  BY <1>3 DEF InStep, ListsKnown
<1>4. ASSUME NEW id \in Live(c), Type(id) \notin Borrowed
      PROVE  id \in DOMAIN y.proxies \/ \E s \in DOMAIN y.chains : id \in y.chains[s]
  <2>1. Type(id) # "SURFACE"
    BY <1>1 DEF ContextKnown, TableKnown
  <2> QED
    BY <1>4, <2>1 DEF InStep, ListsKnown
<1>5. ListsKnown(c, y)
  BY <1>3, <1>4 DEF InStep, ListsKnown
<1>6. DOMAIN y.chains = {s \in DOMAIN y.proxies : Type(s) = "SWAPCHAIN"}
  BY DEF InStep, ClientChainsKnown
<1>7. ASSUME NEW s \in DOMAIN y.chains
      PROVE  /\ IF s \in c.lost THEN y.chains[s] \subseteq c.lost
                ELSE y.chains[s] = c.chain[s]
             /\ y.chains[s] \cap DOMAIN y.proxies = {}
  <2>1. s \in DOMAIN cl.chains /\ y.chains[s] = cl.chains[s]
    BY <1>7
  <2>2. IF s \in c.lost THEN cl.chains[s] \subseteq c.lost ELSE cl.chains[s] = c.chain[s]
    BY <2>1 DEF InStep, ClientChainsKnown
  <2>3. cl.chains[s] \cap DOMAIN cl.proxies = {}
    BY <2>1 DEF InStep, ClientChainsKnown
  <2>4. \A i \in cl.chains[s] : Type(i) # "SURFACE"
    BY <1>2, <2>1
  <2> QED
    BY <2>1, <2>2, <2>3, <2>4
<1>8. PhysicalsListed(c, y)
  <2> SUFFICES ASSUME NEW d \in Live(c), Type(d) = "DEVICE"
               PROVE  c.table[d] \in DOMAIN y.proxies
    BY DEF PhysicalsListed, OfType
  <2>1. c.table[d] \in DOMAIN cl.proxies
    BY DEF InStep, PhysicalsListed, OfType
  <2>2. Type(c.table[d]) # "SURFACE"
    BY ParentFacts
  <2> QED
    BY <2>1, <2>2
<1> QED
  BY <1>5, <1>6, <1>7, <1>8 DEF InStep, ClientChainsKnown

\* A step of the client alone that leaves everything but surfaces alone.
LEMMA SurfaceKeeps ==
  ASSUME BridgeInv, NEW y, client' = y, UNCHANGED <<ctx, link, refusals, menu>>,
         DOMAIN y = {"proxies", "chains", "mapped"}, y.mapped \subseteq DOMAIN y.proxies,
         link \in {"new", "up"} => InStep(ctx, y)
  PROVE  BridgeInv'
<1>1. link' = link /\ refusals' = refusals /\ menu' = menu /\ ctx' = ctx
  OBVIOUS
<1>2. (link = "up" => ctx.negotiated)'
  BY <1>1, Zenon DEF BridgeInv
<1>3. (client.mapped \subseteq Known)' /\ (DOMAIN client = {"proxies", "chains", "mapped"})'
  BY DEF Known
<1>4. (link # "closed" => ContextKnown(ctx))' /\ (link = "closed" => Leftover(ctx))'
  BY <1>1 DEF BridgeInv
<1>5. (link \in {"new", "up"} => InStep(ctx, client))'
  BY <1>1
<1>6. (ctx.lost = {} => refusals = {})' /\ (refusals \subseteq Disagreement)'
      /\ (menu \in Menus)' /\ (link \in {"new", "up", "down", "closed"})'
  BY <1>1 DEF BridgeInv
<1> QED
  BY <1>2, <1>3, <1>4, <1>5, <1>6 DEF BridgeInv

\* Surfaces come and go in the client.
LEMMA SurfaceCalls ==
  ASSUME BridgeInv, create_virtual_surface \/ vkDestroySurfaceKHR
  PROVE  BridgeInv'
<1>0. DOMAIN client = {"proxies", "chains", "mapped"} /\ client.mapped \subseteq Known
  BY DEF BridgeInv
<1>1. CASE create_virtual_surface
  <2>1. PICK i \in P("INSTANCE") :
          \E n \in 1 .. menu["SURFACE"] :
             /\ <<"SURFACE", n>> \notin Known
             /\ client' = Added(<<"SURFACE", n>>, i)
             /\ UNCHANGED <<ctx, link, refusals, menu>>
    BY <1>1 DEF create_virtual_surface
  <2>2. PICK n \in 1 .. menu["SURFACE"] :
             /\ <<"SURFACE", n>> \notin Known
             /\ client' = Added(<<"SURFACE", n>>, i)
             /\ UNCHANGED <<ctx, link, refusals, menu>>
    BY <2>1
  <2>3. PICK s : s = <<"SURFACE", n>>
    OBVIOUS
  <2>4. Type(s) = "SURFACE"
    BY <2>3, PairFacts
  <2>5. PICK y : y = Added(s, i)
    OBVIOUS
  <2>6. /\ DOMAIN y = {"proxies", "chains", "mapped"}
        /\ DOMAIN y.proxies = Known \cup {s}
        /\ \A x \in Known : y.proxies[x] = client.proxies[x]
        /\ y.chains = client.chains /\ y.mapped = client.mapped
    BY <1>0, <2>5, AddedFacts
  <2>7. ASSUME link \in {"new", "up"} PROVE InStep(ctx, y)
    <3>1. ContextKnown(ctx) /\ InStep(ctx, client)
      BY <2>7 DEF BridgeInv
    <3>2. \A id : Type(id) # "SURFACE" =>
                   (id \in DOMAIN y.proxies <=> id \in DOMAIN client.proxies)
      BY <2>4, <2>6 DEF Known
    <3>3. \A id \in DOMAIN client.proxies :
             Type(id) # "SURFACE" => y.proxies[id] = client.proxies[id]
      BY <2>6 DEF Known
    <3> QED
      BY <2>6, <3>1, <3>2, <3>3, SurfaceStep
  <2>8. client' = y /\ UNCHANGED <<ctx, link, refusals, menu>>
    BY <2>2, <2>3, <2>5
  <2>9. y.mapped \subseteq DOMAIN y.proxies
    BY <1>0, <2>6
  <2> QED
    BY <2>6, <2>7, <2>8, <2>9, SurfaceKeeps
<1>2. CASE vkDestroySurfaceKHR
  <2>1. PICK s \in P("SURFACE") :
          client' = Removed({s}) /\ UNCHANGED <<ctx, link, refusals, menu>>
    BY <1>2 DEF vkDestroySurfaceKHR
  <2>2. PICK y : y = Removed({s})
    OBVIOUS
  <2>3. Dropped(client, y, {s}) /\ Type(s) = "SURFACE"
    BY <1>0, <2>2, RemovedFacts DEF P
  <2>4. /\ DOMAIN y = {"proxies", "chains", "mapped"}
        /\ DOMAIN y.proxies = Known \ {s}
        /\ \A x \in DOMAIN y.proxies : y.proxies[x] = client.proxies[x]
        /\ DOMAIN y.chains = DOMAIN client.chains \ {s}
        /\ \A x \in DOMAIN y.chains : y.chains[x] = client.chains[x]
        /\ y.mapped = client.mapped \ {s}
    BY <2>3 DEF Dropped, Known
  <2>5. ASSUME link \in {"new", "up"} PROVE InStep(ctx, y)
    <3>1. ContextKnown(ctx) /\ InStep(ctx, client)
      BY <2>5 DEF BridgeInv
    <3>2. \A id : Type(id) # "SURFACE" =>
                   (id \in DOMAIN y.proxies <=> id \in DOMAIN client.proxies)
      BY <2>3, <2>4 DEF Known
    <3>3. \A id \in DOMAIN client.proxies :
             Type(id) # "SURFACE" => y.proxies[id] = client.proxies[id]
      BY <2>3, <2>4 DEF Known
    <3>4. DOMAIN y.chains = DOMAIN client.chains
      BY <2>3, <2>4, <3>1 DEF InStep, ClientChainsKnown
    <3>5. y.mapped = client.mapped
      <4>1. client.mapped \subseteq OfType(ctx, "DEVICE_MEMORY")
        BY <3>1 DEF InStep, ListsKnown, ContextKnown, NativesKnown
      <4> QED
        BY <2>3, <2>4, <4>1 DEF OfType
    <3>6. \A x \in DOMAIN client.chains : y.chains[x] = client.chains[x]
      BY <2>4, <3>4
    <3> QED
      BY <3>1, <3>2, <3>3, <3>4, <3>5, <3>6, SurfaceStep
  <2>6. client' = y /\ UNCHANGED <<ctx, link, refusals, menu>>
    BY <2>1, <2>2
  <2>7. y.mapped \subseteq DOMAIN y.proxies
    BY <1>0, <2>4
  <2> QED
    BY <2>4, <2>5, <2>6, <2>7, SurfaceKeeps
<1> QED
  BY <1>1, <1>2

(***************************************************************************)
(* The beginning and the end of a connection.                              *)
(***************************************************************************)

\* The negotiated context has the same objects.
Negotiates(c, x) == x = [c EXCEPT !.negotiated = TRUE]

\* The first exchange negotiates; nothing exists yet.
LEMMA ConnectCall ==
  ASSUME BridgeInv, connect_locked
  PROVE  BridgeInv'
<1>1. link = "new" /\ UNCHANGED <<client, refusals, menu>> /\ ContextKnown(ctx)
      /\ InStep(ctx, client)
  BY DEF connect_locked, BridgeInv
<1>2. CASE UNCHANGED <<ctx, link>>
  BY <1>1, <1>2, SurfaceKeeps DEF BridgeInv, Known
<1>3. CASE Negotiates(ctx, ctx') /\ link' = "up"
  <2>1. PICK x : x = ctx'
    OBVIOUS
  <2>2. /\ DOMAIN x = DOMAIN NewContext /\ x.table = ctx.table /\ x.native = ctx.native
        /\ x.meta = ctx.meta /\ x.bound = ctx.bound /\ x.mirrored = ctx.mirrored
        /\ x.early = ctx.early /\ x.lost = ctx.lost /\ x.negotiated = TRUE
        /\ x.present = ctx.present /\ x.chain = ctx.chain
    BY <1>1, <1>3, <2>1, ContextFields DEF Negotiates, ContextKnown
  <2>3. Live(x) = Live(ctx)
    BY <2>2 DEF Live
  <2>4. ContextKnown(x)
    <3>1. Alike(ctx, x)
      BY <2>2 DEF Alike
    <3>2. IsFiniteSet(x.lost) /\ x.lost \cap Live(ctx) = {}
          /\ \A id \in x.lost : Type(id) \in ObjectTypes
      BY <1>1, <2>2 DEF ContextKnown, TableKnown
    <3>3. x.bound \subseteq OfType(ctx, "BUFFER")
          /\ x.mirrored \subseteq OfType(ctx, "DEVICE_MEMORY")
      BY <1>1, <2>2 DEF ContextKnown, NativesKnown
    <3>4. ctx.present => x.present
      BY <2>2
    <3> QED
      BY <1>1, <3>1, <3>2, <3>3, <3>4, AlikeKnown
  <2>5. InStep(x, client)
    <3>1. (x.lost \ ctx.lost) \cap DOMAIN client.proxies = {} /\ ctx.lost \subseteq x.lost
      BY <2>2
    <3> QED
      BY <1>1, <2>2, <2>3, <3>1, StepAlike
  <2>6. (link = "up" => ctx.negotiated)'
    BY <2>1, <2>2
  <2>7. (ContextKnown(ctx) /\ InStep(ctx, client))'
    BY <1>1, <2>1, <2>4, <2>5
  <2>8. (ctx.lost = {} => refusals = {})'
    BY <1>1, <2>1, <2>2 DEF BridgeInv
  <2> QED
    BY <1>1, <1>3, <2>6, <2>7, <2>8 DEF BridgeInv, Known
<1> QED
  BY <1>2, <1>3 DEF connect_locked, answer_hello, Succeeds, Fails, Outcome, Negotiates

\* x is c with less in it, all of c's natives of buffers included.
Shrunk(c, x) ==
    /\ DOMAIN x = DOMAIN NewContext
    /\ Live(x) \subseteq Live(c) /\ x.bound \subseteq c.bound
    /\ x.mirrored = c.mirrored /\ x.lost = c.lost
    /\ \A b \in DOMAIN c.native : Type(b) = "BUFFER" => b \in DOMAIN x.native

\* Destroying natives other than pools and buffers leaves those of buffers.
LEMMA NativelyShrunk ==
  ASSUME NEW c, DOMAIN c = DOMAIN NewContext, NEW ids,
         \A id \in ids : Type(id) \notin Pools \cup {"BUFFER"}
  PROVE  Shrunk(c, NativelyDestroyed(c, ids))
<1>1. PICK children : children = {k \in DOMAIN c.native : c.native[k] \in ids}
  OBVIOUS
<1>2. PICK freed : freed = {k \in children : Type(c.native[k]) \in Pools}
  OBVIOUS
<1>3. freed = {}
  BY <1>1, <1>2
<1>4. PICK n : n = Restrict(c.native, DOMAIN c.native \ (ids \cup freed))
  OBVIOUS
<1>5. PICK e : e = c.early \cup {Type(c.native[k]) : k \in children \ freed}
  OBVIOUS
<1>6. PICK x : x = NativelyDestroyed(c, ids)
  OBVIOUS
<1>7. x = [c EXCEPT !.native = n, !.early = e]
  BY <1>1, <1>2, <1>4, <1>5, <1>6 DEF NativelyDestroyed
<1>8. DOMAIN x = DOMAIN NewContext /\ x.table = c.table /\ x.bound = c.bound
      /\ x.mirrored = c.mirrored /\ x.native = n /\ x.lost = c.lost
  BY <1>7, ContextFields
<1>9. DOMAIN n = DOMAIN c.native \ ids
  BY <1>3, <1>4 DEF Restrict
<1> QED
  BY <1>6, <1>8, <1>9 DEF Shrunk, Live

\* The entries of a table may go before their natives.
LEMMA ForgottenShrunk ==
  ASSUME NEW c, DOMAIN c = DOMAIN NewContext, NEW ids
  PROVE  Shrunk(c, Forgotten(c, ids))
<1>1. PICK x : x = Forgotten(c, ids)
  OBVIOUS
<1>2. Unlisted(c, x, ids)
  BY <1>1, ForgottenUnlists
<1> QED
  BY <1>1, <1>2 DEF Unlisted, Shrunk

\* Less of less is less.
LEMMA ShrunkBoth ==
  ASSUME NEW c, NEW x, NEW y, Shrunk(c, x), Shrunk(x, y)
  PROVE  Shrunk(c, y)
BY DEF Shrunk

\* Both together.
LEMMA DestroyedShrunk ==
  ASSUME NEW c, DOMAIN c = DOMAIN NewContext, NEW ids,
         \A id \in ids : Type(id) \notin Pools \cup {"BUFFER"}
  PROVE  Shrunk(c, Destroyed(c, ids))
<1>1. PICK x : x = Forgotten(c, ids)
  OBVIOUS
<1>2. Shrunk(c, x) /\ DOMAIN x = DOMAIN NewContext
  BY <1>1, ForgottenShrunk DEF Shrunk
<1>3. Shrunk(x, NativelyDestroyed(x, ids))
  BY <1>2, NativelyShrunk
<1>4. Destroyed(c, ids) = NativelyDestroyed(x, ids)
  BY <1>1 DEF Destroyed
<1> QED
  BY <1>2, <1>3, <1>4, ShrunkBoth

\* x is c after natives were destroyed, objects of the types among them over
\* live children.
Loosened(c, x, types) ==
    /\ DOMAIN x = DOMAIN NewContext
    /\ DOMAIN x.native \subseteq DOMAIN c.native
    /\ \A k \in DOMAIN x.native : x.native[k] = c.native[k]
    /\ x.early \subseteq c.early \cup types

\* A native destroyed over a live child is the parent of one.
LEMMA NativelyLoosened ==
  ASSUME NEW c, DOMAIN c = DOMAIN NewContext, NEW ids, NEW types,
         \A k \in DOMAIN c.native : c.native[k] \in ids => Type(c.native[k]) \in types
  PROVE  Loosened(c, NativelyDestroyed(c, ids), types)
<1>1. PICK children : children = {k \in DOMAIN c.native : c.native[k] \in ids}
  OBVIOUS
<1>2. PICK freed : freed = {k \in children : Type(c.native[k]) \in Pools}
  OBVIOUS
<1>3. PICK n : n = Restrict(c.native, DOMAIN c.native \ (ids \cup freed))
  OBVIOUS
<1>4. PICK e : e = c.early \cup {Type(c.native[k]) : k \in children \ freed}
  OBVIOUS
<1>5. PICK x : x = NativelyDestroyed(c, ids)
  OBVIOUS
<1>6. x = [c EXCEPT !.native = n, !.early = e]
  BY <1>1, <1>2, <1>3, <1>4, <1>5 DEF NativelyDestroyed
<1>7. DOMAIN x = DOMAIN NewContext /\ x.native = n /\ x.early = e
  BY <1>6, ContextFields
<1>8. DOMAIN n \subseteq DOMAIN c.native /\ \A k \in DOMAIN n : n[k] = c.native[k]
  BY <1>3 DEF Restrict
<1>9. e \subseteq c.early \cup types
  BY <1>1, <1>4
<1> QED
  BY <1>5, <1>7, <1>8, <1>9 DEF Loosened

\* So too when the table entries go first.
LEMMA DestroyedLoosened ==
  ASSUME NEW c, DOMAIN c = DOMAIN NewContext, NEW ids, NEW types,
         \A k \in DOMAIN c.native : c.native[k] \in ids => Type(c.native[k]) \in types
  PROVE  Loosened(c, Destroyed(c, ids), types)
<1>1. PICK x : x = Forgotten(c, ids)
  OBVIOUS
<1>2. DOMAIN x = DOMAIN NewContext /\ x.native = c.native /\ x.early = c.early
  BY <1>1, ForgottenUnlists DEF Unlisted
<1>3. Loosened(x, NativelyDestroyed(x, ids), types)
  BY <1>2, NativelyLoosened
<1>4. Destroyed(c, ids) = NativelyDestroyed(x, ids)
  BY <1>1 DEF Destroyed
<1> QED
  BY <1>2, <1>3, <1>4 DEF Loosened

\* One after the other.
LEMMA LoosenedBoth ==
  ASSUME NEW c, NEW x, NEW y, NEW types, NEW more,
         Loosened(c, x, types), Loosened(x, y, more), more \subseteq types
  PROVE  Loosened(c, y, types)
BY DEF Loosened

\* The end of a connection destroys images and devices over live children, and
\* nothing else: no native object is the child of a swapchain or of an instance.
LEMMA ContextLoosened ==
  ASSUME NEW c, ContextKnown(c), NEW z, z = context_destroy(c)
  PROVE  z.early \subseteq TornDownOver
<1>0. /\ DOMAIN c = DOMAIN NewContext /\ c.early = {}
      /\ \A k \in DOMAIN c.native :
           Type(c.native[k]) \notin {"SWAPCHAIN", "INSTANCE"}
  <2>1. DOMAIN c = DOMAIN NewContext /\ c.early = {}
    BY DEF ContextKnown, NativesKnown
  <2>2. ASSUME NEW k \in DOMAIN c.native
        PROVE  Type(c.native[k]) \notin {"SWAPCHAIN", "INSTANCE"}
    <3>1. k \in Live(c) /\ Type(k) \notin Borrowed /\ c.native[k] = c.table[k]
      BY <2>2 DEF ContextKnown, NativesKnown
    <3>2. CASE Type(k) = "INSTANCE"
      <4>1. c.native[k] = NoObject
        BY <3>1, <3>2 DEF ContextKnown, TableKnown
      <4> QED
        BY <4>1 DEF NoObject, Type
    <3>3. CASE Type(k) # "INSTANCE"
      BY <3>1, <3>3 DEF ContextKnown, TableKnown, ParentType, Borrowed
    <3> QED
      BY <3>2, <3>3
  <2> QED
    BY <2>1, <2>2
<1>1. PICK u : u = [c EXCEPT !.mirrored = {}]
  OBVIOUS
<1>2. DOMAIN u = DOMAIN NewContext /\ u.native = c.native
      /\ u.chain = c.chain /\ u.early = {}
  BY <1>0, <1>1, ContextFields
<1>3. PICK images : images = UNION {c.chain[s] : s \in DOMAIN c.chain}
  OBVIOUS
<1>4. \A i \in images : Type(i) = "IMAGE"
  BY <1>3 DEF ContextKnown, ChainsKnown, OfType
<1>5. \A s \in DOMAIN c.chain : Type(s) = "SWAPCHAIN"
  BY DEF ContextKnown, ChainsKnown, OfType
<1>6. PICK v : v = Destroyed(u, images)
  OBVIOUS
<1>7. Loosened(u, v, TornDownOver)
  BY <1>2, <1>4, <1>6, DestroyedLoosened DEF TornDownOver
<1>8. PICK w : w = Destroyed(v, DOMAIN c.chain)
  OBVIOUS
<1>9. Loosened(v, w, {})
  <2>1. DOMAIN v = DOMAIN NewContext
    BY <1>7 DEF Loosened
  <2>2. \A k \in DOMAIN v.native : v.native[k] \in DOMAIN c.chain
                                     => Type(v.native[k]) \in {}
    BY <1>0, <1>2, <1>5, <1>7 DEF Loosened
  <2> QED
    BY <1>8, <2>1, <2>2, DestroyedLoosened
<1>10. PICK e : e = Restrict(w.chain, DOMAIN w.chain \ DOMAIN c.chain)
  OBVIOUS
<1>11. PICK r : r = [w EXCEPT !.chain = e]
  OBVIOUS
<1>12. Loosened(w, r, {})
  <2>1. DOMAIN w = DOMAIN NewContext
    BY <1>9 DEF Loosened
  <2>2. DOMAIN r = DOMAIN NewContext /\ r.native = w.native /\ r.early = w.early
    BY <1>11, <2>1, ContextFields
  <2> QED
    BY <2>2 DEF Loosened
<1>13. r = destroy_swapchain_metadata(u, DOMAIN c.chain)
  BY <1>2, <1>3, <1>6, <1>8, <1>10, <1>11 DEF destroy_swapchain_metadata
<1>14. Loosened(u, r, TornDownOver)
  BY <1>7, <1>9, <1>12, LoosenedBoth
<1>15. PICK q : q = NativelyDestroyed(r, OfType(c, "DEVICE"))
  OBVIOUS
<1>16. Loosened(r, q, TornDownOver)
  <2>1. DOMAIN r = DOMAIN NewContext
    BY <1>12 DEF Loosened
  <2>2. \A k \in DOMAIN r.native : r.native[k] \in OfType(c, "DEVICE")
                                     => Type(r.native[k]) \in TornDownOver
    BY DEF OfType, TornDownOver
  <2> QED
    BY <1>15, <2>1, <2>2, NativelyLoosened
<1>17. Loosened(u, q, TornDownOver)
  BY <1>14, <1>16, LoosenedBoth
<1>18. z = NativelyDestroyed(q, OfType(c, "INSTANCE"))
  BY <1>1, <1>13, <1>15 DEF context_destroy
<1>19. Loosened(q, z, {})
  <2>1. DOMAIN q = DOMAIN NewContext
    BY <1>16 DEF Loosened
  <2>2. \A k \in DOMAIN q.native : q.native[k] \in OfType(c, "INSTANCE")
                                     => Type(q.native[k]) \in {}
    BY <1>0, <1>2, <1>17 DEF Loosened, OfType
  <2> QED
    BY <1>18, <2>1, <2>2, NativelyLoosened
<1>20. Loosened(u, z, TornDownOver)
  BY <1>17, <1>19, LoosenedBoth
<1> QED
  BY <1>2, <1>20 DEF Loosened

\* What the end of a connection leaves is bounded, whatever was destroyed.
LEMMA ContextDestroyed ==
  ASSUME NEW c, ContextKnown(c), NEW z, z = context_destroy(c)
  PROVE  DOMAIN z = DOMAIN NewContext /\ Live(z) \subseteq Live(c)
         /\ z.bound \subseteq c.bound /\ z.mirrored = {} /\ z.lost = c.lost
         /\ \A b \in DOMAIN c.native : Type(b) = "BUFFER" => b \in DOMAIN z.native
<1>1. PICK u : u = [c EXCEPT !.mirrored = {}]
  OBVIOUS
<1>2. DOMAIN u = DOMAIN NewContext /\ u.table = c.table /\ u.native = c.native
      /\ u.bound = c.bound /\ u.mirrored = {} /\ u.chain = c.chain /\ u.lost = c.lost
  BY <1>1, ContextFields DEF ContextKnown
<1>3. PICK images : images = UNION {c.chain[s] : s \in DOMAIN c.chain}
  OBVIOUS
<1>4. \A i \in images : Type(i) \notin Pools \cup {"BUFFER"}
  BY <1>3 DEF ContextKnown, ChainsKnown, OfType, Pools
<1>5. \A s \in DOMAIN c.chain : Type(s) \notin Pools \cup {"BUFFER"}
  BY DEF ContextKnown, ChainsKnown, OfType, Pools
<1>6. PICK v : v = Destroyed(u, images)
  OBVIOUS
<1>7. Shrunk(u, v)
  BY <1>2, <1>4, <1>6, DestroyedShrunk
<1>8. PICK w : w = Destroyed(v, DOMAIN c.chain)
  OBVIOUS
<1>9. Shrunk(v, w)
  BY <1>5, <1>7, <1>8, DestroyedShrunk DEF Shrunk
<1>10. PICK e : e = Restrict(w.chain, DOMAIN w.chain \ DOMAIN c.chain)
  OBVIOUS
<1>11. PICK r : r = [w EXCEPT !.chain = e]
  OBVIOUS
<1>12. Shrunk(w, r)
  <2>1. DOMAIN w = DOMAIN NewContext
    BY <1>9 DEF Shrunk
  <2>2. DOMAIN r = DOMAIN NewContext /\ r.table = w.table /\ r.native = w.native
        /\ r.bound = w.bound /\ r.mirrored = w.mirrored /\ r.lost = w.lost
    BY <1>11, <2>1, ContextFields
  <2> QED
    BY <2>2 DEF Shrunk, Live
<1>13. r = destroy_swapchain_metadata(u, DOMAIN c.chain)
  BY <1>2, <1>3, <1>6, <1>8, <1>10, <1>11 DEF destroy_swapchain_metadata
<1>14. PICK q : q = NativelyDestroyed(r, OfType(c, "DEVICE"))
  OBVIOUS
<1>15. Shrunk(r, q)
  BY <1>12, <1>14, NativelyShrunk DEF Shrunk, OfType, Pools
<1>16. z = NativelyDestroyed(q, OfType(c, "INSTANCE"))
  BY <1>1, <1>13, <1>14 DEF context_destroy
<1>17. Shrunk(q, z)
  BY <1>15, <1>16, NativelyShrunk DEF Shrunk, OfType, Pools
<1>18. Shrunk(u, z)
  BY <1>7, <1>9, <1>12, <1>15, <1>17, ShrunkBoth
<1>19. Live(u) = Live(c)
  BY <1>2 DEF Live
<1> QED
  BY <1>2, <1>18, <1>19 DEF Shrunk

\* What is left of a context that has shrunk.
LEMMA LeftoverOf ==
  ASSUME NEW c, ContextKnown(c), NEW z, Live(z) \subseteq Live(c), z.bound \subseteq c.bound,
         z.mirrored = {} \/ z = c, z.early \subseteq TornDownOver,
         \A b \in DOMAIN c.native : Type(b) = "BUFFER" => b \in DOMAIN z.native
  PROVE  Leftover(z)
<1>1. Cardinality(Live(z)) <= Capacity
  <2>1. IsFiniteSet(Live(c)) /\ Live(z) \in SUBSET Live(c)
    BY DEF ContextKnown, TableKnown
  <2>2. Cardinality(Live(z)) <= Cardinality(Live(c)) /\ IsFiniteSet(Live(z))
    BY <2>1, FS_Subset
  <2>3. Cardinality(Live(z)) \in Nat /\ Cardinality(Live(c)) \in Nat
    BY <2>1, <2>2, FS_CardinalityType
  <2>4. Cardinality(Live(c)) <= Capacity
    BY DEF ContextKnown, TableKnown
  <2> QED
    BY <2>2, <2>3, <2>4, ServiceObjectsAssumption
<1>2. \A id \in Live(z) : Type(id) \in ObjectTypes
  BY DEF ContextKnown, TableKnown
<1>3. z.bound \subseteq DOMAIN z.native
  <2>1. c.bound \subseteq OfType(c, "BUFFER") /\ "BUFFER" \notin Borrowed
        /\ DOMAIN c.native = {id \in Live(c) : Type(id) \notin Borrowed}
    BY DEF ContextKnown, NativesKnown, Borrowed
  <2> QED
    BY <2>1 DEF OfType
<1>4. z.mirrored \subseteq DOMAIN z.native
  <2>1. c.mirrored \subseteq OfType(c, "DEVICE_MEMORY") /\ "DEVICE_MEMORY" \notin Borrowed
        /\ DOMAIN c.native = {id \in Live(c) : Type(id) \notin Borrowed}
    BY DEF ContextKnown, NativesKnown, Borrowed
  <2> QED
    BY <2>1 DEF OfType
<1> QED
  BY <1>1, <1>2, <1>3, <1>4 DEF Leftover

\* The end of a connection leaves a bounded context.
LEMMA DisconnectCall ==
  ASSUME BridgeInv, Disconnect
  PROVE  BridgeInv'
<1>1. link \in {"up", "down"} /\ link' = "closed" /\ ContextKnown(ctx)
      /\ UNCHANGED <<client, refusals, menu>>
  BY DEF Disconnect, BridgeInv
<1>2. PICK cleanup \in BOOLEAN : ctx' = connection_ended(ctx, cleanup)
  BY DEF Disconnect
<1>3. PICK x : x = ctx'
  OBVIOUS
<1>4. Leftover(x) /\ x.lost = ctx.lost
  <2>1. CASE x = ctx
    <3>1. ctx.early \subseteq TornDownOver
      BY <1>1 DEF ContextKnown, NativesKnown
    <3> QED
      BY <1>1, <2>1, <3>1, LeftoverOf
  <2>2. CASE x = [context_destroy(ctx) EXCEPT !.present = FALSE]
    <3>1. PICK z : z = context_destroy(ctx)
      OBVIOUS
    <3>2. /\ DOMAIN z = DOMAIN NewContext /\ Live(z) \subseteq Live(ctx)
          /\ z.bound \subseteq ctx.bound /\ z.mirrored = {} /\ z.lost = ctx.lost
          /\ \A b \in DOMAIN ctx.native : Type(b) = "BUFFER" => b \in DOMAIN z.native
      BY <1>1, <3>1, ContextDestroyed
    <3>6. z.early \subseteq TornDownOver
      BY <1>1, <3>1, ContextLoosened
    <3>3. x = [z EXCEPT !.present = FALSE]
      BY <2>2, <3>1
    <3>4. x.table = z.table /\ x.bound = z.bound /\ x.mirrored = z.mirrored
          /\ x.native = z.native /\ x.lost = z.lost /\ x.early = z.early
      BY <3>2, <3>3, ContextFields
    <3>5. Live(x) = Live(z)
      BY <3>4 DEF Live
    <3> QED
      BY <1>1, <3>2, <3>4, <3>5, <3>6, LeftoverOf
  <2> QED
    BY <1>2, <1>3, <2>1, <2>2 DEF connection_ended
<1> QED
  BY <1>1, <1>3, <1>4 DEF BridgeInv, Known

(***************************************************************************)
(* Swapchains and devices that go.                                         *)
(***************************************************************************)

\* Only images can be known to the client through a swapchain alone.
LEMMA OwnedListed ==
  ASSUME BridgeInv, link = "up", NEW v \in Live(ctx), Type(v) \notin Borrowed,
         Type(v) # "IMAGE"
  PROVE  v \in Known
<1>1. ContextKnown(ctx) /\ InStep(ctx, client)
  BY UpAgreed DEF Agreed
<1>2. ASSUME NEW s \in DOMAIN client.chains PROVE v \notin client.chains[s]
  <2>1. CASE s \in ctx.lost
    BY <1>1, <2>1 DEF InStep, ClientChainsKnown, ContextKnown, TableKnown
  <2>2. CASE s \notin ctx.lost
    <3>1. s \in DOMAIN client.proxies /\ Type(s) = "SWAPCHAIN"
          /\ client.chains[s] = ctx.chain[s]
      BY <1>1, <2>2 DEF InStep, ClientChainsKnown
    <3>2. s \in Live(ctx)
      BY <1>1, <2>2, <3>1 DEF InStep, ListsKnown
    <3>3. s \in DOMAIN ctx.chain
      BY <1>1, <3>1, <3>2 DEF ContextKnown, ChainsKnown, OfType
    <3> QED
      BY <1>1, <3>1, <3>3 DEF ContextKnown, ChainsKnown, OfType
  <2> QED
    BY <2>1, <2>2
<1> QED
  BY <1>1, <1>2 DEF InStep, ListsKnown, Known

\* When the client knows no view of a swapchain's images, there is none.
LEMMA NoChainViews ==
  ASSUME BridgeInv, link = "up", NEW s \in DOMAIN ctx.chain,
         ChainViews(client.chains[s]) = {}
  PROVE  \A v \in Live(ctx) : ctx.table[v] \notin ctx.chain[s]
<1> SUFFICES ASSUME NEW v \in Live(ctx), ctx.table[v] \in ctx.chain[s] PROVE FALSE
  OBVIOUS
<1>1. ContextKnown(ctx) /\ InStep(ctx, client)
  BY UpAgreed DEF Agreed
<1>2. Type(ctx.table[v]) = "IMAGE"
  BY <1>1 DEF ContextKnown, ChainsKnown, OfType
<1>3. Type(v) = "IMAGE_VIEW"
  <2>1. Type(v) # "INSTANCE"
    BY <1>1, <1>2, ParentFacts, NoObjectType
  <2>2. ParentType(Type(v)) = "IMAGE"
    BY <1>1, <1>2, <2>1, ParentFacts
  <2> QED
    BY <2>2 DEF ParentType
<1>4. v \in Known
  BY <1>3, OwnedListed DEF Borrowed
<1>5. client.chains[s] = ctx.chain[s]
  BY <1>4, ListedNoChainImage
<1> QED
  BY <1>3, <1>4, <1>5 DEF ChainViews, P

\* A loss takes swapchains away without the client's knowledge; the answer is
\* an error.
LEMMA LostGood ==
  ASSUME BridgeInv, link = "up", ctx.lost = {}, NEW ss, ss \subseteq DOMAIN ctx.chain,
         \A id \in Live(ctx) : ctx.table[id] \notin ImagesOf(ctx, ss),
         NEW y, y = LostFrom(ctx, ss), NEW o \in Fails(y, "EIO"), NEW Q
  PROVE  Good(ctx, o, RemovedOn(o, Q))
<1>1. ContextKnown(ctx) /\ InStep(ctx, client) /\ ctx.negotiated = TRUE
      /\ DOMAIN client = {"proxies", "chains", "mapped"}
  BY UpAgreed DEF Agreed
<1>2. ContextKnown(y) /\ InStep(y, client) /\ y.negotiated = ctx.negotiated
  BY <1>1, StepLost
<1>3. o.ctx = y /\ o.status = "EIO" /\ "EIO" # "SUCCESS"
  BY DEF Fails, Outcome
<1>4. RemovedOn(o, Q) = client
  BY <1>3 DEF RemovedOn
<1> QED
  BY <1>1, <1>2, <1>3, <1>4, Agreement DEF Good, Agreed

\* A swapchain without views goes with its images, or is lost.
LEMMA DestroySwapchainCall ==
  ASSUME BridgeInv, vkDestroySwapchainKHR
  PROVE  BridgeInv'
<1>1. PICK s \in P("SWAPCHAIN") :
        /\ ChainViews(client.chains[s]) = {}
        /\ Destroys(Served(ctx, destroy_swapchain(ctx, s)), {s})
  BY DEF vkDestroySwapchainKHR, answer_vulkan_swapchain_destroy
<1>2. s \in Known /\ Type(s) = "SWAPCHAIN"
  BY DEF P
<1>3. ASSUME link = "up", ctx.present, NEW o \in destroy_swapchain(ctx, s)
      PROVE  Good(ctx, o, RemovedOn(o, {s}))
  <2>1. ContextKnown(ctx)
    BY <1>3, UpAgreed DEF Agreed
  <2>2. CASE s \notin DOMAIN ctx.chain
    <3>1. o \in Fails(ctx, "ENOENT") /\ "ENOENT" # "SUCCESS"
      BY <1>3, <2>2 DEF destroy_swapchain
    <3>2. ctx.lost # {}
      <4>1. s \notin Live(ctx)
        BY <1>2, <2>1, <2>2 DEF ContextKnown, ChainsKnown, OfType
      <4> QED
        BY <1>2, <1>3, <4>1, ListedLive
    <3> QED
      BY <1>3, <3>1, <3>2, FailsKept
  <2>3. CASE s \in DOMAIN ctx.chain
    <3>1. \A v \in Live(ctx) : ctx.table[v] \notin ctx.chain[s]
      BY <1>1, <1>3, <2>3, NoChainViews
    <3>2. PICK ss : ss = {s}
      OBVIOUS
    <3>3. ImagesOf(ctx, ss) = ctx.chain[s] /\ ss \subseteq DOMAIN ctx.chain
      BY <2>3, <3>2 DEF ImagesOf
    <3>4. \A v \in Live(ctx) : ctx.table[v] \notin ImagesOf(ctx, ss)
      BY <3>1, <3>3
    <3>5. PICK x : x = destroy_swapchain_metadata(ctx, ss)
      OBVIOUS
    <3>6. o \in Succeeds(x) \/ (ctx.lost = {} /\ o \in Fails(LostFrom(ctx, ss), "EIO"))
      BY <1>3, <2>3, <3>2, <3>3, <3>5 DEF destroy_swapchain, LostFrom
    <3>7. CASE o \in Succeeds(x)
      <4>1. PICK R : R = ss \cup ImagesOf(ctx, ss)
        OBVIOUS
      <4>2. Without(ctx, x, R, ss) /\ Closed(ctx, R, ss)
        BY <2>1, <3>3, <3>4, <3>5, <4>1, ChainsGone
      <4>3. o.ctx = x /\ o.status = "SUCCESS"
        BY <3>7 DEF Succeeds, Fails, Outcome
      <4>4. \A id \in Known : id \in R => id \in ss
        <5>1. \A id \in Known : id \notin ctx.chain[s]
          BY <1>3, <2>3, ListedNoChainImage
        <5> QED
          BY <3>3, <4>1, <5>1
      <4>5. \A id \in Live(ctx) : id \in ss => id \in R
        BY <4>1
      <4>6. \A t \in ss : ctx.chain[t] \subseteq R
        BY <3>2, <3>3, <4>1
      <4>7. Good(ctx, o, RemovedOn(o, ss))
        BY <1>3, <4>2, <4>3, <4>4, <4>5, <4>6, RemovedGood
      <4> QED
        BY <3>2, <4>7
    <3>8. CASE ctx.lost = {} /\ o \in Fails(LostFrom(ctx, ss), "EIO")
      BY <1>3, <3>3, <3>4, <3>8, LostGood
    <3> QED
      BY <3>6, <3>7, <3>8
  <2> QED
    BY <2>2, <2>3
<1> QED
  BY <1>1, <1>2, <1>3, ServedDestroys

\* The parent the client knows of a live object, by the object's type.
LEMMA LiveProxy ==
  ASSUME BridgeInv, link = "up", NEW id \in Known, id \in Live(ctx)
  PROVE  /\ client.proxies[id] = ProxyParent(ctx, id) /\ Type(id) # "SURFACE"
         /\ Type(id) # "IMAGE_VIEW" => client.proxies[id] = ctx.table[id]
         /\ Type(id) = "IMAGE_VIEW" => client.proxies[id] = ctx.table[ctx.table[id]]
<1>1. ContextKnown(ctx) /\ "SURFACE" \notin ObjectTypes
  BY UpAgreed DEF Agreed, ObjectTypes, DeviceChildren, Pools
<1>2. Type(id) # "SURFACE" /\ id \notin ctx.lost
  BY <1>1 DEF ContextKnown, TableKnown
<1>3. client.proxies[id] = ProxyParent(ctx, id)
  BY <1>2, ListedLive
<1> QED
  BY <1>2, <1>3 DEF ProxyParent

\* What a device owns, the client lists among what goes with the device.
LEMMA DeviceProxiesGo ==
  ASSUME BridgeInv, link = "up", NEW d, NEW id \in Known, id \in OnDevices(ctx, {d})
  PROVE  id \in remove_device_proxy_locked(d) \cup remove_swapchains_for_device_locked(d)
<1>1. ContextKnown(ctx)
  BY UpAgreed DEF Agreed
<1>2. id \in Live(ctx) /\ DeviceOf(ctx, id) = d
      /\ Type(id) \in DeviceChildren \cup Grandchildren
  BY DEF OnDevices
<1>3. CASE Type(id) \in DeviceChildren
  <2>1. client.proxies[id] = d
    <3>1. Type(id) # "IMAGE_VIEW"
      BY <1>3 DEF DeviceChildren, Pools
    <3> QED
      BY <1>1, <1>2, <1>3, <3>1, LiveProxy, DeviceOfFacts
  <2>2. CASE Type(id) \in {"QUEUE", "SWAPCHAIN"}
    BY <2>1, <2>2 DEF remove_device_proxy_locked, remove_swapchains_for_device_locked,
                      remove_queue_proxies_locked, Of, P
  <2>3. CASE Type(id) = "COMMAND_POOL"
    BY <2>1, <2>3 DEF remove_device_proxy_locked, remove_command_pools_for_device_locked,
                      remove_command_pool_proxy_locked, Of, P
  <2>4. CASE Type(id) \notin {"QUEUE", "SWAPCHAIN", "COMMAND_POOL"}
    BY <2>1, <2>4 DEF remove_device_proxy_locked, remove_resources_for_device_locked
  <2> QED
    BY <2>2, <2>3, <2>4
<1>4. CASE Type(id) = "IMAGE_VIEW"
  <2>1. client.proxies[id] = d
    BY <1>1, <1>2, <1>4, LiveProxy, DeviceOfFacts DEF Grandchildren
  <2> QED
    BY <1>4, <2>1 DEF remove_device_proxy_locked, remove_resources_for_device_locked
<1>5. CASE Type(id) \in {"COMMAND_BUFFER", "DESCRIPTOR_SET"}
  <2>1. PICK pool : pool = ctx.table[id]
    OBVIOUS
  <2>2. /\ pool \in Live(ctx) /\ Type(pool) = ParentType(Type(id))
        /\ Type(pool) \in DeviceChildren /\ DeviceOf(ctx, id) = ctx.table[pool]
    BY <1>1, <1>2, <1>5, <2>1, DeviceOfFacts DEF Grandchildren
  <2>3. client.proxies[id] = pool
    BY <1>2, <1>5, <2>1, LiveProxy
  <2>4. Type(pool) = IF Type(id) = "COMMAND_BUFFER" THEN "COMMAND_POOL"
                     ELSE "DESCRIPTOR_POOL"
    BY <1>5, <2>2 DEF ParentType
  <2>5. pool \in Known
    BY <2>2, <2>4, OwnedListed DEF Borrowed
  <2>6. client.proxies[pool] = d
    BY <1>2, <2>2, <2>4, <2>5, LiveProxy
  <2>7. CASE Type(id) = "COMMAND_BUFFER"
    BY <2>3, <2>4, <2>5, <2>6, <2>7
       DEF remove_device_proxy_locked, remove_command_pools_for_device_locked,
           remove_command_pool_proxy_locked, remove_command_buffers_for_pool_locked, Of, P
  <2>8. CASE Type(id) = "DESCRIPTOR_SET"
    BY <2>3, <2>4, <2>5, <2>6, <2>8
       DEF remove_device_proxy_locked, remove_resources_for_device_locked,
           remove_descriptor_sets_for_pool_locked, Of, P
  <2> QED
    BY <1>5, <2>7, <2>8
<1> QED
  BY <1>2, <1>3, <1>4, <1>5 DEF Grandchildren

\* A live proxy that goes with a device is owned by the device.
LEMMA GoneProxiesOwned ==
  ASSUME BridgeInv, link = "up", NEW d, Type(d) = "DEVICE", NEW id \in Live(ctx),
         id \in remove_device_proxy_locked(d) \cup remove_swapchains_for_device_locked(d),
         id # d
  PROVE  id \in OnDevices(ctx, {d}) /\ d \in Live(ctx)
<1>1. ContextKnown(ctx)
  BY UpAgreed DEF Agreed
<1>2. CASE id \in Known /\ client.proxies[id] = d
  <2>1. /\ Type(id) # "IMAGE_VIEW" => ctx.table[id] = d
        /\ Type(id) = "IMAGE_VIEW" => ctx.table[ctx.table[id]] = d
    BY <1>2, LiveProxy
  <2>2. CASE Type(id) = "IMAGE_VIEW"
    <3>1. DeviceOf(ctx, id) = d /\ d \in Live(ctx)
      BY <1>1, <2>1, <2>2, DeviceOfFacts DEF Grandchildren, OfType
    <3> QED
      BY <2>2, <3>1 DEF OnDevices, Grandchildren
  <2>3. CASE Type(id) # "IMAGE_VIEW"
    <3>1. Type(id) # "INSTANCE"
      BY <1>1, <2>1, <2>3, ParentFacts, NoObjectType
    <3>2. d \in Live(ctx) /\ ParentType(Type(id)) = "DEVICE" /\ Type(id) \in ObjectTypes
      BY <1>1, <2>1, <2>3, <3>1, ParentFacts
    <3>3. Type(id) \in DeviceChildren
      BY <2>3, <3>1, <3>2 DEF ParentType, ObjectTypes
    <3>4. DeviceOf(ctx, id) = d
      BY <1>1, <2>1, <2>3, <3>3, DeviceOfFacts
    <3> QED
      BY <3>2, <3>3, <3>4 DEF OnDevices
  <2> QED
    BY <2>2, <2>3
<1>3. CASE \E pool \in Known : /\ client.proxies[pool] = d /\ Type(pool) \in Pools
                               /\ id \in Known /\ client.proxies[id] = pool
                               /\ Type(id) \in {"COMMAND_BUFFER", "DESCRIPTOR_SET"}
  <2>1. PICK pool \in Known : /\ client.proxies[pool] = d /\ Type(pool) \in Pools
                              /\ id \in Known /\ client.proxies[id] = pool
                              /\ Type(id) \in {"COMMAND_BUFFER", "DESCRIPTOR_SET"}
    BY <1>3
  <2>2. ctx.table[id] = pool
    BY <2>1, LiveProxy
  <2>3. pool \in Live(ctx) /\ DeviceOf(ctx, id) = ctx.table[pool]
        /\ ctx.table[pool] \in Live(ctx)
    BY <1>1, <2>1, <2>2, DeviceOfFacts DEF Grandchildren, OfType
  <2>4. ctx.table[pool] = d
    <3>1. Type(pool) # "IMAGE_VIEW"
      BY <2>1 DEF Pools
    <3> QED
      BY <2>1, <2>3, <3>1, LiveProxy
  <2> QED
    BY <2>1, <2>3, <2>4 DEF OnDevices, Grandchildren
<1>4. \/ id \in Of("SWAPCHAIN", d) \/ id \in Of("QUEUE", d)
      \/ id \in remove_command_pools_for_device_locked(d)
      \/ id \in remove_resources_for_device_locked(d)
  BY DEF remove_device_proxy_locked, remove_swapchains_for_device_locked,
         remove_queue_proxies_locked
<1>5. CASE id \in Of("SWAPCHAIN", d) \/ id \in Of("QUEUE", d)
  BY <1>2, <1>5 DEF Of, P
<1>6. CASE id \in remove_command_pools_for_device_locked(d)
  <2>1. PICK pool \in Of("COMMAND_POOL", d) :
          id = pool \/ id \in Of("COMMAND_BUFFER", pool)
    BY <1>6 DEF remove_command_pools_for_device_locked, remove_command_pool_proxy_locked,
                remove_command_buffers_for_pool_locked
  <2> QED
    BY <1>2, <1>3, <2>1 DEF Of, P, Pools
<1>7. CASE id \in remove_resources_for_device_locked(d)
  <2>1. \/ id \in Known /\ client.proxies[id] = d
        \/ \E pool \in Of("DESCRIPTOR_POOL", d) : id \in Of("DESCRIPTOR_SET", pool)
    BY <1>7 DEF remove_resources_for_device_locked, remove_descriptor_sets_for_pool_locked
  <2> QED
    BY <1>2, <1>3, <2>1 DEF Of, P, Pools
<1> QED
  BY <1>4, <1>5, <1>6, <1>7

\* A device that is torn down takes everything it owns along on both sides.
LEMMA DeviceGood ==
  ASSUME BridgeInv, link = "up", NEW d \in P("DEVICE"), d \in Live(ctx),
         ~ device_is_mapped(ctx, d),
         \A id \in Live(ctx) : ctx.table[id] \notin ImagesOf(ctx, ChainsOn(ctx, {d})),
         NEW o \in Succeeds(device_teardown(ctx, {d})), NEW Q,
         Q = remove_device_proxy_locked(d) \cup remove_swapchains_for_device_locked(d)
  PROVE  Good(ctx, o, RemovedOn(o, Q))
<1>1. ContextKnown(ctx) /\ Type(d) = "DEVICE"
  BY UpAgreed DEF Agreed, P
<1>2. PICK ds : ds = {d}
  OBVIOUS
<1>3. /\ ds \subseteq OfType(ctx, "DEVICE")
      /\ \A m \in ctx.mirrored : ctx.table[m] \notin ds
      /\ \A id \in Live(ctx) : ctx.table[id] \notin ImagesOf(ctx, ChainsOn(ctx, ds))
  BY <1>1, <1>2 DEF OfType, device_is_mapped
<1>4. PICK x : x = device_teardown(ctx, ds)
  OBVIOUS
<1>5. PICK R : R = OnDevices(ctx, ds) \cup ds
  OBVIOUS
<1>6. PICK ss : ss = ChainsOn(ctx, ds)
  OBVIOUS
<1>7. Without(ctx, x, R, ss)
  <2>1. Without(ctx, device_teardown(ctx, ds), OnDevices(ctx, ds) \cup ds, ChainsOn(ctx, ds))
    BY <1>1, <1>3, TeardownFacts
  <2> QED
    BY <1>4, <1>5, <1>6, <2>1
<1>8. Closed(ctx, R, ss)
  BY <1>1, <1>3, <1>5, <1>6, DevicesClosed
<1>9. \A s \in ss : ctx.chain[s] \subseteq R
  <2> SUFFICES ASSUME NEW s \in ss, NEW i \in ctx.chain[s] PROVE i \in R
    OBVIOUS
  <2>1. s \in DOMAIN ctx.chain /\ ctx.table[s] \in ds
    BY <1>6 DEF ChainsOn
  <2>2. i \in Live(ctx) /\ ctx.table[i] = ctx.table[s]
    BY <1>1, <2>1 DEF ContextKnown, ChainsKnown, OfType
  <2> QED
    BY <1>1, <1>3, <1>5, <2>1, <2>2, ChildOnDevice
<1>10. \A id \in Known : id \in R => id \in Q
  <2>1. d \in Q
    BY DEF remove_device_proxy_locked
  <2> QED
    BY <1>2, <1>5, <2>1, DeviceProxiesGo
<1>11. \A id \in Live(ctx) : id \in Q => id \in R
  BY <1>1, <1>2, <1>5, GoneProxiesOwned
<1>12. o.ctx = x /\ o.status = "SUCCESS"
  BY <1>2, <1>4 DEF Succeeds, Fails, Outcome
<1> QED
  BY <1>7, <1>8, <1>9, <1>10, <1>11, <1>12, RemovedGood

\* The swapchains of a device are listed under it.
LEMMA ChainsOnListed ==
  ASSUME BridgeInv, link = "up", NEW d \in P("DEVICE"), NEW s \in ChainsOn(ctx, {d})
  PROVE  s \in Of("SWAPCHAIN", d) /\ s \in DOMAIN ctx.chain
<1>1. ContextKnown(ctx) /\ d \in Known
  BY UpAgreed DEF Agreed, P
<1>2. s \in DOMAIN ctx.chain /\ ctx.table[s] = d
  BY DEF ChainsOn
<1>3. s \in Live(ctx) /\ Type(s) = "SWAPCHAIN"
  BY <1>1, <1>2 DEF ContextKnown, ChainsKnown, OfType
<1>4. s \in Known
  BY <1>1, <1>2, ListedNoChainImage
<1>5. client.proxies[s] = d
  BY <1>2, <1>3, <1>4, LiveProxy
<1> QED
  BY <1>2, <1>3, <1>4, <1>5 DEF Of, P

\* A device goes with all it owns, refuses while something is mapped, or loses
\* swapchains on the way.
LEMMA DestroyDeviceCall ==
  ASSUME BridgeInv, vkDestroyDevice
  PROVE  BridgeInv'
<1>1. PICK d \in P("DEVICE") :
        /\ \A s \in Of("SWAPCHAIN", d) : ChainViews(client.chains[s]) = {}
        /\ Destroys(Served(ctx, destroy_device(ctx, d)),
                    remove_device_proxy_locked(d)
                      \cup remove_swapchains_for_device_locked(d))
  BY DEF vkDestroyDevice, answer_vulkan_device_destroy
<1>2. PICK Q : Q = remove_device_proxy_locked(d) \cup remove_swapchains_for_device_locked(d)
  OBVIOUS
<1>3. d \in Known /\ Type(d) = "DEVICE" /\ Type(d) # "SURFACE"
  BY DEF P
<1>4. ASSUME link = "up", ctx.present, NEW o \in destroy_device(ctx, d)
      PROVE  Good(ctx, o, RemovedOn(o, Q))
  <2>1. CASE d \notin Live(ctx)
    <3>1. o \in Fails(ctx, "ENOENT") /\ "ENOENT" # "SUCCESS"
      BY <1>4, <2>1 DEF destroy_device
    <3>2. ctx.lost # {}
      BY <1>3, <1>4, <2>1, ListedLive
    <3> QED
      BY <1>4, <3>1, <3>2, FailsKept
  <2>2. CASE d \in Live(ctx) /\ device_is_mapped(ctx, d)
    <3>1. o \in Fails(ctx, "EBUSY") /\ "EBUSY" # "SUCCESS"
      BY <1>4, <2>2 DEF destroy_device
    <3> QED
      BY <1>4, <3>1, FailsKept, Agreement
  <2>3. CASE d \in Live(ctx) /\ ~ device_is_mapped(ctx, d)
    <3>1. ASSUME NEW s \in ChainsOn(ctx, {d}), NEW v \in Live(ctx)
          PROVE  ctx.table[v] \notin ctx.chain[s]
      BY <1>1, <1>4, ChainsOnListed, NoChainViews
    <3>2. \A ss \in SUBSET ChainsOn(ctx, {d}) :
             \A id \in Live(ctx) : ctx.table[id] \notin ImagesOf(ctx, ss)
      BY <3>1 DEF ImagesOf
    <3>3. o \in Succeeds(device_teardown(ctx, {d})) \/ o \in StoppedByLoss(ctx, d)
      BY <1>4, <2>3 DEF destroy_device
    <3>4. CASE o \in Succeeds(device_teardown(ctx, {d}))
      BY <1>2, <1>4, <2>3, <3>2, <3>4, DeviceGood
    <3>5. CASE o \in StoppedByLoss(ctx, d)
      <4>1. ChainsOn(ctx, {d}) = {s \in DOMAIN ctx.chain : ctx.table[s] = d}
        BY DEF ChainsOn
      <4>2. ctx.lost = {}
        BY <3>5 DEF StoppedByLoss
      <4>3. PICK ss \in SUBSET ChainsOn(ctx, {d}) :
              o = Outcome([destroy_swapchain_metadata(ctx, ss)
                             EXCEPT !.lost = ss \cup UNION {ctx.chain[s] : s \in ss}],
                          "EIO", NoObject)
        BY <3>5, <4>1, <4>2 DEF StoppedByLoss
      <4>4. o \in Fails(LostFrom(ctx, ss), "EIO")
        BY <4>3 DEF LostFrom, ImagesOf, Fails
      <4>5. ss \subseteq DOMAIN ctx.chain
        BY DEF ChainsOn
      <4>6. \A id \in Live(ctx) : ctx.table[id] \notin ImagesOf(ctx, ss)
        BY <3>2
      <4> QED
        BY <1>4, <4>2, <4>4, <4>5, <4>6, LostGood
    <3> QED
      BY <3>3, <3>4, <3>5
  <2> QED
    BY <2>1, <2>2, <2>3
<1>5. Destroys(Served(ctx, destroy_device(ctx, d)), Q)
  BY <1>1, <1>2
<1> QED
  BY <1>3, <1>4, <1>5, ServedDestroys

\* The physical devices of an instance and their devices.
Physicals(c, i) == existing_physical_device_id(c, i)
DevicesUnder(c, i) == {d \in OfType(c, "DEVICE") : c.table[d] \in Physicals(c, i)}

\* What an instance owns, and what it takes along.
UnderInstance(c, i) ==
    ((OnDevices(c, DevicesUnder(c, i)) \cup DevicesUnder(c, i)) \cup Physicals(c, i))
      \cup {i}

\* With no swapchains and nothing mapped, the objects of an instance go alone.
LEMMA InstanceClosed ==
  ASSUME NEW c, ContextKnown(c), NEW i \in Live(c), Type(i) = "INSTANCE",
         DOMAIN c.chain = {}, c.mirrored = {}
  PROVE  Closed(c, UnderInstance(c, i), {})
<1>1. PICK ds : ds = DevicesUnder(c, i)
  OBVIOUS
<1>2. PICK S : S = OnDevices(c, ds) \cup ds
  OBVIOUS
<1>3. ds \subseteq OfType(c, "DEVICE")
  BY <1>1 DEF DevicesUnder
<1>4. Closed(c, S, ChainsOn(c, ds))
  BY <1>2, <1>3, DevicesClosed
<1>5. UnderInstance(c, i) = (S \cup Physicals(c, i)) \cup {i}
  BY <1>1, <1>2 DEF UnderInstance
<1>6. UnderInstance(c, i) \subseteq Live(c)
  BY <1>4, <1>5 DEF Closed, Physicals, existing_physical_device_id, ChildrenOf
<1>7. ASSUME NEW k \in Live(c), c.table[k] \in UnderInstance(c, i)
      PROVE  k \in UnderInstance(c, i)
  <2>1. CASE c.table[k] \in S
    BY <1>4, <1>5, <2>1 DEF Closed
  <2>2. CASE c.table[k] \in Physicals(c, i)
    <3>1. Type(c.table[k]) = "PHYSICAL_DEVICE"
      BY <2>2 DEF Physicals, existing_physical_device_id
    <3>2. Type(k) # "INSTANCE"
      BY <3>1, ParentFacts, NoObjectType
    <3>3. ParentType(Type(k)) = "PHYSICAL_DEVICE"
      BY <3>1, <3>2, ParentFacts
    <3>4. Type(k) = "DEVICE"
      BY <3>3 DEF ParentType
    <3> QED
      BY <1>1, <1>2, <1>5, <2>2, <3>4 DEF DevicesUnder, OfType
  <2>3. CASE c.table[k] = i
    <3>1. Type(k) # "INSTANCE"
      BY <2>3, ParentFacts, NoObjectType
    <3>2. ParentType(Type(k)) = "INSTANCE"
      BY <2>3, <3>1, ParentFacts
    <3>3. Type(k) = "PHYSICAL_DEVICE"
      BY <3>2 DEF ParentType
    <3> QED
      BY <1>5, <2>3, <3>3 DEF Physicals, existing_physical_device_id, ChildrenOf
  <2> QED
    BY <1>5, <1>7, <2>1, <2>2, <2>3
<1> QED
  BY <1>6, <1>7 DEF Closed

\* The devices, then the physical devices, then the instance itself.
LEMMA InstanceGone ==
  ASSUME NEW c, ContextKnown(c), NEW i \in Live(c), Type(i) = "INSTANCE",
         DOMAIN c.chain = {}, c.mirrored = {}
  PROVE  Without(c, Destroyed(Forgotten(device_teardown(c, DevicesUnder(c, i)),
                                        Physicals(c, i)), {i}),
                 UnderInstance(c, i), {})
<1>1. PICK ds : ds = DevicesUnder(c, i)
  OBVIOUS
<1>2. PICK S : S = OnDevices(c, ds) \cup ds
  OBVIOUS
<1>3. PICK K : K = Physicals(c, i)
  OBVIOUS
<1>4. PICK x : x = device_teardown(c, ds)
  OBVIOUS
<1>5. Without(c, x, S, {}) /\ ContextKnown(x)
  <2>1. /\ ds \subseteq OfType(c, "DEVICE")
        /\ \A m \in c.mirrored : c.table[m] \notin ds
        /\ ChainsOn(c, ds) = {}
    BY <1>1 DEF DevicesUnder, ChainsOn
  <2>2. \A id \in Live(c) : c.table[id] \notin ImagesOf(c, ChainsOn(c, ds))
    BY <2>1 DEF ImagesOf
  <2>3. /\ Without(c, device_teardown(c, ds), OnDevices(c, ds) \cup ds, ChainsOn(c, ds))
        /\ ContextKnown(device_teardown(c, ds))
    BY <2>1, <2>2, TeardownFacts
  <2> QED
    BY <1>2, <1>4, <2>1, <2>3
<1>6. \A k \in K : Type(k) = "PHYSICAL_DEVICE" /\ c.table[k] = i /\ k \in Live(c)
  BY <1>3 DEF Physicals, existing_physical_device_id, ChildrenOf
<1>7. Live(x) = Live(c) \ S /\ \A id \in Live(x) : x.table[id] = c.table[id]
  BY <1>5 DEF Without
<1>8. \A id \in S : Type(id) \notin {"PHYSICAL_DEVICE", "INSTANCE"}
  <2>1. \A id \in ds : Type(id) = "DEVICE"
    BY <1>1 DEF DevicesUnder, OfType
  <2>2. \A id \in OnDevices(c, ds) : Type(id) \in DeviceChildren \cup Grandchildren
    BY DEF OnDevices
  <2> QED
    BY <1>2, <2>1, <2>2 DEF DeviceChildren, Pools, Grandchildren
<1>9. K \subseteq Live(x) /\ i \in Live(x)
  BY <1>6, <1>7, <1>8
<1>10. PICK y : y = Forgotten(x, K)
  OBVIOUS
<1>11. Unlisted(x, y, K) /\ DOMAIN x = DOMAIN NewContext
  BY <1>5, <1>10, ForgottenUnlists DEF ContextKnown
<1>12. Without(x, y, K, {})
  <2>1. DOMAIN x.native \cap K = {}
    BY <1>5, <1>6 DEF ContextKnown, NativesKnown, Borrowed
  <2> QED
    BY <1>11, <2>1 DEF Unlisted, Without
<1>13. x.mirrored = {} /\ DOMAIN x.chain = {}
  BY <1>5 DEF Without
<1>14. \A k \in Live(x) : x.table[k] \notin K
  <2> SUFFICES ASSUME NEW k \in Live(x), x.table[k] \in K PROVE FALSE
    OBVIOUS
  <2>1. Type(x.table[k]) = "PHYSICAL_DEVICE" /\ c.table[k] \in K /\ k \in Live(c) /\ k \notin S
    BY <1>6, <1>7
  <2>2. Type(k) # "INSTANCE"
    BY <1>5, <2>1, ParentFacts, NoObjectType
  <2>3. ParentType(Type(k)) = "PHYSICAL_DEVICE"
    BY <1>5, <2>1, <2>2, ParentFacts
  <2>4. Type(k) = "DEVICE"
    BY <2>3 DEF ParentType
  <2> QED
    BY <1>1, <1>2, <1>3, <2>1, <2>4 DEF DevicesUnder, OfType
<1>15. ContextKnown(y)
  <2>1. Closed(x, K, {})
    BY <1>9, <1>13, <1>14 DEF Closed
  <2> QED
    BY <1>5, <1>12, <2>1, WithoutKnown
<1>16. i \in Live(y) /\ y.mirrored = {} /\ DOMAIN y.chain = {}
       /\ \A k \in Live(y) : y.table[k] = x.table[k] /\ k \in Live(x) /\ k \notin K
  BY <1>6, <1>9, <1>12, <1>13 DEF Without
<1>17. \A k \in Live(y) : y.table[k] # i
  <2> SUFFICES ASSUME NEW k \in Live(y), y.table[k] = i PROVE FALSE
    OBVIOUS
  <2>1. Type(k) # "INSTANCE"
    BY <1>15, ParentFacts, NoObjectType
  <2>2. ParentType(Type(k)) = "INSTANCE"
    BY <1>15, <2>1, ParentFacts
  <2>3. Type(k) = "PHYSICAL_DEVICE"
    BY <2>2 DEF ParentType
  <2>4. k \in Live(c) /\ c.table[k] = i /\ k \notin K
    BY <1>7, <1>16
  <2> QED
    BY <1>3, <2>3, <2>4 DEF Physicals, existing_physical_device_id, ChildrenOf
<1>18. Without(y, Destroyed(y, {i}), {i}, {})
  BY <1>15, <1>16, <1>17, LeafGone
<1>19. Without(c, y, S \cup K, {} \cup {})
  BY <1>5, <1>12, WithoutBoth
<1>20. Without(c, Destroyed(y, {i}), (S \cup K) \cup {i}, ({} \cup {}) \cup {})
  BY <1>18, <1>19, WithoutBoth
<1>21. UnderInstance(c, i) = (S \cup K) \cup {i} /\ ({} \cup {}) \cup {} = {}
  BY <1>1, <1>2, <1>3 DEF UnderInstance
<1>22. y = Forgotten(device_teardown(c, DevicesUnder(c, i)), Physicals(c, i))
  BY <1>1, <1>3, <1>4, <1>10
<1> QED
  BY <1>20, <1>21, <1>22

\* Devices that go one after the other lose no swapchain when there is none.
LEMMA NothingStops ==
  ASSUME NEW c, ContextKnown(c), DOMAIN c.chain = {}, c.mirrored = {}, NEW ds,
         ds \subseteq OfType(c, "DEVICE"), NEW d,
         NEW o \in destroy_device(device_teardown(c, ds), d), o.status # "SUCCESS"
  PROVE  o.status = "ENOENT"
<1>1. PICK x : x = device_teardown(c, ds)
  OBVIOUS
<1>2. DOMAIN x.chain = {} /\ x.mirrored = {}
  <2>1. ChainsOn(c, ds) = {}
    BY DEF ChainsOn
  <2>2. \A id \in Live(c) : c.table[id] \notin ImagesOf(c, ChainsOn(c, ds))
    BY <2>1 DEF ImagesOf
  <2>3. \A m \in c.mirrored : c.table[m] \notin ds
    OBVIOUS
  <2>4. Without(c, device_teardown(c, ds), OnDevices(c, ds) \cup ds, ChainsOn(c, ds))
    BY <2>2, <2>3, TeardownFacts
  <2> QED
    BY <1>1, <2>4 DEF Without
<1>3. ~ device_is_mapped(x, d)
  BY <1>2 DEF device_is_mapped
<1>4. StoppedByLoss(x, d) = {}
  <2>1. (SUBSET {s \in DOMAIN x.chain : x.table[s] = d}) \ {{}} = {}
    <3>1. PICK D : D = {s \in DOMAIN x.chain : x.table[s] = d}
      OBVIOUS
    <3>2. D = {}
      BY <1>2, <3>1
    <3>3. \A t \in SUBSET D : t = {}
      BY <3>2
    <3>4. ASSUME NEW t \in (SUBSET D) \ {{}} PROVE FALSE
      <4>1. t \in SUBSET D /\ t \notin {{}}
        BY Zenon
      <4>2. t = {}
        BY <3>3, <4>1, Zenon
      <4> QED
        BY <4>1, <4>2, Zenon
    <3>5. (SUBSET D) \ {{}} = {}
      BY <3>4, Zenon
    <3> QED
      BY <3>1, <3>5
  <2>2. PICK C : C = (SUBSET {s \in DOMAIN x.chain : x.table[s] = d}) \ {{}}
    OBVIOUS
  <2>3. CASE x.lost # {}
    BY <2>3 DEF StoppedByLoss
  <2>4. CASE x.lost = {}
    <3>1. StoppedByLoss(x, d) =
            {Outcome([destroy_swapchain_metadata(x, ss)
                        EXCEPT !.lost = ss \cup UNION {x.chain[s] : s \in ss}],
                     "EIO", NoObject) : ss \in C}
      BY <2>2, <2>4 DEF StoppedByLoss
    <3> QED
      BY <2>1, <2>2, <3>1
  <2> QED
    BY <2>3, <2>4
<1>5. o \in destroy_device(x, d)
  BY <1>1
<1>6. CASE d \in Live(x)
  <2>1. o \in Succeeds(device_teardown(x, {d}))
    BY <1>3, <1>4, <1>5, <1>6 DEF destroy_device
  <2> QED
    BY <2>1 DEF Succeeds, Fails, Outcome
<1>7. CASE d \notin Live(x)
  BY <1>5, <1>7 DEF destroy_device, Fails, Outcome
<1> QED
  BY <1>6, <1>7

\* What the client drops with an instance.
InstanceProxies(i) ==
    {i} \cup remove_surfaces_for_instance_locked(i) \cup remove_physical_proxies_locked(i)

\* What an instance owns, the client lists among what goes with the instance.
LEMMA InstanceProxiesGo ==
  ASSUME BridgeInv, link = "up", P("SWAPCHAIN") = {}, NEW i, NEW id \in Known,
         id \in UnderInstance(ctx, i)
  PROVE  id \in InstanceProxies(i)
<1>1. ContextKnown(ctx)
  BY UpAgreed DEF Agreed
<1>2. CASE id = i
  BY <1>2 DEF InstanceProxies
<1>3. ASSUME NEW p \in Known, p \in Physicals(ctx, i) PROVE p \in Of("PHYSICAL_DEVICE", i)
  <2>1. p \in Live(ctx) /\ ctx.table[p] = i /\ Type(p) = "PHYSICAL_DEVICE"
    BY <1>3 DEF Physicals, existing_physical_device_id, ChildrenOf
  <2> QED
    BY <1>3, <2>1, LiveProxy DEF Of, P
<1>4. CASE id \in Physicals(ctx, i)
  BY <1>3, <1>4 DEF InstanceProxies, remove_physical_proxies_locked
<1>5. ASSUME NEW d \in DevicesUnder(ctx, i), id = d \/ id \in OnDevices(ctx, {d})
      PROVE  id \in InstanceProxies(i)
  <2>1. d \in Live(ctx) /\ Type(d) = "DEVICE" /\ ctx.table[d] \in Physicals(ctx, i)
    BY DEF DevicesUnder, OfType
  <2>2. d \in Known
    BY <2>1, OwnedListed DEF Borrowed
  <2>3. client.proxies[d] = ctx.table[d]
    BY <2>1, <2>2, LiveProxy
  <2>4. id \in remove_device_proxy_locked(d)
    <3>1. CASE id = d
      BY <3>1 DEF remove_device_proxy_locked
    <3>2. CASE id \in OnDevices(ctx, {d})
      <4>1. Of("SWAPCHAIN", d) = {}
        BY DEF Of
      <4> QED
        BY <3>2, <4>1, DeviceProxiesGo DEF remove_swapchains_for_device_locked
    <3> QED
      BY <1>5, <3>1, <3>2
  <2>5. ctx.table[d] \in Of("PHYSICAL_DEVICE", i)
    <3>1. ctx.table[d] \in Known
      BY <2>1, UpAgreed DEF Agreed, InStep, PhysicalsListed, OfType, Known
    <3> QED
      BY <1>3, <2>1, <3>1
  <2> QED
    BY <2>1, <2>2, <2>3, <2>4, <2>5
       DEF InstanceProxies, remove_physical_proxies_locked,
           remove_device_proxies_for_instance_locked, P
<1>6. CASE id \in OnDevices(ctx, DevicesUnder(ctx, i))
  BY <1>5, <1>6 DEF OnDevices
<1>7. CASE id \in DevicesUnder(ctx, i)
  BY <1>5, <1>7
<1> QED
  BY <1>2, <1>4, <1>6, <1>7 DEF UnderInstance

\* A live proxy that goes with an instance is owned by it.
LEMMA GoneUnderInstance ==
  ASSUME BridgeInv, link = "up", NEW i \in P("INSTANCE"), NEW id \in Live(ctx),
         id \in InstanceProxies(i)
  PROVE  id \in UnderInstance(ctx, i)
<1>1. ContextKnown(ctx)
  BY UpAgreed DEF Agreed
<1>2. ASSUME NEW p \in Of("PHYSICAL_DEVICE", i), p \in Live(ctx) PROVE p \in Physicals(ctx, i)
  <2>1. p \in Known /\ Type(p) = "PHYSICAL_DEVICE" /\ client.proxies[p] = i
    BY <1>2 DEF Of, P
  <2>2. ctx.table[p] = i
    BY <1>2, <2>1, LiveProxy
  <2> QED
    BY <1>2, <2>1, <2>2 DEF Physicals, existing_physical_device_id, ChildrenOf
<1>3. CASE id = i
  BY <1>3 DEF UnderInstance
<1>4. CASE id \in Of("PHYSICAL_DEVICE", i)
  BY <1>2, <1>4 DEF UnderInstance
<1>5. id \notin remove_surfaces_for_instance_locked(i)
  <2>1. "SURFACE" \notin ObjectTypes /\ Type(id) \in ObjectTypes
    BY <1>1 DEF ContextKnown, TableKnown, ObjectTypes, DeviceChildren, Pools
  <2> QED
    BY <2>1 DEF remove_surfaces_for_instance_locked, Of, P
<1>6. ASSUME NEW d \in P("DEVICE"), client.proxies[d] \in Of("PHYSICAL_DEVICE", i),
             id \in remove_device_proxy_locked(d)
      PROVE  id \in UnderInstance(ctx, i)
  <2>1. d \in Known /\ Type(d) = "DEVICE"
    BY <1>6 DEF P
  <2>2. d \in Live(ctx) /\ (id = d \/ id \in OnDevices(ctx, {d}))
    BY <1>6, <2>1, GoneProxiesOwned
  <2>3. client.proxies[d] = ctx.table[d]
    BY <2>1, <2>2, LiveProxy
  <2>4. ctx.table[d] \in Live(ctx)
    BY <1>1, <2>1, <2>2, ParentFacts
  <2>5. d \in DevicesUnder(ctx, i)
    BY <1>2, <1>6, <2>1, <2>2, <2>3, <2>4 DEF DevicesUnder, OfType
  <2>6. id \in OnDevices(ctx, {d}) => id \in OnDevices(ctx, DevicesUnder(ctx, i))
    BY <2>5 DEF OnDevices
  <2> QED
    BY <2>2, <2>5, <2>6 DEF UnderInstance
<1>7. CASE id \in remove_device_proxies_for_instance_locked(i)
  <2>1. PICK d \in P("DEVICE") : client.proxies[d] \in Of("PHYSICAL_DEVICE", i)
                                 /\ id \in remove_device_proxy_locked(d)
    BY <1>7 DEF remove_device_proxies_for_instance_locked
  <2> QED
    BY <1>6, <2>1
<1> QED
  BY <1>3, <1>4, <1>5, <1>7 DEF InstanceProxies, remove_physical_proxies_locked

\* The failures after some of the devices of an instance went.
Stops(c, ds, idle) ==
    UNION {{e \in destroy_device(device_teardown(c, some), d) : e.status # "SUCCESS"} :
             d \in ds, some \in SUBSET idle}

\* The outcomes of an instance's destruction, with no swapchain and nothing mapped.
LEMMA InstanceOutcomes ==
  ASSUME NEW c, ContextKnown(c), NEW i \in Live(c), DOMAIN c.chain = {}, c.mirrored = {},
         NEW o \in destroy_instance(c, i)
  PROVE  o \in Succeeds(Destroyed(Forgotten(device_teardown(c, DevicesUnder(c, i)),
                                            Physicals(c, i)), {i}))
<1>1. PICK ps : ps = existing_physical_device_id(c, i)
  OBVIOUS
<1>2. PICK ds : ds = {d \in OfType(c, "DEVICE") : c.table[d] \in ps}
  OBVIOUS
<1>3. PICK idle : idle = {d \in ds : ~ device_is_mapped(c, d)}
  OBVIOUS
<1>4. idle = ds
  BY <1>3 DEF device_is_mapped
<1>5. PICK stopped : stopped = Stops(c, ds, idle)
  OBVIOUS
<1>6. ASSUME NEW e \in stopped PROVE e.status = "ENOENT"
  <2>1. PICK d \in ds, some \in SUBSET idle :
          e \in destroy_device(device_teardown(c, some), d) /\ e.status # "SUCCESS"
    BY <1>5 DEF Stops
  <2>2. some \subseteq OfType(c, "DEVICE")
    BY <1>2, <1>4
  <2> QED
    BY <2>1, <2>2, NothingStops
<1>7. {e \in stopped : e.status # "ENOENT"} = {}
  BY <1>6
<1>8. destroy_instance(c, i) =
        {e \in stopped : e.status # "ENOENT"} \cup
          IF idle # ds THEN {}
          ELSE Succeeds(Destroyed(Forgotten(device_teardown(c, ds), ps), {i}))
  BY <1>1, <1>2, <1>3, <1>5 DEF destroy_instance, Stops
<1>9. o \in Succeeds(Destroyed(Forgotten(device_teardown(c, ds), ps), {i}))
  BY <1>4, <1>7, <1>8
<1>10. ps = Physicals(c, i) /\ ds = DevicesUnder(c, i)
  BY <1>1, <1>2 DEF Physicals, DevicesUnder
<1> QED
  BY <1>9, <1>10

\* An instance whose swapchains and mappings are gone goes with all it owns.
LEMMA DestroyInstanceCall ==
  ASSUME BridgeInv, vkDestroyInstance
  PROVE  BridgeInv'
<1>1. PICK i \in P("INSTANCE") :
        /\ P("SWAPCHAIN") = {} /\ client.mapped = {}
        /\ Destroys(Served(ctx, destroy_instance(ctx, i)), InstanceProxies(i))
  BY DEF vkDestroyInstance, answer_vulkan_instance_destroy, InstanceProxies
<1>2. i \in Known /\ Type(i) = "INSTANCE" /\ Type(i) # "SURFACE"
  BY DEF P
<1>3. PICK Q : Q = InstanceProxies(i)
  OBVIOUS
<1>4. ASSUME link = "up", ctx.present, NEW o \in destroy_instance(ctx, i)
      PROVE  Good(ctx, o, RemovedOn(o, Q))
  <2>1. ContextKnown(ctx) /\ InStep(ctx, client)
    BY <1>4, UpAgreed DEF Agreed
  <2>2. CASE i \notin Live(ctx)
    <3>1. o \in Fails(ctx, "ENOENT") /\ "ENOENT" # "SUCCESS"
      BY <1>4, <2>2 DEF destroy_instance
    <3>2. ctx.lost # {}
      BY <1>2, <1>4, <2>2, ListedLive
    <3> QED
      BY <1>4, <3>1, <3>2, FailsKept
  <2>3. CASE i \in Live(ctx)
    <3>1. DOMAIN ctx.chain = {}
      <4>1. ASSUME NEW s \in DOMAIN ctx.chain PROVE FALSE
        <5>1. s \in Known
          BY <1>2, <1>4, ListedNoChainImage
        <5>2. Type(s) = "SWAPCHAIN"
          BY <2>1 DEF ContextKnown, ChainsKnown, OfType
        <5> QED
          BY <1>1, <5>1, <5>2 DEF P
      <4> QED
        BY <4>1
    <3>2. ctx.mirrored = {}
      BY <1>1, <2>1 DEF InStep, ListsKnown
    <3>3. PICK x : x = Destroyed(Forgotten(device_teardown(ctx, DevicesUnder(ctx, i)),
                                           Physicals(ctx, i)), {i})
      OBVIOUS
    <3>4. PICK R : R = UnderInstance(ctx, i)
      OBVIOUS
    <3>5. Without(ctx, x, R, {})
      BY <1>2, <2>1, <2>3, <3>1, <3>2, <3>3, <3>4, InstanceGone
    <3>6. Closed(ctx, R, {})
      BY <1>2, <2>1, <2>3, <3>1, <3>2, <3>4, InstanceClosed
    <3>7. o \in Succeeds(x)
      BY <1>4, <2>1, <2>3, <3>1, <3>2, <3>3, InstanceOutcomes
    <3>8. o.ctx = x /\ o.status = "SUCCESS"
      BY <3>7 DEF Succeeds, Fails, Outcome
    <3>9. \A id \in Known : id \in R => id \in Q
      BY <1>1, <1>3, <1>4, <3>4, InstanceProxiesGo
    <3>10. \A id \in Live(ctx) : id \in Q => id \in R
      BY <1>3, <1>4, <3>4, GoneUnderInstance
    <3>11. \A s \in {} : ctx.chain[s] \subseteq R
      OBVIOUS
    <3> QED
      BY <1>4, <3>5, <3>6, <3>8, <3>9, <3>10, <3>11, RemovedGood
  <2> QED
    BY <2>2, <2>3
<1>5. Destroys(Served(ctx, destroy_instance(ctx, i)), Q)
  BY <1>1, <1>3
<1> QED
  BY <1>2, <1>4, <1>5, ServedDestroys

(***************************************************************************)
(* Swapchains that come.                                                   *)
(***************************************************************************)

\* The client's lists with a swapchain of these images.
ChainAdded(id, d, images) ==
    [Added(id, d) EXCEPT !.chains = Extended(@, {id}, images)]

\* A new swapchain is listed under its device and with its images.
LEMMA ChainAddedFacts ==
  ASSUME NEW id, NEW d, NEW images, DOMAIN client = {"proxies", "chains", "mapped"},
         id \notin Known, id \notin DOMAIN client.chains, NEW y, y = ChainAdded(id, d, images)
  PROVE  /\ DOMAIN y = {"proxies", "chains", "mapped"}
         /\ DOMAIN y.proxies = DOMAIN client.proxies \cup {id}
         /\ \A z \in DOMAIN client.proxies : y.proxies[z] = client.proxies[z]
         /\ y.proxies[id] = d /\ y.mapped = client.mapped
         /\ DOMAIN y.chains = DOMAIN client.chains \cup {id} /\ y.chains[id] = images
         /\ \A s \in DOMAIN client.chains : y.chains[s] = client.chains[s]
<1>1. PICK a : a = Added(id, d)
  OBVIOUS
<1>2. /\ DOMAIN a = {"proxies", "chains", "mapped"}
      /\ DOMAIN a.proxies = Known \cup {id}
      /\ \A x \in Known : a.proxies[x] = client.proxies[x]
      /\ a.proxies[id] = d
      /\ a.chains = client.chains /\ a.mapped = client.mapped
  BY <1>1, AddedFacts
<1>3. PICK e : e = Extended(client.chains, {id}, images)
  OBVIOUS
<1>4. y = [a EXCEPT !.chains = e]
  BY <1>1, <1>2, <1>3 DEF ChainAdded
<1>5. DOMAIN y = {"proxies", "chains", "mapped"} /\ y.proxies = a.proxies
      /\ y.chains = e /\ y.mapped = a.mapped
  BY <1>2, <1>4
<1>6. DOMAIN e = DOMAIN client.chains \cup {id} /\ e[id] = images
      /\ \A s \in DOMAIN client.chains : e[s] = client.chains[s]
  BY <1>3 DEF Extended
<1> QED
  BY <1>2, <1>5, <1>6 DEF Known

\* A context with a swapchain prepared on a device, and the new ids.
Prepared(c, x, d, id, images) ==
    /\ ~ Full(c, ChainImages + 1) /\ d \in OfType(c, "DEVICE") /\ c.present
    /\ images = FreshIds(c, "IMAGE", ChainImages) /\ id = Fresh(c, "SWAPCHAIN")
    /\ x = Whole(c, images, id, d)

\* The prepared swapchain and its proxy are in step.
LEMMA PreparedAgreed ==
  ASSUME NEW c, Agreed(c, client), NEW x, NEW d, NEW id, NEW images,
         Prepared(c, x, d, id, images)
  PROVE  /\ Agreed(x, ChainAdded(id, d, images)) /\ x.lost = c.lost
         /\ x.chain[id] = images /\ id \in DOMAIN x.chain
<1>1. ContextKnown(c) /\ InStep(c, client) /\ DOMAIN client = {"proxies", "chains", "mapped"}
  BY DEF Agreed
<1>2. PICK ids : ids = images \cup {id}
  OBVIOUS
<1>3. /\ Grown(c, x, ids, d) /\ ContextKnown(x)
      /\ ids \cap Taken(c) = {} /\ Type(id) = "SWAPCHAIN"
      /\ \A i \in images : Type(i) = "IMAGE"
      /\ DOMAIN x.chain = DOMAIN c.chain \cup {id} /\ x.chain[id] = images
      /\ \A s \in DOMAIN c.chain : x.chain[s] = c.chain[s]
  <2>1. ~ Full(c, ChainImages + 1) /\ d \in OfType(c, "DEVICE") /\ c.present
        /\ images = FreshIds(c, "IMAGE", ChainImages) /\ id = Fresh(c, "SWAPCHAIN")
        /\ x = Whole(c, images, id, d)
    BY DEF Prepared
  <2> QED
    BY <1>1, <1>2, <2>1, PreparedFacts
<1>4. id \notin DOMAIN client.proxies
  BY <1>1, <1>2, <1>3, NewToClient
<1>5. id \notin DOMAIN client.chains
  BY <1>1, <1>4 DEF InStep, ClientChainsKnown
<1>6. PICK y : y = ChainAdded(id, d, images)
  OBVIOUS
<1>7. /\ DOMAIN y = {"proxies", "chains", "mapped"}
      /\ DOMAIN y.proxies = DOMAIN client.proxies \cup {id}
      /\ \A z \in DOMAIN client.proxies : y.proxies[z] = client.proxies[z]
      /\ y.proxies[id] = d /\ y.mapped = client.mapped
      /\ DOMAIN y.chains = DOMAIN client.chains \cup {id} /\ y.chains[id] = images
      /\ \A s \in DOMAIN client.chains : y.chains[s] = client.chains[s]
  BY <1>1, <1>4, <1>5, <1>6, ChainAddedFacts DEF Known
<1>8. PICK N : N = {id}
  OBVIOUS
<1>9. N \subseteq ids /\ DOMAIN c.chain \subseteq DOMAIN x.chain
  BY <1>2, <1>3, <1>8
<1>10. \A z \in ids : Type(z) \in Borrowed \/ z \in N
                      \/ \E s \in N : Type(s) = "SWAPCHAIN" /\ z \in x.chain[s]
  BY <1>2, <1>3, <1>8
<1>11. \A s \in N : Type(s) = "SWAPCHAIN" =>
                      x.chain[s] \subseteq ids /\ x.chain[s] \cap N = {}
  BY <1>2, <1>3, <1>8
<1>12. DOMAIN y.proxies = DOMAIN client.proxies \cup N
  BY <1>7, <1>8
<1>13. \A z \in N : y.proxies[z] = ProxyParent(x, z)
  <2>1. x.table[id] = d
    BY <1>2, <1>3 DEF Grown
  <2> QED
    BY <1>3, <1>7, <1>8, <2>1 DEF ProxyParent
<1>14. DOMAIN y.chains = DOMAIN client.chains \cup {s \in N : Type(s) = "SWAPCHAIN"}
  BY <1>3, <1>7, <1>8
<1>15. \A s \in N : Type(s) = "SWAPCHAIN" => y.chains[s] = x.chain[s]
  BY <1>3, <1>7, <1>8
<1>16. \A z \in ids : Type(z) = "DEVICE" => d \in DOMAIN client.proxies
  BY <1>2, <1>3
<1>17. InStep(x, y)
  BY <1>1, <1>3, <1>7, <1>9, <1>10, <1>11, <1>12, <1>13, <1>14, <1>15, <1>16, StepGrown
<1>18. x.lost = c.lost /\ x.negotiated = TRUE
  BY <1>3 DEF Grown, Agreed
<1> QED
  BY <1>3, <1>6, <1>7, <1>17, <1>18 DEF Agreed

\* A prepared swapchain that is destroyed again leaves what was there before,
\* also when the device is lost meanwhile: the client never knew its ids.
LEMMA UndoneAgreed ==
  ASSUME NEW c, NEW cl, Agreed(c, cl), NEW x, NEW d, NEW id, NEW images,
         Prepared(c, x, d, id, images)
  PROVE  /\ Agreed(destroy_swapchain_metadata(x, {id}), cl)
         /\ destroy_swapchain_metadata(x, {id}).lost = c.lost
         /\ c.lost = {} => Agreed(LostFrom(x, {id}), cl)
<1>1. ContextKnown(c) /\ InStep(c, cl) /\ DOMAIN cl = {"proxies", "chains", "mapped"}
  BY DEF Agreed
<1>2. PICK ids : ids = images \cup {id}
  OBVIOUS
<1>3. /\ Grown(c, x, ids, d) /\ ContextKnown(x)
      /\ ids \cap Taken(c) = {} /\ Type(id) = "SWAPCHAIN"
      /\ \A i \in images : Type(i) = "IMAGE"
      /\ DOMAIN x.chain = DOMAIN c.chain \cup {id} /\ x.chain[id] = images
      /\ \A s \in DOMAIN c.chain : x.chain[s] = c.chain[s]
      /\ \A v \in Live(x) : x.table[v] \notin images
  <2>1. ~ Full(c, ChainImages + 1) /\ d \in OfType(c, "DEVICE") /\ c.present
        /\ images = FreshIds(c, "IMAGE", ChainImages) /\ id = Fresh(c, "SWAPCHAIN")
        /\ x = Whole(c, images, id, d)
    BY DEF Prepared
  <2> QED
    BY <1>1, <1>2, <2>1, PreparedFacts
<1>4. PICK ss : ss = {id}
  OBVIOUS
<1>5. ImagesOf(x, ss) = images /\ ss \subseteq DOMAIN x.chain /\ ss \cup ImagesOf(x, ss) = ids
  BY <1>2, <1>3, <1>4 DEF ImagesOf
<1>6. PICK g : g = destroy_swapchain_metadata(x, ss)
  OBVIOUS
<1>7. Without(x, g, ids, ss) /\ Closed(x, ids, ss) /\ ContextKnown(g)
  <2>1. \A v \in Live(x) : x.table[v] \notin ImagesOf(x, ss)
    BY <1>3, <1>5
  <2>2. /\ Without(x, g, ss \cup ImagesOf(x, ss), ss)
        /\ Closed(x, ss \cup ImagesOf(x, ss), ss) /\ ContextKnown(g)
    BY <1>3, <1>5, <1>6, <2>1, ChainsGone
  <2> QED
    BY <1>5, <2>2
<1>8. ids \cap Live(c) = {} /\ ids \cap c.lost = {}
  BY <1>1, <1>3, TakenFacts
<1>9. /\ Live(g) = Live(c) /\ \A k \in Live(c) : g.table[k] = c.table[k]
      /\ g.mirrored = c.mirrored /\ g.lost = c.lost /\ g.present = c.present
      /\ g.negotiated = c.negotiated
  BY <1>3, <1>7, <1>8 DEF Grown, Without
<1>10. DOMAIN g.chain = DOMAIN c.chain /\ \A s \in DOMAIN c.chain : g.chain[s] = c.chain[s]
  <2>1. id \notin DOMAIN c.chain
    BY <1>1, <1>2, <1>8 DEF ContextKnown, ChainsKnown, OfType
  <2> QED
    BY <1>3, <1>4, <1>7, <2>1 DEF Without
<1>11. InStep(g, cl)
  <2>1. c.lost \subseteq g.lost /\ (g.lost \ c.lost) \cap DOMAIN cl.proxies = {}
    BY <1>9
  <2> QED
    BY <1>1, <1>9, <1>10, <2>1, StepAlike
<1>12. Agreed(g, cl)
  BY <1>1, <1>7, <1>9, <1>11 DEF Agreed
<1>13. ASSUME c.lost = {} PROVE Agreed(LostFrom(x, ss), cl)
  <2>1. PICK h : h = LostFrom(x, ss)
    OBVIOUS
  <2>2. h = [g EXCEPT !.lost = ids] /\ DOMAIN g = DOMAIN NewContext
    BY <1>5, <1>6, <1>7, <2>1 DEF LostFrom, ContextKnown
  <2>3. /\ DOMAIN h = DOMAIN NewContext /\ h.table = g.table /\ h.native = g.native
        /\ h.meta = g.meta /\ h.bound = g.bound /\ h.mirrored = g.mirrored
        /\ h.early = g.early /\ h.lost = ids /\ h.negotiated = g.negotiated
        /\ h.present = g.present /\ h.chain = g.chain
    BY <2>2, ContextFields
  <2>4. Live(h) = Live(g)
    BY <2>3 DEF Live
  <2>5. ContextKnown(h)
    <3>1. Alike(g, h)
      BY <2>3 DEF Alike
    <3>2. IsFiniteSet(h.lost)
      <4>1. IsFiniteSet(Live(x)) /\ ids \in SUBSET Live(x)
        BY <1>3 DEF ContextKnown, TableKnown, Grown
      <4> QED
        BY <2>3, <4>1, FS_Subset
    <3>3. h.lost \cap Live(g) = {} /\ (g.present => h.present)
      BY <1>8, <1>9, <2>3
    <3>4. \A k \in h.lost : Type(k) \in ObjectTypes
      BY <1>3, <2>3 DEF ContextKnown, TableKnown, Grown
    <3>5. h.bound \subseteq OfType(g, "BUFFER") /\ h.mirrored \subseteq OfType(g, "DEVICE_MEMORY")
      BY <1>7, <2>3 DEF ContextKnown, NativesKnown
    <3> QED
      BY <1>7, <3>1, <3>2, <3>3, <3>4, <3>5, AlikeKnown
  <2>6. \A k \in ids : k \notin DOMAIN cl.proxies
    <3>1. \A k \in ids : k \notin Taken(c) /\ Type(k) # "SURFACE"
      BY <1>2, <1>3
    <3> QED
      BY <1>1, <3>1, NewToClient
  <2>7. InStep(h, cl)
    <3>1. c.lost \subseteq h.lost /\ (h.lost \ c.lost) \cap DOMAIN cl.proxies = {}
      BY <1>13, <2>3, <2>6
    <3>2. Live(h) = Live(c) /\ (\A k \in Live(c) : h.table[k] = c.table[k])
          /\ h.mirrored = c.mirrored
      BY <1>9, <2>3, <2>4
    <3>3. DOMAIN h.chain = DOMAIN c.chain
          /\ \A s \in DOMAIN c.chain : h.chain[s] = c.chain[s]
      BY <1>10, <2>3
    <3> QED
      BY <1>1, <3>1, <3>2, <3>3, StepAlike
  <2>8. h.negotiated = TRUE
    BY <1>9, <2>3 DEF Agreed
  <2> QED
    BY <1>1, <2>1, <2>5, <2>7, <2>8 DEF Agreed
<1> QED
  BY <1>4, <1>6, <1>9, <1>12, <1>13

\* A swapchain is prepared, or the context is the one before.
LEMMA PrepareOutcomes ==
  ASSUME NEW c, ContextKnown(c), c.present, NEW d, Type(d) = "DEVICE",
         NEW o \in prepare_swapchain(c, d)
  PROVE  \/ \E status \in {"REFUSED", "EIO"} : o \in Fails(c, status)
         \/ d \notin Live(c) /\ o \in Fails(c, "ENOENT")
         \/ \E x, id, images : /\ Prepared(c, x, d, id, images)
                               /\ o = Outcome(x, "SUCCESS", id)
<1>1. CASE Full(c, ChainImages + 1) \/ ~ swapchain_metadata_slot_free(c)
  BY <1>1 DEF prepare_swapchain, Refused
<1>2. CASE ~ (Full(c, ChainImages + 1) \/ ~ swapchain_metadata_slot_free(c))
           /\ d \notin Live(c)
  BY <1>2 DEF prepare_swapchain
<1>3. CASE ~ (Full(c, ChainImages + 1) \/ ~ swapchain_metadata_slot_free(c))
           /\ d \in Live(c)
  <2>1. resolve_physical_device(c, c.table[d]) = "SUCCESS"
    <3>1. c.table[d] \in Live(c) /\ Type(c.table[d]) = "PHYSICAL_DEVICE"
      BY <1>3, ParentFacts DEF ParentType
    <3>2. c.table[c.table[d]] \in Live(c)
      BY <3>1, ParentFacts
    <3> QED
      BY <3>1, <3>2 DEF resolve_physical_device
  <2>2. PICK images : images = FreshIds(c, "IMAGE", ChainImages)
    OBVIOUS
  <2>3. PICK id : id = Fresh(c, "SWAPCHAIN")
    OBVIOUS
  <2>4. PICK x : x = Whole(c, images, id, d)
    OBVIOUS
  <2>5. Prepared(c, x, d, id, images)
    BY <1>3, <2>2, <2>3, <2>4 DEF Prepared, OfType
  <2>6. o \in Refused(c) \cup Fails(c, "EIO") \cup {Outcome(x, "SUCCESS", id)}
    BY <1>3, <2>1, <2>2, <2>3, <2>4 DEF prepare_swapchain, Whole
  <2> QED
    BY <2>5, <2>6 DEF Refused
<1> QED
  BY <1>1, <1>2, <1>3

\* The client's lists after the creation of a swapchain.
ChainAfter(o, d) ==
    IF o.status # "SUCCESS" THEN client
    ELSE [Added(o.id, d) EXCEPT !.chains = Extended(@, {o.id}, o.ctx.chain[o.id])]

\* The swapchains the client gives back at once.
GivenBack(outcomes) ==
    {Outcome(x.ctx, "REFUSED", NoObject) :
       x \in UNION {answer_vulkan_swapchain_destroy(o.ctx, o.id) :
                      o \in {e \in outcomes : e.status = "SUCCESS"}}}

\* Preparing a swapchain has good outcomes only.
LEMMA PrepareGood ==
  ASSUME BridgeInv, link = "up", NEW d \in P("DEVICE"),
         NEW o \in answer_vulkan_swapchain_prepare(ctx, d)
  PROVE  /\ Good(ctx, o, ChainAfter(o, d))
         /\ o.status = "SUCCESS" =>
              \E x, id, images : /\ Prepared(ctx, x, d, id, images)
                                 /\ o = Outcome(x, "SUCCESS", id)
<1>1. Agreed(ctx, client) /\ ContextKnown(ctx) /\ d \in Known /\ Type(d) = "DEVICE"
      /\ Type(d) # "SURFACE"
  BY UpAgreed DEF Agreed, P
<1>2. ASSUME NEW status, o \in Fails(ctx, status), status # "SUCCESS",
             ctx.lost = {} => status \notin Disagreement
      PROVE  Good(ctx, o, ChainAfter(o, d)) /\ o.status # "SUCCESS"
  <2>1. o.ctx = ctx /\ o.status = status
    BY <1>2 DEF Fails, Outcome
  <2>2. ChainAfter(o, d) = client
    BY <1>2, <2>1 DEF ChainAfter
  <2> QED
    BY <1>1, <1>2, <2>1, <2>2, SameGood
<1>3. CASE ~ (ctx.negotiated /\ ctx.present)
  <2>1. o \in Fails(ctx, "EPROTO") /\ "EPROTO" # "SUCCESS"
    BY <1>3 DEF answer_vulkan_swapchain_prepare, Served
  <2>2. ctx.lost # {}
    BY <1>1, <1>3, ListedLive
  <2> QED
    BY <1>2, <2>1, <2>2
<1>4. CASE ctx.negotiated /\ ctx.present
  <2>1. \/ o \in Fails(ctx, "EAGAIN") \/ o \in prepare_swapchain(ctx, d)
        \/ \E e \in prepare_swapchain(ctx, d) :
             /\ e.status = "SUCCESS"
             /\ o = Outcome(destroy_swapchain_metadata(e.ctx, {e.id}), "EPIPE", NoObject)
    BY <1>4 DEF answer_vulkan_swapchain_prepare, Served
  <2>2. CASE o \in Fails(ctx, "EAGAIN")
    <3>1. "EAGAIN" # "SUCCESS"
      OBVIOUS
    <3> QED
      BY <1>2, <2>2, <3>1, Agreement
  <2>3. CASE o \in prepare_swapchain(ctx, d)
    <3>1. CASE \E status \in {"REFUSED", "EIO"} : o \in Fails(ctx, status)
      <4>1. PICK status \in {"REFUSED", "EIO"} : o \in Fails(ctx, status)
        BY <3>1
      <4>2. status # "SUCCESS" /\ status \notin Disagreement
        BY Agreement
      <4> QED
        BY <1>2, <4>1, <4>2
    <3>2. CASE d \notin Live(ctx) /\ o \in Fails(ctx, "ENOENT")
      <4>1. ctx.lost # {} /\ "ENOENT" # "SUCCESS"
        BY <1>1, <3>2, ListedLive
      <4> QED
        BY <1>2, <3>2, <4>1
    <3>3. CASE \E x, id, images : /\ Prepared(ctx, x, d, id, images)
                                  /\ o = Outcome(x, "SUCCESS", id)
      <4>1. PICK x, id, images : /\ Prepared(ctx, x, d, id, images)
                                 /\ o = Outcome(x, "SUCCESS", id)
        BY <3>3
      <4>2. o.ctx = x /\ o.id = id /\ o.status = "SUCCESS"
        BY <4>1 DEF Outcome
      <4>3. /\ Agreed(x, ChainAdded(id, d, images)) /\ x.lost = ctx.lost
            /\ x.chain[id] = images
        BY <1>1, <4>1, PreparedAgreed
      <4>4. ChainAfter(o, d) = ChainAdded(id, d, images)
        BY <4>2, <4>3 DEF ChainAfter, ChainAdded
      <4>5. Good(ctx, o, ChainAfter(o, d))
        BY <4>2, <4>3, <4>4, Agreement DEF Good
      <4> QED
        BY <3>3, <4>5
    <3> QED
      BY <1>1, <1>4, <2>3, <3>1, <3>2, <3>3, PrepareOutcomes
  <2>4. CASE \E e \in prepare_swapchain(ctx, d) :
             /\ e.status = "SUCCESS"
             /\ o = Outcome(destroy_swapchain_metadata(e.ctx, {e.id}), "EPIPE", NoObject)
    <3>1. PICK e \in prepare_swapchain(ctx, d) :
             /\ e.status = "SUCCESS"
             /\ o = Outcome(destroy_swapchain_metadata(e.ctx, {e.id}), "EPIPE", NoObject)
      BY <2>4
    <3>2. \A status \in {"REFUSED", "EIO", "ENOENT"} : e \notin Fails(ctx, status)
      BY <3>1 DEF Fails, Outcome
    <3>3. PICK x, id, images : Prepared(ctx, x, d, id, images) /\ e = Outcome(x, "SUCCESS", id)
      BY <1>1, <1>4, <3>2, PrepareOutcomes
    <3>4. e.ctx = x /\ e.id = id
      BY <3>3 DEF Outcome
    <3>5. o.ctx = destroy_swapchain_metadata(x, {id}) /\ o.status = "EPIPE"
      BY <3>1, <3>4 DEF Outcome
    <3>6. Agreed(o.ctx, client) /\ o.ctx.lost = ctx.lost
      BY <1>1, <3>3, <3>5, UndoneAgreed
    <3>7. ChainAfter(o, d) = client /\ o.status # "SUCCESS"
      BY <3>5 DEF ChainAfter
    <3> QED
      BY <3>5, <3>6, <3>7, Agreement DEF Good
  <2> QED
    BY <2>1, <2>2, <2>3, <2>4
<1> QED
  BY <1>3, <1>4

\* So has giving it back.
LEMMA GivenBackGood ==
  ASSUME BridgeInv, link = "up", NEW d \in P("DEVICE"),
         NEW o \in GivenBack(answer_vulkan_swapchain_prepare(ctx, d))
  PROVE  Good(ctx, o, ChainAfter(o, d))
<1>1. PICK e \in answer_vulkan_swapchain_prepare(ctx, d) :
        /\ e.status = "SUCCESS"
        /\ \E z \in answer_vulkan_swapchain_destroy(e.ctx, e.id) :
             o = Outcome(z.ctx, "REFUSED", NoObject)
  BY DEF GivenBack
<1>2. PICK z \in answer_vulkan_swapchain_destroy(e.ctx, e.id) :
        o = Outcome(z.ctx, "REFUSED", NoObject)
  BY <1>1
<1>3. PICK x, id, images : Prepared(ctx, x, d, id, images) /\ e = Outcome(x, "SUCCESS", id)
  BY <1>1, PrepareGood
<1>4. e.ctx = x /\ e.id = id
  BY <1>3 DEF Outcome
<1>5. Agreed(ctx, client)
  BY UpAgreed
<1>6. Agreed(x, ChainAdded(id, d, images)) /\ x.lost = ctx.lost /\ x.chain[id] = images
      /\ id \in DOMAIN x.chain
  BY <1>3, <1>5, PreparedAgreed
<1>7. x.negotiated /\ x.present
  <2>1. id \in Live(x)
    BY <1>6 DEF Agreed, ContextKnown, ChainsKnown, OfType
  <2>2. x.present
    BY <1>6, <2>1 DEF Agreed, ContextKnown, TableKnown
  <2> QED
    BY <1>6, <2>2 DEF Agreed
<1>8. z \in destroy_swapchain(x, id)
  BY <1>4, <1>7 DEF answer_vulkan_swapchain_destroy, Served
<1>9. \/ z \in Succeeds(destroy_swapchain_metadata(x, {id}))
      \/ x.lost = {} /\ z \in Fails(LostFrom(x, {id}), "EIO")
  <2>1. ImagesOf(x, {id}) = x.chain[id]
    BY DEF ImagesOf
  <2> QED
    BY <1>6, <1>8, <2>1 DEF destroy_swapchain, LostFrom
<1>10. o.ctx = z.ctx /\ o.status = "REFUSED"
  BY <1>2 DEF Outcome
<1>11. ChainAfter(o, d) = client
  BY <1>10 DEF ChainAfter
<1>12. CASE z \in Succeeds(destroy_swapchain_metadata(x, {id}))
  <2>1. o.ctx = destroy_swapchain_metadata(x, {id})
    BY <1>10, <1>12 DEF Succeeds, Fails, Outcome
  <2>2. Agreed(o.ctx, client) /\ o.ctx.lost = ctx.lost
    BY <1>3, <1>5, <2>1, UndoneAgreed
  <2> QED
    BY <1>10, <1>11, <2>2, Agreement DEF Good
<1>13. CASE x.lost = {} /\ z \in Fails(LostFrom(x, {id}), "EIO")
  <2>1. o.ctx = LostFrom(x, {id})
    BY <1>10, <1>13 DEF Fails, Outcome
  <2>2. ctx.lost = {}
    BY <1>6, <1>13
  <2>3. Agreed(LostFrom(x, {id}), client)
    BY <1>3, <1>5, <2>2, UndoneAgreed
  <2>4. Agreed(o.ctx, client)
    BY <2>1, <2>3
  <2> QED
    BY <1>10, <1>11, <2>2, <2>4, Agreement DEF Good
<1> QED
  BY <1>9, <1>12, <1>13

\* The creation of a swapchain.
LEMMA CreateSwapchainCall ==
  ASSUME BridgeInv, vkCreateSwapchainKHR
  PROVE  BridgeInv'
<1>1. PICK d \in P("DEVICE") :
        \E o \in answer_vulkan_swapchain_prepare(ctx, d)
                   \cup GivenBack(answer_vulkan_swapchain_prepare(ctx, d)) :
          Exchange(o, ChainAfter(o, d))
  BY DEF vkCreateSwapchainKHR, GivenBack, ChainAfter
<1>2. PICK o \in answer_vulkan_swapchain_prepare(ctx, d)
                   \cup GivenBack(answer_vulkan_swapchain_prepare(ctx, d)) :
          Exchange(o, ChainAfter(o, d))
  BY <1>1
<1>3. link = "up"
  BY <1>2 DEF Exchange
<1>4. Good(ctx, o, ChainAfter(o, d))
  BY <1>3, PrepareGood, GivenBackGood
<1> QED
  BY <1>2, <1>4, ExchangeKeeps
(***************************************************************************)
(* The theorems.                                                           *)
(***************************************************************************)

\* The service has nothing and the client lists nothing: they agree.
LEMMA InitKnown ==
  ASSUME Init
  PROVE  BridgeInv
<1>1. /\ ctx.table = <<>> /\ ctx.native = <<>> /\ ctx.chain = <<>>
      /\ ctx.meta = {} /\ ctx.bound = {} /\ ctx.mirrored = {}
      /\ ctx.lost = {} /\ ctx.early = {} /\ DOMAIN ctx = DOMAIN NewContext
  BY DEF Init, NewContext
<1>2. /\ Live(ctx) = {} /\ DOMAIN ctx.native = {} /\ DOMAIN ctx.chain = {}
      /\ IsFiniteSet(Live(ctx)) /\ Cardinality(Live(ctx)) = 0 /\ IsFiniteSet(ctx.lost)
  BY <1>1, FS_EmptySet DEF Live
<1>3. TableKnown(ctx)
  BY <1>1, <1>2, ServiceObjectsAssumption DEF TableKnown
<1>4. NativesKnown(ctx) /\ ChainsKnown(ctx)
  BY <1>1, <1>2 DEF NativesKnown, ChainsKnown, OfType
<1>5. client.proxies = <<>> /\ client.chains = <<>> /\ client.mapped = {}
      /\ DOMAIN client = {"proxies", "chains", "mapped"}
  BY DEF Init
<1>6. DOMAIN client.proxies = {} /\ DOMAIN client.chains = {}
  BY <1>5
<1>7. InStep(ctx, client)
  BY <1>1, <1>2, <1>5, <1>6
     DEF InStep, ListsKnown, ClientChainsKnown, PhysicalsListed, OfType
<1> QED
  BY <1>1, <1>3, <1>4, <1>5, <1>7 DEF Init, BridgeInv, ContextKnown, Known

\* Every call, and every end of the connection, keeps the invariant.
LEMMA NextKeeps ==
  ASSUME BridgeInv, [Next]_vars
  PROVE  BridgeInv'
<1>1. CASE connect_locked
  BY <1>1, ConnectCall
<1>2. CASE Disconnect
  BY <1>2, DisconnectCall
<1>3. CASE \/ vkEnumerateInstanceVersion
           \/ vkEnumerateInstanceExtensionProperties \/ vkCreateInstance
  BY <1>3, FirstCalls
<1>4. CASE \/ vkEnumeratePhysicalDevices \/ vkGetDeviceQueue
  BY <1>4, BorrowedCalls
<1>5. CASE vkDestroyInstance
  BY <1>5, DestroyInstanceCall
<1>6. CASE \/ create_virtual_surface \/ vkDestroySurfaceKHR
  BY <1>6, SurfaceCalls
<1>7. CASE \/ vkGetPhysicalDeviceProperties
           \/ vkGetPhysicalDeviceQueueFamilyProperties
           \/ vkGetPhysicalDeviceMemoryProperties
           \/ vkEnumerateDeviceExtensionProperties
           \/ vkGetPhysicalDeviceFeatures \/ vkGetPhysicalDeviceFeatures2
           \/ vkGetPhysicalDeviceFormatProperties
           \/ vkGetPhysicalDeviceImageFormatProperties
           \/ vkGetPhysicalDeviceExternalBufferProperties
           \/ vkGetPhysicalDeviceExternalSemaphoreProperties
           \/ vkGetPhysicalDeviceSurfaceCapabilitiesKHR
  BY <1>7, PhysicalQueries
<1>8. CASE \/ vkCreateDevice \/ vkCreateCommandPool
           \/ vkAllocateCommandBuffers
  BY <1>8, ParentCalls
<1>9. CASE vkDestroyDevice
  BY <1>9, DestroyDeviceCall
<1>10. CASE \/ vkDeviceWaitIdle \/ queue_result_operation
            \/ vkResetCommandPool \/ vkBeginCommandBuffer
            \/ vkEndCommandBuffer \/ vkGetQueryPoolResults \/ vkResetQueryPool
            \/ vkGetBufferMemoryRequirements
            \/ vkGetDeviceBufferMemoryRequirements
            \/ vkGetBufferMemoryRequirements2 \/ vkGetBufferDeviceAddress
            \/ bvb_verify_memory_fill \/ vkGetImageMemoryRequirements
            \/ vkGetImageMemoryRequirements2 \/ fence_result_operation
            \/ vkWaitForFences \/ vkGetSemaphoreCounterValue
  BY <1>10, ObjectQueries
<1>11. CASE \/ vkDestroyCommandPool \/ vkDestroyDescriptorPool
  BY <1>11, PoolCalls
<1>12. CASE vkFreeCommandBuffers
  BY <1>12, FreeCommandBufferCall
<1>13. CASE vkResetDescriptorPool
  BY <1>13, ResetPoolCall
<1>14. CASE vkAllocateDescriptorSets
  BY <1>14, AllocateSetsCall
<1>15. CASE \/ vkCreateDescriptorPool \/ vkCreateQueryPool \/ vkCreateSampler
            \/ vkCreateBuffer \/ vkCreateImage \/ vkCreateFence
            \/ vkCreateSemaphore
  BY <1>15, PlainCreations
<1>16. CASE \/ vkCreateDescriptorSetLayout \/ vkCreateDescriptorUpdateTemplate
            \/ vkCreatePipelineLayout \/ vkCreateGraphicsPipelines
            \/ create_dxvk_builtin_blit_pipeline \/ vkAllocateMemory
  BY <1>16, CompoundCreations
<1>17. CASE \/ vkDestroyDescriptorSetLayout \/ vkDestroyQueryPool
            \/ vkDestroySampler \/ vkDestroyDescriptorUpdateTemplate
            \/ vkDestroyPipelineLayout \/ vkDestroyPipeline \/ vkDestroyBuffer
            \/ vkDestroyFence \/ vkDestroySemaphore \/ vkDestroyImageView
  BY <1>17, LeafCalls
<1>18. CASE \/ vkUpdateDescriptorSets \/ vkUpdateDescriptorSetWithTemplate
  BY <1>18, UpdateCalls
<1>19. CASE vkMapMemory
  BY <1>19, MapCall
<1>20. CASE vkUnmapMemory
  BY <1>20, UnmapCall
<1>21. CASE vkFreeMemory
  BY <1>21, FreeMemoryCall
<1>22. CASE vkBindBufferMemory
  BY <1>22, BindBufferCall
<1>23. CASE vkDestroyImage
  BY <1>23, DestroyImageCall
<1>24. CASE vkBindImageMemory
  BY <1>24, BindImageCall
<1>25. CASE vkCreateImageView
  BY <1>25, ImageViewCreation
<1>26. CASE \/ vkCmdFillBuffer \/ vkCmdPipelineBarrier2
            \/ vkCmdClearColorImage \/ vkCmdBindDescriptorSets
            \/ submit_single_render_record
  BY <1>26, RecordingCalls
<1>27. CASE \/ vkSignalSemaphore \/ vkWaitSemaphores
  BY <1>27, SemaphoreCalls
<1>28. CASE \/ vkQueueSubmit \/ vkQueueSubmit2
  BY <1>28, SubmitCalls
<1>29. CASE vkCreateSwapchainKHR
  BY <1>29, CreateSwapchainCall
<1>30. CASE vkDestroySwapchainKHR
  BY <1>30, DestroySwapchainCall
<1>31. CASE \/ vkAcquireNextImageKHR \/ vkQueuePresentKHR
  BY <1>31, FrameCalls
<1>32. CASE UNCHANGED vars
  <2>1. client' = client /\ UNCHANGED <<ctx, link, refusals, menu>>
    BY <1>32 DEF vars
  <2> QED
    BY <2>1, SurfaceKeeps DEF BridgeInv, Known
<1> QED
  BY <1>1, <1>2, <1>3, <1>4, <1>5, <1>6, <1>7, <1>8, <1>9, <1>10, <1>11,
     <1>12, <1>13, <1>14, <1>15, <1>16, <1>17, <1>18, <1>19, <1>20, <1>21,
     <1>22, <1>23, <1>24, <1>25, <1>26, <1>27, <1>28, <1>29, <1>30, <1>31,
     <1>32 DEF Next

\* What the client lists is what the service has.
LEMMA ListsMirror ==
  ASSUME BridgeInv
  PROVE  ClientMirrors
<1> SUFFICES ASSUME link = "up"
             PROVE  LET named == (Known \ P("SURFACE")) \cup UNION Range(client.chains)
                    IN  /\ named \ ctx.lost \subseteq Live(ctx)
                        /\ {id \in Live(ctx) : Type(id) \notin Borrowed} \subseteq named
                        /\ client.mapped = ctx.mirrored
  BY DEF ClientMirrors
<1>1. ContextKnown(ctx) /\ InStep(ctx, client)
  BY DEF BridgeInv
<1>2. ListsKnown(ctx, client) /\ ClientChainsKnown(ctx, client)
  BY <1>1 DEF InStep
<1>3. ASSUME NEW id \in Known \ P("SURFACE"), id \notin ctx.lost
      PROVE  id \in Live(ctx)
  BY <1>2, <1>3 DEF ListsKnown, Known, P
<1>4. ASSUME NEW i \in UNION Range(client.chains), i \notin ctx.lost
      PROVE  i \in Live(ctx)
  <2>1. PICK s \in DOMAIN client.chains : i \in client.chains[s]
    BY DEF Range
  <2>2. s \in Known /\ Type(s) = "SWAPCHAIN" /\ s \notin ctx.lost
        /\ client.chains[s] = ctx.chain[s]
    BY <1>2, <1>4, <2>1 DEF ClientChainsKnown, Known
  <2>3. s \in Live(ctx)
    BY <1>2, <2>2 DEF ListsKnown, Known
  <2>4. s \in DOMAIN ctx.chain
    BY <1>1, <2>2, <2>3 DEF ContextKnown, ChainsKnown, OfType
  <2> QED
    BY <1>1, <2>1, <2>2, <2>4 DEF ContextKnown, ChainsKnown, OfType
<1>5. ASSUME NEW id \in Live(ctx), Type(id) \notin Borrowed
      PROVE  id \in (Known \ P("SURFACE")) \cup UNION Range(client.chains)
  <2>1. Type(id) # "SURFACE"
    BY <1>1 DEF ContextKnown, TableKnown, ObjectTypes, DeviceChildren, Pools
  <2>2. \/ id \in DOMAIN client.proxies
        \/ \E s \in DOMAIN client.chains : id \in client.chains[s]
    BY <1>2, <1>5 DEF ListsKnown
  <2> QED
    BY <2>1, <2>2 DEF Known, P, Range
<1>6. client.mapped = ctx.mirrored
  BY <1>2 DEF ListsKnown
<1> QED
  BY <1>3, <1>4, <1>5, <1>6

\* The table, the native objects and the records are one.
LEMMA TableExact ==
  ASSUME BridgeInv
  PROVE  TableIsExact
<1>1. CASE link = "closed"
  <2>1. Leftover(ctx)
    BY <1>1 DEF BridgeInv
  <2> QED
    BY <1>1, <2>1 DEF BridgeInv, TableIsExact, TypeOK, Leftover
<1>2. CASE link # "closed"
  <2>1. ContextKnown(ctx)
    BY <1>2 DEF BridgeInv
  <2>2. /\ Cardinality(Live(ctx)) <= Capacity
        /\ \A id \in Live(ctx) : Type(id) \in ObjectTypes
    BY <2>1 DEF ContextKnown, TableKnown
  <2>3. /\ DOMAIN ctx.native = {id \in Live(ctx) : Type(id) \notin Borrowed}
        /\ ctx.meta = {id \in Live(ctx) : Type(id) \in Described}
    BY <2>1 DEF ContextKnown, NativesKnown
  <2>4. ctx.bound \cup ctx.mirrored \subseteq DOMAIN ctx.native
    BY <2>1 DEF ContextKnown, NativesKnown, OfType, Borrowed
  <2> QED
    BY <2>2, <2>3, <2>4 DEF BridgeInv, TableIsExact, TypeOK
<1> QED
  BY <1>1, <1>2

\* Parents are alive, and none died before a child but at the end.
LEMMA InOrder ==
  ASSUME BridgeInv
  PROVE  DiesInOrder
<1>1. CASE link = "closed"
  <2>1. Leftover(ctx)
    BY <1>1 DEF BridgeInv
  <2> QED
    BY <1>1, <2>1 DEF Leftover, DiesInOrder
<1>2. CASE link # "closed"
  <2>1. ContextKnown(ctx)
    BY <1>2 DEF BridgeInv
  <2> QED
    BY <1>2, <2>1 DEF ContextKnown, TableKnown, NativesKnown, DiesInOrder
<1> QED
  BY <1>1, <1>2

\* Whatever the application calls in whatever order, and wherever the
\* connection breaks: the service's table stays a forest that its native
\* objects, records and swapchains agree with, and the client's lists follow it.
THEOREM BridgeInvariant == Spec => []BridgeInv
<1>1. Init => BridgeInv
  BY InitKnown
<1>2. BridgeInv /\ [Next]_vars => BridgeInv'
  BY NextKeeps
<1> QED
  BY <1>1, <1>2, PTL DEF Spec

\* global_dispatch.c changes its proxies only on the service's answer: while
\* the connection works the client lists no object that the service has
\* forgotten and the service keeps none that the client cannot destroy.
THEOREM ClientMirrorsHolds == Spec => []ClientMirrors
<1>1. BridgeInv => ClientMirrors
  BY ListsMirror
<1> QED
  BY <1>1, BridgeInvariant, PTL

\* vulkan_global.c inserts, rolls back and removes table entries, native
\* objects and metadata records together, whichever of its steps fails.
THEOREM TableIsExactHolds == Spec => []TableIsExact
<1>1. BridgeInv => TableIsExact
  BY TableExact
<1> QED
  BY <1>1, BridgeInvariant, PTL

\* Every destruction an application asks of vulkan_global.c takes the children
\* before the parent, and leaves no entry whose parent is gone; the teardown at
\* the end of a --once connection destroys only devices and swapchain images
\* over what they still own.
THEOREM DiesInOrderHolds == Spec => []DiesInOrder
<1>1. BridgeInv => DiesInOrder
  BY InOrder
<1> QED
  BY <1>1, BridgeInvariant, PTL

\* The checks the client makes on its proxies before a request are enough for
\* the service's own lookups to succeed, until a device is lost.
THEOREM RequestsAcceptedHolds == Spec => []RequestsAccepted
<1>1. BridgeInv => RequestsAccepted
  BY DEF BridgeInv, RequestsAccepted
<1> QED
  BY <1>1, BridgeInvariant, PTL
=============================================================================
