--------------------------- MODULE ServiceObjects ---------------------------
(***************************************************************************)
(* The objects the service owns on behalf of one connection                *)
(* (vulkan_global.c): the handle table of wire ids and their parents, the  *)
(* metadata kept beside it, and the native objects behind the ids.  Every  *)
(* operator is one bvb_vulkan_global_context_* function, named without the *)
(* prefix; it takes the context and returns the set of its possible        *)
(* outcomes, since the driver may refuse.  What a request says about       *)
(* formats, sizes and features decides only between SUCCESS and REFUSED.   *)
(***************************************************************************)
EXTENDS Naturals, Sequences, FiniteSets, FiniteSetsExt, Functions

CONSTANTS
    Capacity,        \* BVB_GLOBAL_OBJECT_CAPACITY
    TemplateSlots,   \* slots for update template metadata
    SwapchainSlots,  \* slots for swapchain metadata
    ChainImages      \* images of a swapchain

ASSUME ServiceObjectsAssumption ==
    Capacity \in Nat /\ TemplateSlots \in Nat /\ SwapchainSlots \in Nat
    /\ ChainImages \in Nat \ {0}

\* A wire id carries the type of its object and a serial number.
Type(id) == id[1]
NoObject == <<"NONE", 0>>

Pools == {"COMMAND_POOL", "DESCRIPTOR_POOL"}
DeviceChildren == Pools \cup
    {"QUEUE", "DESCRIPTOR_SET_LAYOUT", "UPDATE_TEMPLATE", "QUERY_POOL",
     "SAMPLER", "PIPELINE_LAYOUT", "PIPELINE", "BUFFER", "DEVICE_MEMORY",
     "IMAGE", "FENCE", "SEMAPHORE", "SWAPCHAIN"}
ObjectTypes == DeviceChildren \cup
    {"INSTANCE", "PHYSICAL_DEVICE", "DEVICE", "COMMAND_BUFFER",
     "DESCRIPTOR_SET", "IMAGE_VIEW"}

\* Types whose native handle belongs to its parent and is never destroyed.
Borrowed == {"PHYSICAL_DEVICE", "QUEUE"}

\* Types that keep a metadata record beside the table entry.
Described == {"DEVICE", "BUFFER", "DEVICE_MEMORY", "IMAGE", "QUERY_POOL",
              "UPDATE_TEMPLATE", "SEMAPHORE", "SWAPCHAIN"}

NewContext ==
    [negotiated |-> FALSE, \* HELLO was answered on this connection
     present  |-> FALSE,   \* the global context was created
     table    |-> <<>>,    \* wire id -> wire id of its parent
     native   |-> <<>>,    \* ids whose native object exists -> its parent
     meta     |-> {},      \* ids with a metadata record
     bound    |-> {},      \* buffers whose record says memory_bound
     mirrored |-> {},      \* memories with an active memory_mirrors entry
     chain    |-> <<>>,    \* swapchain -> its images
     lost     |-> {},      \* ids removed by a call that answered an error
     early    |-> {}]      \* types destroyed before a native child of theirs

Live(c) == DOMAIN c.table
OfType(c, type) == {id \in Live(c) : Type(id) = type}
ChildrenOf(c, parent) == {id \in Live(c) : c.table[id] = parent}
Full(c, n) == Cardinality(Live(c)) + n > Capacity

\* The serials count up and never repeat; any unused one stands for the next.
Taken(c) == Live(c) \cup DOMAIN c.native \cup c.lost \cup Range(c.table)
              \cup UNION Range(c.chain)
LastSerial(c) == Capacity + Cardinality(c.lost) + 1
Unused(c, type, last) == {n \in 1..last : <<type, n>> \notin Taken(c)}

Fresh(c, type) == <<type, Min(Unused(c, type, LastSerial(c)))>>

\* The ids of the next k objects of a type.
FreshIds(c, type, k) ==
    LET last == CHOOSE n \in 1..LastSerial(c) :
                  Cardinality(Unused(c, type, n)) = k
    IN  {<<type, n>> : n \in Unused(c, type, last)}

\* f with the value v for the new elements S of its domain.
Extended(f, S, v) ==
    [x \in DOMAIN f \cup S |-> IF x \in DOMAIN f THEN f[x] ELSE v]

Outcome(c, status, id) == [ctx |-> c, status |-> status, id |-> id]
Fails(c, status) == {Outcome(c, status, NoObject)}
Refused(c) == Fails(c, "REFUSED")
Succeeds(c) == Fails(c, "SUCCESS")

-----------------------------------------------------------------------------
(* Looking ids up.                                                         *)

resolve_device_child(c, id) == id \in Live(c) /\ c.table[id] \in Live(c)

\* The device of a device's child, of a pool's child or of an image's view.
DeviceOf(c, id) ==
    LET parent == c.table[id]
    IN  IF Type(parent) = "DEVICE" THEN parent
        ELSE IF parent \in Live(c) THEN c.table[parent] ELSE NoObject

\* Every id is in the table, with its parents, and belongs to device d.
Resolved(c, d, ids) ==
    IF \/ ~ ({d} \cup ids \subseteq Live(c))
       \/ \E id \in ids : DeviceOf(c, id) \notin Live(c)
    THEN "ENOENT"
    ELSE IF \E id \in ids : DeviceOf(c, id) # d THEN "EPROTO" ELSE "SUCCESS"

resolve_physical_device(c, p) ==
    IF p \in Live(c) /\ c.table[p] \in Live(c) THEN "SUCCESS" ELSE "ENOENT"

resolve_queue(c, q) ==
    IF resolve_device_child(c, q) THEN "SUCCESS" ELSE "ENOENT"

resolve_command_pool(c, pool) ==
    IF resolve_device_child(c, pool) THEN "SUCCESS" ELSE "ENOENT"

resolve_command_buffer(c, cb) ==
    IF resolve_device_child(c, cb) THEN resolve_command_pool(c, c.table[cb])
    ELSE "ENOENT"

\* A metadata record exists for the id (the *_metadata_slot functions).
device_metadata_slot(c, d) == d \in c.meta
query_pool_metadata_find(c, q) == q \in c.meta
image_metadata_slot(c, i) == i \in c.meta
buffer_metadata_find(c, b) == b \in c.meta
descriptor_template_slot_free(c) ==
    Cardinality({t \in c.meta : Type(t) = "UPDATE_TEMPLATE"}) < TemplateSlots
swapchain_metadata_slot_free(c) == Cardinality(DOMAIN c.chain) < SwapchainSlots
command_buffer_is_live(c, cb) == resolve_command_buffer(c, cb) = "SUCCESS"

-----------------------------------------------------------------------------
(* Making and removing objects.                                            *)

Made(c, ids, parent) ==
    [c EXCEPT !.table = Extended(@, ids, parent),
              !.native = Extended(@, {x \in ids : Type(x) \notin Borrowed}, parent),
              !.meta = @ \cup {x \in ids : Type(x) \in Described}]

\* The native object is created and then entered in the table; when that
\* fails it is destroyed again and the reply is VK_ERROR_TOO_MANY_OBJECTS.
Created(c, type, parent) ==
    LET id == Fresh(c, type)
    IN  Refused(c) \cup
        IF Full(c, 1) THEN {} ELSE {Outcome(Made(c, {id}, parent), "SUCCESS", id)}

\* A creator whose request names device d and other objects it uses.
CreatedFrom(c, type, d, uses) ==
    LET status == Resolved(c, d, uses)
    IN  IF status = "SUCCESS" THEN Created(c, type, d) ELSE Fails(c, status)

Forgotten(c, ids) ==
    [c EXCEPT !.table = Restrict(@, Live(c) \ ids),
              !.meta = @ \ ids, !.bound = @ \ ids]

\* Objects of one type, in any order: none is the parent of another.
\* Destroying a native object frees what a pool allocated from it; any other
\* native child still alive was destroyed too late.
NativelyDestroyed(c, ids) ==
    LET children == {k \in DOMAIN c.native : c.native[k] \in ids}
        freed == {k \in children : Type(c.native[k]) \in Pools}
    IN  [c EXCEPT !.native = Restrict(@, DOMAIN @ \ (ids \cup freed)),
                  !.early = @ \cup {Type(c.native[k]) : k \in children \ freed}]

\* The table entry first, then the metadata, then the native object.
Destroyed(c, ids) == NativelyDestroyed(Forgotten(c, ids), ids)

DestroyedChild(c, id) ==
    IF resolve_device_child(c, id) THEN Succeeds(Destroyed(c, {id}))
    ELSE Fails(c, "ENOENT")

\* A call that uses live objects of one device and changes no ownership; the
\* driver's own result travels in the reply.
Used(c, status) == Fails(c, status)
UsedOf(c, d, ids) == Used(c, Resolved(c, d, ids))

-----------------------------------------------------------------------------
(* Instances and physical devices.                                         *)

info(c) == Succeeds(c)
enumerate_instance_extensions(c) == Succeeds(c)

create_instance(c) ==
    IF Full(c, 1) THEN Refused(c)
    ELSE Fails(c, "EIO") \cup Created(c, "INSTANCE", NoObject)

existing_physical_device_id(c, instance) ==
    {p \in ChildrenOf(c, instance) : Type(p) = "PHYSICAL_DEVICE"}

\* The driver has one physical device; it keeps the id it was given first.
enumerate_physical_devices(c, instance) ==
    IF instance \notin Live(c) THEN Fails(c, "ENOENT")
    ELSE Fails(c, "EIO") \cup Refused(c) \cup
         LET old == existing_physical_device_id(c, instance)
             id == Fresh(c, "PHYSICAL_DEVICE")
         IN  IF old # {} THEN {Outcome(c, "SUCCESS", p) : p \in old}
             ELSE IF Full(c, 1) THEN Fails(c, "ENOSPC")
             ELSE {Outcome(Made(c, {id}, instance), "SUCCESS", id)}

\* The queries about a physical device differ in what they return.
get_physical_device_properties(c, p) == Used(c, resolve_physical_device(c, p))
get_queue_family_properties(c, p) == Used(c, resolve_physical_device(c, p))
get_memory_properties(c, p) == Used(c, resolve_physical_device(c, p))
enumerate_device_extensions(c, p) == Used(c, resolve_physical_device(c, p))
get_physical_device_features(c, p) == Used(c, resolve_physical_device(c, p))
get_core_features(c, p) == Used(c, resolve_physical_device(c, p))
get_format_properties(c, p) == Used(c, resolve_physical_device(c, p))
get_format_properties_3(c, p) == Used(c, resolve_physical_device(c, p))
get_image_format_properties(c, p) == Used(c, resolve_physical_device(c, p))
get_external_buffer_properties(c, p) == Used(c, resolve_physical_device(c, p))
get_external_semaphore_properties(c, p) ==
    Used(c, resolve_physical_device(c, p))

-----------------------------------------------------------------------------
(* Devices and queues.                                                     *)

create_device_packed(c, p) ==
    IF resolve_physical_device(c, p) # "SUCCESS" THEN Fails(c, "ENOENT")
    ELSE Created(c, "DEVICE", p)

existing_queue_id(c, d) == {q \in ChildrenOf(c, d) : Type(q) = "QUEUE"}

get_device_queue(c, d) ==
    IF d \notin Live(c) \/ ~ device_metadata_slot(c, d) THEN Fails(c, "ENOENT")
    ELSE LET old == existing_queue_id(c, d)
             id == Fresh(c, "QUEUE")
         IN  IF old # {} THEN {Outcome(c, "SUCCESS", q) : q \in old}
             ELSE IF Full(c, 1) THEN Fails(c, "ENOSPC")
             ELSE {Outcome(Made(c, {id}, d), "SUCCESS", id)}

queue_submit_empty(c, q) == Used(c, resolve_queue(c, q))
queue_wait_idle(c, q) == Used(c, resolve_queue(c, q))
device_wait_idle(c, d) == UsedOf(c, d, {})

-----------------------------------------------------------------------------
(* Command pools and command buffers.                                      *)

create_command_pool(c, d) ==
    IF d \notin Live(c) \/ ~ device_metadata_slot(c, d) THEN Fails(c, "ENOENT")
    ELSE Created(c, "COMMAND_POOL", d)

\* Mutant: the pool is destroyed and its command buffers keep their ids.
destroy_pool_only(c, pool) == Succeeds(Destroyed(c, {pool}))

destroy_command_pool(c, pool) ==
    IF resolve_command_pool(c, pool) # "SUCCESS" THEN Fails(c, "ENOENT")
    ELSE Succeeds(Destroyed(Forgotten(c, ChildrenOf(c, pool)), {pool}))

reset_command_pool(c, pool) == Used(c, resolve_command_pool(c, pool))

allocate_command_buffer(c, pool) ==
    IF resolve_command_pool(c, pool) # "SUCCESS" THEN Fails(c, "ENOENT")
    ELSE Created(c, "COMMAND_BUFFER", pool)

free_command_buffer(c, pool, cb) ==
    IF cb \notin Live(c) THEN Fails(c, "ENOENT")
    ELSE IF c.table[cb] # pool THEN Fails(c, "EPROTO")
    ELSE IF resolve_command_pool(c, pool) # "SUCCESS" THEN Fails(c, "ENOENT")
    ELSE Succeeds(Destroyed(c, {cb}))

begin_command_buffer(c, cb) == Used(c, resolve_command_buffer(c, cb))
end_command_buffer(c, cb) == Used(c, resolve_command_buffer(c, cb))

-----------------------------------------------------------------------------
(* Descriptors, queries and samplers.                                      *)

create_descriptor_set_layout(c, d, samplers) ==
    CreatedFrom(c, "DESCRIPTOR_SET_LAYOUT", d, samplers)
destroy_descriptor_set_layout(c, id) == DestroyedChild(c, id)

\* The record's slot is sought after the insertion, which is then undone.
create_descriptor_update_template(c, d, layout) ==
    LET status == Resolved(c, d, {layout})
    IN  IF status # "SUCCESS" THEN Fails(c, status)
        ELSE IF ~ descriptor_template_slot_free(c) THEN Refused(c)
        ELSE Created(c, "UPDATE_TEMPLATE", d)
destroy_descriptor_update_template(c, id) == DestroyedChild(c, id)

\* A view belongs to the device its image belongs to.
descriptor_template_resolve_image_view(c, d, v) == Resolved(c, d, {v})

update_descriptor_set_with_template(c, d, set, template, views, others) ==
    LET status == Resolved(c, d, {set, template} \cup others)
        wrong == {v \in views : descriptor_template_resolve_image_view(c, d, v)
                                  # "SUCCESS"}
    IN  IF status = "SUCCESS" /\ wrong # {}
        THEN {Outcome(c, descriptor_template_resolve_image_view(c, d, v),
                      NoObject) : v \in wrong}
        ELSE Used(c, status)

create_descriptor_pool(c, d) == CreatedFrom(c, "DESCRIPTOR_POOL", d, {})

destroy_descriptor_pool(c, pool) ==
    IF ~ resolve_device_child(c, pool) THEN Fails(c, "ENOENT")
    ELSE Succeeds(Destroyed(Forgotten(c, ChildrenOf(c, pool)), {pool}))

create_query_pool(c, d) == CreatedFrom(c, "QUERY_POOL", d, {})
destroy_query_pool(c, id) == DestroyedChild(c, id)

get_query_pool_results(c, q) ==
    IF ~ query_pool_metadata_find(c, q) THEN Fails(c, "EPROTO")
    ELSE UsedOf(c, DeviceOf(c, q), {q})
reset_query_pool(c, q) ==
    IF ~ query_pool_metadata_find(c, q) THEN Fails(c, "EPROTO")
    ELSE UsedOf(c, DeviceOf(c, q), {q})

\* Mutant: the sets of a reset pool keep their table entries.
reset_keeps_entries(c, pool) ==
    IF ~ resolve_device_child(c, pool) THEN Fails(c, "ENOENT")
    ELSE Succeeds([c EXCEPT !.native = Restrict(@, DOMAIN @ \ ChildrenOf(c, pool))])

\* Only a reset the driver accepted takes the sets out of the table.
reset_descriptor_pool(c, pool) ==
    IF ~ resolve_device_child(c, pool) THEN Fails(c, "ENOENT")
    ELSE LET sets == ChildrenOf(c, pool)
             reset == [c EXCEPT !.native = Restrict(@, DOMAIN @ \ sets)]
         IN  Refused(c) \cup Succeeds(Forgotten(reset, sets))

\* Room for the sets is checked before anything is looked up.
allocate_descriptor_sets(c, pool, layout) ==
    IF Full(c, 1) THEN Refused(c)
    ELSE IF ~ resolve_device_child(c, pool) THEN Fails(c, "ENOENT")
    ELSE LET status == Resolved(c, c.table[pool], {layout})
         IN  IF status # "SUCCESS" THEN Fails(c, status)
             ELSE Created(c, "DESCRIPTOR_SET", pool)

create_sampler(c, d) == CreatedFrom(c, "SAMPLER", d, {})
destroy_sampler(c, id) == DestroyedChild(c, id)

update_descriptors(c, d, set, samplers) == UsedOf(c, d, {set} \cup samplers)

-----------------------------------------------------------------------------
(* Pipelines.                                                              *)

create_pipeline_layout(c, d, layouts) ==
    CreatedFrom(c, "PIPELINE_LAYOUT", d, layouts)
destroy_pipeline_layout(c, id) == DestroyedChild(c, id)

create_graphics_pipeline(c, d, layout) == CreatedFrom(c, "PIPELINE", d, {layout})
create_general_graphics_pipeline(c, d, layout) ==
    CreatedFrom(c, "PIPELINE", d, {layout})
create_builtin_graphics_pipeline(c, d, layout) ==
    CreatedFrom(c, "PIPELINE", d, {layout})
destroy_pipeline(c, id) == DestroyedChild(c, id)

-----------------------------------------------------------------------------
(* Buffers, images and memory.                                             *)

create_buffer(c, d) == CreatedFrom(c, "BUFFER", d, {})
destroy_buffer(c, id) == DestroyedChild(c, id)

get_buffer_requirements(c, b) ==
    Used(c, IF resolve_device_child(c, b) THEN "SUCCESS" ELSE "ENOENT")
get_device_buffer_requirements(c, d) == UsedOf(c, d, {})
get_buffer_requirements_2(c, b) ==
    Used(c, IF resolve_device_child(c, b) THEN "SUCCESS" ELSE "ENOENT")

get_buffer_device_address(c, b) ==
    IF ~ resolve_device_child(c, b) THEN Fails(c, "ENOENT")
    ELSE IF ~ buffer_metadata_find(c, b) \/ b \notin c.bound
    THEN Fails(c, "EINVAL") ELSE Succeeds(c)

allocate_memory_extended(c, d, dedicated) ==
    IF d \in Live(c) /\ resolve_physical_device(c, c.table[d]) # "SUCCESS"
    THEN Fails(c, "ENOENT")
    ELSE CreatedFrom(c, "DEVICE_MEMORY", d, dedicated)

free_memory(c, m) ==
    IF ~ resolve_device_child(c, m) THEN Fails(c, "ENOENT")
    ELSE IF m \in c.mirrored THEN Fails(c, "EBUSY")
    ELSE Succeeds(Destroyed(c, {m}))

bind_buffer_memory(c, b, m) ==
    LET status == IF b \in Live(c) THEN Resolved(c, c.table[b], {b, m})
                  ELSE "ENOENT"
    IN  IF status # "SUCCESS" THEN Fails(c, status)
        ELSE Refused(c) \cup Succeeds([c EXCEPT !.bound = @ \cup {b}])

create_image(c, d) == CreatedFrom(c, "IMAGE", d, {})

destroy_image(c, i) ==
    IF resolve_device_child(c, i) /\ ChildrenOf(c, i) # {}
    THEN Fails(c, "EBUSY") ELSE DestroyedChild(c, i)

get_image_requirements(c, i) ==
    Used(c, IF resolve_device_child(c, i) THEN "SUCCESS" ELSE "ENOENT")
get_image_requirements_2(c, i) ==
    Used(c, IF resolve_device_child(c, i) THEN "SUCCESS" ELSE "ENOENT")

bind_image_memory(c, i, m) ==
    LET status == IF i \in Live(c) THEN Resolved(c, c.table[i], {i, m})
                  ELSE "ENOENT"
    IN  IF status # "SUCCESS" THEN Fails(c, status)
        ELSE IF m \in c.mirrored THEN Refused(c)
        ELSE Refused(c) \cup Succeeds(c)

\* A view is the child of its image, not of the device.
create_image_view(c, d, i) ==
    LET status == IF resolve_device_child(c, i)
                  THEN IF c.table[i] = d THEN "SUCCESS" ELSE "EPROTO"
                  ELSE "ENOENT"
    IN  IF status # "SUCCESS" THEN Fails(c, status)
        ELSE IF ~ image_metadata_slot(c, i) THEN Refused(c)
        ELSE Created(c, "IMAGE_VIEW", i)

destroy_image_view(c, v) ==
    IF resolve_device_child(c, v) /\ resolve_device_child(c, c.table[v])
    THEN Succeeds(Destroyed(c, {v})) ELSE Fails(c, "ENOENT")

\* Active mappings; what they hold is MemoryMirror's subject.
setup_memory_mirror(c, d, m) ==
    LET status == Resolved(c, d, {m})
    IN  IF status # "SUCCESS" THEN Fails(c, status)
        ELSE Refused(c) \cup Succeeds([c EXCEPT !.mirrored = @ \cup {m}])
unmap_memory_mirror(c, m) ==
    IF m \in c.mirrored THEN Succeeds([c EXCEPT !.mirrored = @ \ {m}])
    ELSE Fails(c, "ESTALE")

verify_memory_fill(c, m) ==
    IF m \notin c.meta THEN Fails(c, "ERANGE")
    ELSE Used(c, IF resolve_device_child(c, m) THEN "SUCCESS" ELSE "ENOENT")

-----------------------------------------------------------------------------
(* Commands recorded one exchange at a time.                               *)

\* A command and the objects it names belong to one device.
Recorded(c, cb, uses) ==
    IF resolve_command_buffer(c, cb) # "SUCCESS" THEN Fails(c, "ENOENT")
    ELSE UsedOf(c, DeviceOf(c, cb), uses)

command_buffer_fill(c, cb, b) == Recorded(c, cb, {b})
command_buffer_image_barrier(c, cb, images) == Recorded(c, cb, images)
command_buffer_clear_color_image(c, cb, i) == Recorded(c, cb, {i})
command_buffer_bind_descriptor_sets(c, cb, layout, sets) ==
    Recorded(c, cb, {layout} \cup sets)
execute_immediate_record(c, cb, uses) == Recorded(c, cb, uses)

-----------------------------------------------------------------------------
(* Fences, semaphores and submission.                                      *)

create_fence(c, d) == CreatedFrom(c, "FENCE", d, {})
destroy_fence(c, id) == DestroyedChild(c, id)
get_fence_status(c, f) ==
    Used(c, IF resolve_device_child(c, f) THEN "SUCCESS" ELSE "ENOENT")
wait_fence(c, f) ==
    Used(c, IF resolve_device_child(c, f) THEN "SUCCESS" ELSE "ENOENT")
reset_fence(c, f) ==
    Used(c, IF resolve_device_child(c, f) THEN "SUCCESS" ELSE "ENOENT")

create_semaphore(c, d) == CreatedFrom(c, "SEMAPHORE", d, {})

destroy_semaphore(c, id) == DestroyedChild(c, id)
get_semaphore_counter(c, s) ==
    Used(c, IF resolve_device_child(c, s) THEN "SUCCESS" ELSE "ENOENT")

wait_semaphores(c, d, ss) ==
    Used(c, IF d \notin Live(c) THEN "ENOENT"
            ELSE IF Resolved(c, d, ss) = "SUCCESS" THEN "SUCCESS" ELSE "EPROTO")
signal_semaphore(c, d, s) ==
    Used(c, IF Resolved(c, d, {s}) = "SUCCESS" THEN "SUCCESS" ELSE "EPROTO")

\* Everything a submission names must belong to the queue's device.
validate_queue_submit_2(c, q, uses) ==
    IF resolve_queue(c, q) # "SUCCESS" THEN "ENOENT"
    ELSE Resolved(c, c.table[q], uses)

queue_submit_2(c, q, uses) == Used(c, validate_queue_submit_2(c, q, uses))

queue_submit_command(c, q, cb) ==
    IF resolve_queue(c, q) # "SUCCESS" THEN Fails(c, "ENOENT")
    ELSE UsedOf(c, c.table[q], {cb})

queue_submit_command_fence(c, q, cb, f) ==
    IF resolve_queue(c, q) # "SUCCESS" THEN Fails(c, "ENOENT")
    ELSE UsedOf(c, c.table[q], {cb, f})

-----------------------------------------------------------------------------
(* Swapchains: their images are table entries of the device.               *)

\* Every swapchain of ss after its images, whose views are not looked for.
destroy_swapchain_metadata(c, ss) ==
    LET gone == Destroyed(c, UNION {c.chain[s] : s \in ss})
    IN  [Destroyed(gone, ss) EXCEPT !.chain = Restrict(@, DOMAIN @ \ ss)]

\* Enough table entries and a slot are needed; any failure while the images
\* are made goes through destroy_swapchain_metadata and leaves nothing.
prepare_swapchain(c, d) ==
    IF Full(c, ChainImages + 1) \/ ~ swapchain_metadata_slot_free(c)
    THEN Refused(c)
    ELSE IF d \notin Live(c)
            \/ resolve_physical_device(c, c.table[d]) # "SUCCESS"
    THEN Fails(c, "ENOENT")
    ELSE LET images == FreshIds(c, "IMAGE", ChainImages)
             id == Fresh(c, "SWAPCHAIN")
             made == Made(c, images \cup {id}, d)
             whole == [made EXCEPT !.chain = Extended(@, {id}, images)]
         IN  Refused(c) \cup Fails(c, "EIO") \cup {Outcome(whole, "SUCCESS", id)}

\* vkDeviceWaitIdle may fail on a lost device: everything is released all the
\* same, but the answer is the error.  Bound: one such loss per behaviour.
destroy_swapchain(c, s) ==
    IF s \notin DOMAIN c.chain THEN Fails(c, "ENOENT")
    ELSE LET gone == destroy_swapchain_metadata(c, {s})
         IN  Succeeds(gone) \cup
             IF c.lost # {} THEN {}
             ELSE Fails([gone EXCEPT !.lost = {s} \cup c.chain[s]], "EIO")

\* A semaphore or fence that does not fit, or an image not from the ring, is
\* answered with a VkResult; only the swapchain itself has to be known.
acquire_swapchain_image(c, d, s, signals) ==
    IF s \notin DOMAIN c.chain \/ c.table[s] # d THEN Fails(c, "ENOENT")
    ELSE IF Resolved(c, d, signals) # "SUCCESS" THEN Refused(c)
    ELSE Refused(c) \cup Succeeds(c)
present_swapchain_image(c, s, q, waits) ==
    IF s \notin DOMAIN c.chain THEN Fails(c, "ENOENT")
    ELSE IF Resolved(c, c.table[s], {q} \cup waits) # "SUCCESS" THEN Refused(c)
    ELSE Refused(c) \cup Succeeds(c)

-----------------------------------------------------------------------------
(* Teardown.                                                               *)

\* destroy_device goes through the table once for every type, in this order.
TeardownOrder ==
    <<"PIPELINE", "PIPELINE_LAYOUT", "QUERY_POOL", "DESCRIPTOR_POOL",
      "SAMPLER", "UPDATE_TEMPLATE", "DESCRIPTOR_SET_LAYOUT", "COMMAND_POOL",
      "IMAGE_VIEW", "IMAGE", "BUFFER", "DEVICE_MEMORY", "FENCE", "SEMAPHORE",
      "QUEUE">>

\* One pass: children of the devices ds, and views of images that are still in
\* the table.
Swept(c, ds, type) ==
    LET mine == {id \in OfType(c, type) : DeviceOf(c, id) \in ds}
        theirs == {id \in Live(c) : type \in Pools /\ c.table[id] \in mine}
    IN  IF type = "QUEUE" THEN Forgotten(c, mine)
        ELSE Destroyed(Forgotten(c, theirs), mine)

\* The swapchains go first, before the pass over the image views; the devices
\* share no objects, so that one after the other is all at once.
TornDown(c, ds, order) ==
    LET chains == {s \in DOMAIN c.chain : c.table[s] \in ds}
        after[n \in 0..Len(order)] ==
          IF n = 0 THEN destroy_swapchain_metadata(c, chains)
          ELSE Swept(after[n - 1], ds, order[n])
    IN  Destroyed(after[Len(order)], ds)

\* Mutant: the pass over the image views is missing.
device_teardown_keeps_views(c, ds) ==
    TornDown(c, ds, SelectSeq(TeardownOrder, LAMBDA type : type # "IMAGE_VIEW"))

device_teardown(c, ds) == TornDown(c, ds, TeardownOrder)

device_is_mapped(c, d) == \E m \in c.mirrored : c.table[m] = d

\* The swapchain whose destruction reported the loss of the device stops the
\* call; it is gone, and so are the swapchains before it.
StoppedByLoss(c, d) ==
    LET chains == {s \in DOMAIN c.chain : c.table[s] = d}
        without(ss) ==
          [destroy_swapchain_metadata(c, ss)
             EXCEPT !.lost = ss \cup UNION {c.chain[s] : s \in ss}]
    IN  IF c.lost # {} THEN {}
        ELSE {Outcome(without(ss), "EIO", NoObject) : ss \in (SUBSET chains) \ {{}}}

destroy_device(c, d) ==
    IF d \notin Live(c) THEN Fails(c, "ENOENT")
    ELSE IF device_is_mapped(c, d) THEN Fails(c, "EBUSY")
    ELSE Succeeds(device_teardown(c, {d})) \cup StoppedByLoss(c, d)

\* The devices of the instance's physical devices first, in the order of
\* their slots; the first one that cannot be destroyed stops the call with
\* the ones before it already gone.
destroy_instance(c, instance) ==
    LET physicals == existing_physical_device_id(c, instance)
        devices == {d \in OfType(c, "DEVICE") : c.table[d] \in physicals}
        idle == {d \in devices : ~ device_is_mapped(c, d)}
        stopped == UNION {{o \in destroy_device(device_teardown(c, ds), d) :
                             o.status # "SUCCESS"} :
                            d \in devices, ds \in SUBSET idle}
    IN  IF instance \notin Live(c) THEN Fails(c, "ENOENT")
        ELSE {o \in stopped : o.status # "ENOENT"} \cup
             IF idle # devices THEN {}
             ELSE Succeeds(Destroyed(Forgotten(device_teardown(c, devices),
                                               physicals), {instance}))

\* bvb_vulkan_global_context_destroy: mirrors, swapchains, then the devices
\* and the instances themselves, whatever else they still own.
context_destroy(c) ==
    LET unmapped == [c EXCEPT !.mirrored = {}]
        chained == destroy_swapchain_metadata(unmapped, DOMAIN c.chain)
    IN  NativelyDestroyed(NativelyDestroyed(chained, OfType(c, "DEVICE")),
                          OfType(c, "INSTANCE"))
=============================================================================
