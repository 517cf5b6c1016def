------------------------------- MODULE Bridge -------------------------------
(***************************************************************************)
(* The Vulkan entry points of the client (global_dispatch.c) composed with *)
(* the service that owns the objects: every call checks the proxies it was *)
(* given, makes one exchange and changes its proxies only when the reply   *)
(* says that the service did its part.  The client's mutex and the         *)
(* service's context mutex make a call one step; what may come between two *)
(* calls is another call, a broken connection or the end of it.            *)
(***************************************************************************)
EXTENDS BridgeService

CONSTANTS
    Menus        \* what an application may hold at a time: type -> number

VARIABLES
    ctx,      \* the service's context for this connection
    client,   \* [proxies: id -> parent, chains: swapchain -> images, mapped]
    link,     \* "new", "up", "down" (an exchange failed), "closed"
    refusals, \* history: statuses that say the two sides disagree
    menu      \* bound: how many objects of a type this application holds

vars == <<ctx, client, link, refusals, menu>>

\* The answers to a request about objects the service does not have, or not
\* where the client believes them to be.
Disagreement == {"ENOENT", "EPROTO", "ESTALE"}

Init ==
    /\ ctx = NewContext
    /\ client = [proxies |-> <<>>, chains |-> <<>>, mapped |-> {}]
    /\ link = "new"
    /\ refusals = {}
    /\ menu \in Menus

-----------------------------------------------------------------------------
(* The client's lists.                                                     *)

Known == DOMAIN client.proxies
P(type) == {id \in Known : Type(id) = type}
Wanted(type) == Cardinality(P(type)) < menu[type]
Of(type, parent) == {id \in P(type) : client.proxies[id] = parent}

\* A set or a command buffer knows its pool, the pool its device.
OnDevice(type, d) ==
    {id \in P(type) : \/ client.proxies[id] = d
                      \/ client.proxies[id] \in Known
                         /\ Type(client.proxies[id]) \in Pools
                         /\ client.proxies[client.proxies[id]] = d}

\* An image of the device, or one of the images of its swapchains.
image_owned_by_device_locked(d) ==
    Of("IMAGE", d) \cup UNION {client.chains[s] : s \in Of("SWAPCHAIN", d)}

Added(id, parent) == [client EXCEPT !.proxies = Extended(@, {id}, parent)]
AddedOn(o, parent) == IF o.status = "SUCCESS" THEN Added(o.id, parent) ELSE client

Removed(ids) ==
    [client EXCEPT !.proxies = Restrict(@, Known \ ids),
                   !.chains = Restrict(@, DOMAIN @ \ ids),
                   !.mapped = @ \ ids]
RemovedOn(o, ids) == IF o.status = "SUCCESS" THEN Removed(ids) ELSE client

\* A pool takes the command buffers or the sets allocated from it along.
remove_command_buffers_for_pool_locked(pool) == Of("COMMAND_BUFFER", pool)
remove_descriptor_sets_for_pool_locked(pool) == Of("DESCRIPTOR_SET", pool)
remove_command_pool_proxy_locked(pool) ==
    {pool} \cup remove_command_buffers_for_pool_locked(pool)
remove_command_pools_for_device_locked(d) ==
    UNION {remove_command_pool_proxy_locked(pool) : pool \in Of("COMMAND_POOL", d)}
remove_resources_for_device_locked(d) ==
    LET resources == {id \in Known : client.proxies[id] = d /\ Type(id) \notin
                        {"QUEUE", "COMMAND_POOL", "SWAPCHAIN"}}
    IN  resources \cup UNION {remove_descriptor_sets_for_pool_locked(pool) :
                                pool \in Of("DESCRIPTOR_POOL", d)}
remove_queue_proxies_locked(d) == Of("QUEUE", d)
remove_swapchains_for_device_locked(d) == Of("SWAPCHAIN", d)

remove_device_proxy_locked(d) ==
    {d} \cup remove_command_pools_for_device_locked(d)
        \cup remove_resources_for_device_locked(d)
        \cup remove_queue_proxies_locked(d)
remove_device_proxies_for_instance_locked(i) ==
    UNION {remove_device_proxy_locked(d) :
             d \in {x \in P("DEVICE") : client.proxies[x] \in
                                          Of("PHYSICAL_DEVICE", i)}}
remove_surfaces_for_instance_locked(i) == Of("SURFACE", i)
remove_physical_proxies_locked(i) ==
    remove_device_proxies_for_instance_locked(i) \cup Of("PHYSICAL_DEVICE", i)

-----------------------------------------------------------------------------
(* One exchange.                                                           *)

\* The service answers with outcome o, on which the client's lists become
\* after, or the transport fails before or after the service did its part; the
\* client then has no answer and changes nothing.  exchange_locked keeps the
\* descriptor, but the socket blocks without a timeout, so it failed because it
\* is broken or closed: later exchanges fail there too and change neither side.
Exchange(o, after) ==
    /\ link = "up"
    /\ \/ /\ ctx' = o.ctx /\ client' = after
          /\ refusals' = refusals \cup (Disagreement \cap {o.status})
          /\ UNCHANGED <<link, menu>>
       \/ /\ ctx' \in {ctx, o.ctx} /\ link' = "down"
          /\ UNCHANGED <<client, refusals, menu>>

Creates(type, outcomes, parent) ==
    Wanted(type) /\ \E o \in outcomes : Exchange(o, AddedOn(o, parent))
Destroys(outcomes, ids) == \E o \in outcomes : Exchange(o, RemovedOn(o, ids))
Uses(outcomes) == \E o \in outcomes : Exchange(o, client)

\* The first call connects; a failed HELLO or setup closes the socket again.
connect_locked ==
    /\ link = "new"
    /\ \E o \in answer_hello(ctx) :
         \/ ctx' = o.ctx /\ link' = "up"
         \/ UNCHANGED <<ctx, link>>
    /\ UNCHANGED <<client, refusals, menu>>

-----------------------------------------------------------------------------
(* Instances, surfaces and physical devices.                               *)

vkEnumerateInstanceVersion == Uses(answer_vulkan_global_info(ctx))
vkEnumerateInstanceExtensionProperties ==
    Uses(answer_vulkan_instance_extensions(ctx))

vkCreateInstance == Creates("INSTANCE", answer_vulkan_instance_create(ctx), NoObject)

\* The application has destroyed its swapchains and unmapped its memory, as
\* Vulkan requires of it; the client keeps the proxies of both.
vkDestroyInstance ==
    \E i \in P("INSTANCE") :
      /\ P("SWAPCHAIN") = {} /\ client.mapped = {}
      /\ Destroys(answer_vulkan_instance_destroy(ctx, i),
                  {i} \cup remove_surfaces_for_instance_locked(i)
                      \cup remove_physical_proxies_locked(i))

\* Surfaces exist in the client only.
create_virtual_surface ==
    \E i \in P("INSTANCE") :
      /\ Wanted("SURFACE")
      /\ \E n \in 1..menu["SURFACE"] :
           /\ <<"SURFACE", n>> \notin Known
           /\ client' = Added(<<"SURFACE", n>>, i)
      /\ UNCHANGED <<ctx, link, refusals, menu>>
vkDestroySurfaceKHR ==
    \E s \in P("SURFACE") :
      client' = Removed({s}) /\ UNCHANGED <<ctx, link, refusals, menu>>

\* A proxy is made only for the ids the application's array has room for.
vkEnumeratePhysicalDevices ==
    \E i \in P("INSTANCE"), room \in BOOLEAN :
      \E o \in answer_vulkan_physical_devices(ctx, i) :
        Exchange(o, IF room /\ o.id \notin Known THEN AddedOn(o, i) ELSE client)

vkGetPhysicalDeviceProperties ==
    \E p \in P("PHYSICAL_DEVICE") :
      Uses(answer_vulkan_physical_device_properties(ctx, p))
vkGetPhysicalDeviceQueueFamilyProperties ==
    \E p \in P("PHYSICAL_DEVICE") :
      Uses(answer_vulkan_queue_family_properties(ctx, p))
vkGetPhysicalDeviceMemoryProperties ==
    \E p \in P("PHYSICAL_DEVICE") : Uses(answer_vulkan_memory_properties(ctx, p))
vkEnumerateDeviceExtensionProperties ==
    \E p \in P("PHYSICAL_DEVICE") : Uses(answer_vulkan_device_extensions(ctx, p))
vkGetPhysicalDeviceFeatures ==
    \E p \in P("PHYSICAL_DEVICE") :
      Uses(answer_vulkan_physical_device_features(ctx, p))
vkGetPhysicalDeviceFeatures2 ==
    \E p \in P("PHYSICAL_DEVICE") : Uses(answer_vulkan_core_features(ctx, p))
vkGetPhysicalDeviceFormatProperties ==
    \E p \in P("PHYSICAL_DEVICE") : Uses(answer_vulkan_format_properties(ctx, p))
vkGetPhysicalDeviceImageFormatProperties ==
    \E p \in P("PHYSICAL_DEVICE") :
      Uses(answer_vulkan_image_format_properties(ctx, p))
vkGetPhysicalDeviceExternalBufferProperties ==
    \E p \in P("PHYSICAL_DEVICE") :
      Uses(answer_vulkan_external_buffer_properties(ctx, p))
vkGetPhysicalDeviceExternalSemaphoreProperties ==
    \E p \in P("PHYSICAL_DEVICE") :
      Uses(answer_vulkan_external_semaphore_properties(ctx, p))

\* The surface queries ask the service for the Activity's state.
vkGetPhysicalDeviceSurfaceCapabilitiesKHR ==
    \E p \in P("PHYSICAL_DEVICE") :
      /\ Of("SURFACE", client.proxies[p]) # {}
      /\ Uses(answer_activity_status(ctx))

-----------------------------------------------------------------------------
(* Devices, queues and command pools.                                      *)

vkCreateDevice ==
    \E p \in P("PHYSICAL_DEVICE") :
      Creates("DEVICE", answer_vulkan_device_create(ctx, p), p)

\* Views the application made of the images of its swapchains.
ChainViews(images) ==
    {v \in P("IMAGE_VIEW") \cap Live(ctx) : ctx.table[v] \in images}

\* Any child may be left to the teardown except the views of swapchain images,
\* which destroy_swapchain_metadata would not find.
vkDestroyDevice ==
    \E d \in P("DEVICE") :
      /\ \A s \in Of("SWAPCHAIN", d) : ChainViews(client.chains[s]) = {}
      /\ Destroys(answer_vulkan_device_destroy(ctx, d),
                  remove_device_proxy_locked(d)
                    \cup remove_swapchains_for_device_locked(d))

vkGetDeviceQueue ==
    \E d \in P("DEVICE") :
      /\ menu["QUEUE"] > 0
      /\ \E o \in answer_vulkan_device_queue(ctx, d) :
           Exchange(o, IF o.id \in Known THEN client ELSE AddedOn(o, d))

vkDeviceWaitIdle ==
    \E d \in P("DEVICE") : Uses(answer_vulkan_device_wait_idle(ctx, d))
queue_result_operation ==
    \E q \in P("QUEUE") : Uses(answer_vulkan_queue_operation(ctx, q))

vkCreateCommandPool ==
    \E d \in P("DEVICE") :
      Creates("COMMAND_POOL", answer_vulkan_command_pool_create(ctx, d), d)
vkDestroyCommandPool ==
    \E pool \in P("COMMAND_POOL") :
      Destroys(answer_vulkan_command_pool_destroy(ctx, pool),
               remove_command_pool_proxy_locked(pool))
vkResetCommandPool ==
    \E pool \in P("COMMAND_POOL") :
      Uses(answer_vulkan_command_pool_reset(ctx, pool))
vkAllocateCommandBuffers ==
    \E pool \in P("COMMAND_POOL") :
      Creates("COMMAND_BUFFER",
              answer_vulkan_command_buffer_allocate(ctx, pool), pool)
vkFreeCommandBuffers ==
    \E cb \in P("COMMAND_BUFFER") :
      Destroys(answer_vulkan_command_buffer_free(ctx, client.proxies[cb], cb),
               {cb})
vkBeginCommandBuffer ==
    \E cb \in P("COMMAND_BUFFER") :
      Uses(answer_vulkan_command_buffer_begin(ctx, cb))
vkEndCommandBuffer ==
    \E cb \in P("COMMAND_BUFFER") :
      Uses(answer_vulkan_command_buffer_end(ctx, cb))

-----------------------------------------------------------------------------
(* Objects of a device.                                                    *)

\* create_resource_locked: the proxy is listed once the reply is VK_SUCCESS.
create_resource_locked(type, d, uses) ==
    Creates(type, answer_vulkan_resource_create(ctx, type, d, uses), d)

\* destroy_resource: a live proxy of that type, owned by that device.
destroy_resource(type) ==
    \E id \in P(type) :
      Destroys(answer_vulkan_resource_destroy(ctx, id),
               {id} \cup (IF type = "DESCRIPTOR_POOL"
                          THEN remove_descriptor_sets_for_pool_locked(id)
                          ELSE {}))

\* At most one of a set: what an optional or one-element list may name.
AtMostOne(S) == {{}} \cup {{x} : x \in S}

vkCreateDescriptorSetLayout ==
    \E d \in P("DEVICE") : \E samplers \in AtMostOne(Of("SAMPLER", d)) :
      create_resource_locked("DESCRIPTOR_SET_LAYOUT", d, samplers)
vkDestroyDescriptorSetLayout == destroy_resource("DESCRIPTOR_SET_LAYOUT")

vkCreateDescriptorPool ==
    \E d \in P("DEVICE") : create_resource_locked("DESCRIPTOR_POOL", d, {})
vkDestroyDescriptorPool == destroy_resource("DESCRIPTOR_POOL")
vkResetDescriptorPool ==
    \E pool \in P("DESCRIPTOR_POOL") :
      Destroys(answer_vulkan_descriptor_pool_reset(ctx, pool),
               remove_descriptor_sets_for_pool_locked(pool))

vkAllocateDescriptorSets ==
    \E pool \in P("DESCRIPTOR_POOL") :
      \E layout \in Of("DESCRIPTOR_SET_LAYOUT", client.proxies[pool]) :
        Creates("DESCRIPTOR_SET",
                answer_vulkan_descriptor_set_allocate(ctx, pool, layout), pool)

vkCreateQueryPool ==
    \E d \in P("DEVICE") : create_resource_locked("QUERY_POOL", d, {})
vkDestroyQueryPool == destroy_resource("QUERY_POOL")
vkGetQueryPoolResults ==
    \E q \in P("QUERY_POOL") : Uses(answer_vulkan_query_pool_results(ctx, q))
vkResetQueryPool ==
    \E q \in P("QUERY_POOL") : Uses(answer_vulkan_query_pool_reset(ctx, q))

vkCreateSampler ==
    \E d \in P("DEVICE") : create_resource_locked("SAMPLER", d, {})
vkDestroySampler == destroy_resource("SAMPLER")

vkCreateDescriptorUpdateTemplate ==
    \E d \in P("DEVICE") : \E layout \in Of("DESCRIPTOR_SET_LAYOUT", d) :
      create_resource_locked("UPDATE_TEMPLATE", d, {layout})
vkDestroyDescriptorUpdateTemplate == destroy_resource("UPDATE_TEMPLATE")

vkUpdateDescriptorSets ==
    \E d \in P("DEVICE") :
      \E set \in OnDevice("DESCRIPTOR_SET", d), s \in Of("SAMPLER", d) :
        Uses(answer_vulkan_descriptor_update(ctx, d, set, {s}))
vkUpdateDescriptorSetWithTemplate ==
    \E d \in P("DEVICE") :
      \E set \in OnDevice("DESCRIPTOR_SET", d), t \in Of("UPDATE_TEMPLATE", d),
         views \in AtMostOne(Of("IMAGE_VIEW", d)),
         others \in AtMostOne(Of("BUFFER", d) \cup Of("SAMPLER", d)) :
        Uses(answer_vulkan_descriptor_template_update(ctx, d, set, t, views,
                                                      others))

vkCreatePipelineLayout ==
    \E d \in P("DEVICE") :
      \E layouts \in AtMostOne(Of("DESCRIPTOR_SET_LAYOUT", d)) :
        create_resource_locked("PIPELINE_LAYOUT", d, layouts)
vkDestroyPipelineLayout == destroy_resource("PIPELINE_LAYOUT")

vkCreateGraphicsPipelines ==
    \E d \in P("DEVICE") : \E layout \in Of("PIPELINE_LAYOUT", d) :
      create_resource_locked("PIPELINE", d, {layout})
create_dxvk_builtin_blit_pipeline ==
    \E d \in P("DEVICE") : \E layout \in Of("PIPELINE_LAYOUT", d) :
      Creates("PIPELINE",
              answer_vulkan_builtin_graphics_pipeline(ctx, d, layout), d)
vkDestroyPipeline == destroy_resource("PIPELINE")

vkCreateBuffer ==
    \E d \in P("DEVICE") : create_resource_locked("BUFFER", d, {})
vkDestroyBuffer == destroy_resource("BUFFER")
vkGetBufferMemoryRequirements ==
    \E b \in P("BUFFER") : Uses(answer_vulkan_buffer_requirements(ctx, b))
vkGetDeviceBufferMemoryRequirements ==
    \E d \in P("DEVICE") :
      Uses(answer_vulkan_device_buffer_requirements(ctx, d))
vkGetBufferMemoryRequirements2 ==
    \E b \in P("BUFFER") : Uses(answer_vulkan_buffer_requirements_2(ctx, b))
vkGetBufferDeviceAddress ==
    \E b \in P("BUFFER") : Uses(answer_vulkan_buffer_device_address(ctx, b))

vkAllocateMemory ==
    \E d \in P("DEVICE") : \E dedicated \in AtMostOne(Of("IMAGE", d)) :
      create_resource_locked("DEVICE_MEMORY", d, dedicated)
vkBindBufferMemory ==
    \E b \in P("BUFFER") :
      \E m \in Of("DEVICE_MEMORY", client.proxies[b]) :
        Uses(answer_vulkan_buffer_bind(ctx, b, m))

vkMapMemory ==
    \E m \in P("DEVICE_MEMORY") \ client.mapped :
      \E o \in answer_vulkan_memory_mirror_setup(ctx, client.proxies[m], m) :
        Exchange(o, IF o.status = "SUCCESS"
                    THEN [client EXCEPT !.mapped = @ \cup {m}] ELSE client)
\* The shadow is released whatever the service answers.
vkUnmapMemory ==
    \E m \in client.mapped :
      \E o \in answer_vulkan_memory_mirror_unmap(ctx, m) :
        Exchange(o, [client EXCEPT !.mapped = @ \ {m}])
\* Unmaps first: two exchanges of one call.
vkFreeMemory ==
    \E m \in P("DEVICE_MEMORY") :
      LET unmapped == IF m \in client.mapped
                      THEN answer_vulkan_memory_mirror_unmap(ctx, m)
                      ELSE Succeeds(ctx)
      IN  Destroys(UNION {answer_vulkan_resource_destroy(o.ctx, m) :
                            o \in unmapped}, {m})
bvb_verify_memory_fill ==
    \E m \in P("DEVICE_MEMORY") : Uses(answer_vulkan_memory_verify_fill(ctx, m))

vkCreateImage ==
    \E d \in P("DEVICE") : create_resource_locked("IMAGE", d, {})
\* Only images of the resource list: never those of a swapchain.
vkDestroyImage == destroy_resource("IMAGE")
vkGetImageMemoryRequirements ==
    \E i \in P("IMAGE") : Uses(answer_vulkan_image_requirements(ctx, i))
vkGetImageMemoryRequirements2 ==
    \E i \in P("IMAGE") : Uses(answer_vulkan_image_requirements_2(ctx, i))
vkBindImageMemory ==
    \E i \in P("IMAGE") : \E m \in Of("DEVICE_MEMORY", client.proxies[i]) :
      Uses(answer_vulkan_image_bind(ctx, i, m))

\* The client parents a view to the device, the service to the image.
vkCreateImageView ==
    \E d \in P("DEVICE") : \E i \in image_owned_by_device_locked(d) :
      create_resource_locked("IMAGE_VIEW", d, {i})
vkDestroyImageView == destroy_resource("IMAGE_VIEW")

-----------------------------------------------------------------------------
(* Recording without a command stream, synchronization and submission.     *)

vkCmdFillBuffer ==
    \E d \in P("DEVICE") : \E cb \in OnDevice("COMMAND_BUFFER", d),
                              b \in Of("BUFFER", d) :
      Uses(answer_vulkan_command_buffer_fill(ctx, cb, b))
vkCmdPipelineBarrier2 ==
    \E d \in P("DEVICE") : \E cb \in OnDevice("COMMAND_BUFFER", d),
                              i \in image_owned_by_device_locked(d) :
      Uses(answer_vulkan_command_buffer_image_barrier(ctx, cb, {i}))
vkCmdClearColorImage ==
    \E d \in P("DEVICE") : \E cb \in OnDevice("COMMAND_BUFFER", d),
                              i \in image_owned_by_device_locked(d) :
      Uses(answer_vulkan_command_buffer_clear_color_image(ctx, cb, i))
vkCmdBindDescriptorSets ==
    \E d \in P("DEVICE") : \E cb \in OnDevice("COMMAND_BUFFER", d),
                              layout \in Of("PIPELINE_LAYOUT", d),
                              sets \in AtMostOne(OnDevice("DESCRIPTOR_SET", d)) :
      Uses(answer_vulkan_command_buffer_bind_descriptor_sets(ctx, cb, layout, sets))
submit_single_render_record ==
    \E d \in P("DEVICE") :
      \E cb \in OnDevice("COMMAND_BUFFER", d),
         uses \in AtMostOne(Of("PIPELINE", d) \cup Of("BUFFER", d)
                              \cup Of("IMAGE_VIEW", d) \cup Of("QUERY_POOL", d)) :
        Uses(answer_vulkan_command_buffer_immediate_record(ctx, cb, uses))

vkCreateFence == \E d \in P("DEVICE") : create_resource_locked("FENCE", d, {})
vkDestroyFence == destroy_resource("FENCE")
fence_result_operation ==
    \E f \in P("FENCE") : Uses(answer_vulkan_fence_operation(ctx, f))
vkWaitForFences == \E f \in P("FENCE") : Uses(answer_vulkan_fence_wait(ctx, f))

vkCreateSemaphore ==
    \E d \in P("DEVICE") : create_resource_locked("SEMAPHORE", d, {})
vkDestroySemaphore == destroy_resource("SEMAPHORE")
vkGetSemaphoreCounterValue ==
    \E s \in P("SEMAPHORE") : Uses(answer_vulkan_semaphore_counter(ctx, s))
vkSignalSemaphore ==
    \E s \in P("SEMAPHORE") :
      Uses(answer_vulkan_semaphore_signal(ctx, client.proxies[s], s))
vkWaitSemaphores ==
    \E s \in P("SEMAPHORE") :
      Uses(answer_vulkan_semaphore_wait(ctx, client.proxies[s], {s}))

vkQueueSubmit ==
    \E q \in P("QUEUE") :
      \E cb \in OnDevice("COMMAND_BUFFER", client.proxies[q]),
         fence \in AtMostOne(Of("FENCE", client.proxies[q])) :
        Uses(IF fence = {} THEN answer_vulkan_queue_submit_command(ctx, q, cb)
             ELSE UNION {answer_vulkan_queue_submit_command_fence(ctx, q, cb, f) :
                           f \in fence})

\* Mutant: the client does not ask whether a semaphore is of the queue's device.
submit_any_semaphore ==
    \E q \in P("QUEUE"), uses \in AtMostOne(P("SEMAPHORE")) :
      Uses(answer_vulkan_queue_submit_2(ctx, q, uses))

vkQueueSubmit2 ==
    \E q \in P("QUEUE") :
      LET d == client.proxies[q] IN
      \E cbs \in AtMostOne(OnDevice("COMMAND_BUFFER", d)),
         semaphores \in AtMostOne(Of("SEMAPHORE", d)),
         fence \in AtMostOne(Of("FENCE", d)) :
        Uses(answer_vulkan_queue_submit_2(ctx, q, cbs \cup semaphores \cup fence))

-----------------------------------------------------------------------------
(* The virtual swapchain.                                                  *)

\* When the client cannot map the control region of a swapchain the service
\* prepared, it asks the service to destroy the swapchain again.
vkCreateSwapchainKHR ==
    \E d \in P("DEVICE") :
      LET prepared == answer_vulkan_swapchain_prepare(ctx, d)
          made == {o \in prepared : o.status = "SUCCESS"}
          undone == {Outcome(x.ctx, "REFUSED", NoObject) :
                       x \in UNION {answer_vulkan_swapchain_destroy(o.ctx, o.id) :
                                      o \in made}}
      IN  /\ P("SURFACE") # {} /\ Wanted("SWAPCHAIN")
          /\ \E o \in prepared \cup undone :
               Exchange(o, IF o.status # "SUCCESS" THEN client
                           ELSE [Added(o.id, d) EXCEPT !.chains =
                                   Extended(@, {o.id}, o.ctx.chain[o.id])])

\* Views of its images are gone, as Vulkan requires: nothing here checks it.
vkDestroySwapchainKHR ==
    \E s \in P("SWAPCHAIN") :
      /\ ChainViews(client.chains[s]) = {}
      /\ Destroys(answer_vulkan_swapchain_destroy(ctx, s), {s})

vkAcquireNextImageKHR ==
    \E s \in P("SWAPCHAIN") :
      LET d == client.proxies[s] IN
      \E signals \in AtMostOne(Of("SEMAPHORE", d) \cup Of("FENCE", d)) :
        Uses(answer_vulkan_swapchain_acquire(ctx, d, s, signals))
vkQueuePresentKHR ==
    \E q \in P("QUEUE") :
      LET d == client.proxies[q] IN
      \E s \in Of("SWAPCHAIN", d), waits \in AtMostOne(Of("SEMAPHORE", d)) :
        Uses(answer_vulkan_swapchain_present(ctx, s, q, waits))

-----------------------------------------------------------------------------
\* The application ends or dies: the service reads EOF and leaves its loop.
Disconnect ==
    /\ link \in {"up", "down"}
    /\ \E cleanup \in BOOLEAN : ctx' = connection_ended(ctx, cleanup)
    /\ link' = "closed"
    /\ UNCHANGED <<client, refusals, menu>>

Next ==
    \/ connect_locked \/ Disconnect
    \/ vkEnumerateInstanceVersion \/ vkEnumerateInstanceExtensionProperties
    \/ vkCreateInstance \/ vkDestroyInstance
    \/ create_virtual_surface \/ vkDestroySurfaceKHR
    \/ vkEnumeratePhysicalDevices
    \/ vkGetPhysicalDeviceProperties \/ vkGetPhysicalDeviceQueueFamilyProperties
    \/ vkGetPhysicalDeviceMemoryProperties
    \/ vkEnumerateDeviceExtensionProperties
    \/ vkGetPhysicalDeviceFeatures \/ vkGetPhysicalDeviceFeatures2
    \/ vkGetPhysicalDeviceFormatProperties
    \/ vkGetPhysicalDeviceImageFormatProperties
    \/ vkGetPhysicalDeviceExternalBufferProperties
    \/ vkGetPhysicalDeviceExternalSemaphoreProperties
    \/ vkGetPhysicalDeviceSurfaceCapabilitiesKHR
    \/ vkCreateDevice \/ vkDestroyDevice \/ vkGetDeviceQueue
    \/ vkDeviceWaitIdle \/ queue_result_operation
    \/ vkCreateCommandPool \/ vkDestroyCommandPool \/ vkResetCommandPool
    \/ vkAllocateCommandBuffers \/ vkFreeCommandBuffers
    \/ vkBeginCommandBuffer \/ vkEndCommandBuffer
    \/ vkCreateDescriptorSetLayout \/ vkDestroyDescriptorSetLayout
    \/ vkCreateDescriptorPool \/ vkDestroyDescriptorPool
    \/ vkResetDescriptorPool \/ vkAllocateDescriptorSets
    \/ vkCreateQueryPool \/ vkDestroyQueryPool \/ vkGetQueryPoolResults
    \/ vkResetQueryPool \/ vkCreateSampler \/ vkDestroySampler
    \/ vkCreateDescriptorUpdateTemplate \/ vkDestroyDescriptorUpdateTemplate
    \/ vkUpdateDescriptorSets \/ vkUpdateDescriptorSetWithTemplate
    \/ vkCreatePipelineLayout \/ vkDestroyPipelineLayout
    \/ vkCreateGraphicsPipelines \/ create_dxvk_builtin_blit_pipeline
    \/ vkDestroyPipeline \/ vkCreateBuffer \/ vkDestroyBuffer
    \/ vkGetBufferMemoryRequirements \/ vkGetDeviceBufferMemoryRequirements
    \/ vkGetBufferMemoryRequirements2 \/ vkGetBufferDeviceAddress
    \/ vkAllocateMemory \/ vkFreeMemory \/ vkBindBufferMemory
    \/ vkMapMemory \/ vkUnmapMemory \/ bvb_verify_memory_fill
    \/ vkCreateImage \/ vkDestroyImage \/ vkGetImageMemoryRequirements
    \/ vkGetImageMemoryRequirements2 \/ vkBindImageMemory
    \/ vkCreateImageView \/ vkDestroyImageView
    \/ vkCmdFillBuffer \/ vkCmdPipelineBarrier2 \/ vkCmdClearColorImage
    \/ vkCmdBindDescriptorSets \/ submit_single_render_record
    \/ vkCreateFence \/ vkDestroyFence \/ fence_result_operation
    \/ vkWaitForFences \/ vkCreateSemaphore \/ vkDestroySemaphore
    \/ vkGetSemaphoreCounterValue \/ vkSignalSemaphore \/ vkWaitSemaphores
    \/ vkQueueSubmit \/ vkQueueSubmit2
    \/ vkCreateSwapchainKHR \/ vkDestroySwapchainKHR
    \/ vkAcquireNextImageKHR \/ vkQueuePresentKHR

Spec == Init /\ [][Next]_vars

-----------------------------------------------------------------------------
(* Properties.                                                             *)

TypeOK ==
    /\ link \in {"new", "up", "down", "closed"}
    /\ refusals \subseteq Disagreement /\ menu \in Menus
    /\ Cardinality(Live(ctx)) <= Capacity
    /\ \A id \in Live(ctx) : Type(id) \in ObjectTypes
    /\ ctx.bound \cup ctx.mirrored \subseteq DOMAIN ctx.native
    /\ client.mapped \subseteq Known

\* While the connection works the client and the service agree on what
\* exists: the client lists no object the service has forgotten, and the
\* service has nothing the client can no longer destroy except physical
\* devices and queues, which the application need not have asked for, and
\* what a lost device took with it.
ClientMirrors ==
    link = "up" =>
      LET named == (Known \ P("SURFACE")) \cup UNION Range(client.chains)
      IN  /\ named \ ctx.lost \subseteq Live(ctx)
          /\ {id \in Live(ctx) : Type(id) \notin Borrowed} \subseteq named
          /\ client.mapped = ctx.mirrored

\* The types hold; every native object the service owns has a table entry and
\* every entry its native object, so that none leaks on a refused creation and
\* none is used after a destruction; and metadata records live exactly as long
\* as their entries, so that an id never finds the record of another object.
\* That holds also after an exchange whose answer was lost, until the end of the
\* connection.
TableIsExact ==
    /\ TypeOK
    /\ link # "closed" =>
         /\ DOMAIN ctx.native = {id \in Live(ctx) : Type(id) \notin Borrowed}
         /\ ctx.meta = {id \in Live(ctx) : Type(id) \in Described}

\* What the service destroys over live native children when the connection of
\* a --once process ends: bvb_vulkan_global_context_destroy
\* (vulkan_global.c:672-710) looks neither for the views of a swapchain's images
\* nor for what a device still owns.
TornDownOver == {"IMAGE", "DEVICE"}

\* Whatever the application destroys first, no native object is destroyed while
\* a native child of it is alive, and no table entry outlives its parent's.
\* The end of the connection keeps to that only in part: it destroys devices and
\* swapchain images over live children, but no instance, pool or swapchain.
DiesInOrder ==
    /\ ctx.early \subseteq (IF link = "closed" THEN TornDownOver ELSE {})
    /\ link # "closed" =>
         \A id \in Live(ctx) : Type(id) = "INSTANCE"
                                \/ ctx.table[id] \in Live(ctx)

\* A request whose proxies the client has checked is never answered with a
\* status that says the object does not exist or belongs elsewhere, unless a
\* lost device made the service forget it.
RequestsAccepted == ctx.lost = {} => refusals = {}

-----------------------------------------------------------------------------
(* The inductive invariant.                                                *)

\* The type of the object an object of a given type belongs to.
ParentType(type) ==
    IF type = "PHYSICAL_DEVICE" THEN "INSTANCE"
    ELSE IF type = "DEVICE" THEN "PHYSICAL_DEVICE"
    ELSE IF type = "COMMAND_BUFFER" THEN "COMMAND_POOL"
    ELSE IF type = "DESCRIPTOR_SET" THEN "DESCRIPTOR_POOL"
    ELSE IF type = "IMAGE_VIEW" THEN "IMAGE"
    ELSE "DEVICE"

\* The table is a finite forest of live objects, and nothing lost is in it.
TableKnown(c) ==
    /\ IsFiniteSet(Live(c)) /\ Cardinality(Live(c)) <= Capacity
    /\ IsFiniteSet(c.lost) /\ c.lost \cap Live(c) = {}
    /\ \A id \in c.lost : Type(id) \in ObjectTypes
    /\ Live(c) # {} => c.present
    /\ \A id \in Live(c) :
         /\ Type(id) \in ObjectTypes
         /\ IF Type(id) = "INSTANCE" THEN c.table[id] = NoObject
            ELSE /\ c.table[id] \in Live(c)
                 /\ Type(c.table[id]) = ParentType(Type(id))

\* Native objects and records are those of the table, and only a buffer is
\* bound, only a memory is mirrored.
NativesKnown(c) ==
    /\ DOMAIN c.native = {id \in Live(c) : Type(id) \notin Borrowed}
    /\ \A id \in DOMAIN c.native : c.native[id] = c.table[id]
    /\ c.meta = {id \in Live(c) : Type(id) \in Described}
    /\ c.bound \subseteq OfType(c, "BUFFER")
    /\ c.mirrored \subseteq OfType(c, "DEVICE_MEMORY")
    /\ c.early = {}

\* A swapchain has images of its own, which belong to its device.
ChainsKnown(c) ==
    /\ DOMAIN c.chain = OfType(c, "SWAPCHAIN")
    /\ \A s \in DOMAIN c.chain : \A i \in c.chain[s] :
         /\ i \in OfType(c, "IMAGE") /\ c.table[i] = c.table[s]
         /\ \A t \in DOMAIN c.chain : i \in c.chain[t] => t = s

ContextKnown(c) ==
    /\ DOMAIN c = DOMAIN NewContext
    /\ TableKnown(c) /\ NativesKnown(c) /\ ChainsKnown(c)

\* The parent the client gives a proxy: for a view, the device of its image.
ProxyParent(c, id) ==
    IF Type(id) = "IMAGE_VIEW" THEN c.table[c.table[id]] ELSE c.table[id]

\* The client's lists are the service's table: the images of a swapchain are
\* listed with it, borrowed objects when they were asked for, surfaces only here.
ListsKnown(c, cl) ==
    /\ \A id \in DOMAIN cl.proxies :
         /\ Type(id) \in ObjectTypes \cup {"SURFACE"}
         /\ Type(id) # "SURFACE" /\ id \notin c.lost =>
              id \in Live(c) /\ cl.proxies[id] = ProxyParent(c, id)
    /\ \A id \in Live(c) : Type(id) \notin Borrowed =>
         \/ id \in DOMAIN cl.proxies
         \/ \E s \in DOMAIN cl.chains : id \in cl.chains[s]
    /\ cl.mapped = c.mirrored

ClientChainsKnown(c, cl) ==
    /\ DOMAIN cl.chains = {s \in DOMAIN cl.proxies : Type(s) = "SWAPCHAIN"}
    /\ \A s \in DOMAIN cl.chains :
         /\ IF s \in c.lost THEN cl.chains[s] \subseteq c.lost
            ELSE cl.chains[s] = c.chain[s]
         /\ cl.chains[s] \cap DOMAIN cl.proxies = {}

\* A device was made from a physical device the client lists.
PhysicalsListed(c, cl) ==
    \A d \in OfType(c, "DEVICE") : c.table[d] \in DOMAIN cl.proxies

InStep(c, cl) ==
    ListsKnown(c, cl) /\ ClientChainsKnown(c, cl) /\ PhysicalsListed(c, cl)

\* What is left of a context after the connection.
Leftover(c) ==
    /\ Cardinality(Live(c)) <= Capacity
    /\ \A id \in Live(c) : Type(id) \in ObjectTypes
    /\ c.bound \cup c.mirrored \subseteq DOMAIN c.native
    /\ c.early \subseteq TornDownOver

BridgeInv ==
    /\ link \in {"new", "up", "down", "closed"}
    /\ refusals \subseteq Disagreement /\ menu \in Menus
    /\ DOMAIN client = {"proxies", "chains", "mapped"} /\ client.mapped \subseteq Known
    /\ link = "up" => ctx.negotiated
    /\ ctx.lost = {} => refusals = {}
    /\ link # "closed" => ContextKnown(ctx)
    /\ link = "closed" => Leftover(ctx)
    /\ link \in {"new", "up"} => InStep(ctx, client)
=============================================================================
