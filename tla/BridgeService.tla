---------------------------- MODULE BridgeService ----------------------------
(***************************************************************************)
(* The answers of the service to the requests of one connection            *)
(* (bridge_service.c).  A request that does not fit the state is answered  *)
(* with a negative status and the connection goes on; every operator       *)
(* returns the outcomes among which the driver and the Activity decide.    *)
(***************************************************************************)
EXTENDS ServiceObjects

\* The head of every answer_* function.
Served(c, outcomes) ==
    IF c.negotiated /\ c.present THEN outcomes ELSE Fails(c, "EPROTO")

answer_hello(c) == Succeeds([c EXCEPT !.negotiated = TRUE])
answer_vulkan_caps(c) == IF c.negotiated THEN Succeeds(c) ELSE Fails(c, "EPROTO")
answer_activity_status(c) ==
    IF c.negotiated THEN Succeeds(c) ELSE Fails(c, "EPROTO")

\* Creating the context loads the Vulkan driver, which may fail.
ensure_vulkan_global_context(c) ==
    IF c.present THEN {c} ELSE {c, [c EXCEPT !.present = TRUE]}

\* The requests that may come before any context exists.
First(c, Answer(_)) ==
    IF ~ c.negotiated THEN Fails(c, "EPROTO")
    ELSE UNION {IF x.present THEN Answer(x) ELSE Fails(x, "EIO") :
                  x \in ensure_vulkan_global_context(c)}

answer_vulkan_global_info(c) == First(c, info)
answer_vulkan_instance_extensions(c) == First(c, enumerate_instance_extensions)
answer_vulkan_instance_create(c) == First(c, create_instance)
answer_vulkan_instance_destroy(c, i) == Served(c, destroy_instance(c, i))
answer_vulkan_physical_devices(c, i) ==
    Served(c, enumerate_physical_devices(c, i))

answer_vulkan_physical_device_properties(c, p) ==
    Served(c, get_physical_device_properties(c, p))
answer_vulkan_queue_family_properties(c, p) ==
    Served(c, get_queue_family_properties(c, p))
answer_vulkan_memory_properties(c, p) == Served(c, get_memory_properties(c, p))
answer_vulkan_device_extensions(c, p) == Served(c, enumerate_device_extensions(c, p))
answer_vulkan_physical_device_features(c, p) ==
    Served(c, get_physical_device_features(c, p))
answer_vulkan_core_features(c, p) == Served(c, get_core_features(c, p))
answer_vulkan_format_properties(c, p) ==
    Served(c, get_format_properties(c, p) \cup get_format_properties_3(c, p))
answer_vulkan_image_format_properties(c, p) ==
    Served(c, get_image_format_properties(c, p))
answer_vulkan_external_buffer_properties(c, p) ==
    Served(c, get_external_buffer_properties(c, p))
answer_vulkan_external_semaphore_properties(c, p) ==
    Served(c, get_external_semaphore_properties(c, p))

answer_vulkan_device_create(c, p) == Served(c, create_device_packed(c, p))
answer_vulkan_device_destroy(c, d) == Served(c, destroy_device(c, d))
answer_vulkan_device_queue(c, d) == Served(c, get_device_queue(c, d))
answer_vulkan_queue_operation(c, q) ==
    Served(c, queue_submit_empty(c, q) \cup queue_wait_idle(c, q))
answer_vulkan_device_wait_idle(c, d) == Served(c, device_wait_idle(c, d))

answer_vulkan_command_pool_create(c, d) == Served(c, create_command_pool(c, d))
answer_vulkan_command_pool_destroy(c, pool) ==
    Served(c, destroy_command_pool(c, pool))
answer_vulkan_command_pool_reset(c, pool) ==
    Served(c, reset_command_pool(c, pool))
answer_vulkan_command_buffer_allocate(c, pool) ==
    Served(c, allocate_command_buffer(c, pool))
answer_vulkan_command_buffer_free(c, pool, cb) ==
    Served(c, free_command_buffer(c, pool, cb))
answer_vulkan_command_buffer_begin(c, cb) ==
    Served(c, begin_command_buffer(c, cb))
answer_vulkan_command_buffer_end(c, cb) == Served(c, end_command_buffer(c, cb))
answer_vulkan_queue_submit_command(c, q, cb) ==
    Served(c, queue_submit_command(c, q, cb))

\* One function answers the creation of most objects, by opcode; uses holds
\* the other objects the request names.
answer_vulkan_resource_create(c, type, d, uses) ==
    LET only == CHOOSE id \in uses : TRUE
    IN  Served(c,
          CASE type = "BUFFER" -> create_buffer(c, d)
            [] type = "DEVICE_MEMORY" -> allocate_memory_extended(c, d, uses)
            [] type = "FENCE" -> create_fence(c, d)
            [] type = "SEMAPHORE" -> create_semaphore(c, d)
            [] type = "DESCRIPTOR_SET_LAYOUT" ->
                 create_descriptor_set_layout(c, d, uses)
            [] type = "DESCRIPTOR_POOL" -> create_descriptor_pool(c, d)
            [] type = "QUERY_POOL" -> create_query_pool(c, d)
            [] type = "SAMPLER" -> create_sampler(c, d)
            [] type = "UPDATE_TEMPLATE" ->
                 create_descriptor_update_template(c, d, only)
            [] type = "PIPELINE_LAYOUT" -> create_pipeline_layout(c, d, uses)
            [] type = "PIPELINE" -> create_graphics_pipeline(c, d, only)
            [] type = "IMAGE" -> create_image(c, d)
            [] type = "IMAGE_VIEW" -> create_image_view(c, d, only))

\* The schema in the request decides which of the two it is.
answer_vulkan_builtin_graphics_pipeline(c, d, layout) ==
    Served(c, create_builtin_graphics_pipeline(c, d, layout)
                \cup create_general_graphics_pipeline(c, d, layout))

answer_vulkan_resource_destroy(c, id) ==
    Served(c,
      CASE Type(id) = "BUFFER" -> destroy_buffer(c, id)
        [] Type(id) = "DEVICE_MEMORY" -> free_memory(c, id)
        [] Type(id) = "FENCE" -> destroy_fence(c, id)
        [] Type(id) = "SEMAPHORE" -> destroy_semaphore(c, id)
        [] Type(id) = "DESCRIPTOR_SET_LAYOUT" ->
             destroy_descriptor_set_layout(c, id)
        [] Type(id) = "DESCRIPTOR_POOL" -> destroy_descriptor_pool(c, id)
        [] Type(id) = "QUERY_POOL" -> destroy_query_pool(c, id)
        [] Type(id) = "SAMPLER" -> destroy_sampler(c, id)
        [] Type(id) = "UPDATE_TEMPLATE" ->
             destroy_descriptor_update_template(c, id)
        [] Type(id) = "PIPELINE_LAYOUT" -> destroy_pipeline_layout(c, id)
        [] Type(id) = "PIPELINE" -> destroy_pipeline(c, id)
        [] Type(id) = "IMAGE" -> destroy_image(c, id)
        [] Type(id) = "IMAGE_VIEW" -> destroy_image_view(c, id))

answer_vulkan_descriptor_set_allocate(c, pool, layout) ==
    Served(c, allocate_descriptor_sets(c, pool, layout))
answer_vulkan_descriptor_pool_reset(c, pool) ==
    Served(c, reset_descriptor_pool(c, pool))
answer_vulkan_query_pool_results(c, q) == Served(c, get_query_pool_results(c, q))
answer_vulkan_query_pool_reset(c, q) == Served(c, reset_query_pool(c, q))
answer_vulkan_descriptor_update(c, d, set, samplers) ==
    Served(c, update_descriptors(c, d, set, samplers))
answer_vulkan_descriptor_template_update(c, d, set, t, views, others) ==
    Served(c, update_descriptor_set_with_template(c, d, set, t, views, others))

answer_vulkan_buffer_requirements(c, b) ==
    Served(c, get_buffer_requirements(c, b))
answer_vulkan_device_buffer_requirements(c, d) ==
    Served(c, get_device_buffer_requirements(c, d))
answer_vulkan_buffer_requirements_2(c, b) ==
    Served(c, get_buffer_requirements_2(c, b))
answer_vulkan_buffer_device_address(c, b) ==
    Served(c, get_buffer_device_address(c, b))
answer_vulkan_buffer_bind(c, b, m) == Served(c, bind_buffer_memory(c, b, m))
answer_vulkan_image_requirements(c, i) ==
    Served(c, get_image_requirements(c, i))
answer_vulkan_image_requirements_2(c, i) ==
    Served(c, get_image_requirements_2(c, i))
answer_vulkan_image_bind(c, i, m) == Served(c, bind_image_memory(c, i, m))

answer_vulkan_command_buffer_fill(c, cb, b) ==
    Served(c, command_buffer_fill(c, cb, b))
answer_vulkan_command_buffer_image_barrier(c, cb, is) ==
    Served(c, command_buffer_image_barrier(c, cb, is))
answer_vulkan_command_buffer_clear_color_image(c, cb, i) ==
    Served(c, command_buffer_clear_color_image(c, cb, i))
answer_vulkan_command_buffer_bind_descriptor_sets(c, cb, layout, sets) ==
    Served(c, command_buffer_bind_descriptor_sets(c, cb, layout, sets))
answer_vulkan_command_buffer_immediate_record(c, cb, uses) ==
    Served(c, execute_immediate_record(c, cb, uses))
answer_vulkan_memory_verify_fill(c, m) == Served(c, verify_memory_fill(c, m))
answer_vulkan_memory_mirror_setup(c, d, m) ==
    Served(c, setup_memory_mirror(c, d, m))
answer_vulkan_memory_mirror_unmap(c, m) == Served(c, unmap_memory_mirror(c, m))

answer_vulkan_fence_operation(c, f) ==
    Served(c, get_fence_status(c, f) \cup reset_fence(c, f))
answer_vulkan_fence_wait(c, f) == Served(c, wait_fence(c, f))
answer_vulkan_semaphore_counter(c, s) == Served(c, get_semaphore_counter(c, s))
answer_vulkan_semaphore_wait(c, d, ss) == Served(c, wait_semaphores(c, d, ss))
answer_vulkan_semaphore_signal(c, d, s) == Served(c, signal_semaphore(c, d, s))
answer_vulkan_queue_submit_command_fence(c, q, cb, f) ==
    Served(c, queue_submit_command_fence(c, q, cb, f))
answer_vulkan_queue_submit_2(c, q, uses) == Served(c, queue_submit_2(c, q, uses))

\* The Activity must have a window, a renderer and the size asked for; its
\* frame socket may fail after the swapchain was prepared, which undoes it.
answer_vulkan_swapchain_prepare(c, d) ==
    LET prepared == prepare_swapchain(c, d)
        made == {o \in prepared : o.status = "SUCCESS"}
        undone == {Outcome(destroy_swapchain_metadata(o.ctx, {o.id}), "EPIPE",
                           NoObject) : o \in made}
    IN  Served(c, Fails(c, "EAGAIN") \cup prepared \cup undone)
answer_vulkan_swapchain_destroy(c, s) == Served(c, destroy_swapchain(c, s))
answer_vulkan_swapchain_acquire(c, d, s, signals) ==
    Served(c, acquire_swapchain_image(c, d, s, signals))
answer_vulkan_swapchain_present(c, s, q, waits) ==
    Served(c, present_swapchain_image(c, s, q, waits))

\* The end of serve_connection: only a foreground connection (--once) frees
\* the context; a detached worker keeps it until the process ends.
connection_ended(c, cleanup) ==
    IF cleanup /\ c.present THEN [context_destroy(c) EXCEPT !.present = FALSE]
    ELSE c
=============================================================================
