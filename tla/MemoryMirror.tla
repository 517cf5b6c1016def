---------------------------- MODULE MemoryMirror ----------------------------
(***************************************************************************)
(* One device memory allocation mapped by the application through the      *)
(* bridge: the client (global_dispatch.c) hands out a private shadow, a    *)
(* shared memfd mirror or the exported native memory; the service          *)
(* (vulkan_global.c) keeps the native mapping and, for a coherent mirror,  *)
(* a private baseline against which it finds the bytes the host changed.   *)
(* Application threads write the mapped bytes while another one submits,   *)
(* and the GPU writes the native bytes.                                    *)
(***************************************************************************)
EXTENDS Naturals, FiniteSets

CONSTANTS
    Bytes,            \* the bytes of the mapped range
    Values,           \* what a byte may hold; 0 is the content of a new memfd
    Modes,            \* values of BVB_MAPPED_MEMORY: "strict" "shared" "direct"
    MaxMaps           \* bound: mappings made in one behaviour

ASSUME MirrorAssumption ==
    /\ 0 \in Values
    /\ Modes \subseteq {"strict", "shared", "direct"}
    /\ MaxMaps \in Nat

VARIABLES
    mode, coherent, exportable,   \* what connect and allocate fixed
    link,      \* "up", "down" (socket broken) or "poisoned" (closed for good)
    alive,     \* [client, service]: the allocation exists on that side
    bound,     \* [client, service]: kinds of resources bound to it
    cmap,      \* the client's mapping: kind and generation
    slot,      \* the service's memory_mirrors entry: kind and generation
    maps,      \* generations handed out so far
    native,    \* bytes of the native memory
    view,      \* bytes of the shadow or of the memfd the application writes
    baseline,  \* the service's private copy of a mirror
    gpu,       \* work of an earlier submission may still write native bytes
    call,      \* what the scan is part of: "submit", "unmap", else "none"
    pc,        \* the service's step: "idle", "scan" or "baseline" of an upload,
               \* "flush" or "invalidate" between the two copies of a range
    todo,      \* bytes the scan of the mirror has not passed yet
    run,       \* bytes found dirty, or of which one of two copies is made
    hostWrote, \* history: bytes the host wrote since they were last compared
    gpuWrote,  \* history: bytes the GPU wrote since they were last copied
    late,      \* history: bytes the host wrote during the submit in progress
    torn,      \* history: host stores between two reads of the mirror
    stale      \* history: GPU writes between the two reads of an invalidate

config == <<mode, coherent, exportable>>
memory == <<native, view, baseline>>
submit == <<call, pc, todo, run, late>>
history == <<hostWrote, gpuWrote, torn, stale>>
vars == <<config, link, alive, bound, cmap, slot, maps, memory, gpu, submit,
          history>>

Sides == {"client", "service"}
Kinds == {"none", "shadow", "mirror", "direct"}
Nothing == [kind |-> "none", generation |-> 0]

\* The application's pointer: the native bytes themselves when mapped direct.
Seen(b) == IF cmap.kind = "direct" THEN native[b] ELSE view[b]

Init ==
    /\ mode \in Modes /\ coherent \in BOOLEAN /\ exportable \in BOOLEAN
    /\ link = "up"
    /\ alive = [s \in Sides |-> TRUE]
    /\ bound = [s \in Sides |-> {}]
    /\ cmap = Nothing /\ slot = Nothing /\ maps = 0
    /\ native = [b \in Bytes |-> 0]
    /\ view = native /\ baseline = native
    /\ gpu = FALSE
    /\ call = "none" /\ pc = "idle" /\ todo = {} /\ run = {} /\ late = {}
    /\ hostWrote = {} /\ gpuWrote = {} /\ torn = {} /\ stale = {}

\* A client call that makes an exchange: no other one holds the client's mutex.
Calls == pc = "idle" /\ alive["client"]

\* Copying bs of one function over another.
Copied(to, from, bs) == [b \in Bytes |-> IF b \in bs THEN from[b] ELSE to[b]]

-----------------------------------------------------------------------------
(* Binding resources, which decides who may use a mirror.                  *)

\* A mirror is only for memory bound, and bound to buffers alone.
memory_is_buffer_only(side) == bound[side] = {"buffer"}

memory_is_buffer_only_locked == memory_is_buffer_only("client")

\* Service: a buffer may be bound whatever the state of the mapping.
bind_buffer_memory == bound["service"] \cup {"buffer"}

\* Mutant: only a mirror, not a direct mapping, keeps images away.
bind_image_mirror_only == slot.kind = "mirror"

\* Service: an image is refused while the allocation has an active mapping.
bind_image_refused == slot # Nothing

bind_image_memory ==
    IF bind_image_refused THEN bound["service"]
    ELSE bound["service"] \cup {"image"}

\* The client records a binding only after VK_SUCCESS came back.
vkBindBufferMemory ==
    /\ Calls /\ link = "up"
    /\ \/ bound' = [s \in Sides |-> IF s = "client"
                                    THEN bound["client"] \cup {"buffer"}
                                    ELSE bind_buffer_memory]
          /\ UNCHANGED link
       \/ /\ bound' = [bound EXCEPT !["service"] = bind_buffer_memory]
          /\ link' = "down"
    /\ UNCHANGED <<config, alive, cmap, slot, maps, memory, gpu, submit,
                   history>>

vkBindImageMemory ==
    /\ Calls /\ link = "up"
    /\ \/ /\ bound' = [s \in Sides |->
                         IF s = "service" THEN bind_image_memory
                         ELSE IF bind_image_refused THEN bound["client"]
                         ELSE bound["client"] \cup {"image"}]
          /\ UNCHANGED link
       \/ /\ bound' = [bound EXCEPT !["service"] = bind_image_memory]
          /\ link' = "down"
    /\ UNCHANGED <<config, alive, cmap, slot, maps, memory, gpu, submit,
                   history>>

-----------------------------------------------------------------------------
(* vkMapMemory: a private shadow, a mirror, or the exported memory itself. *)

\* memory_read: the native bytes, whatever their coherence, fill the shadow.
memory_read_locked(bs) == view' = Copied(view, native, bs)

\* memory_write: every byte of the range, changed or not.
memory_write_locked(bs) == native' = Copied(native, view, bs)

\* The service accepts a mirror or a direct mapping: the memory is live, bound
\* to buffers only, and has no mapping yet.
mapping_acceptable ==
    alive["service"] /\ memory_is_buffer_only("service") /\ slot = Nothing

direct_acceptable == mapping_acceptable /\ exportable /\ coherent

Maps(kind) == cmap' = [kind |-> kind, generation |-> maps + 1]

Reserves(kind) == slot' = [kind |-> kind, generation |-> maps + 1]

\* A mirror of coherent memory starts with the native content, any other one
\* with the zeros of a new memfd; the baseline is a copy of it.
setup_memory_mirror ==
    /\ Reserves("mirror")
    /\ view' = IF coherent THEN native ELSE [b \in Bytes |-> 0]
    /\ baseline' = view'
    /\ UNCHANGED native
    /\ hostWrote' = {} /\ torn' = {} /\ stale' = {}
    /\ gpuWrote' = IF coherent THEN {} ELSE gpuWrote

setup_direct_memory ==
    /\ Reserves("direct")
    /\ UNCHANGED <<memory, history>>

release_memory_mirror == slot' = Nothing

\* A service error or a lost answer leaves the client not knowing whether the
\* service has the mapping, so it closes the connection for good.
Poison == link' = "poisoned" /\ UNCHANGED cmap

NoMapping == UNCHANGED <<link, cmap, slot, memory, history>>

\* The mirror path of vkMapMemory: mapped; refused by the native map; or the
\* answer is lost, the service having set the mirror up or not.
setup_memory_mirror_locked ==
    IF ~mapping_acceptable
    THEN /\ link' = IF memory_is_buffer_only("service") THEN "poisoned" ELSE link
         /\ UNCHANGED <<cmap, slot, memory, history>>
    ELSE \/ setup_memory_mirror /\ Maps("mirror") /\ UNCHANGED link
         \/ NoMapping
         \/ setup_memory_mirror /\ Poison
         \/ Poison /\ UNCHANGED <<slot, memory, history>>

\* The direct path: exported and mapped; exported but the client cannot map the
\* descriptor, so it unmaps the remote side and closes the connection; lost.
setup_direct_memory_locked ==
    \/ setup_direct_memory /\ Maps("direct") /\ UNCHANGED link
    \/ Poison /\ release_memory_mirror /\ UNCHANGED <<memory, history>>
    \/ setup_direct_memory /\ Poison
    \/ Poison /\ UNCHANGED <<slot, memory, history>>

\* Direct mapping is tried first; a clean refusal (or an unaligned offset)
\* falls back to the mirror within the same call.
vkMapMemory ==
    /\ Calls /\ link = "up" /\ cmap = Nothing /\ maps < MaxMaps
    /\ maps' = maps + 1
    /\ IF mode # "strict" /\ memory_is_buffer_only_locked
       THEN \/ mode = "direct" /\ direct_acceptable /\ setup_direct_memory_locked
            \/ setup_memory_mirror_locked
       ELSE \/ /\ memory_read_locked(Bytes) /\ Maps("shadow")
               /\ hostWrote' = {} /\ gpuWrote' = {} /\ torn' = {} /\ stale' = {}
               /\ UNCHANGED <<link, slot, native, baseline>>
            \/ NoMapping
            \/ link' = "down" /\ UNCHANGED <<cmap, slot, memory, history>>
    /\ UNCHANGED <<config, alive, bound, gpu, submit>>

-----------------------------------------------------------------------------
(* The copies between the three memories.  The mirror is shared with the   *)
(* application and the native memory with the GPU: each copy reads it      *)
(* again, and both may have changed since the last read.                   *)

\* Mirror to native.
CopyToNative(bs) ==
    /\ native' = Copied(native, view, bs)
    /\ gpuWrote' = gpuWrote \ bs /\ torn' = torn \ bs
    /\ UNCHANGED <<view, baseline, hostWrote, stale>>

\* Mirror to baseline.
CopyToBaseline(bs) ==
    /\ baseline' = Copied(baseline, view, bs)
    /\ hostWrote' = hostWrote \ bs /\ stale' = stale \ bs
    /\ UNCHANGED <<native, view, gpuWrote, torn>>

-----------------------------------------------------------------------------
(* Explicit ranges.                                                        *)

resolve_memory_mirror ==
    slot.kind = "mirror" /\ slot.generation = cmap.generation

\* Service: the range is copied whole, first to the native memory.
flush_memory_mirror(bs) ==
    /\ CopyToNative(bs)
    /\ run' = bs /\ pc' = "flush"

\* Native to mirror, the first of the two reads of the native bytes.
invalidate_memory_mirror(bs) ==
    /\ view' = Copied(view, native, bs)
    /\ hostWrote' = hostWrote \ bs /\ stale' = stale \ bs
    /\ UNCHANGED <<native, baseline, gpuWrote, torn>>
    /\ run' = bs /\ pc' = "invalidate"

memory_mirror_range_locked(bs, invalidate) ==
    /\ resolve_memory_mirror
    /\ IF invalidate THEN invalidate_memory_mirror(bs)
                     ELSE flush_memory_mirror(bs)
    /\ UNCHANGED <<call, todo, late>>

\* The second copy reads the mirror again.
flush_baseline ==
    /\ pc = "flush" /\ CopyToBaseline(run)
    /\ run' = {} /\ pc' = "idle"
    /\ link' \in {"up", "down"}
    /\ UNCHANGED <<config, alive, bound, cmap, slot, maps, gpu, call, todo, late>>

\* The second copy reads the native memory again.
invalidate_baseline ==
    /\ pc = "invalidate"
    /\ baseline' = Copied(baseline, native, run)
    /\ gpuWrote' = gpuWrote \ run /\ torn' = torn \ run
    /\ run' = {} /\ pc' = "idle"
    /\ link' \in {"up", "down"}
    /\ UNCHANGED <<config, alive, bound, cmap, slot, maps, native, view, gpu,
                   call, todo, late, hostWrote, stale>>

\* One copy makes the shadow and the native memory agree.
Agreed(bs) ==
    /\ hostWrote' = hostWrote \ bs
    /\ gpuWrote' = gpuWrote \ bs
    /\ UNCHANGED <<torn, stale>>

mapped_range_locked(bs, invalidate) ==
    \/ cmap.kind = "direct" /\ UNCHANGED <<memory, history, submit>>
    \/ cmap.kind = "mirror" /\ memory_mirror_range_locked(bs, invalidate)
    \/ /\ cmap.kind = "shadow"
       /\ IF invalidate THEN memory_read_locked(bs) /\ UNCHANGED native
                        ELSE memory_write_locked(bs) /\ UNCHANGED view
       /\ Agreed(bs)
       /\ UNCHANGED <<baseline, submit>>

\* vkFlushMappedMemoryRanges and vkInvalidateMappedMemoryRanges.
mapped_ranges_operation(bs, invalidate) ==
    /\ Calls /\ link = "up" /\ cmap # Nothing /\ bs # {}
    /\ mapped_range_locked(bs, invalidate)
    /\ UNCHANGED <<config, link, alive, bound, cmap, slot, maps, gpu>>

-----------------------------------------------------------------------------
(* The upload of a coherent mirror: byte by byte compared with the         *)
(* baseline, the differing ones copied.                                    *)

CoherentMirror == slot.kind = "mirror" /\ coherent

\* Mutant: the whole mirror is uploaded, changed or not.
upload_everything ==
    /\ pc = "scan" /\ todo # {}
    /\ run' = run \cup todo /\ todo' = {}
    /\ UNCHANGED <<config, link, alive, bound, cmap, slot, maps, memory, gpu,
                   call, pc, late, history>>

\* The scan passes an equal byte, or takes a differing one into the dirty run.
upload_host_diverged_range ==
    /\ pc = "scan"
    /\ \E b \in todo :
          /\ todo' = todo \ {b}
          /\ \/ /\ view[b] = baseline[b]
                /\ hostWrote' = hostWrote \ {b} /\ stale' = stale \ {b}
                /\ UNCHANGED run
             \/ /\ view[b] # baseline[b]
                /\ run' = run \cup {b}
                /\ UNCHANGED <<hostWrote, stale>>
    /\ UNCHANGED <<config, link, alive, bound, cmap, slot, maps, memory, gpu,
                   call, pc, late, gpuWrote, torn>>

\* The run is copied to the native memory ...
upload_native ==
    /\ pc = "scan" /\ run # {}
    /\ CopyToNative(run)
    /\ pc' = "baseline"
    /\ UNCHANGED <<config, link, alive, bound, cmap, slot, maps, gpu, call, todo,
                   run, late>>

\* Mutant: the baseline follows the whole mirror, not the run just copied.
baseline_whole ==
    /\ pc = "baseline"
    /\ CopyToBaseline(Bytes)
    /\ run' = {} /\ pc' = "scan"
    /\ UNCHANGED <<config, link, alive, bound, cmap, slot, maps, gpu, call, todo,
                   late>>

\* ... and, read again, to the baseline.
upload_baseline ==
    /\ pc = "baseline"
    /\ CopyToBaseline(run)
    /\ run' = {} /\ pc' = "scan"
    /\ UNCHANGED <<config, link, alive, bound, cmap, slot, maps, gpu, call, todo,
                   late>>

Uploaded == pc = "scan" /\ todo = {} /\ run = {}

-----------------------------------------------------------------------------
(* vkQueueSubmit: the strict shadows are written by the client, the        *)
(* coherent mirrors are compared and uploaded by the service.              *)

\* Every byte of a shadow is written before the request is sent.
flush_mapped_resources_locked ==
    IF cmap.kind = "shadow"
    THEN /\ memory_write_locked(Bytes) /\ UNCHANGED <<view, baseline>>
         /\ Agreed(Bytes)
    ELSE UNCHANGED <<memory, history>>

\* Mutant: coherent and other mirrors are confused.
sync_other_mirrors == IF slot.kind = "mirror" /\ ~coherent THEN Bytes ELSE {}

\* Which bytes the service's scan has to look at: those of a coherent mirror.
sync_coherent_memory_mirrors == IF CoherentMirror THEN Bytes ELSE {}

vkQueueSubmit ==
    /\ Calls /\ link = "up"
    /\ flush_mapped_resources_locked
    /\ call' = "submit" /\ pc' = "scan" /\ todo' = sync_coherent_memory_mirrors
    /\ UNCHANGED <<config, link, alive, bound, cmap, slot, maps, gpu, run, late>>

\* The native vkQueueSubmit and the answer, which may be lost.
queue_submit_command ==
    /\ call = "submit" /\ Uploaded
    /\ call' = "none" /\ pc' = "idle" /\ gpu' = TRUE /\ late' = {}
    /\ link' \in {"up", "down"}
    /\ UNCHANGED <<config, alive, bound, cmap, slot, maps, memory, todo, run,
                   history>>

-----------------------------------------------------------------------------
(* vkUnmapMemory and vkFreeMemory.                                         *)

release_mapped_shadow_locked == cmap' = Nothing

\* Whatever happens to the request, the local mapping is given up; a request
\* that does not reach the service closes the connection for good.
unmap_memory_mirror_locked ==
    \/ /\ link = "up"
       /\ call' = "unmap" /\ pc' = "scan"
       /\ todo' = IF CoherentMirror THEN Bytes ELSE {}
       /\ UNCHANGED <<link, cmap, run, late>>
    \/ link' = "poisoned" /\ release_mapped_shadow_locked /\ UNCHANGED submit

vkUnmapMemory ==
    /\ Calls /\ cmap # Nothing
    /\ IF cmap.kind = "shadow"
       THEN /\ release_mapped_shadow_locked
            /\ \/ link = "up" /\ memory_write_locked(Bytes) /\ UNCHANGED link
               \/ UNCHANGED native /\ link' = IF link = "up" THEN "down" ELSE link
            /\ UNCHANGED <<view, baseline, submit>>
       ELSE unmap_memory_mirror_locked /\ UNCHANGED memory
    /\ UNCHANGED <<config, alive, bound, slot, maps, gpu, history>>

\* Mutant: the service keeps the entry of a direct mapping.
unmap_forgets_direct ==
    /\ call = "unmap" /\ Uploaded
    /\ slot' = IF slot.kind = "direct" THEN slot ELSE Nothing
    /\ release_mapped_shadow_locked
    /\ call' = "none" /\ pc' = "idle"
    /\ link' \in {"up", "poisoned"}
    /\ UNCHANGED <<config, alive, bound, maps, memory, gpu, todo, run, late,
                   history>>

\* The upload is done: the native mapping is given up; without its
\* acknowledgement the client closes the connection for good.
unmap_memory_mirror ==
    /\ call = "unmap" /\ Uploaded
    /\ release_memory_mirror
    /\ release_mapped_shadow_locked
    /\ call' = "none" /\ pc' = "idle"
    /\ link' \in {"up", "poisoned"}
    /\ UNCHANGED <<config, alive, bound, maps, memory, gpu, todo, run, late,
                   history>>

\* Service: memory with an active mapping is not freed.
free_memory == alive["service"] /\ slot = Nothing

\* The unmap that vkFreeMemory starts with has ended; the client forgets the
\* allocation only when the service answered without error.
vkFreeMemory ==
    /\ Calls /\ cmap = Nothing /\ link = "up" /\ ~gpu
    /\ IF free_memory
       THEN \/ alive' = [s \in Sides |-> FALSE] /\ UNCHANGED link
            \/ alive' = [alive EXCEPT !["service"] = FALSE] /\ link' = "down"
       ELSE UNCHANGED <<alive, link>>
    /\ UNCHANGED <<config, bound, cmap, slot, maps, memory, gpu, submit,
                   history>>

\* The service sees the connection end and gives every mapping up.
release_all_memory_mirrors ==
    /\ link # "up" /\ pc = "idle" /\ slot # Nothing
    /\ release_memory_mirror
    /\ UNCHANGED <<config, link, alive, bound, cmap, maps, memory, gpu, submit,
                   history>>

-----------------------------------------------------------------------------
(* The application and the GPU (external).                                 *)

\* An application thread stores to a mapped byte the GPU is not writing, perhaps
\* while another thread of it is in a call, but not in the unmap.
HostWrite(b, v) ==
    /\ cmap # Nothing /\ call # "unmap" /\ v # Seen(b)
    /\ IF cmap.kind = "direct"
       THEN native' = [native EXCEPT ![b] = v] /\ UNCHANGED view
       ELSE view' = [view EXCEPT ![b] = v] /\ UNCHANGED native
    /\ hostWrote' = hostWrote \cup {b}
    /\ late' = IF call = "submit" THEN late \cup {b} ELSE late
    /\ torn' = IF pc \in {"baseline", "flush"} THEN torn \cup ({b} \cap run)
               ELSE torn
    /\ UNCHANGED <<config, link, alive, bound, cmap, slot, maps, baseline, gpu,
                   call, pc, todo, run, gpuWrote, stale>>

\* Submitted work writes a byte the host has no unsubmitted store to, whatever
\* call is in progress.
GpuWrite(b, v) ==
    /\ gpu /\ b \notin hostWrote
    /\ native' = [native EXCEPT ![b] = v]
    /\ gpuWrote' = gpuWrote \cup {b}
    /\ stale' = IF pc = "invalidate" THEN stale \cup ({b} \cap run) ELSE stale
    /\ UNCHANGED <<config, link, alive, bound, cmap, slot, maps, view, baseline,
                   gpu, submit, hostWrote, torn>>

GpuIdle ==
    /\ gpu /\ gpu' = FALSE
    /\ UNCHANGED <<config, link, alive, bound, cmap, slot, maps, memory, submit,
                   history>>

Next ==
    \/ vkBindBufferMemory \/ vkBindImageMemory \/ vkMapMemory
    \/ \E bs \in SUBSET Bytes, i \in BOOLEAN : mapped_ranges_operation(bs, i)
    \/ flush_baseline \/ invalidate_baseline
    \/ vkQueueSubmit \/ queue_submit_command
    \/ upload_host_diverged_range \/ upload_native \/ upload_baseline
    \/ vkUnmapMemory \/ unmap_memory_mirror \/ vkFreeMemory
    \/ release_all_memory_mirrors
    \/ \E b \in Bytes, v \in Values : HostWrite(b, v) \/ GpuWrite(b, v)
    \/ GpuIdle

Spec == Init /\ [][Next]_vars

-----------------------------------------------------------------------------
(* Properties.                                                             *)

\* Every variable has its type.
TypeOK ==
    /\ mode \in Modes /\ coherent \in BOOLEAN /\ exportable \in BOOLEAN
    /\ link \in {"up", "down", "poisoned"}
    /\ alive \in [Sides -> BOOLEAN]
    /\ bound \in [Sides -> SUBSET {"buffer", "image"}]
    /\ cmap \in [kind : Kinds, generation : 0 .. MaxMaps]
    /\ slot \in [kind : Kinds \ {"shadow"}, generation : 0 .. MaxMaps]
    /\ maps \in 0 .. MaxMaps
    /\ native \in [Bytes -> Values] /\ view \in [Bytes -> Values]
    /\ baseline \in [Bytes -> Values]
    /\ gpu \in BOOLEAN /\ call \in {"none", "submit", "unmap"}
    /\ pc \in {"idle", "scan", "baseline", "flush", "invalidate"}
    /\ todo \subseteq Bytes /\ run \subseteq Bytes
    /\ hostWrote \subseteq Bytes /\ gpuWrote \subseteq Bytes
    /\ late \subseteq Bytes /\ torn \subseteq Bytes /\ stale \subseteq Bytes

\* The types hold and, while the connection works, the client has a mirror or a direct mapping
\* exactly when the service has the same one, of the same generation: no
\* setup, failed setup, refused setup or unmap leaves one side behind.
SidesAgree ==
    /\ TypeOK
    /\ link = "up" =>
         /\ slot = IF cmap.kind \in {"mirror", "direct"} THEN cmap ELSE Nothing
         /\ alive["client"] = alive["service"]
         /\ bound["client"] = bound["service"]

\* Memory mapped through a mirror or directly never has an image bound to it,
\* neither before nor after the mapping.
ImagesStayStrict == slot # Nothing => "image" \notin bound["service"]

\* A host change the baseline no longer tells apart has reached the native byte,
\* unless the GPU wrote the byte since: the comparison forgets nothing, whatever
\* the other threads of the application store meanwhile.  The exception is a
\* store between two reads of the mirror, one for the native bytes and one for
\* the baseline: it enters the baseline only.  An upload reads a dirty run twice
\* (vulkan_global.c:8237-8240) and a flush its range (8548-8551).
NoChangeForgotten ==
    CoherentMirror =>
        \A b \in Bytes \ (run \cup gpuWrote \cup torn) :
            view[b] = baseline[b] => native[b] = view[b]

\* Work handed to the native queue finds what the host wrote to coherent or
\* shadowed memory before the submit, unless the GPU wrote the byte since; a
\* store torn by an earlier upload or flush is the exception again.
SubmitSeesHostWrites ==
    [][queue_submit_command /\ cmap # Nothing
            /\ (coherent \/ cmap.kind = "shadow") =>
        \A b \in Bytes \ (gpuWrote \cup late \cup torn) :
            native[b] = Seen(b)]_vars

\* Step of the service while it uploads a coherent mirror, at a submit or unmap.
ServiceUploads ==
    call # "none" /\ CoherentMirror
    /\ ~ \E b \in Bytes, v \in Values : GpuWrite(b, v)

\* Uploading a coherent mirror changes a native byte only if the host wrote
\* the byte since the last comparison: what the GPU produced is not undone, by
\* a submit or by the unmap.  The exception is a byte the GPU wrote between the
\* two reads an invalidate makes of it (vulkan_global.c:8542-8545): the mirror
\* then differs from its baseline without any store of the host.
GpuBytesKept ==
    [][ServiceUploads =>
        \A b \in Bytes : native'[b] # native[b] => b \in hostWrote \cup stale]_vars

\* The same without the exception, as docs/ARCHITECTURE.md:466 has it:
\* "Unchanged mirror bytes therefore cannot overwrite GPU-produced native bytes".
UnchangedBytesKept ==
    [][ServiceUploads =>
        \A b \in Bytes : native'[b] # native[b] => b \in hostWrote]_vars

-----------------------------------------------------------------------------
(***************************************************************************)
(* The inductive invariant.                                                *)
(***************************************************************************)

\* An entry of kind "none" is the empty one, and the service has no mapping the
\* client could confuse with another: the client's is the same one or gone.
MappingsKnown ==
    /\ cmap.kind = "none" => cmap = Nothing
    /\ slot.kind = "none" => slot = Nothing
    /\ slot # Nothing => cmap \in {slot, Nothing}

\* A call holds the client's mutex over a working connection; only a coherent
\* mirror is scanned, and only a mirror's range is copied twice.
CallKnows ==
    /\ pc # "idle" => link = "up"
    /\ pc = "idle" => run = {}
    /\ call = "none" <=> pc \in {"idle", "flush", "invalidate"}
    /\ call = "none" => todo = {}
    /\ todo \cap run = {}
    /\ call # "submit" => late = {}
    /\ todo # {} \/ run # {} => slot.kind = "mirror"
    /\ call # "none" /\ (todo # {} \/ run # {}) => coherent

\* The baseline is the service's memory of the native bytes, but for the bytes
\* that are being copied and for what the GPU or a torn copy put between them.
BaselineIsNative ==
    /\ CoherentMirror =>
         \A b \in Bytes \ (run \cup gpuWrote \cup torn) : native[b] = baseline[b]
    /\ pc \in {"baseline", "flush"} =>
         \A b \in run \ (gpuWrote \cup torn) : native[b] = view[b]

\* A byte that differs from its baseline was written by the host since they
\* were last compared, or by the GPU between the two reads of an invalidate.
DivergedWasWritten ==
    slot.kind = "mirror" =>
        /\ \A b \in Bytes : view[b] # baseline[b] =>
              \/ b \in hostWrote \cup stale
              \/ pc = "invalidate" /\ b \in run
        /\ pc = "invalidate" =>
              \A b \in run \ (hostWrote \cup stale) : view[b] = native[b]
        /\ pc \in {"scan", "baseline"} => run \subseteq hostWrote \cup stale

\* What the submit in progress has passed is where it belongs.
SubmitUploads ==
    call = "submit" =>
        /\ cmap.kind = "shadow" =>
             \A b \in Bytes \ (late \cup gpuWrote) : native[b] = view[b]
        /\ CoherentMirror =>
             \A b \in Bytes \ (todo \cup run \cup late) : view[b] = baseline[b]

MirrorInv ==
    /\ SidesAgree
    /\ ImagesStayStrict
    /\ MappingsKnown
    /\ CallKnows
    /\ BaselineIsNative
    /\ DivergedWasWritten
    /\ SubmitUploads

=============================================================================
