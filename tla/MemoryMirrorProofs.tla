------------------------- MODULE MemoryMirrorProofs -------------------------
(***************************************************************************)
(* The mapped memory's safety for every set of bytes and values: MirrorInv *)
(* is inductive, and from it follow what the runs check of the mappings of *)
(* the two sides, of the baseline and of what a submit uploads.            *)
(***************************************************************************)
EXTENDS MemoryMirror, TLAPS

(***************************************************************************)
(* Facts about the operators of the model.                                 *)
(***************************************************************************)

\* Copying bytes of one memory over another gives a memory, byte by byte.
LEMMA CopiedFacts ==
  ASSUME NEW f \in [Bytes -> Values], NEW g \in [Bytes -> Values], NEW bs
  PROVE  /\ Copied(f, g, bs) \in [Bytes -> Values]
         /\ \A b \in Bytes : b \in bs => Copied(f, g, bs)[b] = g[b]
         /\ \A b \in Bytes : b \notin bs => Copied(f, g, bs)[b] = f[b]
  BY DEF Copied

\* The empty entry is an entry of either side, and no mapping's.
LEMMA NothingFacts ==
  /\ Nothing \in [kind : Kinds \ {"shadow"}, generation : 0 .. MaxMaps]
  /\ Nothing \in [kind : Kinds, generation : 0 .. MaxMaps]
  /\ Nothing.kind = "none"
  BY MirrorAssumption DEF Nothing, Kinds

(***************************************************************************)
(* The invariant, action by action.                                        *)
(***************************************************************************)

\* The invariant holds when the memory has been allocated.
LEMMA MirrorInvInit == Init => MirrorInv
<1> SUFFICES ASSUME Init PROVE MirrorInv
  OBVIOUS
<1>1. TypeOK
  <2>1. [b \in Bytes |-> 0] \in [Bytes -> Values]
    BY MirrorAssumption
  <2>2. /\ [s \in Sides |-> TRUE] \in [Sides -> BOOLEAN]
        /\ [s \in Sides |-> {}] \in [Sides -> SUBSET {"buffer", "image"}]
    OBVIOUS
  <2>3. maps \in 0 .. MaxMaps
    BY MirrorAssumption DEF Init
  <2> QED
    BY <2>1, <2>2, <2>3, NothingFacts, Zenon DEF Init, TypeOK
<1>2. SidesAgree /\ ImagesStayStrict
  BY <1>1, NothingFacts DEF Init, SidesAgree, ImagesStayStrict, Sides
<1>3. MappingsKnown /\ CallKnows
  BY NothingFacts DEF Init, MappingsKnown, CallKnows
<1>4. BaselineIsNative /\ DivergedWasWritten /\ SubmitUploads
  BY NothingFacts
  DEF Init, BaselineIsNative, DivergedWasWritten, SubmitUploads, CoherentMirror
<1> QED
  BY <1>1, <1>2, <1>3, <1>4 DEF MirrorInv

\* Binding a buffer or an image.
LEMMA BindStep ==
  ASSUME MirrorInv, vkBindBufferMemory \/ vkBindImageMemory
  PROVE  MirrorInv'
<1> USE DEF MirrorInv, config, memory, submit, history, Calls
<1>1. /\ UNCHANGED <<mode, coherent, exportable, alive, cmap, slot, maps,
                     native, view, baseline, gpu, call, pc, todo, run, late,
                     hostWrote, gpuWrote, torn, stale>>
      /\ pc = "idle" /\ link = "up" /\ link' \in {"up", "down"}
  BY DEF vkBindBufferMemory, vkBindImageMemory
<1>2. /\ bound \in [Sides -> SUBSET {"buffer", "image"}]
      /\ bound["client"] = bound["service"]
  BY <1>1 DEF SidesAgree, TypeOK
<1>3. /\ bound' \in [Sides -> SUBSET {"buffer", "image"}]
      /\ link' = "up" => bound'["client"] = bound'["service"]
      /\ slot # Nothing /\ "image" \notin bound["service"]
           => "image" \notin bound'["service"]
  BY <1>2 DEF vkBindBufferMemory, vkBindImageMemory, bind_buffer_memory,
              bind_image_memory, bind_image_refused, Sides
<1>4. SidesAgree' /\ ImagesStayStrict'
  BY <1>1, <1>3 DEF SidesAgree, TypeOK, ImagesStayStrict
<1>5. /\ MappingsKnown' /\ CallKnows' /\ BaselineIsNative'
      /\ DivergedWasWritten' /\ SubmitUploads'
  BY <1>1 DEF MappingsKnown, CallKnows, BaselineIsNative,
              DivergedWasWritten, SubmitUploads, CoherentMirror
<1> QED
  BY <1>4, <1>5

\* What the four ways vkMapMemory can end have in common.
LEMMA MapFacts ==
  ASSUME MirrorInv, vkMapMemory
  PROVE  /\ UNCHANGED <<mode, coherent, exportable, alive, bound, gpu, call,
                        pc, todo, run, late>>
         /\ pc = "idle" /\ link = "up" /\ cmap = Nothing /\ slot = Nothing
         /\ maps' = maps + 1 /\ maps' \in 0 .. MaxMaps /\ MaxMaps \in Nat
         /\ link' \in {"up", "down", "poisoned"}
<1> USE DEF MirrorInv
<1>1. /\ UNCHANGED <<mode, coherent, exportable, alive, bound, gpu, call,
                     pc, todo, run, late>>
      /\ pc = "idle" /\ link = "up" /\ cmap = Nothing
      /\ maps' = maps + 1 /\ maps < MaxMaps
  BY DEF vkMapMemory, Calls, config, submit
<1>2. slot = Nothing
  BY <1>1, NothingFacts DEF SidesAgree
<1>3. maps' \in 0 .. MaxMaps /\ MaxMaps \in Nat
  BY <1>1, MirrorAssumption DEF SidesAgree, TypeOK
<1>4. link' \in {"up", "down", "poisoned"}
  BY <1>1 DEF vkMapMemory, setup_direct_memory_locked,
              setup_memory_mirror_locked, Poison, NoMapping
<1> QED
  BY <1>1, <1>2, <1>3, <1>4

\* Every way vkMapMemory can end: nothing is mapped; the memory is mapped
\* through a mirror, or directly, on the service at least; or through a shadow.
LEMMA MapOutcomes ==
  ASSUME MirrorInv, vkMapMemory
  PROVE  \/ UNCHANGED <<cmap, slot, memory, history>>
         \/ /\ setup_memory_mirror
            /\ bound["service"] = {"buffer"}
            /\ \/ cmap' = slot' /\ link' = "up"
               \/ cmap' = Nothing /\ link' = "poisoned"
         \/ /\ setup_direct_memory
            /\ bound["service"] = {"buffer"}
            /\ \/ cmap' = slot' /\ link' = "up"
               \/ cmap' = Nothing /\ link' = "poisoned"
         \/ /\ memory_read_locked(Bytes) /\ Maps("shadow")
            /\ hostWrote' = {} /\ gpuWrote' = {} /\ torn' = {} /\ stale' = {}
            /\ UNCHANGED <<link, slot, native, baseline>>
<1>1. cmap = Nothing /\ slot = Nothing /\ link = "up"
  BY MapFacts
<1>2. ASSUME direct_acceptable, setup_direct_memory_locked
      PROVE  \/ UNCHANGED <<cmap, slot, memory, history>>
             \/ /\ setup_direct_memory
                /\ bound["service"] = {"buffer"}
                /\ \/ cmap' = slot' /\ link' = "up"
                   \/ cmap' = Nothing /\ link' = "poisoned"
  BY <1>1, <1>2
  DEF direct_acceptable, mapping_acceptable, memory_is_buffer_only,
      setup_direct_memory_locked, setup_direct_memory, Maps, Reserves, Poison,
      release_memory_mirror
<1>3. ASSUME setup_memory_mirror_locked
      PROVE  \/ UNCHANGED <<cmap, slot, memory, history>>
             \/ /\ setup_memory_mirror
                /\ bound["service"] = {"buffer"}
                /\ \/ cmap' = slot' /\ link' = "up"
                   \/ cmap' = Nothing /\ link' = "poisoned"
  BY <1>1, <1>3
  DEF mapping_acceptable, memory_is_buffer_only, setup_memory_mirror_locked,
      setup_memory_mirror, Maps, Reserves, Poison, NoMapping
<1> QED
  BY <1>1, <1>2, <1>3 DEF vkMapMemory, NoMapping

\* Mapping the memory.
LEMMA MapStep == ASSUME MirrorInv, vkMapMemory PROVE MirrorInv'
<1> USE DEF MirrorInv, memory, history, Calls
<1>1. /\ UNCHANGED <<mode, coherent, exportable, alive, bound, gpu, call,
                     pc, todo, run, late>>
      /\ pc = "idle" /\ link = "up" /\ cmap = Nothing /\ slot = Nothing
      /\ maps' = maps + 1 /\ maps' \in 0 .. MaxMaps /\ MaxMaps \in Nat
      /\ link' \in {"up", "down", "poisoned"}
  BY MapFacts
<1>2. CallKnows' /\ SubmitUploads'
  BY <1>1 DEF CallKnows, SubmitUploads
<1>3. /\ TypeOK /\ alive["client"] = alive["service"]
      /\ bound["client"] = bound["service"] /\ run = {}
  BY <1>1 DEF SidesAgree, CallKnows
<1>4. CASE UNCHANGED <<cmap, slot, memory, history>>
  <2>1. SidesAgree' /\ ImagesStayStrict'
    BY <1>1, <1>3, <1>4 DEF SidesAgree, TypeOK, ImagesStayStrict
  <2>2. MappingsKnown' /\ BaselineIsNative' /\ DivergedWasWritten'
    BY <1>1, <1>4
    DEF MappingsKnown, BaselineIsNative, DivergedWasWritten, CoherentMirror
  <2> QED
    BY <1>2, <2>1, <2>2
<1>5. CASE /\ setup_memory_mirror
           /\ bound["service"] = {"buffer"}
           /\ \/ cmap' = slot' /\ link' = "up"
              \/ cmap' = Nothing /\ link' = "poisoned"
  <2>1. /\ slot' = [kind |-> "mirror", generation |-> maps']
        /\ slot'.kind = "mirror" /\ slot' # Nothing
        /\ slot' \in [kind : Kinds \ {"shadow"}, generation : 0 .. MaxMaps]
        /\ slot' \in [kind : Kinds, generation : 0 .. MaxMaps]
    BY <1>1, <1>5, NothingFacts DEF setup_memory_mirror, Reserves, Kinds
  <2>2. /\ native' = native /\ view' \in [Bytes -> Values] /\ baseline' = view'
        /\ hostWrote' = {} /\ torn' = {} /\ stale' = {}
        /\ gpuWrote' \subseteq Bytes
        /\ coherent => view' = native /\ gpuWrote' = {}
    BY <1>3, <1>5, MirrorAssumption DEF setup_memory_mirror, TypeOK
  <2>3. SidesAgree' /\ ImagesStayStrict'
    BY <1>1, <1>3, <1>5, <2>1, <2>2, NothingFacts
    DEF SidesAgree, TypeOK, ImagesStayStrict
  <2>4. MappingsKnown' /\ BaselineIsNative' /\ DivergedWasWritten'
    BY <1>1, <1>3, <1>5, <2>1, <2>2, NothingFacts
    DEF MappingsKnown, BaselineIsNative, DivergedWasWritten, CoherentMirror
  <2> QED
    BY <1>2, <2>3, <2>4
<1>6. CASE /\ setup_direct_memory
           /\ bound["service"] = {"buffer"}
           /\ \/ cmap' = slot' /\ link' = "up"
              \/ cmap' = Nothing /\ link' = "poisoned"
  <2>1. /\ slot' = [kind |-> "direct", generation |-> maps']
        /\ slot'.kind = "direct" /\ slot' # Nothing
        /\ slot' \in [kind : Kinds \ {"shadow"}, generation : 0 .. MaxMaps]
        /\ slot' \in [kind : Kinds, generation : 0 .. MaxMaps]
        /\ UNCHANGED <<native, view, baseline, hostWrote, gpuWrote, torn, stale>>
    BY <1>1, <1>6, NothingFacts DEF setup_direct_memory, Reserves, Kinds
  <2>3. SidesAgree' /\ ImagesStayStrict'
    BY <1>1, <1>3, <1>6, <2>1, NothingFacts
    DEF SidesAgree, TypeOK, ImagesStayStrict
  <2>4. MappingsKnown' /\ BaselineIsNative' /\ DivergedWasWritten'
    BY <1>1, <1>3, <1>6, <2>1, NothingFacts
    DEF MappingsKnown, BaselineIsNative, DivergedWasWritten, CoherentMirror
  <2> QED
    BY <1>2, <2>3, <2>4
<1>7. CASE /\ memory_read_locked(Bytes) /\ Maps("shadow")
           /\ hostWrote' = {} /\ gpuWrote' = {} /\ torn' = {} /\ stale' = {}
           /\ UNCHANGED <<link, slot, native, baseline>>
  <2>1. /\ cmap' = [kind |-> "shadow", generation |-> maps']
        /\ cmap'.kind = "shadow"
        /\ cmap' \in [kind : Kinds, generation : 0 .. MaxMaps]
    BY <1>1, <1>7 DEF Maps, Kinds
  <2>2. view' \in [Bytes -> Values]
    BY <1>3, <1>7, CopiedFacts DEF memory_read_locked, TypeOK
  <2>3. SidesAgree' /\ ImagesStayStrict'
    BY <1>1, <1>3, <1>7, <2>1, <2>2, NothingFacts
    DEF SidesAgree, TypeOK, ImagesStayStrict
  <2>4. MappingsKnown' /\ BaselineIsNative' /\ DivergedWasWritten'
    BY <1>1, <1>3, <1>7, <2>1, NothingFacts
    DEF MappingsKnown, BaselineIsNative, DivergedWasWritten, CoherentMirror
  <2> QED
    BY <1>2, <2>3, <2>4
<1> QED
  BY <1>4, <1>5, <1>6, <1>7, MapOutcomes

\* The first copy of a range, of a mirror, or the only one, of a shadow.
LEMMA RangeStep ==
  ASSUME MirrorInv, NEW bs \in SUBSET Bytes, NEW i \in BOOLEAN,
         mapped_ranges_operation(bs, i)
  PROVE  MirrorInv'
<1> USE DEF MirrorInv, memory, history, submit
<1>1. /\ UNCHANGED <<mode, coherent, exportable, link, alive, bound, cmap, slot,
                     maps, gpu>>
      /\ pc = "idle" /\ link = "up"
      /\ mapped_range_locked(bs, i)
  BY DEF mapped_ranges_operation, Calls, config
<1>2. /\ native \in [Bytes -> Values] /\ view \in [Bytes -> Values]
      /\ baseline \in [Bytes -> Values]
      /\ hostWrote \subseteq Bytes /\ gpuWrote \subseteq Bytes
      /\ torn \subseteq Bytes /\ stale \subseteq Bytes
      /\ slot = IF cmap.kind \in {"mirror", "direct"} THEN cmap ELSE Nothing
      /\ call = "none" /\ todo = {} /\ late = {} /\ run = {}
  BY <1>1 DEF SidesAgree, TypeOK, CallKnows
<1>3. CASE cmap.kind = "direct" /\ UNCHANGED <<memory, history, submit>>
  <2>1. SidesAgree' /\ ImagesStayStrict' /\ MappingsKnown'
    BY <1>1, <1>3 DEF SidesAgree, TypeOK, ImagesStayStrict, MappingsKnown
  <2>2. /\ CallKnows' /\ BaselineIsNative' /\ DivergedWasWritten'
        /\ SubmitUploads'
    BY <1>1, <1>3 DEF CallKnows, BaselineIsNative, DivergedWasWritten,
                      SubmitUploads, CoherentMirror
  <2> QED
    BY <2>1, <2>2
<1>4. CASE /\ cmap.kind = "mirror" /\ flush_memory_mirror(bs)
           /\ UNCHANGED <<call, todo, late>>
  <2>1. /\ native' \in [Bytes -> Values]
        /\ \A b \in Bytes : b \in bs => native'[b] = view[b]
        /\ \A b \in Bytes : b \notin bs => native'[b] = native[b]
        /\ gpuWrote' = gpuWrote \ bs /\ torn' = torn \ bs
        /\ run' = bs /\ pc' = "flush"
        /\ UNCHANGED <<view, baseline, hostWrote, stale, call, todo, late>>
    BY <1>2, <1>4, CopiedFacts DEF flush_memory_mirror, CopyToNative
  <2>2. SidesAgree' /\ ImagesStayStrict' /\ MappingsKnown'
    BY <1>1, <1>2, <2>1 DEF SidesAgree, TypeOK, ImagesStayStrict, MappingsKnown
  <2>3. CallKnows' /\ SubmitUploads'
    BY <1>1, <1>2, <1>4, <2>1 DEF CallKnows, SubmitUploads
  <2>4. BaselineIsNative' /\ DivergedWasWritten'
    BY <1>1, <1>2, <2>1
    DEF BaselineIsNative, DivergedWasWritten, CoherentMirror
  <2> QED
    BY <2>2, <2>3, <2>4
<1>5. CASE /\ cmap.kind = "mirror" /\ invalidate_memory_mirror(bs)
           /\ UNCHANGED <<call, todo, late>>
  <2>1. /\ view' \in [Bytes -> Values]
        /\ \A b \in Bytes : b \in bs => view'[b] = native[b]
        /\ \A b \in Bytes : b \notin bs => view'[b] = view[b]
        /\ hostWrote' = hostWrote \ bs /\ stale' = stale \ bs
        /\ run' = bs /\ pc' = "invalidate"
        /\ UNCHANGED <<native, baseline, gpuWrote, torn, call, todo, late>>
    BY <1>2, <1>5, CopiedFacts DEF invalidate_memory_mirror
  <2>2. SidesAgree' /\ ImagesStayStrict' /\ MappingsKnown'
    BY <1>1, <1>2, <2>1 DEF SidesAgree, TypeOK, ImagesStayStrict, MappingsKnown
  <2>3. CallKnows' /\ SubmitUploads'
    BY <1>1, <1>2, <1>5, <2>1 DEF CallKnows, SubmitUploads
  <2>4. BaselineIsNative' /\ DivergedWasWritten'
    BY <1>1, <1>2, <2>1
    DEF BaselineIsNative, DivergedWasWritten, CoherentMirror
  <2> QED
    BY <2>2, <2>3, <2>4
<1>6. CASE /\ cmap.kind = "shadow"
           /\ IF i THEN memory_read_locked(bs) /\ UNCHANGED native
                   ELSE memory_write_locked(bs) /\ UNCHANGED view
           /\ Agreed(bs)
           /\ UNCHANGED <<baseline, submit>>
  <2>1. /\ native' \in [Bytes -> Values] /\ view' \in [Bytes -> Values]
        /\ hostWrote' \subseteq hostWrote /\ gpuWrote' \subseteq gpuWrote
        /\ UNCHANGED <<baseline, call, pc, todo, run, late, torn, stale>>
    BY <1>2, <1>6, CopiedFacts
    DEF memory_read_locked, memory_write_locked, Agreed
  <2>2. slot.kind = "none"
    BY <1>2, <1>6, NothingFacts
  <2>3. SidesAgree' /\ ImagesStayStrict' /\ MappingsKnown'
    BY <1>1, <2>1 DEF SidesAgree, TypeOK, ImagesStayStrict, MappingsKnown
  <2>4. /\ CallKnows' /\ BaselineIsNative' /\ DivergedWasWritten'
        /\ SubmitUploads'
    BY <1>1, <1>2, <2>1, <2>2
    DEF CallKnows, BaselineIsNative, DivergedWasWritten, SubmitUploads,
        CoherentMirror
  <2> QED
    BY <2>3, <2>4
<1> QED
  BY <1>1, <1>3, <1>4, <1>5, <1>6
  DEF mapped_range_locked, memory_mirror_range_locked

\* The second copy of a range, which reads its source again.
LEMMA RangeEndStep ==
  ASSUME MirrorInv, flush_baseline \/ invalidate_baseline
  PROVE  MirrorInv'
<1> USE DEF MirrorInv
<1>1. /\ UNCHANGED <<mode, coherent, exportable, alive, bound, cmap, slot, maps,
                     native, view, gpu, call, todo, late>>
      /\ pc \in {"flush", "invalidate"} /\ pc' = "idle" /\ run' = {}
      /\ link' \in {"up", "down"}
  BY DEF flush_baseline, invalidate_baseline, CopyToBaseline, config
<1>2. /\ baseline \in [Bytes -> Values] /\ view \in [Bytes -> Values]
      /\ native \in [Bytes -> Values] /\ link = "up" /\ run \subseteq Bytes
      /\ call = "none" /\ todo = {} /\ late = {}
      /\ hostWrote \subseteq Bytes /\ gpuWrote \subseteq Bytes
      /\ torn \subseteq Bytes /\ stale \subseteq Bytes
  BY <1>1 DEF SidesAgree, TypeOK, CallKnows
<1>3. CallKnows' /\ SubmitUploads'
  BY <1>1, <1>2 DEF CallKnows, SubmitUploads
<1>4. CASE flush_baseline
  <2>1. /\ baseline' \in [Bytes -> Values] /\ pc = "flush"
        /\ \A b \in Bytes : b \in run => baseline'[b] = view[b]
        /\ \A b \in Bytes : b \notin run => baseline'[b] = baseline[b]
        /\ hostWrote' = hostWrote \ run /\ stale' = stale \ run
        /\ UNCHANGED <<gpuWrote, torn>>
    BY <1>2, <1>4, CopiedFacts DEF flush_baseline, CopyToBaseline
  <2>2. SidesAgree' /\ ImagesStayStrict' /\ MappingsKnown'
    BY <1>1, <1>2, <2>1 DEF SidesAgree, TypeOK, ImagesStayStrict, MappingsKnown
  <2>3. BaselineIsNative' /\ DivergedWasWritten'
    BY <1>1, <1>2, <2>1
    DEF BaselineIsNative, DivergedWasWritten, CoherentMirror
  <2> QED
    BY <1>3, <2>2, <2>3
<1>5. CASE invalidate_baseline
  <2>1. /\ baseline' \in [Bytes -> Values] /\ pc = "invalidate"
        /\ \A b \in Bytes : b \in run => baseline'[b] = native[b]
        /\ \A b \in Bytes : b \notin run => baseline'[b] = baseline[b]
        /\ gpuWrote' = gpuWrote \ run /\ torn' = torn \ run
        /\ UNCHANGED <<hostWrote, stale>>
    BY <1>2, <1>5, CopiedFacts DEF invalidate_baseline
  <2>2. SidesAgree' /\ ImagesStayStrict' /\ MappingsKnown'
    BY <1>1, <1>2, <2>1 DEF SidesAgree, TypeOK, ImagesStayStrict, MappingsKnown
  <2>3. BaselineIsNative' /\ DivergedWasWritten'
    BY <1>1, <1>2, <2>1
    DEF BaselineIsNative, DivergedWasWritten, CoherentMirror
  <2> QED
    BY <1>3, <2>2, <2>3
<1> QED
  BY <1>4, <1>5

\* vkQueueSubmit writes the shadow and starts the scan of a coherent mirror.
LEMMA SubmitStep == ASSUME MirrorInv, vkQueueSubmit PROVE MirrorInv'
<1> USE DEF MirrorInv, memory, history
<1>1. /\ UNCHANGED <<mode, coherent, exportable, link, alive, bound, cmap, slot,
                     maps, gpu, view, baseline, run, late, torn, stale>>
      /\ pc = "idle" /\ pc' = "scan" /\ call' = "submit" /\ link = "up"
      /\ todo' = (IF CoherentMirror THEN Bytes ELSE {})
      /\ run = {} /\ late = {}
  BY DEF vkQueueSubmit, Calls, config, flush_mapped_resources_locked, Agreed,
         sync_coherent_memory_mirrors, CallKnows
<1>2. /\ native \in [Bytes -> Values] /\ view \in [Bytes -> Values]
      /\ slot = IF cmap.kind \in {"mirror", "direct"} THEN cmap ELSE Nothing
  BY <1>1 DEF SidesAgree, TypeOK
<1>3. /\ native' \in [Bytes -> Values] /\ hostWrote' \subseteq hostWrote
      /\ gpuWrote' \subseteq gpuWrote
      /\ IF cmap.kind = "shadow"
         THEN \A b \in Bytes : native'[b] = view'[b]
         ELSE UNCHANGED <<native, hostWrote, gpuWrote>>
  BY <1>1, <1>2, CopiedFacts
  DEF vkQueueSubmit, flush_mapped_resources_locked, memory_write_locked, Agreed
<1>4. SidesAgree' /\ ImagesStayStrict' /\ MappingsKnown'
  BY <1>1, <1>3 DEF SidesAgree, TypeOK, ImagesStayStrict, MappingsKnown
<1>5. CallKnows' /\ SubmitUploads'
  BY <1>1, <1>3 DEF CallKnows, SubmitUploads, CoherentMirror
<1>6. BaselineIsNative' /\ DivergedWasWritten'
  <2>1. cmap.kind = "shadow" => slot.kind = "none"
    BY <1>2, NothingFacts
  <2> QED
    BY <1>1, <1>3, <2>1
    DEF BaselineIsNative, DivergedWasWritten, CoherentMirror
<1> QED
  BY <1>4, <1>5, <1>6

\* The scan passes a byte, or takes it into the dirty run.
LEMMA ScanStep == ASSUME MirrorInv, upload_host_diverged_range PROVE MirrorInv'
<1> USE DEF MirrorInv
<1>1. /\ UNCHANGED <<mode, coherent, exportable, link, alive, bound, cmap, slot,
                     maps, native, view, baseline, gpu, call, pc, late, gpuWrote,
                     torn>>
      /\ pc = "scan"
  BY DEF upload_host_diverged_range, config, memory
<1>2. PICK a \in todo :
        /\ todo' = todo \ {a}
        /\ \/ /\ view[a] = baseline[a]
              /\ hostWrote' = hostWrote \ {a} /\ stale' = stale \ {a}
              /\ UNCHANGED run
           \/ /\ view[a] # baseline[a]
              /\ run' = run \cup {a}
              /\ UNCHANGED <<hostWrote, stale>>
  BY DEF upload_host_diverged_range
<1>3. /\ slot.kind = "mirror" /\ coherent /\ link = "up" /\ a \in Bytes
      /\ slot = IF cmap.kind \in {"mirror", "direct"} THEN cmap ELSE Nothing
      /\ todo \subseteq Bytes /\ hostWrote \subseteq Bytes /\ run \subseteq Bytes
      /\ stale \subseteq Bytes /\ call # "none"
  BY <1>1, <1>2 DEF SidesAgree, TypeOK, CallKnows
<1>4. SidesAgree' /\ ImagesStayStrict' /\ MappingsKnown'
  BY <1>1, <1>2, <1>3 DEF SidesAgree, TypeOK, ImagesStayStrict, MappingsKnown
<1>5. CallKnows'
  BY <1>1, <1>2, <1>3 DEF CallKnows
<1>6. BaselineIsNative' /\ DivergedWasWritten'
  <2>1. a \notin run
    BY <1>2 DEF CallKnows
  <2>2. BaselineIsNative'
    BY <1>1, <1>2, <1>3 DEF BaselineIsNative, CoherentMirror
  <2>3. DivergedWasWritten'
    BY <1>1, <1>2, <1>3, <2>1 DEF DivergedWasWritten
  <2> QED
    BY <2>2, <2>3
<1>7. SubmitUploads'
  <2>1. cmap.kind = "mirror"
    BY <1>3, NothingFacts
  <2> QED
    BY <1>1, <1>2, <1>3, <2>1 DEF SubmitUploads, CoherentMirror
<1> QED
  BY <1>4, <1>5, <1>6, <1>7

\* The run is copied to the native memory.
LEMMA NativeStep == ASSUME MirrorInv, upload_native PROVE MirrorInv'
<1> USE DEF MirrorInv
<1>1. /\ UNCHANGED <<mode, coherent, exportable, link, alive, bound, cmap, slot,
                     maps, view, baseline, gpu, call, todo, run, late, hostWrote,
                     stale>>
      /\ pc = "scan" /\ pc' = "baseline" /\ run # {}
      /\ native' = Copied(native, view, run)
      /\ gpuWrote' = gpuWrote \ run /\ torn' = torn \ run
  BY DEF upload_native, CopyToNative, config
<1>2. /\ native \in [Bytes -> Values] /\ view \in [Bytes -> Values]
      /\ slot.kind = "mirror" /\ coherent /\ link = "up" /\ call # "none"
      /\ slot = IF cmap.kind \in {"mirror", "direct"} THEN cmap ELSE Nothing
      /\ run \subseteq Bytes /\ gpuWrote \subseteq Bytes /\ torn \subseteq Bytes
  BY <1>1 DEF SidesAgree, TypeOK, CallKnows
<1>3. cmap.kind = "mirror"
  BY <1>2, NothingFacts
<1>4. /\ native' \in [Bytes -> Values]
      /\ \A b \in Bytes : b \in run => native'[b] = view[b]
      /\ \A b \in Bytes : b \notin run => native'[b] = native[b]
  BY <1>1, <1>2, CopiedFacts
<1>5. SidesAgree' /\ ImagesStayStrict' /\ MappingsKnown'
  BY <1>1, <1>2, <1>4 DEF SidesAgree, TypeOK, ImagesStayStrict, MappingsKnown
<1>6. BaselineIsNative' /\ DivergedWasWritten'
  BY <1>1, <1>2, <1>4 DEF BaselineIsNative, DivergedWasWritten, CoherentMirror
<1>7. CallKnows' /\ SubmitUploads'
  BY <1>1, <1>2, <1>3, <1>4 DEF CallKnows, SubmitUploads, CoherentMirror
<1> QED
  BY <1>5, <1>6, <1>7

\* The second copy of the run, to the baseline.
LEMMA BaselineStep == ASSUME MirrorInv, upload_baseline PROVE MirrorInv'
<1> USE DEF MirrorInv
<1>1. /\ UNCHANGED <<mode, coherent, exportable, link, alive, bound, cmap, slot,
                     maps, native, view, gpu, call, todo, late, gpuWrote, torn>>
      /\ pc = "baseline" /\ pc' = "scan" /\ run' = {}
      /\ hostWrote' = hostWrote \ run /\ stale' = stale \ run
      /\ baseline' = Copied(baseline, view, run)
  BY DEF upload_baseline, CopyToBaseline, config
<1>2. /\ baseline \in [Bytes -> Values] /\ view \in [Bytes -> Values]
      /\ link = "up" /\ call # "none" /\ run \subseteq Bytes
      /\ hostWrote \subseteq Bytes /\ stale \subseteq Bytes
      /\ slot = IF cmap.kind \in {"mirror", "direct"} THEN cmap ELSE Nothing
  BY <1>1 DEF SidesAgree, TypeOK, CallKnows
<1>4. /\ baseline' \in [Bytes -> Values]
      /\ \A b \in Bytes : b \in run => baseline'[b] = view[b]
      /\ \A b \in Bytes : b \notin run => baseline'[b] = baseline[b]
  BY <1>1, <1>2, CopiedFacts
<1>5. SidesAgree' /\ ImagesStayStrict' /\ MappingsKnown'
  BY <1>1, <1>2, <1>4 DEF SidesAgree, TypeOK, ImagesStayStrict, MappingsKnown
<1>6. BaselineIsNative' /\ DivergedWasWritten'
  BY <1>1, <1>2, <1>4 DEF BaselineIsNative, DivergedWasWritten, CoherentMirror
<1>7. CallKnows' /\ SubmitUploads'
  BY <1>1, <1>2, <1>4 DEF CallKnows, SubmitUploads, CoherentMirror
<1> QED
  BY <1>5, <1>6, <1>7

\* The native submit, the calls that only end something, and the GPU going idle.
LEMMA QuietStep ==
  ASSUME MirrorInv,
         queue_submit_command \/ vkFreeMemory \/ release_all_memory_mirrors
         \/ GpuIdle
  PROVE  MirrorInv'
<1> USE DEF MirrorInv, config, memory, submit, history
<1>1. CASE queue_submit_command
  <2>1. SidesAgree' /\ ImagesStayStrict' /\ MappingsKnown'
    BY <1>1 DEF queue_submit_command, Uploaded, SidesAgree, TypeOK,
                ImagesStayStrict, MappingsKnown, CallKnows
  <2>2. /\ CallKnows' /\ BaselineIsNative' /\ DivergedWasWritten'
        /\ SubmitUploads'
    BY <1>1 DEF queue_submit_command, Uploaded, CallKnows, BaselineIsNative,
                DivergedWasWritten, SubmitUploads, CoherentMirror
  <2> QED
    BY <2>1, <2>2
<1>2. CASE vkFreeMemory
  <2>1. /\ alive' \in [Sides -> BOOLEAN] /\ link' \in {"up", "down"}
        /\ link' = "up" => link = "up" /\ alive'["client"] = alive'["service"]
    BY <1>2 DEF vkFreeMemory, SidesAgree, TypeOK, Sides
  <2>2. SidesAgree' /\ ImagesStayStrict' /\ MappingsKnown'
    BY <1>2, <2>1 DEF vkFreeMemory, SidesAgree, TypeOK, ImagesStayStrict,
                      MappingsKnown
  <2>3. /\ CallKnows' /\ BaselineIsNative' /\ DivergedWasWritten'
        /\ SubmitUploads'
    BY <1>2 DEF vkFreeMemory, Calls, CallKnows, BaselineIsNative,
                DivergedWasWritten, SubmitUploads, CoherentMirror
  <2> QED
    BY <2>2, <2>3
<1>3. CASE release_all_memory_mirrors
  <2>1. SidesAgree' /\ ImagesStayStrict' /\ MappingsKnown'
    BY <1>3, NothingFacts
    DEF release_all_memory_mirrors, release_memory_mirror, SidesAgree, TypeOK,
        ImagesStayStrict, MappingsKnown
  <2>2. /\ slot'.kind = "none" /\ pc = "idle" /\ slot.kind # "none"
        /\ UNCHANGED <<link, cmap, memory, gpu, submit, history, coherent>>
    BY <1>3, NothingFacts
    DEF release_all_memory_mirrors, release_memory_mirror, config, MappingsKnown
  <2>3. call = "none" /\ todo = {} /\ run = {}
    BY <2>2 DEF CallKnows
  <2>4. CallKnows'
    BY <2>2, <2>3 DEF CallKnows, submit
  <2>5. BaselineIsNative' /\ DivergedWasWritten' /\ SubmitUploads'
    BY <2>2, <2>3
    DEF BaselineIsNative, DivergedWasWritten, SubmitUploads, CoherentMirror,
        submit
  <2> QED
    BY <2>1, <2>4, <2>5
<1>4. CASE GpuIdle
  <2>4. TypeOK'
    BY <1>4 DEF GpuIdle, SidesAgree, TypeOK
  <2>5. SidesAgree'
    BY <1>4, <2>4 DEF GpuIdle, SidesAgree
  <2>6. ImagesStayStrict' /\ MappingsKnown'
    BY <1>4 DEF GpuIdle, ImagesStayStrict, MappingsKnown
  <2>1. SidesAgree' /\ ImagesStayStrict' /\ MappingsKnown'
    BY <2>5, <2>6
  <2>2. CallKnows' /\ BaselineIsNative'
    BY <1>4 DEF GpuIdle, CallKnows, BaselineIsNative, CoherentMirror
  <2>3. DivergedWasWritten' /\ SubmitUploads'
    BY <1>4 DEF GpuIdle, DivergedWasWritten, SubmitUploads, CoherentMirror
  <2> QED
    BY <2>1, <2>2, <2>3
<1> QED
  BY <1>1, <1>2, <1>3, <1>4

\* vkUnmapMemory: a shadow is written and given up; a mirror's unmap starts its
\* upload, unless the request is lost, and then the connection is no longer up.
LEMMA UnmapStep == ASSUME MirrorInv, vkUnmapMemory PROVE MirrorInv'
<1> USE DEF MirrorInv, memory, history
<1>1. /\ UNCHANGED <<mode, coherent, exportable, alive, bound, slot, maps, gpu,
                     view, baseline, hostWrote, gpuWrote, torn, stale>>
      /\ pc = "idle" /\ cmap # Nothing
      /\ call = "none" /\ todo = {} /\ run = {} /\ late = {}
  BY DEF vkUnmapMemory, Calls, config, CallKnows
<1>2. native \in [Bytes -> Values] /\ view \in [Bytes -> Values]
  BY DEF SidesAgree, TypeOK
<1>3. CASE cmap.kind = "shadow"
  <2>1. slot = Nothing
    BY <1>1, <1>3, NothingFacts DEF MappingsKnown, SidesAgree, TypeOK
  <2>2. /\ native' \in [Bytes -> Values] /\ cmap' = Nothing
        /\ UNCHANGED <<call, pc, todo, run, late>>
        /\ link' \in {"up", "down", "poisoned"} /\ (link' = "up" => link = "up")
    BY <1>2, <1>3, CopiedFacts
    DEF vkUnmapMemory, release_mapped_shadow_locked, memory_write_locked, submit,
        SidesAgree, TypeOK
  <2>3. SidesAgree' /\ ImagesStayStrict' /\ MappingsKnown'
    BY <1>1, <2>1, <2>2, NothingFacts
    DEF SidesAgree, TypeOK, ImagesStayStrict, MappingsKnown
  <2>4. /\ CallKnows' /\ BaselineIsNative' /\ DivergedWasWritten'
        /\ SubmitUploads'
    BY <1>1, <2>1, <2>2, NothingFacts
    DEF CallKnows, BaselineIsNative, DivergedWasWritten, SubmitUploads,
        CoherentMirror
  <2> QED
    BY <2>3, <2>4
<1>4. CASE /\ native' = native /\ link = "up"
           /\ call' = "unmap" /\ pc' = "scan"
           /\ todo' = (IF CoherentMirror THEN Bytes ELSE {})
           /\ UNCHANGED <<link, cmap, run, late>>
  <2>1. SidesAgree' /\ ImagesStayStrict' /\ MappingsKnown'
    BY <1>1, <1>4 DEF SidesAgree, TypeOK, ImagesStayStrict, MappingsKnown
  <2>2. CallKnows' /\ SubmitUploads'
    BY <1>1, <1>4 DEF CallKnows, SubmitUploads, CoherentMirror
  <2>3. BaselineIsNative' /\ DivergedWasWritten'
    BY <1>1, <1>4 DEF BaselineIsNative, DivergedWasWritten, CoherentMirror
  <2> QED
    BY <2>1, <2>2, <2>3
<1>5. CASE /\ native' = native /\ link' = "poisoned" /\ cmap' = Nothing
           /\ UNCHANGED submit
  <2>1. SidesAgree' /\ ImagesStayStrict' /\ MappingsKnown'
    BY <1>1, <1>5, NothingFacts
    DEF SidesAgree, TypeOK, ImagesStayStrict, MappingsKnown, submit
  <2>2. CallKnows' /\ SubmitUploads'
    BY <1>1, <1>5 DEF CallKnows, SubmitUploads, submit
  <2>3. BaselineIsNative' /\ DivergedWasWritten'
    BY <1>1, <1>5
    DEF BaselineIsNative, DivergedWasWritten, CoherentMirror, submit
  <2> QED
    BY <2>1, <2>2, <2>3
<1> QED
  BY <1>3, <1>4, <1>5
  DEF vkUnmapMemory, unmap_memory_mirror_locked, release_mapped_shadow_locked

\* The unmap's upload is done and both sides give the mapping up.
LEMMA UnmapEndStep == ASSUME MirrorInv, unmap_memory_mirror PROVE MirrorInv'
<1> USE DEF MirrorInv, memory, history
<1>1. /\ UNCHANGED <<mode, coherent, exportable, alive, bound, maps, gpu, native,
                     view, baseline, todo, run, late, hostWrote, gpuWrote, torn,
                     stale>>
      /\ pc' = "idle" /\ call' = "none" /\ call = "unmap" /\ pc = "scan"
      /\ todo = {} /\ run = {} /\ cmap' = Nothing /\ slot' = Nothing
      /\ link' \in {"up", "poisoned"}
  BY DEF unmap_memory_mirror, Uploaded, release_memory_mirror,
         release_mapped_shadow_locked, config
<1>2. link = "up" /\ late = {}
  BY <1>1 DEF CallKnows
<1>3. SidesAgree' /\ ImagesStayStrict' /\ MappingsKnown'
  BY <1>1, <1>2, NothingFacts
  DEF SidesAgree, TypeOK, ImagesStayStrict, MappingsKnown
<1>4. /\ CallKnows' /\ BaselineIsNative' /\ DivergedWasWritten'
      /\ SubmitUploads'
  BY <1>1, <1>2, NothingFacts
  DEF CallKnows, BaselineIsNative, DivergedWasWritten, SubmitUploads,
      CoherentMirror
<1> QED
  BY <1>3, <1>4

\* A thread of the application stores to a mapped byte.
LEMMA HostWriteStep ==
  ASSUME MirrorInv, NEW b \in Bytes, NEW v \in Values, HostWrite(b, v)
  PROVE  MirrorInv'
<1> USE DEF MirrorInv
<1>1. /\ UNCHANGED <<mode, coherent, exportable, link, alive, bound, cmap, slot,
                     maps, baseline, gpu, call, pc, todo, run, gpuWrote, stale>>
      /\ cmap # Nothing /\ hostWrote' = hostWrote \cup {b}
      /\ late' = IF call = "submit" THEN late \cup {b} ELSE late
      /\ torn' = IF pc \in {"baseline", "flush"} THEN torn \cup ({b} \cap run)
                 ELSE torn
      /\ IF cmap.kind = "direct"
         THEN native' = [native EXCEPT ![b] = v] /\ UNCHANGED view
         ELSE view' = [view EXCEPT ![b] = v] /\ UNCHANGED native
  BY DEF HostWrite, config
<1>2. native \in [Bytes -> Values] /\ view \in [Bytes -> Values]
  BY DEF SidesAgree, TypeOK
<1>3. /\ native' \in [Bytes -> Values] /\ view' \in [Bytes -> Values]
      /\ \A a \in Bytes \ {b} : native'[a] = native[a] /\ view'[a] = view[a]
      /\ slot.kind = "mirror" => UNCHANGED native
      /\ run \subseteq Bytes
  <2>1. slot.kind = "mirror" => cmap.kind # "direct"
    BY <1>1, NothingFacts DEF MappingsKnown
  <2> QED
    BY <1>1, <1>2, <2>1 DEF SidesAgree, TypeOK
<1>4. SidesAgree' /\ ImagesStayStrict' /\ MappingsKnown' /\ CallKnows'
  BY <1>1, <1>3
  DEF SidesAgree, TypeOK, ImagesStayStrict, MappingsKnown, CallKnows
<1>5. BaselineIsNative' /\ DivergedWasWritten'
  <2>1. run # {} => slot.kind = "mirror"
    BY DEF CallKnows
  <2>2. BaselineIsNative'
    BY <1>1, <1>3, <2>1 DEF BaselineIsNative, CoherentMirror
  <2>3. DivergedWasWritten'
    BY <1>1, <1>3 DEF DivergedWasWritten
  <2> QED
    BY <2>2, <2>3
<1>6. SubmitUploads'
  BY <1>1, <1>3 DEF SubmitUploads, CoherentMirror
<1> QED
  BY <1>4, <1>5, <1>6

\* The GPU writes a byte, whatever the service is doing.
LEMMA GpuWriteStep ==
  ASSUME MirrorInv, NEW b \in Bytes, NEW v \in Values, GpuWrite(b, v)
  PROVE  MirrorInv'
<1> USE DEF MirrorInv
<1>1. /\ UNCHANGED <<mode, coherent, exportable, link, alive, bound, cmap, slot,
                     maps, view, baseline, gpu, call, pc, todo, run, late,
                     hostWrote, torn>>
      /\ native' = [native EXCEPT ![b] = v]
      /\ gpuWrote' = gpuWrote \cup {b}
      /\ stale' = IF pc = "invalidate" THEN stale \cup ({b} \cap run) ELSE stale
  BY DEF GpuWrite, config, submit
<1>2. /\ native' \in [Bytes -> Values] /\ run \subseteq Bytes
      /\ \A a \in Bytes \ {b} : native'[a] = native[a]
  BY <1>1 DEF SidesAgree, TypeOK
<1>3. SidesAgree' /\ ImagesStayStrict' /\ MappingsKnown' /\ CallKnows'
  BY <1>1, <1>2
  DEF SidesAgree, TypeOK, ImagesStayStrict, MappingsKnown, CallKnows
<1>4. BaselineIsNative'
  BY <1>1, <1>2 DEF BaselineIsNative, CoherentMirror
<1>5. DivergedWasWritten' /\ SubmitUploads'
  BY <1>1, <1>2 DEF DivergedWasWritten, SubmitUploads, CoherentMirror
<1> QED
  BY <1>3, <1>4, <1>5

\* Every step preserves the invariant.
LEMMA MirrorInvStep == MirrorInv /\ [Next]_vars => MirrorInv'
<1> SUFFICES ASSUME MirrorInv, [Next]_vars PROVE MirrorInv'
  OBVIOUS
<1>1. CASE UNCHANGED vars
  <2>1. SidesAgree' /\ ImagesStayStrict' /\ MappingsKnown'
    BY <1>1 DEF MirrorInv, vars, config, memory, submit, history, SidesAgree,
                TypeOK, ImagesStayStrict, MappingsKnown
  <2>2. /\ CallKnows' /\ BaselineIsNative' /\ DivergedWasWritten'
        /\ SubmitUploads'
    BY <1>1 DEF MirrorInv, vars, config, memory, submit, history, CallKnows,
                BaselineIsNative, DivergedWasWritten, SubmitUploads,
                CoherentMirror
  <2> QED
    BY <2>1, <2>2 DEF MirrorInv
<1> QED
  BY <1>1, BindStep, MapStep, RangeStep, RangeEndStep, SubmitStep, ScanStep,
     NativeStep, BaselineStep, QuietStep, UnmapStep, UnmapEndStep,
     HostWriteStep, GpuWriteStep
  DEF Next

-----------------------------------------------------------------------------
\* The invariant of the mapped memory.
THEOREM MirrorInvariant == Spec => []MirrorInv
  BY MirrorInvInit, MirrorInvStep, PTL DEF Spec

\* While the connection works the two sides have the same mapping, allocation
\* and bindings, whatever setups and unmaps were refused, failed or lost before.
THEOREM MappingsAgree == Spec => []SidesAgree
<1>1. MirrorInv => SidesAgree
  BY DEF MirrorInv
<1> QED
  BY <1>1, MirrorInvariant, PTL

\* No image is bound to memory that is mapped through a mirror or directly.
THEOREM ImagesAlwaysStrict == Spec => []ImagesStayStrict
<1>1. MirrorInv => ImagesStayStrict
  BY DEF MirrorInv
<1> QED
  BY <1>1, MirrorInvariant, PTL

\* A host change that equals the baseline has reached the native memory, but for
\* a store between the two reads of an upload or of a flush.
THEOREM ChangesReachNative == Spec => []NoChangeForgotten
<1>1. MirrorInv => NoChangeForgotten
  BY DEF MirrorInv, BaselineIsNative, NoChangeForgotten, CoherentMirror
<1> QED
  BY <1>1, MirrorInvariant, PTL

\* The native submit finds what the host wrote before vkQueueSubmit, but for a
\* store torn by an earlier upload or flush.
THEOREM SubmitFindsHostWrites == Spec => SubmitSeesHostWrites
<1>1. ASSUME MirrorInv, queue_submit_command, cmap # Nothing,
             coherent \/ cmap.kind = "shadow",
             NEW b \in Bytes \ (gpuWrote \cup late \cup torn)
      PROVE  native[b] = Seen(b)
  <2>1. call = "submit" /\ pc = "scan" /\ todo = {} /\ run = {} /\ link = "up"
    BY <1>1 DEF queue_submit_command, Uploaded, MirrorInv, CallKnows
  <2>2. CASE cmap.kind = "direct"
    BY <2>2 DEF Seen
  <2>3. CASE cmap.kind = "shadow"
    BY <1>1, <2>1, <2>3 DEF MirrorInv, SubmitUploads, Seen
  <2>4. CASE cmap.kind = "mirror"
    <3>1. CoherentMirror
      BY <1>1, <2>1, <2>4 DEF MirrorInv, SidesAgree, CoherentMirror
    <3>2. native[b] = baseline[b] /\ view[b] = baseline[b]
      BY <1>1, <2>1, <3>1 DEF MirrorInv, BaselineIsNative, SubmitUploads
    <3> QED
      BY <2>4, <3>2 DEF Seen
  <2> QED
    BY <1>1, <2>2, <2>3, <2>4
    DEF MirrorInv, MappingsKnown, SidesAgree, TypeOK, Kinds
<1>2. MirrorInv /\ [Next]_vars =>
        [queue_submit_command /\ cmap # Nothing
            /\ (coherent \/ cmap.kind = "shadow") =>
           \A b \in Bytes \ (gpuWrote \cup late \cup torn) :
              native[b] = Seen(b)]_vars
  BY <1>1
<1> QED
  BY <1>2, MirrorInvariant, PTL DEF Spec, SubmitSeesHostWrites

\* An upload, at a submit or at the unmap, changes only bytes the host wrote, and
\* those the GPU wrote between the two reads of an invalidate.
THEOREM GpuBytesAlwaysKept == Spec => GpuBytesKept
<1>1. ASSUME MirrorInv, Next, ServiceUploads,
             NEW b \in Bytes, native'[b] # native[b]
      PROVE  b \in hostWrote \cup stale
  <2>1. /\ native \in [Bytes -> Values] /\ view \in [Bytes -> Values]
        /\ run \subseteq Bytes /\ slot.kind = "mirror"
        /\ call # "none" /\ pc \in {"scan", "baseline"}
    BY <1>1
    DEF MirrorInv, SidesAgree, TypeOK, ServiceUploads, CoherentMirror, CallKnows
  <2>2. CASE upload_native
    <3>1. native' = Copied(native, view, run)
      BY <2>2 DEF upload_native, CopyToNative
    <3>2. b \in run
      BY <1>1, <2>1, <3>1, CopiedFacts
    <3> QED
      BY <1>1, <2>1, <3>2 DEF MirrorInv, DivergedWasWritten
  <2>3. ASSUME NEW a \in Bytes, NEW v \in Values, HostWrite(a, v)
        PROVE  FALSE
    <3>1. cmap.kind # "direct"
      BY <1>1, <2>1, <2>3, NothingFacts DEF MirrorInv, MappingsKnown, HostWrite
    <3> QED
      BY <1>1, <2>3, <3>1 DEF HostWrite
  <2>4. ASSUME NEW a \in Bytes, NEW v \in Values, GpuWrite(a, v)
        PROVE  FALSE
    BY <1>1, <2>4 DEF ServiceUploads
  <2>5. ASSUME \/ vkBindBufferMemory \/ vkBindImageMemory \/ vkMapMemory
               \/ vkQueueSubmit \/ vkUnmapMemory \/ vkFreeMemory
               \/ \E bs \in SUBSET Bytes, i \in BOOLEAN :
                     mapped_ranges_operation(bs, i)
        PROVE  FALSE
    BY <2>1, <2>5
    DEF vkBindBufferMemory, vkBindImageMemory, vkMapMemory, vkQueueSubmit,
        vkUnmapMemory, vkFreeMemory, mapped_ranges_operation, Calls
  <2>6. ASSUME \/ flush_baseline \/ invalidate_baseline \/ upload_baseline
               \/ upload_host_diverged_range \/ queue_submit_command
               \/ unmap_memory_mirror \/ release_all_memory_mirrors \/ GpuIdle
        PROVE  FALSE
    BY <1>1, <2>6
    DEF flush_baseline, invalidate_baseline, upload_baseline, CopyToBaseline,
        upload_host_diverged_range, queue_submit_command, unmap_memory_mirror,
        release_all_memory_mirrors, GpuIdle, memory
  <2> QED
    BY <1>1, <2>2, <2>3, <2>4, <2>5, <2>6 DEF Next
<1>2. MirrorInv /\ [Next]_vars =>
        [ServiceUploads =>
           \A b \in Bytes : native'[b] # native[b]
                              => b \in hostWrote \cup stale]_vars
  BY <1>1
<1> QED
  BY <1>2, MirrorInvariant, PTL DEF Spec, GpuBytesKept
=============================================================================
