---------------------------- MODULE CommandStream ----------------------------
(***************************************************************************)
(* Command recording through shared memory (BVB_COMMAND_STREAM=shared).    *)
(* The client leases a slot of the region when a command buffer begins,    *)
(* appends pointer-free records to it, seals it when recording ends, and   *)
(* vkQueueSubmit2 names it to the service, which copies the bytes, checks  *)
(* the whole submission, consumes the sequence numbers and replays the     *)
(* records into the native command buffers (global_dispatch.c,             *)
(* command_batch.c, bridge_service.c, vulkan_global.c).                    *)
(*                                                                         *)
(* A recording call that has to ask the registry about an object releases  *)
(* the buffer's stream mutex meanwhile, and most calls release it again    *)
(* before they append; thread[b] is where such a call is.  vkQueueSubmit2  *)
(* holds the stream mutexes of its buffers and the client mutex until the  *)
(* answer is there; submit is that call.  The order of locks is always     *)
(* client mutex, stream mutex, so waiting for a mutex is a guard here.     *)
(***************************************************************************)
EXTENDS Naturals, Sequences, FiniteSets, TLC, SequencesExt, FiniteSetsExt,
        Functions

CONSTANTS
    Buffers,          \* wire ids of command buffers, each allocated once
    Objects,          \* buffers, images, views, pipelines... of the device
    SlotCount,        \* BVB_COMMAND_STREAM_SLOT_COUNT
    SlotRecords,      \* records that fit BVB_COMMAND_STREAM_SLOT_BYTES
    GenerationSlots,  \* entries of command_generations
    MaxSequence,      \* bound: recordings begun in a behaviour
    MaxCommands,      \* BVB_VULKAN_MAX_COMMAND_BUFFERS_PER_SUBMIT
    Applications,     \* bound: what an application may do
    None              \* no object, no command buffer

ASSUME CommandStreamAssumption ==
    SlotCount \in Nat \ {0} /\ SlotRecords \in Nat /\ GenerationSlots \in Nat \ {0}
    /\ MaxSequence \in Nat /\ MaxCommands \in Nat

VARIABLES
    buffer,         \* client: the stream state of each command buffer
    slots,          \* client: command_stream_slots, the leased ones
    next_sequence,  \* client: next_command_stream_sequence
    thread,         \* client: the recording call in progress on a buffer
    region,         \* shared memory: header and records of every slot
    owned,          \* both sides: the live objects of the device
    submit,         \* the vkQueueSubmit2 in progress
    native,         \* service: what the native command buffers hold
    generations,    \* service: command_generations, buffer -> last sequence
    begun,          \* history: the streams whose replay began
    repeated,       \* history: those whose replay began again
    misrun,         \* history: buffers that ran what was not recorded in them
    app             \* the application: the commands it records, how many of
                    \* them and into how many buffers, and whether it uses a
                    \* command buffer from one thread at a time (synced)

vars == <<buffer, slots, next_sequence, thread, region, owned, submit, native,
          generations, begun, repeated, misrun, app>>

Slots == 0..(SlotCount - 1)
NoSlot == SlotCount       \* UINT32_MAX
Idle == [at |-> "idle"]

Kinds == {"begin", "use", "begin_rendering", "draw", "end_rendering", "end"}

\* A record; from is the recording its call began in, direct says that the
\* call appends it under the mutex it checked with.
Rec(kind, object, from, direct) ==
    [kind |-> kind, object |-> object, from |-> from, direct |-> direct]

EmptyStream ==
    [slot |-> NoSlot, sequence |-> 0, length |-> 0, recording |-> FALSE,
     sealed |-> FALSE, uploaded |-> FALSE, error |-> FALSE, cache |-> {},
     life |-> "live", wrote |-> <<>>]

NoHeader == [id |-> None, sequence |-> 0, length |-> 0]

Init ==
    /\ buffer = [b \in Buffers |-> [EmptyStream EXCEPT !.life = "new"]]
    /\ slots = {} /\ next_sequence = 1
    /\ thread = [b \in Buffers |-> Idle]
    /\ region = [s \in Slots |-> [header |-> NoHeader, records |-> <<>>]]
    /\ owned = Objects
    /\ submit = Idle
    /\ native = [b \in Buffers |-> [state |-> "initial", records |-> <<>>]]
    /\ generations = <<>>
    /\ begun = {} /\ repeated = {} /\ misrun = {}
    /\ app \in Applications

service_vars == <<native, generations, begun, repeated, misrun>>

-----------------------------------------------------------------------------
(* Locks.                                                                  *)

Submitted == IF submit.at = "idle" THEN {}
             ELSE {submit.commands[n].id : n \in DOMAIN submit.commands}

\* The stream mutex of the buffer can be had.
StreamFree(b) == buffer[b].life = "live" /\ b \notin Submitted

\* An application call on b may start: a careful application finishes one
\* call on a command buffer before the next.
Callable(b) == StreamFree(b) /\ (app.synced => thread[b] = Idle)

\* The client mutex can be had.
ClientFree == submit = Idle

-----------------------------------------------------------------------------
(* Slots.                                                                  *)

\* Mutant: the slot's bit stays set.
release_keeps_bit(state, leased) ==
    [state |-> [state EXCEPT !.slot = NoSlot], slots |-> leased]

release_command_stream_slot(state, leased) ==
    [state |-> [state EXCEPT !.slot = NoSlot], slots |-> leased \ {state.slot}]

\* Mutant: the new recording counts as uploaded when the old one was.
reset_keeps_uploaded(state, leased) ==
    [state |-> [EmptyStream EXCEPT !.uploaded = state.uploaded],
     slots |-> leased \ {state.slot}]

reset_command_stream_state(state, leased) ==
    [state |-> EmptyStream,
     slots |-> release_command_stream_slot(state, leased).slots]

\* The lowest free slot and the next sequence number, or no slot.
lease_command_stream_slot(state, leased) ==
    IF leased = Slots THEN [state |-> state, slots |-> leased]
    ELSE LET slot == Min(Slots \ leased)
         IN  [state |-> [state EXCEPT !.slot = slot,
                                      !.sequence = next_sequence],
              slots |-> leased \cup {slot}]

-----------------------------------------------------------------------------
(* Command buffers.                                                        *)

\* Allocation alone takes no slot.
vkAllocateCommandBuffers(b) ==
    /\ ClientFree /\ buffer[b].life = "new"
    /\ Cardinality({x \in Buffers : buffer[x].life # "new"}) < app.width
    /\ buffer' = [buffer EXCEPT ![b].life = "live"]
    /\ UNCHANGED <<slots, next_sequence, thread, region, owned, submit, app>>
    /\ UNCHANGED service_vars

\* Beginning a buffer that is recording fails and gives its slot back; any
\* other one forgets what it held and leases a slot, if there is one.
vkBeginCommandBuffer(b) ==
    LET old == buffer[b]
        reset == reset_command_stream_state(old, slots)
        leased == lease_command_stream_slot(reset.state, reset.slots)
        failed == release_command_stream_slot(
                    IF old.recording THEN old ELSE reset.state,
                    IF old.recording THEN slots ELSE reset.slots)
        fits == ~ old.recording /\ leased.state.slot # NoSlot
    IN  /\ Callable(b) /\ next_sequence <= MaxSequence
        /\ IF fits
           THEN /\ buffer' = [buffer EXCEPT ![b] =
                     [leased.state EXCEPT !.recording = TRUE,
                        !.wrote = <<Rec("begin", None, next_sequence, TRUE)>>]]
                /\ slots' = leased.slots
                /\ next_sequence' = next_sequence + 1
                /\ region' = [region EXCEPT ![leased.state.slot] =
                     [header |-> NoHeader,
                      records |-> <<Rec("begin", None, next_sequence, TRUE)>>]]
           ELSE /\ buffer' = [buffer EXCEPT ![b] =
                     [failed.state EXCEPT !.recording = FALSE, !.error = TRUE]]
                /\ slots' = failed.slots
                /\ UNCHANGED <<next_sequence, region>>
        /\ UNCHANGED <<thread, owned, submit, app>>
        /\ UNCHANGED service_vars

\* Sealing writes the header; a recording that went wrong gives its slot back.
vkEndCommandBuffer(b) ==
    LET old == buffer[b]
        records == region[old.slot].records
        good == /\ old.recording /\ ~ old.error
                /\ old.slot # NoSlot /\ Len(records) < SlotRecords
        failed == release_command_stream_slot(old, slots)
        last == Rec("end", None, old.sequence, TRUE)
    IN  /\ Callable(b)
        /\ IF good
           THEN /\ buffer' = [buffer EXCEPT ![b] =
                     [old EXCEPT !.length = Len(records) + 1, !.sealed = TRUE,
                        !.recording = FALSE, !.wrote = Append(@, last)]]
                /\ region' = [region EXCEPT ![old.slot] =
                     [header |-> [id |-> b, sequence |-> old.sequence,
                                  length |-> Len(records) + 1],
                      records |-> Append(records, last)]]
                /\ UNCHANGED slots
           ELSE /\ buffer' = [buffer EXCEPT ![b] =
                     [failed.state EXCEPT !.length = 0, !.sealed = FALSE,
                        !.error = TRUE, !.recording = FALSE]]
                /\ slots' = failed.slots
                /\ UNCHANGED region
        /\ UNCHANGED <<next_sequence, thread, owned, submit, app>>
        /\ UNCHANGED service_vars

\* The buffers of the set give their slots back and take the given states.
Reset(bs, states) ==
    /\ buffer' = [b \in Buffers |-> IF b \in bs THEN states[b] ELSE buffer[b]]
    /\ slots' = slots \ {buffer[b].slot : b \in bs}
    /\ native' = [b \in Buffers |-> IF b \in bs
                    THEN [state |-> "initial", records |-> <<>>] ELSE native[b]]
    /\ UNCHANGED <<next_sequence, thread, region, owned, submit, generations,
                   begun, repeated, misrun, app>>

\* Bound: all buffers come from one pool.  The client mutex is held, so no
\* stream mutex is held by a submission; the driver may refuse a reset.
vkResetCommandPool ==
    LET live == {b \in Buffers : buffer[b].life = "live"}
    IN  /\ ClientFree /\ (app.synced => \A b \in live : thread[b] = Idle)
        /\ Reset(live, [b \in live |-> reset_command_stream_state(buffer[b], slots).state])

Freed(b) == [release_command_stream_slot(buffer[b], slots).state
               EXCEPT !.life = "gone"]

vkFreeCommandBuffers(b) ==
    /\ ClientFree /\ buffer[b].life = "live" /\ thread[b] = Idle
    /\ Reset({b}, [c \in {b} |-> Freed(c)])

vkDestroyCommandPool ==
    LET live == {b \in Buffers : buffer[b].life = "live"}
    IN  /\ ClientFree /\ \A b \in live : thread[b] = Idle
        /\ Reset(live, [b \in live |-> Freed(b)])

\* An object is destroyed on both sides, whatever still names it.
DestroyObject(o) ==
    /\ ClientFree /\ o \in owned
    /\ owned' = owned \ {o}
    /\ UNCHANGED <<buffer, slots, next_sequence, thread, region, submit, app>>
    /\ UNCHANGED service_vars

-----------------------------------------------------------------------------
(* Recording.                                                              *)

\* What one call leaves: the buffer, the region and where its thread is.
Left(b, state, bytes, at) ==
    /\ buffer' = [buffer EXCEPT ![b] = state]
    /\ region' = bytes
    /\ thread' = [thread EXCEPT ![b] = at]
    /\ UNCHANGED <<slots, next_sequence, owned, submit, app>>
    /\ UNCHANGED service_vars

\* poison_shared_command_stream, and every refusal under the stream mutex.
poison_shared_command_stream(state) ==
    [state EXCEPT !.error = TRUE, !.sealed = FALSE]

\* append_record, where the buffer is recording without an error.
CanAppend(state) ==
    state.recording /\ ~ state.error /\ Len(region[state.slot].records) < SlotRecords

Appends(b, state, record) ==
    IF CanAppend(state)
    THEN Left(b, state, [region EXCEPT ![state.slot].records = Append(@, record)],
              Idle)
    ELSE Left(b, poison_shared_command_stream(state), region, Idle)

\* The history of what a careful application asked for.
Noted(b, record) ==
    IF app.synced /\ ~ buffer[b].error THEN [buffer[b] EXCEPT !.wrote = Append(@, record)]
    ELSE buffer[b]

\* An application records into a buffer it has begun, and a careful one calls
\* from one thread.
MayRecord(b, command) ==
    /\ command \in app.commands /\ Len(buffer[b].wrote) <= app.calls
    /\ Callable(b) /\ thread[b] = Idle /\ (app.synced => buffer[b].recording)

\* A call with an argument the bridge does not carry poisons the recording.
UnsupportedShape(b) ==
    /\ MayRecord(b, "unsupported")
    /\ Left(b, poison_shared_command_stream(
                 Noted(b, Rec("use", None, buffer[b].sequence, TRUE))), region, Idle)

\* shared_object_owned_by_device_cached_locked, up to the release of the
\* mutex: an object in the cache needs no look at the registry.  A direct
\* call appends under the mutex it checked with.
StartChecked(b, command, kind, object, direct) ==
    LET record == Rec(kind, object, buffer[b].sequence, direct)
        noted == Noted(b, record)
        miss == object \notin buffer[b].cache
    IN  /\ MayRecord(b, command)
        /\ IF miss \/ ~ direct
           THEN Left(b, noted, region,
                     [at |-> IF miss THEN "registry" ELSE "append",
                      record |-> record])
           ELSE Appends(b, noted, record)

\* The registry is read without the stream mutex.
RegistryRead(b) ==
    /\ thread[b].at = "registry"
    /\ thread' = [thread EXCEPT ![b] =
                    [at |-> "relock", record |-> @.record,
                     found |-> @.record.object \in owned]]
    /\ UNCHANGED <<buffer, slots, next_sequence, region, owned, submit, app>>
    /\ UNCHANGED service_vars

\* Mutant: the recording is not compared after the mutex was released.
recheck_dropped(b, call) == call.found

\* The answer counts only in the recording it was asked for.
StillOwned(b, call) ==
    /\ call.found
    /\ buffer[b].sequence = call.record.from /\ buffer[b].recording

\* The rest of a checked call, once the stream mutex is had again.
Relock(b) ==
    LET call == thread[b]
        cached == [buffer[b] EXCEPT !.cache = @ \cup {call.record.object}]
    IN  /\ call.at = "relock" /\ StreamFree(b)
        /\ IF ~ StillOwned(b, call)
           THEN Left(b, poison_shared_command_stream(buffer[b]), region, Idle)
           ELSE IF call.record.direct THEN Appends(b, cached, call.record)
           ELSE Left(b, cached, region,
                     [at |-> "append", record |-> call.record])

\* submit_single_render_record: the record was built apart and is appended
\* under the mutex; nothing asks whether the recording is still the same.
submit_single_render_record(b) ==
    /\ thread[b].at = "append" /\ StreamFree(b)
    /\ Appends(b, buffer[b], thread[b].record)

\* A record no ownership check precedes.
StartUnchecked(b, command, kind, object) ==
    LET record == Rec(kind, object, buffer[b].sequence, FALSE)
    IN  /\ MayRecord(b, command)
        /\ Left(b, Noted(b, record), region,
                [at |-> "append", record |-> record])

\* Calls that append under the mutex of the check.
Direct(b, command) == \E o \in Objects : StartChecked(b, command, "use", o, TRUE)

vkCmdFillBuffer(b) == Direct(b, "FillBuffer")
vkCmdUpdateBuffer(b) == Direct(b, "UpdateBuffer")
vkCmdClearColorImage(b) == Direct(b, "ClearColorImage")
vkCmdPipelineBarrier2(b) == Direct(b, "PipelineBarrier2")
vkCmdBindDescriptorSets(b) == Direct(b, "BindDescriptorSets")
submit_transfer_command(b) == Direct(b, "transfer")

\* Calls that check, build a record and append it later.
Late(b, command, kind) == \E o \in Objects : StartChecked(b, command, kind, o, FALSE)

vkCmdBindPipeline(b) == Late(b, "BindPipeline", "use")
vkCmdPushConstants(b) == Late(b, "PushConstants", "use")
submit_vertex_buffers_command(b) == Late(b, "vertex_buffers", "use")
submit_index_buffer_command(b) == Late(b, "index_buffer", "use")
submit_indirect_draw_command(b) == Late(b, "indirect_draw", "draw")
vkCmdBeginRendering(b) == Late(b, "BeginRendering", "begin_rendering")

\* Calls that check nothing; a query pool or depth image is left to the service.
record_query_command(b) == \E o \in Objects : StartUnchecked(b, "query", "use", o)
vkCmdClearDepthStencilImage(b) ==
    \E o \in Objects : StartUnchecked(b, "ClearDepthStencilImage", "use", o)
vkCmdClearAttachments(b) == StartUnchecked(b, "ClearAttachments", "use", None)
submit_dynamic_state_command(b) == StartUnchecked(b, "dynamic_state", "use", None)
vkCmdSetViewportWithCount(b) == StartUnchecked(b, "viewport", "use", None)
vkCmdDraw(b) == StartUnchecked(b, "Draw", "draw", None)
vkCmdEndRendering(b) == StartUnchecked(b, "EndRendering", "end_rendering", None)

-----------------------------------------------------------------------------
(* Submission: the client's half.                                          *)

Replayable(b) ==
    /\ ~ buffer[b].recording /\ ~ buffer[b].error /\ buffer[b].sealed
    /\ buffer[b].length # 0 /\ buffer[b].slot \in Slots

\* The reference of a stream the service has not replayed yet, or of a
\* native command buffer it has.
CommandRef(b) ==
    [id |-> b, stream |-> ~ buffer[b].uploaded, slot |-> buffer[b].slot,
     sequence |-> buffer[b].sequence, length |-> buffer[b].length]

\* The places of a submission that name a stream; the others name a native
\* command buffer.
Streams(commands) == {n \in DOMAIN commands : commands[n].stream}

vkQueueSubmit2 ==
    \E bs \in SeqOf(Buffers, MaxCommands) \ {<<>>} :
      /\ ClientFree
      /\ \A n \in DOMAIN bs : Callable(bs[n])
                              /\ (buffer[bs[n]].uploaded \/ Replayable(bs[n]))
      /\ submit' = [at |-> "sent",
                    commands |-> [n \in DOMAIN bs |-> CommandRef(bs[n])]]
      /\ UNCHANGED <<buffer, slots, next_sequence, thread, region, owned, app>>
      /\ UNCHANGED service_vars

\* A clean answer retires the slots, whatever the driver's result in it.
SubmitReturns ==
    LET streams == {submit.commands[n].id : n \in Streams(submit.commands)}
        clean == IF submit.status = "SUCCESS" THEN streams ELSE {}
    IN  /\ submit.at = "answered"
        /\ buffer' = [b \in Buffers |-> IF b \in clean
                        THEN [buffer[b] EXCEPT !.uploaded = TRUE, !.slot = NoSlot]
                        ELSE buffer[b]]
        /\ slots' = slots \ {buffer[b].slot : b \in clean}
        /\ submit' = Idle
        /\ UNCHANGED <<next_sequence, thread, region, owned, app>>
        /\ UNCHANGED service_vars

\* The buffers of a submission that do not hold what was recorded.
Misrun(bs, now) ==
    {b \in bs : app.synced /\ now[b] # [state |-> "executable", records |-> buffer[b].wrote]}

\* vkQueueSubmit knows native command buffers only: a sealed stream that was
\* not replayed is refused, and nothing else is asked.  A careful application
\* submits what it has ended well.
vkQueueSubmit(b) ==
    /\ ClientFree /\ Callable(b) /\ (app.synced => buffer[b].sealed)
    /\ ~ (buffer[b].sealed /\ ~ buffer[b].uploaded)
    /\ misrun' = misrun \cup Misrun({b}, native)
    /\ UNCHANGED <<buffer, slots, next_sequence, thread, region, owned, submit,
                   app, native, generations, begun, repeated>>

-----------------------------------------------------------------------------
(* Submission: the service's half.                                         *)

\* Rendering is open after the records.
Rendering(records) ==
    Cardinality({n \in DOMAIN records : records[n].kind = "begin_rendering"})
      > Cardinality({n \in DOMAIN records : records[n].kind = "end_rendering"})

\* validate_render_command_record: begin and end alternate, draws are inside.
validate_render_command_record(before, record) ==
    CASE record.kind = "begin_rendering" -> ~ Rendering(before)
      [] record.kind \in {"draw", "end_rendering"} -> Rendering(before)
      [] OTHER -> TRUE

\* command_stream_*_matches_device
MatchesDevice(record) == record.object = None \/ record.object \in owned

\* Mutant: only the topology of a stream is checked.
validate_topology_only(records) ==
    /\ Len(records) >= 2
    /\ records[1].kind = "begin" /\ records[Len(records)].kind = "end"

validate_command_stream(records) ==
    /\ Len(records) >= 2
    /\ records[1].kind = "begin" /\ records[Len(records)].kind = "end"
    /\ \A n \in 2..(Len(records) - 1) :
         /\ records[n].kind \notin {"begin", "end"}
         /\ MatchesDevice(records[n])
         /\ validate_render_command_record(SubSeq(records, 1, n - 1), records[n])
    /\ ~ Rendering(records)

\* One update of the table: a sequence number is taken once, and entries of
\* dead command buffers are given up only when there is no room.
bvb_command_stream_generation_commit(gens, update) ==
    LET b == update.id
        room(g) == b \in DOMAIN g \/ Cardinality(DOMAIN g) < GenerationSlots
        alive == Restrict(gens, {x \in DOMAIN gens : buffer[x].life = "live"})
        kept == IF room(gens) THEN gens ELSE alive
    IN  IF (b \in DOMAIN gens /\ update.sequence <= gens[b]) \/ ~ room(kept)
        THEN {}
        ELSE {[x \in DOMAIN kept \cup {b} |->
                 IF x = b THEN update.sequence ELSE kept[x]]}

\* The table after all of the updates, or nothing when one is refused.
bvb_command_stream_generations_apply(commands) ==
    LET shadow[n \in 0..Len(commands)] ==
          IF n = 0 THEN {generations}
          ELSE IF ~ commands[n].stream THEN shadow[n - 1]
          ELSE UNION {bvb_command_stream_generation_commit(g, commands[n]) :
                        g \in shadow[n - 1]}
    IN  shadow[Len(commands)]

\* The reference fits the header in the snapshot of its slot.
SnapshotFits(c) ==
    region[c.slot].header = [id |-> c.id, sequence |-> c.sequence,
                             length |-> c.length]

\* replay_submit_command_streams up to the point where it touches anything.
Checked(commands) ==
    IF \E m, n \in Streams(commands) :
         m # n /\ commands[m].id = commands[n].id THEN "EPROTO"
    ELSE IF \E n \in Streams(commands) : ~ SnapshotFits(commands[n]) THEN "ESTALE"
    ELSE IF \E n \in Streams(commands) :
              ~ validate_command_stream(region[commands[n].slot].records)
         THEN "EPROTO"
    ELSE IF bvb_command_stream_generations_apply(commands) = {} THEN "ESTALE"
    ELSE "SUCCESS"

\* The native command buffers once the streams up to the n-th place were
\* replayed, the last of them in part only when the driver failed.
Replayed(commands, n, failed) ==
    [b \in Buffers |->
       LET mine == {k \in Streams(commands) : k <= n /\ commands[k].id = b}
       IN  IF mine = {} THEN native[b]
           ELSE LET k == CHOOSE k \in mine : TRUE
                IN  [state |-> IF failed /\ k = n THEN "broken" ELSE "executable",
                     records |-> region[commands[k].slot].records]]

Answered(status) ==
    submit' = [at |-> "answered", status |-> status, commands |-> submit.commands]

\* The streams up to the n-th place, and the history of their replay.
Names(commands, n) ==
    {<<commands[k].id, commands[k].sequence>> :
       k \in {j \in Streams(commands) : j <= n}}

ReplayBegan(commands, n) ==
    /\ begun' = begun \cup Names(commands, n)
    /\ repeated' = repeated \cup (begun \cap Names(commands, n))

\* Mutant: the sequence numbers are consumed once the replay is complete.
consumed_after_replay(commands, failed) ==
    IF failed THEN {generations}
    ELSE bvb_command_stream_generations_apply(commands)

\* The sequence numbers are consumed before the first record is replayed.
ConsumeGenerations(commands, failed) ==
    bvb_command_stream_generations_apply(commands)

\* A refused submission: nothing is consumed, nothing is replayed.
ServeRefused(status) ==
    /\ Answered(status)
    /\ UNCHANGED service_vars

\* The driver fails a record of the n-th stream.
ServeReplayFails(commands) ==
    \E n \in Streams(commands) :
      /\ generations' \in ConsumeGenerations(commands, TRUE)
      /\ native' = Replayed(commands, n, TRUE)
      /\ ReplayBegan(commands, n)
      /\ Answered("EIO")
      /\ UNCHANGED misrun

\* Everything was replayed.  The driver may lack the entry point, which is a
\* negative status, and vkQueueSubmit2 may return any result, which is not.
ServeReplayed(commands) ==
    /\ generations' \in ConsumeGenerations(commands, FALSE)
    /\ native' = Replayed(commands, Len(commands), FALSE)
    /\ ReplayBegan(commands, Len(commands))
    /\ \/ Answered("EIO") /\ UNCHANGED misrun             \* -ENOSYS
       \/ Answered("SUCCESS") /\ UNCHANGED misrun         \* a Vulkan error
       \/ Answered("SUCCESS") /\ misrun' = misrun \cup Misrun(Submitted, native')

\* answer_vulkan_queue_submit_2
answer_vulkan_queue_submit_2 ==
    LET commands == submit.commands
        checked == IF Streams(commands) = {} THEN "SUCCESS" ELSE Checked(commands)
    IN  /\ submit.at = "sent"
        /\ \/ checked # "SUCCESS" /\ ServeRefused(checked)
           \/ checked = "SUCCESS" /\ ServeReplayFails(commands)
           \/ checked = "SUCCESS" /\ ServeReplayed(commands)
        /\ UNCHANGED <<buffer, slots, next_sequence, thread, region, owned, app>>

-----------------------------------------------------------------------------

Command(b) ==
    \/ vkCmdFillBuffer(b) \/ vkCmdUpdateBuffer(b) \/ vkCmdClearColorImage(b)
    \/ vkCmdPipelineBarrier2(b) \/ vkCmdBindDescriptorSets(b)
    \/ submit_transfer_command(b) \/ vkCmdBindPipeline(b) \/ vkCmdPushConstants(b)
    \/ submit_vertex_buffers_command(b) \/ submit_index_buffer_command(b)
    \/ submit_indirect_draw_command(b) \/ vkCmdBeginRendering(b)
    \/ record_query_command(b) \/ vkCmdClearDepthStencilImage(b)
    \/ vkCmdClearAttachments(b) \/ submit_dynamic_state_command(b)
    \/ vkCmdSetViewportWithCount(b) \/ vkCmdDraw(b) \/ vkCmdEndRendering(b)
    \/ UnsupportedShape(b)
    \/ RegistryRead(b) \/ Relock(b) \/ submit_single_render_record(b)

Next ==
    \/ \E b \in Buffers :
         \/ vkAllocateCommandBuffers(b) \/ vkBeginCommandBuffer(b)
         \/ vkEndCommandBuffer(b) \/ vkFreeCommandBuffers(b)
         \/ vkQueueSubmit(b) \/ Command(b)
    \/ vkResetCommandPool \/ vkDestroyCommandPool
    \/ \E o \in Objects : DestroyObject(o)
    \/ vkQueueSubmit2 \/ SubmitReturns \/ answer_vulkan_queue_submit_2

Spec == Init /\ [][Next]_vars

-----------------------------------------------------------------------------
(* Properties.                                                             *)

\* The variables stay in their types; in particular the service's table never
\* holds more command buffers than it has room for, however many recordings
\* are begun, submitted and thrown away.
TypeOK ==
    /\ \A b \in Buffers : /\ buffer[b].slot \in Slots \cup {NoSlot}
                          /\ buffer[b].life \in {"new", "live", "gone"}
                          /\ buffer[b].sequence < next_sequence
                          /\ native[b].state \in {"initial", "executable", "broken"}
    /\ slots \subseteq Slots
    /\ DOMAIN generations \subseteq Buffers
    /\ Cardinality(DOMAIN generations) <= GenerationSlots
    /\ \A b \in DOMAIN generations : generations[b] < next_sequence

\* The types hold, and slots are leased exactly to the live command buffers that hold a recording
\* the service has not acknowledged, one each: no path through begin, end,
\* reset, free, pool teardown and submission loses a slot or shares one.
SlotsAccounted ==
    LET holders == {b \in Buffers : buffer[b].slot # NoSlot}
    IN  /\ TypeOK
        /\ slots = {buffer[b].slot : b \in holders}
        /\ Cardinality(slots) = Cardinality(holders)
        /\ \A b \in holders : buffer[b].life = "live" /\ ~ buffer[b].uploaded

\* Under an application that uses a command buffer from one thread at a time,
\* whatever the queue executes is the last recording of each command buffer,
\* every command of it in the order of the calls: never an older recording,
\* never part of one, never a recording with a command missing.
RunsWhatWasRecorded == misrun = {}

\* A command that checks and appends under one mutex never ends up in another
\* recording than the one it was called in, whatever happens while the
\* registry is being read without the mutex.
DirectStaysInRecording ==
    \A b \in Buffers :
      LET state == buffer[b]
      IN  state.slot # NoSlot =>
            \A n \in DOMAIN region[state.slot].records :
              LET r == region[state.slot].records[n]
              IN  r.direct => r.from = state.sequence

\* No stream is replayed twice, whatever failed before and however often the
\* client submits it again.
NoDoubleReplay == repeated = {}

\* A step that makes native command buffers executable has replayed streams
\* whose every object was alive at that moment and whose rendering scopes
\* were closed, and a refused submission has touched no native buffer.
ReplaysOnlyValid ==
    [][\A b \in Buffers :
         native'[b] # native[b] /\ native'[b].state = "executable" =>
           LET records == native'[b].records
           IN  /\ \A n \in DOMAIN records : MatchesDevice(records[n])
               /\ ~ Rendering(records)
               /\ submit'.status \notin {"EPROTO", "ESTALE"}]_vars

-----------------------------------------------------------------------------
(***************************************************************************)
(* The inductive invariant of SlotsAccounted, DirectStaysInRecording,      *)
(* NoDoubleReplay and RunsWhatWasRecorded.                                 *)
(***************************************************************************)

\* Records; the first and the last of a recording name no object.
Entries ==
    {r \in [kind : Kinds, object : Objects \cup {None}, from : Nat,
            direct : BOOLEAN] : r.kind \in {"begin", "end"} => r.object = None}

StreamStates ==
    [slot : Slots \cup {NoSlot}, sequence : Nat, length : Nat,
     recording : BOOLEAN, sealed : BOOLEAN, uploaded : BOOLEAN, error : BOOLEAN,
     cache : SUBSET (Objects \cup {None}), life : {"new", "live", "gone"},
     wrote : Seq(Entries)]

Calls == {Idle} \cup [at : {"registry", "append"}, record : Entries]
         \cup [at : {"relock"}, record : Entries, found : BOOLEAN]

References == [id : Buffers, stream : BOOLEAN, slot : Slots \cup {NoSlot},
               sequence : Nat, length : Nat]

Contents == [header : [id : Buffers \cup {None}, sequence : Nat, length : Nat],
             records : Seq(Entries)]

ClientTypes ==
    /\ buffer \in [Buffers -> StreamStates]
    /\ slots \in SUBSET Slots /\ next_sequence \in Nat
    /\ thread \in [Buffers -> Calls]
    /\ region \in [Slots -> Contents]

ServiceTypes ==
    /\ native \in [Buffers -> [state : {"initial", "executable", "broken"},
                               records : Seq(Entries)]]
    /\ DOMAIN generations \subseteq Buffers
    /\ IsFiniteSet(DOMAIN generations)
    /\ Cardinality(DOMAIN generations) <= GenerationSlots
    /\ \A b \in DOMAIN generations :
         generations[b] \in Nat /\ generations[b] < next_sequence

\* A slot belongs to one live command buffer whose recording the service has
\* not acknowledged, and a recording has one; a new command buffer is empty.
LeasesKnown ==
    /\ \A b \in Buffers :
         /\ buffer[b].sequence < next_sequence
         /\ buffer[b].life = "new" =>
              /\ buffer[b] = [EmptyStream EXCEPT !.life = "new"]
              /\ thread[b] = Idle
         /\ buffer[b].slot # NoSlot => /\ buffer[b].life = "live"
                                       /\ ~ buffer[b].uploaded
                                       /\ buffer[b].slot \in slots
         /\ buffer[b].life = "live" /\ buffer[b].recording =>
              buffer[b].slot # NoSlot
    /\ \A b, c \in Buffers :
         buffer[b].slot # NoSlot /\ buffer[b].slot = buffer[c].slot => b = c
    /\ \A s \in slots : \E b \in Buffers : buffer[b].slot = s

\* A call that appends without a second look is not a direct one.
DirectKnown ==
    /\ DirectStaysInRecording
    /\ \A b \in Buffers : thread[b].at = "append" => ~ thread[b].record.direct

\* The submission in progress names its command buffers as they are: they
\* are locked until it returns.
SubmitKnown ==
    /\ submit.at \in {"idle", "sent", "answered"}
    /\ submit.at = "idle" => submit = Idle
    /\ submit.at # "idle" =>
         /\ submit.commands \in Seq(References)
         /\ \A n \in DOMAIN submit.commands :
              LET b == submit.commands[n].id
              IN  /\ submit.commands[n] = CommandRef(b)
                  /\ buffer[b].life = "live"
                  /\ buffer[b].uploaded \/ Replayable(b)

\* The table remembers every stream whose replay began, unless its command
\* buffer is gone for good.
BegunKnown ==
    /\ repeated = {}
    /\ begun \in SUBSET (Buffers \X Nat)
    /\ \A name \in begun :
         \/ buffer[name[1]].life = "gone"
         \/ /\ buffer[name[1]].life = "live" /\ name[1] \in DOMAIN generations
            /\ name[2] <= generations[name[1]]

\* Under a careful application: the slot of a recording holds what has been
\* recorded but for the call in progress, that of a sealed recording holds all
\* of it, and so does the native command buffer once the client knows.
RecordingKnown(b) ==
    LET state == buffer[b]
    IN  state.life = "live" =>
          /\ thread[b] # Idle => state.recording
          /\ state.recording /\ ~ state.error =>
               state.wrote = region[state.slot].records
                 \o (IF thread[b] = Idle THEN <<>> ELSE <<thread[b].record>>)
          /\ Replayable(b) => state.wrote = region[state.slot].records
          /\ state.uploaded =>
               native[b] = [state |-> "executable", records |-> state.wrote]

CarefulKnown ==
    /\ misrun = {}
    /\ app.synced =>
         /\ \A b \in Buffers : RecordingKnown(b)
         /\ submit.at = "answered" /\ submit.status = "SUCCESS" =>
              \A n \in DOMAIN submit.commands :
                LET b == submit.commands[n].id
                IN  native[b] = [state |-> "executable", records |-> buffer[b].wrote]

StreamInv ==
    /\ ClientTypes /\ ServiceTypes
    /\ LeasesKnown /\ DirectKnown /\ SubmitKnown /\ BegunKnown /\ CarefulKnown
=============================================================================
