---------------------------- MODULE ActivityHost ----------------------------
(***************************************************************************)
(* The visible Activity (android/visible-host/native_main.c) and what the  *)
(* service knows of it (bridge_service.c).                                 *)
(*                                                                         *)
(* Android calls the callbacks on the main thread.  They set two flags,    *)
(* ask the renderer worker for a renderer of the new window and report     *)
(* events to the service over loopback; the worker builds and destroys the *)
(* renderer and reports too; the frame consumer copies game frames while   *)
(* the flags allow it.  renderer_device_mutex protects the renderer and    *)
(* the imported frame transport.  An event is sent and acknowledged under  *)
(* the lifecycle mutex; one that fails ends the reporting.  The service    *)
(* keeps a status and gives each connection a copy of it.                  *)
(***************************************************************************)
EXTENDS Naturals, Sequences, FiniteSets

CONSTANTS
    MaxCalls         \* bound: callbacks of Android in a behaviour

ASSUME ActivityHostAssumption == MaxCalls \in Nat

VARIABLES
    android,     \* what Android has done: phase, window, extent, calls so far
    flags,       \* activity_resumed and activity_window_present
    renderer,    \* the renderer request shared with the worker
    worker,      \* renderer_worker_main
    device,      \* the window the Vulkan renderer was built for, or 0
    mutex,       \* who holds renderer_device_mutex
    transport,   \* game_frames: the ring is mapped, the transport installed
    consumer,    \* game_frame_consumer_main
    lifecycle,   \* the connection to the service: configured, next_sequence
    main,        \* what the main thread's callback still has to do
    inbox,       \* records the service has not handled, oldest first
    status,      \* the service's bvb_activity_status
    client,      \* a connection of a game: its copy of the status
    mode         \* the launch: retain_external_renderer for a game, a local
                 \* heartbeat, or a visible ingress

vars == <<android, flags, renderer, worker, device, mutex, transport, consumer,
          lifecycle, main, inbox, status, client, mode>>

activity_vars == <<android, flags, renderer, main>>
render_vars == <<worker, device, mutex, transport, consumer>>
service_vars == <<inbox, status, client>>

Extents == 1..2
NoCopy == [flags |-> {}, extent |-> 0, last |-> 0, count |-> 0]

Init ==
    /\ android = [phase |-> "none", window |-> 0, extent |-> 1, windows |-> 0,
                  calls |-> 0]
    /\ flags = [resumed |-> FALSE, window |-> FALSE]
    /\ renderer = [window |-> 0, extent |-> 0, ready |-> FALSE, requested |-> 0,
                   completed |-> 0, started |-> FALSE]
    /\ worker = [at |-> "none", generation |-> 0, window |-> 0, success |-> FALSE,
                 extent |-> 0]
    /\ device = 0 /\ mutex = "free"
    /\ transport = [ring |-> FALSE, installed |-> FALSE]
    /\ consumer = "none"
    /\ lifecycle = [configured |-> FALSE, next |-> 1, sender |-> "none"]
    /\ main = <<>>
    /\ inbox = <<>> /\ status = NoCopy
    /\ client = [open |-> FALSE, copy |-> NoCopy, prepared |-> 0]
    /\ mode \in {"retain", "heartbeat", "ingress"}

-----------------------------------------------------------------------------
(* Reporting.                                                              *)

\* emit_lifecycle up to the wait for the acknowledgement: the record is on
\* its way, the mutex is held.  Without a configured service it does nothing.
Sends(sender, event, extent) ==
    /\ lifecycle.sender = "none"
    /\ IF lifecycle.configured
       THEN /\ lifecycle' = [lifecycle EXCEPT !.sender = sender]
            /\ inbox' = Append(inbox, [event |-> event, extent |-> extent,
                                       sequence |-> lifecycle.next, awaited |-> TRUE])
       ELSE UNCHANGED <<lifecycle, inbox>>

\* The wait is over: an acknowledgement moves the sequence number on,
\* anything else ends the reporting.
Hears(ok) ==
    lifecycle' = [lifecycle EXCEPT !.sender = "none",
                    !.configured = ok,
                    !.next = IF ok THEN @ + 1 ELSE @]

\* record_is_valid
record_is_valid(record) ==
    record.event \in {"WINDOW_CREATED", "RENDERER_READY", "RENDERER_FAILED"}
      => record.extent # 0

\* What an accepted event does to the state flags.
StateFlags(old, record) ==
    CASE record.event = "CREATED" -> {"CREATED"}
      [] record.event = "STARTED" -> old \cup {"STARTED"}
      [] record.event = "RESUMED" -> old \cup {"RESUMED"}
      [] record.event = "PAUSED" -> old \ {"RESUMED", "FOCUSED"}
      [] record.event = "STOPPED" -> old \ {"STARTED", "RESUMED", "FOCUSED"}
      [] record.event = "DESTROYED" -> {"DESTROYED"}
      [] record.event = "WINDOW_CREATED" -> old \cup {"WINDOW"}
      [] record.event = "WINDOW_DESTROYED" -> old \ {"WINDOW", "READY"}
      [] record.event = "FOCUS_GAINED" -> old \cup {"FOCUSED"}
      [] record.event = "FOCUS_LOST" -> old \ {"FOCUSED"}
      [] record.event = "RENDERER_READY" -> old \cup {"WINDOW", "READY"}
      [] record.event = "RENDERER_FAILED" -> (old \ {"READY"}) \cup {"WINDOW"}
      [] OTHER -> old

Extent(old, record) ==
    CASE record.event \in {"CREATED", "DESTROYED", "WINDOW_DESTROYED"} -> 0
      [] record.event \in {"WINDOW_CREATED", "RENDERER_READY", "RENDERER_FAILED"}
           -> record.extent
      [] OTHER -> old

\* apply_lifecycle_event refuses an event out of order.
InOrder(record) ==
    IF record.event = "CREATED" THEN record.sequence = 1
    ELSE status.count # 0 /\ record.sequence > status.last

apply_lifecycle_event(record) ==
    [flags |-> StateFlags(status.flags, record),
     extent |-> Extent(status.extent, record),
     last |-> record.sequence, count |-> 1]

\* handle_activity_connection: the service takes the oldest connection.
\* Records of one process share its pid, and the tokens match.
handle_activity_connection ==
    LET record == Head(inbox)
        accepted == record_is_valid(record) /\ InOrder(record)
    IN  /\ inbox # <<>>
        /\ inbox' = Tail(inbox)
        /\ status' = IF accepted THEN apply_lifecycle_event(record) ELSE status
        /\ IF record.awaited THEN Hears(accepted) ELSE UNCHANGED lifecycle
        /\ UNCHANGED <<client, mode>> /\ UNCHANGED activity_vars
        /\ UNCHANGED render_vars

\* The half second of the sender passes, or its connection breaks: the
\* service may still handle the record, or has lost it.
EmitFails ==
    /\ lifecycle.sender # "none"
    /\ Hears(FALSE)
    /\ \/ inbox' = [inbox EXCEPT ![Len(inbox)].awaited = FALSE]
       \/ inbox' = SubSeq(inbox, 1, Len(inbox) - 1)
    /\ UNCHANGED <<status, client, mode>> /\ UNCHANGED activity_vars
    /\ UNCHANGED render_vars

-----------------------------------------------------------------------------
(* The main thread.  main is what is left of the callback: events to send  *)
(* and renderers to ask for.                                               *)

Emit(event, extent) == [do |-> "emit", event |-> event, window |-> 0,
                        extent |-> extent]
Schedule(window, force) == [do |-> IF force THEN "force" ELSE "schedule",
                            event |-> "", window |-> window,
                            extent |-> IF window = 0 THEN 0 ELSE android.extent]
Check == [do |-> "retain", event |-> "", window |-> 0, extent |-> 0]
Disable == [do |-> "disable", event |-> "", window |-> 0, extent |-> 0]

\* A callback starts when the one before has returned.
Callback(state, bits, rest) ==
    /\ main = <<>> /\ lifecycle.sender # "main" /\ android.calls < MaxCalls
    /\ android' = [state EXCEPT !.calls = @ + 1]
    /\ flags' = bits
    /\ main' = rest
    /\ UNCHANGED <<renderer, lifecycle, mode>>
    /\ UNCHANGED render_vars /\ UNCHANGED service_vars

\* configure_lifecycle waits for the lifecycle mutex.
ANativeActivity_onCreate ==
    /\ android.phase \in {"none", "destroyed"} /\ android.calls < MaxCalls
    /\ main = <<>> /\ lifecycle.sender = "none"
    /\ android' = [android EXCEPT !.phase = "created", !.calls = @ + 1]
    /\ lifecycle' = [configured |-> TRUE, next |-> 1, sender |-> "none"]
    /\ main' = <<Emit("CREATED", 0), Emit("NATIVE_BINDER_STATUS", 0)>>
    /\ UNCHANGED <<flags, renderer, mode>>
    /\ UNCHANGED render_vars /\ UNCHANGED service_vars

on_start ==
    /\ android.phase \in {"created", "stopped"}
    /\ Callback([android EXCEPT !.phase = "started"], flags, <<Emit("STARTED", 0)>>)

on_resume ==
    /\ android.phase \in {"started", "paused"}
    /\ Callback([android EXCEPT !.phase = "resumed"],
                [flags EXCEPT !.resumed = TRUE], <<Emit("RESUMED", 0)>>)

on_pause ==
    /\ android.phase = "resumed"
    /\ Callback([android EXCEPT !.phase = "paused"],
                [resumed |-> FALSE, window |-> FALSE], <<Emit("PAUSED", 0)>>)

on_stop ==
    /\ android.phase = "paused"
    /\ Callback([android EXCEPT !.phase = "stopped"], flags, <<Emit("STOPPED", 0)>>)

on_window_created ==
    /\ android.phase \in {"started", "resumed", "paused"} /\ android.window = 0
    /\ LET new == android.windows + 1
       IN  Callback([android EXCEPT !.window = new, !.windows = new],
                    [flags EXCEPT !.window = TRUE],
                    <<Emit("WINDOW_CREATED", android.extent), Schedule(new, TRUE)>>)

\* The extent changes with a resize; a redraw asks again for what there is.
on_window_resized ==
    /\ android.window # 0
    /\ \E extent \in Extents :
         Callback([android EXCEPT !.extent = extent], flags,
                  <<[Schedule(android.window, FALSE) EXCEPT !.extent = extent]>>)

on_window_redraw_needed ==
    /\ android.window # 0
    /\ Callback(android, flags, <<Schedule(android.window, FALSE)>>)

\* Mutant: the event is sent before the renderer is asked to go.
destroyed_reports_first ==
    /\ android.window # 0
    /\ Callback([android EXCEPT !.window = 0], [flags EXCEPT !.window = FALSE],
                <<Emit("WINDOW_DESTROYED", 0), Check>>)

\* Mutant: the consumer's gate stays open.
destroyed_keeps_gate ==
    /\ android.window # 0
    /\ Callback([android EXCEPT !.window = 0], flags,
                <<Check, Emit("WINDOW_DESTROYED", 0)>>)

on_window_destroyed ==
    /\ android.window # 0
    /\ Callback([android EXCEPT !.window = 0], [flags EXCEPT !.window = FALSE],
                <<Check, Emit("WINDOW_DESTROYED", 0)>>)

on_window_focus_changed ==
    /\ android.phase = "resumed"
    /\ \E event \in {"FOCUS_GAINED", "FOCUS_LOST"} :
         Callback(android, flags, <<Emit(event, 0)>>)

\* disable_lifecycle follows the last event.
on_destroy ==
    /\ android.phase = "stopped" /\ android.window = 0
    /\ Callback([android EXCEPT !.phase = "destroyed"],
                [flags EXCEPT !.resumed = FALSE],
                <<Schedule(0, TRUE), Emit("DESTROYED", 0), Disable>>)

\* renderer.mutex is held by a worker that reports the result of a round.
RendererFree ==
    worker.at # "emit" /\ (lifecycle.sender = "worker" => worker.at = "discard")

\* A request that asks for what is there, or on its way, changes nothing;
\* the worker is started by the first window.
schedule_renderer(window, extent, force) ==
    LET pending == renderer.requested # renderer.completed
        same == /\ renderer.window = window /\ renderer.extent = extent
                /\ renderer.ready \/ pending
    IN  IF (~ renderer.started /\ window = 0) \/ (~ force /\ same)
        THEN renderer
        ELSE [renderer EXCEPT !.started = TRUE, !.window = window,
                !.extent = extent, !.ready = FALSE, !.requested = @ + 1]

MainEmits ==
    /\ main # <<>> /\ Head(main).do = "emit" /\ lifecycle.sender # "main"
    /\ Sends("main", Head(main).event, Head(main).extent)
    /\ main' = Tail(main)
    /\ UNCHANGED <<android, flags, renderer, status, client, mode>>
    /\ UNCHANGED render_vars

\* A callback goes on when its event has been answered.
MainFree == lifecycle.sender # "main"

MainSchedules ==
    /\ main # <<>> /\ Head(main).do \in {"schedule", "force"} /\ MainFree
    /\ RendererFree
    /\ renderer' = schedule_renderer(Head(main).window, Head(main).extent,
                                     Head(main).do = "force")
    /\ worker' = IF renderer'.started /\ worker.at = "none"
                 THEN [worker EXCEPT !.at = "idle"] ELSE worker
    /\ main' = Tail(main)
    /\ UNCHANGED <<android, flags, device, mutex, transport, consumer, lifecycle,
                   mode>>
    /\ UNCHANGED service_vars

\* pthread_create fails: the worker is not started and nothing is asked for.
\* on_window_created, whose last duty this is, reports it; a resize and a
\* redraw do not.  (The other failure is 2^64 requests away.)
MainScheduleFails ==
    /\ main # <<>> /\ Head(main).do \in {"schedule", "force"} /\ MainFree
    /\ RendererFree
    /\ ~ renderer.started /\ Head(main).window # 0
    /\ main' = IF Head(main).do = "force"
               THEN <<Emit("RENDERER_FAILED", Head(main).extent)>> ELSE Tail(main)
    /\ UNCHANGED <<android, flags, renderer, lifecycle, mode>>
    /\ UNCHANGED render_vars /\ UNCHANGED service_vars

\* A destroyed window takes its renderer along, unless the renderer is kept
\* for a game and no transport is installed.
MainChecksRetained ==
    /\ main # <<>> /\ Head(main).do = "retain" /\ MainFree
    /\ main' = IF mode = "retain" /\ ~ transport.ring THEN Tail(main)
               ELSE <<Schedule(0, TRUE)>> \o Tail(main)
    /\ UNCHANGED <<android, flags, renderer, lifecycle, mode>>
    /\ UNCHANGED render_vars /\ UNCHANGED service_vars

disable_lifecycle ==
    /\ main # <<>> /\ Head(main).do = "disable" /\ lifecycle.sender = "none"
    /\ lifecycle' = [configured |-> FALSE, next |-> 1, sender |-> "none"]
    /\ main' = Tail(main)
    /\ UNCHANGED <<android, flags, renderer, mode>>
    /\ UNCHANGED render_vars /\ UNCHANGED service_vars

-----------------------------------------------------------------------------
(* The renderer worker.                                                    *)

Current == worker.generation = renderer.requested /\ worker.window = renderer.window

WorkerTakes ==
    /\ worker.at = "idle" /\ renderer.requested # worker.generation
    /\ worker' = [worker EXCEPT !.at = "lock", !.generation = renderer.requested,
                    !.window = renderer.window]
    /\ UNCHANGED <<device, mutex, transport, consumer, lifecycle, mode>>
    /\ UNCHANGED activity_vars /\ UNCHANGED service_vars

\* The worker can have renderer_device_mutex.
DeviceFree == mutex = "free"

\* destroy_renderer clears the frame transport with the renderer; then
\* create_renderer builds one for the window, or fails.
WorkerBuilds ==
    \E success \in BOOLEAN :
      /\ worker.at = "lock" /\ DeviceFree
      /\ worker.window = 0 => ~ success
      /\ worker' = [worker EXCEPT !.at = "publish", !.success = success,
                      !.extent = IF worker.window = 0 THEN 0 ELSE android.extent]
      /\ device' = IF success THEN worker.window ELSE 0
      /\ transport' = [ring |-> FALSE, installed |-> FALSE]
      /\ UNCHANGED <<mutex, consumer, lifecycle, mode>>
      /\ UNCHANGED activity_vars /\ UNCHANGED service_vars

\* Mutant: the result is published whatever has been asked for meanwhile.
publish_always == TRUE

\* The result counts if nothing else has been asked for meanwhile.
PublishCurrent == Current

\* The rest of a round: a local heartbeat, or a renderer nobody wants.
AfterPublish(current) ==
    CASE worker.success /\ current /\ mode = "heartbeat" -> "heartbeat"
      [] worker.success /\ ~ current -> "discard"
      [] OTHER -> "idle"

\* The result is published under renderer.mutex, and reported under it too.
WorkerPublishes ==
    /\ worker.at = "publish"
    /\ renderer' = [renderer EXCEPT !.completed = worker.generation,
                      !.ready = IF PublishCurrent THEN worker.success ELSE @]
    /\ worker' = [worker EXCEPT !.at = IF PublishCurrent /\ worker.window # 0
                                       THEN "emit" ELSE AfterPublish(PublishCurrent)]
    /\ UNCHANGED <<android, flags, main, device, mutex, transport, consumer,
                   lifecycle, mode>>
    /\ UNCHANGED service_vars

WorkerEmits ==
    /\ worker.at \in {"emit", "emit_failed"} /\ lifecycle.sender # "worker"
    /\ Sends("worker", IF worker.at = "emit" /\ worker.success
                       THEN "RENDERER_READY" ELSE "RENDERER_FAILED", worker.extent)
    /\ worker' = [worker EXCEPT !.at = IF @ = "emit" THEN AfterPublish(TRUE)
                                       ELSE "discard"]
    /\ UNCHANGED <<device, mutex, transport, consumer, status, client, mode>>
    /\ UNCHANGED activity_vars

\* animate_local_heartbeat ends when something else is asked for.
HeartbeatEnds ==
    /\ worker.at = "heartbeat" /\ lifecycle.sender # "worker" /\ ~ Current
    /\ worker' = [worker EXCEPT !.at = "idle"]
    /\ UNCHANGED <<device, mutex, transport, consumer, lifecycle, mode>>
    /\ UNCHANGED activity_vars /\ UNCHANGED service_vars

\* A frame of the heartbeat fails; the report comes after renderer.mutex.
HeartbeatFails ==
    /\ worker.at = "heartbeat" /\ lifecycle.sender # "worker"
    /\ renderer' = IF Current THEN [renderer EXCEPT !.ready = FALSE] ELSE renderer
    /\ worker' = [worker EXCEPT !.at = IF Current THEN "emit_failed" ELSE "discard"]
    /\ UNCHANGED <<android, flags, main, device, mutex, transport, consumer,
                   lifecycle, mode>>
    /\ UNCHANGED service_vars

WorkerDiscards ==
    /\ worker.at = "discard" /\ lifecycle.sender # "worker" /\ DeviceFree
    /\ device' = 0 /\ transport' = [ring |-> FALSE, installed |-> FALSE]
    /\ worker' = [worker EXCEPT !.at = "idle"]
    /\ UNCHANGED <<mutex, consumer, lifecycle, mode>>
    /\ UNCHANGED activity_vars /\ UNCHANGED service_vars

-----------------------------------------------------------------------------
(* The frame transport and its consumer.                                   *)

\* nativeInstallFrameTransport: the transport of a prepared swapchain is
\* imported into the renderer that is ready, or refused.
import_game_frame_transport ==
    /\ client.prepared # 0 /\ lifecycle.configured /\ DeviceFree /\ RendererFree
    /\ renderer.ready /\ renderer.extent = client.prepared /\ mode = "retain"
    /\ device # 0 /\ ~ transport.ring
    /\ transport' = [ring |-> TRUE, installed |-> TRUE]
    /\ consumer' = IF consumer = "none" THEN "wait" ELSE consumer
    /\ UNCHANGED <<worker, device, mutex, lifecycle, mode>>
    /\ UNCHANGED activity_vars /\ UNCHANGED service_vars

GateOpen == transport.installed /\ flags.resumed /\ flags.window

\* The condition wait is over; the mutex is released before the next one.
ConsumerWakes ==
    /\ consumer = "wait" /\ GateOpen
    /\ consumer' = "woken"
    /\ UNCHANGED <<worker, device, mutex, transport, lifecycle, mode>>
    /\ UNCHANGED activity_vars /\ UNCHANGED service_vars

\* Mutant: what the condition wait saw is not looked at again.
lock_without_recheck == TRUE

\* Under renderer_device_mutex everything is looked at again.
StillReady == GateOpen

ConsumerLocks ==
    /\ consumer = "woken" /\ DeviceFree
    /\ IF StillReady THEN mutex' = "consumer" /\ consumer' = "waiting"
       ELSE consumer' = "wait" /\ UNCHANGED mutex
    /\ UNCHANGED <<worker, device, transport, lifecycle, mode>>
    /\ UNCHANGED activity_vars /\ UNCHANGED service_vars

\* Without a frame, or with the gate closed, the mutex is given back.
ConsumerGivesUp ==
    /\ consumer = "waiting"
    /\ consumer' = "wait" /\ mutex' = "free"
    /\ UNCHANGED <<worker, device, transport, lifecycle, mode>>
    /\ UNCHANGED activity_vars /\ UNCHANGED service_vars

\* copy_game_frame_to_window_locked and the release of the slot, or an error
\* that ends the transport.
ConsumerCopies ==
    /\ consumer = "waiting" /\ flags.resumed /\ flags.window
    /\ consumer' = "wait" /\ mutex' = "free"
    /\ \/ device # 0 /\ UNCHANGED transport
       \/ transport' = [transport EXCEPT !.installed = FALSE]
    /\ UNCHANGED <<worker, device, lifecycle, mode>>
    /\ UNCHANGED activity_vars /\ UNCHANGED service_vars

-----------------------------------------------------------------------------
(* A game's connection to the service.                                     *)

\* The worker thread of a connection gets a copy of the status.  Bound: a
\* game comes only where the renderer is kept for one.
start_connection_worker ==
    /\ ~ client.open /\ mode = "retain"
    /\ client' = [open |-> TRUE, copy |-> status, prepared |-> 0]
    /\ UNCHANGED <<lifecycle, inbox, status, mode>>
    /\ UNCHANGED activity_vars /\ UNCHANGED render_vars

ActivityReady(s) ==
    {"RESUMED", "WINDOW", "READY"} \subseteq s.flags /\ "DESTROYED" \notin s.flags

\* answer_vulkan_swapchain_prepare: the extent the game asks for is the one
\* of the status of its connection.
answer_vulkan_swapchain_prepare ==
    /\ client.open /\ client.prepared = 0
    /\ ActivityReady(client.copy)
    /\ client' = [client EXCEPT !.prepared = client.copy.extent]
    /\ UNCHANGED <<lifecycle, inbox, status, mode>>
    /\ UNCHANGED activity_vars /\ UNCHANGED render_vars

serve_connection_ends ==
    /\ client.open
    /\ client' = [open |-> FALSE, copy |-> NoCopy, prepared |-> 0]
    /\ UNCHANGED <<lifecycle, inbox, status, mode>>
    /\ UNCHANGED activity_vars /\ UNCHANGED render_vars

-----------------------------------------------------------------------------

MainStep ==
    \/ MainEmits \/ MainSchedules \/ MainScheduleFails \/ MainChecksRetained
    \/ disable_lifecycle

WorkerStep ==
    \/ WorkerTakes \/ WorkerBuilds \/ WorkerPublishes \/ WorkerEmits
    \/ HeartbeatEnds \/ HeartbeatFails \/ WorkerDiscards

ConsumerStep == ConsumerWakes \/ ConsumerLocks \/ ConsumerGivesUp \/ ConsumerCopies

Next ==
    \/ ANativeActivity_onCreate \/ on_start \/ on_resume \/ on_pause \/ on_stop
    \/ on_destroy \/ on_window_created \/ on_window_resized
    \/ on_window_redraw_needed \/ on_window_destroyed \/ on_window_focus_changed
    \/ MainStep \/ WorkerStep \/ ConsumerStep
    \/ handle_activity_connection \/ EmitFails
    \/ import_game_frame_transport
    \/ start_connection_worker \/ answer_vulkan_swapchain_prepare
    \/ serve_connection_ends

Spec == Init /\ [][Next]_vars

\* A game may come or not and Android may do as it likes, but the threads of
\* the Activity run, and so does the service's loop.  A mutex that is free
\* again and again may be missed every time.
LiveSpec ==
    Spec /\ WF_vars(MainStep) /\ WF_vars(WorkerStep) /\ WF_vars(ConsumerStep)
         /\ WF_vars(handle_activity_connection)

-----------------------------------------------------------------------------
(* Properties.                                                             *)

Sizes == Extents \cup {0}
Events == {"CREATED", "NATIVE_BINDER_STATUS", "STARTED", "RESUMED", "PAUSED",
           "STOPPED", "DESTROYED", "WINDOW_CREATED", "WINDOW_DESTROYED",
           "FOCUS_GAINED", "FOCUS_LOST", "RENDERER_READY", "RENDERER_FAILED"}
Flags == {"CREATED", "STARTED", "RESUMED", "FOCUSED", "WINDOW", "READY",
          "DESTROYED"}
Duties == [do : {"emit"}, event : Events, window : {0}, extent : Sizes]
          \cup [do : {"schedule", "force", "retain", "disable"}, event : {""},
               window : Nat, extent : Sizes]
Records == [event : Events, extent : Sizes, sequence : Nat, awaited : BOOLEAN]
Copies == [flags : SUBSET Flags, extent : Sizes, last : Nat, count : {0, 1}]

Lives == [phase : {"none", "created", "started", "resumed", "paused", "stopped",
                   "destroyed"},
          window : Nat, extent : Extents, windows : Nat, calls : 0..MaxCalls]

\* The main thread's side.
ActivityTypes ==
    /\ android \in Lives
    /\ flags \in [resumed : BOOLEAN, window : BOOLEAN]
    /\ renderer \in [window : Nat, extent : Sizes, ready : BOOLEAN,
                     requested : Nat, completed : Nat, started : BOOLEAN]
    /\ main \in Seq(Duties)

\* The worker's and the consumer's side.
RenderTypes ==
    /\ worker \in [at : {"none", "idle", "lock", "publish", "emit", "heartbeat",
                         "emit_failed", "discard"},
                   generation : Nat, window : Nat, success : BOOLEAN,
                   extent : Sizes]
    /\ device \in Nat /\ mutex \in {"free", "consumer"}
    /\ transport \in [ring : BOOLEAN, installed : BOOLEAN]
    /\ consumer \in {"none", "wait", "woken", "waiting"}

\* The service's side, and the connection to it.
ServiceTypes ==
    /\ lifecycle \in [configured : BOOLEAN, next : Nat,
                      sender : {"none", "main", "worker"}]
    /\ inbox \in Seq(Records)
    /\ status \in Copies
    /\ client \in [open : BOOLEAN, copy : Copies, prepared : Sizes]
    /\ mode \in {"retain", "heartbeat", "ingress"}

\* The variables stay in their types; a renderer is built for a window there
\* has been, no request is completed before it is made, the consumer holds the
\* device mutex exactly while it waits for a frame, and a thread waits for an
\* acknowledgement exactly while its record is on its way.
TypeOK ==
    /\ ActivityTypes /\ RenderTypes /\ ServiceTypes
    /\ renderer.completed <= renderer.requested
    /\ worker.generation <= renderer.requested
    /\ device <= android.windows
    /\ (mutex = "consumer") = (consumer = "waiting")
    /\ (lifecycle.sender # "none") = (\E n \in DOMAIN inbox : inbox[n].awaited)

\* While the consumer waits for a frame of the ring and copies it, the ring
\* stays mapped and the renderer it was imported into exists: no callback and
\* no rebuild takes them away under it.
ConsumerKeepsRing == consumer = "waiting" => transport.ring /\ device # 0

\* The types hold, and the renderer that counts as ready was built for the window and in the
\* round of the last request: a round that took long never stands for a
\* newer request.
ReadyIsCurrent ==
    /\ TypeOK
    /\ renderer.ready => /\ renderer.completed = renderer.requested
                         /\ device = renderer.window /\ device # 0

\* Every thread has finished what it had to report, and reporting works.
Reported ==
    /\ lifecycle.configured /\ lifecycle.sender = "none" /\ inbox = <<>>
    /\ main = <<>> /\ worker.at \notin {"emit", "emit_failed"}

\* Once everything is reported, the service believes that the renderer is ready
\* only if it is or a newer request is on its way, that the Activity is resumed
\* exactly when it is, and that there is a window exactly when there is one.
\* For the window, the modes are left out in which the worker reports about one
\* that is gone: a heartbeat that fails, a retained renderer ready too late.
StatusIsTruthful ==
    Reported =>
      /\ "READY" \in status.flags =>
           renderer.ready \/ renderer.completed # renderer.requested
      /\ ("RESUMED" \in status.flags) = (android.phase = "resumed")
      /\ mode = "ingress" =>
           ("WINDOW" \in status.flags) = (android.window # 0)

\* A request to tear the renderer down, made when its window goes or the
\* Activity is destroyed, is carried out unless a new window replaces it,
\* although the consumer competes for the mutex and may always win it.
TeardownHappens ==
    (renderer.window = 0 /\ renderer.requested # renderer.completed)
      ~> (device = 0 \/ renderer.window # 0)

-----------------------------------------------------------------------------
(***************************************************************************)
(* The inductive invariant of ConsumerKeepsRing and ReadyIsCurrent.        *)
(***************************************************************************)

\* Nobody asks for a renderer of a window there has not been.
WindowsKnown ==
    /\ android.window <= android.windows
    /\ renderer.window <= android.windows
    /\ worker.window <= android.windows
    /\ device <= android.windows
    /\ \A n \in DOMAIN main : main[n].window <= android.windows

\* Only the newest record is waited for, and by its sender.
LastIsAwaited ==
    /\ lifecycle.sender # "none" => inbox # <<>>
    /\ \A n \in DOMAIN inbox :
         inbox[n].awaited <=> (lifecycle.sender # "none" /\ n = Len(inbox))

\* A round of the worker stands for the request it took and for no newer one.
RoundsKnown ==
    /\ renderer.completed <= worker.generation
    /\ worker.generation <= renderer.requested
    /\ worker.generation = renderer.requested => worker.window = renderer.window
    /\ IF worker.at \in {"lock", "publish"}
       THEN renderer.completed < worker.generation
       ELSE renderer.completed = worker.generation
    /\ worker.at = "publish" /\ worker.success =>
         device = worker.window /\ device # 0
    /\ worker.at \in {"emit_failed", "discard"} => ~ renderer.ready
    /\ renderer.ready => /\ renderer.completed = renderer.requested
                         /\ device = renderer.window /\ device # 0

\* The transport is imported into a renderer, and goes with it.
TransportKnown ==
    /\ transport.installed => transport.ring
    /\ transport.ring => device # 0
    /\ (mutex = "consumer") = (consumer = "waiting")
    /\ consumer = "waiting" => transport.ring

HostInv ==
    /\ ActivityTypes /\ RenderTypes /\ ServiceTypes
    /\ WindowsKnown
    /\ LastIsAwaited
    /\ RoundsKnown
    /\ TransportKnown

-----------------------------------------------------------------------------
(***************************************************************************)
(* The inductive invariant of StatusIsTruthful, besides HostInv: what is   *)
(* left of a callback, where a session of the reporting stands, and what   *)
(* the service believes once it has handled the record on its way.         *)
(***************************************************************************)

\* A duty in a word: the event to send, a renderer to build or to drop.
Word(duty) ==
    CASE duty.do = "emit" -> duty.event
      [] duty.do \in {"schedule", "force"} ->
           IF duty.window = 0 THEN "drop" ELSE "build"
      [] OTHER -> duty.do

Owes(word) == Len(main) = 1 /\ Word(main[1]) = word
OwesTwo(first, second) ==
    Len(main) = 2 /\ Word(main[1]) = first /\ Word(main[2]) = second
OwesThree(first, second, third) ==
    /\ Len(main) = 3 /\ Word(main[1]) = first /\ Word(main[2]) = second
    /\ Word(main[3]) = third

Creating == OwesTwo("CREATED", "NATIVE_BINDER_STATUS")

\* The renderer goes before the service hears that its window has.
Retiring ==
    OwesTwo("retain", "WINDOW_DESTROYED") \/ OwesTwo("drop", "WINDOW_DESTROYED")
Leaving == Owes("WINDOW_DESTROYED") \/ OwesTwo("DESTROYED", "disable")

\* What is left of the callback says what Android has done.
DutiesKnown ==
    /\ android.phase \in {"none", "created", "destroyed"} => android.window = 0
    /\ \/ main = <<>>
       \/ (Creating \/ Owes("NATIVE_BINDER_STATUS")) /\ android.phase = "created"
       \/ Owes("RESUMED") /\ android.phase = "resumed"
       \/ Owes("PAUSED") /\ android.phase = "paused"
       \/ Owes("STOPPED") /\ android.phase = "stopped"
       \/ \E event \in {"STARTED", "FOCUS_GAINED", "FOCUS_LOST"} : Owes(event)
       \/ /\ android.window # 0
          /\ \/ OwesTwo("WINDOW_CREATED", "build") \/ Owes("build")
             \/ Owes("RENDERER_FAILED")
       \/ (Retiring \/ Owes("WINDOW_DESTROYED")) /\ android.window = 0
       \/ /\ android.phase = "destroyed"
          /\ \/ OwesThree("drop", "DESTROYED", "disable")
             \/ OwesTwo("DESTROYED", "disable") \/ Owes("disable")

\* The record that is waited for.
Newest == inbox[Len(inbox)]

\* The session is the one of this Activity: until its first event is
\* acknowledged no other can be accepted, from then on at most one record is on
\* its way, and nobody waits for an answer once the reporting has ended.
SessionKnown ==
    /\ lifecycle.next # 0
    /\ lifecycle.sender # "none" => lifecycle.configured
    /\ \A n \in DOMAIN inbox : inbox[n].sequence # 0
    /\ status.count # 0 => status.last # 0
    /\ lifecycle.configured /\ lifecycle.next = 1 =>
         /\ lifecycle.sender # "none" => Newest.sequence = 1
         /\ \/ /\ Creating /\ lifecycle.sender # "main"
               /\ lifecycle.sender = "worker" => Newest.event # "CREATED"
            \/ /\ Owes("NATIVE_BINDER_STATUS") /\ lifecycle.sender = "main"
               /\ Newest.event = "CREATED"
    /\ lifecycle.configured /\ lifecycle.next # 1 =>
         /\ ~ Creating
         /\ IF lifecycle.sender = "none" THEN inbox = <<>>
            ELSE Len(inbox) = 1 /\ Newest.event # "CREATED"

\* A worker that reports stands for the last request; without a game a
\* renderer has a window, or is about to be dropped.
RendererKnown ==
    /\ ~ renderer.started => renderer.window = 0
    /\ worker.at = "emit" =>
         /\ worker.generation = renderer.requested
         /\ renderer.window # 0
         /\ worker.success => renderer.ready
    /\ mode = "ingress" =>
         /\ worker.at \notin {"heartbeat", "emit_failed"}
         /\ lifecycle.sender = "worker" =>
              worker.at = "idle" /\ worker.generation = renderer.requested
         /\ renderer.window # 0 => android.window # 0 \/ Retiring

\* The session is under way.
Underway == lifecycle.configured /\ lifecycle.next # 1

\* What the service believes when it has handled the record on its way.
Belief ==
    IF lifecycle.sender = "none" THEN status.flags
    ELSE StateFlags(status.flags, Newest)

ResumedKnown ==
    Underway => \/ ("RESUMED" \in Belief) <=> (android.phase = "resumed")
                \/ Owes("RESUMED") \/ Owes("PAUSED")

WindowKnown ==
    Underway /\ mode = "ingress" =>
      \/ ("WINDOW" \in Belief) <=> (android.window # 0)
      \/ Retiring \/ Owes("WINDOW_DESTROYED") \/ OwesTwo("WINDOW_CREATED", "build")

ReadyKnown ==
    Underway /\ "READY" \in Belief =>
      \/ /\ renderer.window # 0
         /\ \/ renderer.ready \/ renderer.completed # renderer.requested
            \/ worker.at \in {"emit", "emit_failed"}
      \/ Leaving

BeliefInv ==
    /\ DutiesKnown
    /\ SessionKnown
    /\ RendererKnown
    /\ ResumedKnown
    /\ WindowKnown
    /\ ReadyKnown
=============================================================================
