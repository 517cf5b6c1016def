------------------------- MODULE ActivityHostProofs -------------------------
(***************************************************************************)
(* The Activity's renderer and frame transport for any number of callbacks *)
(* of Android: HostInv is inductive; a renderer that counts as ready is    *)
(* the one of the last request, and nothing takes the ring or the renderer *)
(* away under the frame consumer.  BeliefInv is inductive with it: once    *)
(* everything is reported, the service's status is true.                   *)
(***************************************************************************)
EXTENDS ActivityHost, SequenceTheorems, TLAPS

(***************************************************************************)
(* The invariant, by groups of variables.                                  *)
(***************************************************************************)

\* The invariant holds at the launch.
LEMMA HostInvInit == Init => HostInv
<1> SUFFICES ASSUME Init PROVE HostInv
  OBVIOUS
<1>1. NoCopy \in Copies
  BY DEF NoCopy, Copies, Flags, Sizes, Extents
<1>2. ActivityTypes
  BY ActivityHostAssumption DEF Init, ActivityTypes, Lives, Sizes, Extents
<1>3. RenderTypes
  BY DEF Init, RenderTypes, Sizes, Extents
<1>4. ServiceTypes
  BY <1>1 DEF Init, ServiceTypes, Sizes, Extents
<1>5. WindowsKnown /\ LastIsAwaited /\ RoundsKnown /\ TransportKnown
  BY DEF Init, WindowsKnown, LastIsAwaited, RoundsKnown, TransportKnown
<1> QED
  BY <1>2, <1>3, <1>4, <1>5 DEF HostInv

\* A callback sets flags and leaves duties to the main thread; it only adds to
\* the windows there have been.
LEMMA CallbackStep ==
  ASSUME HostInv,
         android' \in Lives,
         android'.window <= android'.windows,
         android.windows <= android'.windows,
         flags' \in [resumed : BOOLEAN, window : BOOLEAN],
         main' \in Seq(Duties),
         \A n \in DOMAIN main' : main'[n].window <= android'.windows,
         UNCHANGED <<renderer, lifecycle, mode, worker, device, mutex,
                     transport, consumer, inbox, status, client>>
  PROVE  HostInv'
<1> USE DEF HostInv
<1>1. ActivityTypes'
  BY DEF ActivityTypes
<1>2. RenderTypes' /\ ServiceTypes' /\ LastIsAwaited' /\ RoundsKnown'
      /\ TransportKnown'
  BY DEF RenderTypes, ServiceTypes, LastIsAwaited, RoundsKnown, TransportKnown
<1>3. WindowsKnown'
  BY DEF WindowsKnown, ActivityTypes, RenderTypes, Lives
<1> QED
  BY <1>1, <1>2, <1>3

\* What the main thread may have to do.
LEMMA DutyFacts ==
  ASSUME HostInv
  PROVE  /\ \A event \in Events, extent \in Sizes :
              Emit(event, extent) \in Duties /\ Emit(event, extent).window = 0
         /\ \A window \in Nat, force \in BOOLEAN :
              /\ Schedule(window, force) \in Duties
              /\ Schedule(window, force).window = window
              /\ Schedule(window, force).do = IF force THEN "force" ELSE "schedule"
         /\ Check \in Duties /\ Check.window = 0
         /\ Disable \in Duties
         /\ Disable.window = 0
  BY DEF Emit, Schedule, Check, Disable, Duties, Sizes, Extents, HostInv, ActivityTypes,
         Lives

\* Setting or clearing a flag.
LEMMA FlagFacts ==
  ASSUME NEW f \in [resumed : BOOLEAN, window : BOOLEAN]
  PROVE  /\ [f EXCEPT !.resumed = TRUE] \in [resumed : BOOLEAN, window : BOOLEAN]
         /\ [f EXCEPT !.resumed = FALSE] \in [resumed : BOOLEAN, window : BOOLEAN]
         /\ [f EXCEPT !.window = TRUE] \in [resumed : BOOLEAN, window : BOOLEAN]
         /\ [f EXCEPT !.window = FALSE] \in [resumed : BOOLEAN, window : BOOLEAN]
         /\ [resumed |-> FALSE, window |-> FALSE] \in
              [resumed : BOOLEAN, window : BOOLEAN]
  OBVIOUS

\* Two and three duties.
LEMMA DutySequences ==
  ASSUME NEW a \in Duties, NEW b \in Duties, NEW c \in Duties, NEW k \in Nat,
         a.window <= k, b.window <= k, c.window <= k
  PROVE  /\ <<a>> \in Seq(Duties) /\ <<a, b>> \in Seq(Duties)
         /\ <<a, b, c>> \in Seq(Duties)
         /\ \A n \in DOMAIN <<a>> : <<a>>[n].window <= k
         /\ \A n \in DOMAIN <<a, b>> : <<a, b>>[n].window <= k
         /\ \A n \in DOMAIN <<a, b, c>> : <<a, b, c>>[n].window <= k
  OBVIOUS

\* The callbacks of the Activity's own life.
LEMMA PhaseStep ==
  ASSUME HostInv, on_start \/ on_resume \/ on_pause \/ on_stop \/ on_destroy
  PROVE  HostInv'
<1>1. /\ android \in Lives
      /\ flags \in [resumed : BOOLEAN, window : BOOLEAN]
      /\ android.window <= android.windows
  BY DEF HostInv, ActivityTypes, WindowsKnown
<1>2. UNCHANGED <<renderer, lifecycle, mode, worker, device, mutex,
                  transport, consumer, inbox, status, client>>
  BY DEF on_start, on_resume, on_pause, on_stop, on_destroy, Callback,
         render_vars, service_vars
<1>3. \E p \in {"started", "resumed", "paused", "stopped", "destroyed"} :
        android' = [[android EXCEPT !.phase = p] EXCEPT !.calls = @ + 1]
        /\ android.calls < MaxCalls
  BY DEF on_start, on_resume, on_pause, on_stop, on_destroy, Callback
<1>4. /\ android' \in Lives /\ android'.window = android.window
      /\ android'.windows = android.windows
  <2>1. PICK p \in {"started", "resumed", "paused", "stopped", "destroyed"} :
          android' = [[android EXCEPT !.phase = p] EXCEPT !.calls = @ + 1]
          /\ android.calls < MaxCalls
    BY <1>3
  <2>2. /\ android'.phase = p /\ android'.window = android.window
        /\ android'.extent = android.extent
        /\ android'.windows = android.windows
        /\ android'.calls = android.calls + 1
        /\ android' = [phase |-> android'.phase, window |-> android'.window,
                       extent |-> android'.extent,
                       windows |-> android'.windows, calls |-> android'.calls]
    BY <1>1, <2>1 DEF Lives
  <2>3. android.calls + 1 \in 0..MaxCalls
    BY <1>1, <2>1, ActivityHostAssumption DEF Lives
  <2> QED
    BY <1>1, <2>2, <2>3 DEF Lives
<1>5. flags' \in [resumed : BOOLEAN, window : BOOLEAN]
  <2>1. \/ flags' = flags \/ flags' = [flags EXCEPT !.resumed = TRUE]
        \/ flags' = [flags EXCEPT !.resumed = FALSE]
        \/ flags' = [resumed |-> FALSE, window |-> FALSE]
    BY DEF on_start, on_resume, on_pause, on_stop, on_destroy, Callback
  <2> QED
    BY <1>1, <2>1, FlagFacts, ZenonT(40)
<1>6. CASE on_destroy
  <2>1. /\ Schedule(0, TRUE) \in Duties /\ Schedule(0, TRUE).window = 0
        /\ Emit("DESTROYED", 0) \in Duties /\ Emit("DESTROYED", 0).window = 0
        /\ Disable \in Duties
        /\ Disable.window = 0
    BY DutyFacts DEF Events, Sizes
  <2>2. main' = <<Schedule(0, TRUE), Emit("DESTROYED", 0), Disable>>
    BY <1>6 DEF on_destroy, Callback
  <2>3. /\ main' \in Seq(Duties)
        /\ \A n \in DOMAIN main' : main'[n].window <= android'.windows
    <3>1. android'.windows \in Nat /\ 0 <= android'.windows
      BY <1>4 DEF Lives
    <3> QED
      BY <2>1, <2>2, <3>1, DutySequences
  <2> QED
    BY <1>1, <1>2, <1>4, <1>5, <2>3, CallbackStep DEF Lives
<1>7. CASE ~on_destroy
  <2>1. PICK e \in Events : main' = <<Emit(e, 0)>>
    BY <1>7 DEF on_start, on_resume, on_pause, on_stop, Callback, Events
  <2>2. Emit(e, 0) \in Duties /\ Emit(e, 0).window = 0
    BY DutyFacts DEF Sizes
  <2>3. /\ main' \in Seq(Duties)
        /\ \A n \in DOMAIN main' : main'[n].window <= android'.windows
    BY <1>4, <2>1, <2>2 DEF Lives
  <2> QED
    BY <1>1, <1>2, <1>4, <1>5, <2>3, CallbackStep DEF Lives
<1> QED
  BY <1>6, <1>7

\* The callbacks that leave Android's window as it is, and focus.
LEMMA RedrawStep ==
  ASSUME HostInv,
         on_window_resized \/ on_window_redraw_needed \/ on_window_focus_changed
  PROVE  HostInv'
<1>1. /\ android \in Lives /\ android.window <= android.windows
      /\ flags \in [resumed : BOOLEAN, window : BOOLEAN]
  BY DEF HostInv, ActivityTypes, WindowsKnown
<1>2. /\ UNCHANGED <<renderer, lifecycle, mode, worker, device, mutex,
                     transport, consumer, inbox, status, client>>
      /\ flags' = flags /\ android.calls < MaxCalls
  BY DEF on_window_resized, on_window_redraw_needed, on_window_focus_changed,
         Callback, render_vars, service_vars
<1>3. android.calls + 1 \in 0..MaxCalls
  BY <1>1, <1>2, ActivityHostAssumption DEF Lives
<1>4. /\ android' \in Lives /\ android'.window = android.window
      /\ android'.windows = android.windows
  <2>1. CASE on_window_resized
    <3>1. PICK x \in Extents :
            android' = [[android EXCEPT !.extent = x] EXCEPT !.calls = @ + 1]
      BY <2>1 DEF on_window_resized, Callback
    <3> QED
      BY <1>1, <1>3, <3>1 DEF Lives
  <2>2. CASE on_window_redraw_needed \/ on_window_focus_changed
    <3>1. android' = [android EXCEPT !.calls = @ + 1]
      BY <2>2 DEF on_window_redraw_needed, on_window_focus_changed, Callback
    <3> QED
      BY <1>1, <1>3, <3>1 DEF Lives
  <2> QED
    BY <2>1, <2>2
<1>5. \E d \in Duties : main' = <<d>> /\ d.window <= android.windows
  <2>1. CASE on_window_resized
    <3>1. PICK x \in Extents :
            main' = <<[Schedule(android.window, FALSE) EXCEPT !.extent = x]>>
      BY <2>1 DEF on_window_resized, Callback
    <3>2. /\ Schedule(android.window, FALSE) \in Duties
          /\ Schedule(android.window, FALSE).window = android.window
      BY <1>1, DutyFacts DEF Lives
    <3>3. [Schedule(android.window, FALSE) EXCEPT !.extent = x] \in Duties
          /\ [Schedule(android.window, FALSE) EXCEPT !.extent = x].window
               = android.window
      BY <3>2 DEF Duties, Sizes
    <3> QED
      BY <1>1, <3>1, <3>3
  <2>2. CASE on_window_redraw_needed
    <3>1. main' = <<Schedule(android.window, FALSE)>>
      BY <2>2 DEF on_window_redraw_needed, Callback
    <3>2. /\ Schedule(android.window, FALSE) \in Duties
          /\ Schedule(android.window, FALSE).window = android.window
      BY <1>1, DutyFacts DEF Lives
    <3> QED
      BY <1>1, <3>1, <3>2
  <2>3. CASE on_window_focus_changed
    <3>1. PICK e \in Events : main' = <<Emit(e, 0)>>
      BY <2>3 DEF on_window_focus_changed, Callback, Events
    <3>2. Emit(e, 0) \in Duties /\ Emit(e, 0).window = 0
      BY DutyFacts DEF Sizes
    <3> QED
      BY <1>1, <3>1, <3>2 DEF Lives
  <2> QED
    BY <2>1, <2>2, <2>3
<1>6. PICK d \in Duties : main' = <<d>> /\ d.window <= android.windows
  BY <1>5
<1>7. /\ main' \in Seq(Duties)
      /\ \A n \in DOMAIN main' : main'[n].window <= android'.windows
  BY <1>4, <1>6 DEF Lives
<1> QED
  BY <1>1, <1>2, <1>4, <1>7, CallbackStep DEF Lives

\* A window comes or goes.
LEMMA WindowStep ==
  ASSUME HostInv, on_window_created \/ on_window_destroyed
  PROVE  HostInv'
<1>1. /\ android \in Lives /\ android.window <= android.windows
      /\ flags \in [resumed : BOOLEAN, window : BOOLEAN]
  BY DEF HostInv, ActivityTypes, WindowsKnown
<1>2. /\ UNCHANGED <<renderer, lifecycle, mode, worker, device, mutex,
                     transport, consumer, inbox, status, client>>
      /\ android.calls < MaxCalls
  BY DEF on_window_created, on_window_destroyed, Callback, render_vars,
         service_vars
<1>3. android.calls + 1 \in 0..MaxCalls /\ android.windows \in Nat
  BY <1>1, <1>2, ActivityHostAssumption DEF Lives
<1>4. flags' \in [resumed : BOOLEAN, window : BOOLEAN]
  <2>1. \/ flags' = [flags EXCEPT !.window = TRUE]
        \/ flags' = [flags EXCEPT !.window = FALSE]
    BY DEF on_window_created, on_window_destroyed, Callback
  <2>2. /\ [flags EXCEPT !.window = TRUE] \in [resumed : BOOLEAN, window : BOOLEAN]
        /\ [flags EXCEPT !.window = FALSE] \in [resumed : BOOLEAN, window : BOOLEAN]
    BY <1>1, FlagFacts
  <2> QED
    BY <2>1, <2>2, Zenon
<1>5. CASE on_window_created
  <2> DEFINE new == android.windows + 1
  <2>1. /\ android' = [[android EXCEPT !.window = new, !.windows = new]
                         EXCEPT !.calls = @ + 1]
        /\ main' = <<Emit("WINDOW_CREATED", android.extent), Schedule(new, TRUE)>>
    BY <1>5 DEF on_window_created, Callback
  <2>2. new \in Nat /\ android.windows <= new
    BY <1>3
  <2>3. /\ Emit("WINDOW_CREATED", android.extent) \in Duties
        /\ Emit("WINDOW_CREATED", android.extent).window = 0
        /\ Schedule(new, TRUE) \in Duties /\ Schedule(new, TRUE).window = new
    BY <1>1, <2>2, DutyFacts DEF Lives, Sizes, Events
  <2> HIDE DEF new
  <2>4. android' \in Lives /\ android'.window = new /\ android'.windows = new
    <3>1. android' = [phase |-> android.phase, window |-> new,
                      extent |-> android.extent, windows |-> new,
                      calls |-> android.calls + 1]
      BY <1>1, <2>1 DEF Lives
    <3> QED
      BY <1>1, <1>3, <2>2, <3>1 DEF Lives
  <2>5. 0 <= new /\ new <= new
    BY <2>2
  <2>6. /\ main' \in Seq(Duties)
        /\ \A n \in DOMAIN main' : main'[n].window <= new
    BY <2>1, <2>2, <2>3, <2>5, DutySequences
  <2> QED
    BY <1>2, <1>4, <2>2, <2>4, <2>5, <2>6, CallbackStep
<1>6. CASE on_window_destroyed
  <2>1. /\ android' = [[android EXCEPT !.window = 0] EXCEPT !.calls = @ + 1]
        /\ main' = <<Check, Emit("WINDOW_DESTROYED", 0)>>
    BY <1>6 DEF on_window_destroyed, Callback
  <2>2. /\ Emit("WINDOW_DESTROYED", 0) \in Duties
        /\ Emit("WINDOW_DESTROYED", 0).window = 0
        /\ Check \in Duties /\ Check.window = 0
    BY DutyFacts DEF Sizes, Events
  <2>3. /\ android' \in Lives /\ android'.window = 0
        /\ android'.windows = android.windows
    BY <1>1, <1>3, <2>1 DEF Lives
  <2>4. 0 <= android.windows
    BY <1>3
  <2>5. /\ main' \in Seq(Duties)
        /\ \A n \in DOMAIN main' : main'[n].window <= android.windows
    BY <1>3, <2>1, <2>2, <2>4, DutySequences
  <2> QED
    BY <1>2, <1>3, <1>4, <2>3, <2>4, <2>5, CallbackStep
<1> QED
  BY <1>5, <1>6

\* The Activity is created, and reporting is configured.
LEMMA CreateStep == ASSUME HostInv, ANativeActivity_onCreate PROVE HostInv'
<1> USE DEF HostInv, render_vars, service_vars
<1>1. /\ UNCHANGED <<flags, renderer, mode, worker, device, mutex, transport,
                     consumer, inbox, status, client>>
      /\ android' = [android EXCEPT !.phase = "created", !.calls = @ + 1]
      /\ android.calls < MaxCalls /\ lifecycle.sender = "none"
      /\ lifecycle' = [configured |-> TRUE, next |-> 1, sender |-> "none"]
      /\ main' = <<Emit("CREATED", 0), Emit("NATIVE_BINDER_STATUS", 0)>>
  BY DEF ANativeActivity_onCreate
<1>2. /\ android' \in Lives /\ android'.window = android.window
      /\ android'.windows = android.windows /\ android.windows \in Nat
  <2>1. android \in Lives /\ android.calls + 1 \in 0..MaxCalls
    BY <1>1, ActivityHostAssumption DEF ActivityTypes, Lives
  <2>2. android' = [phase |-> "created", window |-> android.window,
                    extent |-> android.extent, windows |-> android.windows,
                    calls |-> android.calls + 1]
    BY <1>1, <2>1 DEF Lives
  <2> QED
    BY <2>1, <2>2 DEF Lives
<1>3. /\ main' \in Seq(Duties)
      /\ \A n \in DOMAIN main' : main'[n].window <= android.windows
  <2>1. /\ Emit("CREATED", 0) \in Duties /\ Emit("CREATED", 0).window = 0
        /\ Emit("NATIVE_BINDER_STATUS", 0) \in Duties
        /\ Emit("NATIVE_BINDER_STATUS", 0).window = 0
    BY DutyFacts DEF Events, Sizes
  <2>2. 0 <= android.windows
    BY <1>2
  <2> QED
    BY <1>1, <1>2, <2>1, <2>2, DutySequences
<1>4. ActivityTypes' /\ RenderTypes' /\ WindowsKnown'
  BY <1>1, <1>2, <1>3 DEF ActivityTypes, RenderTypes, WindowsKnown
<1>5. /\ lifecycle' \in [configured : BOOLEAN, next : Nat,
                         sender : {"none", "main", "worker"}]
      /\ lifecycle'.sender = "none"
  BY <1>1
<1>6. ServiceTypes'
  BY <1>1, <1>5 DEF ServiceTypes
<1>7. LastIsAwaited' /\ RoundsKnown' /\ TransportKnown'
  BY <1>1, <1>5 DEF LastIsAwaited, RoundsKnown, TransportKnown
<1> QED
  BY <1>4, <1>6, <1>7

\* Sending a record: it is the newest one, and the only one waited for.
LEMMA SendsFacts ==
  ASSUME HostInv, NEW sender \in {"main", "worker"}, NEW event \in Events,
         NEW extent \in Sizes, Sends(sender, event, extent),
         UNCHANGED <<status, client, mode>>
  PROVE  ServiceTypes' /\ LastIsAwaited'
<1> USE DEF HostInv
<1>1. lifecycle.sender = "none"
  BY DEF Sends
<1>2. CASE UNCHANGED <<lifecycle, inbox>>
  BY <1>2 DEF ServiceTypes, LastIsAwaited
<1>3. CASE /\ lifecycle' = [lifecycle EXCEPT !.sender = sender]
           /\ inbox' = Append(inbox, [event |-> event, extent |-> extent,
                                      sequence |-> lifecycle.next,
                                      awaited |-> TRUE])
  <2> DEFINE record == [event |-> event, extent |-> extent,
                        sequence |-> lifecycle.next, awaited |-> TRUE]
  <2>1. /\ lifecycle \in [configured : BOOLEAN, next : Nat,
                          sender : {"none", "main", "worker"}]
        /\ inbox \in Seq(Records)
    BY DEF ServiceTypes
  <2>2. /\ lifecycle' \in [configured : BOOLEAN, next : Nat,
                           sender : {"none", "main", "worker"}]
        /\ lifecycle'.sender = sender
    BY <1>3, <2>1
  <2>3. record \in Records /\ record.awaited = TRUE
    BY <2>1 DEF Records
  <2>4. inbox' = Append(inbox, record)
    BY <1>3
  <2> HIDE DEF record
  <2>5. /\ inbox' \in Seq(Records) /\ Len(inbox') = Len(inbox) + 1
        /\ inbox' # <<>> /\ DOMAIN inbox = 1 .. Len(inbox)
        /\ DOMAIN inbox' = 1 .. Len(inbox) + 1
        /\ inbox'[Len(inbox) + 1] = record
        /\ \A n \in 1 .. Len(inbox) : inbox'[n] = inbox[n]
    BY <2>1, <2>3, <2>4, AppendProperties, LenProperties
  <2>6. ServiceTypes'
    BY <2>2, <2>5 DEF ServiceTypes
  <2>7. \A n \in 1 .. Len(inbox) : ~inbox'[n].awaited
    BY <1>1, <2>5 DEF LastIsAwaited
  <2>8. Len(inbox) \in Nat
    BY <2>1, LenProperties
  <2>9. LastIsAwaited'
    BY <2>2, <2>3, <2>5, <2>7, <2>8 DEF LastIsAwaited
  <2> QED
    BY <2>6, <2>9
<1> QED
  BY <1>2, <1>3 DEF Sends

\* The first of the main thread's duties, and what is left after it.
LEMMA HeadDuty ==
  ASSUME HostInv, main # <<>>
  PROVE  /\ Head(main) \in Duties /\ Head(main).window <= android.windows
         /\ Tail(main) \in Seq(Duties)
         /\ \A n \in DOMAIN Tail(main) :
              Tail(main)[n].window <= android.windows
<1>1. /\ main \in Seq(Duties)
      /\ \A n \in DOMAIN main : main[n].window <= android.windows
  BY DEF HostInv, ActivityTypes, WindowsKnown
<1>2. /\ Len(main) \in Nat /\ Len(main) # 0 /\ DOMAIN main = 1 .. Len(main)
      /\ Head(main) = main[1]
      /\ Tail(main) \in Seq(Duties) /\ Len(Tail(main)) = Len(main) - 1
      /\ \A n \in 1 .. Len(main) - 1 : Tail(main)[n] = main[n + 1]
  BY <1>1, HeadTailProperties, LenProperties, EmptySeq
<1>3. DOMAIN Tail(main) = 1 .. Len(main) - 1
  BY <1>2, LenProperties
<1>4. 1 \in DOMAIN main /\ \A n \in 1 .. Len(main) - 1 : n + 1 \in DOMAIN main
  BY <1>2
<1> QED
  BY <1>1, <1>2, <1>3, <1>4

\* The main thread reports, checks whether the renderer is kept, or ends the
\* reporting.
LEMMA MainStepsQuietly ==
  ASSUME HostInv, MainEmits \/ MainChecksRetained \/ disable_lifecycle
  PROVE  HostInv'
<1> USE DEF HostInv, render_vars, service_vars
<1>1. /\ UNCHANGED <<android, flags, renderer, status, client, mode, worker,
                     device, mutex, transport, consumer>>
      /\ main # <<>>
  BY DEF MainEmits, MainChecksRetained, disable_lifecycle
<1>2. /\ main' \in Seq(Duties)
      /\ \A n \in DOMAIN main' : main'[n].window <= android.windows
  <2>1. CASE main' = Tail(main)
    BY <1>1, <2>1, HeadDuty
  <2>2. CASE main' = <<Schedule(0, TRUE)>> \o Tail(main)
    <3> DEFINE first == Schedule(0, TRUE)
               rest == Tail(main)
    <3>1. first \in Duties /\ first.window = 0
      BY DutyFacts
    <3>2. /\ rest \in Seq(Duties) /\ android.windows \in Nat
          /\ \A n \in DOMAIN rest : rest[n].window <= android.windows
      BY <1>1, HeadDuty DEF ActivityTypes, Lives
    <3>3. main' = <<first>> \o rest
      BY <2>2
    <3> HIDE DEF first, rest
    <3>4. /\ <<first>> \in Seq(Duties) /\ Len(<<first>>) = 1
          /\ <<first>>[1] = first
      BY <3>1
    <3>5. /\ main' \in Seq(Duties) /\ Len(main') = 1 + Len(rest)
          /\ \A n \in 1 .. 1 + Len(rest) :
               main'[n] = IF n <= 1 THEN <<first>>[n] ELSE rest[n - 1]
          /\ DOMAIN rest = 1 .. Len(rest) /\ Len(rest) \in Nat
      BY <3>2, <3>3, <3>4, ConcatProperties, LenProperties
    <3>6. DOMAIN main' = 1 .. 1 + Len(rest)
      BY <3>5, LenProperties
    <3>7. ASSUME NEW n \in 1 .. 1 + Len(rest)
          PROVE  main'[n].window <= android.windows
      <4>1. CASE n = 1
        BY <3>1, <3>2, <3>4, <3>5, <4>1
      <4>2. CASE n # 1
        <5>1. n - 1 \in 1 .. Len(rest) /\ ~(n <= 1)
          BY <3>5, <4>2
        <5> QED
          BY <3>2, <3>5, <5>1
      <4> QED
        BY <4>1, <4>2
    <3> QED
      BY <3>5, <3>6, <3>7
  <2> QED
    BY <2>1, <2>2 DEF MainEmits, MainChecksRetained, disable_lifecycle
<1>3. /\ ActivityTypes' /\ RenderTypes' /\ WindowsKnown' /\ RoundsKnown'
      /\ TransportKnown'
  BY <1>1, <1>2 DEF ActivityTypes, RenderTypes, WindowsKnown, RoundsKnown,
                    TransportKnown
<1>4. ServiceTypes' /\ LastIsAwaited'
  <2>1. CASE MainEmits
    <3>1. Head(main) \in Duties
      BY <1>1, HeadDuty
    <3>2. Head(main).event \in Events /\ Head(main).extent \in Sizes
      BY <2>1, <3>1 DEF MainEmits, Duties
    <3> QED
      BY <1>1, <2>1, <3>2, SendsFacts DEF MainEmits
  <2>2. CASE MainChecksRetained
    BY <1>1, <2>2 DEF MainChecksRetained, ServiceTypes, LastIsAwaited
  <2>3. CASE disable_lifecycle
    <3>1. /\ lifecycle' \in [configured : BOOLEAN, next : Nat,
                             sender : {"none", "main", "worker"}]
          /\ lifecycle'.sender = lifecycle.sender /\ inbox' = inbox
      BY <2>3 DEF disable_lifecycle
    <3> QED
      BY <1>1, <3>1 DEF ServiceTypes, LastIsAwaited
  <2> QED
    BY <2>1, <2>2, <2>3
<1> QED
  BY <1>3, <1>4

\* The steps below change nothing that Android did and send nothing.
LEMMA SilentFacts ==
  ASSUME HostInv, UNCHANGED <<lifecycle, inbox, status, client, mode>>
  PROVE  ServiceTypes' /\ LastIsAwaited'
  BY DEF HostInv, ServiceTypes, LastIsAwaited

\* The main thread asks for a renderer: a new request makes the renderer not
\* ready, whatever the worker is doing.
LEMMA MainSchedulesStep == ASSUME HostInv, MainSchedules PROVE HostInv'
<1> USE DEF HostInv, render_vars, service_vars
<1>1. /\ UNCHANGED <<android, flags, device, mutex, transport, consumer,
                     lifecycle, mode, inbox, status, client>>
      /\ main # <<>> /\ main' = Tail(main) /\ RendererFree
      /\ worker' = worker \/ (worker.at = "none"
                              /\ worker' = [worker EXCEPT !.at = "idle"])
  BY DEF MainSchedules
<1>2. /\ main' \in Seq(Duties)
      /\ \A n \in DOMAIN main' : main'[n].window <= android.windows
      /\ Head(main) \in Duties /\ Head(main).window <= android.windows
  BY <1>1, HeadDuty
<1>3. /\ renderer \in [window : Nat, extent : Sizes, ready : BOOLEAN,
                       requested : Nat, completed : Nat, started : BOOLEAN]
      /\ worker \in [at : {"none", "idle", "lock", "publish", "emit",
                           "heartbeat", "emit_failed", "discard"},
                     generation : Nat, window : Nat, success : BOOLEAN,
                     extent : Sizes]
  BY DEF ActivityTypes, RenderTypes
<1>4. /\ worker' \in [at : {"none", "idle", "lock", "publish", "emit",
                            "heartbeat", "emit_failed", "discard"},
                      generation : Nat, window : Nat, success : BOOLEAN,
                      extent : Sizes]
      /\ worker'.generation = worker.generation /\ worker'.window = worker.window
      /\ worker'.success = worker.success
      /\ worker'.at = worker.at \/ (worker.at = "none" /\ worker'.at = "idle")
  BY <1>1, <1>3
<1>5. \/ renderer' = renderer
      \/ /\ renderer' = [renderer EXCEPT !.started = TRUE,
                           !.window = Head(main).window,
                           !.extent = Head(main).extent, !.ready = FALSE,
                           !.requested = @ + 1]
  BY DEF MainSchedules, schedule_renderer
<1>6. Head(main).window \in Nat /\ Head(main).extent \in Sizes
  <2>1. ASSUME NEW d \in Duties PROVE d.window \in Nat /\ d.extent \in Sizes
    <3>1. CASE d \in [do : {"emit"}, event : Events, window : {0}, extent : Sizes]
      BY <3>1
    <3>2. CASE d \in [do : {"schedule", "force", "retain", "disable"},
                      event : {""}, window : Nat, extent : Sizes]
      BY <3>2
    <3> QED
      BY <3>1, <3>2 DEF Duties
  <2> QED
    BY <1>2, <2>1
<1>7. /\ renderer' \in [window : Nat, extent : Sizes, ready : BOOLEAN,
                        requested : Nat, completed : Nat, started : BOOLEAN]
      /\ renderer'.completed = renderer.completed
      /\ \/ renderer' = renderer
         \/ /\ renderer'.requested = renderer.requested + 1
            /\ renderer'.ready = FALSE
            /\ renderer'.window = Head(main).window
  <2>1. CASE renderer' = renderer
    BY <1>3, <2>1
  <2>2. CASE renderer' # renderer
    <3>1. renderer' = [window |-> Head(main).window,
                       extent |-> Head(main).extent, ready |-> FALSE,
                       requested |-> renderer.requested + 1,
                       completed |-> renderer.completed, started |-> TRUE]
      BY <1>3, <1>5, <2>2
    <3> QED
      BY <1>3, <1>6, <3>1
  <2> QED
    BY <2>1, <2>2
<1>8. ActivityTypes' /\ RenderTypes'
  BY <1>1, <1>2, <1>4, <1>7 DEF ActivityTypes, RenderTypes
<1>9. ServiceTypes' /\ LastIsAwaited'
  BY <1>1, SilentFacts
<1>10. WindowsKnown' /\ TransportKnown'
  BY <1>1, <1>2, <1>4, <1>7 DEF WindowsKnown, TransportKnown
<1>11. RoundsKnown'
  BY <1>1, <1>3, <1>4, <1>7 DEF RoundsKnown
<1> QED
  BY <1>8, <1>9, <1>10, <1>11

\* The worker could not be started: only the duties change.
LEMMA ScheduleFailsStep == ASSUME HostInv, MainScheduleFails PROVE HostInv'
<1> USE DEF HostInv
<1>1. /\ UNCHANGED <<android, flags, renderer, lifecycle, mode, worker, device,
                     mutex, transport, consumer, inbox, status, client>>
      /\ main # <<>>
      /\ \/ main' = <<Emit("RENDERER_FAILED", Head(main).extent)>>
         \/ main' = Tail(main)
  BY DEF MainScheduleFails, render_vars, service_vars
<1>2. /\ main' \in Seq(Duties)
      /\ \A n \in DOMAIN main' : main'[n].window <= android.windows
  <2>1. CASE main' = Tail(main)
    BY <1>1, <2>1, HeadDuty
  <2>2. CASE main' = <<Emit("RENDERER_FAILED", Head(main).extent)>>
    <3>1. Head(main).extent \in Sizes /\ android.windows \in Nat
      BY <1>1, HeadDuty DEF Duties, ActivityTypes, Lives
    <3>2. PICK report : report = Emit("RENDERER_FAILED", Head(main).extent)
      OBVIOUS
    <3>3. report \in Duties /\ report.window = 0
      BY <3>1, <3>2 DEF Emit, Duties, Events
    <3>4. main' = <<report>>
      BY <2>2, <3>2
    <3>5. main' \in Seq(Duties) /\ DOMAIN main' = {1} /\ main'[1] = report
      BY <3>3, <3>4
    <3> QED
      BY <3>1, <3>3, <3>5
  <2> QED
    BY <1>1, <2>1, <2>2
<1> QED
  BY <1>1, <1>2
  DEF ActivityTypes, RenderTypes, ServiceTypes, WindowsKnown, LastIsAwaited,
      RoundsKnown, TransportKnown

\* The worker takes a request.
LEMMA WorkerTakesStep == ASSUME HostInv, WorkerTakes PROVE HostInv'
<1> USE DEF HostInv, activity_vars, service_vars
<1>1. /\ UNCHANGED <<device, mutex, transport, consumer, lifecycle, mode,
                     android, flags, renderer, main, inbox, status, client>>
      /\ worker.at = "idle" /\ renderer.requested # worker.generation
      /\ worker' = [worker EXCEPT !.at = "lock",
                      !.generation = renderer.requested,
                      !.window = renderer.window]
  BY DEF WorkerTakes
<1>2. /\ worker' \in [at : {"none", "idle", "lock", "publish", "emit",
                            "heartbeat", "emit_failed", "discard"},
                      generation : Nat, window : Nat, success : BOOLEAN,
                      extent : Sizes]
      /\ worker'.at = "lock" /\ worker'.generation = renderer.requested
      /\ worker'.window = renderer.window
  BY <1>1 DEF ActivityTypes, RenderTypes
<1>3. ActivityTypes' /\ RenderTypes' /\ WindowsKnown' /\ TransportKnown'
  BY <1>1, <1>2 DEF ActivityTypes, RenderTypes, WindowsKnown, TransportKnown
<1>4. ServiceTypes' /\ LastIsAwaited'
  BY <1>1, SilentFacts
<1>5. RoundsKnown'
  BY <1>1, <1>2 DEF RoundsKnown, ActivityTypes, RenderTypes
<1> QED
  BY <1>3, <1>4, <1>5

\* The worker replaces the renderer under the device mutex, which the consumer
\* does not hold.
LEMMA WorkerBuildsStep == ASSUME HostInv, WorkerBuilds PROVE HostInv'
<1> USE DEF HostInv, activity_vars, service_vars
<1>1. PICK success \in BOOLEAN :
      /\ worker.at = "lock" /\ DeviceFree
      /\ worker.window = 0 => ~ success
      /\ worker' = [worker EXCEPT !.at = "publish", !.success = success,
                      !.extent = IF worker.window = 0 THEN 0 ELSE android.extent]
      /\ device' = IF success THEN worker.window ELSE 0
      /\ transport' = [ring |-> FALSE, installed |-> FALSE]
      /\ UNCHANGED <<mutex, consumer, lifecycle, mode, android, flags, renderer,
                     main, inbox, status, client>>
  BY DEF WorkerBuilds
<1>2. /\ worker \in [at : {"none", "idle", "lock", "publish", "emit",
                           "heartbeat", "emit_failed", "discard"},
                     generation : Nat, window : Nat, success : BOOLEAN,
                     extent : Sizes]
      /\ android.extent \in Sizes /\ 0 \in Sizes
      /\ android.windows \in Nat /\ worker.window \in Nat
  BY DEF ActivityTypes, RenderTypes, Lives, Sizes
<1>3. (IF worker.window = 0 THEN 0 ELSE android.extent) \in Sizes
  BY <1>2
<1>4. /\ worker' \in [at : {"none", "idle", "lock", "publish", "emit",
                            "heartbeat", "emit_failed", "discard"},
                      generation : Nat, window : Nat, success : BOOLEAN,
                      extent : Sizes]
      /\ worker'.at = "publish" /\ worker'.generation = worker.generation
      /\ worker'.window = worker.window /\ worker'.success = success
  BY <1>1, <1>2, <1>3
<1>5. /\ device' \in Nat /\ device' <= android.windows
      /\ success => device' = worker.window /\ device' # 0
  BY <1>1, <1>2 DEF WindowsKnown
<1>6. /\ transport' \in [ring : BOOLEAN, installed : BOOLEAN]
      /\ ~transport'.ring /\ ~transport'.installed
  BY <1>1
<1>7. ActivityTypes' /\ RenderTypes' /\ WindowsKnown'
  BY <1>1, <1>4, <1>5, <1>6 DEF ActivityTypes, RenderTypes, WindowsKnown
<1>8. ServiceTypes' /\ LastIsAwaited'
  BY <1>1, SilentFacts
<1>9. RoundsKnown'
  BY <1>1, <1>4, <1>5 DEF RoundsKnown, ActivityTypes, RenderTypes
<1>10. TransportKnown'
  BY <1>1, <1>6 DEF TransportKnown, DeviceFree
<1> QED
  BY <1>7, <1>8, <1>9, <1>10

\* The worker publishes its result, which counts only for the last request.
LEMMA WorkerPublishesStep == ASSUME HostInv, WorkerPublishes PROVE HostInv'
<1> USE DEF HostInv, service_vars
<1> DEFINE at == IF PublishCurrent /\ worker.window # 0
                 THEN "emit" ELSE AfterPublish(PublishCurrent)
           ready == IF PublishCurrent THEN worker.success ELSE renderer.ready
<1>1. /\ UNCHANGED <<device, mutex, transport, consumer, lifecycle, mode,
                     android, flags, main, inbox, status, client>>
      /\ worker.at = "publish"
      /\ renderer' = [renderer EXCEPT !.completed = worker.generation,
                                      !.ready = ready]
      /\ worker' = [worker EXCEPT !.at = at]
  BY DEF WorkerPublishes
<1>2. /\ worker \in [at : {"none", "idle", "lock", "publish", "emit",
                           "heartbeat", "emit_failed", "discard"},
                     generation : Nat, window : Nat, success : BOOLEAN,
                     extent : Sizes]
      /\ renderer \in [window : Nat, extent : Sizes, ready : BOOLEAN,
                       requested : Nat, completed : Nat, started : BOOLEAN]
  BY DEF ActivityTypes, RenderTypes
<1>3. /\ at \in {"emit", "heartbeat", "discard", "idle"}
      /\ at = "discard" => ~PublishCurrent
  BY DEF AfterPublish
<1>4. ready \in BOOLEAN
  BY <1>2, Zenon
<1>5. /\ ready => worker.success \/ (~PublishCurrent /\ renderer.ready)
      /\ ~renderer.ready
  BY <1>1, <1>2 DEF RoundsKnown
<1> HIDE DEF at, ready
<1>6. /\ worker' \in [at : {"none", "idle", "lock", "publish", "emit",
                            "heartbeat", "emit_failed", "discard"},
                      generation : Nat, window : Nat, success : BOOLEAN,
                      extent : Sizes]
      /\ worker'.at = at /\ worker'.generation = worker.generation
      /\ worker'.window = worker.window
  BY <1>1, <1>2, <1>3
<1>7. /\ renderer' \in [window : Nat, extent : Sizes, ready : BOOLEAN,
                        requested : Nat, completed : Nat, started : BOOLEAN]
      /\ renderer'.window = renderer.window /\ renderer'.ready = ready
      /\ renderer'.requested = renderer.requested
      /\ renderer'.completed = worker.generation
  BY <1>1, <1>2, <1>4
<1>8. /\ ready => PublishCurrent /\ worker.success
  BY <1>5 DEF ready
<1>9. ActivityTypes' /\ RenderTypes' /\ WindowsKnown' /\ TransportKnown'
  BY <1>1, <1>6, <1>7
  DEF ActivityTypes, RenderTypes, WindowsKnown, TransportKnown
<1>10. ServiceTypes' /\ LastIsAwaited'
  BY <1>1, SilentFacts
<1>11. RoundsKnown'
  BY <1>1, <1>2, <1>3, <1>6, <1>7, <1>8 DEF RoundsKnown, PublishCurrent, Current
<1> QED
  BY <1>9, <1>10, <1>11

\* The worker reports: the round goes on once the record is on its way.
LEMMA WorkerEmitsStep == ASSUME HostInv, WorkerEmits PROVE HostInv'
<1> USE DEF HostInv, activity_vars
<1> DEFINE at == IF worker.at = "emit" THEN AfterPublish(TRUE) ELSE "discard"
           event == IF worker.at = "emit" /\ worker.success
                    THEN "RENDERER_READY" ELSE "RENDERER_FAILED"
<1>1. /\ UNCHANGED <<device, mutex, transport, consumer, status, client, mode,
                     android, flags, renderer, main>>
      /\ worker.at \in {"emit", "emit_failed"}
      /\ Sends("worker", event, worker.extent)
      /\ worker' = [worker EXCEPT !.at = at]
  BY DEF WorkerEmits
<1>2. worker \in [at : {"none", "idle", "lock", "publish", "emit",
                        "heartbeat", "emit_failed", "discard"},
                  generation : Nat, window : Nat, success : BOOLEAN,
                  extent : Sizes]
  BY DEF RenderTypes
<1>3. /\ at \in {"heartbeat", "discard", "idle"}
      /\ at = "discard" => worker.at = "emit_failed"
  BY <1>1 DEF AfterPublish
<1>4. event \in Events /\ worker.extent \in Sizes
  BY <1>2 DEF Events
<1> HIDE DEF at, event
<1>5. ServiceTypes' /\ LastIsAwaited'
  BY <1>1, <1>4, SendsFacts
<1>6. /\ worker' \in [at : {"none", "idle", "lock", "publish", "emit",
                            "heartbeat", "emit_failed", "discard"},
                      generation : Nat, window : Nat, success : BOOLEAN,
                      extent : Sizes]
      /\ worker'.at = at /\ worker'.generation = worker.generation
      /\ worker'.window = worker.window
  BY <1>1, <1>2, <1>3
<1>7. ActivityTypes' /\ RenderTypes' /\ WindowsKnown' /\ TransportKnown'
  BY <1>1, <1>6 DEF ActivityTypes, RenderTypes, WindowsKnown, TransportKnown
<1>8. RoundsKnown'
  BY <1>1, <1>3, <1>6 DEF RoundsKnown
<1> QED
  BY <1>5, <1>7, <1>8

\* The heartbeat ends or fails: a failure of the current round makes the
\* renderer not ready, and in a round that has been overtaken it is not ready.
LEMMA HeartbeatStep ==
  ASSUME HostInv, HeartbeatEnds \/ HeartbeatFails
  PROVE  HostInv'
<1> USE DEF HostInv, activity_vars, service_vars
<1>1. /\ UNCHANGED <<device, mutex, transport, consumer, lifecycle, mode,
                     android, flags, main, inbox, status, client>>
      /\ worker.at = "heartbeat"
  BY DEF HeartbeatEnds, HeartbeatFails
<1>2. /\ worker \in [at : {"none", "idle", "lock", "publish", "emit",
                           "heartbeat", "emit_failed", "discard"},
                     generation : Nat, window : Nat, success : BOOLEAN,
                     extent : Sizes]
      /\ renderer \in [window : Nat, extent : Sizes, ready : BOOLEAN,
                       requested : Nat, completed : Nat, started : BOOLEAN]
  BY DEF ActivityTypes, RenderTypes
<1>3. ~Current => ~renderer.ready
  BY <1>1, <1>2 DEF Current, RoundsKnown
<1>4. \E a \in {"idle", "emit_failed", "discard"} :
        worker' = [worker EXCEPT !.at = a]
  BY DEF HeartbeatEnds, HeartbeatFails
<1>5. /\ worker' \in [at : {"none", "idle", "lock", "publish", "emit",
                            "heartbeat", "emit_failed", "discard"},
                      generation : Nat, window : Nat, success : BOOLEAN,
                      extent : Sizes]
      /\ worker'.at \in {"idle", "emit_failed", "discard"}
      /\ worker'.generation = worker.generation
      /\ worker'.window = worker.window
  BY <1>2, <1>4
<1>6. \/ renderer' = renderer /\ ~renderer.ready
      \/ renderer' = [renderer EXCEPT !.ready = FALSE]
  BY <1>3 DEF HeartbeatEnds, HeartbeatFails
<1>7. /\ renderer' \in [window : Nat, extent : Sizes, ready : BOOLEAN,
                        requested : Nat, completed : Nat, started : BOOLEAN]
      /\ renderer'.window = renderer.window /\ ~renderer'.ready
      /\ renderer'.requested = renderer.requested
      /\ renderer'.completed = renderer.completed
  BY <1>2, <1>6
<1>8. ActivityTypes' /\ RenderTypes' /\ WindowsKnown' /\ TransportKnown'
  BY <1>1, <1>5, <1>7
  DEF ActivityTypes, RenderTypes, WindowsKnown, TransportKnown
<1>9. ServiceTypes' /\ LastIsAwaited'
  BY <1>1, SilentFacts
<1>10. RoundsKnown'
  BY <1>1, <1>2, <1>5, <1>7 DEF RoundsKnown
<1> QED
  BY <1>8, <1>9, <1>10

\* A renderer nobody wants goes, under the device mutex.
LEMMA WorkerDiscardsStep == ASSUME HostInv, WorkerDiscards PROVE HostInv'
<1> USE DEF HostInv, activity_vars, service_vars
<1>1. /\ UNCHANGED <<mutex, consumer, lifecycle, mode, android, flags, renderer,
                     main, inbox, status, client>>
      /\ worker.at = "discard" /\ DeviceFree /\ device' = 0
      /\ transport' = [ring |-> FALSE, installed |-> FALSE]
      /\ worker' = [worker EXCEPT !.at = "idle"]
  BY DEF WorkerDiscards
<1>2. /\ worker' \in [at : {"none", "idle", "lock", "publish", "emit",
                            "heartbeat", "emit_failed", "discard"},
                      generation : Nat, window : Nat, success : BOOLEAN,
                      extent : Sizes]
      /\ worker'.at = "idle" /\ worker'.generation = worker.generation
      /\ worker'.window = worker.window
  BY <1>1 DEF RenderTypes
<1>3. /\ transport' \in [ring : BOOLEAN, installed : BOOLEAN]
      /\ ~transport'.ring /\ ~transport'.installed
  BY <1>1
<1>4. android.windows \in Nat
  BY DEF ActivityTypes, Lives
<1>5. ActivityTypes' /\ RenderTypes' /\ WindowsKnown'
  BY <1>1, <1>2, <1>3, <1>4 DEF ActivityTypes, RenderTypes, WindowsKnown
<1>6. ServiceTypes' /\ LastIsAwaited'
  BY <1>1, SilentFacts
<1>7. RoundsKnown'
  BY <1>1, <1>2 DEF RoundsKnown
<1>8. TransportKnown'
  BY <1>1, <1>3 DEF TransportKnown, DeviceFree
<1> QED
  BY <1>5, <1>6, <1>7, <1>8

\* The frame transport comes, and the consumer takes the device mutex and
\* gives it back; it keeps it only while there is a ring.
LEMMA ConsumerStepKeeps ==
  ASSUME HostInv, import_game_frame_transport \/ ConsumerStep
  PROVE  HostInv'
<1> USE DEF HostInv, activity_vars, service_vars
<1>1. UNCHANGED <<worker, device, lifecycle, mode, android, flags, renderer,
                  main, inbox, status, client>>
  BY DEF import_game_frame_transport, ConsumerStep, ConsumerWakes,
         ConsumerLocks, ConsumerGivesUp, ConsumerCopies
<1>2. /\ transport \in [ring : BOOLEAN, installed : BOOLEAN]
      /\ mutex \in {"free", "consumer"}
      /\ consumer \in {"none", "wait", "woken", "waiting"}
  BY DEF RenderTypes
<1>3. /\ transport' \in [ring : BOOLEAN, installed : BOOLEAN]
      /\ mutex' \in {"free", "consumer"}
      /\ consumer' \in {"none", "wait", "woken", "waiting"}
      /\ TransportKnown'
  <2>1. CASE import_game_frame_transport
    BY <1>1, <1>2, <2>1
    DEF import_game_frame_transport, TransportKnown, DeviceFree
  <2>2. CASE ConsumerWakes
    BY <1>1, <1>2, <2>2 DEF ConsumerWakes, TransportKnown
  <2>3. CASE ConsumerLocks
    BY <1>1, <1>2, <2>3
    DEF ConsumerLocks, TransportKnown, StillReady, GateOpen, DeviceFree
  <2>4. CASE ConsumerGivesUp
    BY <1>1, <1>2, <2>4 DEF ConsumerGivesUp, TransportKnown
  <2>5. CASE ConsumerCopies
    BY <1>1, <1>2, <2>5 DEF ConsumerCopies, TransportKnown
  <2> QED
    BY <2>1, <2>2, <2>3, <2>4, <2>5 DEF ConsumerStep
<1>4. ActivityTypes' /\ RenderTypes' /\ WindowsKnown' /\ RoundsKnown'
  BY <1>1, <1>3 DEF ActivityTypes, RenderTypes, WindowsKnown, RoundsKnown
<1>5. ServiceTypes' /\ LastIsAwaited'
  BY <1>1, SilentFacts
<1> QED
  BY <1>3, <1>4, <1>5

\* What the service makes of a record.
LEMMA AppliedFacts ==
  ASSUME HostInv, NEW record \in Records
  PROVE  apply_lifecycle_event(record) \in Copies
<1>1. /\ status.flags \in SUBSET Flags /\ status.extent \in Sizes
      /\ record.event \in Events /\ record.extent \in Sizes
      /\ record.sequence \in Nat
  BY DEF HostInv, ServiceTypes, Copies, Records
<1>2. StateFlags(status.flags, record) \in SUBSET Flags
  BY <1>1 DEF StateFlags, Flags, Events
<1>3. Extent(status.extent, record) \in Sizes
  BY <1>1 DEF Extent, Sizes
<1> QED
  BY <1>1, <1>2, <1>3 DEF apply_lifecycle_event, Copies

\* The end of a wait for an acknowledgement.
LEMMA HearsFacts ==
  ASSUME HostInv, NEW ok \in BOOLEAN, Hears(ok)
  PROVE  /\ lifecycle' \in [configured : BOOLEAN, next : Nat,
                            sender : {"none", "main", "worker"}]
         /\ lifecycle'.sender = "none"
<1>1. lifecycle \in [configured : BOOLEAN, next : Nat,
                     sender : {"none", "main", "worker"}]
  BY DEF HostInv, ServiceTypes
<1>2. lifecycle' = [configured |-> ok,
                    next |-> IF ok THEN lifecycle.next + 1 ELSE lifecycle.next,
                    sender |-> "none"]
  BY <1>1 DEF Hears
<1>3. (IF ok THEN lifecycle.next + 1 ELSE lifecycle.next) \in Nat
  BY <1>1
<1> QED
  BY <1>2, <1>3

\* The service handles the oldest record; if somebody waits for it, it is the
\* only one.
LEMMA HandleStep == ASSUME HostInv, handle_activity_connection PROVE HostInv'
<1> USE DEF HostInv, activity_vars, render_vars
<1> DEFINE record == Head(inbox)
           accepted == record_is_valid(record) /\ InOrder(record)
<1>1. /\ UNCHANGED <<client, mode, android, flags, renderer, main, worker,
                     device, mutex, transport, consumer>>
      /\ inbox # <<>> /\ inbox' = Tail(inbox)
      /\ status' = IF accepted THEN apply_lifecycle_event(record) ELSE status
      /\ IF record.awaited THEN Hears(accepted) ELSE UNCHANGED lifecycle
  BY DEF handle_activity_connection
<1>2. /\ inbox \in Seq(Records) /\ status \in Copies
      /\ lifecycle \in [configured : BOOLEAN, next : Nat,
                        sender : {"none", "main", "worker"}]
      /\ client \in [open : BOOLEAN, copy : Copies, prepared : Sizes]
      /\ mode \in {"retain", "heartbeat", "ingress"}
  BY DEF ServiceTypes
<1>3. /\ Len(inbox) \in Nat /\ Len(inbox) # 0 /\ DOMAIN inbox = 1 .. Len(inbox)
      /\ record = inbox[1] /\ record \in Records
      /\ inbox' \in Seq(Records) /\ Len(inbox') = Len(inbox) - 1
      /\ \A n \in 1 .. Len(inbox) - 1 : inbox'[n] = inbox[n + 1]
  BY <1>1, <1>2, HeadTailProperties, LenProperties, EmptySeq
<1>4. DOMAIN inbox' = 1 .. Len(inbox) - 1
  BY <1>3, LenProperties
<1>5. accepted \in BOOLEAN
  BY DEF record_is_valid, InOrder
<1>6. apply_lifecycle_event(record) \in Copies
  BY <1>3, AppliedFacts
<1>7. status' \in Copies
  BY <1>1, <1>2, <1>6, Zenon
<1> HIDE DEF accepted, record
<1>8. CASE record.awaited
  <2>1. /\ lifecycle' \in [configured : BOOLEAN, next : Nat,
                           sender : {"none", "main", "worker"}]
        /\ lifecycle'.sender = "none"
    BY <1>1, <1>5, <1>8, HearsFacts
  <2>2. 1 \in DOMAIN inbox /\ inbox[1].awaited
    BY <1>3, <1>8
  <2>3. 1 = Len(inbox)
    BY <2>2 DEF LastIsAwaited
  <2>4. DOMAIN inbox' = {}
    <3>1. Len(inbox) - 1 = 0 /\ 1 .. 0 = {}
      BY <2>3
    <3> QED
      BY <1>4, <3>1, Zenon
  <2> QED
    BY <1>1, <1>2, <1>3, <1>7, <2>1, <2>4
    DEF ActivityTypes, RenderTypes, ServiceTypes, WindowsKnown, LastIsAwaited,
        RoundsKnown, TransportKnown
<1>9. CASE ~record.awaited
  <2>1. lifecycle' = lifecycle
    BY <1>1, <1>9
  <2>2. 1 \in DOMAIN inbox /\ ~inbox[1].awaited
    BY <1>3, <1>9
  <2>3. lifecycle.sender # "none" => Len(inbox) # 1
    BY <2>2 DEF LastIsAwaited
  <2>4. lifecycle'.sender # "none" => inbox' # <<>>
    BY <1>3, <2>1, <2>3, EmptySeq
  <2>5. ASSUME NEW n \in DOMAIN inbox'
        PROVE  inbox'[n].awaited <=> (lifecycle'.sender # "none"
                                      /\ n = Len(inbox'))
    <3>1. /\ n + 1 \in DOMAIN inbox /\ inbox'[n] = inbox[n + 1]
          /\ n = Len(inbox') <=> n + 1 = Len(inbox)
      BY <1>3, <1>4
    <3> QED
      BY <2>1, <3>1 DEF LastIsAwaited
  <2>6. LastIsAwaited'
    BY <2>4, <2>5 DEF LastIsAwaited
  <2>7. ServiceTypes'
    BY <1>1, <1>2, <1>3, <1>7, <2>1 DEF ServiceTypes
  <2> QED
    BY <1>1, <2>6, <2>7
    DEF ActivityTypes, RenderTypes, WindowsKnown, RoundsKnown, TransportKnown
<1> QED
  BY <1>8, <1>9

\* A report fails: nobody waits for its record any more, or it is lost.
LEMMA EmitFailsStep == ASSUME HostInv, EmitFails PROVE HostInv'
<1> USE DEF HostInv, activity_vars, render_vars
<1>1. /\ UNCHANGED <<status, client, mode, android, flags, renderer, main,
                     worker, device, mutex, transport, consumer>>
      /\ lifecycle.sender # "none" /\ Hears(FALSE)
      /\ \/ inbox' = [inbox EXCEPT ![Len(inbox)].awaited = FALSE]
         \/ inbox' = SubSeq(inbox, 1, Len(inbox) - 1)
  BY DEF EmitFails
<1>2. /\ lifecycle' \in [configured : BOOLEAN, next : Nat,
                         sender : {"none", "main", "worker"}]
      /\ lifecycle'.sender = "none"
  BY <1>1, HearsFacts
<1>3. inbox \in Seq(Records) /\ inbox # <<>>
  BY <1>1 DEF ServiceTypes, LastIsAwaited
<1>4. /\ Len(inbox) \in Nat /\ Len(inbox) # 0 /\ DOMAIN inbox = 1 .. Len(inbox)
      /\ \A n \in 1 .. Len(inbox) : inbox[n] \in Records
  BY <1>3, LenProperties, EmptySeq, ElementOfSeq
<1>5. \A n \in 1 .. Len(inbox) - 1 : ~inbox[n].awaited
  BY <1>4 DEF LastIsAwaited
<1>6. /\ inbox' \in Seq(Records)
      /\ \A n \in DOMAIN inbox' : ~inbox'[n].awaited
  <2>1. CASE inbox' = [inbox EXCEPT ![Len(inbox)].awaited = FALSE]
    <3> DEFINE k == Len(inbox)
               last == [inbox[k] EXCEPT !.awaited = FALSE]
    <3>1. last \in Records /\ ~last.awaited
      <4>1. inbox[k] \in Records
        BY <1>4
      <4>2. ASSUME NEW r \in Records
            PROVE  [r EXCEPT !.awaited = FALSE] \in Records
                   /\ [r EXCEPT !.awaited = FALSE].awaited = FALSE
        BY DEF Records
      <4> QED
        BY <4>1, <4>2
    <3>2. inbox' = [inbox EXCEPT ![k] = last]
      BY <2>1
    <3>3. k \in Nat /\ k # 0 /\ k \in 1 .. Len(inbox)
      BY <1>4
    <3> HIDE DEF last
    <3>4. /\ inbox' \in Seq(Records) /\ Len(inbox') = Len(inbox)
          /\ inbox'[k] = last
          /\ \A n \in 1 .. Len(inbox) : n # k => inbox'[n] = inbox[n]
      BY <1>3, <1>4, <3>1, <3>2, <3>3, ExceptSeq, ZenonT(40)
    <3>5. DOMAIN inbox' = 1 .. Len(inbox)
      BY <3>4, LenProperties
    <3>6. ASSUME NEW n \in DOMAIN inbox' PROVE ~inbox'[n].awaited
      <4>1. CASE n = k
        BY <3>1, <3>4, <4>1
      <4>2. CASE n # k
        <5>1. n \in 1 .. Len(inbox) /\ n \in 1 .. Len(inbox) - 1
          BY <1>4, <3>5, <4>2
        <5> QED
          BY <1>5, <3>4, <4>2, <5>1
      <4> QED
        BY <4>1, <4>2
    <3> QED
      BY <3>4, <3>6
  <2>2. CASE inbox' = SubSeq(inbox, 1, Len(inbox) - 1)
    <3>1. /\ inbox' \in Seq(Records) /\ Len(inbox') = Len(inbox) - 1
          /\ \A n \in 1 .. Len(inbox) - 1 : inbox'[n] = inbox[n]
      BY <1>3, <1>4, <2>2
    <3>2. DOMAIN inbox' = 1 .. Len(inbox) - 1
      BY <3>1, LenProperties
    <3> QED
      BY <1>5, <3>1, <3>2
  <2> QED
    BY <1>1, <2>1, <2>2
<1>7. ServiceTypes' /\ LastIsAwaited'
  BY <1>1, <1>2, <1>6 DEF ServiceTypes, LastIsAwaited
<1> QED
  BY <1>1, <1>7
  DEF ActivityTypes, RenderTypes, WindowsKnown, RoundsKnown, TransportKnown

\* A game's connection takes a copy of the status, prepares, and ends.
LEMMA ConnectionStep ==
  ASSUME HostInv,
         start_connection_worker \/ answer_vulkan_swapchain_prepare
           \/ serve_connection_ends
  PROVE  HostInv'
<1> USE DEF HostInv, activity_vars, render_vars
<1>1. UNCHANGED <<lifecycle, inbox, status, mode, android, flags, renderer,
                  main, worker, device, mutex, transport, consumer>>
  BY DEF start_connection_worker, answer_vulkan_swapchain_prepare,
         serve_connection_ends
<1>2. /\ status \in Copies /\ NoCopy \in Copies
      /\ client \in [open : BOOLEAN, copy : Copies, prepared : Sizes]
  BY DEF ServiceTypes, NoCopy, Copies, Flags, Sizes, Extents
<1>3. client.copy.extent \in Sizes /\ 0 \in Sizes
  BY <1>2 DEF Copies, Sizes
<1>4. client' \in [open : BOOLEAN, copy : Copies, prepared : Sizes]
  <2>1. \/ client' = [open |-> TRUE, copy |-> status, prepared |-> 0]
        \/ client' = [client EXCEPT !.prepared = client.copy.extent]
        \/ client' = [open |-> FALSE, copy |-> NoCopy, prepared |-> 0]
    BY DEF start_connection_worker, answer_vulkan_swapchain_prepare,
           serve_connection_ends
  <2>2. CASE client' = [open |-> TRUE, copy |-> status, prepared |-> 0]
    BY <1>2, <1>3, <2>2
  <2>3. CASE client' = [client EXCEPT !.prepared = client.copy.extent]
    BY <1>2, <1>3, <2>3
  <2>4. CASE client' = [open |-> FALSE, copy |-> NoCopy, prepared |-> 0]
    BY <1>2, <1>3, <2>4
  <2> QED
    BY <2>1, <2>2, <2>3, <2>4
<1> QED
  BY <1>1, <1>4
  DEF ActivityTypes, RenderTypes, ServiceTypes, WindowsKnown, LastIsAwaited,
      RoundsKnown, TransportKnown

\* Every step keeps the invariant.
LEMMA HostInvStep == HostInv /\ [Next]_vars => HostInv'
<1> SUFFICES ASSUME HostInv, [Next]_vars PROVE HostInv'
  OBVIOUS
<1>1. CASE \/ ANativeActivity_onCreate \/ on_start \/ on_resume \/ on_pause
           \/ on_stop \/ on_destroy \/ on_window_created \/ on_window_resized
           \/ on_window_redraw_needed \/ on_window_destroyed
           \/ on_window_focus_changed
  BY <1>1, CreateStep, PhaseStep, RedrawStep, WindowStep
<1>2. CASE MainStep
  BY <1>2, MainStepsQuietly, MainSchedulesStep, ScheduleFailsStep DEF MainStep
<1>3. CASE WorkerStep
  BY <1>3, WorkerTakesStep, WorkerBuildsStep, WorkerPublishesStep,
     WorkerEmitsStep, HeartbeatStep, WorkerDiscardsStep DEF WorkerStep
<1>4. CASE ConsumerStep \/ import_game_frame_transport
  BY <1>4, ConsumerStepKeeps
<1>5. CASE handle_activity_connection \/ EmitFails
  BY <1>5, HandleStep, EmitFailsStep
<1>6. CASE \/ start_connection_worker \/ answer_vulkan_swapchain_prepare
           \/ serve_connection_ends
  BY <1>6, ConnectionStep
<1>7. CASE UNCHANGED vars
  BY <1>7 DEF vars, HostInv, ActivityTypes, RenderTypes, ServiceTypes,
              WindowsKnown, LastIsAwaited, RoundsKnown, TransportKnown
<1> QED
  BY <1>1, <1>2, <1>3, <1>4, <1>5, <1>6, <1>7 DEF Next

-----------------------------------------------------------------------------

\* The inductive invariant of the Activity, its worker, its consumer and the
\* service's view: the types, which windows are known, who waits for which
\* record, which request a round stands for, what the transport hangs on.
THEOREM HostInvariant == Spec => []HostInv
<1>1. Init => HostInv
  BY HostInvInit
<1>2. HostInv /\ [Next]_vars => HostInv'
  BY HostInvStep
<1> QED
  BY <1>1, <1>2, PTL DEF Spec

\* The invariant gives both properties.
LEMMA HostInvImplies ==
  HostInv => ConsumerKeepsRing /\ ReadyIsCurrent
<1> SUFFICES ASSUME HostInv PROVE ConsumerKeepsRing /\ ReadyIsCurrent
  OBVIOUS
<1>1. ConsumerKeepsRing
  BY DEF HostInv, TransportKnown, ConsumerKeepsRing
<1>2. (lifecycle.sender # "none") = (\E n \in DOMAIN inbox : inbox[n].awaited)
  <2>1. /\ inbox \in Seq(Records)
        /\ lifecycle.sender # "none" => inbox # <<>>
        /\ \A n \in DOMAIN inbox :
             inbox[n].awaited <=> (lifecycle.sender # "none" /\ n = Len(inbox))
    BY DEF HostInv, ServiceTypes, LastIsAwaited
  <2>2. Len(inbox) \in Nat /\ DOMAIN inbox = 1 .. Len(inbox)
        /\ (inbox # <<>> => Len(inbox) # 0)
    BY <2>1, LenProperties, EmptySeq
  <2>3. inbox # <<>> => Len(inbox) \in DOMAIN inbox
    BY <2>2
  <2> QED
    BY <2>1, <2>3, Zenon
<1>3. /\ renderer.completed <= renderer.requested
      /\ worker.generation <= renderer.requested
      /\ device <= android.windows
  BY DEF HostInv, WindowsKnown, RoundsKnown, ActivityTypes, RenderTypes
<1>4. TypeOK
  BY <1>2, <1>3, Zenon DEF HostInv, TypeOK, TransportKnown
<1>5. ReadyIsCurrent
  BY <1>4 DEF HostInv, RoundsKnown, ReadyIsCurrent
<1> QED
  BY <1>1, <1>5

\* While the frame consumer waits for a frame and copies it (under
\* renderer_device_mutex), the ring stays mapped and the renderer exists,
\* whatever Android and the worker do.
THEOREM ConsumerAlwaysKeepsRing == Spec => []ConsumerKeepsRing
<1> QED
  BY HostInvariant, HostInvImplies, PTL

\* The renderer that counts as ready (renderer.ready) is the one of the last
\* request, and the types hold, for any number of callbacks of Android.
THEOREM ReadyAlwaysCurrent == Spec => []ReadyIsCurrent
<1> QED
  BY HostInvariant, HostInvImplies, PTL

-----------------------------------------------------------------------------
(***************************************************************************)
(* What the service believes of the Activity.  BeliefInv is inductive      *)
(* together with HostInv: the record on its way and the duties still to    *)
(* come make up for the difference between the status and the truth.       *)
(***************************************************************************)

\* What an accepted event does to the three flags that matter.
LEMMA FlagEffects ==
  ASSUME NEW old, NEW record
  PROVE  LET new == StateFlags(old, record)
         IN  /\ "RESUMED" \in new <=>
                  \/ record.event = "RESUMED"
                  \/ /\ "RESUMED" \in old
                     /\ record.event \notin {"CREATED", "PAUSED", "STOPPED",
                                             "DESTROYED"}
             /\ "WINDOW" \in new <=>
                  \/ record.event \in {"WINDOW_CREATED", "RENDERER_READY",
                                       "RENDERER_FAILED"}
                  \/ /\ "WINDOW" \in old
                     /\ record.event \notin {"CREATED", "DESTROYED",
                                             "WINDOW_DESTROYED"}
             /\ "READY" \in new <=>
                  \/ record.event = "RENDERER_READY"
                  \/ /\ "READY" \in old
                     /\ record.event \notin {"CREATED", "DESTROYED",
                                             "WINDOW_DESTROYED",
                                             "RENDERER_FAILED"}
  BY DEF StateFlags

\* The duties of the callbacks, in a word.
LEMMA WordFacts ==
  ASSUME HostInv
  PROVE  /\ \A event \in Events, extent \in Sizes :
              Word(Emit(event, extent)) = event
         /\ \A window \in Nat, force \in BOOLEAN :
              Word(Schedule(window, force)) =
                IF window = 0 THEN "drop" ELSE "build"
         /\ Word(Check) = "retain"
         /\ Word(Disable) = "disable"
         /\ \A duty \in Duties :
              /\ duty.do = "emit" => Word(duty) = duty.event /\ Word(duty) \in Events
              /\ duty.do \in {"schedule", "force"} =>
                   Word(duty) = IF duty.window = 0 THEN "drop" ELSE "build"
              /\ duty.do \in {"retain", "disable"} => Word(duty) = duty.do
<1>1. \A event \in Events, extent \in Sizes : Word(Emit(event, extent)) = event
  BY DEF Word, Emit
<1>2. \A window \in Nat, force \in BOOLEAN :
        Word(Schedule(window, force)) = IF window = 0 THEN "drop" ELSE "build"
  BY DEF Word, Schedule
<1>3. Word(Check) = "retain" /\ Word(Disable) = "disable"
  BY DEF Word, Check, Disable
<1>4. ASSUME NEW duty \in Duties
      PROVE  /\ duty.do = "emit" => Word(duty) = duty.event /\ Word(duty) \in Events
             /\ duty.do \in {"schedule", "force"} =>
                  Word(duty) = IF duty.window = 0 THEN "drop" ELSE "build"
             /\ duty.do \in {"retain", "disable"} => Word(duty) = duty.do
  BY <1>4 DEF Word, Duties
<1> QED
  BY <1>1, <1>2, <1>3, <1>4

\* The duties left when the first is done.
LEMMA DutyDone ==
  ASSUME HostInv, main # <<>>
  PROVE  /\ Len(main) \in Nat /\ Len(main) # 0
         /\ Head(main) = main[1] /\ main[1] \in Duties
         /\ Len(Tail(main)) = Len(main) - 1
         /\ Len(main) = 1 => Tail(main) = <<>>
         /\ Len(main) = 2 => Tail(main)[1] = main[2]
         /\ Len(main) = 3 => Tail(main)[1] = main[2] /\ Tail(main)[2] = main[3]
<1>1. main \in Seq(Duties)
  BY DEF HostInv, ActivityTypes
<1>2. /\ Len(main) \in Nat /\ Len(main) # 0 /\ DOMAIN main = 1 .. Len(main)
      /\ Head(main) = main[1]
      /\ Tail(main) \in Seq(Duties) /\ Len(Tail(main)) = Len(main) - 1
      /\ \A n \in 1 .. Len(main) - 1 : Tail(main)[n] = main[n + 1]
  BY <1>1, HeadTailProperties, LenProperties, EmptySeq
<1>3. main[1] \in Duties
  BY <1>2, HeadDuty
<1>4. Len(main) = 1 => Tail(main) = <<>>
  <2>1. Len(main) = 1 => Len(Tail(main)) = 0
    BY <1>2
  <2> QED
    BY <1>2, <2>1, EmptySeq, Zenon
<1>5. /\ Len(main) = 2 => Tail(main)[1] = main[2]
      /\ Len(main) = 3 => Tail(main)[1] = main[2] /\ Tail(main)[2] = main[3]
  BY <1>2
<1> QED
  BY <1>2, <1>3, <1>4, <1>5, Zenon

\* Nothing is left to do, in words.
LEMMA NothingOwed ==
  ASSUME HostInv
  PROVE  (main = <<>>) <=> (Len(main) = 0)
<1>1. main \in Seq(Duties)
  BY DEF HostInv, ActivityTypes
<1> QED
  BY <1>1, EmptySeq

\* The invariant holds at the launch.
LEMMA BeliefInvInit == Init => BeliefInv
<1> SUFFICES ASSUME Init PROVE BeliefInv
  OBVIOUS
<1>1. DutiesKnown /\ SessionKnown
  BY DEF Init, DutiesKnown, SessionKnown, NoCopy
<1>2. RendererKnown
  BY DEF Init, RendererKnown
<1>3. ~ Underway
  BY DEF Init, Underway
<1> QED
  BY <1>1, <1>2, <1>3
  DEF BeliefInv, ResumedKnown, WindowKnown, ReadyKnown

\* Steps of the worker, the consumer and the game that ask for nothing,
\* publish nothing and report nothing.
LEMMA UnheardStep ==
  ASSUME BeliefInv,
         UNCHANGED <<android, renderer, lifecycle, main, inbox, status, mode>>,
         \/ worker' = worker
         \/ /\ worker.at \notin {"emit", "emit_failed"}
            /\ worker'.at \notin {"emit", "emit_failed", "heartbeat"}
            /\ mode = "ingress" => lifecycle.sender # "worker"
  PROVE  BeliefInv'
<1> USE DEF BeliefInv, Owes, OwesTwo, OwesThree
<1>1. DutiesKnown'
  BY DEF DutiesKnown, Creating, Retiring
<1>2. SessionKnown'
  BY DEF SessionKnown, Creating, Newest
<1>3. RendererKnown'
  BY DEF RendererKnown, Retiring
<1>4. (Underway' <=> Underway) /\ Belief' = Belief
  BY DEF Underway, Belief, Newest
<1>5. ResumedKnown' /\ WindowKnown'
  BY <1>4 DEF ResumedKnown, WindowKnown, Retiring
<1>6. ReadyKnown'
  BY <1>4 DEF ReadyKnown, Leaving
<1> QED
  BY <1>1, <1>2, <1>3, <1>5, <1>6

\* The worker takes a request, builds, discards and ends a heartbeat; in the
\* mode of an ingress none of this happens while its report is on its way.
LEMMA WorkerUnheard ==
  ASSUME HostInv, BeliefInv,
         WorkerTakes \/ WorkerBuilds \/ HeartbeatEnds \/ WorkerDiscards
  PROVE  BeliefInv'
<1>1. UNCHANGED <<android, renderer, lifecycle, main, inbox, status, mode>>
  BY DEF WorkerTakes, WorkerBuilds, HeartbeatEnds, WorkerDiscards,
         activity_vars, service_vars
<1>2. worker \in [at : {"none", "idle", "lock", "publish", "emit", "heartbeat",
                        "emit_failed", "discard"},
                  generation : Nat, window : Nat, success : BOOLEAN,
                  extent : Sizes]
  BY DEF HostInv, RenderTypes
<1>3. mode = "ingress" /\ lifecycle.sender = "worker" =>
        worker.at = "idle" /\ worker.generation = renderer.requested
  BY DEF BeliefInv, RendererKnown
<1>4. CASE WorkerTakes
  <2>1. worker.at = "idle" /\ renderer.requested # worker.generation
        /\ worker'.at = "lock"
    BY <1>2, <1>4 DEF WorkerTakes
  <2> QED
    BY <1>1, <1>3, <2>1, UnheardStep
<1>5. CASE WorkerBuilds
  <2>1. worker.at = "lock" /\ worker'.at = "publish"
    BY <1>2, <1>5 DEF WorkerBuilds
  <2> QED
    BY <1>1, <1>3, <2>1, UnheardStep
<1>6. CASE HeartbeatEnds
  <2>1. worker.at = "heartbeat" /\ worker'.at = "idle"
    BY <1>2, <1>6 DEF HeartbeatEnds
  <2> QED
    BY <1>1, <1>3, <2>1, UnheardStep
<1>7. CASE WorkerDiscards
  <2>1. worker.at = "discard" /\ worker'.at = "idle"
    BY <1>2, <1>7 DEF WorkerDiscards
  <2> QED
    BY <1>1, <1>3, <2>1, UnheardStep
<1> QED
  BY <1>4, <1>5, <1>6, <1>7

\* The consumer and the game change nothing that is reported.
LEMMA OthersUnheard ==
  ASSUME BeliefInv,
         \/ ConsumerStep \/ import_game_frame_transport
         \/ start_connection_worker \/ answer_vulkan_swapchain_prepare
         \/ serve_connection_ends \/ UNCHANGED vars
  PROVE  BeliefInv'
<1>1. UNCHANGED <<android, renderer, lifecycle, main, inbox, status, mode, worker>>
  BY DEF ConsumerStep, ConsumerWakes, ConsumerLocks, ConsumerGivesUp,
         ConsumerCopies, import_game_frame_transport, start_connection_worker,
         answer_vulkan_swapchain_prepare, serve_connection_ends, vars,
         activity_vars, service_vars, render_vars
<1> QED
  BY <1>1, UnheardStep

\* A round is published: when it counts and has a window its report follows,
\* and when it has none the service has been told, or is about to be.
LEMMA PublishBelief ==
  ASSUME HostInv, BeliefInv, WorkerPublishes
  PROVE  BeliefInv'
<1> USE DEF BeliefInv
<1>1. /\ UNCHANGED <<android, lifecycle, main, inbox, status, mode>>
      /\ worker.at = "publish"
  BY DEF WorkerPublishes, service_vars
<1>2. /\ worker \in [at : {"none", "idle", "lock", "publish", "emit",
                           "heartbeat", "emit_failed", "discard"},
                     generation : Nat, window : Nat, success : BOOLEAN,
                     extent : Sizes]
      /\ renderer \in [window : Nat, extent : Sizes, ready : BOOLEAN,
                       requested : Nat, completed : Nat, started : BOOLEAN]
  BY DEF HostInv, RenderTypes, ActivityTypes
<1>3. /\ renderer'.window = renderer.window
      /\ renderer'.requested = renderer.requested
      /\ renderer'.started = renderer.started
      /\ renderer'.completed = worker.generation
      /\ renderer'.ready = IF Current THEN worker.success ELSE renderer.ready
      /\ worker'.generation = worker.generation
      /\ worker'.success = worker.success
      /\ worker'.at = IF Current /\ worker.window # 0 THEN "emit"
                      ELSE AfterPublish(Current)
  BY <1>2 DEF WorkerPublishes, PublishCurrent
<1>4. /\ AfterPublish(Current) \in {"idle", "discard", "heartbeat"}
      /\ mode # "heartbeat" => AfterPublish(Current) # "heartbeat"
  BY DEF AfterPublish
<1>5. Current <=> worker.generation = renderer.requested
                  /\ worker.window = renderer.window
  BY DEF Current
<1>6. worker.generation = renderer.requested => worker.window = renderer.window
  BY DEF HostInv, RoundsKnown
<1>7. mode = "ingress" => lifecycle.sender # "worker"
  BY <1>1 DEF RendererKnown
<1>8. DutiesKnown' /\ SessionKnown'
  BY <1>1 DEF DutiesKnown, SessionKnown, Creating, Retiring, Newest, Owes, OwesTwo,
         OwesThree
<1>9. RendererKnown'
  <2>1. (~ renderer.started => renderer.window = 0)'
    BY <1>3 DEF RendererKnown
  <2>2. (worker.at = "emit" => /\ worker.generation = renderer.requested
                               /\ renderer.window # 0
                               /\ worker.success => renderer.ready)'
    BY <1>3, <1>4, <1>5
  <2>3. (Retiring <=> Retiring') /\ (mode = "ingress" =>
           (renderer.window # 0 => android.window # 0 \/ Retiring))
    BY <1>1 DEF Retiring, OwesTwo, RendererKnown
  <2>4. mode = "ingress" => worker'.at \notin {"heartbeat", "emit_failed"}
    BY <1>3, <1>4
  <2> QED
    BY <1>1, <1>3, <1>7, <2>1, <2>2, <2>3, <2>4 DEF RendererKnown
<1>10. (Underway' <=> Underway) /\ Belief' = Belief /\ (Leaving <=> Leaving')
  BY <1>1 DEF Underway, Belief, Newest, Leaving, Owes, OwesTwo
<1>11. ResumedKnown' /\ WindowKnown'
  BY <1>1, <1>10 DEF ResumedKnown, WindowKnown, Retiring, Owes, OwesTwo
<1>12. ReadyKnown'
  <2>1. CASE Current /\ worker.window # 0
    BY <1>3, <1>5, <2>1 DEF ReadyKnown
  <2>2. CASE ~ Current
    BY <1>1, <1>2, <1>3, <1>5, <1>6, <1>10, <2>2 DEF ReadyKnown
  <2>3. CASE Current /\ worker.window = 0
    BY <1>1, <1>3, <1>5, <1>10, <2>3 DEF ReadyKnown
  <2> QED
    BY <2>1, <2>2, <2>3
<1> QED
  BY <1>8, <1>9, <1>11, <1>12

\* A frame of the heartbeat fails: the renderer is no longer ready, and the
\* report follows unless something newer has been asked for.
LEMMA HeartbeatBelief ==
  ASSUME HostInv, BeliefInv, HeartbeatFails
  PROVE  BeliefInv'
<1> USE DEF BeliefInv
<1>1. /\ UNCHANGED <<android, lifecycle, main, inbox, status, mode>>
      /\ worker.at = "heartbeat"
  BY DEF HeartbeatFails, service_vars
<1>2. /\ worker \in [at : {"none", "idle", "lock", "publish", "emit",
                           "heartbeat", "emit_failed", "discard"},
                     generation : Nat, window : Nat, success : BOOLEAN,
                     extent : Sizes]
      /\ renderer \in [window : Nat, extent : Sizes, ready : BOOLEAN,
                       requested : Nat, completed : Nat, started : BOOLEAN]
  BY DEF HostInv, RenderTypes, ActivityTypes
<1>3. /\ renderer'.window = renderer.window
      /\ renderer'.started = renderer.started
      /\ Current => worker'.at = "emit_failed"
      /\ ~ Current => worker'.at = "discard" /\ renderer' = renderer
  BY <1>2 DEF HeartbeatFails
<1>4. mode # "ingress"
  BY <1>1 DEF RendererKnown
<1>5. DutiesKnown' /\ SessionKnown'
  BY <1>1 DEF DutiesKnown, SessionKnown, Creating, Retiring, Newest, Owes, OwesTwo,
         OwesThree
<1>6. RendererKnown'
  BY <1>1, <1>3, <1>4 DEF RendererKnown
<1>7. (Underway' <=> Underway) /\ Belief' = Belief /\ (Leaving <=> Leaving')
  BY <1>1 DEF Underway, Belief, Newest, Leaving, Owes, OwesTwo
<1>8. ResumedKnown' /\ WindowKnown'
  BY <1>1, <1>7 DEF ResumedKnown, WindowKnown, Retiring, Owes, OwesTwo
<1>9. ReadyKnown'
  BY <1>1, <1>3, <1>7 DEF ReadyKnown
<1> QED
  BY <1>5, <1>6, <1>8, <1>9

\* Sending a record: nobody waited, the session stays where it is, and once it
\* is under way the belief is the one after the record.
LEMMA SendsBelief ==
  ASSUME HostInv, SessionKnown, NEW sender \in {"main", "worker"},
         NEW event \in Events, NEW extent \in Sizes,
         Sends(sender, event, extent), status' = status
  PROVE  /\ lifecycle.sender = "none"
         /\ lifecycle'.configured = lifecycle.configured
         /\ lifecycle'.next = lifecycle.next
         /\ lifecycle'.sender = IF lifecycle.configured THEN sender ELSE "none"
         /\ \A n \in DOMAIN inbox' : inbox'[n].sequence # 0
         /\ lifecycle.configured =>
              Newest'.event = event /\ Newest'.sequence = lifecycle.next
         /\ Underway' <=> Underway
         /\ Underway => Len(inbox') = 1
         /\ Underway => Belief' = StateFlags(Belief, Newest')
<1>1. /\ lifecycle \in [configured : BOOLEAN, next : Nat,
                        sender : {"none", "main", "worker"}]
      /\ inbox \in Seq(Records)
      /\ lifecycle.sender = "none"
  BY DEF HostInv, ServiceTypes, Sends
<1>2. CASE ~ lifecycle.configured
  <2>1. lifecycle' = lifecycle /\ inbox' = inbox
    BY <1>2 DEF Sends
  <2> QED
    BY <1>1, <1>2, <2>1 DEF SessionKnown, Underway
<1>3. CASE lifecycle.configured
  <2> DEFINE record == [event |-> event, extent |-> extent,
                        sequence |-> lifecycle.next, awaited |-> TRUE]
  <2>1. /\ lifecycle' = [lifecycle EXCEPT !.sender = sender]
        /\ inbox' = Append(inbox, record)
    BY <1>3 DEF Sends
  <2>2. /\ record \in Records /\ record.event = event
        /\ record.sequence = lifecycle.next
    BY <1>1 DEF Records
  <2> HIDE DEF record
  <2>3. /\ lifecycle'.configured = lifecycle.configured
        /\ lifecycle'.next = lifecycle.next
        /\ lifecycle'.sender = sender
    BY <1>1, <2>1
  <2>4. /\ Len(inbox) \in Nat /\ Len(inbox') = Len(inbox) + 1
        /\ DOMAIN inbox = 1 .. Len(inbox)
        /\ DOMAIN inbox' = 1 .. Len(inbox) + 1
        /\ inbox'[Len(inbox) + 1] = record
        /\ \A n \in 1 .. Len(inbox) : inbox'[n] = inbox[n]
    BY <1>1, <2>1, <2>2, AppendProperties, LenProperties
  <2>5. Newest' = record
    BY <2>4 DEF Newest
  <2>6. /\ lifecycle.next # 0
        /\ \A n \in DOMAIN inbox : inbox[n].sequence # 0
    BY DEF SessionKnown
  <2>7. ASSUME NEW n \in DOMAIN inbox' PROVE inbox'[n].sequence # 0
    <3>1. CASE n = Len(inbox) + 1
      BY <2>2, <2>4, <2>6, <3>1
    <3>2. CASE n # Len(inbox) + 1
      BY <2>4, <2>6, <3>2
    <3> QED
      BY <3>1, <3>2
  <2>8. Underway' <=> Underway
    BY <2>3 DEF Underway
  <2>9. Underway => Len(inbox') = 1
    <3>1. Underway => inbox = <<>>
      BY <1>1 DEF Underway, SessionKnown
    <3> QED
      BY <2>4, <3>1
  <2>10. Belief' = StateFlags(Belief, Newest')
    <3>1. Belief = status.flags
      BY <1>1 DEF Belief
    <3>2. lifecycle'.sender # "none"
      BY <2>3
    <3> QED
      BY <3>1, <3>2 DEF Belief
  <2> QED
    BY <1>1, <1>3, <2>2, <2>3, <2>5, <2>7, <2>8, <2>9, <2>10, Zenon
<1> QED
  BY <1>2, <1>3

\* The worker reports: its renderer is the one of the last request, so the
\* service believes what is so, or what the main thread is about to correct.
LEMMA WorkerEmitsBelief ==
  ASSUME HostInv, BeliefInv, WorkerEmits
  PROVE  BeliefInv'
<1> USE DEF BeliefInv
<1> DEFINE event == IF worker.at = "emit" /\ worker.success
                    THEN "RENDERER_READY" ELSE "RENDERER_FAILED"
<1>1. /\ UNCHANGED <<android, renderer, main, status, mode>>
      /\ worker.at \in {"emit", "emit_failed"}
      /\ Sends("worker", event, worker.extent)
  BY DEF WorkerEmits, activity_vars
<1>2. worker \in [at : {"none", "idle", "lock", "publish", "emit",
                        "heartbeat", "emit_failed", "discard"},
                  generation : Nat, window : Nat, success : BOOLEAN,
                  extent : Sizes]
  BY DEF HostInv, RenderTypes
<1>3. event \in {"RENDERER_READY", "RENDERER_FAILED"} /\ event \in Events
      /\ (event = "RENDERER_READY" => worker.at = "emit" /\ worker.success)
  BY DEF Events
<1> HIDE DEF event
<1>4. /\ lifecycle.sender = "none"
      /\ lifecycle'.configured = lifecycle.configured
      /\ lifecycle'.next = lifecycle.next
      /\ lifecycle'.sender = IF lifecycle.configured THEN "worker" ELSE "none"
      /\ \A n \in DOMAIN inbox' : inbox'[n].sequence # 0
      /\ lifecycle.configured =>
           Newest'.event = event /\ Newest'.sequence = lifecycle.next
      /\ Underway' <=> Underway
      /\ Underway => Len(inbox') = 1
      /\ Underway => Belief' = StateFlags(Belief, Newest')
  <2>1. worker.extent \in Sizes
    BY <1>2
  <2> QED
    BY <1>1, <1>3, <2>1, SendsBelief
<1>5. /\ worker'.generation = worker.generation
      /\ worker'.success = worker.success
      /\ worker'.at = IF worker.at = "emit" THEN AfterPublish(TRUE)
                      ELSE "discard"
  BY <1>2 DEF WorkerEmits
<1>6. /\ worker'.at \in {"idle", "heartbeat", "discard"}
      /\ worker.at = "emit" /\ mode # "heartbeat" => worker'.at = "idle"
  BY <1>5 DEF AfterPublish
<1>7. DutiesKnown'
  BY <1>1 DEF DutiesKnown, Creating, Retiring, Owes, OwesTwo, OwesThree
<1>8. SessionKnown'
  <2>1. (Creating' <=> Creating)
        /\ (Owes("NATIVE_BINDER_STATUS")' <=> Owes("NATIVE_BINDER_STATUS"))
    BY <1>1 DEF Creating, Owes, OwesTwo
  <2>2. CASE ~ lifecycle.configured
    <3>1. inbox' = inbox
      BY <1>1, <2>2 DEF Sends
    <3> QED
      BY <1>1, <1>4, <2>2, <3>1 DEF SessionKnown
  <2>3. CASE lifecycle.configured
    <3>1. lifecycle.next # 1 => Len(inbox') = 1
      BY <1>4, <2>3 DEF Underway
    <3> QED
      BY <1>1, <1>3, <1>4, <2>1, <2>3, <3>1 DEF SessionKnown
  <2> QED
    BY <2>2, <2>3
<1>9. RendererKnown'
  <2>1. Retiring' <=> Retiring
    BY <1>1 DEF Retiring, OwesTwo
  <2> QED
    BY <1>1, <1>4, <1>5, <1>6, <2>1 DEF RendererKnown
<1>10. Underway =>
         /\ "RESUMED" \in Belief' <=> "RESUMED" \in Belief
         /\ "WINDOW" \in Belief'
         /\ "READY" \in Belief' => event = "RENDERER_READY"
  <2> SUFFICES ASSUME Underway
               PROVE  /\ "RESUMED" \in Belief' <=> "RESUMED" \in Belief
                      /\ "WINDOW" \in Belief'
                      /\ "READY" \in Belief' => event = "RENDERER_READY"
    OBVIOUS
  <2>1. Belief' = StateFlags(Belief, Newest') /\ Newest'.event = event
    BY <1>4 DEF Underway
  <2> QED
    BY <1>3, <2>1, FlagEffects
<1>11. ResumedKnown'
  BY <1>1, <1>4, <1>10 DEF ResumedKnown, Owes
<1>12. WindowKnown'
  <2>1. mode = "ingress" => android.window # 0 \/ Retiring
    BY <1>1 DEF RendererKnown
  <2> QED
    BY <1>1, <1>4, <1>10, <2>1 DEF WindowKnown, Retiring, Owes, OwesTwo
<1>13. ReadyKnown'
  <2>1. event = "RENDERER_READY" => renderer.window # 0 /\ renderer.ready
    BY <1>3 DEF RendererKnown
  <2> QED
    BY <1>1, <1>4, <1>10, <2>1 DEF ReadyKnown
<1> QED
  BY <1>7, <1>8, <1>9, <1>11, <1>12, <1>13

\* The main thread reports what Android has done: what was still owed is now
\* on its way, and the rest of the callback stays owed.
LEMMA MainEmitsBelief ==
  ASSUME HostInv, BeliefInv, MainEmits
  PROVE  BeliefInv'
<1> USE DEF BeliefInv
<1> DEFINE event == main[1].event
<1>1. /\ UNCHANGED <<android, renderer, worker, status, mode>>
      /\ main # <<>> /\ main' = Tail(main) /\ Head(main).do = "emit"
      /\ Sends("main", Head(main).event, Head(main).extent)
  BY DEF MainEmits, render_vars
<1>2. /\ Len(main) \in Nat /\ Len(main) # 0
      /\ Head(main) = main[1] /\ main[1] \in Duties
      /\ Len(main') = Len(main) - 1
      /\ Len(main) = 1 => main' = <<>>
      /\ Len(main) = 2 => main'[1] = main[2]
      /\ Len(main) = 3 => main'[1] = main[2] /\ main'[2] = main[3]
  BY <1>1, DutyDone
<1>3. /\ event \in Events /\ Head(main).event = event
      /\ Head(main).extent \in Sizes /\ Word(main[1]) = event
      /\ Sends("main", event, Head(main).extent)
  BY <1>1, <1>2, WordFacts DEF Duties
<1> HIDE DEF event
<1>4. /\ lifecycle.sender = "none"
      /\ lifecycle'.configured = lifecycle.configured
      /\ lifecycle'.next = lifecycle.next
      /\ lifecycle'.sender = IF lifecycle.configured THEN "main" ELSE "none"
      /\ \A n \in DOMAIN inbox' : inbox'[n].sequence # 0
      /\ lifecycle.configured =>
           Newest'.event = event /\ Newest'.sequence = lifecycle.next
      /\ Underway' <=> Underway
      /\ Underway => Len(inbox') = 1
      /\ Underway => Belief' = StateFlags(Belief, Newest')
  BY <1>1, <1>3, SendsBelief
<1>5. /\ Underway => ("RESUMED" \in Belief' <=>
              \/ event = "RESUMED"
              \/ /\ "RESUMED" \in Belief
                 /\ event \notin {"CREATED", "PAUSED", "STOPPED", "DESTROYED"})
      /\ Underway => ("WINDOW" \in Belief' <=>
              \/ event \in {"WINDOW_CREATED", "RENDERER_READY", "RENDERER_FAILED"}
              \/ /\ "WINDOW" \in Belief
                 /\ event \notin {"CREATED", "DESTROYED", "WINDOW_DESTROYED"})
      /\ Underway => ("READY" \in Belief' <=>
              \/ event = "RENDERER_READY"
              \/ /\ "READY" \in Belief
                 /\ event \notin {"CREATED", "DESTROYED", "WINDOW_DESTROYED",
                                  "RENDERER_FAILED"})
  <2>1. Underway => Belief' = StateFlags(Belief, Newest') /\ Newest'.event = event
    BY <1>4 DEF Underway
  <2> QED
    BY <2>1, FlagEffects
<1>6. \/ /\ Creating /\ android.phase = "created" /\ event = "CREATED"
         /\ Owes("NATIVE_BINDER_STATUS")'
      \/ /\ Owes("NATIVE_BINDER_STATUS") /\ android.phase = "created"
         /\ main' = <<>> /\ event = "NATIVE_BINDER_STATUS"
      \/ Owes("RESUMED") /\ android.phase = "resumed" /\ main' = <<>>
         /\ event = "RESUMED"
      \/ Owes("PAUSED") /\ android.phase = "paused" /\ main' = <<>>
         /\ event = "PAUSED"
      \/ Owes("STOPPED") /\ android.phase = "stopped" /\ main' = <<>>
         /\ event = "STOPPED"
      \/ /\ event \in {"STARTED", "FOCUS_GAINED", "FOCUS_LOST"} /\ Owes(event)
         /\ main' = <<>>
      \/ /\ OwesTwo("WINDOW_CREATED", "build") /\ android.window # 0
         /\ event = "WINDOW_CREATED" /\ Owes("build")'
      \/ /\ Owes("RENDERER_FAILED") /\ android.window # 0
         /\ event = "RENDERER_FAILED" /\ main' = <<>>
      \/ /\ Owes("WINDOW_DESTROYED") /\ android.window = 0
         /\ event = "WINDOW_DESTROYED" /\ main' = <<>>
      \/ /\ OwesTwo("DESTROYED", "disable") /\ android.phase = "destroyed"
         /\ event = "DESTROYED" /\ Owes("disable")'
  <2>1. event \notin {"drop", "build", "retain", "disable"}
    BY <1>3 DEF Events
  <2> QED
    BY <1>1, <1>2, <1>3, <2>1
    DEF DutiesKnown, Creating, Retiring, Owes, OwesTwo, OwesThree
<1>7. DutiesKnown'
  BY <1>1, <1>6 DEF DutiesKnown
<1>8. Len(main') = 0 \/ Len(main') = 1
  BY <1>2, <1>6 DEF Creating, Owes, OwesTwo
<1>9. SessionKnown'
  <2>1. ~ Creating'
    BY <1>8 DEF Creating, OwesTwo
  <2>2. CASE ~ lifecycle.configured
    <3>1. inbox' = inbox
      BY <1>1, <2>2 DEF Sends
    <3> QED
      BY <1>1, <1>4, <2>2, <3>1 DEF SessionKnown
  <2>3. CASE lifecycle.configured /\ lifecycle.next = 1
    <3>1. Creating
      BY <1>4, <2>3 DEF SessionKnown
    <3>2. event = "CREATED" /\ Owes("NATIVE_BINDER_STATUS")'
      BY <1>6, <3>1 DEF Creating, Owes, OwesTwo
    <3> QED
      BY <1>1, <1>4, <2>3, <3>2 DEF SessionKnown
  <2>4. CASE lifecycle.configured /\ lifecycle.next # 1
    <3>1. Len(inbox') = 1
      BY <1>4, <2>4 DEF Underway
    <3>2. event # "CREATED"
      BY <1>6, <2>4 DEF SessionKnown
    <3> QED
      BY <1>1, <1>4, <2>1, <2>4, <3>1, <3>2 DEF SessionKnown
  <2> QED
    BY <2>2, <2>3, <2>4
<1>10. RendererKnown'
  <2>1. ~ Retiring
    BY <1>6 DEF Retiring, Creating, Owes, OwesTwo
  <2> QED
    BY <1>1, <1>4, <2>1 DEF RendererKnown
<1>11. ResumedKnown'
  <2> SUFFICES ASSUME Underway PROVE ResumedKnown'
    BY <1>4 DEF ResumedKnown
  <2>1. \/ ("RESUMED" \in Belief) <=> (android.phase = "resumed")
        \/ Owes("RESUMED") \/ Owes("PAUSED")
    BY DEF ResumedKnown
  <2>2. event # "CREATED"
    BY <1>6 DEF SessionKnown, Underway
  <2>3. ("RESUMED" \in Belief') <=> (android.phase = "resumed")
    BY <1>5, <1>6, <2>1, <2>2 DEF Creating, Owes, OwesTwo
  <2> QED
    BY <1>1, <2>3 DEF ResumedKnown
<1>12. WindowKnown'
  <2> SUFFICES ASSUME Underway, mode = "ingress" PROVE WindowKnown'
    BY <1>1, <1>4 DEF WindowKnown
  <2>1. \/ ("WINDOW" \in Belief) <=> (android.window # 0)
        \/ Retiring \/ Owes("WINDOW_DESTROYED")
        \/ OwesTwo("WINDOW_CREATED", "build")
    BY DEF WindowKnown
  <2>2. event # "CREATED"
    BY <1>6 DEF SessionKnown, Underway
  <2>3. android.phase = "destroyed" => android.window = 0
    BY DEF DutiesKnown
  <2>4. ("WINDOW" \in Belief') <=> (android.window # 0)
    BY <1>5, <1>6, <2>1, <2>2, <2>3 DEF Retiring, Creating, Owes, OwesTwo
  <2> QED
    BY <1>1, <2>4 DEF WindowKnown
<1>13. ReadyKnown'
  <2> SUFFICES ASSUME Underway, "READY" \in Belief' PROVE ReadyKnown'
    BY <1>4 DEF ReadyKnown
  <2>1. /\ "READY" \in Belief
        /\ event \notin {"DESTROYED", "WINDOW_DESTROYED"}
    BY <1>5, <1>6
  <2>2. ~ Leaving
    BY <1>6, <2>1 DEF Leaving, Creating, Owes, OwesTwo
  <2> QED
    BY <1>1, <2>1, <2>2 DEF ReadyKnown
<1> QED
  BY <1>7, <1>9, <1>10, <1>11, <1>12, <1>13

\* A request is for the window it names, and a new one is not completed.
LEMMA ScheduleFacts ==
  ASSUME HostInv, RendererKnown, NEW window \in Nat, NEW extent \in Sizes,
         NEW force \in BOOLEAN,
         renderer' = schedule_renderer(window, extent, force)
  PROVE  /\ renderer'.window = window
         /\ ~ renderer'.started => window = 0
         /\ renderer' = renderer \/ renderer'.completed # renderer'.requested
<1>1. /\ renderer \in [window : Nat, extent : Sizes, ready : BOOLEAN,
                       requested : Nat, completed : Nat, started : BOOLEAN]
      /\ ~ renderer.started => renderer.window = 0
      /\ renderer.completed <= renderer.requested
  BY DEF HostInv, ActivityTypes, RenderTypes, RoundsKnown, RendererKnown
<1>2. CASE renderer' = renderer
  <2>1. renderer.window = window
    <3>1. \/ ~ renderer.started /\ window = 0
          \/ renderer.window = window
          \/ renderer' = [renderer EXCEPT !.started = TRUE, !.window = window,
                            !.extent = extent, !.ready = FALSE,
                            !.requested = @ + 1]
      BY DEF schedule_renderer
    <3>2. CASE renderer' = [renderer EXCEPT !.started = TRUE, !.window = window,
                              !.extent = extent, !.ready = FALSE,
                              !.requested = @ + 1]
      BY <1>1, <1>2, <3>2
    <3> QED
      BY <1>1, <3>1, <3>2
  <2> QED
    BY <1>1, <1>2, <2>1
<1>3. CASE renderer' # renderer
  <2>1. renderer' = [renderer EXCEPT !.started = TRUE, !.window = window,
                       !.extent = extent, !.ready = FALSE, !.requested = @ + 1]
    BY <1>3 DEF schedule_renderer
  <2>2. /\ renderer'.started = TRUE /\ renderer'.window = window
        /\ renderer'.requested = renderer.requested + 1
        /\ renderer'.completed = renderer.completed
    BY <1>1, <2>1
  <2> QED
    BY <1>1, <2>2
<1> QED
  BY <1>2, <1>3

\* The main thread asks for a renderer: no report of the worker is on its way
\* then, and what it drops the service will hear of.
LEMMA MainSchedulesBelief ==
  ASSUME HostInv, BeliefInv, MainSchedules
  PROVE  BeliefInv'
<1> USE DEF BeliefInv
<1>1. /\ UNCHANGED <<android, lifecycle, inbox, status, mode>>
      /\ main # <<>> /\ main' = Tail(main)
      /\ Head(main).do \in {"schedule", "force"} /\ RendererFree
      /\ lifecycle.sender # "main"
      /\ renderer' = schedule_renderer(Head(main).window, Head(main).extent,
                                       Head(main).do = "force")
      /\ worker' = IF renderer'.started /\ worker.at = "none"
                   THEN [worker EXCEPT !.at = "idle"] ELSE worker
  BY DEF MainSchedules, service_vars, MainFree
<1>2. /\ Len(main) \in Nat /\ Len(main) # 0
      /\ Head(main) = main[1] /\ main[1] \in Duties
      /\ Len(main') = Len(main) - 1
      /\ Len(main) = 1 => main' = <<>>
      /\ Len(main) = 2 => main'[1] = main[2]
      /\ Len(main) = 3 => main'[1] = main[2] /\ main'[2] = main[3]
  BY <1>1, DutyDone
<1>3. /\ main[1].window \in Nat /\ main[1].extent \in Sizes
      /\ Word(main[1]) = IF main[1].window = 0 THEN "drop" ELSE "build"
  BY <1>1, <1>2, WordFacts DEF Duties
<1>4. /\ renderer'.window = main[1].window
      /\ ~ renderer'.started => main[1].window = 0
      /\ renderer' = renderer \/ renderer'.completed # renderer'.requested
  BY <1>1, <1>2, <1>3, ScheduleFacts
<1>5. \/ /\ Owes("build") /\ android.window # 0 /\ main' = <<>>
         /\ renderer'.window # 0
      \/ /\ OwesTwo("drop", "WINDOW_DESTROYED") /\ android.window = 0
         /\ Owes("WINDOW_DESTROYED")' /\ renderer'.window = 0
      \/ /\ OwesThree("drop", "DESTROYED", "disable")
         /\ android.phase = "destroyed"
         /\ OwesTwo("DESTROYED", "disable")' /\ renderer'.window = 0
  BY <1>1, <1>2, <1>3, <1>4
  DEF DutiesKnown, Creating, Retiring, Owes, OwesTwo, OwesThree
<1>6. DutiesKnown'
  BY <1>1, <1>5 DEF DutiesKnown
<1>7. SessionKnown'
  <2>1. ~ Creating /\ ~ Owes("NATIVE_BINDER_STATUS") /\ ~ Creating'
    BY <1>2, <1>5 DEF Creating, Owes, OwesTwo, OwesThree
  <2> QED
    BY <1>1, <2>1 DEF SessionKnown, Newest
<1>8. worker'.at # "none" /\ worker.at # "none" => worker' = worker
  BY <1>1
<1>9. /\ worker'.at \notin {"emit", "heartbeat", "emit_failed"} \/ worker' = worker
      /\ worker.at \in {"emit", "emit_failed"} => worker' = worker
      /\ worker.at # "emit"
  <2>1. worker \in [at : {"none", "idle", "lock", "publish", "emit",
                          "heartbeat", "emit_failed", "discard"},
                    generation : Nat, window : Nat, success : BOOLEAN,
                    extent : Sizes]
    BY DEF HostInv, RenderTypes
  <2> QED
    BY <1>1, <2>1 DEF RendererFree
<1>10. RendererKnown'
  <2>1. mode = "ingress" => lifecycle.sender # "worker"
    BY <1>1 DEF RendererKnown, RendererFree
  <2>2. (~ renderer.started => renderer.window = 0)'
    BY <1>4
  <2>3. worker'.at # "emit"
    BY <1>9
  <2>4. renderer'.window # 0 => android.window # 0
    BY <1>5
  <2>5. mode = "ingress" => worker'.at \notin {"heartbeat", "emit_failed"}
    BY <1>9 DEF RendererKnown
  <2> QED
    BY <1>1, <2>1, <2>2, <2>3, <2>4, <2>5 DEF RendererKnown
<1>11. (Underway' <=> Underway) /\ Belief' = Belief
  BY <1>1 DEF Underway, Belief, Newest
<1>12. ResumedKnown'
  <2>1. ~ Owes("RESUMED") /\ ~ Owes("PAUSED")
    BY <1>5 DEF Owes, OwesTwo, OwesThree
  <2> QED
    BY <1>1, <1>11, <2>1 DEF ResumedKnown
<1>13. WindowKnown'
  <2>1. \/ Owes("WINDOW_DESTROYED")'
        \/ /\ ~ Retiring /\ ~ Owes("WINDOW_DESTROYED")
           /\ ~ OwesTwo("WINDOW_CREATED", "build")
    BY <1>5 DEF Retiring, Owes, OwesTwo, OwesThree
  <2> QED
    BY <1>1, <1>11, <2>1 DEF WindowKnown
<1>14. ReadyKnown'
  <2>1. CASE Owes("build")
    <3>1. ~ Leaving /\ renderer'.window # 0
      BY <1>5, <2>1 DEF Leaving, Owes, OwesTwo, OwesThree
    <3> QED
      BY <1>4, <1>9, <1>11, <3>1 DEF ReadyKnown
  <2>2. CASE ~ Owes("build")
    BY <1>5, <2>2 DEF ReadyKnown, Leaving
  <2> QED
    BY <2>1, <2>2
<1> QED
  BY <1>6, <1>7, <1>10, <1>12, <1>13, <1>14

\* The worker could not be started: nothing was asked for, and what is owed is
\* at most the report of it.
LEMMA ScheduleFailsBelief ==
  ASSUME HostInv, BeliefInv, MainScheduleFails
  PROVE  BeliefInv'
<1> USE DEF BeliefInv
<1>1. /\ UNCHANGED <<android, renderer, worker, lifecycle, inbox, status, mode>>
      /\ main # <<>> /\ Head(main).do \in {"schedule", "force"}
      /\ Head(main).window # 0
      /\ main' = IF Head(main).do = "force"
                 THEN <<Emit("RENDERER_FAILED", Head(main).extent)>>
                 ELSE Tail(main)
  BY DEF MainScheduleFails, render_vars, service_vars
<1>2. /\ Len(main) \in Nat /\ Len(main) # 0
      /\ Head(main) = main[1] /\ main[1] \in Duties
      /\ Len(main) = 1 => Tail(main) = <<>>
  BY <1>1, DutyDone
<1>3. main[1].extent \in Sizes /\ Word(main[1]) = "build"
  BY <1>1, <1>2, WordFacts DEF Duties
<1>4. Owes("build") /\ android.window # 0
  BY <1>2, <1>3
  DEF DutiesKnown, Creating, Retiring, Owes, OwesTwo, OwesThree
<1>5. main' = <<>> \/ Owes("RENDERER_FAILED")'
  <2>1. Tail(main) = <<>>
    BY <1>2, <1>4 DEF Owes
  <2>2. PICK report : report = Emit("RENDERER_FAILED", main[1].extent)
    OBVIOUS
  <2>3. Word(report) = "RENDERER_FAILED"
    BY <1>3, <2>2, WordFacts DEF Events
  <2>4. main' = <<report>> \/ main' = <<>>
    BY <1>1, <1>2, <2>1, <2>2
  <2>5. main' = <<report>> => Len(main') = 1 /\ main'[1] = report
    OBVIOUS
  <2> QED
    BY <2>3, <2>4, <2>5 DEF Owes
<1>6. Len(main') = 0 \/ Owes("RENDERER_FAILED")'
  BY <1>5
<1>7. DutiesKnown'
  BY <1>1, <1>4, <1>5 DEF DutiesKnown
<1>8. SessionKnown'
  <2>1. ~ Creating /\ ~ Owes("NATIVE_BINDER_STATUS") /\ ~ Creating'
    BY <1>4, <1>6 DEF Creating, Owes, OwesTwo
  <2> QED
    BY <1>1, <2>1 DEF SessionKnown, Newest
<1>9. ~ Retiring /\ ~ Leaving /\ ~ Owes("RESUMED") /\ ~ Owes("PAUSED")
      /\ ~ Owes("WINDOW_DESTROYED") /\ ~ OwesTwo("WINDOW_CREATED", "build")
  BY <1>4 DEF Retiring, Leaving, Owes, OwesTwo
<1>10. RendererKnown'
  BY <1>1, <1>9 DEF RendererKnown
<1>11. (Underway' <=> Underway) /\ Belief' = Belief
  BY <1>1 DEF Underway, Belief, Newest
<1>12. ResumedKnown' /\ WindowKnown'
  BY <1>1, <1>9, <1>11 DEF ResumedKnown, WindowKnown
<1>13. ReadyKnown'
  BY <1>1, <1>9, <1>11 DEF ReadyKnown
<1> QED
  BY <1>7, <1>8, <1>10, <1>12, <1>13

\* The check whether the renderer is kept; without a game it never is.
LEMMA RetainBelief ==
  ASSUME HostInv, BeliefInv, MainChecksRetained
  PROVE  BeliefInv'
<1> USE DEF BeliefInv
<1>1. /\ UNCHANGED <<android, renderer, worker, lifecycle, inbox, status, mode>>
      /\ main # <<>> /\ Head(main).do = "retain"
      /\ main' = IF mode = "retain" /\ ~ transport.ring THEN Tail(main)
                 ELSE <<Schedule(0, TRUE)>> \o Tail(main)
  BY DEF MainChecksRetained, render_vars, service_vars
<1>2. /\ Len(main) \in Nat /\ Len(main) # 0
      /\ Head(main) = main[1] /\ main[1] \in Duties
      /\ Len(Tail(main)) = Len(main) - 1
      /\ Len(main) = 2 => Tail(main)[1] = main[2]
      /\ Tail(main) \in Seq(Duties)
  BY <1>1, DutyDone, HeadDuty
<1>3. Word(main[1]) = "retain"
  BY <1>1, <1>2, WordFacts
<1>4. OwesTwo("retain", "WINDOW_DESTROYED") /\ android.window = 0
  BY <1>2, <1>3 DEF DutiesKnown, Creating, Retiring, Owes, OwesTwo, OwesThree
<1>5. \/ mode = "retain" /\ Owes("WINDOW_DESTROYED")'
      \/ OwesTwo("drop", "WINDOW_DESTROYED")'
  <2>0. /\ Len(main) = 2 /\ Word(main[2]) = "WINDOW_DESTROYED"
        /\ Len(Tail(main)) = 1 /\ Tail(main)[1] = main[2]
    BY <1>2, <1>4 DEF OwesTwo
  <2>1. CASE mode = "retain" /\ ~ transport.ring
    <3>1. main' = Tail(main)
      BY <1>1, <2>1
    <3> QED
      BY <2>0, <2>1, <3>1 DEF Owes
  <2>2. CASE ~ (mode = "retain" /\ ~ transport.ring)
    <3> DEFINE first == Schedule(0, TRUE)
               rest == Tail(main)
    <3>1. first \in Duties /\ Word(first) = "drop"
      BY DutyFacts, WordFacts
    <3>2. rest \in Seq(Duties) /\ Len(rest) = 1 /\ rest[1] = main[2]
      BY <1>2, <2>0
    <3>3. main' = <<first>> \o rest
      BY <1>1, <2>2
    <3> HIDE DEF first, rest
    <3>4. /\ <<first>> \in Seq(Duties) /\ Len(<<first>>) = 1
          /\ <<first>>[1] = first
      BY <3>1
    <3>5. /\ Len(main') = 1 + 1
          /\ \A n \in 1 .. 1 + 1 :
               main'[n] = IF n <= 1 THEN <<first>>[n] ELSE rest[n - 1]
      BY <3>2, <3>3, <3>4, ConcatProperties
    <3>6. /\ Len(main') = 2 /\ main'[1] = first /\ main'[2] = rest[1]
      BY <3>4, <3>5
    <3> QED
      BY <2>0, <3>1, <3>2, <3>6 DEF OwesTwo
  <2> QED
    BY <2>1, <2>2
<1>6. DutiesKnown'
  BY <1>1, <1>4, <1>5 DEF DutiesKnown, Retiring
<1>7. SessionKnown'
  <2>1. ~ Creating /\ ~ Owes("NATIVE_BINDER_STATUS") /\ ~ Creating'
    BY <1>4, <1>5 DEF Creating, Owes, OwesTwo
  <2> QED
    BY <1>1, <2>1 DEF SessionKnown, Newest
<1>8. RendererKnown'
  BY <1>1, <1>5 DEF RendererKnown, Retiring
<1>9. (Underway' <=> Underway) /\ Belief' = Belief
  BY <1>1 DEF Underway, Belief, Newest
<1>10. ResumedKnown'
  <2>1. ~ Owes("RESUMED") /\ ~ Owes("PAUSED")
    BY <1>4 DEF Owes, OwesTwo
  <2> QED
    BY <1>1, <1>9, <2>1 DEF ResumedKnown
<1>11. WindowKnown'
  BY <1>5 DEF WindowKnown, Retiring
<1>12. ReadyKnown'
  <2>1. ~ Leaving
    BY <1>4 DEF Leaving, Owes, OwesTwo
  <2> QED
    BY <1>1, <1>9, <2>1 DEF ReadyKnown
<1> QED
  BY <1>6, <1>7, <1>8, <1>10, <1>11, <1>12

\* The reporting ends with the Activity.
LEMMA DisableBelief ==
  ASSUME HostInv, BeliefInv, disable_lifecycle
  PROVE  BeliefInv'
<1> USE DEF BeliefInv
<1>1. /\ UNCHANGED <<android, renderer, worker, inbox, status, mode>>
      /\ main # <<>> /\ main' = Tail(main) /\ Head(main).do = "disable"
      /\ lifecycle' = [configured |-> FALSE, next |-> 1, sender |-> "none"]
  BY DEF disable_lifecycle, render_vars, service_vars
<1>2. /\ Len(main) \in Nat /\ Len(main) # 0
      /\ Head(main) = main[1] /\ main[1] \in Duties
      /\ Len(main) = 1 => main' = <<>>
  BY <1>1, DutyDone
<1>3. Word(main[1]) = "disable"
  BY <1>1, <1>2, WordFacts
<1>4. Owes("disable")
  BY <1>2, <1>3 DEF DutiesKnown, Creating, Retiring, Owes, OwesTwo, OwesThree
<1>5. main' = <<>>
  BY <1>2, <1>4 DEF Owes
<1>6. /\ ~ lifecycle'.configured /\ lifecycle'.next = 1
      /\ lifecycle'.sender = "none"
  BY <1>1
<1>7. ~ Underway'
  BY <1>6 DEF Underway
<1>8. DutiesKnown'
  BY <1>1, <1>5 DEF DutiesKnown
<1>9. SessionKnown'
  BY <1>1, <1>6 DEF SessionKnown
<1>10. RendererKnown'
  <2>1. ~ Retiring
    BY <1>4 DEF Retiring, Owes, OwesTwo
  <2> QED
    BY <1>1, <1>6, <2>1 DEF RendererKnown
<1> QED
  BY <1>7, <1>8, <1>9, <1>10 DEF ResumedKnown, WindowKnown, ReadyKnown

\* A callback starts when nothing is left of the one before; what it changes
\* it owes.
LEMMA CallbackBelief ==
  ASSUME HostInv, BeliefInv, main = <<>>,
         UNCHANGED <<renderer, worker, lifecycle, inbox, status, mode>>,
         DutiesKnown', ~ Creating',
         \/ (android.phase = "resumed") <=> (android'.phase = "resumed")
         \/ Owes("RESUMED")' \/ Owes("PAUSED")',
         android.window # 0 => android'.window # 0 \/ Retiring',
         android'.window # 0 =>
           android.window # 0 \/ OwesTwo("WINDOW_CREATED", "build")'
  PROVE  BeliefInv'
<1> USE DEF BeliefInv
<1>1. /\ ~ Creating /\ ~ Retiring /\ ~ Leaving /\ ~ Owes("NATIVE_BINDER_STATUS")
      /\ ~ Owes("RESUMED") /\ ~ Owes("PAUSED") /\ ~ Owes("WINDOW_DESTROYED")
      /\ ~ OwesTwo("WINDOW_CREATED", "build")
  <2>1. Len(main) = 0
    BY NothingOwed
  <2> QED
    BY <2>1 DEF Creating, Retiring, Leaving, Owes, OwesTwo
<1>2. SessionKnown'
  BY <1>1 DEF SessionKnown, Newest
<1>3. RendererKnown'
  BY <1>1 DEF RendererKnown
<1>4. (Underway' <=> Underway) /\ Belief' = Belief
  BY DEF Underway, Belief, Newest
<1>5. ResumedKnown'
  BY <1>1, <1>4 DEF ResumedKnown
<1>6. WindowKnown'
  BY <1>1, <1>4 DEF WindowKnown
<1>7. ReadyKnown'
  BY <1>1, <1>4 DEF ReadyKnown
<1> QED
  BY <1>2, <1>3, <1>5, <1>6, <1>7

\* What a callback leaves owed, by the number of its duties.
LEMMA OwedFacts ==
  /\ \A a : main' = <<a>> => Owes(Word(a))' /\ Len(main') = 1
  /\ \A a, b : main' = <<a, b>> => OwesTwo(Word(a), Word(b))' /\ Len(main') = 2
  /\ \A a, b, c : main' = <<a, b, c>> =>
       OwesThree(Word(a), Word(b), Word(c))' /\ Len(main') = 3
<1>1. ASSUME NEW a, main' = <<a>> PROVE Owes(Word(a))' /\ Len(main') = 1
  <2>1. Len(main') = 1 /\ main'[1] = a
    BY <1>1
  <2> QED
    BY <2>1 DEF Owes
<1>2. ASSUME NEW a, NEW b, main' = <<a, b>>
      PROVE  OwesTwo(Word(a), Word(b))' /\ Len(main') = 2
  <2>1. Len(main') = 2 /\ main'[1] = a /\ main'[2] = b
    BY <1>2
  <2> QED
    BY <2>1 DEF OwesTwo
<1>3. ASSUME NEW a, NEW b, NEW c, main' = <<a, b, c>>
      PROVE  OwesThree(Word(a), Word(b), Word(c))' /\ Len(main') = 3
  <2>1. Len(main') = 3 /\ main'[1] = a /\ main'[2] = b /\ main'[3] = c
    BY <1>3
  <2> QED
    BY <2>1 DEF OwesThree
<1> QED
  BY <1>1, <1>2, <1>3

\* The callbacks of the Activity's own life and of the focus owe one event,
\* the last one its whole farewell.
LEMMA PhaseBelief ==
  ASSUME HostInv, BeliefInv,
         \/ on_start \/ on_resume \/ on_pause \/ on_stop \/ on_destroy
         \/ on_window_focus_changed
  PROVE  BeliefInv'
<1>1. /\ main = <<>>
      /\ UNCHANGED <<renderer, worker, lifecycle, inbox, status, mode>>
  BY DEF on_start, on_resume, on_pause, on_stop, on_destroy,
         on_window_focus_changed, Callback, render_vars, service_vars
<1>2. /\ android \in Lives
      /\ android.phase \in {"none", "created", "destroyed"} => android.window = 0
  BY DEF HostInv, ActivityTypes, BeliefInv, DutiesKnown
<1>3. android'.window = android.window
  BY <1>2 DEF on_start, on_resume, on_pause, on_stop, on_destroy,
         on_window_focus_changed, Callback, Lives
<1>4. Len(main') = 1 => ~ Creating'
  BY DEF Creating, OwesTwo
<1>5. \A event \in Events : Word(Emit(event, 0)) = event
  BY WordFacts DEF Sizes
<1>6. CASE on_start
  <2>1. /\ main' = <<Emit("STARTED", 0)>> /\ android'.phase = "started"
        /\ android.phase \in {"created", "stopped"}
    BY <1>2, <1>6 DEF on_start, Callback, Lives
  <2>2. Owes("STARTED")' /\ Len(main') = 1
    BY <1>5, <2>1, OwedFacts DEF Events
  <2>3. DutiesKnown'
    BY <2>1, <2>2 DEF DutiesKnown
  <2> QED
    BY <1>1, <1>3, <1>4, <2>1, <2>2, <2>3, CallbackBelief
<1>7. CASE on_resume
  <2>1. /\ main' = <<Emit("RESUMED", 0)>> /\ android'.phase = "resumed"
    BY <1>2, <1>7 DEF on_resume, Callback, Lives
  <2>2. Owes("RESUMED")' /\ Len(main') = 1
    BY <1>5, <2>1, OwedFacts DEF Events
  <2>3. DutiesKnown'
    BY <2>1, <2>2 DEF DutiesKnown
  <2> QED
    BY <1>1, <1>3, <1>4, <2>1, <2>2, <2>3, CallbackBelief
<1>8. CASE on_pause
  <2>1. /\ main' = <<Emit("PAUSED", 0)>> /\ android'.phase = "paused"
    BY <1>2, <1>8 DEF on_pause, Callback, Lives
  <2>2. Owes("PAUSED")' /\ Len(main') = 1
    BY <1>5, <2>1, OwedFacts DEF Events
  <2>3. DutiesKnown'
    BY <2>1, <2>2 DEF DutiesKnown
  <2> QED
    BY <1>1, <1>3, <1>4, <2>1, <2>2, <2>3, CallbackBelief
<1>9. CASE on_stop
  <2>1. /\ main' = <<Emit("STOPPED", 0)>> /\ android'.phase = "stopped"
        /\ android.phase = "paused"
    BY <1>2, <1>9 DEF on_stop, Callback, Lives
  <2>2. Owes("STOPPED")' /\ Len(main') = 1
    BY <1>5, <2>1, OwedFacts DEF Events
  <2>3. DutiesKnown'
    BY <2>1, <2>2 DEF DutiesKnown
  <2> QED
    BY <1>1, <1>3, <1>4, <2>1, <2>2, <2>3, CallbackBelief
<1>10. CASE on_destroy
  <2>1. /\ main' = <<Schedule(0, TRUE), Emit("DESTROYED", 0), Disable>>
        /\ android'.phase = "destroyed" /\ android.phase = "stopped"
        /\ android.window = 0
    BY <1>2, <1>10 DEF on_destroy, Callback, Lives
  <2>2. /\ Word(Schedule(0, TRUE)) = "drop" /\ Word(Disable) = "disable"
        /\ Word(Emit("DESTROYED", 0)) = "DESTROYED"
    BY <1>5, WordFacts DEF Events
  <2>3. OwesThree("drop", "DESTROYED", "disable")' /\ Len(main') = 3
    BY <2>1, <2>2, OwedFacts
  <2>4. DutiesKnown' /\ ~ Creating'
    BY <1>3, <2>1, <2>3 DEF DutiesKnown, Creating, OwesTwo
  <2> QED
    BY <1>1, <1>3, <2>1, <2>4, CallbackBelief
<1>11. CASE on_window_focus_changed
  <2>1. PICK event \in {"FOCUS_GAINED", "FOCUS_LOST"} :
          Callback(android, flags, <<Emit(event, 0)>>)
    BY <1>11 DEF on_window_focus_changed
  <2>2. main' = <<Emit(event, 0)>> /\ android'.phase = android.phase
    BY <1>2, <2>1 DEF Callback, Lives
  <2>3. Owes(event)' /\ Len(main') = 1
    BY <1>5, <2>2, OwedFacts DEF Events
  <2>4. DutiesKnown'
    BY <1>2, <1>3, <2>2, <2>3 DEF DutiesKnown
  <2> QED
    BY <1>1, <1>3, <1>4, <2>2, <2>4, CallbackBelief
<1> QED
  BY <1>6, <1>7, <1>8, <1>9, <1>10, <1>11

\* The callbacks of the window: it comes with a report and a request, and goes
\* with a request and a report.
LEMMA WindowBelief ==
  ASSUME HostInv, BeliefInv,
         \/ on_window_created \/ on_window_resized \/ on_window_redraw_needed
         \/ on_window_destroyed
  PROVE  BeliefInv'
<1>1. /\ main = <<>>
      /\ UNCHANGED <<renderer, worker, lifecycle, inbox, status, mode>>
  BY DEF on_window_created, on_window_resized, on_window_redraw_needed,
         on_window_destroyed, Callback, render_vars, service_vars
<1>2. /\ android \in Lives
      /\ android.phase \in {"none", "created", "destroyed"} => android.window = 0
  BY DEF HostInv, ActivityTypes, BeliefInv, DutiesKnown
<1>3. android'.phase = android.phase
  BY <1>2 DEF on_window_created, on_window_resized, on_window_redraw_needed,
         on_window_destroyed, Callback, Lives
<1>4. CASE on_window_created
  <2> DEFINE new == android.windows + 1
  <2>1. /\ android.phase \in {"started", "resumed", "paused"}
        /\ main' = <<Emit("WINDOW_CREATED", android.extent), Schedule(new, TRUE)>>
        /\ android'.window = new
    BY <1>2, <1>4 DEF on_window_created, Callback, Lives
  <2>2. new \in Nat /\ new # 0 /\ android.extent \in Sizes
    BY <1>2 DEF Lives, Sizes, Extents
  <2> HIDE DEF new
  <2>3. /\ Word(Emit("WINDOW_CREATED", android.extent)) = "WINDOW_CREATED"
        /\ Word(Schedule(new, TRUE)) = "build"
    <3>1. "WINDOW_CREATED" \in Events
      BY DEF Events
    <3>2. Word(Emit("WINDOW_CREATED", android.extent)) = "WINDOW_CREATED"
      BY <2>2, <3>1, WordFacts, ZenonT(40)
    <3>3. Word(Schedule(new, TRUE)) = IF new = 0 THEN "drop" ELSE "build"
      BY <2>2, WordFacts, ZenonT(40)
    <3> QED
      BY <2>2, <3>2, <3>3
  <2>4. OwesTwo("WINDOW_CREATED", "build")'
    BY <2>1, <2>3, OwedFacts
  <2>5. DutiesKnown' /\ ~ Creating'
    BY <1>3, <2>1, <2>2, <2>4 DEF DutiesKnown, Creating, OwesTwo
  <2> QED
    BY <1>1, <1>3, <2>1, <2>2, <2>4, <2>5, CallbackBelief
<1>5. CASE on_window_resized \/ on_window_redraw_needed
  <2>1. \E duty : /\ main' = <<duty>> /\ duty.do = "schedule"
                  /\ duty.window = android.window /\ android.window # 0
                  /\ android'.window = android.window
    <3>1. CASE on_window_resized
      <4>1. PICK extent \in Extents :
              /\ main' = <<[Schedule(android.window, FALSE)
                              EXCEPT !.extent = extent]>>
              /\ android' = [[android EXCEPT !.extent = extent]
                               EXCEPT !.calls = @ + 1]
        BY <3>1 DEF on_window_resized, Callback
      <4>2. android.window # 0
        BY <3>1 DEF on_window_resized
      <4> QED
        BY <1>2, <4>1, <4>2 DEF Schedule, Lives
    <3>2. CASE on_window_redraw_needed
      BY <1>2, <3>2 DEF on_window_redraw_needed, Callback, Schedule, Lives
    <3> QED
      BY <1>5, <3>1, <3>2
  <2>2. PICK duty : /\ main' = <<duty>> /\ duty.do = "schedule"
                    /\ duty.window = android.window /\ android.window # 0
                    /\ android'.window = android.window
    BY <2>1
  <2>3. Word(duty) = "build"
    BY <2>2 DEF Word
  <2>4. Owes("build")' /\ Len(main') = 1
    BY <2>2, <2>3, OwedFacts
  <2>5. DutiesKnown' /\ ~ Creating'
    BY <1>2, <1>3, <2>2, <2>4 DEF DutiesKnown, Creating, OwesTwo
  <2> QED
    BY <1>1, <1>3, <2>2, <2>5, CallbackBelief
<1>6. CASE on_window_destroyed
  <2>1. /\ main' = <<Check, Emit("WINDOW_DESTROYED", 0)>>
        /\ android'.window = 0
    BY <1>2, <1>6 DEF on_window_destroyed, Callback, Lives
  <2>2. /\ Word(Check) = "retain"
        /\ Word(Emit("WINDOW_DESTROYED", 0)) = "WINDOW_DESTROYED"
    BY WordFacts DEF Events, Sizes
  <2>3. OwesTwo("retain", "WINDOW_DESTROYED")'
    BY <2>1, <2>2, OwedFacts
  <2>4. DutiesKnown' /\ ~ Creating' /\ Retiring'
    BY <2>1, <2>3 DEF DutiesKnown, Creating, Retiring, OwesTwo
  <2> QED
    BY <1>1, <1>3, <2>1, <2>4, CallbackBelief
<1> QED
  BY <1>4, <1>5, <1>6

\* A new Activity starts a new session, whose first record it owes.
LEMMA CreateBelief ==
  ASSUME HostInv, BeliefInv, ANativeActivity_onCreate
  PROVE  BeliefInv'
<1> USE DEF BeliefInv
<1>1. /\ UNCHANGED <<renderer, worker, inbox, status, mode>>
      /\ main = <<>> /\ lifecycle.sender = "none"
      /\ android.phase \in {"none", "destroyed"}
      /\ lifecycle' = [configured |-> TRUE, next |-> 1, sender |-> "none"]
      /\ main' = <<Emit("CREATED", 0), Emit("NATIVE_BINDER_STATUS", 0)>>
  BY DEF ANativeActivity_onCreate, render_vars, service_vars
<1>2. /\ android'.phase = "created" /\ android'.window = android.window
      /\ android.window = 0
  BY <1>1 DEF ANativeActivity_onCreate, HostInv, ActivityTypes, Lives,
              DutiesKnown
<1>3. Creating'
  <2>1. /\ Word(Emit("CREATED", 0)) = "CREATED"
        /\ Word(Emit("NATIVE_BINDER_STATUS", 0)) = "NATIVE_BINDER_STATUS"
    BY WordFacts DEF Events, Sizes
  <2> QED
    BY <1>1, <2>1, OwedFacts DEF Creating
<1>4. DutiesKnown'
  BY <1>2, <1>3 DEF DutiesKnown
<1>5. /\ lifecycle'.configured /\ lifecycle'.next = 1
      /\ lifecycle'.sender = "none"
  BY <1>1
<1>6. SessionKnown'
  BY <1>1, <1>3, <1>5 DEF SessionKnown
<1>7. RendererKnown'
  <2>1. ~ Retiring
    <3>1. Len(main) = 0
      BY <1>1, NothingOwed
    <3> QED
      BY <3>1 DEF Retiring, OwesTwo
  <2> QED
    BY <1>1, <1>2, <1>5, <2>1 DEF RendererKnown
<1>8. ~ Underway'
  BY <1>5 DEF Underway
<1> QED
  BY <1>4, <1>6, <1>7, <1>8 DEF ResumedKnown, WindowKnown, ReadyKnown

\* The records that are left when the service has handled one, or one is lost:
\* none has the sequence number 0, and what somebody waits for is still last.
LEMMA HandleBelief ==
  ASSUME HostInv, BeliefInv, handle_activity_connection
  PROVE  BeliefInv'
<1> USE DEF BeliefInv, activity_vars, render_vars
<1> DEFINE record == Head(inbox)
           accepted == record_is_valid(record) /\ InOrder(record)
<1>1. /\ UNCHANGED <<mode, android, renderer, main, worker>>
      /\ inbox # <<>> /\ inbox' = Tail(inbox)
      /\ status' = IF accepted THEN apply_lifecycle_event(record) ELSE status
      /\ IF record.awaited THEN Hears(accepted) ELSE UNCHANGED lifecycle
  BY DEF handle_activity_connection
<1>2. /\ inbox \in Seq(Records) /\ status \in Copies
      /\ lifecycle \in [configured : BOOLEAN, next : Nat,
                        sender : {"none", "main", "worker"}]
  BY DEF HostInv, ServiceTypes
<1>3. /\ Len(inbox) \in Nat /\ Len(inbox) # 0 /\ DOMAIN inbox = 1 .. Len(inbox)
      /\ record = inbox[1] /\ record \in Records
      /\ inbox' \in Seq(Records) /\ Len(inbox') = Len(inbox) - 1
      /\ \A n \in 1 .. Len(inbox) - 1 : inbox'[n] = inbox[n + 1]
  BY <1>1, <1>2, HeadTailProperties, LenProperties, EmptySeq
<1>4. DOMAIN inbox' = 1 .. Len(inbox) - 1
  BY <1>3, LenProperties
<1>5. accepted \in BOOLEAN
  BY DEF record_is_valid, InOrder
<1>6. /\ record.sequence # 0 /\ record.sequence \in Nat
      /\ record.event \in Events
      /\ record.awaited <=> (lifecycle.sender # "none" /\ Len(inbox) = 1)
  <2>1. 1 \in DOMAIN inbox
    BY <1>3
  <2>2. record.sequence \in Nat /\ record.event \in Events
    BY <1>3 DEF Records
  <2>3. record.sequence # 0
    BY <1>3, <2>1 DEF SessionKnown
  <2>4. inbox[1].awaited <=> (lifecycle.sender # "none" /\ 1 = Len(inbox))
    BY <2>1 DEF HostInv, LastIsAwaited
  <2> QED
    BY <1>3, <2>2, <2>3, <2>4
<1>7. /\ accepted => /\ status'.flags = StateFlags(status.flags, record)
                     /\ status'.last = record.sequence
      /\ ~ accepted => status' = status
      /\ accepted /\ record.event # "CREATED" =>
           status.count # 0 /\ record.sequence > status.last
  BY <1>1 DEF apply_lifecycle_event, InOrder
<1> HIDE DEF accepted, record
<1>8. DutiesKnown' /\ (Creating' <=> Creating) /\ (Retiring' <=> Retiring)
      /\ (Owes("NATIVE_BINDER_STATUS")' <=> Owes("NATIVE_BINDER_STATUS"))
  BY <1>1 DEF DutiesKnown, Creating, Retiring, Owes, OwesTwo, OwesThree
<1>9. \A n \in DOMAIN inbox' : inbox'[n].sequence # 0
  <2>1. ASSUME NEW n \in DOMAIN inbox' PROVE inbox'[n].sequence # 0
    <3>1. n + 1 \in DOMAIN inbox /\ inbox'[n] = inbox[n + 1]
      BY <1>3, <1>4
    <3> QED
      BY <3>1 DEF SessionKnown
  <2> QED
    BY <2>1
<1>10. status'.count # 0 => status'.last # 0
  BY <1>6, <1>7 DEF SessionKnown
<1>11. CASE ~ record.awaited
  <2>1. lifecycle' = lifecycle
    BY <1>1, <1>11
  <2>2. lifecycle.sender # "none" => Len(inbox) # 1
    BY <1>6, <1>11
  <2>3. ~ Underway
    <3> SUFFICES ASSUME Underway PROVE FALSE
      OBVIOUS
    <3>1. IF lifecycle.sender = "none" THEN inbox = <<>> ELSE Len(inbox) = 1
      BY DEF SessionKnown, Underway
    <3> QED
      BY <1>1, <2>2, <3>1
  <2>4. lifecycle.sender # "none" => Newest' = Newest
    <3> SUFFICES ASSUME lifecycle.sender # "none" PROVE Newest' = Newest
      OBVIOUS
    <3>1. PICK k \in Nat : k = Len(inbox) - 1
      <4>1. Len(inbox) - 1 \in Nat
        BY <1>3
      <4> QED
        BY <4>1, Zenon
    <3>2. k \in 1 .. Len(inbox) - 1 /\ k + 1 = Len(inbox) /\ Len(inbox') = k
      BY <1>3, <2>2, <3>1
    <3>3. inbox'[k] = inbox[k + 1]
      BY <1>3, <3>2
    <3> QED
      BY <3>2, <3>3 DEF Newest
  <2>5. SessionKnown'
    BY <1>8, <1>9, <1>10, <2>1, <2>3, <2>4 DEF SessionKnown, Underway
  <2>6. RendererKnown'
    BY <1>1, <1>8, <2>1 DEF RendererKnown
  <2>7. ~ Underway'
    BY <2>1, <2>3 DEF Underway
  <2> QED
    BY <1>8, <2>5, <2>6, <2>7 DEF ResumedKnown, WindowKnown, ReadyKnown
<1>12. CASE record.awaited
  <2>1. /\ lifecycle.sender # "none" /\ Len(inbox) = 1 /\ Newest = record
    BY <1>3, <1>6, <1>12 DEF Newest
  <2>2. /\ lifecycle'.sender = "none"
        /\ accepted => lifecycle'.configured /\ lifecycle'.next = lifecycle.next + 1
        /\ ~ accepted => ~ lifecycle'.configured /\ lifecycle'.next = lifecycle.next
    <3>1. lifecycle' = [configured |-> accepted,
                        next |-> IF accepted THEN lifecycle.next + 1
                                 ELSE lifecycle.next,
                        sender |-> "none"]
      BY <1>1, <1>2, <1>5, <1>12 DEF Hears
    <3> QED
      BY <1>5, <3>1
  <2>3. inbox' = <<>>
    <3>1. Len(inbox') = 0
      BY <1>3, <2>1
    <3> QED
      BY <1>3, <3>1, EmptySeq, Zenon
  <2>4. RendererKnown'
    BY <1>1, <1>8, <2>2 DEF RendererKnown
  <2>5. CASE ~ accepted
    <3>1. ~ Underway'
      BY <2>2, <2>5 DEF Underway
    <3>2. SessionKnown'
      BY <1>9, <1>10, <2>2, <2>5 DEF SessionKnown
    <3> QED
      BY <1>8, <2>4, <3>1, <3>2 DEF ResumedKnown, WindowKnown, ReadyKnown
  <2>6. CASE accepted /\ Underway
    <3>1. lifecycle.next # 0 /\ lifecycle.next # 1 /\ ~ Creating
      BY <2>6 DEF Underway, SessionKnown
    <3>2. lifecycle'.next # 1 /\ lifecycle'.next # 0
      BY <1>2, <2>2, <2>6, <3>1
    <3>3. SessionKnown'
      BY <1>8, <1>9, <1>10, <2>2, <2>3, <2>6, <3>1, <3>2 DEF SessionKnown
    <3>4. Belief' = Belief
      BY <1>7, <2>1, <2>2, <2>6 DEF Belief
    <3>5. ResumedKnown' /\ WindowKnown' /\ ReadyKnown'
      BY <1>1, <1>8, <2>6, <3>4
      DEF ResumedKnown, WindowKnown, ReadyKnown, Leaving, Owes, OwesTwo
    <3> QED
      BY <1>8, <2>4, <3>3, <3>5
  <2>7. CASE accepted /\ ~ Underway
    <3>1. /\ lifecycle.configured /\ lifecycle.next = 1
      BY <2>1, <2>7 DEF SessionKnown, Underway
    <3>2. /\ record.sequence = 1
          /\ \/ Creating /\ record.event # "CREATED"
             \/ Owes("NATIVE_BINDER_STATUS") /\ record.event = "CREATED"
      BY <1>2, <2>1, <3>1 DEF SessionKnown
    <3>3. record.event = "CREATED" /\ Owes("NATIVE_BINDER_STATUS")
      <4>1. status.last \in Nat /\ (status.count # 0 => status.last # 0)
        BY <1>2 DEF Copies, SessionKnown
      <4>2. CASE record.event # "CREATED"
        BY <1>7, <2>7, <3>2, <4>1, <4>2
      <4> QED
        BY <3>2, <4>2
    <3>4. ~ Creating
      BY <3>3 DEF Owes, Creating, OwesTwo
    <3>5. lifecycle'.next = 2
      BY <2>2, <2>7, <3>1
    <3>6. SessionKnown'
      BY <1>8, <1>9, <1>10, <2>2, <2>3, <2>7, <3>4, <3>5 DEF SessionKnown
    <3>7. android.phase = "created" /\ android.window = 0
      BY <3>3 DEF DutiesKnown, Creating, Retiring, Owes, OwesTwo, OwesThree
    <3>8. /\ "RESUMED" \notin Belief' /\ "WINDOW" \notin Belief'
          /\ "READY" \notin Belief'
      <4>1. Belief' = StateFlags(status.flags, record)
        BY <1>7, <2>2, <2>7 DEF Belief
      <4> QED
        BY <3>3, <4>1, FlagEffects
    <3>9. ResumedKnown' /\ WindowKnown' /\ ReadyKnown'
      BY <1>1, <3>7, <3>8 DEF ResumedKnown, WindowKnown, ReadyKnown
    <3> QED
      BY <1>8, <2>4, <3>6, <3>9
  <2> QED
    BY <2>5, <2>6, <2>7
<1> QED
  BY <1>11, <1>12

\* A report that fails ends the reporting: nothing is claimed any more.
LEMMA EmitFailsBelief ==
  ASSUME HostInv, BeliefInv, EmitFails
  PROVE  BeliefInv'
<1> USE DEF BeliefInv, activity_vars, render_vars
<1>1. /\ UNCHANGED <<mode, android, renderer, main, worker, status>>
      /\ lifecycle.sender # "none" /\ Hears(FALSE)
      /\ \/ inbox' = [inbox EXCEPT ![Len(inbox)].awaited = FALSE]
         \/ inbox' = SubSeq(inbox, 1, Len(inbox) - 1)
  BY DEF EmitFails
<1>2. /\ inbox \in Seq(Records)
      /\ lifecycle \in [configured : BOOLEAN, next : Nat,
                        sender : {"none", "main", "worker"}]
  BY DEF HostInv, ServiceTypes
<1>3. /\ lifecycle'.sender = "none" /\ ~ lifecycle'.configured
      /\ lifecycle'.next = lifecycle.next
  BY <1>1, <1>2 DEF Hears
<1>4. /\ Len(inbox) \in Nat /\ DOMAIN inbox = 1 .. Len(inbox)
      /\ \A n \in 1 .. Len(inbox) : inbox[n] \in Records
      /\ \A n \in 1 .. Len(inbox) : inbox[n].sequence # 0
      /\ Len(inbox) # 0
  <2>1. Len(inbox) \in Nat /\ DOMAIN inbox = 1 .. Len(inbox) /\ Len(inbox) # 0
    BY <1>1, <1>2, LenProperties, EmptySeq DEF HostInv, LastIsAwaited
  <2>2. \A n \in 1 .. Len(inbox) : inbox[n] \in Records
    BY <1>2, ElementOfSeq
  <2> QED
    BY <2>1, <2>2 DEF SessionKnown
<1>5. \A n \in DOMAIN inbox' : inbox'[n].sequence # 0
  <2>1. CASE inbox' = [inbox EXCEPT ![Len(inbox)].awaited = FALSE]
    <3>1. PICK k \in 1 .. Len(inbox) : k = Len(inbox)
      <4>1. Len(inbox) \in 1 .. Len(inbox)
        BY <1>4
      <4> QED
        BY <4>1, Zenon
    <3>2. PICK last : last = [inbox[k] EXCEPT !.awaited = FALSE]
      OBVIOUS
    <3>3. last.sequence = inbox[k].sequence
      BY <1>4, <3>1, <3>2 DEF Records
    <3>4. inbox' = [inbox EXCEPT ![k] = last]
      BY <2>1, <3>1, <3>2
    <3>5. /\ DOMAIN inbox' = 1 .. Len(inbox) /\ inbox'[k] = last
          /\ \A n \in 1 .. Len(inbox) : n # k => inbox'[n] = inbox[n]
      BY <1>4, <3>4
    <3> QED
      BY <1>4, <3>1, <3>3, <3>5
  <2>2. CASE inbox' = SubSeq(inbox, 1, Len(inbox) - 1)
    <3>1. /\ inbox' \in Seq(Records) /\ Len(inbox') = Len(inbox) - 1
          /\ \A n \in 1 .. Len(inbox) - 1 : inbox'[n] = inbox[n]
      BY <1>2, <1>4, <2>2
    <3>2. DOMAIN inbox' = 1 .. Len(inbox) - 1
      BY <3>1, LenProperties
    <3> QED
      BY <1>4, <3>1, <3>2
  <2> QED
    BY <1>1, <2>1, <2>2
<1>6. DutiesKnown' /\ (Retiring' <=> Retiring)
  BY <1>1 DEF DutiesKnown, Creating, Retiring, Owes, OwesTwo, OwesThree
<1>7. SessionKnown'
  BY <1>1, <1>3, <1>5 DEF SessionKnown
<1>8. RendererKnown'
  BY <1>1, <1>3, <1>6 DEF RendererKnown
<1>9. ~ Underway'
  BY <1>3 DEF Underway
<1> QED
  BY <1>6, <1>7, <1>8, <1>9 DEF ResumedKnown, WindowKnown, ReadyKnown

\* Every step keeps the invariant.
LEMMA BeliefInvStep == HostInv /\ BeliefInv /\ [Next]_vars => BeliefInv'
<1> SUFFICES ASSUME HostInv, BeliefInv, [Next]_vars PROVE BeliefInv'
  OBVIOUS
<1>1. CASE \/ ANativeActivity_onCreate \/ on_start \/ on_resume \/ on_pause
           \/ on_stop \/ on_destroy \/ on_window_created \/ on_window_resized
           \/ on_window_redraw_needed \/ on_window_destroyed
           \/ on_window_focus_changed
  BY <1>1, CreateBelief, PhaseBelief, WindowBelief
<1>2. CASE MainStep
  BY <1>2, MainEmitsBelief, MainSchedulesBelief, ScheduleFailsBelief,
     RetainBelief, DisableBelief
  DEF MainStep
<1>3. CASE WorkerStep
  BY <1>3, WorkerUnheard, PublishBelief, WorkerEmitsBelief, HeartbeatBelief
  DEF WorkerStep
<1>4. CASE handle_activity_connection \/ EmitFails
  BY <1>4, HandleBelief, EmitFailsBelief
<1>5. CASE \/ ConsumerStep \/ import_game_frame_transport
           \/ start_connection_worker \/ answer_vulkan_swapchain_prepare
           \/ serve_connection_ends \/ UNCHANGED vars
  BY <1>5, OthersUnheard
<1> QED
  BY <1>1, <1>2, <1>3, <1>4, <1>5 DEF Next

\* When everything is reported, the belief is the status and nothing is owed.
LEMMA BeliefInvImplies == HostInv /\ BeliefInv => StatusIsTruthful
<1> SUFFICES ASSUME HostInv, BeliefInv, Reported PROVE
      /\ "READY" \in status.flags =>
           renderer.ready \/ renderer.completed # renderer.requested
      /\ ("RESUMED" \in status.flags) = (android.phase = "resumed")
      /\ mode = "ingress" => ("WINDOW" \in status.flags) = (android.window # 0)
  BY DEF StatusIsTruthful
<1>1. /\ lifecycle.configured /\ lifecycle.sender = "none" /\ main = <<>>
      /\ worker.at \notin {"emit", "emit_failed"}
  BY DEF Reported
<1>2. \A word, second : ~ Owes(word) /\ ~ OwesTwo(word, second)
  <2>1. Len(main) = 0
    BY <1>1, NothingOwed
  <2> QED
    BY <2>1 DEF Owes, OwesTwo
<1>3. Underway
  BY <1>1, <1>2 DEF BeliefInv, SessionKnown, Creating, Underway
<1>4. Belief = status.flags
  BY <1>1 DEF Belief
<1>5. ("RESUMED" \in status.flags) <=> (android.phase = "resumed")
  BY <1>2, <1>3, <1>4 DEF BeliefInv, ResumedKnown
<1>6. mode = "ingress" =>
        (("WINDOW" \in status.flags) <=> (android.window # 0))
  BY <1>2, <1>3, <1>4 DEF BeliefInv, WindowKnown, Retiring
<1>7. "READY" \in status.flags =>
        renderer.ready \/ renderer.completed # renderer.requested
  BY <1>1, <1>2, <1>3, <1>4 DEF BeliefInv, ReadyKnown, Leaving
<1> QED
  BY <1>5, <1>6, <1>7

\* Once every thread has reported (emit_lifecycle) and the service has handled
\* it all (apply_lifecycle_event), the service's status is true, for any number
\* of callbacks of Android and whatever reports were lost before.
THEOREM StatusAlwaysTruthful == Spec => []StatusIsTruthful
<1>1. Init => HostInv /\ BeliefInv
  BY HostInvInit, BeliefInvInit
<1>2. HostInv /\ BeliefInv /\ [Next]_vars => (HostInv /\ BeliefInv)'
  BY HostInvStep, BeliefInvStep
<1>3. HostInv /\ BeliefInv => StatusIsTruthful
  BY BeliefInvImplies
<1> QED
  BY <1>1, <1>2, <1>3, PTL DEF Spec
=============================================================================
