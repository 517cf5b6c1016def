------------------------- MODULE CommandStreamProofs -------------------------
(***************************************************************************)
(* Command streams for any number of command buffers, slots, records,      *)
(* table entries and commands in a submission: StreamInv is inductive.     *)
(* No slot is lost or shared, no stream is replayed twice, a checked       *)
(* command stays in its recording, and under a careful application the     *)
(* queue runs what was recorded.                                           *)
(***************************************************************************)
EXTENDS CommandStream, SequenceTheorems, FiniteSetTheorems,
        WellFoundedInduction, TLAPS

(***************************************************************************)
(* Natural numbers: the least member of a set, and induction on a set.     *)
(***************************************************************************)

\* A non-empty set of natural numbers has a least member.
LEMMA LeastMember ==
  ASSUME NEW S \in SUBSET Nat, S # {}
  PROVE  \E x \in S : \A y \in S : x <= y
<1> DEFINE R == {ss \in Nat \X Nat : ss[1] < ss[2]}
<1>1. IsWellFoundedOn(R, Nat)
  BY NatLessThanWellFounded DEF OpToRel
<1>2. \A y \in Nat, z \in Nat : y < z => <<y, z>> \in R
  <2> SUFFICES ASSUME NEW y \in Nat, NEW z \in Nat, y < z
               PROVE  <<y, z>> \in R
    OBVIOUS
  <2>1. <<y, z>> \in Nat \X Nat /\ <<y, z>>[1] = y /\ <<y, z>>[2] = z
    OBVIOUS
  <2>2. <<y, z>>[1] < <<y, z>>[2]
    BY <2>1
  <2> QED
    BY <2>1, <2>2, Zenon
<1> HIDE DEF R
<1>3. PICK x \in S : \A y \in S : ~ (<<y, x>> \in R)
  BY <1>1, WFMin
<1>4. ASSUME NEW y \in S PROVE x <= y
  <2>1. x \in Nat /\ y \in Nat
    OBVIOUS
  <2>2. ~(y < x)
    BY <1>2, <1>3, <2>1, Zenon
  <2> QED
    BY <2>1, <2>2
<1> QED
  BY <1>4

\* A set that holds zero and the successor of each of its members holds every
\* natural number.
LEMMA SetInduction ==
  ASSUME NEW T \in SUBSET Nat, 0 \in T, \A n \in T : n + 1 \in T
  PROVE  T = Nat
<1> SUFFICES ASSUME T # Nat PROVE FALSE
  OBVIOUS
<1>1. PICK x \in Nat \ T : \A y \in Nat \ T : x <= y
  BY LeastMember
<1>2. x - 1 \in Nat /\ ~(x <= x - 1) /\ (x - 1) + 1 = x
  BY <1>1
<1>3. x - 1 \in T
  BY <1>1, <1>2
<1> QED
  BY <1>1, <1>2, <1>3

(***************************************************************************)
(* The invariant.                                                          *)
(***************************************************************************)

\* The stream of a command buffer that holds nothing.
LEMMA EmptyStreamFacts ==
  /\ EmptyStream \in StreamStates /\ EmptyStream.slot = NoSlot
  /\ EmptyStream.sequence = 0 /\ ~EmptyStream.recording
  /\ ~EmptyStream.sealed /\ ~EmptyStream.uploaded /\ ~EmptyStream.error
  /\ EmptyStream.life = "live"
<1>1. <<>> \in Seq(Entries)
  OBVIOUS
<1> QED
  BY <1>1 DEF EmptyStream, StreamStates

\* NoSlot is no slot.
LEMMA NoSlotFacts == NoSlot \notin Slots /\ Slots \in SUBSET Nat
  BY CommandStreamAssumption DEF NoSlot, Slots

\* The invariant holds at the start.
LEMMA StreamInvInit == Init => StreamInv
<1> SUFFICES ASSUME Init PROVE StreamInv
  OBVIOUS
<1>1. <<>> \in Seq(Entries)
  OBVIOUS
<1>2. \A b \in Buffers :
        /\ buffer[b] \in StreamStates /\ buffer[b].life = "new"
        /\ buffer[b].slot = NoSlot /\ buffer[b].sequence = 0
        /\ thread[b] = Idle
  <2>1. [EmptyStream EXCEPT !.life = "new"] \in StreamStates
        /\ [EmptyStream EXCEPT !.life = "new"].life = "new"
        /\ [EmptyStream EXCEPT !.life = "new"].slot = NoSlot
        /\ [EmptyStream EXCEPT !.life = "new"].sequence = 0
    BY EmptyStreamFacts DEF StreamStates
  <2> QED
    BY <2>1 DEF Init
<1>3. ClientTypes
  <2>1. buffer \in [Buffers -> StreamStates]
    BY <1>2 DEF Init
  <2>2. thread \in [Buffers -> Calls]
    BY DEF Init, Calls
  <2>3. [header |-> NoHeader, records |-> <<>>] \in Contents
    BY <1>1 DEF NoHeader, Contents
  <2>4. region \in [Slots -> Contents]
    BY <2>3 DEF Init
  <2> QED
    BY <2>1, <2>2, <2>4 DEF Init, ClientTypes
<1>4. ServiceTypes
  <2>1. DOMAIN generations = {}
    BY DEF Init
  <2>2. IsFiniteSet({}) /\ Cardinality({}) = 0
    BY FS_EmptySet
  <2>3. native \in [Buffers -> [state : {"initial", "executable", "broken"},
                                records : Seq(Entries)]]
    BY <1>1 DEF Init
  <2> QED
    BY <2>1, <2>2, <2>3, CommandStreamAssumption DEF ServiceTypes
<1>5. LeasesKnown
  BY <1>2 DEF Init, LeasesKnown, EmptyStream
<1>6. DirectKnown
  BY <1>2 DEF DirectKnown, DirectStaysInRecording, Idle
<1>7. SubmitKnown /\ BegunKnown
  BY DEF Init, SubmitKnown, BegunKnown, Idle
<1>8. CarefulKnown
  BY <1>2 DEF Init, CarefulKnown, RecordingKnown, Idle
<1> QED
  BY <1>3, <1>4, <1>5, <1>6, <1>7, <1>8 DEF StreamInv

\* A step on one command buffer that no submission holds: it may give its
\* slot back and take a free one, and it writes to its own slot only.
LEMMA OneBufferStep ==
  ASSUME StreamInv, NEW b \in Buffers, b \notin Submitted,
         UNCHANGED <<submit, app, native, generations, begun, repeated, misrun>>,
         buffer' \in [Buffers -> StreamStates],
         \A c \in Buffers : c # b => buffer'[c] = buffer[c],
         thread' \in [Buffers -> Calls],
         \A c \in Buffers : c # b => thread'[c] = thread[c],
         region' \in [Slots -> Contents],
         \A s \in Slots : s # buffer'[b].slot => region'[s] = region[s],
         slots' = (slots \ {buffer[b].slot}) \cup ({buffer'[b].slot} \ {NoSlot}),
         buffer'[b].slot \notin slots \ {buffer[b].slot},
         next_sequence' \in Nat, next_sequence <= next_sequence',
         buffer'[b].sequence < next_sequence',
         buffer'[b].slot # NoSlot =>
           buffer'[b].life = "live" /\ ~buffer'[b].uploaded,
         buffer'[b].life = "live" /\ buffer'[b].recording =>
           buffer'[b].slot # NoSlot,
         buffer[b].life = "gone" => buffer'[b].life = "gone",
         buffer'[b].life \in {"live", "gone"},
         buffer'[b].slot # NoSlot =>
           \A n \in DOMAIN region'[buffer'[b].slot].records :
             region'[buffer'[b].slot].records[n].direct =>
               region'[buffer'[b].slot].records[n].from = buffer'[b].sequence,
         thread'[b].at = "append" => ~thread'[b].record.direct,
         app.synced => RecordingKnown(b)'
  PROVE  StreamInv'
<1> USE DEF StreamInv
<1>1. \A c \in Buffers : c # b =>
        /\ buffer'[c] = buffer[c] /\ thread'[c] = thread[c]
        /\ buffer[c].slot \in Slots \cup {NoSlot}
        /\ buffer[c].slot # NoSlot =>
             /\ buffer[c].slot \in slots \ {buffer[b].slot}
             /\ buffer[c].slot # buffer'[b].slot
             /\ region'[buffer[c].slot] = region[buffer[c].slot]
  BY DEF ClientTypes, LeasesKnown, StreamStates
<1>2. slots' \in SUBSET Slots
  BY DEF ClientTypes, StreamStates
<1>3. ClientTypes'
  BY <1>2 DEF ClientTypes
<1>4. ServiceTypes'
  BY DEF ServiceTypes, ClientTypes
<1>5. LeasesKnown'
  <2>1. ASSUME NEW c \in Buffers
        PROVE  /\ buffer'[c].sequence < next_sequence'
               /\ buffer'[c].life = "new" =>
                    /\ buffer'[c] = [EmptyStream EXCEPT !.life = "new"]
                    /\ thread'[c] = Idle
               /\ buffer'[c].slot # NoSlot => /\ buffer'[c].life = "live"
                                              /\ ~ buffer'[c].uploaded
                                              /\ buffer'[c].slot \in slots'
               /\ buffer'[c].life = "live" /\ buffer'[c].recording =>
                    buffer'[c].slot # NoSlot
    <3>1. CASE c = b
      BY <3>1
    <3>2. CASE c # b
      <4>1. buffer[c].sequence \in Nat /\ buffer[c].sequence < next_sequence
            /\ next_sequence \in Nat
        BY DEF LeasesKnown, ClientTypes, StreamStates
      <4> QED
        BY <1>1, <3>2, <4>1 DEF LeasesKnown
    <3> QED
      BY <3>1, <3>2
  <2>2. ASSUME NEW c \in Buffers, NEW d \in Buffers,
               buffer'[c].slot # NoSlot, buffer'[c].slot = buffer'[d].slot
        PROVE  c = d
    <3>1. CASE c = b \/ d = b
      BY <1>1, <2>2, <3>1
    <3>2. CASE c # b /\ d # b
      BY <1>1, <2>2, <3>2 DEF LeasesKnown
    <3> QED
      BY <3>1, <3>2
  <2>3. ASSUME NEW s \in slots'
        PROVE  \E c \in Buffers : buffer'[c].slot = s
    <3>1. CASE s = buffer'[b].slot
      BY <3>1
    <3>2. CASE s # buffer'[b].slot
      <4>1. s \in slots /\ s # buffer[b].slot
        BY <2>3, <3>2
      <4>2. PICK c \in Buffers : buffer[c].slot = s
        BY <4>1 DEF LeasesKnown
      <4> QED
        BY <1>1, <4>1, <4>2
    <3> QED
      BY <3>1, <3>2
  <2> QED
    BY <2>1, <2>2, <2>3 DEF LeasesKnown
<1>6. DirectKnown'
  <2>1. ASSUME NEW c \in Buffers, buffer'[c].slot # NoSlot,
               NEW n \in DOMAIN region'[buffer'[c].slot].records,
               region'[buffer'[c].slot].records[n].direct
        PROVE  region'[buffer'[c].slot].records[n].from = buffer'[c].sequence
    <3>1. CASE c = b
      BY <2>1, <3>1
    <3>2. CASE c # b
      <4>1. /\ buffer'[c] = buffer[c] /\ buffer[c].slot # NoSlot
            /\ region'[buffer[c].slot] = region[buffer[c].slot]
        BY <1>1, <2>1, <3>2
      <4>2. \A m \in DOMAIN region[buffer[c].slot].records :
              region[buffer[c].slot].records[m].direct =>
                region[buffer[c].slot].records[m].from = buffer[c].sequence
        BY <4>1 DEF DirectKnown, DirectStaysInRecording
      <4> QED
        BY <2>1, <4>1, <4>2
    <3> QED
      BY <3>1, <3>2
  <2>2. ASSUME NEW c \in Buffers, thread'[c].at = "append"
        PROVE  ~thread'[c].record.direct
    BY <1>1, <2>2 DEF DirectKnown
  <2> QED
    BY <2>1, <2>2 DEF DirectKnown, DirectStaysInRecording
<1>7. ASSUME submit.at # "idle", NEW n \in DOMAIN submit.commands
      PROVE  /\ submit.commands[n].id \in Buffers
             /\ submit.commands[n].id # b
             /\ buffer'[submit.commands[n].id] = buffer[submit.commands[n].id]
  <2>1. submit.commands[n].id \in Buffers
    <3>1. submit.commands \in Seq(References)
      BY <1>7 DEF SubmitKnown
    <3>2. submit.commands[n] \in References
      BY <1>7, <3>1
    <3> QED
      BY <3>2 DEF References
  <2>2. submit.commands[n].id # b
    BY <1>7 DEF Submitted
  <2> QED
    BY <1>1, <2>1, <2>2
<1>8. SubmitKnown'
  <2>1. ASSUME submit.at # "idle", NEW n \in DOMAIN submit.commands
        PROVE  /\ submit.commands[n] = CommandRef(submit.commands[n].id)'
               /\ buffer'[submit.commands[n].id].life = "live"
               /\ \/ buffer'[submit.commands[n].id].uploaded
                  \/ Replayable(submit.commands[n].id)'
    <3>1. /\ submit.commands[n] = CommandRef(submit.commands[n].id)
          /\ buffer[submit.commands[n].id].life = "live"
          /\ \/ buffer[submit.commands[n].id].uploaded
             \/ Replayable(submit.commands[n].id)
      BY <2>1 DEF SubmitKnown
    <3>2. buffer'[submit.commands[n].id] = buffer[submit.commands[n].id]
          /\ submit' = submit
      BY <1>7, <2>1
    <3> QED
      BY <3>1, <3>2 DEF CommandRef, Replayable
  <2>2. submit' = submit
    OBVIOUS
  <2> QED
    BY <2>1, <2>2 DEF SubmitKnown
<1>9. BegunKnown'
  <2>1. ASSUME NEW name \in begun
        PROVE  \/ buffer'[name[1]].life = "gone"
               \/ /\ buffer'[name[1]].life = "live"
                  /\ name[1] \in DOMAIN generations
                  /\ name[2] <= generations[name[1]]
    <3>1. /\ name[1] \in Buffers
          /\ \/ buffer[name[1]].life = "gone"
             \/ /\ buffer[name[1]].life = "live"
                /\ name[1] \in DOMAIN generations
                /\ name[2] <= generations[name[1]]
      BY DEF BegunKnown
    <3>2. CASE name[1] = b
      BY <3>1, <3>2
    <3>3. CASE name[1] # b
      BY <1>1, <3>1, <3>3
    <3> QED
      BY <3>2, <3>3
  <2> QED
    BY <2>1 DEF BegunKnown
<1>10. CarefulKnown'
  <2>1. ASSUME app.synced, NEW c \in Buffers PROVE RecordingKnown(c)'
    <3>1. CASE c = b
      BY <2>1, <3>1
    <3>2. CASE c # b
      <4>1. RecordingKnown(c)
        BY <2>1 DEF CarefulKnown
      <4>2. /\ buffer'[c] = buffer[c] /\ thread'[c] = thread[c]
            /\ native' = native
            /\ buffer[c].slot # NoSlot =>
                 region'[buffer[c].slot] = region[buffer[c].slot]
            /\ buffer[c].life = "live" /\ buffer[c].recording =>
                 buffer[c].slot # NoSlot
        BY <1>1, <3>2 DEF LeasesKnown
      <4>3. Replayable(c) => buffer[c].slot # NoSlot
        BY NoSlotFacts DEF Replayable
      <4>4. Replayable(c)' <=> Replayable(c)
        BY <4>2 DEF Replayable
      <4> QED
        BY <4>1, <4>2, <4>3, <4>4 DEF RecordingKnown
    <3> QED
      BY <3>1, <3>2
  <2>2. ASSUME app.synced, submit.at = "answered", submit.status = "SUCCESS",
               NEW n \in DOMAIN submit.commands
        PROVE  native'[submit.commands[n].id] =
                 [state |-> "executable",
                  records |-> buffer'[submit.commands[n].id].wrote]
    BY <1>7, <2>2 DEF CarefulKnown
  <2> QED
    BY <2>1, <2>2 DEF CarefulKnown
<1> QED
  BY <1>3, <1>4, <1>5, <1>6, <1>8, <1>9, <1>10

(***************************************************************************)
(* Recording.                                                              *)
(***************************************************************************)

\* A recording call changes its own buffer's state and thread, and appends at
\* most one record to its slot.
LEMMA RecordStep ==
  ASSUME StreamInv, NEW b \in Buffers, StreamFree(b),
         UNCHANGED <<slots, next_sequence, owned, submit, app>>,
         UNCHANGED service_vars,
         buffer' = [buffer EXCEPT ![b] = buffer'[b]],
         buffer'[b] \in StreamStates,
         buffer'[b].slot = buffer[b].slot,
         buffer'[b].sequence = buffer[b].sequence,
         buffer'[b].recording = buffer[b].recording,
         buffer'[b].uploaded = buffer[b].uploaded,
         buffer'[b].life = buffer[b].life,
         thread' = [thread EXCEPT ![b] = thread'[b]],
         thread'[b] \in Calls,
         thread'[b].at = "append" => ~thread'[b].record.direct,
         \/ region' = region
         \/ /\ buffer[b].slot # NoSlot
            /\ \E r \in Entries :
                 /\ region' = [region EXCEPT ![buffer[b].slot].records =
                                 Append(@, r)]
                 /\ r.direct => r.from = buffer[b].sequence,
         app.synced => RecordingKnown(b)'
  PROVE  StreamInv'
<1>1. /\ buffer \in [Buffers -> StreamStates] /\ slots \in SUBSET Slots
      /\ next_sequence \in Nat /\ thread \in [Buffers -> Calls]
      /\ region \in [Slots -> Contents]
  BY DEF StreamInv, ClientTypes
<1>2. /\ b \notin Submitted /\ buffer[b].life = "live"
      /\ UNCHANGED <<native, generations, begun, repeated, misrun>>
  BY DEF StreamFree, service_vars
<1>3. /\ buffer' \in [Buffers -> StreamStates]
      /\ \A c \in Buffers : c # b => buffer'[c] = buffer[c]
  BY <1>1
<1>4. /\ thread' \in [Buffers -> Calls]
      /\ \A c \in Buffers : c # b => thread'[c] = thread[c]
  BY <1>1
<1>5. /\ buffer[b].slot \in Slots \cup {NoSlot}
      /\ buffer[b].sequence < next_sequence
      /\ buffer[b].slot # NoSlot => ~buffer[b].uploaded /\ buffer[b].slot \in slots
      /\ buffer[b].recording => buffer[b].slot # NoSlot
  BY <1>1, <1>2 DEF StreamInv, LeasesKnown, StreamStates
<1>6. slots' = (slots \ {buffer[b].slot}) \cup ({buffer'[b].slot} \ {NoSlot})
      /\ buffer'[b].slot \notin slots \ {buffer[b].slot}
  <2>1. slots' = slots /\ buffer'[b].slot = buffer[b].slot /\ NoSlot \notin slots
    BY <1>1, NoSlotFacts
  <2> QED
    BY <1>5, <2>1
<1>7. /\ region' \in [Slots -> Contents]
      /\ \A s \in Slots : s # buffer'[b].slot => region'[s] = region[s]
      /\ buffer'[b].slot # NoSlot =>
           \A n \in DOMAIN region'[buffer'[b].slot].records :
             region'[buffer'[b].slot].records[n].direct =>
               region'[buffer'[b].slot].records[n].from = buffer'[b].sequence
  <2>1. buffer[b].slot # NoSlot =>
          \A n \in DOMAIN region[buffer[b].slot].records :
            region[buffer[b].slot].records[n].direct =>
              region[buffer[b].slot].records[n].from = buffer[b].sequence
    BY DEF StreamInv, DirectKnown, DirectStaysInRecording
  <2>2. CASE region' = region
    BY <1>1, <2>1, <2>2
  <2>3. CASE region' # region
    <3>1. PICK r \in Entries :
            /\ region' = [region EXCEPT ![buffer[b].slot].records = Append(@, r)]
            /\ r.direct => r.from = buffer[b].sequence
      BY <2>3
    <3> DEFINE s == buffer[b].slot
               old == region[s].records
    <3>2. s \in Slots /\ s # NoSlot
      BY <1>5, <2>3
    <3>3. region[s] \in Contents /\ old \in Seq(Entries)
      BY <1>1, <3>2 DEF Contents
    <3>4. region' = [region EXCEPT ![s] = [region[s] EXCEPT !.records =
                                             Append(old, r)]]
      BY <3>1
    <3>5. /\ Append(old, r) \in Seq(Entries)
          /\ Len(Append(old, r)) = Len(old) + 1 /\ Len(old) \in Nat
          /\ Append(old, r)[Len(old) + 1] = r
          /\ \A n \in 1 .. Len(old) : Append(old, r)[n] = old[n]
      BY <3>3, AppendProperties, LenProperties, SMTT(30)
    <3>6. DOMAIN Append(old, r) = 1 .. Len(old) + 1
          /\ DOMAIN old = 1 .. Len(old)
      BY <3>3, <3>5, LenProperties
    <3>7. /\ region' \in [Slots -> Contents]
          /\ region'[s].records = Append(old, r)
          /\ \A t \in Slots : t # s => region'[t] = region[t]
      <4>1. [region[s] EXCEPT !.records = Append(old, r)] \in Contents
            /\ [region[s] EXCEPT !.records = Append(old, r)].records
                 = Append(old, r)
        BY <3>3, <3>5 DEF Contents
      <4> QED
        BY <1>1, <3>2, <3>4, <4>1
    <3>8. ASSUME NEW n \in 1 .. Len(old) + 1, Append(old, r)[n].direct
          PROVE  Append(old, r)[n].from = buffer[b].sequence
      <4>1. CASE n = Len(old) + 1
        BY <3>1, <3>5, <3>8, <4>1
      <4>2. CASE n # Len(old) + 1
        <5>1. n \in 1 .. Len(old)
          <6>1. Len(old) \in Nat
            BY <3>5
          <6> HIDE DEF old
          <6> QED
            BY <4>2, <6>1
        <5> QED
          BY <2>1, <3>2, <3>5, <3>6, <3>8, <5>1, ZenonT(40)
      <4> QED
        BY <4>1, <4>2
    <3>9. buffer'[b].slot = s /\ buffer'[b].sequence = buffer[b].sequence
      OBVIOUS
    <3> HIDE DEF s, old
    <3>10. \A n \in DOMAIN region'[s].records :
             region'[s].records[n].direct =>
               region'[s].records[n].from = buffer[b].sequence
      BY <3>6, <3>7, <3>8
    <3> QED
      BY <3>7, <3>9, <3>10
  <2> QED
    BY <2>2, <2>3
<1>8. next_sequence' \in Nat /\ next_sequence <= next_sequence'
      /\ buffer'[b].sequence < next_sequence'
  BY <1>1, <1>5
<1>9. /\ buffer'[b].slot # NoSlot =>
           buffer'[b].life = "live" /\ ~buffer'[b].uploaded
      /\ buffer'[b].life = "live" /\ buffer'[b].recording =>
           buffer'[b].slot # NoSlot
      /\ buffer[b].life = "gone" => buffer'[b].life = "gone"
      /\ buffer'[b].life \in {"live", "gone"}
  BY <1>2, <1>5
<1> QED
  BY <1>2, <1>3, <1>4, <1>6, <1>7, <1>8, <1>9, OneBufferStep

\* A state that differs from the buffer's own in what was recorded, what is
\* cached, and possibly in being poisoned.
LEMMA PoisonFacts ==
  ASSUME NEW s \in StreamStates
  PROVE  /\ poison_shared_command_stream(s) \in StreamStates
         /\ poison_shared_command_stream(s).error
         /\ ~poison_shared_command_stream(s).sealed
         /\ poison_shared_command_stream(s).slot = s.slot
         /\ poison_shared_command_stream(s).sequence = s.sequence
         /\ poison_shared_command_stream(s).recording = s.recording
         /\ poison_shared_command_stream(s).uploaded = s.uploaded
         /\ poison_shared_command_stream(s).life = s.life
         /\ poison_shared_command_stream(s).wrote = s.wrote
  BY DEF poison_shared_command_stream, StreamStates

\* Appending a record to the slot, or poisoning the stream.
LEMMA AppendsStep ==
  ASSUME StreamInv, NEW b \in Buffers, StreamFree(b),
         NEW state \in StreamStates, NEW record \in Entries,
         Appends(b, state, record),
         state.slot = buffer[b].slot, state.sequence = buffer[b].sequence,
         state.recording = buffer[b].recording, state.error = buffer[b].error,
         state.uploaded = buffer[b].uploaded, state.life = buffer[b].life,
         record.direct => record.from = buffer[b].sequence,
         app.synced => buffer[b].recording,
         app.synced /\ ~buffer[b].error =>
           state.wrote = Append(region[buffer[b].slot].records, record)
  PROVE  StreamInv'
<1>1. /\ buffer \in [Buffers -> StreamStates] /\ thread \in [Buffers -> Calls]
      /\ region \in [Slots -> Contents] /\ Idle \in Calls /\ Idle.at = "idle"
      /\ buffer[b].life = "live"
  BY DEF StreamInv, ClientTypes, Calls, Idle, StreamFree
<1>2. /\ buffer[b].slot \in Slots \cup {NoSlot}
      /\ buffer[b].recording => buffer[b].slot # NoSlot
      /\ buffer[b].slot # NoSlot => ~buffer[b].uploaded
  BY <1>1 DEF StreamInv, LeasesKnown, StreamStates
<1>3. CASE CanAppend(state)
  <2>1. /\ buffer' = [buffer EXCEPT ![b] = state]
        /\ region' = [region EXCEPT ![state.slot].records = Append(@, record)]
        /\ thread' = [thread EXCEPT ![b] = Idle]
        /\ UNCHANGED <<slots, next_sequence, owned, submit, app>>
        /\ UNCHANGED service_vars
    BY <1>3 DEF Appends, Left
  <2>2. buffer[b].recording /\ ~buffer[b].error /\ buffer[b].slot \in Slots
        /\ buffer[b].slot # NoSlot
    BY <1>2, <1>3 DEF CanAppend
  <2>3. buffer'[b] = state /\ thread'[b] = Idle
    BY <1>1, <2>1
  <2>4. region'[buffer[b].slot].records
          = Append(region[buffer[b].slot].records, record)
    BY <1>1, <2>1, <2>2 DEF Contents
  <2>5. ASSUME app.synced PROVE RecordingKnown(b)'
    <3>1. state.wrote = region'[state.slot].records
          /\ state.wrote \in Seq(Entries)
      BY <2>2, <2>4, <2>5 DEF StreamStates
    <3>2. state.wrote = region'[state.slot].records \o <<>>
      BY <3>1, ConcatEmptySeq
    <3>3. ~Replayable(b)' /\ ~buffer'[b].uploaded
      BY <1>2, <2>2, <2>3 DEF Replayable
    <3> QED
      BY <2>2, <2>3, <3>2, <3>3 DEF RecordingKnown
  <2>6. buffer' = [buffer EXCEPT ![b] = buffer'[b]]
        /\ thread' = [thread EXCEPT ![b] = thread'[b]]
    BY <2>1, <2>3
  <2>7. region' = [region EXCEPT ![buffer[b].slot].records = Append(@, record)]
    BY <2>1
  <2> QED
    BY <1>1, <2>1, <2>2, <2>3, <2>5, <2>6, <2>7, RecordStep
<1>4. CASE ~CanAppend(state)
  <2>1. /\ buffer' = [buffer EXCEPT ![b] = poison_shared_command_stream(state)]
        /\ region' = region
        /\ thread' = [thread EXCEPT ![b] = Idle]
        /\ UNCHANGED <<slots, next_sequence, owned, submit, app>>
        /\ UNCHANGED service_vars
    BY <1>4 DEF Appends, Left
  <2>2. buffer'[b] = poison_shared_command_stream(state) /\ thread'[b] = Idle
    BY <1>1, <2>1
  <2>3. /\ buffer'[b] \in StreamStates /\ buffer'[b].error
        /\ buffer'[b].slot = buffer[b].slot
        /\ buffer'[b].sequence = buffer[b].sequence
        /\ buffer'[b].recording = buffer[b].recording
        /\ buffer'[b].uploaded = buffer[b].uploaded
        /\ buffer'[b].life = buffer[b].life
    BY <2>2, PoisonFacts
  <2>4. ASSUME app.synced PROVE RecordingKnown(b)'
    <3>1. ~buffer'[b].uploaded /\ ~Replayable(b)'
      BY <1>2, <2>3, <2>4 DEF Replayable
    <3> QED
      BY <2>2, <2>3, <3>1 DEF RecordingKnown
  <2>5. buffer' = [buffer EXCEPT ![b] = buffer'[b]]
        /\ thread' = [thread EXCEPT ![b] = thread'[b]]
    BY <2>1, <2>2
  <2> QED
    BY <1>1, <2>1, <2>2, <2>3, <2>4, <2>5, RecordStep
<1> QED
  BY <1>3, <1>4

\* What a careful application's call notes.
LEMMA NotedFacts ==
  ASSUME StreamInv, NEW b \in Buffers, NEW record \in Entries,
         StreamFree(b), thread[b] = Idle, app.synced => buffer[b].recording
  PROVE  /\ Noted(b, record) \in StreamStates
         /\ Noted(b, record).slot = buffer[b].slot
         /\ Noted(b, record).sequence = buffer[b].sequence
         /\ Noted(b, record).recording = buffer[b].recording
         /\ Noted(b, record).error = buffer[b].error
         /\ Noted(b, record).uploaded = buffer[b].uploaded
         /\ Noted(b, record).life = buffer[b].life
         /\ app.synced /\ ~buffer[b].error =>
              Noted(b, record).wrote = Append(region[buffer[b].slot].records, record)
<1>1. buffer[b] \in StreamStates /\ buffer[b].wrote \in Seq(Entries)
  BY DEF StreamInv, ClientTypes, StreamStates
<1>2. Append(buffer[b].wrote, record) \in Seq(Entries)
  BY <1>1, AppendProperties
<1>3. CASE app.synced /\ ~buffer[b].error
  <2>1. Noted(b, record) = [buffer[b] EXCEPT !.wrote = Append(@, record)]
    BY <1>3 DEF Noted
  <2>2. RecordingKnown(b) /\ buffer[b].life = "live" /\ buffer[b].recording
    BY <1>3 DEF StreamInv, CarefulKnown, StreamFree
  <2>3. buffer[b].slot \in Slots
    BY <1>1, <2>2 DEF StreamInv, LeasesKnown, StreamStates
  <2>4. region[buffer[b].slot].records \in Seq(Entries)
    BY <2>3 DEF StreamInv, ClientTypes, Contents
  <2>5. buffer[b].wrote = region[buffer[b].slot].records \o <<>>
    BY <1>3, <2>2 DEF RecordingKnown
  <2>6. buffer[b].wrote = region[buffer[b].slot].records
    BY <2>4, <2>5, ConcatEmptySeq
  <2>7. Noted(b, record).wrote = Append(region[buffer[b].slot].records, record)
    BY <1>1, <2>1, <2>6 DEF StreamStates
  <2> QED
    BY <1>1, <1>2, <2>1, <2>7 DEF StreamStates
<1>4. CASE ~(app.synced /\ ~buffer[b].error)
  BY <1>1, <1>4 DEF Noted
<1> QED
  BY <1>3, <1>4

\* A call leaves its record for later.
LEMMA PendingStep ==
  ASSUME StreamInv, NEW b \in Buffers, StreamFree(b), thread[b] = Idle,
         app.synced => buffer[b].recording,
         NEW record \in Entries, NEW at \in {"registry", "append"},
         at = "append" => ~record.direct,
         Left(b, Noted(b, record), region, [at |-> at, record |-> record])
  PROVE  StreamInv'
<1>1. /\ buffer \in [Buffers -> StreamStates] /\ thread \in [Buffers -> Calls]
      /\ region \in [Slots -> Contents] /\ buffer[b].life = "live"
      /\ buffer[b].slot \in Slots \cup {NoSlot}
      /\ buffer[b].recording => buffer[b].slot # NoSlot
      /\ buffer[b].slot # NoSlot => ~buffer[b].uploaded
  BY DEF StreamInv, ClientTypes, StreamFree, LeasesKnown, StreamStates
<1>2. /\ buffer' = [buffer EXCEPT ![b] = Noted(b, record)]
      /\ region' = region
      /\ thread' = [thread EXCEPT ![b] = [at |-> at, record |-> record]]
      /\ UNCHANGED <<slots, next_sequence, owned, submit, app>>
      /\ UNCHANGED service_vars
  BY DEF Left
<1>3. /\ buffer'[b] = Noted(b, record)
      /\ thread'[b] = [at |-> at, record |-> record]
  BY <1>1, <1>2
<1>4. /\ buffer'[b] \in StreamStates
      /\ buffer'[b].slot = buffer[b].slot
      /\ buffer'[b].sequence = buffer[b].sequence
      /\ buffer'[b].recording = buffer[b].recording
      /\ buffer'[b].error = buffer[b].error
      /\ buffer'[b].uploaded = buffer[b].uploaded
      /\ buffer'[b].life = buffer[b].life
      /\ app.synced /\ ~buffer[b].error =>
           buffer'[b].wrote = Append(region[buffer[b].slot].records, record)
  BY <1>3, NotedFacts
<1>5. /\ thread'[b] \in Calls /\ thread'[b] # Idle
      /\ thread'[b].record = record /\ thread'[b].at = at
  BY <1>3 DEF Calls, Idle
<1>6. ASSUME app.synced PROVE RecordingKnown(b)'
  <2>1. ~Replayable(b)' /\ ~buffer'[b].uploaded /\ buffer'[b].recording
    BY <1>1, <1>4, <1>6 DEF Replayable
  <2>2. ~buffer[b].error =>
          buffer'[b].wrote = region'[buffer'[b].slot].records \o <<record>>
    <3>1. buffer[b].slot \in Slots
      BY <1>1, <1>6
    <3>2. region[buffer[b].slot].records \in Seq(Entries)
      BY <1>1, <3>1 DEF Contents
    <3> QED
      BY <1>2, <1>4, <1>6, <3>2, AppendIsConcat, ZenonT(40)
  <2> QED
    BY <1>4, <1>5, <2>1, <2>2 DEF RecordingKnown
<1>7. buffer' = [buffer EXCEPT ![b] = buffer'[b]]
      /\ thread' = [thread EXCEPT ![b] = thread'[b]]
  BY <1>2, <1>3
<1> QED
  BY <1>2, <1>4, <1>5, <1>6, <1>7, RecordStep

\* A record of a command.
LEMMA RecordFacts ==
  ASSUME StreamInv, NEW b \in Buffers, NEW direct \in BOOLEAN,
         NEW kind \in {"use", "begin_rendering", "draw", "end_rendering"},
         NEW object \in Objects \cup {None}
  PROVE  /\ Rec(kind, object, buffer[b].sequence, direct) \in Entries
         /\ Rec(kind, object, buffer[b].sequence, direct).from = buffer[b].sequence
         /\ Rec(kind, object, buffer[b].sequence, direct).direct = direct
         /\ Rec(kind, object, buffer[b].sequence, direct).object = object
<1>1. buffer[b].sequence \in Nat
  BY DEF StreamInv, ClientTypes, StreamStates
<1> QED
  BY <1>1 DEF Rec, Entries, Kinds

\* The first part of a command that checks an object.
LEMMA StartCheckedStep ==
  ASSUME StreamInv, NEW b \in Buffers, NEW command, NEW object \in Objects,
         NEW kind \in {"use", "begin_rendering", "draw"}, NEW direct \in BOOLEAN,
         StartChecked(b, command, kind, object, direct)
  PROVE  StreamInv'
<1>1. PICK record \in Entries :
        /\ record = Rec(kind, object, buffer[b].sequence, direct)
        /\ record.from = buffer[b].sequence /\ record.direct = direct
  BY RecordFacts
<1>2. StreamFree(b) /\ thread[b] = Idle /\ (app.synced => buffer[b].recording)
  BY DEF StartChecked, MayRecord, Callable
<1>3. CASE object \notin buffer[b].cache
  <2>1. Left(b, Noted(b, record), region, [at |-> "registry", record |-> record])
    BY <1>1, <1>3 DEF StartChecked
  <2> QED
    BY <1>2, <2>1, PendingStep
<1>4. CASE object \in buffer[b].cache /\ ~direct
  <2>1. Left(b, Noted(b, record), region, [at |-> "append", record |-> record])
    BY <1>1, <1>4 DEF StartChecked
  <2> QED
    BY <1>1, <1>2, <1>4, <2>1, PendingStep
<1>5. CASE object \in buffer[b].cache /\ direct
  <2>1. Appends(b, Noted(b, record), record)
    BY <1>1, <1>5 DEF StartChecked
  <2>2. PICK noted \in StreamStates :
          /\ noted = Noted(b, record)
          /\ noted.slot = buffer[b].slot /\ noted.sequence = buffer[b].sequence
          /\ noted.recording = buffer[b].recording
          /\ noted.error = buffer[b].error
          /\ noted.uploaded = buffer[b].uploaded /\ noted.life = buffer[b].life
          /\ app.synced /\ ~buffer[b].error =>
               noted.wrote = Append(region[buffer[b].slot].records, record)
    BY <1>2, NotedFacts
  <2>3. Appends(b, noted, record)
    BY <2>1, <2>2
  <2> QED
    BY <1>1, <1>2, <2>2, <2>3, AppendsStep
<1> QED
  BY <1>3, <1>4, <1>5

\* The first part of a command that checks nothing.
LEMMA StartUncheckedStep ==
  ASSUME StreamInv, NEW b \in Buffers, NEW command,
         NEW object \in Objects \cup {None},
         NEW kind \in {"use", "draw", "end_rendering"},
         StartUnchecked(b, command, kind, object)
  PROVE  StreamInv'
<1>1. PICK record \in Entries :
        /\ record = Rec(kind, object, buffer[b].sequence, FALSE)
        /\ record.direct = FALSE
  BY RecordFacts
<1>2. StreamFree(b) /\ thread[b] = Idle /\ (app.synced => buffer[b].recording)
  BY DEF StartUnchecked, MayRecord, Callable
<1>3. Left(b, Noted(b, record), region, [at |-> "append", record |-> record])
  BY <1>1 DEF StartUnchecked
<1> QED
  BY <1>1, <1>2, <1>3, PendingStep

\* A step that poisons the stream of a command buffer.
LEMMA PoisonStep ==
  ASSUME StreamInv, NEW b \in Buffers, StreamFree(b),
         NEW state \in StreamStates,
         state.slot = buffer[b].slot, state.sequence = buffer[b].sequence,
         state.recording = buffer[b].recording,
         state.uploaded = buffer[b].uploaded, state.life = buffer[b].life,
         app.synced => buffer[b].recording,
         Left(b, poison_shared_command_stream(state), region, Idle)
  PROVE  StreamInv'
<1>1. /\ buffer \in [Buffers -> StreamStates] /\ thread \in [Buffers -> Calls]
      /\ region \in [Slots -> Contents] /\ Idle \in Calls /\ Idle.at = "idle"
      /\ buffer[b].life = "live"
      /\ buffer[b].recording => buffer[b].slot # NoSlot
      /\ buffer[b].slot # NoSlot => ~buffer[b].uploaded
  BY DEF StreamInv, ClientTypes, Calls, Idle, StreamFree, LeasesKnown
<1>2. /\ buffer' = [buffer EXCEPT ![b] = poison_shared_command_stream(state)]
      /\ region' = region /\ thread' = [thread EXCEPT ![b] = Idle]
      /\ UNCHANGED <<slots, next_sequence, owned, submit, app>>
      /\ UNCHANGED service_vars
  BY DEF Left
<1>3. buffer'[b] = poison_shared_command_stream(state) /\ thread'[b] = Idle
  BY <1>1, <1>2
<1>4. /\ buffer'[b] \in StreamStates /\ buffer'[b].error
      /\ buffer'[b].slot = buffer[b].slot
      /\ buffer'[b].sequence = buffer[b].sequence
      /\ buffer'[b].recording = buffer[b].recording
      /\ buffer'[b].uploaded = buffer[b].uploaded
      /\ buffer'[b].life = buffer[b].life
  BY <1>3, PoisonFacts
<1>5. ASSUME app.synced PROVE RecordingKnown(b)'
  <2>1. ~buffer'[b].uploaded /\ ~Replayable(b)'
    BY <1>1, <1>4, <1>5 DEF Replayable
  <2> QED
    BY <1>3, <1>4, <2>1 DEF RecordingKnown
<1>6. buffer' = [buffer EXCEPT ![b] = buffer'[b]]
      /\ thread' = [thread EXCEPT ![b] = thread'[b]]
  BY <1>2, <1>3
<1> QED
  BY <1>1, <1>2, <1>3, <1>4, <1>5, <1>6, RecordStep

\* An argument the bridge does not carry.
LEMMA UnsupportedStep ==
  ASSUME StreamInv, NEW b \in Buffers, UnsupportedShape(b)
  PROVE  StreamInv'
<1>1. PICK record \in Entries :
        record = Rec("use", None, buffer[b].sequence, TRUE)
  BY RecordFacts
<1>2. StreamFree(b) /\ thread[b] = Idle /\ (app.synced => buffer[b].recording)
  BY DEF UnsupportedShape, MayRecord, Callable
<1>3. PICK noted \in StreamStates :
        /\ noted = Noted(b, record)
        /\ noted.slot = buffer[b].slot /\ noted.sequence = buffer[b].sequence
        /\ noted.recording = buffer[b].recording
        /\ noted.uploaded = buffer[b].uploaded /\ noted.life = buffer[b].life
  BY <1>2, NotedFacts
<1>4. Left(b, poison_shared_command_stream(noted), region, Idle)
  BY <1>1, <1>3 DEF UnsupportedShape
<1> QED
  BY <1>2, <1>3, <1>4, PoisonStep

\* A call in progress, and where it is.
LEMMA CallFacts ==
  ASSUME StreamInv, NEW b \in Buffers, thread[b].at # "idle"
  PROVE  /\ thread[b].record \in Entries /\ thread[b] # Idle
         /\ thread[b].at \in {"registry", "append", "relock"}
         /\ thread[b].at = "relock" => thread[b].found \in BOOLEAN
         /\ app.synced /\ buffer[b].life = "live" =>
              /\ buffer[b].recording
              /\ ~buffer[b].error =>
                   buffer[b].wrote =
                     Append(region[buffer[b].slot].records, thread[b].record)
<1>1. thread[b] \in Calls
  BY DEF StreamInv, ClientTypes
<1>2. /\ thread[b].record \in Entries /\ thread[b] # Idle
      /\ thread[b].at \in {"registry", "append", "relock"}
      /\ thread[b].at = "relock" => thread[b].found \in BOOLEAN
  <2>1. CASE thread[b] \in [at : {"registry", "append"}, record : Entries]
    BY <2>1 DEF Idle
  <2>2. CASE thread[b] \in [at : {"relock"}, record : Entries, found : BOOLEAN]
    BY <2>2 DEF Idle
  <2> QED
    BY <1>1, <2>1, <2>2 DEF Calls, Idle
<1>3. ASSUME app.synced, buffer[b].life = "live"
      PROVE  /\ buffer[b].recording
             /\ ~buffer[b].error =>
                  buffer[b].wrote =
                    Append(region[buffer[b].slot].records, thread[b].record)
  <2>1. RecordingKnown(b)
    BY <1>3 DEF StreamInv, CarefulKnown
  <2>2. buffer[b].recording
    BY <1>2, <1>3, <2>1 DEF RecordingKnown
  <2>3. buffer[b].slot \in Slots
    BY <1>3, <2>2 DEF StreamInv, LeasesKnown, ClientTypes, StreamStates
  <2>4. region[buffer[b].slot].records \in Seq(Entries)
    BY <2>3 DEF StreamInv, ClientTypes, Contents
  <2>5. ~buffer[b].error =>
          buffer[b].wrote =
            region[buffer[b].slot].records \o <<thread[b].record>>
    BY <1>2, <1>3, <2>1, <2>2 DEF RecordingKnown
  <2> QED
    BY <1>2, <2>2, <2>4, <2>5, AppendIsConcat
<1> QED
  BY <1>2, <1>3

\* The rest of a checked call.
LEMMA RelockStep == ASSUME StreamInv, NEW b \in Buffers, Relock(b) PROVE StreamInv'
<1>1. PICK call \in Calls :
        /\ call = thread[b] /\ call.at = "relock" /\ StreamFree(b)
        /\ call.record \in Entries /\ thread[b] # Idle
  <2>1. thread[b] \in Calls /\ thread[b].at = "relock" /\ StreamFree(b)
    BY DEF StreamInv, ClientTypes, Relock
  <2> QED
    BY <2>1, CallFacts
<1>2. /\ buffer \in [Buffers -> StreamStates] /\ thread \in [Buffers -> Calls]
      /\ buffer[b] \in StreamStates /\ buffer[b].life = "live"
  BY <1>1 DEF StreamInv, ClientTypes, StreamFree
<1>3. /\ app.synced => buffer[b].recording
      /\ app.synced /\ ~buffer[b].error =>
           buffer[b].wrote = Append(region[buffer[b].slot].records, call.record)
  BY <1>1, <1>2, CallFacts
<1>4. PICK cached \in StreamStates :
        /\ cached = [buffer[b] EXCEPT !.cache = @ \cup {call.record.object}]
        /\ cached.slot = buffer[b].slot /\ cached.sequence = buffer[b].sequence
        /\ cached.recording = buffer[b].recording
        /\ cached.error = buffer[b].error
        /\ cached.uploaded = buffer[b].uploaded /\ cached.life = buffer[b].life
        /\ cached.wrote = buffer[b].wrote /\ cached.sealed = buffer[b].sealed
  <2>1. call.record.object \in Objects \cup {None}
    BY <1>1 DEF Entries
  <2>2. (buffer[b].cache \cup {call.record.object}) \in
          SUBSET (Objects \cup {None})
    BY <1>2, <2>1 DEF StreamStates
  <2>3. ASSUME NEW s \in StreamStates, NEW seen \in SUBSET (Objects \cup {None})
        PROVE  /\ [s EXCEPT !.cache = seen] \in StreamStates
               /\ [s EXCEPT !.cache = seen].slot = s.slot
               /\ [s EXCEPT !.cache = seen].sequence = s.sequence
               /\ [s EXCEPT !.cache = seen].recording = s.recording
               /\ [s EXCEPT !.cache = seen].error = s.error
               /\ [s EXCEPT !.cache = seen].uploaded = s.uploaded
               /\ [s EXCEPT !.cache = seen].life = s.life
               /\ [s EXCEPT !.cache = seen].wrote = s.wrote
               /\ [s EXCEPT !.cache = seen].sealed = s.sealed
    BY DEF StreamStates
  <2>4. PICK all \in SUBSET (Objects \cup {None}) :
          all = buffer[b].cache \cup {call.record.object}
    BY <2>2
  <2>5. PICK new : new = [buffer[b] EXCEPT !.cache = all]
    OBVIOUS
  <2>6. new = [buffer[b] EXCEPT !.cache = @ \cup {call.record.object}]
    BY <2>4, <2>5
  <2>7. /\ new \in StreamStates
        /\ new.slot = buffer[b].slot /\ new.sequence = buffer[b].sequence
        /\ new.recording = buffer[b].recording /\ new.error = buffer[b].error
        /\ new.uploaded = buffer[b].uploaded /\ new.life = buffer[b].life
        /\ new.wrote = buffer[b].wrote /\ new.sealed = buffer[b].sealed
    BY <1>2, <2>3, <2>5
  <2> QED
    BY <2>6, <2>7
<1>5. CASE ~StillOwned(b, call)
  <2>1. Left(b, poison_shared_command_stream(buffer[b]), region, Idle)
    BY <1>1, <1>5 DEF Relock
  <2>2. PICK state \in StreamStates : state = buffer[b]
    BY <1>2
  <2>3. Left(b, poison_shared_command_stream(state), region, Idle)
    BY <2>1, <2>2
  <2> QED
    BY <1>1, <1>3, <2>2, <2>3, PoisonStep
<1>6. CASE StillOwned(b, call) /\ call.record.direct
  <2>1. Appends(b, cached, call.record)
    BY <1>1, <1>4, <1>6 DEF Relock
  <2>2. call.record.from = buffer[b].sequence
    BY <1>6 DEF StillOwned
  <2> QED
    BY <1>1, <1>3, <1>4, <2>1, <2>2, AppendsStep
<1>7. CASE StillOwned(b, call) /\ ~call.record.direct
  <2>1. /\ buffer' = [buffer EXCEPT ![b] = cached] /\ region' = region
        /\ thread' = [thread EXCEPT ![b] = [at |-> "append",
                                            record |-> call.record]]
        /\ UNCHANGED <<slots, next_sequence, owned, submit, app>>
        /\ UNCHANGED service_vars
    BY <1>1, <1>4, <1>7 DEF Relock, Left
  <2>2. /\ buffer'[b] = cached
        /\ thread'[b] = [at |-> "append", record |-> call.record]
    BY <1>2, <2>1
  <2>3. /\ thread'[b] \in Calls /\ thread'[b] # Idle
        /\ thread'[b].record = call.record
    BY <1>1, <2>2 DEF Calls, Idle
  <2>4. ASSUME app.synced PROVE RecordingKnown(b)'
    <3>1. RecordingKnown(b)
      BY <2>4 DEF StreamInv, CarefulKnown
    <3>2. Replayable(b)' => FALSE
      BY <1>3, <1>4, <2>2, <2>4 DEF Replayable
    <3>3. ~buffer'[b].uploaded
      BY <1>2, <1>3, <1>4, <2>2, <2>4 DEF StreamInv, LeasesKnown
    <3> QED
      BY <1>1, <1>2, <1>3, <1>4, <2>1, <2>2, <2>3, <2>4, <3>1, <3>2, <3>3,
      SMTT(30)
      DEF RecordingKnown
  <2>5. buffer' = [buffer EXCEPT ![b] = buffer'[b]]
        /\ thread' = [thread EXCEPT ![b] = thread'[b]]
    BY <2>1, <2>2
  <2> QED
    BY <1>1, <1>4, <1>7, <2>1, <2>2, <2>3, <2>4, <2>5, RecordStep
<1> QED
  BY <1>5, <1>6, <1>7

\* A record that was built apart is appended.
LEMMA LateAppendStep ==
  ASSUME StreamInv, NEW b \in Buffers, submit_single_render_record(b)
  PROVE  StreamInv'
<1>1. /\ thread[b].at = "append" /\ StreamFree(b)
      /\ Appends(b, buffer[b], thread[b].record)
  BY DEF submit_single_render_record
<1>2. buffer[b] \in StreamStates /\ buffer[b].life = "live"
  BY <1>1 DEF StreamInv, ClientTypes, StreamFree
<1>3. PICK record \in Entries : record = thread[b].record
  BY <1>1, CallFacts
<1>4. PICK state \in StreamStates : state = buffer[b]
  BY <1>2
<1>5. /\ ~record.direct
      /\ app.synced => buffer[b].recording
      /\ app.synced /\ ~buffer[b].error =>
           state.wrote = Append(region[buffer[b].slot].records, record)
  BY <1>1, <1>2, <1>3, <1>4, CallFacts DEF StreamInv, DirectKnown
<1>6. Appends(b, state, record)
  BY <1>1, <1>3, <1>4
<1> QED
  BY <1>1, <1>4, <1>5, <1>6, AppendsStep

\* The registry is read without any stream mutex.
LEMMA RegistryReadStep ==
  ASSUME StreamInv, NEW b \in Buffers, RegistryRead(b)
  PROVE  StreamInv'
<1> USE DEF StreamInv
<1>1. /\ UNCHANGED <<buffer, slots, next_sequence, region, owned, submit, app,
                     native, generations, begun, repeated, misrun>>
      /\ thread[b].at = "registry"
      /\ thread' = [thread EXCEPT ![b] =
                      [at |-> "relock", record |-> @.record,
                       found |-> @.record.object \in owned]]
  BY DEF RegistryRead, service_vars
<1>2. thread \in [Buffers -> Calls] /\ thread[b].record \in Entries
      /\ thread[b] # Idle
  BY <1>1, CallFacts DEF ClientTypes
<1>3. /\ thread' \in [Buffers -> Calls] /\ thread'[b].at = "relock"
      /\ thread'[b].record = thread[b].record /\ thread'[b] # Idle
      /\ \A c \in Buffers : c # b => thread'[c] = thread[c]
  <2> DEFINE call == [at |-> "relock", record |-> thread[b].record,
                      found |-> thread[b].record.object \in owned]
  <2>1. thread' = [thread EXCEPT ![b] = call]
    BY <1>1
  <2>2. (thread[b].record.object \in owned) \in BOOLEAN
    OBVIOUS
  <2>3. call \in Calls /\ call.at = "relock" /\ call.record = thread[b].record
        /\ call # Idle
    BY <1>2, <2>2 DEF Calls, Idle
  <2> HIDE DEF call
  <2> QED
    BY <1>2, <2>1, <2>3
<1>4. ClientTypes' /\ ServiceTypes' /\ BegunKnown'
  BY <1>1, <1>3 DEF ClientTypes, ServiceTypes, BegunKnown
<1>5. LeasesKnown'
  <2>1. ASSUME NEW c \in Buffers, buffer[c].life = "new" PROVE thread'[c] = Idle
    <3>1. thread[c] = Idle
      BY <2>1 DEF LeasesKnown
    <3> QED
      BY <1>2, <1>3, <3>1
  <2> QED
    BY <1>1, <2>1 DEF LeasesKnown, EmptyStream
<1>6. DirectKnown'
  BY <1>1, <1>3 DEF DirectKnown, DirectStaysInRecording
<1>7. SubmitKnown'
  BY <1>1 DEF SubmitKnown, CommandRef, Replayable
<1>8. CarefulKnown'
  <2>1. ASSUME app.synced, NEW c \in Buffers PROVE RecordingKnown(c)'
    <3>1. RecordingKnown(c)
      BY <2>1 DEF CarefulKnown
    <3>2. Replayable(c)' <=> Replayable(c)
      BY <1>1 DEF Replayable
    <3>3. /\ thread'[c] = Idle <=> thread[c] = Idle
          /\ thread[c] # Idle => thread'[c].record = thread[c].record
      BY <1>2, <1>3
    <3> QED
      BY <1>1, <3>1, <3>2, <3>3 DEF RecordingKnown
  <2> QED
    BY <1>1, <2>1 DEF CarefulKnown
<1> QED
  BY <1>4, <1>6, <1>7, <1>8, <1>5

\* Any part of a recording call.
LEMMA CommandStep == ASSUME StreamInv, NEW b \in Buffers, Command(b) PROVE StreamInv'
<1>1. CASE \E command : \E o \in Objects :
             StartChecked(b, command, "use", o, TRUE)
  BY <1>1, StartCheckedStep
<1>2. CASE \E command : \E kind \in {"use", "begin_rendering", "draw"} :
             \E o \in Objects : StartChecked(b, command, kind, o, FALSE)
  BY <1>2, StartCheckedStep
<1>3. CASE \E command : \E kind \in {"use", "draw", "end_rendering"} :
             \E o \in Objects \cup {None} : StartUnchecked(b, command, kind, o)
  BY <1>3, StartUncheckedStep
<1>4. CASE \/ vkCmdFillBuffer(b) \/ vkCmdUpdateBuffer(b)
           \/ vkCmdClearColorImage(b) \/ vkCmdPipelineBarrier2(b)
           \/ vkCmdBindDescriptorSets(b) \/ submit_transfer_command(b)
  BY <1>1, <1>4
  DEF vkCmdFillBuffer, vkCmdUpdateBuffer, vkCmdClearColorImage,
      vkCmdPipelineBarrier2, vkCmdBindDescriptorSets, submit_transfer_command,
      Direct
<1>5. CASE \/ vkCmdBindPipeline(b) \/ vkCmdPushConstants(b)
           \/ submit_vertex_buffers_command(b) \/ submit_index_buffer_command(b)
           \/ submit_indirect_draw_command(b) \/ vkCmdBeginRendering(b)
  BY <1>2, <1>5
  DEF vkCmdBindPipeline, vkCmdPushConstants, submit_vertex_buffers_command,
      submit_index_buffer_command, submit_indirect_draw_command,
      vkCmdBeginRendering, Late
<1>6. CASE \/ record_query_command(b) \/ vkCmdClearDepthStencilImage(b)
           \/ vkCmdClearAttachments(b) \/ submit_dynamic_state_command(b)
           \/ vkCmdSetViewportWithCount(b) \/ vkCmdDraw(b) \/ vkCmdEndRendering(b)
  BY <1>3, <1>6
  DEF record_query_command, vkCmdClearDepthStencilImage, vkCmdClearAttachments,
      submit_dynamic_state_command, vkCmdSetViewportWithCount, vkCmdDraw,
      vkCmdEndRendering
<1>7. CASE \/ UnsupportedShape(b) \/ RegistryRead(b) \/ Relock(b)
           \/ submit_single_render_record(b)
  BY <1>7, UnsupportedStep, RegistryReadStep, RelockStep, LateAppendStep
<1> QED
  BY <1>4, <1>5, <1>6, <1>7 DEF Command

(***************************************************************************)
(* Command buffers and their slots.                                        *)
(***************************************************************************)

\* A command buffer is allocated: it holds no slot.
LEMMA AllocateStep ==
  ASSUME StreamInv, NEW b \in Buffers, vkAllocateCommandBuffers(b)
  PROVE  StreamInv'
<1>1. /\ submit = Idle /\ buffer[b].life = "new"
      /\ buffer' = [buffer EXCEPT ![b].life = "live"]
      /\ UNCHANGED <<slots, next_sequence, thread, region, owned, submit, app,
                     native, generations, begun, repeated, misrun>>
  BY DEF vkAllocateCommandBuffers, ClientFree, service_vars
<1>2. b \notin Submitted
  BY <1>1 DEF Submitted, Idle
<1>3. /\ buffer \in [Buffers -> StreamStates] /\ slots \in SUBSET Slots
      /\ next_sequence \in Nat /\ thread \in [Buffers -> Calls]
      /\ region \in [Slots -> Contents] /\ buffer[b] \in StreamStates
  BY DEF StreamInv, ClientTypes
<1>4. /\ buffer[b] = [EmptyStream EXCEPT !.life = "new"] /\ thread[b] = Idle
      /\ buffer[b].slot = NoSlot /\ buffer[b].sequence < next_sequence
      /\ ~buffer[b].recording /\ ~buffer[b].sealed /\ ~buffer[b].uploaded
  BY <1>1, ZenonT(40) DEF StreamInv, LeasesKnown, EmptyStream
<1>5. /\ buffer' \in [Buffers -> StreamStates]
      /\ \A c \in Buffers : c # b => buffer'[c] = buffer[c]
      /\ buffer'[b].slot = NoSlot /\ buffer'[b].life = "live"
      /\ buffer'[b].sequence = buffer[b].sequence
      /\ ~buffer'[b].recording /\ ~buffer'[b].sealed /\ ~buffer'[b].uploaded
  <2>1. buffer' = [buffer EXCEPT ![b] = [buffer[b] EXCEPT !.life = "live"]]
    BY <1>1
  <2>2. /\ [buffer[b] EXCEPT !.life = "live"] \in StreamStates
        /\ [buffer[b] EXCEPT !.life = "live"].life = "live"
        /\ [buffer[b] EXCEPT !.life = "live"].slot = NoSlot
        /\ [buffer[b] EXCEPT !.life = "live"].sequence = buffer[b].sequence
        /\ ~[buffer[b] EXCEPT !.life = "live"].recording
        /\ ~[buffer[b] EXCEPT !.life = "live"].sealed
        /\ ~[buffer[b] EXCEPT !.life = "live"].uploaded
    BY <1>3, <1>4 DEF StreamStates
  <2> QED
    BY <1>3, <2>1, <2>2
<1>6. slots' = (slots \ {buffer[b].slot}) \cup ({buffer'[b].slot} \ {NoSlot})
      /\ buffer'[b].slot \notin slots \ {buffer[b].slot}
  BY <1>1, <1>3, <1>4, <1>5, NoSlotFacts
<1>7. thread'[b].at = "append" => ~thread'[b].record.direct
  BY <1>1, <1>4 DEF Idle
<1>8. RecordingKnown(b)'
  BY <1>1, <1>4, <1>5 DEF RecordingKnown, Replayable
<1>9. next_sequence' \in Nat /\ next_sequence <= next_sequence'
      /\ buffer'[b].sequence < next_sequence'
  BY <1>1, <1>3, <1>4, <1>5
<1> QED
  BY <1>1, <1>2, <1>3, <1>5, <1>6, <1>7, <1>8, <1>9, OneBufferStep

\* While there is a free slot, the lowest one is free.
LEMMA LeaseFacts ==
  ASSUME NEW leased \in SUBSET Slots, leased # Slots
  PROVE  Min(Slots \ leased) \in Slots \ leased
<1>1. Slots \ leased \in SUBSET Nat /\ Slots \ leased # {}
  BY NoSlotFacts
<1>2. \E x \in Slots \ leased : \A y \in Slots \ leased : x <= y
  BY <1>1, LeastMember
<1> QED
  BY <1>2 DEF Min

\* Recording begins in a slot that is free once the old one was given back, or
\* fails and leaves the command buffer without one.
LEMMA BeginStep ==
  ASSUME StreamInv, NEW b \in Buffers, vkBeginCommandBuffer(b)
  PROVE  StreamInv'
<1> DEFINE old == buffer[b]
           kept == slots \ {old.slot}
           record == Rec("begin", None, next_sequence, TRUE)
           slot == Min(Slots \ kept)
           first == [EmptyStream EXCEPT !.slot = slot, !.sequence = next_sequence,
                                        !.recording = TRUE, !.wrote = <<record>>]
<1>1. /\ UNCHANGED <<thread, owned, submit, app, native, generations, begun,
                     repeated, misrun>>
      /\ Callable(b) /\ b \notin Submitted /\ old.life = "live"
      /\ app.synced => thread[b] = Idle
  BY DEF vkBeginCommandBuffer, service_vars, Callable, StreamFree
<1>2. /\ buffer \in [Buffers -> StreamStates] /\ slots \in SUBSET Slots
      /\ next_sequence \in Nat /\ thread \in [Buffers -> Calls]
      /\ region \in [Slots -> Contents] /\ old \in StreamStates
      /\ NoSlot \notin slots /\ kept \in SUBSET Slots
  BY NoSlotFacts DEF StreamInv, ClientTypes
<1>3. /\ old.sequence \in Nat /\ old.sequence < next_sequence
      /\ old.recording => old.slot # NoSlot
      /\ old.slot # NoSlot => ~old.uploaded
      /\ thread[b].at = "append" => ~thread[b].record.direct
  BY <1>1, <1>2 DEF StreamInv, LeasesKnown, DirectKnown, StreamStates
<1>4. PICK reset, leased, failed :
        /\ reset = reset_command_stream_state(old, slots)
        /\ leased = lease_command_stream_slot(reset.state, reset.slots)
        /\ failed = release_command_stream_slot(
                      IF old.recording THEN old ELSE reset.state,
                      IF old.recording THEN slots ELSE reset.slots)
        /\ IF ~old.recording /\ leased.state.slot # NoSlot
           THEN /\ buffer' = [buffer EXCEPT ![b] =
                     [leased.state EXCEPT !.recording = TRUE,
                                          !.wrote = <<record>>]]
                /\ slots' = leased.slots
                /\ next_sequence' = next_sequence + 1
                /\ region' = [region EXCEPT ![leased.state.slot] =
                     [header |-> NoHeader, records |-> <<record>>]]
           ELSE /\ buffer' = [buffer EXCEPT ![b] =
                     [failed.state EXCEPT !.recording = FALSE, !.error = TRUE]]
                /\ slots' = failed.slots
                /\ UNCHANGED <<next_sequence, region>>
  BY Zenon DEF vkBeginCommandBuffer
<1>5. reset.state = EmptyStream /\ reset.slots = kept
  BY <1>4 DEF reset_command_stream_state, release_command_stream_slot
<1>6. CASE ~old.recording /\ kept # Slots
  <2>1. slot \in Slots /\ slot \notin kept /\ slot # NoSlot
    <3> HIDE DEF kept
    <3>1. Min(Slots \ kept) \in Slots \ kept
      BY <1>2, <1>6, LeaseFacts
    <3> QED
      BY <3>1, NoSlotFacts
  <2>2. /\ record \in Entries /\ record.from = next_sequence
        /\ <<record>> \in Seq(Entries) /\ Len(<<record>>) = 1
        /\ <<record>>[1] = record
    BY <1>2 DEF Rec, Entries, Kinds
  <2> HIDE DEF slot, record
  <2>3. /\ buffer' = [buffer EXCEPT ![b] = first]
        /\ slots' = kept \cup {slot} /\ next_sequence' = next_sequence + 1
        /\ region' = [region EXCEPT ![slot] = [header |-> NoHeader,
                                               records |-> <<record>>]]
    <3>1. /\ leased.state = [EmptyStream EXCEPT !.slot = slot,
                                                !.sequence = next_sequence]
          /\ leased.slots = kept \cup {slot}
      BY <1>6, <1>4, <1>5 DEF lease_command_stream_slot, slot
    <3>2. /\ leased.state.slot = slot
          /\ [leased.state EXCEPT !.recording = TRUE, !.wrote = <<record>>]
               = first
      BY <3>1 DEF EmptyStream
    <3> HIDE DEF first, kept
    <3> QED
      BY <1>6, <1>4, <2>1, <3>1, <3>2
  <2>4. /\ first \in StreamStates /\ first.slot = slot
        /\ first.sequence = next_sequence /\ first.recording /\ ~first.error
        /\ ~first.uploaded /\ first.life = "live" /\ first.wrote = <<record>>
    BY <1>2, <2>1, <2>2 DEF EmptyStream, StreamStates
  <2> HIDE DEF first
  <2>5. /\ buffer' \in [Buffers -> StreamStates] /\ buffer'[b] = first
        /\ \A c \in Buffers : c # b => buffer'[c] = buffer[c]
    BY <1>2, <2>3, <2>4
  <2>6. [header |-> NoHeader, records |-> <<record>>] \in Contents
    BY <2>2 DEF Contents, NoHeader
  <2>7. /\ region' \in [Slots -> Contents] /\ region'[slot].records = <<record>>
        /\ \A s \in Slots : s # slot => region'[s] = region[s]
    BY <1>2, <2>1, <2>3, <2>6
  <2>8. slots' = kept \cup ({buffer'[b].slot} \ {NoSlot})
        /\ buffer'[b].slot \notin kept
    BY <2>1, <2>3, <2>4, <2>5
  <2>9. \A n \in DOMAIN region'[buffer'[b].slot].records :
          region'[buffer'[b].slot].records[n].direct =>
            region'[buffer'[b].slot].records[n].from = buffer'[b].sequence
    <3>1. DOMAIN <<record>> = {1}
      OBVIOUS
    <3> QED
      BY <2>2, <2>4, <2>5, <2>7, <3>1
  <2>10. ASSUME app.synced PROVE RecordingKnown(b)'
    <3>1. thread'[b] = Idle /\ ~Replayable(b)'
      BY <1>1, <2>4, <2>5, <2>10 DEF Replayable
    <3>2. <<record>> \o <<>> = <<record>>
      BY <2>2, ConcatEmptySeq
    <3> QED
      BY <2>4, <2>5, <2>7, <3>1, <3>2 DEF RecordingKnown
  <2>11. next_sequence' \in Nat /\ next_sequence <= next_sequence'
         /\ buffer'[b].sequence < next_sequence'
    BY <1>2, <2>3, <2>4, <2>5
  <2>12. /\ buffer'[b].slot = slot /\ buffer'[b].life = "live"
         /\ ~buffer'[b].uploaded /\ thread' \in [Buffers -> Calls]
         /\ \A c \in Buffers : c # b => thread'[c] = thread[c]
         /\ thread'[b].at = "append" => ~thread'[b].record.direct
    BY <1>1, <1>2, <1>3, <2>4, <2>5
  <2>13. old.life # "gone"
    BY <1>1
  <2> QED
    BY <1>1, <2>1, <2>5, <2>7, <2>8, <2>9, <2>10, <2>11, <2>12, <2>13,
       OneBufferStep
<1>7. CASE ~(~old.recording /\ kept # Slots)
  <2>1. /\ slots' = kept /\ UNCHANGED <<next_sequence, region>>
        /\ \/ /\ old.recording
              /\ buffer' = [buffer EXCEPT ![b] =
                   [[old EXCEPT !.slot = NoSlot]
                      EXCEPT !.recording = FALSE, !.error = TRUE]]
           \/ buffer' = [buffer EXCEPT ![b] =
                [[EmptyStream EXCEPT !.slot = NoSlot]
                   EXCEPT !.recording = FALSE, !.error = TRUE]]
    <3>1. CASE old.recording
      BY <1>4, <3>1 DEF release_command_stream_slot
    <3>2. CASE ~old.recording
      <4>1. leased.state = EmptyStream /\ leased.state.slot = NoSlot
        BY <1>7, <1>4, <1>5, <3>2, EmptyStreamFacts
        DEF lease_command_stream_slot
      <4>2. kept \ {NoSlot} = kept
        BY <1>2, NoSlotFacts
      <4>3. failed.state = [EmptyStream EXCEPT !.slot = NoSlot]
            /\ failed.slots = kept
        BY <1>4, <1>5, <3>2, <4>2, EmptyStreamFacts
        DEF release_command_stream_slot
      <4> HIDE DEF kept
      <4> QED
        BY <1>4, <3>2, <4>1, <4>3
    <3> QED
      BY <3>1, <3>2
  <2>2. \E s \in StreamStates :
          /\ buffer' = [buffer EXCEPT ![b] = s] /\ s.slot = NoSlot
          /\ ~s.recording /\ s.error /\ s.life = "live" /\ ~s.uploaded
          /\ s.sequence \in Nat /\ s.sequence < next_sequence
    <3>1. CASE /\ old.recording
               /\ buffer' = [buffer EXCEPT ![b] =
                    [[old EXCEPT !.slot = NoSlot]
                       EXCEPT !.recording = FALSE, !.error = TRUE]]
      <4> DEFINE s == [[old EXCEPT !.slot = NoSlot]
                         EXCEPT !.recording = FALSE, !.error = TRUE]
      <4>1. /\ s \in StreamStates /\ s.slot = NoSlot /\ ~s.recording /\ s.error
            /\ s.life = old.life /\ s.uploaded = old.uploaded
            /\ s.sequence = old.sequence
        BY <1>2 DEF StreamStates
      <4> QED
        BY <1>1, <1>3, <3>1, <4>1
    <3>2. CASE buffer' = [buffer EXCEPT ![b] =
                 [[EmptyStream EXCEPT !.slot = NoSlot]
                    EXCEPT !.recording = FALSE, !.error = TRUE]]
      <4> DEFINE s == [[EmptyStream EXCEPT !.slot = NoSlot]
                         EXCEPT !.recording = FALSE, !.error = TRUE]
      <4>1. /\ s \in StreamStates /\ s.slot = NoSlot /\ ~s.recording /\ s.error
            /\ s.life = "live" /\ ~s.uploaded /\ s.sequence = 0
        BY EmptyStreamFacts DEF StreamStates
      <4>2. 0 \in Nat /\ 0 < next_sequence
        BY <1>2, <1>3
      <4>3. buffer' = [buffer EXCEPT ![b] = s]
        BY <3>2
      <4> HIDE DEF s
      <4> QED
        BY <4>1, <4>2, <4>3
    <3> QED
      BY <2>1, <3>1, <3>2
  <2>3. /\ buffer' \in [Buffers -> StreamStates]
        /\ \A c \in Buffers : c # b => buffer'[c] = buffer[c]
        /\ buffer'[b].slot = NoSlot /\ ~buffer'[b].recording
        /\ buffer'[b].error /\ buffer'[b].life = "live"
        /\ ~buffer'[b].uploaded /\ buffer'[b].sequence < next_sequence
    BY <1>2, <2>2
  <2>4. slots' = kept \cup ({buffer'[b].slot} \ {NoSlot})
        /\ buffer'[b].slot \notin kept
    BY <1>2, <2>1, <2>3
  <2>5. ASSUME app.synced PROVE RecordingKnown(b)'
    BY <1>1, <2>3, <2>5 DEF RecordingKnown, Replayable
  <2>6. /\ thread' \in [Buffers -> Calls]
        /\ \A c \in Buffers : c # b => thread'[c] = thread[c]
        /\ thread'[b].at = "append" => ~thread'[b].record.direct
        /\ region' \in [Slots -> Contents]
        /\ \A s \in Slots : s # buffer'[b].slot => region'[s] = region[s]
        /\ next_sequence' \in Nat /\ next_sequence <= next_sequence'
        /\ buffer'[b].sequence < next_sequence'
        /\ buffer[b].life # "gone"
    BY <1>1, <1>2, <1>3, <2>1, <2>3
  <2> QED
    BY <1>1, <2>3, <2>4, <2>5, <2>6, OneBufferStep
<1> QED
  BY <1>6, <1>7

\* Recording ends: the stream is sealed in its slot, or gives it back.
LEMMA EndStep ==
  ASSUME StreamInv, NEW b \in Buffers, vkEndCommandBuffer(b)
  PROVE  StreamInv'
<1>1. /\ UNCHANGED <<next_sequence, thread, owned, submit, app, native,
                     generations, begun, repeated, misrun>>
      /\ b \notin Submitted /\ buffer[b].life = "live"
      /\ app.synced => thread[b] = Idle
  BY DEF vkEndCommandBuffer, service_vars, Callable, StreamFree
<1>2. PICK old, records, failed, last :
        /\ old \in StreamStates
        /\ old = buffer[b] /\ records = region[old.slot].records
        /\ failed = release_command_stream_slot(old, slots)
        /\ last = Rec("end", None, old.sequence, TRUE)
        /\ IF /\ old.recording /\ ~ old.error
              /\ old.slot # NoSlot /\ Len(records) < SlotRecords
           THEN /\ buffer' = [buffer EXCEPT ![b] =
                     [old EXCEPT !.length = Len(records) + 1, !.sealed = TRUE,
                        !.recording = FALSE, !.wrote = Append(@, last)]]
                /\ region' = [region EXCEPT ![old.slot] =
                     [header |-> [id |-> b, sequence |-> old.sequence,
                                  length |-> Len(records) + 1],
                      records |-> Append(records, last)]]
                /\ UNCHANGED slots
           ELSE /\ buffer' = [buffer EXCEPT ![b] =
                     [failed.state EXCEPT !.length = 0, !.sealed = FALSE,
                        !.error = TRUE, !.recording = FALSE]]
                /\ slots' = failed.slots
                /\ UNCHANGED region
  <2>1. buffer[b] \in StreamStates
    BY DEF StreamInv, ClientTypes
  <2> QED
    BY <2>1, Zenon DEF vkEndCommandBuffer
<1>3. /\ buffer \in [Buffers -> StreamStates] /\ slots \in SUBSET Slots
      /\ next_sequence \in Nat /\ thread \in [Buffers -> Calls]
      /\ region \in [Slots -> Contents] /\ NoSlot \notin slots
  BY NoSlotFacts DEF StreamInv, ClientTypes
<1>4. /\ old.sequence \in Nat /\ old.sequence < next_sequence
      /\ old.slot \in Slots \cup {NoSlot}
      /\ old.slot # NoSlot => ~old.uploaded /\ old.slot \in slots
      /\ thread[b].at = "append" => ~thread[b].record.direct
      /\ old.life = "live" /\ old.wrote \in Seq(Entries)
  BY <1>1, <1>2, <1>3 DEF StreamInv, LeasesKnown, DirectKnown, StreamStates
<1>5. /\ thread' \in [Buffers -> Calls]
      /\ \A c \in Buffers : c # b => thread'[c] = thread[c]
      /\ thread'[b].at = "append" => ~thread'[b].record.direct
      /\ next_sequence' \in Nat /\ next_sequence <= next_sequence'
      /\ buffer[b].life # "gone"
  BY <1>1, <1>3, <1>4
<1>6. CASE /\ old.recording /\ ~ old.error
           /\ old.slot # NoSlot /\ Len(records) < SlotRecords
  <2>1. /\ last \in Entries /\ last.from = old.sequence
    BY <1>2, <1>4 DEF Rec, Entries, Kinds
  <2>2. old.slot \in Slots /\ old.slot \in slots
    BY <1>4, <1>6
  <2>3. records \in Seq(Entries)
    BY <1>2, <1>3, <2>2 DEF Contents
  <2>4. /\ Append(records, last) \in Seq(Entries)
        /\ Append(old.wrote, last) \in Seq(Entries)
        /\ Len(Append(records, last)) = Len(records) + 1 /\ Len(records) \in Nat
        /\ Append(records, last)[Len(records) + 1] = last
        /\ \A n \in 1 .. Len(records) : Append(records, last)[n] = records[n]
    BY <1>4, <2>1, <2>3, AppendProperties, LenProperties
  <2>5. /\ DOMAIN Append(records, last) = 1 .. Len(records) + 1
        /\ DOMAIN records = 1 .. Len(records)
    BY <2>3, <2>4, LenProperties
  <2>6. PICK new : new = [old EXCEPT !.length = Len(records) + 1, !.sealed = TRUE,
                            !.recording = FALSE, !.wrote = Append(@, last)]
    OBVIOUS
  <2>7. /\ new \in StreamStates /\ new.slot = old.slot /\ ~new.recording
        /\ new.sequence = old.sequence /\ new.uploaded = old.uploaded
        /\ new.life = "live" /\ new.wrote = Append(old.wrote, last)
    <3>1. PICK l \in Nat, w \in Seq(Entries) :
            l = Len(records) + 1 /\ w = Append(old.wrote, last)
      <4>1. Len(records) + 1 \in Nat
        BY <2>4
      <4> QED
        BY <2>4, <4>1, Zenon
    <3>2. new = [old EXCEPT !.length = l, !.sealed = TRUE,
                            !.recording = FALSE, !.wrote = w]
      BY <2>6, <3>1
    <3>3. /\ new \in StreamStates /\ new.slot = old.slot /\ ~new.recording
          /\ new.sequence = old.sequence /\ new.uploaded = old.uploaded
          /\ new.life = old.life /\ new.wrote = w
      BY <1>2, <3>2 DEF StreamStates
    <3> QED
      BY <1>4, <3>1, <3>3
  <2>8. PICK content :
          content = [header |-> [id |-> b, sequence |-> old.sequence,
                                 length |-> Len(records) + 1],
                     records |-> Append(records, last)]
    OBVIOUS
  <2>9. content \in Contents /\ content.records = Append(records, last)
    BY <1>4, <2>4, <2>8 DEF Contents
  <2>10. /\ buffer' = [buffer EXCEPT ![b] = new] /\ slots' = slots
         /\ region' = [region EXCEPT ![old.slot] = content]
    BY <1>2, <1>6, <2>6, <2>8
  <2>11. /\ buffer' \in [Buffers -> StreamStates] /\ buffer'[b] = new
         /\ \A c \in Buffers : c # b => buffer'[c] = buffer[c]
         /\ region' \in [Slots -> Contents] /\ region'[old.slot] = content
         /\ \A s \in Slots : s # old.slot => region'[s] = region[s]
    BY <1>3, <2>2, <2>7, <2>9, <2>10
  <2>12. /\ buffer'[b].slot = old.slot /\ buffer'[b].sequence = old.sequence
         /\ slots' = (slots \ {buffer[b].slot}) \cup ({buffer'[b].slot} \ {NoSlot})
         /\ buffer'[b].slot \notin slots \ {buffer[b].slot}
    BY <1>2, <1>6, <2>2, <2>7, <2>10, <2>11
  <2>13. \A n \in DOMAIN region'[buffer'[b].slot].records :
           region'[buffer'[b].slot].records[n].direct =>
             region'[buffer'[b].slot].records[n].from = buffer'[b].sequence
    <3>1. \A n \in 1 .. Len(records) :
            records[n].direct => records[n].from = old.sequence
      BY <1>2, <1>6, <2>5 DEF StreamInv, DirectKnown, DirectStaysInRecording
    <3>2. ASSUME NEW n \in 1 .. Len(records) + 1, Append(records, last)[n].direct
          PROVE  Append(records, last)[n].from = old.sequence
      <4>1. CASE n = Len(records) + 1
        BY <2>1, <2>4, <4>1
      <4>2. CASE n # Len(records) + 1
        <5>1. n \in 1 .. Len(records)
          BY <2>4, <4>2
        <5> QED
          BY <2>4, <3>1, <3>2, <5>1
      <4> QED
        BY <4>1, <4>2
    <3> QED
      BY <2>5, <2>9, <2>11, <2>12, <3>2
  <2>14. ASSUME app.synced PROVE RecordingKnown(b)'
    <3>1. RecordingKnown(b) /\ thread[b] = Idle
      BY <1>1, <2>14 DEF StreamInv, CarefulKnown
    <3>2. old.wrote = records \o <<>>
      BY <1>2, <1>4, <1>6, <3>1 DEF RecordingKnown
    <3>3. old.wrote = records
      BY <2>3, <3>2, ConcatEmptySeq
    <3>4. buffer'[b].wrote = region'[buffer'[b].slot].records
      BY <2>7, <2>9, <2>11, <2>12, <3>3
    <3>5. ~buffer'[b].uploaded /\ ~buffer'[b].recording
      BY <1>4, <1>6, <2>7, <2>11
    <3> QED
      BY <1>1, <3>1, <3>4, <3>5 DEF RecordingKnown
  <2>15. /\ buffer'[b].sequence < next_sequence' /\ buffer'[b].life = "live"
         /\ ~buffer'[b].uploaded /\ ~buffer'[b].recording
         /\ \A s \in Slots : s # buffer'[b].slot => region'[s] = region[s]
    BY <1>1, <1>4, <1>6, <2>7, <2>11, <2>12
  <2> QED
    BY <1>1, <1>5, <2>11, <2>12, <2>13, <2>14, <2>15, OneBufferStep
<1>7. CASE ~ (/\ old.recording /\ ~ old.error
              /\ old.slot # NoSlot /\ Len(records) < SlotRecords)
  <2>1. failed.state = [old EXCEPT !.slot = NoSlot]
        /\ failed.slots = slots \ {old.slot}
    BY <1>2 DEF release_command_stream_slot
  <2>2. PICK new : new = [[old EXCEPT !.slot = NoSlot]
                            EXCEPT !.length = 0, !.sealed = FALSE,
                                   !.error = TRUE, !.recording = FALSE]
    OBVIOUS
  <2>3. /\ new \in StreamStates /\ new.slot = NoSlot /\ ~new.recording
        /\ new.sequence = old.sequence /\ new.uploaded = old.uploaded
        /\ new.life = "live" /\ new.wrote = old.wrote /\ ~new.sealed
    BY <1>2, <1>4, <2>2 DEF StreamStates
  <2>4. /\ buffer' = [buffer EXCEPT ![b] = new] /\ slots' = slots \ {old.slot}
        /\ region' = region
    BY <1>2, <1>7, <2>1, <2>2
  <2>5. /\ buffer' \in [Buffers -> StreamStates] /\ buffer'[b] = new
        /\ \A c \in Buffers : c # b => buffer'[c] = buffer[c]
        /\ region' \in [Slots -> Contents]
        /\ \A s \in Slots : s # buffer'[b].slot => region'[s] = region[s]
    BY <1>3, <2>3, <2>4
  <2>6. /\ slots' = (slots \ {buffer[b].slot}) \cup ({buffer'[b].slot} \ {NoSlot})
        /\ buffer'[b].slot \notin slots \ {buffer[b].slot}
    BY <1>2, <1>3, <2>3, <2>4, <2>5
  <2>7. ASSUME app.synced PROVE RecordingKnown(b)'
    <3>1. RecordingKnown(b) /\ thread[b] = Idle
      BY <1>1, <2>7 DEF StreamInv, CarefulKnown
    <3>2. old.uploaded =>
            native[b] = [state |-> "executable", records |-> old.wrote]
      BY <1>2, <1>4, <3>1 DEF RecordingKnown
    <3>3. ~Replayable(b)'
      BY <2>3, <2>5 DEF Replayable
    <3> QED
      BY <1>1, <2>3, <2>5, <3>1, <3>2, <3>3 DEF RecordingKnown
  <2>8. /\ buffer'[b].sequence < next_sequence' /\ buffer'[b].life = "live"
        /\ buffer'[b].slot = NoSlot /\ ~buffer'[b].recording
    BY <1>1, <1>4, <2>3, <2>5
  <2> QED
    BY <1>1, <1>5, <2>5, <2>6, <2>7, <2>8, OneBufferStep
<1> QED
  BY <1>6, <1>7

\* Command buffers that hold live recordings give their slots back.
LEMMA SlotsReturned ==
  ASSUME StreamInv, NEW bs \in SUBSET Buffers,
         \A b \in bs : buffer[b].life = "live",
         buffer' \in [Buffers -> StreamStates],
         \A c \in Buffers \ bs : buffer'[c] = buffer[c],
         \A b \in bs :
           /\ buffer'[b].slot = NoSlot /\ buffer'[b].life \in {"live", "gone"}
           /\ buffer'[b].sequence \in {0, buffer[b].sequence}
           /\ buffer'[b].life = "live" => ~buffer'[b].recording,
         slots' = slots \ {buffer[b].slot : b \in bs},
         UNCHANGED <<next_sequence, thread, region, generations, begun, repeated>>
  PROVE  ClientTypes' /\ LeasesKnown' /\ DirectKnown' /\ BegunKnown'
<1> USE DEF StreamInv
<1>1. ClientTypes'
  BY DEF ClientTypes
<1>2. \A c \in Buffers \ bs :
        buffer[c].slot # NoSlot => buffer[c].slot \in slots'
  <2> SUFFICES ASSUME NEW c \in Buffers \ bs, buffer[c].slot # NoSlot
               PROVE  buffer[c].slot \in slots'
    OBVIOUS
  <2>1. buffer[c].slot \in slots
    BY DEF LeasesKnown
  <2>2. \A b \in bs : buffer[b].slot # buffer[c].slot
    BY DEF LeasesKnown
  <2> QED
    BY <2>1, <2>2
<1>3. LeasesKnown'
  <2>1. ASSUME NEW c \in Buffers
        PROVE  /\ buffer'[c].sequence < next_sequence'
               /\ buffer'[c].life = "new" =>
                    /\ buffer'[c] = [EmptyStream EXCEPT !.life = "new"]
                    /\ thread'[c] = Idle
               /\ buffer'[c].slot # NoSlot => /\ buffer'[c].life = "live"
                                              /\ ~ buffer'[c].uploaded
                                              /\ buffer'[c].slot \in slots'
               /\ buffer'[c].life = "live" /\ buffer'[c].recording =>
                    buffer'[c].slot # NoSlot
    <3>1. CASE c \in bs
      <4>1. /\ buffer[c].sequence \in Nat /\ buffer[c].sequence < next_sequence
            /\ next_sequence \in Nat
        BY DEF LeasesKnown, ClientTypes, StreamStates
      <4> QED
        BY <3>1, <4>1
    <3>2. CASE c \notin bs
      BY <1>2, <3>2 DEF LeasesKnown
    <3> QED
      BY <3>1, <3>2
  <2>2. ASSUME NEW c \in Buffers, NEW d \in Buffers,
               buffer'[c].slot # NoSlot, buffer'[c].slot = buffer'[d].slot
        PROVE  c = d
    BY <2>2 DEF LeasesKnown
  <2>3. ASSUME NEW s \in slots'
        PROVE  \E c \in Buffers : buffer'[c].slot = s
    <3>1. PICK c \in Buffers : buffer[c].slot = s
      BY <2>3 DEF LeasesKnown
    <3>2. c \notin bs
      BY <2>3, <3>1
    <3> QED
      BY <3>1, <3>2
  <2> QED
    BY <2>1, <2>2, <2>3 DEF LeasesKnown
<1>4. DirectKnown'
  <2>1. ASSUME NEW c \in Buffers, buffer'[c].slot # NoSlot
        PROVE  buffer'[c] = buffer[c]
    BY <2>1
  <2>2. ASSUME NEW c \in Buffers, buffer'[c].slot # NoSlot,
               NEW n \in DOMAIN region'[buffer'[c].slot].records,
               region'[buffer'[c].slot].records[n].direct
        PROVE  region'[buffer'[c].slot].records[n].from = buffer'[c].sequence
    <3>1. /\ buffer'[c] = buffer[c] /\ buffer[c].slot # NoSlot
          /\ region'[buffer[c].slot] = region[buffer[c].slot]
      BY <2>1, <2>2
    <3>2. \A m \in DOMAIN region[buffer[c].slot].records :
            region[buffer[c].slot].records[m].direct =>
              region[buffer[c].slot].records[m].from = buffer[c].sequence
      BY <3>1 DEF DirectKnown, DirectStaysInRecording
    <3> QED
      BY <2>2, <3>1, <3>2
  <2>3. \A c \in Buffers : thread'[c].at = "append" => ~thread'[c].record.direct
    BY DEF DirectKnown
  <2> QED
    BY <2>2, <2>3 DEF DirectKnown, DirectStaysInRecording
<1>5. BegunKnown'
  <2>1. ASSUME NEW name \in begun
        PROVE  \/ buffer'[name[1]].life = "gone"
               \/ /\ buffer'[name[1]].life = "live"
                  /\ name[1] \in DOMAIN generations
                  /\ name[2] <= generations[name[1]]
    <3>1. /\ name[1] \in Buffers
          /\ \/ buffer[name[1]].life = "gone"
             \/ /\ buffer[name[1]].life = "live"
                /\ name[1] \in DOMAIN generations
                /\ name[2] <= generations[name[1]]
      BY DEF BegunKnown
    <3> QED
      BY <3>1
  <2> QED
    BY <2>1 DEF BegunKnown
<1> QED
  BY <1>1, <1>3, <1>4, <1>5

\* Command buffers are reset or freed while no submission is in progress: they
\* give their slots back and what the driver holds for them is void.
LEMMA ResetStep ==
  ASSUME StreamInv, submit = Idle, NEW bs \in SUBSET Buffers,
         \A b \in bs : buffer[b].life = "live",
         buffer' \in [Buffers -> StreamStates],
         \A c \in Buffers \ bs : buffer'[c] = buffer[c] /\ native'[c] = native[c],
         \A b \in bs :
           /\ buffer'[b].slot = NoSlot /\ buffer'[b].life \in {"live", "gone"}
           /\ buffer'[b].sequence \in {0, buffer[b].sequence}
           /\ buffer'[b].life = "live" =>
                /\ ~buffer'[b].recording /\ ~buffer'[b].sealed
                /\ ~buffer'[b].uploaded
                /\ app.synced => thread[b] = Idle,
         native' \in [Buffers -> [state : {"initial", "executable", "broken"},
                                  records : Seq(Entries)]],
         slots' = slots \ {buffer[b].slot : b \in bs},
         UNCHANGED <<next_sequence, thread, region, submit, generations, begun,
                     repeated, misrun, app>>
  PROVE  StreamInv'
<1>1. ClientTypes' /\ LeasesKnown' /\ DirectKnown' /\ BegunKnown'
  BY SlotsReturned
<1> USE DEF StreamInv
<1>2. ServiceTypes'
  BY DEF ServiceTypes
<1>3. SubmitKnown'
  BY DEF SubmitKnown, Idle
<1>4. CarefulKnown'
  <2>1. ASSUME app.synced, NEW c \in Buffers PROVE RecordingKnown(c)'
    <3>1. CASE c \in bs
      BY <2>1, <3>1 DEF RecordingKnown, Replayable
    <3>2. CASE c \notin bs
      <4>1. RecordingKnown(c)
        BY <2>1 DEF CarefulKnown
      <4>2. Replayable(c)' <=> Replayable(c)
        BY <3>2 DEF Replayable
      <4> QED
        BY <3>2, <4>1, <4>2 DEF RecordingKnown
    <3> QED
      BY <3>1, <3>2
  <2>2. submit'.at = "idle"
    BY DEF Idle
  <2> QED
    BY <2>1, <2>2 DEF CarefulKnown
<1> QED
  BY <1>1, <1>2, <1>3, <1>4

\* A pool is reset or destroyed, or a command buffer freed.
LEMMA PoolStep ==
  ASSUME StreamInv,
         \/ vkResetCommandPool \/ vkDestroyCommandPool
         \/ \E b \in Buffers : vkFreeCommandBuffers(b)
  PROVE  StreamInv'
<1>1. /\ buffer \in [Buffers -> StreamStates]
      /\ native \in [Buffers -> [state : {"initial", "executable", "broken"},
                                 records : Seq(Entries)]]
      /\ [state |-> "initial", records |-> <<>>] \in
           [state : {"initial", "executable", "broken"}, records : Seq(Entries)]
  BY DEF StreamInv, ClientTypes, ServiceTypes
<1>2. ASSUME NEW b \in Buffers
      PROVE  /\ reset_command_stream_state(buffer[b], slots).state = EmptyStream
             /\ Freed(b) \in StreamStates /\ Freed(b).slot = NoSlot
             /\ Freed(b).life = "gone" /\ Freed(b).sequence = buffer[b].sequence
  <2>1. Freed(b) = [[buffer[b] EXCEPT !.slot = NoSlot] EXCEPT !.life = "gone"]
    BY DEF Freed, release_command_stream_slot
  <2>2. ASSUME NEW s \in StreamStates, NEW t,
               t = [[s EXCEPT !.slot = NoSlot] EXCEPT !.life = "gone"]
        PROVE  /\ t \in StreamStates /\ t.slot = NoSlot /\ t.life = "gone"
               /\ t.sequence = s.sequence
    BY <2>2 DEF StreamStates
  <2>3. reset_command_stream_state(buffer[b], slots).state = EmptyStream
    BY DEF reset_command_stream_state
  <2> QED
    BY <1>1, <2>1, <2>2, <2>3
<1>3. \E bs, states :
        /\ bs \in SUBSET Buffers
        /\ submit = Idle /\ Reset(bs, states)
        /\ \A b \in bs :
             /\ buffer[b].life = "live"
             /\ \/ states[b] = EmptyStream /\ (app.synced => thread[b] = Idle)
                \/ states[b] = Freed(b)
  <2>1. CASE vkResetCommandPool
    <3> DEFINE live == {b \in Buffers : buffer[b].life = "live"}
               states == [b \in live |->
                            reset_command_stream_state(buffer[b], slots).state]
    <3>1. /\ submit = Idle /\ Reset(live, states)
          /\ app.synced => \A b \in live : thread[b] = Idle
      BY <2>1 DEF vkResetCommandPool, ClientFree
    <3>2. \A b \in live : states[b] = EmptyStream /\ buffer[b].life = "live"
      BY <1>2
    <3>3. live \in SUBSET Buffers
      OBVIOUS
    <3> HIDE DEF live, states
    <3> QED
      BY <3>1, <3>2, <3>3
  <2>2. CASE vkDestroyCommandPool
    <3> DEFINE live == {b \in Buffers : buffer[b].life = "live"}
               states == [b \in live |-> Freed(b)]
    <3>1. submit = Idle /\ Reset(live, states)
      BY <2>2 DEF vkDestroyCommandPool, ClientFree
    <3>2. \A b \in live : states[b] = Freed(b) /\ buffer[b].life = "live"
      OBVIOUS
    <3>3. live \in SUBSET Buffers
      OBVIOUS
    <3> HIDE DEF live, states
    <3> QED
      BY <3>1, <3>2, <3>3
  <2>3. CASE \E b \in Buffers : vkFreeCommandBuffers(b)
    <3>1. PICK b \in Buffers : vkFreeCommandBuffers(b)
      BY <2>3
    <3> DEFINE one == {b}
               states == [c \in {b} |-> Freed(c)]
    <3>2. submit = Idle /\ Reset(one, states)
      BY <3>1 DEF vkFreeCommandBuffers, ClientFree
    <3>3. \A c \in one : states[c] = Freed(c) /\ buffer[c].life = "live"
      BY <3>1 DEF vkFreeCommandBuffers
    <3>4. one \in SUBSET Buffers
      OBVIOUS
    <3> HIDE DEF one, states
    <3> QED
      BY <3>2, <3>3, <3>4
  <2> QED
    BY <2>1, <2>2, <2>3
<1>4. PICK bs, states :
        /\ bs \in SUBSET Buffers
        /\ submit = Idle /\ Reset(bs, states)
        /\ \A b \in bs :
             /\ buffer[b].life = "live"
             /\ \/ states[b] = EmptyStream /\ (app.synced => thread[b] = Idle)
                \/ states[b] = Freed(b)
  BY <1>3
<1>5. /\ buffer' = [b \in Buffers |-> IF b \in bs THEN states[b] ELSE buffer[b]]
      /\ slots' = slots \ {buffer[b].slot : b \in bs}
      /\ native' = [b \in Buffers |-> IF b \in bs
                      THEN [state |-> "initial", records |-> <<>>] ELSE native[b]]
      /\ UNCHANGED <<next_sequence, thread, region, submit, generations, begun,
                     repeated, misrun, app>>
  BY <1>4 DEF Reset
<1>6. \A b \in bs :
        /\ states[b] \in StreamStates
        /\ states[b].slot = NoSlot /\ states[b].life \in {"live", "gone"}
        /\ states[b].sequence \in {0, buffer[b].sequence}
        /\ states[b].life = "live" =>
             /\ ~states[b].recording /\ ~states[b].sealed /\ ~states[b].uploaded
             /\ app.synced => thread[b] = Idle
  BY <1>2, <1>4, EmptyStreamFacts
<1>7. /\ buffer' \in [Buffers -> StreamStates]
      /\ \A c \in Buffers \ bs : buffer'[c] = buffer[c] /\ native'[c] = native[c]
      /\ \A c \in bs : buffer'[c] = states[c]
  BY <1>1, <1>4, <1>5, <1>6
<1>8. native' \in [Buffers -> [state : {"initial", "executable", "broken"},
                               records : Seq(Entries)]]
  BY <1>1, <1>5
<1> QED
  BY <1>4, <1>5, <1>6, <1>7, <1>8, ResetStep

(***************************************************************************)
(* Submission: the client's half.                                          *)
(***************************************************************************)

\* What the invariant says does not depend on the objects.
LEMMA SameStep ==
  ASSUME StreamInv,
         UNCHANGED <<buffer, slots, next_sequence, thread, region, submit, native,
                     generations, begun, repeated, misrun, app>>
  PROVE  StreamInv'
<1>1. \A b \in Buffers : RecordingKnown(b) <=> RecordingKnown(b)'
  BY DEF RecordingKnown, Replayable
<1>2. CarefulKnown'
  BY <1>1 DEF StreamInv, CarefulKnown
<1>3. ClientTypes' /\ ServiceTypes' /\ LeasesKnown' /\ BegunKnown'
  BY DEF StreamInv, ClientTypes, ServiceTypes, LeasesKnown, BegunKnown
<1>4. DirectKnown'
  BY DEF StreamInv, DirectKnown, DirectStaysInRecording
<1>5. SubmitKnown'
  BY DEF StreamInv, SubmitKnown, CommandRef, Replayable
<1> QED
  BY <1>2, <1>3, <1>4, <1>5 DEF StreamInv

\* vkQueueSubmit runs native command buffers that hold what was recorded.
LEMMA QueueSubmitStep ==
  ASSUME StreamInv, NEW b \in Buffers, vkQueueSubmit(b)
  PROVE  StreamInv'
<1>1. /\ buffer[b].life = "live" /\ (app.synced => buffer[b].sealed)
      /\ ~ (buffer[b].sealed /\ ~ buffer[b].uploaded)
      /\ misrun' = misrun \cup Misrun({b}, native)
      /\ UNCHANGED <<buffer, slots, next_sequence, thread, region, submit, native,
                     generations, begun, repeated, app>>
  BY DEF vkQueueSubmit, Callable, StreamFree
<1>2. app.synced =>
        native[b] = [state |-> "executable", records |-> buffer[b].wrote]
  BY <1>1 DEF StreamInv, CarefulKnown, RecordingKnown
<1>3. Misrun({b}, native) = {}
  BY <1>2 DEF Misrun
<1>4. misrun' = misrun
  BY <1>1, <1>3
<1> QED
  BY <1>1, <1>4, SameStep

\* The submission names its command buffers as they are.
LEMMA QueueSubmit2Step ==
  ASSUME StreamInv, vkQueueSubmit2
  PROVE  StreamInv'
<1>1. PICK bs \in SeqOf(Buffers, MaxCommands) :
        /\ \A n \in DOMAIN bs :
             /\ buffer[bs[n]].life = "live"
             /\ buffer[bs[n]].uploaded \/ Replayable(bs[n])
        /\ submit' = [at |-> "sent",
                      commands |-> [n \in DOMAIN bs |-> CommandRef(bs[n])]]
        /\ UNCHANGED <<buffer, slots, next_sequence, thread, region, owned, app,
                       native, generations, begun, repeated, misrun>>
  BY DEF vkQueueSubmit2, service_vars, Callable, StreamFree
<1>2. PICK m \in Nat : bs \in [1 .. m -> Buffers]
  BY CommandStreamAssumption DEF SeqOf
<1>3. ASSUME NEW b \in Buffers PROVE CommandRef(b) \in References
  <2>1. buffer[b] \in StreamStates
    BY DEF StreamInv, ClientTypes
  <2> QED
    BY <2>1 DEF CommandRef, References, StreamStates
<1>4. PICK commands : commands = [n \in 1 .. m |-> CommandRef(bs[n])]
  OBVIOUS
<1>5. /\ commands \in Seq(References) /\ DOMAIN commands = 1 .. m
      /\ \A n \in 1 .. m : commands[n] = CommandRef(bs[n])
  <2>1. commands \in [1 .. m -> References]
    BY <1>2, <1>3, <1>4
  <2> QED
    BY <1>4, <2>1, SeqDef
<1>6. submit' = [at |-> "sent", commands |-> commands]
  BY <1>1, <1>2, <1>4
<1>7. SubmitKnown'
  <2>1. ASSUME NEW n \in 1 .. m
        PROVE  /\ commands[n].id = bs[n] /\ bs[n] \in Buffers
               /\ commands[n] = CommandRef(bs[n])'
               /\ buffer'[bs[n]].life = "live"
               /\ buffer'[bs[n]].uploaded \/ Replayable(bs[n])'
    <3>1. commands[n] = CommandRef(bs[n]) /\ bs[n] \in Buffers
      BY <1>2, <1>5
    <3>2. commands[n].id = bs[n]
      BY <3>1 DEF CommandRef
    <3>3. CommandRef(bs[n])' = CommandRef(bs[n])
      BY <1>1 DEF CommandRef
    <3>4. Replayable(bs[n])' <=> Replayable(bs[n])
      BY <1>1 DEF Replayable
    <3> QED
      BY <1>1, <1>2, <3>1, <3>2, <3>3, <3>4
  <2> QED
    BY <1>5, <1>6, <2>1 DEF SubmitKnown
<1>8. CarefulKnown'
  <2>1. \A b \in Buffers : RecordingKnown(b) <=> RecordingKnown(b)'
    BY <1>1 DEF RecordingKnown, Replayable
  <2> QED
    BY <1>1, <1>6, <2>1 DEF StreamInv, CarefulKnown
<1>9. ClientTypes' /\ ServiceTypes' /\ LeasesKnown' /\ BegunKnown'
  BY <1>1 DEF StreamInv, ClientTypes, ServiceTypes, LeasesKnown, BegunKnown
<1>10. DirectKnown'
  BY <1>1 DEF StreamInv, DirectKnown, DirectStaysInRecording
<1> QED
  BY <1>7, <1>8, <1>9, <1>10 DEF StreamInv

\* A clean answer retires the slots of the streams it was given.
LEMMA SubmitReturnsStep ==
  ASSUME StreamInv, SubmitReturns
  PROVE  StreamInv'
<1>1. PICK clean :
        /\ clean = IF submit.status = "SUCCESS"
                   THEN {submit.commands[n].id : n \in Streams(submit.commands)}
                   ELSE {}
        /\ submit.at = "answered"
        /\ buffer' = [b \in Buffers |-> IF b \in clean
                        THEN [buffer[b] EXCEPT !.uploaded = TRUE, !.slot = NoSlot]
                        ELSE buffer[b]]
        /\ slots' = slots \ {buffer[b].slot : b \in clean}
        /\ submit' = Idle
        /\ UNCHANGED <<next_sequence, thread, region, app, native, generations,
                       begun, repeated, misrun>>
  <2>1. PICK clean :
          clean = IF submit.status = "SUCCESS"
                  THEN {submit.commands[n].id : n \in Streams(submit.commands)}
                  ELSE {}
    OBVIOUS
  <2> QED
    BY <2>1 DEF SubmitReturns, service_vars
<1>2. buffer \in [Buffers -> StreamStates]
  BY DEF StreamInv, ClientTypes
<1>3. ASSUME NEW b \in clean
      PROVE  /\ b \in Buffers /\ buffer[b].life = "live" /\ Replayable(b)
             /\ app.synced =>
                  native[b] = [state |-> "executable", records |-> buffer[b].wrote]
  <2>1. PICK n \in DOMAIN submit.commands :
          /\ b = submit.commands[n].id /\ submit.commands[n].stream
          /\ submit.status = "SUCCESS"
    BY <1>1, <1>3 DEF Streams
  <2>2. /\ submit.commands \in Seq(References)
        /\ submit.commands[n] = CommandRef(b) /\ buffer[b].life = "live"
        /\ buffer[b].uploaded \/ Replayable(b)
    BY <1>1, <2>1 DEF StreamInv, SubmitKnown
  <2>3. b \in Buffers
    <3>1. submit.commands[n] \in References
      BY <2>2
    <3> QED
      BY <2>1, <3>1 DEF References
  <2>4. Replayable(b)
    <3>1. CommandRef(b).stream = ~ buffer[b].uploaded
      BY DEF CommandRef
    <3> QED
      BY <2>1, <2>2, <3>1, Zenon
  <2>5. app.synced =>
          native[b] = [state |-> "executable", records |-> buffer[b].wrote]
    BY <1>1, <2>1 DEF StreamInv, CarefulKnown
  <2> QED
    BY <2>2, <2>3, <2>4, <2>5
<1>4. ASSUME NEW b \in clean
      PROVE  /\ buffer'[b] \in StreamStates /\ buffer'[b].slot = NoSlot
             /\ buffer'[b].life = "live" /\ ~buffer'[b].recording
             /\ buffer'[b].sequence = buffer[b].sequence
             /\ buffer'[b].wrote = buffer[b].wrote
  <2>1. ASSUME NEW s \in StreamStates, ~s.recording
        PROVE  /\ [s EXCEPT !.uploaded = TRUE, !.slot = NoSlot] \in StreamStates
               /\ [s EXCEPT !.uploaded = TRUE, !.slot = NoSlot].slot = NoSlot
               /\ [s EXCEPT !.uploaded = TRUE, !.slot = NoSlot].life = s.life
               /\ ~[s EXCEPT !.uploaded = TRUE, !.slot = NoSlot].recording
               /\ [s EXCEPT !.uploaded = TRUE, !.slot = NoSlot].sequence
                    = s.sequence
               /\ [s EXCEPT !.uploaded = TRUE, !.slot = NoSlot].wrote = s.wrote
    BY <2>1 DEF StreamStates
  <2>2. buffer'[b] = [buffer[b] EXCEPT !.uploaded = TRUE, !.slot = NoSlot]
    BY <1>1, <1>3
  <2>3. buffer[b] \in StreamStates /\ ~buffer[b].recording
    BY <1>2, <1>3 DEF Replayable
  <2> QED
    BY <1>3, <2>1, <2>2, <2>3, ZenonT(40)
<1>5. /\ clean \in SUBSET Buffers /\ buffer' \in [Buffers -> StreamStates]
      /\ \A c \in Buffers \ clean : buffer'[c] = buffer[c]
  <2>1. clean \in SUBSET Buffers
    BY <1>3
  <2>2. \A c \in Buffers \ clean : buffer'[c] = buffer[c]
    BY <1>1
  <2>3. \A c \in Buffers : buffer'[c] \in StreamStates
    BY <1>2, <1>4, <2>2
  <2> QED
    BY <1>1, <2>1, <2>2, <2>3
<1>6. ClientTypes' /\ LeasesKnown' /\ DirectKnown' /\ BegunKnown'
  BY <1>1, <1>3, <1>4, <1>5, SlotsReturned, ZenonT(40)
<1>7. ServiceTypes'
  BY <1>1 DEF StreamInv, ServiceTypes
<1>8. SubmitKnown'
  BY <1>1 DEF SubmitKnown, Idle
<1>9. CarefulKnown'
  <2>1. ASSUME app.synced, NEW c \in Buffers PROVE RecordingKnown(c)'
    <3>1. RecordingKnown(c)
      BY <2>1 DEF StreamInv, CarefulKnown
    <3>2. CASE c \in clean
      <4>1. thread[c] = Idle /\ ~Replayable(c)'
        <5>1. ~buffer[c].recording /\ buffer[c].life = "live"
          BY <1>3, <3>2 DEF Replayable
        <5>2. thread[c] = Idle
          BY <3>1, <5>1 DEF RecordingKnown
        <5>3. ~Replayable(c)'
          BY <1>4, <3>2, NoSlotFacts DEF Replayable
        <5> QED
          BY <5>2, <5>3
      <4>2. thread'[c] = Idle
        BY <1>1, <4>1
      <4>3. native'[c] = [state |-> "executable", records |-> buffer'[c].wrote]
        <5>1. native' = native
          BY <1>1
        <5>2. native[c] = [state |-> "executable", records |-> buffer[c].wrote]
          BY <1>3, <2>1, <3>2
        <5>3. buffer'[c].wrote = buffer[c].wrote
          BY <1>4, <3>2
        <5> QED
          BY <5>1, <5>2, <5>3
      <4>4. ~buffer'[c].recording
        BY <1>4, <3>2
      <4> QED
        BY <4>1, <4>2, <4>3, <4>4 DEF RecordingKnown
    <3>3. CASE c \notin clean
      <4>1. Replayable(c)' <=> Replayable(c)
        BY <1>5, <3>3 DEF Replayable
      <4> QED
        BY <1>1, <1>5, <3>1, <3>3, <4>1 DEF RecordingKnown
    <3> QED
      BY <3>2, <3>3
  <2> QED
    BY <1>1, <2>1 DEF StreamInv, CarefulKnown, Idle
<1> QED
  BY <1>6, <1>7, <1>8, <1>9 DEF StreamInv

(***************************************************************************)
(* Submission: the service's half.                                         *)
(***************************************************************************)

\* What a submission in progress names.
LEMMA SentFacts ==
  ASSUME StreamInv, submit.at # "idle", NEW k \in DOMAIN submit.commands,
         NEW c, c = submit.commands[k]
  PROVE  /\ c.id \in Buffers /\ buffer[c.id].life = "live"
         /\ c.slot = buffer[c.id].slot /\ c.sequence = buffer[c.id].sequence
         /\ c.sequence \in Nat /\ c.sequence < next_sequence
         /\ c.stream => /\ Replayable(c.id) /\ c.slot \in Slots
                        /\ ~buffer[c.id].uploaded
         /\ ~c.stream => buffer[c.id].uploaded
<1>1. /\ submit.commands \in Seq(References) /\ c = CommandRef(c.id)
      /\ buffer[c.id].life = "live"
      /\ buffer[c.id].uploaded \/ Replayable(c.id)
  BY DEF StreamInv, SubmitKnown
<1>2. c.id \in Buffers
  <2>1. c \in References
    BY <1>1
  <2> QED
    BY <2>1 DEF References
<1>3. /\ c.slot = buffer[c.id].slot /\ c.sequence = buffer[c.id].sequence
      /\ c.stream = ~ buffer[c.id].uploaded
  BY <1>1 DEF CommandRef
<1>4. buffer[c.id].sequence \in Nat /\ buffer[c.id].sequence < next_sequence
  BY <1>2 DEF StreamInv, ClientTypes, LeasesKnown, StreamStates
<1>5. /\ c.stream => Replayable(c.id) /\ ~buffer[c.id].uploaded
      /\ ~c.stream => buffer[c.id].uploaded
  BY <1>1, <1>3, Zenon
<1>6. c.stream => c.slot \in Slots
  BY <1>3, <1>5 DEF Replayable
<1> QED
  BY <1>1, <1>2, <1>3, <1>4, <1>5, <1>6

\* The tables that may follow one of gens when update is named.
Committed(gens, update) ==
    IF ~ update.stream THEN gens
    ELSE UNION {bvb_command_stream_generation_commit(g, update) : g \in gens}

\* The tables after each place of a submission, as far as the m-th.
ShadowsOf(f, commands, m) ==
    f = [n \in 0 .. m |-> IF n = 0 THEN {generations}
                          ELSE Committed(f[n - 1], commands[n])]

\* There is such a function for every m.
LEMMA ShadowsExist ==
  ASSUME NEW commands, NEW m \in Nat
  PROVE  \E f : ShadowsOf(f, commands, m)
<1> DEFINE T == {n \in Nat : \E f : ShadowsOf(f, commands, n)}
<1>1. 0 \in T
  <2>1. PICK f : f = [n \in 0 .. 0 |-> {generations}]
    OBVIOUS
  <2>2. \A n \in 0 .. 0 : n = 0
    OBVIOUS
  <2>3. ShadowsOf(f, commands, 0)
    BY <2>1, <2>2 DEF ShadowsOf
  <2> QED
    BY <2>3
<1>2. ASSUME NEW n \in T PROVE n + 1 \in T
  <2>1. PICK g : ShadowsOf(g, commands, n)
    OBVIOUS
  <2>2. PICK f : f = [k \in 0 .. n + 1 |->
                        IF k = n + 1 THEN Committed(g[n], commands[k]) ELSE g[k]]
    OBVIOUS
  <2>3. ASSUME NEW k \in 0 .. n + 1
        PROVE  f[k] = IF k = 0 THEN {generations}
                      ELSE Committed(f[k - 1], commands[k])
    <3>1. n \in Nat /\ k \in Nat
      OBVIOUS
    <3>2. \A j \in 0 .. n : f[j] = g[j]
      BY <2>2, <3>1
    <3>3. CASE k = n + 1
      <4>1. f[k] = Committed(g[n], commands[k])
        BY <2>2, <3>3
      <4>2. k - 1 = n /\ k # 0 /\ n \in 0 .. n
        BY <3>1, <3>3
      <4> QED
        BY <3>2, <4>1, <4>2
    <3>4. CASE k # n + 1
      <4>1. k \in 0 .. n /\ (k # 0 => k - 1 \in 0 .. n)
        BY <3>1, <3>4
      <4>2. g[k] = IF k = 0 THEN {generations} ELSE Committed(g[k - 1], commands[k])
        BY <2>1, <4>1 DEF ShadowsOf
      <4> QED
        BY <3>2, <4>1, <4>2
    <3> QED
      BY <3>3, <3>4
  <2>4. ShadowsOf(f, commands, n + 1)
    <3>1. DOMAIN f = 0 .. n + 1 /\ f = [k \in 0 .. n + 1 |-> f[k]]
      BY <2>2
    <3> QED
      BY <2>3, <3>1 DEF ShadowsOf
  <2> QED
    BY <2>4
<1> HIDE DEF T
<1>3. T = Nat
  <2>1. T \in SUBSET Nat
    BY DEF T
  <2> QED
    BY <1>1, <1>2, <2>1, SetInduction
<1> QED
  BY <1>3 DEF T

\* The recursion the tables are computed with.
LEMMA ApplyFacts ==
  ASSUME NEW commands, Len(commands) \in Nat
  PROVE  \E f : /\ ShadowsOf(f, commands, Len(commands))
                /\ bvb_command_stream_generations_apply(commands)
                     = f[Len(commands)]
<1> DEFINE IsF(f) ==
      f = [n \in 0 .. Len(commands) |->
             IF n = 0 THEN {generations}
             ELSE IF ~ commands[n].stream THEN f[n - 1]
             ELSE UNION {bvb_command_stream_generation_commit(g, commands[n]) :
                           g \in f[n - 1]}]
<1>1. \A f : IsF(f) <=> ShadowsOf(f, commands, Len(commands))
  BY Zenon DEF ShadowsOf, Committed
<1>2. \E f : IsF(f)
  <2> HIDE DEF IsF
  <2> QED
    BY <1>1, ShadowsExist
<1>3. bvb_command_stream_generations_apply(commands)
        = (CHOOSE f : IsF(f))[Len(commands)]
  BY Zenon DEF bvb_command_stream_generations_apply
<1> HIDE DEF IsF
<1>4. IsF(CHOOSE f : IsF(f))
  BY <1>2, Zenon
<1> QED
  BY <1>1, <1>3, <1>4

\* A table once the first n places of the submission in progress are in it:
\* it fits, it has forgotten no live command buffer, and it has taken every
\* stream's sequence number, each of which it had not seen.
TableKnown(h, n) ==
    /\ DOMAIN h \subseteq Buffers /\ IsFiniteSet(DOMAIN h)
    /\ Cardinality(DOMAIN h) <= GenerationSlots
    /\ \A b \in DOMAIN h : h[b] \in Nat /\ h[b] < next_sequence
    /\ \A b \in DOMAIN generations :
         buffer[b].life = "live" => b \in DOMAIN h /\ generations[b] <= h[b]
    /\ \A k \in Streams(submit.commands) :
         k <= n =>
           /\ submit.commands[k].id \in DOMAIN h
           /\ submit.commands[k].sequence <= h[submit.commands[k].id]
           /\ submit.commands[k].id \in DOMAIN generations =>
                generations[submit.commands[k].id] < submit.commands[k].sequence

\* One update keeps the entries of live command buffers and takes its own.
LEMMA CommitFacts ==
  ASSUME NEW g, NEW c, NEW h \in bvb_command_stream_generation_commit(g, c),
         IsFiniteSet(DOMAIN g), Cardinality(DOMAIN g) <= GenerationSlots
  PROVE  /\ DOMAIN h \subseteq DOMAIN g \cup {c.id} /\ IsFiniteSet(DOMAIN h)
         /\ Cardinality(DOMAIN h) <= GenerationSlots
         /\ c.id \in DOMAIN h /\ h[c.id] = c.sequence
         /\ c.id \in DOMAIN g => ~ (c.sequence <= g[c.id])
         /\ \A x \in DOMAIN h : x # c.id => h[x] = g[x]
         /\ \A x \in DOMAIN g : buffer[x].life = "live" => x \in DOMAIN h
<1> DEFINE room(t) == c.id \in DOMAIN t \/ Cardinality(DOMAIN t) < GenerationSlots
           alive == Restrict(g, {x \in DOMAIN g : buffer[x].life = "live"})
<1>1. PICK kept :
        /\ kept = IF room(g) THEN g ELSE alive
        /\ ~((c.id \in DOMAIN g /\ c.sequence <= g[c.id]) \/ ~ room(kept))
        /\ h = [x \in DOMAIN kept \cup {c.id} |->
                  IF x = c.id THEN c.sequence ELSE kept[x]]
  <2> DEFINE k == IF room(g) THEN g ELSE alive
  <2>1. h \in IF (c.id \in DOMAIN g /\ c.sequence <= g[c.id]) \/ ~ room(k)
              THEN {}
              ELSE {[x \in DOMAIN k \cup {c.id} |->
                       IF x = c.id THEN c.sequence ELSE k[x]]}
    BY Zenon DEF bvb_command_stream_generation_commit
  <2> HIDE DEF k
  <2>2. /\ ~((c.id \in DOMAIN g /\ c.sequence <= g[c.id]) \/ ~ room(k))
        /\ h = [x \in DOMAIN k \cup {c.id} |->
                  IF x = c.id THEN c.sequence ELSE k[x]]
    BY <2>1
  <2>3. k = IF room(g) THEN g ELSE alive
    BY DEF k
  <2> HIDE DEF room, alive
  <2> QED
    BY <2>2, <2>3
<1>2. /\ DOMAIN kept \subseteq DOMAIN g
      /\ \A x \in DOMAIN kept : kept[x] = g[x]
      /\ \A x \in DOMAIN g : buffer[x].life = "live" => x \in DOMAIN kept
  <2>1. /\ DOMAIN alive = {x \in DOMAIN g : buffer[x].life = "live"}
        /\ \A x \in DOMAIN alive : alive[x] = g[x]
    BY DEF Restrict
  <2> HIDE DEF alive
  <2> QED
    BY <1>1, <2>1
<1>3. DOMAIN h = DOMAIN kept \cup {c.id}
  BY <1>1
<1>4. IsFiniteSet(DOMAIN kept) /\ Cardinality(DOMAIN kept) <= GenerationSlots
      /\ Cardinality(DOMAIN kept) \in Nat
  <2>1. /\ IsFiniteSet(DOMAIN kept) /\ Cardinality(DOMAIN kept) \in Nat
        /\ Cardinality(DOMAIN g) \in Nat
        /\ Cardinality(DOMAIN kept) <= Cardinality(DOMAIN g)
    BY <1>2, FS_Subset, FS_CardinalityType
  <2> QED
    BY <2>1, CommandStreamAssumption
<1>5. IsFiniteSet(DOMAIN h) /\ Cardinality(DOMAIN h) <= GenerationSlots
  <2>1. /\ IsFiniteSet(DOMAIN h)
        /\ Cardinality(DOMAIN h) = IF c.id \in DOMAIN kept
             THEN Cardinality(DOMAIN kept) ELSE Cardinality(DOMAIN kept) + 1
    BY <1>3, <1>4, FS_AddElement
  <2>2. c.id \in DOMAIN kept \/ Cardinality(DOMAIN kept) < GenerationSlots
    BY <1>1
  <2> QED
    BY <1>4, <2>1, <2>2, CommandStreamAssumption
<1>6. c.id \in DOMAIN g => ~ (c.sequence <= g[c.id])
  BY <1>1
<1>7. h[c.id] = c.sequence /\ \A x \in DOMAIN h : x # c.id => h[x] = g[x]
  BY <1>1, <1>2, <1>3
<1> QED
  BY <1>2, <1>3, <1>5, <1>6, <1>7

\* A place of the submission keeps what is known of the table.
LEMMA TableStep ==
  ASSUME StreamInv, submit.at # "idle", NEW n \in DOMAIN submit.commands,
         n \in Nat, NEW g, TableKnown(g, n - 1),
         NEW h, \E gs : h \in Committed(gs, submit.commands[n]) /\ gs = {g}
  PROVE  TableKnown(h, n)
<1>1. PICK c : c = submit.commands[n]
  OBVIOUS
<1>2. /\ c.id \in Buffers /\ buffer[c.id].life = "live"
      /\ c.sequence \in Nat /\ c.sequence < next_sequence
  BY <1>1, SentFacts
<1>3. next_sequence \in Nat
  BY DEF StreamInv, ClientTypes
<1>4. DOMAIN submit.commands \subseteq Nat
  <2>1. submit.commands \in Seq(References)
    BY DEF StreamInv, SubmitKnown
  <2> QED
    BY <2>1, LenProperties
<1>5. CASE ~c.stream
  <2>1. h = g
    BY <1>1, <1>5 DEF Committed
  <2>2. \A k \in Streams(submit.commands) : k <= n => k <= n - 1
    <3> SUFFICES ASSUME NEW k \in Streams(submit.commands), k <= n
                 PROVE  k <= n - 1
      OBVIOUS
    <3>1. k \in Nat /\ k # n
      BY <1>1, <1>4, <1>5 DEF Streams
    <3> QED
      BY <3>1
  <2> QED
    BY <2>1, <2>2 DEF TableKnown
<1>6. CASE c.stream
  <2>1. h \in bvb_command_stream_generation_commit(g, c)
    BY <1>1, <1>6 DEF Committed
  <2>2. IsFiniteSet(DOMAIN g) /\ Cardinality(DOMAIN g) <= GenerationSlots
    BY DEF TableKnown
  <2>3. /\ DOMAIN h \subseteq DOMAIN g \cup {c.id} /\ IsFiniteSet(DOMAIN h)
        /\ Cardinality(DOMAIN h) <= GenerationSlots
        /\ c.id \in DOMAIN h /\ h[c.id] = c.sequence
        /\ c.id \in DOMAIN g => ~ (c.sequence <= g[c.id])
        /\ \A x \in DOMAIN h : x # c.id => h[x] = g[x]
        /\ \A x \in DOMAIN g : buffer[x].life = "live" => x \in DOMAIN h
    BY <2>1, <2>2, CommitFacts
  <2>4. \A x \in DOMAIN h : h[x] \in Nat /\ h[x] < next_sequence
    BY <1>2, <2>3 DEF TableKnown
  <2>5. ASSUME NEW x \in DOMAIN g, buffer[x].life = "live"
        PROVE  x \in DOMAIN h /\ g[x] <= h[x]
    <3>1. g[x] \in Nat
      BY DEF TableKnown
    <3>2. CASE x = c.id
      BY <1>2, <2>3, <3>1, <3>2
    <3>3. CASE x # c.id
      BY <2>3, <2>5, <3>1, <3>3
    <3> QED
      BY <3>2, <3>3
  <2>6. ASSUME NEW b \in DOMAIN generations, buffer[b].life = "live"
        PROVE  b \in DOMAIN h /\ generations[b] <= h[b]
    <3>1. b \in DOMAIN g /\ generations[b] <= g[b] /\ generations[b] \in Nat
          /\ g[b] \in Nat
      BY <2>6 DEF TableKnown, StreamInv, ServiceTypes
    <3>2. b \in DOMAIN h /\ g[b] <= h[b] /\ h[b] \in Nat
      BY <2>4, <2>5, <2>6, <3>1
    <3> QED
      BY <3>1, <3>2
  <2>7. ASSUME NEW k \in Streams(submit.commands), k <= n, NEW d,
               d = submit.commands[k]
        PROVE  /\ d.id \in DOMAIN h /\ d.sequence <= h[d.id]
               /\ d.id \in DOMAIN generations => generations[d.id] < d.sequence
    <3>1. k \in DOMAIN submit.commands /\ k \in Nat
      BY <1>4 DEF Streams
    <3>2. buffer[d.id].life = "live" /\ d.sequence \in Nat
      BY <2>7, <3>1, SentFacts
    <3>3. CASE k = n
      <4>1. d = c
        BY <1>1, <2>7, <3>3
      <4>2. ASSUME c.id \in DOMAIN generations
            PROVE  generations[c.id] < c.sequence
        <5>1. c.id \in DOMAIN g /\ generations[c.id] <= g[c.id]
              /\ generations[c.id] \in Nat /\ g[c.id] \in Nat
          BY <1>2, <4>2 DEF TableKnown, StreamInv, ServiceTypes
        <5> QED
          BY <1>2, <2>3, <5>1
      <4> QED
        BY <1>2, <2>3, <4>1, <4>2
    <3>4. CASE k # n
      <4>1. k <= n - 1
        BY <2>7, <3>1, <3>4
      <4>2. /\ d.id \in DOMAIN g /\ d.sequence <= g[d.id] /\ g[d.id] \in Nat
            /\ d.id \in DOMAIN generations => generations[d.id] < d.sequence
        BY <2>7, <4>1 DEF TableKnown
      <4>3. d.id \in DOMAIN h /\ g[d.id] <= h[d.id] /\ h[d.id] \in Nat
        BY <2>4, <2>5, <3>2, <4>2
      <4> QED
        BY <3>2, <4>2, <4>3
    <3> QED
      BY <3>3, <3>4
  <2>8. DOMAIN h \subseteq Buffers
    BY <1>2, <2>3 DEF TableKnown
  <2> QED
    BY <2>3, <2>4, <2>6, <2>7, <2>8 DEF TableKnown
<1> QED
  BY <1>5, <1>6

\* What is known of the table that answers a submission.
LEMMA TableFacts ==
  ASSUME StreamInv, submit.at # "idle",
         NEW h \in bvb_command_stream_generations_apply(submit.commands)
  PROVE  TableKnown(h, Len(submit.commands))
<1>1. PICK commands : commands = submit.commands
  OBVIOUS
<1>2. /\ commands \in Seq(References) /\ Len(commands) \in Nat
      /\ DOMAIN commands = 1 .. Len(commands)
  <2>1. commands \in Seq(References)
    BY <1>1 DEF StreamInv, SubmitKnown
  <2> QED
    BY <2>1, LenProperties
<1>3. PICK f : /\ ShadowsOf(f, commands, Len(commands))
               /\ bvb_command_stream_generations_apply(commands)
                    = f[Len(commands)]
  BY <1>2, ApplyFacts
<1>4. /\ f[0] = {generations}
      /\ \A k \in 1 .. Len(commands) : f[k] = Committed(f[k - 1], commands[k])
  <2>1. ASSUME NEW k \in 0 .. Len(commands)
        PROVE  f[k] = IF k = 0 THEN {generations}
                      ELSE Committed(f[k - 1], commands[k])
    BY <1>3 DEF ShadowsOf
  <2> QED
    BY <1>2, <2>1
<1> DEFINE T == {n \in Nat : n <= Len(commands) =>
                               \A g \in f[n] : TableKnown(g, n)}
<1>5. 0 \in T
  <2>1. TableKnown(generations, 0)
    <3>1. \A k \in Streams(submit.commands) : ~(k <= 0)
      BY <1>1, <1>2 DEF Streams
    <3> QED
      BY <3>1 DEF TableKnown, StreamInv, ServiceTypes
  <2> QED
    BY <1>4, <2>1
<1>6. ASSUME NEW n \in T PROVE n + 1 \in T
  <2> SUFFICES ASSUME n + 1 <= Len(commands), NEW g \in f[n + 1]
               PROVE  TableKnown(g, n + 1)
    OBVIOUS
  <2>1. n \in Nat /\ n + 1 \in DOMAIN commands /\ n + 1 \in Nat
        /\ (n + 1) - 1 = n /\ n <= Len(commands)
    BY <1>2
  <2>2. f[n + 1] = Committed(f[n], commands[n + 1])
    BY <1>2, <1>4, <2>1
  <2>3. PICK t \in f[n] : g \in Committed({t}, commands[n + 1])
    BY <2>2 DEF Committed
  <2>4. TableKnown(t, (n + 1) - 1)
    BY <2>1
  <2> HIDE DEF T
  <2> QED
    BY <1>1, <2>1, <2>3, <2>4, TableStep
<1>7. Len(commands) \in T
  <2>1. T \in SUBSET Nat
    OBVIOUS
  <2> HIDE DEF T
  <2> QED
    BY <1>2, <1>5, <1>6, <2>1, SetInduction
<1> QED
  BY <1>1, <1>2, <1>3, <1>7

\* The replay of the first n places reaches the command buffer.
Reached(n, b) ==
    \E k \in Streams(submit.commands) : k <= n /\ submit.commands[k].id = b

\* A native command buffer the replay does not reach keeps what it holds.
LEMMA UnreachedFacts ==
  ASSUME NEW n, NEW failed \in BOOLEAN, NEW b \in Buffers, ~Reached(n, b),
         NEW now, now = Replayed(submit.commands, n, failed)
  PROVE  now[b] = native[b]
<1>1. {k \in Streams(submit.commands) :
         k <= n /\ submit.commands[k].id = b} = {}
  BY DEF Reached
<1> QED
  BY <1>1, Zenon DEF Replayed

\* One that it reaches holds the records of its slot.
LEMMA ReplayedFacts ==
  ASSUME StreamInv, submit.at # "idle", NEW n, NEW failed \in BOOLEAN,
         NEW b \in Buffers, Reached(n, b),
         NEW now, now = Replayed(submit.commands, n, failed)
  PROVE  /\ Replayable(b) /\ ~buffer[b].uploaded
         /\ now[b] = [state |-> now[b].state,
                      records |-> region[buffer[b].slot].records]
         /\ now[b].state \in {"broken", "executable"}
         /\ ~failed => now[b].state = "executable"
<1>1. PICK mine :
        mine = {k \in Streams(submit.commands) :
                  k <= n /\ submit.commands[k].id = b}
  OBVIOUS
<1>2. mine # {}
  BY <1>1 DEF Reached
<1>3. now[b] = [state |-> IF failed /\ (CHOOSE k \in mine : TRUE) = n
                          THEN "broken" ELSE "executable",
                records |-> region[submit.commands[CHOOSE k \in mine : TRUE].slot]
                              .records]
  BY <1>1, <1>2, Zenon DEF Replayed
<1>4. PICK k : k = CHOOSE j \in mine : TRUE
  OBVIOUS
<1>5. k \in mine
  BY <1>2, <1>4
<1>6. /\ k \in DOMAIN submit.commands /\ submit.commands[k].stream
      /\ submit.commands[k].id = b
  BY <1>1, <1>5 DEF Streams
<1>7. /\ submit.commands[k].slot = buffer[b].slot /\ Replayable(b)
      /\ ~buffer[b].uploaded
  BY <1>6, SentFacts
<1>8. PICK state : state = IF failed /\ k = n THEN "broken" ELSE "executable"
  OBVIOUS
<1>9. now[b] = [state |-> state, records |-> region[buffer[b].slot].records]
  BY <1>3, <1>4, <1>7, <1>8
<1>10. /\ state \in {"broken", "executable"}
       /\ ~failed => state = "executable"
  BY <1>8
<1>11. now[b].state = state
  BY <1>9
<1> QED
  BY <1>7, <1>9, <1>10, <1>11

\* Under a careful application a replay that did not fail leaves every command
\* buffer of the submission as it was recorded.
LEMMA ReplayedWhole ==
  ASSUME StreamInv, submit.at # "idle", app.synced, NEW failed \in BOOLEAN, ~failed,
         NEW now, now = Replayed(submit.commands, Len(submit.commands), failed),
         NEW j \in DOMAIN submit.commands, NEW b, b = submit.commands[j].id
  PROVE  now[b] = [state |-> "executable", records |-> buffer[b].wrote]
<1>1. /\ Len(submit.commands) \in Nat
      /\ DOMAIN submit.commands = 1 .. Len(submit.commands)
  <2>1. submit.commands \in Seq(References)
    BY DEF StreamInv, SubmitKnown
  <2> QED
    BY <2>1, LenProperties
<1>2. /\ b \in Buffers /\ buffer[b].life = "live"
      /\ ~submit.commands[j].stream => buffer[b].uploaded
  BY SentFacts
<1>3. RecordingKnown(b)
  BY <1>2 DEF StreamInv, CarefulKnown
<1>4. CASE ~Reached(Len(submit.commands), b)
  <2>1. ~submit.commands[j].stream
    <3>1. j <= Len(submit.commands)
      BY <1>1
    <3>2. j \in Streams(submit.commands) => Reached(Len(submit.commands), b)
      BY <3>1 DEF Reached
    <3> QED
      BY <1>4, <3>2 DEF Streams
  <2>2. now[b] = native[b]
    BY <1>2, <1>4, UnreachedFacts
  <2> QED
    BY <1>2, <1>3, <2>1, <2>2 DEF RecordingKnown
<1>5. CASE Reached(Len(submit.commands), b)
  <2>1. /\ Replayable(b)
        /\ now[b] = [state |-> now[b].state,
                     records |-> region[buffer[b].slot].records]
        /\ now[b].state = "executable"
    BY <1>2, <1>5, ReplayedFacts
  <2>2. buffer[b].wrote = region[buffer[b].slot].records
    BY <1>2, <1>3, <2>1 DEF RecordingKnown
  <2> QED
    BY <2>1, <2>2
<1> QED
  BY <1>4, <1>5

\* Streams up to the n-th place are replayed: their sequence numbers are in
\* the table and were not, and what the driver holds for others is untouched.
LEMMA ReplayStep ==
  ASSUME StreamInv, submit.at # "idle", NEW n, NEW failed \in BOOLEAN, NEW status,
         generations' \in bvb_command_stream_generations_apply(submit.commands),
         native' = Replayed(submit.commands, n, failed),
         begun' = begun \cup Names(submit.commands, n),
         repeated' = repeated \cup (begun \cap Names(submit.commands, n)),
         submit' = [at |-> "answered", status |-> status,
                    commands |-> submit.commands],
         status = "SUCCESS" => ~failed /\ n = Len(submit.commands),
         misrun' \in {misrun, misrun \cup Misrun(Submitted, native')},
         (~failed /\ n = Len(submit.commands)) \/ misrun' = misrun,
         UNCHANGED <<buffer, slots, next_sequence, thread, region, app>>
  PROVE  StreamInv'
<1>1. PICK commands : commands = submit.commands
  OBVIOUS
<1>2. /\ commands \in Seq(References) /\ DOMAIN commands \subseteq 1 .. Len(commands)
  <2>1. commands \in Seq(References)
    BY <1>1 DEF StreamInv, SubmitKnown
  <2> QED
    BY <2>1, LenProperties
<1>3. TableKnown(generations', Len(commands))
  BY <1>1, TableFacts
<1>4. ASSUME NEW k \in Streams(commands), NEW c, c = commands[k]
      PROVE  /\ c.id \in Buffers /\ buffer[c.id].life = "live"
             /\ c.sequence \in Nat /\ c.id \in DOMAIN generations'
             /\ c.sequence <= generations'[c.id]
             /\ c.id \in DOMAIN generations => generations[c.id] < c.sequence
  <2>1. k \in DOMAIN submit.commands /\ c = submit.commands[k]
    BY <1>1, <1>4 DEF Streams
  <2>2. c.id \in Buffers /\ buffer[c.id].life = "live" /\ c.sequence \in Nat
    BY <2>1, SentFacts
  <2>3. k <= Len(commands)
    BY <1>1, <1>2, <2>1
  <2> QED
    BY <1>1, <1>3, <1>4, <2>2, <2>3 DEF TableKnown
<1>5. ClientTypes' /\ LeasesKnown'
  BY DEF StreamInv, ClientTypes, LeasesKnown
<1>6. DirectKnown'
  BY DEF StreamInv, DirectKnown, DirectStaysInRecording
<1>7. ASSUME NEW b \in Buffers
      PROVE  \/ native'[b] = native[b]
             \/ /\ Replayable(b) /\ ~buffer[b].uploaded
                /\ native'[b] = [state |-> native'[b].state,
                                 records |-> region[buffer[b].slot].records]
                /\ native'[b].state \in {"broken", "executable"}
  <2>1. PICK now : now = native'
    OBVIOUS
  <2>2. now = Replayed(submit.commands, n, failed)
    BY <2>1
  <2>3. \/ now[b] = native[b]
        \/ /\ Replayable(b) /\ ~buffer[b].uploaded
           /\ now[b] = [state |-> now[b].state,
                        records |-> region[buffer[b].slot].records]
           /\ now[b].state \in {"broken", "executable"}
    <3>1. CASE Reached(n, b)
      BY <2>2, <3>1, ReplayedFacts
    <3>2. CASE ~Reached(n, b)
      BY <2>2, <3>2, UnreachedFacts
    <3> QED
      BY <3>1, <3>2
  <2> QED
    BY <2>1, <2>3
<1>8. ServiceTypes'
  <2>1. ASSUME NEW b \in Buffers
        PROVE  native'[b] \in [state : {"initial", "executable", "broken"},
                               records : Seq(Entries)]
    <3>1. CASE native'[b] = native[b]
      BY <3>1 DEF StreamInv, ServiceTypes
    <3>2. CASE /\ Replayable(b)
               /\ native'[b] = [state |-> native'[b].state,
                                records |-> region[buffer[b].slot].records]
               /\ native'[b].state \in {"broken", "executable"}
      <4>1. region[buffer[b].slot].records \in Seq(Entries)
        BY <3>2 DEF Replayable, StreamInv, ClientTypes, Contents
      <4> QED
        BY <3>2, <4>1
    <3> QED
      BY <1>7, <3>1, <3>2
  <2>2. native' = [b \in Buffers |-> native'[b]]
    BY DEF Replayed
  <2>3. native' \in [Buffers -> [state : {"initial", "executable", "broken"},
                                 records : Seq(Entries)]]
    BY <2>1, <2>2
  <2> QED
    BY <1>3, <2>3 DEF ServiceTypes, TableKnown
<1>9. SubmitKnown'
  <2>1. submit'.at = "answered" /\ submit'.commands = submit.commands
    OBVIOUS
  <2>2. ASSUME NEW j \in DOMAIN submit.commands
        PROVE  /\ submit.commands[j] = CommandRef(submit.commands[j].id)'
               /\ buffer'[submit.commands[j].id].life = "live"
               /\ \/ buffer'[submit.commands[j].id].uploaded
                  \/ Replayable(submit.commands[j].id)'
    BY DEF StreamInv, SubmitKnown, CommandRef, Replayable
  <2>3. submit.commands \in Seq(References)
    BY <1>1, <1>2
  <2> QED
    BY <2>1, <2>2, <2>3 DEF SubmitKnown
<1>10. ASSUME NEW name \in Names(commands, n)
      PROVE  /\ name \in Buffers \X Nat /\ name \notin begun
             /\ buffer[name[1]].life = "live"
             /\ name[1] \in DOMAIN generations'
             /\ name[2] <= generations'[name[1]]
  <2>1. PICK k \in Streams(commands) :
          name = <<commands[k].id, commands[k].sequence>>
    BY <1>10 DEF Names
  <2>2. name[1] = commands[k].id /\ name[2] = commands[k].sequence
    BY <2>1
  <2>3. /\ name[1] \in Buffers /\ buffer[name[1]].life = "live"
        /\ name[2] \in Nat /\ name[1] \in DOMAIN generations'
        /\ name[2] <= generations'[name[1]]
        /\ name[1] \in DOMAIN generations => generations[name[1]] < name[2]
    BY <1>4, <2>2
  <2>4. name \notin begun
    <3> SUFFICES ASSUME name \in begun PROVE FALSE
      OBVIOUS
    <3>1. name[1] \in DOMAIN generations /\ name[2] <= generations[name[1]]
      BY <2>3 DEF StreamInv, BegunKnown
    <3>2. generations[name[1]] \in Nat
      BY <3>1 DEF StreamInv, ServiceTypes
    <3> QED
      BY <2>3, <3>1, <3>2
  <2> QED
    BY <2>1, <2>2, <2>3, <2>4
<1>11. BegunKnown'
  <2>1. repeated' = {}
    BY <1>1, <1>10 DEF StreamInv, BegunKnown
  <2>2. begun' \in SUBSET (Buffers \X Nat)
    BY <1>1, <1>10 DEF StreamInv, BegunKnown
  <2>3. ASSUME NEW name \in begun'
        PROVE  \/ buffer'[name[1]].life = "gone"
               \/ /\ buffer'[name[1]].life = "live"
                  /\ name[1] \in DOMAIN generations'
                  /\ name[2] <= generations'[name[1]]
    <3>1. CASE name \in Names(commands, n)
      BY <1>10, <3>1
    <3>2. CASE name \in begun /\ buffer[name[1]].life # "gone"
      <4>1. /\ name[2] \in Nat /\ buffer[name[1]].life = "live"
            /\ name[1] \in DOMAIN generations
            /\ name[2] <= generations[name[1]]
            /\ generations[name[1]] \in Nat
        BY <3>2 DEF StreamInv, BegunKnown, ServiceTypes
      <4>2. /\ name[1] \in DOMAIN generations'
            /\ generations[name[1]] <= generations'[name[1]]
            /\ generations'[name[1]] \in Nat
        BY <1>3, <4>1 DEF TableKnown
      <4> QED
        BY <4>1, <4>2
    <3> QED
      BY <1>1, <2>3, <3>1, <3>2
  <2> QED
    BY <2>1, <2>2, <2>3 DEF BegunKnown
<1>12. ASSUME app.synced, ~failed, n = Len(submit.commands),
              NEW j \in DOMAIN submit.commands, NEW b, b = submit.commands[j].id
       PROVE  native'[b] = [state |-> "executable", records |-> buffer[b].wrote]
  <2>1. PICK now : now = native'
    OBVIOUS
  <2>2. now = Replayed(submit.commands, Len(submit.commands), failed)
    BY <1>12, <2>1
  <2>3. now[b] = [state |-> "executable", records |-> buffer[b].wrote]
    BY <1>12, <2>2, ReplayedWhole
  <2> QED
    BY <2>1, <2>3
<1>13. misrun' = {}
  <2>1. misrun = {}
    BY DEF StreamInv, CarefulKnown
  <2>2. CASE misrun' = misrun
    BY <2>1, <2>2
  <2>3. CASE /\ ~failed /\ n = Len(submit.commands)
             /\ misrun' = misrun \cup Misrun(Submitted, native')
    <3>1. Misrun(Submitted, native') = {}
      BY <1>12, <2>3 DEF Misrun, Submitted
    <3> QED
      BY <2>1, <2>3, <3>1
  <2> QED
    BY <2>2, <2>3
<1>14. ASSUME app.synced, NEW b \in Buffers PROVE RecordingKnown(b)'
  <2>1. RecordingKnown(b)
    BY <1>14 DEF StreamInv, CarefulKnown
  <2>2. buffer[b].uploaded => native'[b] = native[b]
    BY <1>7
  <2>3. Replayable(b)' <=> Replayable(b)
    BY DEF Replayable
  <2> QED
    BY <2>1, <2>2, <2>3 DEF RecordingKnown
<1>15. CarefulKnown'
  <2>1. submit'.status = status /\ submit'.commands = submit.commands
    OBVIOUS
  <2>2. status = "SUCCESS" => ~failed /\ n = Len(submit.commands)
    OBVIOUS
  <2> QED
    BY <1>12, <1>13, <1>14, <2>1, <2>2 DEF CarefulKnown
<1> QED
  BY <1>5, <1>6, <1>8, <1>9, <1>11, <1>15 DEF StreamInv

\* A refused submission leaves the service as it was.
LEMMA RefusedStep ==
  ASSUME StreamInv, submit.at # "idle", NEW status, status # "SUCCESS",
         submit' = [at |-> "answered", status |-> status,
                    commands |-> submit.commands],
         UNCHANGED <<buffer, slots, next_sequence, thread, region, native,
                     generations, begun, repeated, misrun, app>>
  PROVE  StreamInv'
<1>1. ClientTypes' /\ ServiceTypes' /\ LeasesKnown' /\ BegunKnown'
  BY DEF StreamInv, ClientTypes, ServiceTypes, LeasesKnown, BegunKnown
<1>2. DirectKnown'
  BY DEF StreamInv, DirectKnown, DirectStaysInRecording
<1>3. /\ submit'.at = "answered" /\ submit'.commands = submit.commands
      /\ submit'.status # "SUCCESS"
  OBVIOUS
<1>4. SubmitKnown'
  <2>1. ASSUME NEW j \in DOMAIN submit.commands
        PROVE  /\ submit.commands[j] = CommandRef(submit.commands[j].id)'
               /\ buffer'[submit.commands[j].id].life = "live"
               /\ \/ buffer'[submit.commands[j].id].uploaded
                  \/ Replayable(submit.commands[j].id)'
    BY DEF StreamInv, SubmitKnown, CommandRef, Replayable
  <2>2. submit.commands \in Seq(References)
    BY DEF StreamInv, SubmitKnown
  <2> QED
    BY <1>3, <2>1, <2>2 DEF SubmitKnown
<1>5. CarefulKnown'
  <2>1. \A b \in Buffers : RecordingKnown(b) <=> RecordingKnown(b)'
    BY DEF RecordingKnown, Replayable
  <2> QED
    BY <1>3, <2>1 DEF StreamInv, CarefulKnown
<1> QED
  BY <1>1, <1>2, <1>4, <1>5 DEF StreamInv

\* What the service does with a submission: it refuses it, or it replays the
\* streams up to some place, all of them unless it reports a failure.
LEMMA AnswerFacts ==
  ASSUME answer_vulkan_queue_submit_2
  PROVE  /\ submit.at = "sent"
         /\ UNCHANGED <<buffer, slots, next_sequence, thread, region, owned, app>>
         /\ \/ \E status \in {"EPROTO", "ESTALE"} :
                 /\ submit' = [at |-> "answered", status |-> status,
                               commands |-> submit.commands]
                 /\ UNCHANGED service_vars
            \/ /\ Streams(submit.commands) # {} =>
                    Checked(submit.commands) = "SUCCESS"
               /\ \E n, status, failed :
                    /\ failed \in BOOLEAN
                    /\ generations' \in
                         bvb_command_stream_generations_apply(submit.commands)
                    /\ native' = Replayed(submit.commands, n, failed)
                    /\ begun' = begun \cup Names(submit.commands, n)
                    /\ repeated' = repeated
                                     \cup (begun \cap Names(submit.commands, n))
                    /\ submit' = [at |-> "answered", status |-> status,
                                  commands |-> submit.commands]
                    /\ status \in {"EIO", "SUCCESS"}
                    /\ status = "SUCCESS" => ~failed /\ n = Len(submit.commands)
                    /\ misrun' \in {misrun,
                                    misrun \cup Misrun(Submitted, native')}
                    /\ (~failed /\ n = Len(submit.commands)) \/ misrun' = misrun
<1> DEFINE commands == submit.commands
           checked == IF Streams(commands) = {} THEN "SUCCESS"
                      ELSE Checked(commands)
<1>1. /\ submit.at = "sent"
      /\ \/ checked # "SUCCESS" /\ ServeRefused(checked)
         \/ checked = "SUCCESS" /\ ServeReplayFails(commands)
         \/ checked = "SUCCESS" /\ ServeReplayed(commands)
      /\ UNCHANGED <<buffer, slots, next_sequence, thread, region, owned, app>>
  BY Zenon DEF answer_vulkan_queue_submit_2
<1>2. checked \in {"SUCCESS", "EPROTO", "ESTALE"}
  BY DEF Checked
<1>3. checked = "SUCCESS" /\ Streams(commands) # {} =>
        Checked(commands) = "SUCCESS"
  OBVIOUS
<1> HIDE DEF checked
<1>4. CASE checked # "SUCCESS" /\ ServeRefused(checked)
  BY <1>1, <1>2, <1>4 DEF ServeRefused, Answered
<1>5. CASE checked = "SUCCESS" /\ ServeReplayFails(commands)
  <2>1. PICK n \in Streams(commands) :
          /\ generations' \in bvb_command_stream_generations_apply(commands)
          /\ native' = Replayed(commands, n, TRUE)
          /\ begun' = begun \cup Names(commands, n)
          /\ repeated' = repeated \cup (begun \cap Names(commands, n))
          /\ submit' = [at |-> "answered", status |-> "EIO", commands |-> commands]
          /\ misrun' = misrun
    BY <1>5, Zenon DEF ServeReplayFails, ConsumeGenerations, ReplayBegan, Answered
  <2>2. PICK failed, status :
          failed \in BOOLEAN /\ failed = TRUE /\ status = "EIO"
    OBVIOUS
  <2>3. /\ native' = Replayed(commands, n, failed)
        /\ submit' = [at |-> "answered", status |-> status, commands |-> commands]
        /\ status \in {"EIO", "SUCCESS"} /\ status # "SUCCESS"
        /\ misrun' \in {misrun, misrun \cup Misrun(Submitted, native')}
    BY <2>1, <2>2
  <2> QED
    BY <1>1, <1>3, <1>5, <2>1, <2>2, <2>3, Zenon
<1>6. CASE checked = "SUCCESS" /\ ServeReplayed(commands)
  <2>1. /\ generations' \in bvb_command_stream_generations_apply(commands)
        /\ native' = Replayed(commands, Len(commands), FALSE)
        /\ begun' = begun \cup Names(commands, Len(commands))
        /\ repeated' = repeated \cup (begun \cap Names(commands, Len(commands)))
        /\ \/ /\ submit' = [at |-> "answered", status |-> "EIO",
                            commands |-> commands]
              /\ misrun' = misrun
           \/ /\ submit' = [at |-> "answered", status |-> "SUCCESS",
                            commands |-> commands]
              /\ misrun' \in {misrun, misrun \cup Misrun(Submitted, native')}
    BY <1>6 DEF ServeReplayed, ConsumeGenerations, ReplayBegan, Answered
  <2>2. PICK failed, n :
          failed \in BOOLEAN /\ failed = FALSE /\ n = Len(commands)
    OBVIOUS
  <2>3. \E status \in {"EIO", "SUCCESS"} :
          submit' = [at |-> "answered", status |-> status, commands |-> commands]
    BY <2>1
  <2>4. /\ native' = Replayed(commands, n, failed)
        /\ begun' = begun \cup Names(commands, n)
        /\ repeated' = repeated \cup (begun \cap Names(commands, n))
        /\ misrun' \in {misrun, misrun \cup Misrun(Submitted, native')}
        /\ ~failed /\ n = Len(commands)
    BY <2>1, <2>2
  <2> QED
    BY <1>1, <1>3, <1>6, <2>1, <2>2, <2>3, <2>4, Zenon
<1> QED
  BY <1>1, <1>4, <1>5, <1>6

\* The service answers a submission.
LEMMA AnswerStep ==
  ASSUME StreamInv, answer_vulkan_queue_submit_2
  PROVE  StreamInv'
<1>1. submit.at # "idle"
  BY AnswerFacts
<1>2. UNCHANGED <<buffer, slots, next_sequence, thread, region, app>>
  BY AnswerFacts
<1>3. CASE \E status \in {"EPROTO", "ESTALE"} :
             /\ submit' = [at |-> "answered", status |-> status,
                           commands |-> submit.commands]
             /\ UNCHANGED service_vars
  <2>1. PICK status : /\ status # "SUCCESS"
                      /\ submit' = [at |-> "answered", status |-> status,
                                    commands |-> submit.commands]
    BY <1>3
  <2>2. UNCHANGED <<native, generations, begun, repeated, misrun>>
    BY <1>3 DEF service_vars
  <2> QED
    BY <1>1, <1>2, <2>1, <2>2, RefusedStep
<1>4. CASE ~ \E status \in {"EPROTO", "ESTALE"} :
             /\ submit' = [at |-> "answered", status |-> status,
                           commands |-> submit.commands]
             /\ UNCHANGED service_vars
  <2>1. PICK n, status, failed :
          /\ failed \in BOOLEAN
          /\ generations' \in
               bvb_command_stream_generations_apply(submit.commands)
          /\ native' = Replayed(submit.commands, n, failed)
          /\ begun' = begun \cup Names(submit.commands, n)
          /\ repeated' = repeated \cup (begun \cap Names(submit.commands, n))
          /\ submit' = [at |-> "answered", status |-> status,
                        commands |-> submit.commands]
          /\ status = "SUCCESS" => ~failed /\ n = Len(submit.commands)
          /\ misrun' \in {misrun, misrun \cup Misrun(Submitted, native')}
          /\ (~failed /\ n = Len(submit.commands)) \/ misrun' = misrun
    BY <1>4, AnswerFacts, Zenon
  <2> QED
    BY <1>1, <1>2, <2>1, ReplayStep, Zenon
<1> QED
  BY <1>3, <1>4

\* Every step keeps the invariant.
LEMMA StreamInvStep == StreamInv /\ [Next]_vars => StreamInv'
<1> SUFFICES ASSUME StreamInv, [Next]_vars PROVE StreamInv'
  OBVIOUS
<1>1. CASE UNCHANGED vars
  BY <1>1, SameStep DEF vars
<1>2. CASE \E o \in Objects : DestroyObject(o)
  BY <1>2, SameStep DEF DestroyObject, service_vars
<1>3. CASE \E b \in Buffers :
             \/ vkAllocateCommandBuffers(b) \/ vkBeginCommandBuffer(b)
             \/ vkEndCommandBuffer(b) \/ vkFreeCommandBuffers(b)
             \/ vkQueueSubmit(b) \/ Command(b)
  BY <1>3, AllocateStep, BeginStep, EndStep, PoolStep, QueueSubmitStep, CommandStep
<1>4. CASE vkResetCommandPool \/ vkDestroyCommandPool
  BY <1>4, PoolStep
<1>5. CASE vkQueueSubmit2 \/ SubmitReturns \/ answer_vulkan_queue_submit_2
  BY <1>5, QueueSubmit2Step, SubmitReturnsStep, AnswerStep
<1> QED
  BY <1>1, <1>2, <1>3, <1>4, <1>5 DEF Next

-----------------------------------------------------------------------------
\* The invariant of command streams.
THEOREM StreamInvariant == Spec => []StreamInv
  BY StreamInvInit, StreamInvStep, PTL DEF Spec

\* Slots are leased exactly to the live command buffers that hold a recording
\* the service has not acknowledged, one each, and every variable has its type.
THEOREM SlotsAlwaysAccounted == Spec => []SlotsAccounted
<1>1. ASSUME StreamInv PROVE SlotsAccounted
  <2> DEFINE holders == {b \in Buffers : buffer[b].slot # NoSlot}
  <2>1. TypeOK
    <3>1. ASSUME NEW b \in Buffers
          PROVE  /\ buffer[b].slot \in Slots \cup {NoSlot}
                 /\ buffer[b].life \in {"new", "live", "gone"}
                 /\ buffer[b].sequence < next_sequence
                 /\ native[b].state \in {"initial", "executable", "broken"}
      BY <1>1 DEF StreamInv, ClientTypes, ServiceTypes, LeasesKnown, StreamStates
    <3> QED
      BY <1>1, <3>1 DEF TypeOK, StreamInv, ClientTypes, ServiceTypes
  <2>2. \A b \in holders :
          /\ buffer[b].slot \in slots /\ buffer[b].life = "live"
          /\ ~buffer[b].uploaded
    BY <1>1 DEF StreamInv, LeasesKnown
  <2>3. \A s \in slots : \E b \in holders : buffer[b].slot = s
    BY <1>1, NoSlotFacts DEF StreamInv, LeasesKnown, ClientTypes
  <2>4. slots = {buffer[b].slot : b \in holders}
    <3> HIDE DEF holders
    <3> QED
      BY <2>2, <2>3
  <2>5. Cardinality(slots) = Cardinality(holders)
    <3>1. PICK f : f = [b \in holders |-> buffer[b].slot]
      OBVIOUS
    <3>2. \A b, c \in holders : buffer[b].slot = buffer[c].slot => b = c
      BY <1>1 DEF StreamInv, LeasesKnown
    <3> HIDE DEF holders
    <3>3. f \in [holders -> slots] /\ \A b \in holders : f[b] = buffer[b].slot
      BY <2>2, <3>1
    <3>4. f \in Injection(holders, slots)
      BY <3>2, <3>3 DEF Injection, IsInjective
    <3>5. f \in Surjection(holders, slots)
      BY <2>3, <3>3 DEF Surjection
    <3>6. IsFiniteSet(slots)
      <4>1. IsFiniteSet(Slots)
        BY CommandStreamAssumption, FS_Interval DEF Slots
      <4>2. slots \in SUBSET Slots
        BY <1>1 DEF StreamInv, ClientTypes
      <4> QED
        BY <4>1, <4>2, FS_Subset
    <3> QED
      BY <3>4, <3>5, <3>6, FS_Injection
  <2> QED
    BY <2>1, <2>2, <2>4, <2>5 DEF SlotsAccounted
<1> QED
  BY <1>1, StreamInvariant, PTL

\* A command that checks and appends under one mutex stays in its recording.
THEOREM DirectAlwaysStays == Spec => []DirectStaysInRecording
<1>1. StreamInv => DirectStaysInRecording
  BY DEF StreamInv, DirectKnown
<1> QED
  BY <1>1, StreamInvariant, PTL

\* No stream is replayed twice, whatever the table gave up to make room.
THEOREM NeverReplayedTwice == Spec => []NoDoubleReplay
<1>1. StreamInv => NoDoubleReplay
  BY DEF StreamInv, BegunKnown, NoDoubleReplay
<1> QED
  BY <1>1, StreamInvariant, PTL

\* Under a careful application the queue runs what was recorded.
THEOREM AlwaysRunsWhatWasRecorded == Spec => []RunsWhatWasRecorded
<1>1. StreamInv => RunsWhatWasRecorded
  BY DEF StreamInv, CarefulKnown, RunsWhatWasRecorded
<1> QED
  BY <1>1, StreamInvariant, PTL

\* No part of a recording call reaches the service.
LEMMA CommandUnserved ==
  ASSUME NEW b \in Buffers, Command(b) PROVE native' = native
<1>1. ASSUME NEW command, NEW kind, NEW o, NEW direct,
             StartChecked(b, command, kind, o, direct)
      PROVE  native' = native
  BY <1>1, Zenon DEF StartChecked, Appends, Left, service_vars
<1>2. ASSUME NEW command, NEW kind, NEW o, StartUnchecked(b, command, kind, o)
      PROVE  native' = native
  BY <1>2, Zenon DEF StartUnchecked, Left, service_vars
<1>3. CASE \/ vkCmdFillBuffer(b) \/ vkCmdUpdateBuffer(b)
           \/ vkCmdClearColorImage(b) \/ vkCmdPipelineBarrier2(b)
           \/ vkCmdBindDescriptorSets(b) \/ submit_transfer_command(b)
           \/ vkCmdBindPipeline(b) \/ vkCmdPushConstants(b)
           \/ submit_vertex_buffers_command(b) \/ submit_index_buffer_command(b)
           \/ submit_indirect_draw_command(b) \/ vkCmdBeginRendering(b)
  BY <1>1, <1>3
  DEF vkCmdFillBuffer, vkCmdUpdateBuffer, vkCmdClearColorImage,
      vkCmdPipelineBarrier2, vkCmdBindDescriptorSets, submit_transfer_command,
      vkCmdBindPipeline, vkCmdPushConstants, submit_vertex_buffers_command,
      submit_index_buffer_command, submit_indirect_draw_command,
      vkCmdBeginRendering, Direct, Late
<1>4. CASE \/ record_query_command(b) \/ vkCmdClearDepthStencilImage(b)
           \/ vkCmdClearAttachments(b) \/ submit_dynamic_state_command(b)
           \/ vkCmdSetViewportWithCount(b) \/ vkCmdDraw(b) \/ vkCmdEndRendering(b)
  BY <1>2, <1>4
  DEF record_query_command, vkCmdClearDepthStencilImage, vkCmdClearAttachments,
      submit_dynamic_state_command, vkCmdSetViewportWithCount, vkCmdDraw,
      vkCmdEndRendering
<1>5. CASE UnsupportedShape(b)
  BY <1>5, Zenon DEF UnsupportedShape, Left, service_vars
<1>6. CASE RegistryRead(b)
  BY <1>6 DEF RegistryRead, service_vars
<1>7. CASE Relock(b) \/ submit_single_render_record(b)
  BY <1>7, Zenon
  DEF Relock, submit_single_render_record, Appends, Left, service_vars
<1> QED
  BY <1>3, <1>4, <1>5, <1>6, <1>7 DEF Command

\* A stream that passed the checks names live objects only, in its middle
\* records by the check and in its first and last because those name none, and
\* leaves no rendering open.
LEMMA ValidFacts ==
  ASSUME NEW records \in Seq(Entries), validate_command_stream(records)
  PROVE  /\ \A m \in DOMAIN records : MatchesDevice(records[m])
         /\ ~Rendering(records)
<1>1. DOMAIN records = 1 .. Len(records) /\ Len(records) \in Nat
  BY LenProperties
<1>2. /\ Len(records) >= 2
      /\ records[1].kind = "begin" /\ records[Len(records)].kind = "end"
      /\ \A m \in 2 .. (Len(records) - 1) : MatchesDevice(records[m])
      /\ ~Rendering(records)
  BY DEF validate_command_stream
<1>3. ASSUME NEW m \in DOMAIN records PROVE MatchesDevice(records[m])
  <2>1. CASE m \in 2 .. (Len(records) - 1)
    BY <1>2, <2>1
  <2>2. CASE m = 1 \/ m = Len(records)
    <3>1. records[m] \in Entries
      BY <1>1
    <3>2. records[m].object = None
      BY <1>2, <2>2, <3>1 DEF Entries
    <3> QED
      BY <3>2 DEF MatchesDevice
  <2> QED
    BY <1>1, <2>1, <2>2
<1> QED
  BY <1>2, <1>3

\* The submission's streams passed the checks.
LEMMA CheckedFacts ==
  ASSUME NEW commands, Checked(commands) = "SUCCESS", NEW k \in Streams(commands)
  PROVE  validate_command_stream(region[commands[k].slot].records)
  BY DEF Checked

\* A step that makes a native command buffer executable replays a stream whose
\* objects are alive and whose rendering scopes are closed, and does not refuse
\* the submission.
LEMMA ReplaysValidStep ==
  ASSUME StreamInv, [Next]_vars, NEW b \in Buffers,
         native'[b] # native[b], native'[b].state = "executable"
  PROVE  /\ \A m \in DOMAIN native'[b].records : MatchesDevice(native'[b].records[m])
         /\ ~Rendering(native'[b].records)
         /\ submit'.status \notin {"EPROTO", "ESTALE"}
<1>1. answer_vulkan_queue_submit_2
  <2>1. ASSUME NEW bs, NEW states, Reset(bs, states) PROVE FALSE
    <3>1. native' = [c \in Buffers |-> IF c \in bs
                       THEN [state |-> "initial", records |-> <<>>] ELSE native[c]]
      BY <2>1 DEF Reset
    <3>2. native'[b] = [state |-> "initial", records |-> <<>>]
      BY <3>1
    <3> QED
      BY <3>2
  <2>2. native' # native
    OBVIOUS
  <2>3. CASE \E c \in Buffers : Command(c)
    BY <2>2, <2>3, CommandUnserved
  <2>4. CASE \E c \in Buffers : \/ vkAllocateCommandBuffers(c)
                                \/ vkBeginCommandBuffer(c)
                                \/ vkEndCommandBuffer(c) \/ vkQueueSubmit(c)
    BY <2>2, <2>4
    DEF vkAllocateCommandBuffers, vkBeginCommandBuffer, vkEndCommandBuffer,
        vkQueueSubmit, service_vars
  <2>5. CASE vkQueueSubmit2 \/ SubmitReturns \/ \E o \in Objects : DestroyObject(o)
    BY <2>2, <2>5 DEF vkQueueSubmit2, SubmitReturns, DestroyObject, service_vars
  <2>6. CASE \/ vkResetCommandPool \/ vkDestroyCommandPool
             \/ \E c \in Buffers : vkFreeCommandBuffers(c)
    BY <2>1, <2>6 DEF vkResetCommandPool, vkDestroyCommandPool,
                      vkFreeCommandBuffers
  <2> QED
    BY <2>2, <2>3, <2>4, <2>5, <2>6 DEF Next, vars
<1>2. submit.at # "idle"
  BY <1>1, AnswerFacts
<1>3. ~ UNCHANGED service_vars
  BY DEF service_vars
<1>4. /\ Streams(submit.commands) # {} => Checked(submit.commands) = "SUCCESS"
      /\ \E n, status, failed :
           /\ failed \in BOOLEAN
           /\ native' = Replayed(submit.commands, n, failed)
           /\ submit' = [at |-> "answered", status |-> status,
                         commands |-> submit.commands]
           /\ status \in {"EIO", "SUCCESS"}
  BY <1>1, <1>3, AnswerFacts, Zenon
<1>5. PICK n, status, failed :
        /\ failed \in BOOLEAN
        /\ native' = Replayed(submit.commands, n, failed)
        /\ submit' = [at |-> "answered", status |-> status,
                      commands |-> submit.commands]
        /\ status \in {"EIO", "SUCCESS"}
  BY <1>4
<1>6. PICK now : now = native'
  OBVIOUS
<1>7. now = Replayed(submit.commands, n, failed)
  BY <1>5, <1>6
<1>8. Reached(n, b)
  BY <1>5, <1>6, <1>7, UnreachedFacts
<1>9. PICK k \in Streams(submit.commands) : submit.commands[k].id = b
  BY <1>8 DEF Reached
<1>10. /\ Replayable(b)
       /\ now[b] = [state |-> now[b].state,
                    records |-> region[buffer[b].slot].records]
  BY <1>2, <1>5, <1>7, <1>8, ReplayedFacts
<1>11. PICK records : records = region[buffer[b].slot].records
  OBVIOUS
<1>12. now[b].records = records
  BY <1>10, <1>11
<1>13. records \in Seq(Entries)
  BY <1>10, <1>11 DEF Replayable, StreamInv, ClientTypes, Contents
<1>14. submit.commands[k].slot = buffer[b].slot
  <2>1. k \in DOMAIN submit.commands
    BY DEF Streams
  <2> QED
    BY <1>2, <1>9, <2>1, SentFacts
<1>15. validate_command_stream(records)
  BY <1>4, <1>9, <1>11, <1>14, CheckedFacts
<1>16. (\A m \in DOMAIN records : MatchesDevice(records[m])) /\ ~Rendering(records)
  BY <1>13, <1>15, ValidFacts
<1>17. native'[b].records = records
  BY <1>6, <1>12
<1>18. submit'.status = status
  BY <1>5
<1> QED
  BY <1>5, <1>16, <1>17, <1>18

\* What is replayed was checked against the objects alive at that moment.
THEOREM OnlyValidReplays == Spec => ReplaysOnlyValid
<1>1. StreamInv /\ [Next]_vars =>
        [\A b \in Buffers :
           native'[b] # native[b] /\ native'[b].state = "executable" =>
             LET records == native'[b].records
             IN  /\ \A n \in DOMAIN records : MatchesDevice(records[n])
                 /\ ~ Rendering(records)
                 /\ submit'.status \notin {"EPROTO", "ESTALE"}]_vars
  BY ReplaysValidStep, Zenon
<1> QED
  BY <1>1, StreamInvariant, PTL DEF Spec, ReplaysOnlyValid
=============================================================================
