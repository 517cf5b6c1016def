---------------------------- MODULE WsiFrameRing ----------------------------
(***************************************************************************)
(* The game-to-Activity image ring of src/wsi_frame_ring.c, driven by its  *)
(* two users: the service thread that answers swapchain acquire, present   *)
(* and destroy (src/vulkan_global.c) and the Activity's frame consumer     *)
(* thread (android/visible-host/native_main.c).                            *)
(*                                                                         *)
(* Every access to a shared word that the other side may change is a step  *)
(* of its own.  A futex wait is two steps: the kernel's comparison of the  *)
(* word with the value the caller observed, and the sleep.  A process is   *)
(* asleep exactly when its pc says so, and a wake moves the sleeper's pc.  *)
(* Header validation is left out: the header never changes after           *)
(* initialize, and no step stores a slot state outside SlotStates.         *)
(***************************************************************************)
EXTENDS Naturals, Sequences, FiniteSets

CONSTANTS
  SlotCount,    \* ring->slot_count
  MaxSequence   \* UINT32_MAX: present refuses to go past it

ASSUME SlotCountAssumption == SlotCount \in Nat /\ SlotCount >= 2
ASSUME MaxSequenceAssumption == MaxSequence \in Nat /\ MaxSequence >= 1

VARIABLES
  \* The shared control page.
  slot_state, slot_sequence, producer_sequence, consumer_sequence,
  producer_status, consumer_status,
  \* The service thread.
  ppc,         \* where the producer is
  next_acquire,\* in the shared page, but only the producer touches it
  p_slot,      \* the slot of the call in progress
  p_offset,    \* how far the acquire scan has come
  p_observed,  \* consumer_sequence as loaded before the futex wait
  p_wait,      \* timeout of the acquire in progress
  p_error,     \* status passed to fail_producer
  held,        \* images the application owns: acquired, not yet presented
  \* The Activity.
  cpc,         \* where the consumer thread is
  c_slot,      \* candidate, then slot found, of the wait in progress
  c_second,    \* TRUE while the second scan of wait_present runs
  c_observed,  \* producer_sequence as loaded before the futex wait
  c_error,     \* status passed to fail_consumer
  consumed,    \* game_frames.consumed_sequence
  transport,   \* game_frames.ring and game_frames.installed
  active,      \* activity_resumed and activity_window_present
  \* History: the slots stamped and not yet released, oldest first.
  queue

shared == <<slot_state, slot_sequence, producer_sequence, consumer_sequence,
            producer_status, consumer_status>>
producer == <<ppc, next_acquire, p_slot, p_offset, p_observed, p_wait,
              p_error, held>>
consumer == <<cpc, c_slot, c_second, c_observed, c_error, consumed,
              transport>>
vars == <<shared, producer, consumer, active, queue>>

Slots == 0 .. SlotCount - 1
SlotStates == {"AVAILABLE", "ACQUIRED", "PRESENTED"}
Sequence == 0 .. MaxSequence
ProducerStatuses == {"OK", "EIO", "EPIPE"}
Statuses == ProducerStatuses \cup {"EPROTO", "ESTALE", "EINVAL"}
Waits == {"poll", "timed", "forever"}
ProducerLocations ==
  {"idle", "gone", "acq_check", "acq_scan", "acq_observe", "acq_wait",
   "acq_sleep", "acq_submit", "pres_submit", "pres_check", "pres_claim",
   "pres_stamp", "pres_publish", "pres_wake", "fail_store", "fail_wake"}
ConsumerLocations ==
  {"gate", "wait_check", "scan_state", "scan_sequence", "wait_produced",
   "wait_futex", "wait_sleep", "found", "copy", "rel_check", "rel_clear",
   "rel_free", "rel_publish", "rel_wake", "fail_store", "fail_wake"}

(***************************************************************************)
(* Helpers.                                                                *)
(***************************************************************************)

\* peer_failure: the producer's status wins over the consumer's.
PeerFailure ==
  IF producer_status # "OK" THEN producer_status ELSE consumer_status

\* The sequence number the consumer waits for.
Expected == consumed + 1

\* Mutant: the futex_wake of the producer word is lost.
WakeConsumer_Lost == UNCHANGED cpc

\* futex_wake(&ring->producer_sequence): the consumer leaves its sleep.
WakeConsumer ==
  cpc' = IF cpc = "wait_sleep" THEN "wait_check" ELSE cpc

\* futex_wake(&ring->consumer_sequence): the producer leaves its sleep.
WakeProducer ==
  ppc' = IF ppc = "acq_sleep" THEN "acq_check" ELSE ppc

(***************************************************************************)
(* bvb_wsi_frame_ring_initialize, and the two sides before their first     *)
(* call: the service holds the ring, the Activity has not imported it.     *)
(***************************************************************************)
Init ==
  /\ slot_state = [s \in Slots |-> "AVAILABLE"]
  /\ slot_sequence = [s \in Slots |-> 0]
  /\ producer_sequence = 0 /\ consumer_sequence = 0
  /\ producer_status = "OK" /\ consumer_status = "OK"
  /\ ppc = "idle" /\ next_acquire = 0
  /\ p_slot = 0 /\ p_offset = 0 /\ p_observed = 0
  /\ p_wait = "poll" /\ p_error = "OK" /\ held = {}
  /\ cpc = "gate" /\ c_slot = 0 /\ c_second = FALSE
  /\ c_observed = 0 /\ c_error = "OK"
  /\ consumed = 0 /\ transport = "none"
  /\ active = FALSE
  /\ queue = <<>>

-----------------------------------------------------------------------------
(***************************************************************************)
(* Producer: vkAcquireNextImageKHR.                                        *)
(***************************************************************************)

\* A swapchain acquire request reaches acquire_ring_slot.
AcquireBegin(w) ==
  /\ ppc = "idle"
  /\ ppc' = "acq_check"
  /\ p_wait' = w
  /\ UNCHANGED <<shared, next_acquire, p_slot, p_offset, p_observed, p_error,
                 held, consumer, active, queue>>

\* Top of the acquire loop: a failed peer ends the call with SURFACE_LOST.
AcquireCheck ==
  /\ ppc = "acq_check"
  /\ ppc' = IF PeerFailure # "OK" THEN "idle" ELSE "acq_scan"
  /\ p_offset' = 0
  /\ UNCHANGED <<shared, next_acquire, p_slot, p_observed, p_wait, p_error,
                 held, consumer, active, queue>>

\* Mutant: the scan takes any slot the game does not hold.
AcquireScan_TakesPresented ==
  LET candidate == (next_acquire + p_offset) % SlotCount IN
  /\ ppc = "acq_scan"
  /\ slot_state[candidate] # "ACQUIRED"
  /\ slot_state' = [slot_state EXCEPT ![candidate] = "ACQUIRED"]
  /\ next_acquire' = (candidate + 1) % SlotCount
  /\ p_slot' = candidate
  /\ ppc' = "acq_submit"
  /\ UNCHANGED <<slot_sequence, producer_sequence, consumer_sequence,
                 producer_status, consumer_status, p_offset, p_observed,
                 p_wait, p_error, held, consumer, active, queue>>

\* One compare-and-exchange of the scan; next_acquire follows a success.
AcquireScan ==
  LET candidate == (next_acquire + p_offset) % SlotCount IN
  /\ ppc = "acq_scan"
  /\ \/ /\ slot_state[candidate] = "AVAILABLE"
        /\ slot_state' = [slot_state EXCEPT ![candidate] = "ACQUIRED"]
        /\ next_acquire' = (candidate + 1) % SlotCount
        /\ p_slot' = candidate
        /\ ppc' = "acq_submit"
        /\ UNCHANGED p_offset
     \/ /\ slot_state[candidate] # "AVAILABLE"
        /\ IF p_offset + 1 < SlotCount
           THEN ppc' = "acq_scan" /\ p_offset' = p_offset + 1
           ELSE /\ ppc' = IF p_wait = "poll" THEN "idle" ELSE "acq_observe"
                /\ UNCHANGED p_offset
        /\ UNCHANGED <<slot_state, next_acquire, p_slot>>
  /\ UNCHANGED <<slot_sequence, producer_sequence, consumer_sequence,
                 producer_status, consumer_status, p_observed, p_wait,
                 p_error, held, consumer, active, queue>>

\* No slot was free: load the word to sleep on.
AcquireObserve ==
  /\ ppc = "acq_observe"
  /\ p_observed' = consumer_sequence
  /\ ppc' = "acq_wait"
  /\ UNCHANGED <<shared, next_acquire, p_slot, p_offset, p_wait, p_error,
                 held, consumer, active, queue>>

\* Where -ETIMEDOUT leads: acquire_ring_slot retries an unbounded wait.
AfterTimeout == IF p_wait = "forever" THEN "acq_check" ELSE "idle"

\* futex_wait: the deadline has passed, the word has moved (EAGAIN), or the
\* kernel puts the thread to sleep.
AcquireWait ==
  /\ ppc = "acq_wait"
  /\ \/ ppc' = AfterTimeout
     \/ consumer_sequence # p_observed /\ ppc' = "acq_check"
     \/ consumer_sequence = p_observed /\ ppc' = "acq_sleep"
  /\ UNCHANGED <<shared, next_acquire, p_slot, p_offset, p_observed, p_wait,
                 p_error, held, consumer, active, queue>>

\* The sleep ends without a wake: the timeout, or a signal (EINTR).
AcquireSleepEnds ==
  /\ ppc = "acq_sleep"
  /\ ppc' \in {AfterTimeout, "acq_check"}
  /\ UNCHANGED <<shared, next_acquire, p_slot, p_offset, p_observed, p_wait,
                 p_error, held, consumer, active, queue>>

\* Mutant: a barrier that cannot be submitted only fails the call, and the
\* slot it had claimed stays ACQUIRED.
AcquireSubmit_Leaks ==
  /\ ppc = "acq_submit"
  /\ held' \in {held, held \cup {p_slot}}
  /\ ppc' = "idle"
  /\ UNCHANGED <<shared, next_acquire, p_slot, p_offset, p_observed, p_wait,
                 p_error, consumer, active, queue>>

\* The ownership barrier is recorded and submitted; if that fails the whole
\* ring is failed, otherwise the image is the application's.
AcquireSubmit ==
  /\ ppc = "acq_submit"
  /\ \/ /\ held' = held \cup {p_slot}
        /\ ppc' = "idle"
        /\ UNCHANGED p_error
     \/ /\ ppc' = "fail_store"
        /\ p_error' = "EIO"
        /\ UNCHANGED held
  /\ UNCHANGED <<shared, next_acquire, p_slot, p_offset, p_observed, p_wait,
                 consumer, active, queue>>

-----------------------------------------------------------------------------
(***************************************************************************)
(* Producer: vkQueuePresentKHR.  The request names any image of the ring.  *)
(***************************************************************************)

PresentBegin(s) ==
  /\ ppc = "idle"
  /\ p_slot' = s
  /\ ppc' = "pres_submit"
  /\ UNCHANGED <<shared, next_acquire, p_offset, p_observed, p_wait, p_error,
                 held, consumer, active, queue>>

\* Release barrier, submit and the wait for the producer's own fence.
PresentSubmit ==
  /\ ppc = "pres_submit"
  /\ \/ ppc' = "pres_check" /\ UNCHANGED p_error
     \/ ppc' = "fail_store" /\ p_error' = "EIO"
  /\ UNCHANGED <<shared, next_acquire, p_slot, p_offset, p_observed, p_wait,
                 held, consumer, active, queue>>

\* Mutant: no test against UINT32_MAX.
PresentCheck_NoOverflowTest ==
  /\ ppc = "pres_check"
  /\ ppc' = IF PeerFailure = "OK" THEN "pres_claim" ELSE "fail_store"
  /\ p_error' = "EIO"
  /\ UNCHANGED <<shared, next_acquire, p_slot, p_offset, p_observed, p_wait,
                 held, consumer, active, queue>>

\* bvb_wsi_frame_ring_present up to the overflow test; a refusal becomes
\* SURFACE_LOST and fails the ring with EIO.
PresentCheck ==
  /\ ppc = "pres_check"
  /\ IF PeerFailure = "OK" /\ producer_sequence # MaxSequence
     THEN ppc' = "pres_claim" /\ UNCHANGED p_error
     ELSE ppc' = "fail_store" /\ p_error' = "EIO"
  /\ UNCHANGED <<shared, next_acquire, p_slot, p_offset, p_observed, p_wait,
                 held, consumer, active, queue>>

\* The compare-and-exchange ACQUIRED -> PRESENTED.
PresentClaim ==
  /\ ppc = "pres_claim"
  /\ IF slot_state[p_slot] = "ACQUIRED"
     THEN /\ slot_state' = [slot_state EXCEPT ![p_slot] = "PRESENTED"]
          /\ held' = held \ {p_slot}
          /\ ppc' = "pres_stamp"
          /\ UNCHANGED p_error
     ELSE /\ ppc' = "fail_store"
          /\ p_error' = "EIO"
          /\ UNCHANGED <<slot_state, held>>
  /\ UNCHANGED <<slot_sequence, producer_sequence, consumer_sequence,
                 producer_status, consumer_status, next_acquire, p_slot,
                 p_offset, p_observed, p_wait, consumer, active, queue>>

\* From this store on a scan can find the frame, before producer_sequence
\* says so: this is where the frame joins the queue.
PresentStamp ==
  /\ ppc = "pres_stamp"
  /\ slot_sequence' =
       [slot_sequence EXCEPT ![p_slot] = producer_sequence + 1]
  /\ queue' = Append(queue, p_slot)
  /\ ppc' = "pres_publish"
  /\ UNCHANGED <<slot_state, producer_sequence, consumer_sequence,
                 producer_status, consumer_status, next_acquire, p_slot,
                 p_offset, p_observed, p_wait, p_error, held, consumer,
                 active>>

PresentPublish ==
  /\ ppc = "pres_publish"
  /\ producer_sequence' = producer_sequence + 1
  /\ ppc' = "pres_wake"
  /\ UNCHANGED <<slot_state, slot_sequence, consumer_sequence,
                 producer_status, consumer_status, next_acquire, p_slot,
                 p_offset, p_observed, p_wait, p_error, held, consumer,
                 active, queue>>

PresentWake ==
  /\ ppc = "pres_wake"
  /\ WakeConsumer
  /\ ppc' = "idle"
  /\ UNCHANGED <<shared, next_acquire, p_slot, p_offset, p_observed, p_wait,
                 p_error, held, c_slot, c_second, c_observed, c_error,
                 consumed, transport, active, queue>>

-----------------------------------------------------------------------------
(***************************************************************************)
(* Producer: failure and teardown.                                         *)
(***************************************************************************)

\* destroy_swapchain_metadata fails the ring with EPIPE first.
DestroySwapchain ==
  /\ ppc = "idle"
  /\ ppc' = "fail_store"
  /\ p_error' = "EPIPE"
  /\ UNCHANGED <<shared, next_acquire, p_slot, p_offset, p_observed, p_wait,
                 held, consumer, active, queue>>

\* publish_failure stores the status ...
FailProducerStore ==
  /\ ppc = "fail_store"
  /\ producer_status' = p_error
  /\ ppc' = "fail_wake"
  /\ UNCHANGED <<slot_state, slot_sequence, producer_sequence,
                 consumer_sequence, consumer_status, next_acquire, p_slot,
                 p_offset, p_observed, p_wait, p_error, held, consumer,
                 active, queue>>

\* ... and wakes both words; nobody but the producer itself sleeps on
\* consumer_sequence.  After a destroy the swapchain is gone.
FailProducerWake ==
  /\ ppc = "fail_wake"
  /\ WakeConsumer
  /\ ppc' = IF p_error = "EPIPE" THEN "gone" ELSE "idle"
  /\ UNCHANGED <<shared, next_acquire, p_slot, p_offset, p_observed, p_wait,
                 p_error, held, c_slot, c_second, c_observed, c_error,
                 consumed, transport, active, queue>>

-----------------------------------------------------------------------------
(***************************************************************************)
(* Consumer: game_frame_consumer_main.                                     *)
(***************************************************************************)

\* onResume/onPause and window callbacks: atomics, no lock.
ToggleActivity ==
  /\ active' = ~active
  /\ UNCHANGED <<shared, producer, consumer, queue>>

\* import_game_frame_transport publishes the ring to the consumer thread.
ImportTransport ==
  /\ transport = "none"
  /\ transport' = "installed"
  /\ UNCHANGED <<shared, producer, cpc, c_slot, c_second, c_observed,
                 c_error, consumed, active, queue>>

\* The condition-variable gate; wait_present refuses after_sequence =
\* UINT32_MAX with EINVAL, which fails the ring.
ConsumerEnter ==
  /\ cpc = "gate" /\ transport = "installed" /\ active
  /\ IF consumed = MaxSequence
     THEN cpc' = "fail_store" /\ c_error' = "EINVAL"
     ELSE cpc' = "wait_check" /\ UNCHANGED c_error
  /\ UNCHANGED <<shared, producer, c_slot, c_second, c_observed, consumed,
                 transport, active, queue>>

\* What the loop does with a status other than success and -EAGAIN: a torn
\* down ring that has shown a frame stops quietly, anything else is
\* published as the consumer's failure.
ConsumerStops(status) ==
  IF status = "EPIPE" /\ consumed # 0
  THEN cpc' = "gate" /\ transport' = "stopped" /\ UNCHANGED c_error
  ELSE cpc' = "fail_store" /\ c_error' = status /\ UNCHANGED transport

\* Top of the wait_present loop.
WaitCheck ==
  /\ cpc = "wait_check"
  /\ IF PeerFailure = "OK"
     THEN /\ cpc' = "scan_state" /\ c_slot' = 0 /\ c_second' = FALSE
          /\ UNCHANGED <<c_error, transport>>
     ELSE ConsumerStops(PeerFailure) /\ UNCHANGED <<c_slot, c_second>>
  /\ UNCHANGED <<shared, producer, c_observed, consumed, active, queue>>

\* find_presented moves on to the next candidate.  Past the last one the
\* first scan reads producer_sequence and the second one is -EPROTO.
ScanNext ==
  IF c_slot + 1 < SlotCount
  THEN /\ c_slot' = c_slot + 1 /\ cpc' = "scan_state"
       /\ UNCHANGED <<c_error, transport>>
  ELSE /\ UNCHANGED c_slot
       /\ IF c_second
          THEN ConsumerStops("EPROTO")
          ELSE cpc' = "wait_produced" /\ UNCHANGED <<c_error, transport>>

ScanState ==
  /\ cpc = "scan_state"
  /\ IF slot_state[c_slot] = "PRESENTED"
     THEN cpc' = "scan_sequence" /\ UNCHANGED <<c_slot, c_error, transport>>
     ELSE ScanNext
  /\ UNCHANGED <<shared, producer, c_second, c_observed, consumed, active,
                 queue>>

\* Mutant: any presented slot will do.
ScanSequence_AnyFrame ==
  /\ cpc = "scan_sequence"
  /\ cpc' = "found"
  /\ UNCHANGED <<shared, producer, c_slot, c_second, c_observed, c_error,
                 consumed, transport, active, queue>>

ScanSequence ==
  /\ cpc = "scan_sequence"
  /\ IF slot_sequence[c_slot] = Expected
     THEN cpc' = "found" /\ UNCHANGED <<c_slot, c_error, transport>>
     ELSE ScanNext
  /\ UNCHANGED <<shared, producer, c_second, c_observed, consumed, active,
                 queue>>

\* Mutant: publication that raced the scan is taken for a broken ring.
WaitProduced_NoRescan ==
  /\ cpc = "wait_produced"
  /\ IF producer_sequence >= Expected
     THEN ConsumerStops("EPROTO") /\ UNCHANGED c_observed
     ELSE /\ cpc' = "wait_futex" /\ c_observed' = producer_sequence
          /\ UNCHANGED <<c_error, transport>>
  /\ UNCHANGED <<shared, producer, c_slot, c_second, consumed, active,
                 queue>>

\* The first scan found nothing: load producer_sequence and either scan
\* once more, because publication raced the scan, or go to sleep on it.
WaitProduced ==
  /\ cpc = "wait_produced"
  /\ IF producer_sequence >= Expected
     THEN /\ cpc' = "scan_state" /\ c_slot' = 0 /\ c_second' = TRUE
          /\ UNCHANGED c_observed
     ELSE /\ cpc' = "wait_futex" /\ c_observed' = producer_sequence
          /\ UNCHANGED <<c_slot, c_second>>
  /\ UNCHANGED <<shared, producer, c_error, consumed, transport, active,
                 queue>>

\* futex_wait with the consumer's 100 ms deadline: -ETIMEDOUT returns to the
\* gate, a moved word retries.
WaitFutex ==
  /\ cpc = "wait_futex"
  /\ \/ cpc' = "gate"
     \/ producer_sequence # c_observed /\ cpc' = "wait_check"
     \/ producer_sequence = c_observed /\ cpc' = "wait_sleep"
  /\ UNCHANGED <<shared, producer, c_slot, c_second, c_observed, c_error,
                 consumed, transport, active, queue>>

WaitSleepEnds ==
  /\ cpc = "wait_sleep"
  /\ cpc' \in {"gate", "wait_check"}
  /\ UNCHANGED <<shared, producer, c_slot, c_second, c_observed, c_error,
                 consumed, transport, active, queue>>

\* Mutant: the activity test is inverted.
FrameFound_Inverted ==
  /\ cpc = "found"
  /\ cpc' = IF active THEN "gate" ELSE "copy"
  /\ UNCHANGED <<shared, producer, c_slot, c_second, c_observed, c_error,
                 consumed, transport, active, queue>>

\* A frame was found: it is kept for later if the Activity has gone away.
FrameFound ==
  /\ cpc = "found"
  /\ cpc' = IF active THEN "copy" ELSE "gate"
  /\ UNCHANGED <<shared, producer, c_slot, c_second, c_observed, c_error,
                 consumed, transport, active, queue>>

\* copy_game_frame_to_window_locked, up to its local fence.
CopyFrame ==
  /\ cpc = "copy"
  /\ \/ cpc' = "rel_check" /\ UNCHANGED <<c_error, transport>>
     \/ ConsumerStops("EIO")
  /\ UNCHANGED <<shared, producer, c_slot, c_second, c_observed, consumed,
                 active, queue>>

\* bvb_wsi_frame_ring_release up to its staleness test.
ReleaseCheck ==
  /\ cpc = "rel_check"
  /\ \/ /\ PeerFailure # "OK"
        /\ ConsumerStops(PeerFailure)
     \/ /\ PeerFailure = "OK"
        /\ IF /\ slot_sequence[c_slot] = Expected
              /\ consumer_sequence + 1 = Expected
           THEN cpc' = "rel_clear" /\ UNCHANGED <<c_error, transport>>
           ELSE ConsumerStops("ESTALE")
  /\ UNCHANGED <<shared, producer, c_slot, c_second, c_observed, consumed,
                 active, queue>>

\* Clear the old sequence before making the slot observable as reusable.
ReleaseClear ==
  /\ cpc = "rel_clear"
  /\ slot_sequence' = [slot_sequence EXCEPT ![c_slot] = 0]
  /\ cpc' = "rel_free"
  /\ UNCHANGED <<slot_state, producer_sequence, consumer_sequence,
                 producer_status, consumer_status, producer, c_slot,
                 c_second, c_observed, c_error, consumed, transport, active,
                 queue>>

\* The compare-and-exchange PRESENTED -> AVAILABLE.
ReleaseFree ==
  /\ cpc = "rel_free"
  /\ IF slot_state[c_slot] = "PRESENTED"
     THEN /\ slot_state' = [slot_state EXCEPT ![c_slot] = "AVAILABLE"]
          /\ queue' = Tail(queue)
          /\ cpc' = "rel_publish"
          /\ UNCHANGED <<c_error, transport>>
     ELSE ConsumerStops("EPROTO") /\ UNCHANGED <<slot_state, queue>>
  /\ UNCHANGED <<slot_sequence, producer_sequence, consumer_sequence,
                 producer_status, consumer_status, producer, c_slot,
                 c_second, c_observed, consumed, active>>

ReleasePublish ==
  /\ cpc = "rel_publish"
  /\ consumer_sequence' = Expected
  /\ cpc' = "rel_wake"
  /\ UNCHANGED <<slot_state, slot_sequence, producer_sequence,
                 producer_status, consumer_status, producer, c_slot,
                 c_second, c_observed, c_error, consumed, transport, active,
                 queue>>

\* The wake, and game_frames.consumed_sequence.
ReleaseWake ==
  /\ cpc = "rel_wake"
  /\ WakeProducer
  /\ consumed' = Expected
  /\ cpc' = "gate"
  /\ UNCHANGED <<shared, next_acquire, p_slot, p_offset, p_observed, p_wait,
                 p_error, held, c_slot, c_second, c_observed, c_error,
                 transport, active, queue>>

\* clear_game_frame_transport_locked: its caller holds renderer_device_mutex,
\* so the consumer thread is at its gate.
ClearTransport ==
  /\ cpc = "gate" /\ transport \in {"installed", "stopped"}
  /\ transport' = "cleared"
  /\ cpc' = "fail_store"
  /\ c_error' = "EPIPE"
  /\ UNCHANGED <<shared, producer, c_slot, c_second, c_observed, consumed,
                 active, queue>>

FailConsumerStore ==
  /\ cpc = "fail_store"
  /\ consumer_status' = c_error
  /\ cpc' = "fail_wake"
  /\ UNCHANGED <<slot_state, slot_sequence, producer_sequence,
                 consumer_sequence, producer_status, producer, c_slot,
                 c_second, c_observed, c_error, consumed, transport, active,
                 queue>>

FailConsumerWake ==
  /\ cpc = "fail_wake"
  /\ WakeProducer
  /\ cpc' = "gate"
  /\ IF transport = "cleared"
     THEN consumed' = 0 /\ UNCHANGED transport
     ELSE transport' = "stopped" /\ UNCHANGED consumed
  /\ UNCHANGED <<shared, next_acquire, p_slot, p_offset, p_observed, p_wait,
                 p_error, held, c_slot, c_second, c_observed, c_error,
                 active, queue>>

-----------------------------------------------------------------------------
\* Steps of a call already in progress on the service thread.
ProducerStep ==
  \/ AcquireCheck \/ AcquireScan \/ AcquireObserve \/ AcquireWait
  \/ AcquireSubmit
  \/ PresentSubmit \/ PresentCheck \/ PresentClaim \/ PresentStamp
  \/ PresentPublish \/ PresentWake
  \/ FailProducerStore \/ FailProducerWake

\* What the application asks for.
Application ==
  \/ \E w \in Waits : AcquireBegin(w)
  \/ \E s \in Slots : PresentBegin(s)
  \/ DestroySwapchain

ConsumerStep ==
  \/ ConsumerEnter \/ WaitCheck \/ ScanState \/ ScanSequence \/ WaitProduced
  \/ WaitFutex \/ WaitSleepEnds \/ FrameFound \/ CopyFrame
  \/ ReleaseCheck \/ ReleaseClear \/ ReleaseFree \/ ReleasePublish
  \/ ReleaseWake \/ FailConsumerStore \/ FailConsumerWake

\* Android: lifecycle callbacks, import and teardown of the transport.
Platform == ToggleActivity \/ ImportTransport \/ ClearTransport

\* No fairness: the deadline of an unbounded acquire is 2^32 ms away.
Deadline == AcquireSleepEnds

Next == ProducerStep \/ Application \/ ConsumerStep \/ Platform \/ Deadline

Spec == Init /\ [][Next]_vars

\* Threads run: a call in progress is carried on and the consumer loop is
\* never abandoned.  The application and Android owe nothing.
Fairness == WF_vars(ProducerStep) /\ WF_vars(ConsumerStep)

FairSpec == Spec /\ Fairness

-----------------------------------------------------------------------------
(***************************************************************************)
(* Properties.                                                             *)
(***************************************************************************)

\* Every word keeps its type; the sequence words stay within 32 bits because
\* present and wait_present refuse to count past UINT32_MAX.
TypeOK ==
  /\ slot_state \in [Slots -> SlotStates]
  /\ slot_sequence \in [Slots -> Sequence]
  /\ producer_sequence \in Sequence /\ consumer_sequence \in Sequence
  /\ producer_status \in ProducerStatuses /\ consumer_status \in Statuses
  /\ ppc \in ProducerLocations
  /\ next_acquire \in Slots /\ p_slot \in Slots /\ p_offset \in Slots
  /\ p_observed \in Sequence /\ p_wait \in Waits
  /\ p_error \in ProducerStatuses
  /\ held \subseteq Slots
  /\ cpc \in ConsumerLocations
  /\ c_slot \in Slots /\ c_second \in BOOLEAN /\ c_observed \in Sequence
  /\ c_error \in Statuses /\ consumed \in Sequence
  /\ transport \in {"none", "installed", "stopped", "cleared"}
  /\ active \in BOOLEAN
  /\ queue \in Seq(Slots)

\* The consumer is between wait_present's success and the slot's release.
Reading == cpc \in {"copy", "rel_check", "rel_clear", "rel_free"}

\* The consumer only ever copies the oldest frame not yet shown, and while
\* it does the game neither owns that image nor can be given it.
ReadsOldestFrame ==
  Reading => /\ queue # <<>> /\ c_slot = Head(queue)
             /\ c_slot \notin held
             /\ slot_state[c_slot] = "PRESENTED"

\* Two correct sides never accuse each other: the errors wait_present and
\* release keep for a broken ring (-EPROTO, -ESTALE) are unreachable in any
\* interleaving of publication, scan, release and teardown.
NoProtocolError ==
  {c_error, consumer_status} \cap {"EPROTO", "ESTALE"} = {}

InQueue(s) == \E i \in 1 .. Len(queue) : queue[i] = s

\* No image is lost while the producer has not failed the ring: each one can
\* be acquired, or is the application's and can be presented (or belongs to
\* the acquire or the failure in progress), or is a frame in the queue (or
\* about to be stamped).  An image that a failed call left in none of these
\* would never be given out again, and acquire would end up timing out.
NoImageLost ==
  producer_status = "OK" => \A s \in Slots :
    \/ slot_state[s] = "AVAILABLE" /\ s \notin held /\ ~InQueue(s)
    \/ /\ slot_state[s] = "ACQUIRED" /\ ~InQueue(s)
       /\ s \in held \/ (s = p_slot /\ ppc \in {"acq_submit", "fail_store"})
    \/ /\ slot_state[s] = "PRESENTED" /\ s \notin held
       /\ InQueue(s) \/ (s = p_slot /\ ppc = "pres_stamp")

\* A frame published while the consumer sleeps on producer_sequence is on its
\* way to be announced: the producer is at the wake.
ConsumerNotStranded ==
  cpc = "wait_sleep" /\ producer_sequence >= Expected => ppc = "pres_wake"

-----------------------------------------------------------------------------
(***************************************************************************)
(* The inductive invariant behind the properties above.                    *)
(***************************************************************************)

\* Frames freed so far; consumer_sequence lags the release's exchange.
Freed == IF cpc = "rel_publish" THEN consumer_sequence + 1
                                ELSE consumer_sequence

\* Frames stamped so far; producer_sequence lags the stamp.
Stamped == IF ppc = "pres_publish" THEN producer_sequence + 1
                                   ELSE producer_sequence

\* The slot words spell out the queue: its i-th slot is PRESENTED and carries
\* the i-th number after the last frame freed (0 once the release in progress
\* has cleared it), and no other slot carries a number.
QueueInSlots ==
  /\ Stamped = Freed + Len(queue)
  /\ \A i, j \in 1 .. Len(queue) : queue[i] = queue[j] => i = j
  /\ \A i \in 1 .. Len(queue) :
       /\ slot_state[queue[i]] = "PRESENTED"
       /\ slot_sequence[queue[i]] =
            IF i = 1 /\ cpc = "rel_free" THEN 0 ELSE Freed + i
  /\ \A s \in Slots : ~InQueue(s) =>
       /\ slot_sequence[s] = 0
       /\ slot_state[s] = "PRESENTED" => s = p_slot /\ ppc = "pres_stamp"

\* The images the application owns are ACQUIRED, and while the ring works no
\* other slot is but the one of the acquire or the failure in progress.
ImagesOwned ==
  /\ \A s \in held : slot_state[s] = "ACQUIRED"
  /\ \A s \in Slots :
       producer_status = "OK" /\ slot_state[s] = "ACQUIRED" /\ s \notin held =>
         s = p_slot /\ ppc \in {"acq_submit", "fail_store"}

\* What the producer knows between two of its steps.
ProducerKnows ==
  /\ ppc = "acq_submit" =>
       slot_state[p_slot] = "ACQUIRED" /\ p_slot \notin held
  /\ ppc = "pres_stamp" =>
       slot_state[p_slot] = "PRESENTED" /\ ~InQueue(p_slot)
  /\ ppc \in {"pres_claim", "pres_stamp", "pres_publish"} =>
       producer_sequence < MaxSequence
  /\ ppc = "fail_store" => p_error # "OK"

\* What the consumer knows between two of its steps.  In particular the
\* second scan never passes the frame it is looking for.
ConsumerKnows ==
  /\ transport # "cleared" =>
       consumer_sequence = IF cpc = "rel_wake" THEN Expected ELSE consumed
  /\ transport = "cleared" => cpc \in {"gate", "fail_store", "fail_wake"}
  /\ cpc \notin {"gate", "fail_store", "fail_wake"} => consumed < MaxSequence
  /\ cpc = "scan_sequence" => slot_state[c_slot] = "PRESENTED"
  /\ cpc \in {"scan_state", "scan_sequence"} /\ c_second =>
       queue # <<>> /\ c_slot <= Head(queue)
  /\ cpc = "found" \/ Reading => queue # <<>> /\ c_slot = Head(queue)
  /\ cpc = "wait_futex" => c_observed < Expected

RingInv ==
  /\ TypeOK
  /\ QueueInSlots
  /\ ImagesOwned
  /\ ProducerKnows
  /\ ConsumerKnows
  /\ NoProtocolError
  /\ ConsumerNotStranded

-----------------------------------------------------------------------------
\* Every published frame is shown and released if in the end the Activity
\* stays visible and neither side fails the ring.
PublishedIsShown ==
  <>[](active /\ transport = "installed" /\ PeerFailure = "OK") =>
    \A n \in 1 .. MaxSequence :
      (producer_sequence >= n) ~> (consumer_sequence >= n)

\* The ring implements the ordered queue of frames: a frame counts as queued
\* from the store of its slot_sequence, as freed from the release's exchange.
Frames ==
  INSTANCE FrameQueue WITH
    Images  <- Slots,
    free    <- {s \in Slots : slot_state[s] = "AVAILABLE"},
    frames  <- queue,
    reading <- IF Reading THEN {c_slot} ELSE {}

ImplementsFrameQueue == Frames!Spec

\* What teardown relies on: a consumer failure reaches an acquire that sleeps.
FailureWakesAcquire ==
  ppc = "acq_sleep" /\ consumer_status # "OK" => cpc = "fail_wake"
=============================================================================
