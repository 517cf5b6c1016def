--------------------------- MODULE DescriptorRing ---------------------------
(***************************************************************************)
(* The descriptor transaction ring of src/descriptor_transaction_ring.c    *)
(* between the game process (vkAllocateDescriptorSets in                   *)
(* src/global_dispatch.c, one caller at a time under the client mutex) and *)
(* the service's worker thread (src/bridge_service.c), while the service's *)
(* connection thread may stop the worker at any time.                      *)
(*                                                                         *)
(* Every load and store that the other side can see is a step.  What a     *)
(* request and its response contain is abstract: a request is a member of  *)
(* Requests and its response is the answer to that request.  next_slot is  *)
(* left out: it is written and never used to choose a slot.                *)
(***************************************************************************)
EXTENDS Naturals, Sequences

CONSTANTS
  Requests,      \* what the game can ask for
  SlotCount,     \* ring->slot_count
  MaxSequence    \* UINT32_MAX

None == "none"

ASSUME SlotCountAssumption == SlotCount \in Nat \ {0}
ASSUME MaxSequenceAssumption == MaxSequence \in Nat \ {0}
ASSUME RequestsAssumption == None \notin Requests

VARIABLES
  \* The shared page.
  request_sequence, completion_sequence,
  request_wait_state, completion_wait_state,
  client_status, service_status,
  slot,
  \* The calling thread of the game.
  cpc, c_sequence, c_request, c_error, c_wakes, c_wait, c_observed, c_result,
  returned,    \* request and response of the last call that succeeded
  \* The service's worker thread.
  wpc, after, w_request, w_status, w_error, w_wakes, w_wait, w_observed,
  w_result,
  \* The service's connection thread: worker->stop and its progress.
  stop, spc,
  \* History: the requests published and not executed yet, oldest first,
  \* whether each one executed was the oldest of them, and whether the load of
  \* wake_if_sleeping has overtaken the store of the request or of the
  \* completion that the other side has not taken yet.
  unserved, in_order, c_overtook, w_overtook

shared == <<request_sequence, completion_sequence, client_status,
            service_status, slot>>
clientWait == <<completion_wait_state, c_wait, c_observed, c_result>>
workerWait == <<request_wait_state, w_wait, w_observed, w_result>>
client == <<cpc, c_sequence, c_request, c_error, c_wakes, returned>>
worker == <<wpc, after, w_request, w_status, w_error, w_wakes>>
stopper == <<stop, spc>>
history == <<unserved, in_order, c_overtook, w_overtook>>
vars == <<shared, clientWait, workerWait, client, worker, stopper, history>>

Slots == 0 .. SlotCount - 1
Sequence == 0 .. MaxSequence
EmptySlot == [state |-> "AVAILABLE", sequence |-> 0, status |-> "OK",
              request |-> None, response |-> None]
SlotOf(sequence) == (sequence - 1) % SlotCount

\* peer_status(ring) # 0
PeerFailed == client_status # "OK" \/ service_status # "OK"

\* The caller waits for its completion, the worker for the next request.
ClientWait ==
  INSTANCE SequenceWait WITH
    wpc <- c_wait, wait_state <- completion_wait_state,
    observed <- c_observed, result <- c_result,
    word <- completion_sequence, expected <- c_sequence,
    failed <- PeerFailed

WorkerWait ==
  INSTANCE SequenceWait WITH
    wpc <- w_wait, wait_state <- request_wait_state,
    observed <- w_observed, result <- w_result,
    word <- request_sequence, expected <- after + 1,
    failed <- PeerFailed

Init ==
  /\ request_sequence = 0 /\ completion_sequence = 0
  /\ request_wait_state = "IDLE" /\ completion_wait_state = "IDLE"
  /\ client_status = "OK" /\ service_status = "OK"
  /\ slot = [s \in Slots |-> EmptySlot]
  /\ cpc = "idle" /\ c_sequence = 1 /\ c_request = None /\ c_error = "OK"
  /\ c_wakes = FALSE /\ c_wait = "out" /\ c_observed = 0 /\ c_result = "OK"
  /\ returned = <<None, None>>
  /\ wpc = "loop" /\ after = 0 /\ w_request = None /\ w_status = "OK"
  /\ w_error = "OK" /\ w_wakes = FALSE
  /\ w_wait = "out" /\ w_observed = 0 /\ w_result = "OK"
  /\ stop = FALSE /\ spc = "serving"
  /\ unserved = <<>> /\ in_order = TRUE
  /\ c_overtook = FALSE /\ w_overtook = FALSE

-----------------------------------------------------------------------------
(***************************************************************************)
(* bvb_descriptor_transaction_ring_call and what its caller does with the  *)
(* result.                                                                 *)
(***************************************************************************)

\* A call that ends with an error fails the ring and poisons the connection.
CallFails(error) == cpc' = "fail_store" /\ c_error' = error

CallBegin(r) ==
  /\ cpc = "idle"
  /\ c_request' = r
  /\ IF PeerFailed
     THEN CallFails("PEER")
     ELSE cpc' = "fill" /\ UNCHANGED c_error
  /\ w_overtook' = FALSE
  /\ UNCHANGED <<shared, clientWait, workerWait, c_sequence, c_wakes,
                 returned, worker, stopper, unserved, in_order, c_overtook>>

\* The slot must be free; fill it and mark it REQUESTED.
CallFill ==
  LET s == SlotOf(c_sequence) IN
  /\ cpc = "fill"
  /\ IF slot[s].state # "AVAILABLE"
     THEN CallFails("EBUSY") /\ UNCHANGED slot
     ELSE /\ slot' = [slot EXCEPT ![s] =
               [EmptySlot EXCEPT !.state = "REQUESTED",
                                 !.sequence = c_sequence,
                                 !.request = c_request]]
          /\ cpc' = "publish" /\ UNCHANGED c_error
  /\ UNCHANGED <<request_sequence, completion_sequence, client_status,
                 service_status, clientWait, workerWait, c_sequence,
                 c_request, c_wakes, returned, worker, stopper, history>>

\* Store the request number.
CallPublish ==
  /\ cpc \in {"publish", "publish_late"}
  /\ request_sequence' = c_sequence
  /\ unserved' = Append(unserved, c_request)
  /\ cpc' = IF cpc = "publish" THEN "peek" ELSE "wake"
  /\ UNCHANGED <<completion_sequence, client_status, service_status, slot,
                 clientWait, workerWait, c_sequence, c_request, c_error,
                 c_wakes, returned, worker, stopper, in_order,
                 c_overtook, w_overtook>>

\* wake_if_sleeping loads the worker's announcement after that store, or before
\* the store is visible: acquire and release alone allow the load to overtake it
\* (and x86 does it; the stlr/ldar pair of aarch64 does not).
CallPeek ==
  /\ \/ cpc = "peek" /\ cpc' = "wake"
     \/ cpc = "publish" /\ cpc' = "publish_late"
  /\ c_wakes' = (request_wait_state = "SLEEPING")
  /\ c_overtook' = (cpc = "publish")
  /\ UNCHANGED <<shared, clientWait, workerWait, c_sequence, c_request,
                 c_error, returned, worker, stopper, unserved, in_order,
                 w_overtook>>

\* futex_wake if the announcement said so, then wait for the completion.
CallWake ==
  /\ cpc = "wake"
  /\ IF c_wakes THEN WorkerWait!Woken ELSE UNCHANGED w_wait
  /\ cpc' = "wait"
  /\ ClientWait!Begin
  /\ UNCHANGED <<shared, request_wait_state, w_observed, w_result,
                 c_sequence, c_request, c_error, c_wakes, returned, worker,
                 stopper, history>>

CallWait ==
  /\ cpc = "wait"
  /\ ClientWait!WaitStep
  /\ UNCHANGED <<shared, workerWait, client, worker, stopper, history>>

\* Mutant: the caller does not look at the slot's status.
CallFinish_IgnoresStatus ==
  LET s == SlotOf(c_sequence) IN
  /\ cpc = "wait" /\ c_wait = "done" /\ c_result = "OK"
  /\ returned' = <<c_request, slot[s].response>>
  /\ slot' = [slot EXCEPT ![s] = EmptySlot]
  /\ c_sequence' = (c_sequence + 1) % (MaxSequence + 1)
  /\ cpc' = "idle" /\ c_wait' = "out"
  /\ UNCHANGED <<request_sequence, completion_sequence, client_status,
                 service_status, completion_wait_state, c_observed, c_result,
                 workerWait, c_request, c_error, c_wakes, worker, stopper,
                 history>>

\* Mutant: a wider counter, and no test against UINT32_MAX.
CallFinish_CountsOn ==
  LET s == SlotOf(c_sequence) IN
  /\ cpc = "wait" /\ c_wait = "done"
  /\ c_wait' = "out"
  /\ IF c_result # "OK" \/ slot[s].status # "OK"
     THEN CallFails("STATUS") /\ UNCHANGED <<slot, c_sequence, returned>>
     ELSE /\ returned' = <<c_request, slot[s].response>>
          /\ slot' = [slot EXCEPT ![s] = EmptySlot]
          /\ c_sequence' = c_sequence + 1
          /\ cpc' = "idle" /\ UNCHANGED c_error
  /\ UNCHANGED <<request_sequence, completion_sequence, client_status,
                 service_status, completion_wait_state, c_observed, c_result,
                 workerWait, c_request, c_wakes, worker, stopper, history>>

\* Mutant: a call that times out leaves the ring usable.
CallFinish_GoesOn ==
  /\ cpc = "wait" /\ c_wait = "done"
  /\ c_sequence' = c_sequence + 1
  /\ cpc' = "idle" /\ c_wait' = "out"
  /\ UNCHANGED <<shared, completion_wait_state, c_observed, c_result,
                 workerWait, c_request, c_error, c_wakes, returned, worker,
                 stopper, history>>

\* The wait is over: an error, a broken slot, the worker's own error, or the
\* response.  A success frees the slot and counts the sequence on; past
\* UINT32_MAX the call fails after all.
CallFinish ==
  LET s == SlotOf(c_sequence)
      error == IF c_result # "OK" THEN c_result
               ELSE IF slot[s].sequence # c_sequence THEN "EPROTO"
               ELSE IF slot[s].state # "COMPLETED" THEN "EPROTO"
               ELSE IF slot[s].status # "OK" THEN "STATUS" ELSE "OK"
  IN
  /\ cpc = "wait" /\ c_wait = "done"
  /\ c_wait' = "out"
  /\ IF error # "OK"
     THEN CallFails(error) /\ UNCHANGED <<slot, c_sequence, returned>>
     ELSE /\ slot' = [slot EXCEPT ![s] = EmptySlot]
          /\ c_sequence' = (c_sequence + 1) % (MaxSequence + 1)
          /\ IF c_sequence = MaxSequence
             THEN CallFails("EOVERFLOW") /\ UNCHANGED returned
             ELSE /\ returned' = <<c_request, slot[s].response>>
                  /\ cpc' = "idle" /\ UNCHANGED c_error
  /\ UNCHANGED <<request_sequence, completion_sequence, client_status,
                 service_status, completion_wait_state, c_observed, c_result,
                 workerWait, c_request, c_wakes, worker, stopper, history>>

\* fail_client, then the connection is poisoned: no further call.
FailClientStore ==
  /\ cpc = "fail_store"
  /\ client_status' = "FAILED"
  /\ cpc' = "fail_wake"
  /\ UNCHANGED <<request_sequence, completion_sequence, service_status, slot,
                 clientWait, workerWait, c_sequence, c_request, c_error,
                 c_wakes, returned, worker, stopper, history>>

FailClientWake ==
  /\ cpc = "fail_wake"
  /\ WorkerWait!Woken
  /\ cpc' = "poisoned"
  /\ UNCHANGED <<shared, clientWait, request_wait_state, w_observed,
                 w_result, c_sequence, c_request, c_error, c_wakes, returned,
                 worker, stopper, history>>

-----------------------------------------------------------------------------
(***************************************************************************)
(* descriptor_transaction_worker_main.                                     *)
(***************************************************************************)

\* The loop ends, for good, on a stop and on every error but a timeout.
WorkerEnds(error) == wpc' = "ended" /\ w_error' = error

\* Top of the loop; wait_request refuses to count past UINT32_MAX.
WorkerLoop ==
  /\ wpc = "loop"
  /\ IF stop \/ after = MaxSequence
     THEN /\ WorkerEnds(IF stop THEN "OK" ELSE "EINVAL")
          /\ UNCHANGED workerWait
     ELSE wpc' = "wait" /\ WorkerWait!Begin /\ UNCHANGED w_error
  /\ UNCHANGED <<shared, clientWait, client, after, w_request, w_status,
                 w_wakes, stopper, history>>

WorkerWaits ==
  /\ wpc = "wait"
  /\ WorkerWait!WaitStep
  /\ UNCHANGED <<shared, clientWait, client, worker, stopper, history>>

\* The rest of wait_request: copy the request out of its slot.
WorkerTake ==
  LET s == SlotOf(after + 1) IN
  /\ wpc = "wait" /\ w_wait = "done"
  /\ w_wait' = "out"
  /\ \/ /\ w_result = "ETIMEDOUT"
        /\ wpc' = "loop" /\ UNCHANGED <<w_request, w_error>>
     \/ /\ w_result = "PEER"
        /\ WorkerEnds("PEER") /\ UNCHANGED w_request
     \/ /\ w_result = "OK"
        /\ IF slot[s].sequence = after + 1 /\ slot[s].state = "REQUESTED"
           THEN /\ wpc' = "execute" /\ w_request' = slot[s].request
                /\ UNCHANGED w_error
           ELSE WorkerEnds("EPROTO") /\ UNCHANGED w_request
  /\ UNCHANGED <<shared, clientWait, request_wait_state, w_observed,
                 w_result, client, after, w_status, w_wakes, stopper,
                 history>>

\* Journal replay and vkAllocateDescriptorSets under the context mutex.
WorkerExecute ==
  /\ wpc = "execute"
  /\ w_status' \in {"OK", "ERROR"}
  /\ in_order' = (in_order /\ unserved # <<>> /\ w_request = Head(unserved))
  /\ unserved' = IF unserved = <<>> THEN <<>> ELSE Tail(unserved)
  /\ c_overtook' = FALSE
  /\ wpc' = "complete"
  /\ UNCHANGED <<shared, clientWait, workerWait, client, after, w_request,
                 w_error, w_wakes, stopper, w_overtook>>

\* bvb_descriptor_transaction_ring_complete fills the slot ...
WorkerComplete ==
  LET s == SlotOf(after + 1) IN
  /\ wpc = "complete"
  /\ IF slot[s].sequence = after + 1 /\ slot[s].state = "REQUESTED"
     THEN /\ slot' = [slot EXCEPT
               ![s].state = "COMPLETED",
               ![s].status = w_status,
               ![s].response = IF w_status = "OK" THEN w_request ELSE None]
          /\ wpc' = "publish" /\ UNCHANGED w_error
     ELSE WorkerEnds("ESTALE") /\ UNCHANGED slot
  /\ UNCHANGED <<request_sequence, completion_sequence, client_status,
                 service_status, clientWait, workerWait, client, after,
                 w_request, w_status, w_wakes, stopper, history>>

\* ... publishes the completion number ...
WorkerPublish ==
  /\ wpc \in {"publish", "publish_late"}
  /\ completion_sequence' = after + 1
  /\ wpc' = IF wpc = "publish" THEN "peek" ELSE "wake"
  /\ UNCHANGED <<request_sequence, client_status, service_status, slot,
                 clientWait, workerWait, client, after, w_request, w_status,
                 w_error, w_wakes, stopper, history>>

\* ... loads the caller's announcement ...
WorkerPeek ==
  /\ \/ wpc = "peek" /\ wpc' = "wake"
     \/ wpc = "publish" /\ wpc' = "publish_late"
  /\ w_wakes' = (completion_wait_state = "SLEEPING")
  /\ w_overtook' = (wpc = "publish")
  /\ UNCHANGED <<shared, clientWait, workerWait, client, after, w_request,
                 w_status, w_error, stopper, unserved, in_order, c_overtook>>

\* Mutant: the loop goes on with the same number.
WorkerWake_SameNumber ==
  /\ wpc = "wake"
  /\ IF w_wakes THEN ClientWait!Woken ELSE UNCHANGED c_wait
  /\ wpc' = "loop"
  /\ UNCHANGED <<shared, completion_wait_state, c_observed, c_result,
                 workerWait, client, after, w_request, w_status, w_error,
                 w_wakes, stopper, history>>

\* ... and wakes it; the loop goes on after this request.
WorkerWake ==
  /\ wpc = "wake"
  /\ IF w_wakes THEN ClientWait!Woken ELSE UNCHANGED c_wait
  /\ after' = after + 1
  /\ wpc' = "loop"
  /\ UNCHANGED <<shared, completion_wait_state, c_observed, c_result,
                 workerWait, client, w_request, w_status, w_error, w_wakes,
                 stopper, history>>

-----------------------------------------------------------------------------
(***************************************************************************)
(* stop_descriptor_transaction_worker, when the connection ends.           *)
(***************************************************************************)

StopBegin ==
  /\ spc = "serving"
  /\ stop' = TRUE /\ spc' = "fail_store"
  /\ UNCHANGED <<shared, clientWait, workerWait, client, worker, history>>

FailServiceStore ==
  /\ spc = "fail_store"
  /\ service_status' = "FAILED"
  /\ spc' = "fail_wake"
  /\ UNCHANGED <<request_sequence, completion_sequence, client_status, slot,
                 clientWait, workerWait, client, worker, stop, history>>

FailServiceWake ==
  /\ spc = "fail_wake"
  /\ WorkerWait!Woken /\ ClientWait!Woken
  /\ spc' = "join"
  /\ UNCHANGED <<shared, completion_wait_state, c_observed, c_result,
                 request_wait_state, w_observed, w_result, client, worker,
                 stop, history>>

\* pthread_join; afterwards the ring is unmapped.
StopJoin ==
  /\ spc = "join" /\ wpc = "ended"
  /\ spc' = "stopped"
  /\ UNCHANGED <<shared, clientWait, workerWait, client, worker, stop,
                 history>>

-----------------------------------------------------------------------------
ClientStep ==
  \/ CallFill \/ CallPublish \/ CallPeek \/ CallWake \/ CallWait
  \/ CallFinish \/ FailClientStore \/ FailClientWake

WorkerStep ==
  \/ WorkerLoop \/ WorkerWaits \/ WorkerTake \/ WorkerExecute
  \/ WorkerComplete \/ WorkerPublish \/ WorkerPeek \/ WorkerWake

StopStep == FailServiceStore \/ FailServiceWake \/ StopJoin

Next ==
  \/ \E r \in Requests : CallBegin(r)
  \/ ClientStep \/ WorkerStep \/ StopBegin \/ StopStep

Spec == Init /\ [][Next]_vars

\* Threads are scheduled; nobody has to call or to stop, and no deadline has to
\* pass (a wait may go around its loop for ever).
Fairness == WF_vars(ClientStep) /\ WF_vars(WorkerStep) /\ WF_vars(StopStep)

FairSpec == Spec /\ Fairness

-----------------------------------------------------------------------------
(***************************************************************************)
(* Properties.                                                             *)
(***************************************************************************)

\* The shared words and the locals of the three threads.
WordsOK ==
  /\ request_sequence \in Sequence /\ completion_sequence \in Sequence
  /\ request_wait_state \in ClientWait!WaitStates
  /\ completion_wait_state \in ClientWait!WaitStates
  /\ client_status \in {"OK", "FAILED"} /\ service_status \in {"OK", "FAILED"}
  /\ slot \in [Slots -> [state : {"AVAILABLE", "REQUESTED", "COMPLETED"},
                         sequence : Sequence, status : {"OK", "ERROR"},
                         request : Requests \cup {None},
                         response : Requests \cup {None}]]
  /\ cpc \in {"idle", "fill", "publish", "publish_late", "peek", "wake",
              "wait", "fail_store", "fail_wake", "poisoned"}
  /\ c_sequence \in Sequence /\ c_request \in Requests \cup {None}
  /\ c_error \in {"OK", "PEER", "EBUSY", "EPROTO", "ETIMEDOUT", "STATUS",
                  "EOVERFLOW"}
  /\ c_wait \in ClientWait!WaitLocations
  /\ c_observed \in Sequence /\ c_result \in ClientWait!WaitResults
  /\ returned \in (Requests \cup {None}) \X (Requests \cup {None})
  /\ wpc \in {"loop", "wait", "execute", "complete", "publish",
              "publish_late", "peek", "wake", "ended"}
  /\ after \in Sequence /\ w_request \in Requests \cup {None}
  /\ w_status \in {"OK", "ERROR"}
  /\ w_error \in {"OK", "PEER", "EINVAL", "EPROTO", "ESTALE"}
  /\ w_wait \in ClientWait!WaitLocations
  /\ w_observed \in Sequence /\ w_result \in ClientWait!WaitResults
  /\ spc \in {"serving", "fail_store", "fail_wake", "join", "stopped"}
  /\ unserved \in Seq(Requests)

FlagsOK ==
  /\ c_wakes \in BOOLEAN /\ w_wakes \in BOOLEAN /\ stop \in BOOLEAN
  /\ in_order \in BOOLEAN /\ c_overtook \in BOOLEAN /\ w_overtook \in BOOLEAN

\* Every word keeps its type; no sequence word passes UINT32_MAX.
TypeOK == WordsOK /\ FlagsOK

\* A call that succeeds returns the answer to its own request, whatever
\* timeouts, failures and stops happen around it.
AnswersOwnRequest == returned[1] = returned[2]

\* The worker executes what was asked, in order and at most once: never ahead
\* of the client and at most one request behind a client that may go on.
ExecutesInOrder ==
  /\ in_order
  /\ cpc \in {"idle", "fill"} => unserved = <<>>

\* Two correct sides never find the ring in a state they call broken: a slot
\* is free when its turn comes again (no -EBUSY), and neither -EPROTO nor
\* -ESTALE is reachable.
NoBrokenRing ==
  /\ c_error \notin {"EBUSY", "EPROTO"}
  /\ w_error \notin {"EPROTO", "ESTALE"}

\* The handoff of docs/ARCHITECTURE.md E130: "the producer either observes
\* that state and wakes it or the recheck observes the already-published
\* work".  Nobody sleeps on a word that has reached the awaited number unless
\* its publisher is about to look at the announcement or to wake - or its load
\* of the announcement overtook the store, the one case in which the sleeper
\* has only the timeout of its wait.
NoLostHandoff ==
  /\ w_wait = "asleep" /\ request_sequence >= after + 1 =>
       cpc = "peek" \/ (cpc = "wake" /\ c_wakes) \/ c_overtook
  /\ c_wait = "asleep" /\ completion_sequence >= c_sequence =>
       wpc = "peek" \/ (wpc = "wake" /\ w_wakes) \/ w_overtook

\* Everyone's wait ends, even if no deadline ever passes: a call ends with an
\* answer or with the connection poisoned, because the worker answers it or its
\* end fails the ring and the caller sees that (wait_for_sequence, peer_status);
\* and the service's stop joins the worker wherever it was, so that pthread_join
\* does not hang the connection's teardown.
WaitsEnd ==
  /\ (cpc # "idle") ~> (cpc \in {"idle", "poisoned"})
  /\ stop ~> (spc = "stopped")

-----------------------------------------------------------------------------
(***************************************************************************)
(* The inductive invariant.                                                *)
(***************************************************************************)

\* A request is published and its completion is not.
Outstanding == request_sequence = completion_sequence + 1

Preparing == cpc \in {"idle", "fill", "publish", "publish_late"}
Asked == cpc \in {"peek", "wake", "wait"}
Serving == wpc \in {"execute", "complete", "publish", "publish_late"}

\* The numbers of the two sides move in step, one request at a time.
SequencesAgree ==
  /\ ~Outstanding => request_sequence = completion_sequence
  /\ Preparing => c_sequence = request_sequence + 1 /\ ~Outstanding
  /\ Asked => c_sequence = request_sequence /\ c_sequence >= 1
  /\ completion_sequence = IF wpc \in {"peek", "wake"} THEN after + 1 ELSE after
  /\ Serving => Outstanding

\* What the slot of the request in progress holds.
RequestInSlot ==
  /\ Outstanding =>
       LET s == slot[SlotOf(request_sequence)] IN
       /\ c_request \in Requests
       /\ s.sequence = request_sequence /\ s.request = c_request
       /\ IF wpc \in {"publish", "publish_late"}
          THEN /\ s.state = "COMPLETED" /\ s.status = w_status
               /\ w_status = "OK" => s.response = c_request
          ELSE s.state = "REQUESTED"
  /\ cpc \in {"publish", "publish_late"} =>
       LET s == slot[SlotOf(c_sequence)] IN
       /\ s.sequence = c_sequence /\ s.request = c_request
       /\ s.state = "REQUESTED"
  /\ Asked /\ ~Outstanding =>
       LET s == slot[SlotOf(c_sequence)] IN
       /\ s.sequence = c_sequence /\ s.state = "COMPLETED"
       /\ s.status = "OK" => s.response = c_request
  /\ cpc \in {"fill", "publish", "publish_late"} => c_request \in Requests
  /\ Serving => w_request = c_request

\* Every other slot is free.
OthersAvailable ==
  \A s \in Slots :
    cpc \in {"idle", "fill"} \/ ((Preparing \/ Asked) /\ s # SlotOf(c_sequence))
      => slot[s].state = "AVAILABLE"

\* What a waiter has announced, loaded and concluded.
WaitsKnow ==
  /\ cpc # "wait" => c_wait = "out"
  /\ wpc # "wait" => w_wait = "out"
  /\ c_wait \in {"recheck", "load", "futex", "asleep"} =>
       completion_wait_state = "SLEEPING"
  /\ w_wait \in {"recheck", "load", "futex", "asleep"} =>
       request_wait_state = "SLEEPING"
  /\ c_wait = "futex" => c_observed < c_sequence
  /\ w_wait = "futex" => w_observed < after + 1
  /\ c_wait = "done" /\ c_result = "OK" => ~Outstanding
  /\ w_wait = "done" /\ w_result = "OK" => Outstanding

\* What the histories say of the request in progress.
HistoriesAgree ==
  /\ unserved = IF Outstanding /\ wpc \notin {"complete", "publish", "publish_late"}
                THEN <<c_request>> ELSE <<>>
  /\ cpc = "publish_late" => c_overtook
  /\ wpc = "publish_late" => w_overtook

TransactionInv ==
  /\ TypeOK
  /\ SequencesAgree
  /\ RequestInSlot
  /\ OthersAvailable
  /\ WaitsKnow
  /\ HistoriesAgree
  /\ in_order
  /\ AnswersOwnRequest
  /\ NoBrokenRing
  /\ NoLostHandoff
=============================================================================
