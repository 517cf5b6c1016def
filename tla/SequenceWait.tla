---------------------------- MODULE SequenceWait ----------------------------
(***************************************************************************)
(* wait_for_sequence of src/descriptor_transaction_ring.c: one thread      *)
(* waits until a shared word reaches a number.  It spins, then announces   *)
(* that it sleeps, rechecks, and sleeps on a futex.                        *)
(*                                                                         *)
(* An iteration of the spin that sees nothing changes nothing, so the spin *)
(* is one location with three ways out.  IDLE and SPINNING mean the same   *)
(* to the publisher, so entering the spin is the first step of the wait.   *)
(***************************************************************************)
EXTENDS Naturals

VARIABLES
  wpc,         \* where the waiter is
  wait_state,  \* the shared announcement: IDLE, SPINNING or SLEEPING
  observed,    \* the word as loaded before the futex wait
  result,      \* what the wait returned
  word,        \* the shared word: the waiter only reads it
  expected,    \* the number waited for
  failed       \* peer_status(ring) # 0

WaitLocations == {"out", "spin", "recheck", "load", "futex", "asleep", "done"}
WaitStates == {"IDLE", "SPINNING", "SLEEPING"}
WaitResults == {"OK", "PEER", "ETIMEDOUT"}

\* The wait returns r; it never leaves an announcement behind.
Return(r) ==
  /\ wpc' = "done" /\ result' = r
  /\ wait_state' = "IDLE"
  /\ UNCHANGED observed

Begin ==
  /\ wpc' = "spin" /\ wait_state' = "SPINNING"
  /\ UNCHANGED <<observed, result>>

\* The spin loads the status first and the word second, so it may still see
\* the word after the peer has failed.
SpinFails == wpc = "spin" /\ failed /\ Return("PEER")

SpinSees == wpc = "spin" /\ word >= expected /\ Return("OK")

\* 250 microseconds are over: announce the sleep.
SpinExpires ==
  /\ wpc = "spin"
  /\ wpc' = "recheck" /\ wait_state' = "SLEEPING"
  /\ UNCHANGED <<observed, result>>

\* Mutant: only the spin looks at the peer.
Recheck_IgnoresPeer ==
  /\ wpc = "recheck"
  /\ wpc' = "load"
  /\ UNCHANGED <<wait_state, observed, result>>

\* Top of the sleep loop.
Recheck ==
  /\ wpc = "recheck"
  /\ \/ failed /\ Return("PEER")
     \/ /\ ~failed
        /\ wpc' = "load"
        /\ UNCHANGED <<wait_state, observed, result>>

\* Mutant: the word is not looked at again after the announcement.
Load_NoRecheck ==
  /\ wpc = "load"
  /\ wpc' = "futex" /\ observed' = word
  /\ UNCHANGED <<wait_state, result>>

Load ==
  /\ wpc = "load"
  /\ \/ word >= expected /\ Return("OK")
     \/ /\ word < expected
        /\ wpc' = "futex" /\ observed' = word
        /\ UNCHANGED <<wait_state, result>>

\* futex_wait_until: past the deadline, EAGAIN because the word moved, or
\* asleep.
Futex ==
  /\ wpc = "futex"
  /\ \/ Return("ETIMEDOUT")
     \/ /\ word # observed /\ wpc' = "recheck"
        /\ UNCHANGED <<wait_state, observed, result>>
     \/ /\ word = observed /\ wpc' = "asleep"
        /\ UNCHANGED <<wait_state, observed, result>>

\* The sleep ends by its deadline or by a signal.
SleepEnds ==
  /\ wpc = "asleep"
  /\ \/ Return("ETIMEDOUT")
     \/ wpc' = "recheck" /\ UNCHANGED <<wait_state, observed, result>>

\* Every step of a wait in progress.
WaitStep ==
  \/ SpinFails \/ SpinSees \/ SpinExpires \/ Recheck \/ Load \/ Futex
  \/ SleepEnds

\* futex_wake on the word.
Woken == wpc' = IF wpc = "asleep" THEN "recheck" ELSE wpc
=============================================================================
