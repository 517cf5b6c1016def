----------------------------- MODULE FrameQueue -----------------------------
(***************************************************************************)
(* What the game-to-Activity image ring promises, without its slot words,  *)
(* sequence numbers and futexes (docs/decisions/0005): an image is free,   *)
(* lent to the game, or a finished frame waiting in order.  The Activity   *)
(* reads the oldest frame only, and an image is free again only after the  *)
(* Activity has read it.                                                   *)
(***************************************************************************)
EXTENDS Naturals, Sequences

CONSTANT Images

VARIABLES
  free,     \* images the game may be given
  frames,   \* finished images in presentation order
  reading   \* the image the Activity is copying, if any

queueVars == <<free, frames, reading>>

Waiting == {frames[i] : i \in 1 .. Len(frames)}

Init == free = Images /\ frames = <<>> /\ reading = {}

\* The game is given an image nobody else uses.
Acquire(i) ==
  /\ i \in free
  /\ free' = free \ {i}
  /\ UNCHANGED <<frames, reading>>

\* The game hands over a finished image it was lent.
Present(i) ==
  /\ i \in Images \ (free \cup Waiting)
  /\ frames' = Append(frames, i)
  /\ UNCHANGED <<free, reading>>

\* The Activity starts to copy the oldest frame.
StartReading ==
  /\ frames # <<>> /\ reading = {}
  /\ reading' = {Head(frames)}
  /\ UNCHANGED <<free, frames>>

\* The copy failed, or the ring has failed: the image is not given back.
AbandonReading ==
  /\ reading' = {}
  /\ UNCHANGED <<free, frames>>

\* The frame has been shown: its image is free.
FinishReading ==
  /\ frames # <<>> /\ reading = {Head(frames)}
  /\ free' = free \cup reading
  /\ frames' = Tail(frames)
  /\ reading' = {}

Next ==
  \/ \E i \in Images : Acquire(i) \/ Present(i)
  \/ StartReading \/ AbandonReading \/ FinishReading

Spec == Init /\ [][Next]_queueVars
=============================================================================
