---------------------------- MODULE FrameChannel ----------------------------
(***************************************************************************)
(* What sending identifiers as frames promises: whoever receives takes the *)
(* frames that were sent, in the order they were sent, each once, and in   *)
(* the end every one of them.                                              *)
(***************************************************************************)
EXTENDS Naturals, Sequences

CONSTANTS
  Frames,     \* whatever can be sent as a frame
  MaxFrames   \* bound on the frames sent

VARIABLES
  sent,      \* the frames sent, in order
  received   \* the frames received

channelVars == <<sent, received>>

Init == sent = << >> /\ received = << >>

Send ==
  /\ Len(sent) < MaxFrames
  /\ \E frame \in Frames : sent' = Append(sent, frame)
  /\ UNCHANGED received

Receive ==
  /\ Len(received) < Len(sent)
  /\ received' = Append(received, sent[Len(received) + 1])
  /\ UNCHANGED sent

Next == Send \/ Receive

Spec == Init /\ [][Next]_channelVars

\* Every frame sent is received, as WF_channelVars(Receive) makes it.
EveryFrameArrives ==
  \A n \in 1 .. MaxFrames : Len(sent) >= n ~> Len(received) >= n
=============================================================================
