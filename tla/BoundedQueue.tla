---------------------------- MODULE BoundedQueue ----------------------------
(***************************************************************************)
(* What base/thread_queue.h promises its callers, without threads, locks   *)
(* or a counter: a first-in first-out channel that never holds more than   *)
(* Cap elements.  ThreadQueue implements it for clients that only append   *)
(* (ThreadQueueProofs!Refinement); NetThread is written against it.        *)
(***************************************************************************)
EXTENDS Naturals, Sequences

CONSTANTS Item,  \* what may be put into the channel
          Cap    \* the most elements the channel ever holds

VARIABLES chan,  \* elements put and not yet taken, oldest first
          out    \* elements taken, in the order in which they were taken

qvars == <<chan, out>>

Init == chan = <<>> /\ out = <<>>

\* Elements are appended.
Put == /\ chan' \in Seq(Item)
       /\ Len(chan') \in Len(chan)..Cap
       /\ SubSeq(chan', 1, Len(chan)) = chan
       /\ UNCHANGED out

\* The oldest element is handed to a consumer.
Get == /\ chan # <<>>
       /\ out' = Append(out, Head(chan))
       /\ chan' = Tail(chan)

\* Every element is handed to one consumer at once.
GetAll == /\ out' = out \o chan
          /\ chan' = <<>>

\* Every element is thrown away.
Discard == /\ chan' = <<>>
           /\ UNCHANGED out

Next == \/ Put
        \/ Get
        \/ GetAll
        \/ Discard

Spec == Init /\ [][Next]_qvars
=============================================================================
