---------------------------- MODULE MCThreadQueue ----------------------------
(***************************************************************************)
(* Instances of ThreadQueue for TLC.                                       *)
(***************************************************************************)
EXTENDS ThreadQueue, TLC

AppendCalls == {"push_back", "push_batch", "pop_front", "clear", "setMaxSize"}

\* No wait, the 100 ms of the handle threads, and a wait without limit.
MCMillis == {0, 100, 86401}
\* The same for swap, whose wait without limit is -1.
AllMillis == {0, 100, -1, 86401}
MCLimits == {1}

\* Nothing depends on what was taken out before: two states that differ in it
\* only are one.
View == <<queue, size, maxSize, prod, pushed, cons, call, ret, svars>>

Sym == Permutations(Producers) \cup Permutations(Consumers)
=============================================================================
