-------------------------------- MODULE Memory --------------------------------
(***************************************************************************)
(* base/memory_pool.cc: MemoryPoll, free lists of blocks in size classes,  *)
(* filled from chunks.  A block is <<chunk, offset>>; the lists start      *)
(* empty, as in an object with static storage (no constructor sets them).  *)
(***************************************************************************)
EXTENDS Naturals, Sequences, FiniteSets, Functions

CONSTANTS Align, MaxBytes,  \* _S_align, _S_max_bytes
          PerChunk,         \* the blocks of a chunk, 20 in _M_allocate_chunk
          Sizes,            \* sizes that are asked for
          MaxChunks         \* bound: chunks and big blocks of a run

VARIABLE s  \* [free, chunks, live, big, ended]; live: blocks out, with the bytes asked for

\* _M_round_up
\* Variant: one byte short.
RoundShort(n) == ((n + Align - 2) \div Align) * Align
RoundUp(n) == ((n + Align - 1) \div Align) * Align
Class(n) == RoundUp(n) \div Align
Init == s = [free |-> [c \in 1..MaxBytes \div Align |-> <<>>], chunks |-> <<>>,
             live |-> {}, big |-> 0, ended |-> FALSE]

\* _M_refill: the blocks of a new chunk, in order; the chunk joins the list of chunks.
Blocks(chunk, size) == [i \in 1..PerChunk |-> <<chunk, (i - 1) * size>>]
_M_refill(x, n) ==
  [x EXCEPT !.chunks = Append(@, RoundUp(n) * PerChunk),
            !.free[Class(n)] = Blocks(Len(x.chunks) + 1, RoundUp(n))]

\* _M_allocate_chunk
TakeFirst(x, n) ==
  [x EXCEPT !.free[Class(n)] = Tail(@),
            !.live = @ \cup {[at |-> Head(x.free[Class(n)]), bytes |-> n]}]

\* allocate; memory may be short, and then the caller gets NULL.
allocate(n) ==
  /\ ~s.ended
  /\ \/ n > MaxBytes /\ s.big < MaxChunks /\ s' = [s EXCEPT !.big = @ + 1]
     \/ n <= MaxBytes /\ s.free[Class(n)] # <<>> /\ s' = TakeFirst(s, n)
     \/ /\ n <= MaxBytes /\ s.free[Class(n)] = <<>> /\ Len(s.chunks) < MaxChunks
        /\ s' = TakeFirst(_M_refill(s, n), n)

\* deallocate, with the number of bytes that was asked for.
Free(b) == s' = [s EXCEPT !.live = @ \ {b}, !.free[Class(b.bytes)] = <<b.at>> \o @]
deallocate == /\ ~s.ended
              /\ \/ \E b \in s.live : Free(b)
                 \/ s.big > 0 /\ s' = [s EXCEPT !.big = @ - 1]

\* ~MemoryPoll: release_memory gives every chunk back once; the lists keep their blocks.
release_memory == ~s.ended /\ s' = [s EXCEPT !.ended = TRUE, !.chunks = <<>>]

Next == (\E n \in Sizes : allocate(n)) \/ deallocate \/ release_memory
Spec == Init /\ [][Next]_s
-----------------------------------------------------------------------------
Bytes(b) == {<<b.at[1], b.at[2] + i>> : i \in 0..b.bytes - 1}
\* Blocks that are out never share a byte and never leave their chunk, and none of them is in a
\* free list, through every order of allocating and giving back blocks of different classes.
BlocksApart ==
  ~s.ended =>
    /\ \A a, b \in s.live : a # b => Bytes(a) \cap Bytes(b) = {}
    /\ \A b \in s.live : b.at[2] + b.bytes <= s.chunks[b.at[1]]
    /\ \A c \in DOMAIN s.free : {b.at : b \in s.live} \cap Range(s.free[c]) = {}
=============================================================================
