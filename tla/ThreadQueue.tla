----------------------------- MODULE ThreadQueue -----------------------------
(***************************************************************************)
(* base/thread_queue.h: the blocking queue every queue of the server is an *)
(* instance of (NetThread::sendlist, EpollServer::recvlist and             *)
(* HandleThread::handlelist).                                              *)
(*                                                                         *)
(* A call that holds queue_mutex from its first access to its last is one  *)
(* action.  Two calls are not: push_back(T) compares _size with _maxSize   *)
(* before it takes the mutex, and pop_front and swap release the mutex     *)
(* while they wait on the condition variable.  isTerminate is never set,   *)
(* so the loop in wait() tests the queue only.                             *)
(*                                                                         *)
(* An element is <<p, k>>, the k-th element producer p offered.            *)
(***************************************************************************)
EXTENDS Integers, Sequences, FiniteSets

CONSTANTS Producers,  \* threads that offer elements
          Consumers,  \* threads that take elements
          Calls,      \* the member functions the threads call
          Millis,     \* the waiting times consumers pass
          MaxSize,    \* _maxSize after construction
          Limits,     \* the arguments of setMaxSize
          Batch,      \* most elements of one batch push
          Leftover,   \* most elements in the deque a caller passes to swap
          MaxPush     \* elements one producer offers

AllCalls == {"push_back", "push_batch", "push_front", "pop_front", "swap",
             "clear", "setMaxSize", "notifyT"}

ASSUME QueueAssumption ==
  /\ IsFiniteSet(Producers) /\ Producers # {}
  /\ IsFiniteSet(Consumers)
  /\ Calls \subseteq AllCalls
  /\ Millis \subseteq Int
  /\ MaxSize \in Nat
  /\ Limits \subseteq 0..MaxSize
  /\ Batch \in Nat
  /\ Leftover \in Nat
  /\ MaxPush \in Nat

VARIABLES queue,    \* _queue
          size,     \* _size
          maxSize,  \* _maxSize
          prod,     \* where each producer is in push_back(T)
          pushed,   \* how many elements each producer has offered
          cons,     \* where each consumer is in pop_front or swap
          call,     \* the last call of each consumer
          ret,      \* what that call returned, or that its assertion failed
          held,     \* the end of the deque each consumer got from swap
          returned, \* does the queue hold what swap took from a caller?
          out       \* elements handed to consumers, in order

pvars == <<prod, pushed>>
svars == <<held, returned>>
cvars == <<cons, call, ret, svars>>
vars  == <<queue, size, maxSize, prod, pushed, cons, call, ret, svars, out>>

Item == Producers \X (Nat \ {0})
Call == [op : {"pop_front", "swap"}, ms : Millis \cup {0}]

Passed  == {p \in Producers : prod[p] = "passed"}   \* beyond the check
Waiting == {c \in Consumers : cons[c] = "waiting"}  \* in the condition variable
Woken   == {c \in Consumers : cons[c] = "woken"}    \* about to relock

\* The assertion of pop_front has failed, and the program has ended.
Aborted == \E c \in Consumers : ret[c] = "abort"

Init == /\ queue = <<>>
        /\ size = 0
        /\ maxSize = MaxSize
        /\ prod = [p \in Producers |-> "idle"]
        /\ pushed = [p \in Producers |-> 0]
        /\ cons = [c \in Consumers |-> "idle"]
        /\ call = [c \in Consumers |-> [op |-> "pop_front", ms |-> 0]]
        /\ ret = [c \in Consumers |-> "none"]
        /\ held = [c \in Consumers |-> <<>>]
        /\ returned = FALSE
        /\ out = <<>>

-----------------------------------------------------------------------------
(* Helpers.                                                                *)

Least(m, n) == IF m <= n THEN m ELSE n

\* Variants: a batch wakes one waiter only; nobody is woken.
NotifyOnce(n) ==
  \E W \in SUBSET Waiting :
    /\ Cardinality(W) = Least(Least(n, 1), Cardinality(Waiting))
    /\ cons' = [c \in Consumers |-> IF c \in W THEN "woken" ELSE cons[c]]
NotifyNone(n) == n \in Nat /\ UNCHANGED cons

\* n calls of notify_one: each wakes one waiter if there is one.
NotifyN(n) ==
  \E W \in SUBSET Waiting :
    /\ Cardinality(W) = Least(n, Cardinality(Waiting))
    /\ cons' = [c \in Consumers |-> IF c \in W THEN "woken" ELSE cons[c]]

\* The next n elements of p.
Fresh(p, n) == [i \in 1..n |-> <<p, pushed[p] + i>>]

Offered(p, n) == pushed' = [pushed EXCEPT ![p] = @ + n]

\* "millsecond > 3600*24" in pop_front, "== (size_t)-1" in swap.
Forever(op, ms) == IF op = "pop_front" THEN ms > 86400 ELSE ms = -1

-----------------------------------------------------------------------------
(* Producers.                                                              *)

\* Variant: the check lets one element too many through.
PushCheckLoose(p) ==
  /\ ~Aborted
  /\ "push_back" \in Calls
  /\ prod[p] = "idle" /\ pushed[p] < MaxPush
  /\ size <= maxSize
  /\ prod' = [prod EXCEPT ![p] = "passed"]
  /\ UNCHANGED <<queue, size, maxSize, pushed, cvars, out>>

\* push_back(T): the check, without the mutex, lets the producer through.
PushCheck(p) ==
  /\ ~Aborted
  /\ "push_back" \in Calls
  /\ prod[p] = "idle" /\ pushed[p] < MaxPush
  /\ size < maxSize
  /\ prod' = [prod EXCEPT ![p] = "passed"]
  /\ UNCHANGED <<queue, size, maxSize, pushed, cvars, out>>

\* push_back(T): the check fails; every caller but close_connector drops
\* the element.
PushRefused(p) ==
  /\ ~Aborted
  /\ "push_back" \in Calls
  /\ prod[p] = "idle" /\ pushed[p] < MaxPush
  /\ size >= maxSize
  /\ Offered(p, 1)
  /\ UNCHANGED <<queue, size, maxSize, prod, cvars, out>>

\* push_back(T): the rest of the call, under the mutex.
PushInsert(p) ==
  /\ ~Aborted
  /\ prod[p] = "passed"
  /\ queue' = queue \o Fresh(p, 1)
  /\ size' = size + 1
  /\ NotifyN(1)
  /\ Offered(p, 1)
  /\ prod' = [prod EXCEPT ![p] = "idle"]
  /\ UNCHANGED <<maxSize, call, ret, svars, out>>

\* Variant: all of the batch is put in, whatever room there is.
PushBatchAll(p) ==
  /\ ~Aborted
  /\ "push_batch" \in Calls
  /\ prod[p] = "idle"
  /\ \E len \in 1..Batch :
       /\ pushed[p] + len <= MaxPush
       /\ queue' = queue \o Fresh(p, len)
       /\ size' = size + len
       /\ NotifyN(len)
       /\ Offered(p, len)
  /\ UNCHANGED <<maxSize, prod, call, ret, svars, out>>

\* push_back(queue_type) appends while there is room, under the mutex.
PushBatch(p) ==
  /\ ~Aborted
  /\ "push_batch" \in Calls
  /\ prod[p] = "idle"
  /\ \E len \in 1..Batch :
       LET room == IF size < maxSize THEN maxSize - size ELSE 0
           n    == Least(len, room)
       IN /\ pushed[p] + len <= MaxPush
          /\ queue' = queue \o Fresh(p, n)
          /\ size' = size + n
          /\ NotifyN(n)
          /\ Offered(p, len)
  /\ UNCHANGED <<maxSize, prod, call, ret, svars, out>>

\* Variant: push_front does not count.
PushFrontUncounted(p) ==
  /\ ~Aborted
  /\ "push_front" \in Calls
  /\ prod[p] = "idle"
  /\ \E len \in 1..Batch :
       /\ pushed[p] + len <= MaxPush
       /\ queue' = [i \in 1..len |-> <<p, pushed[p] + len + 1 - i>>] \o queue
       /\ NotifyN(len)
       /\ Offered(p, len)
  /\ UNCHANGED <<size, maxSize, prod, call, ret, svars, out>>

\* push_front(T) and push_front(queue_type): one by one to the front, and
\* no look at _maxSize.
PushFront(p) ==
  /\ ~Aborted
  /\ "push_front" \in Calls
  /\ prod[p] = "idle"
  /\ \E len \in 1..Batch :
       /\ pushed[p] + len <= MaxPush
       /\ queue' = [i \in 1..len |-> <<p, pushed[p] + len + 1 - i>>] \o queue
       /\ size' = size + len
       /\ NotifyN(len)
       /\ Offered(p, len)
  /\ UNCHANGED <<maxSize, prod, call, ret, svars, out>>

-----------------------------------------------------------------------------
(* Consumers.                                                              *)

Return(c, result) == /\ cons' = [cons EXCEPT ![c] = "idle"]
                     /\ ret' = [ret EXCEPT ![c] = result]

\* The last n elements of q.
Last(q, n) == SubSeq(q, Len(q) - n + 1, Len(q))

\* The end of pop_front on a queue that is not empty, with its assertion.
PopFront(c) ==
  /\ \/ /\ size > 0
        /\ out' = Append(out, Head(queue))
        /\ queue' = Tail(queue)
        /\ size' = size - 1
        /\ Return(c, "got")
     \/ /\ size = 0
        /\ Return(c, "abort")
        /\ UNCHANGED <<queue, size, out>>
  /\ UNCHANGED svars

\* The end of swap on a queue that is not empty.  The caller may not have
\* worked through the deque it got last: its last n elements are the queue
\* now.  _size is set to q.size(), q being the deque that now holds the
\* elements taken out.
SwapAll(c) ==
  /\ \E n \in 0..Least(Leftover, Len(held[c])) :
       /\ queue' = Last(held[c], n)
       /\ returned' = (n > 0)
  /\ held' = [held EXCEPT ![c] = Last(queue, Least(Leftover, Len(queue)))]
  /\ out' = out \o queue
  /\ size' = Len(queue)
  /\ Return(c, "got")

Take(c, op) ==
  /\ queue # <<>>
  /\ IF op = "pop_front" THEN PopFront(c) ELSE SwapAll(c)

\* pop_front(t, ms) or swap(q, ms) up to its return or its first wait.
Enter(c, op, ms) ==
  /\ ~Aborted
  /\ op \in Calls
  /\ cons[c] = "idle"
  /\ call' = [call EXCEPT ![c] = [op |-> op, ms |-> ms]]
  /\ \/ Take(c, op)
     \/ /\ queue = <<>> /\ ms = 0
        /\ Return(c, "empty")
        /\ UNCHANGED <<queue, size, svars, out>>
     \/ /\ queue = <<>> /\ ms # 0
        /\ cons' = [cons EXCEPT ![c] = "waiting"]
        /\ ret' = [ret EXCEPT ![c] = "none"]
        /\ UNCHANGED <<queue, size, svars, out>>
  /\ UNCHANGED <<maxSize, pvars>>

\* wait_for expires, or the condition variable wakes up spuriously.
WakeUp(c) ==
  /\ ~Aborted
  /\ cons[c] = "waiting"
  /\ cons' = [cons EXCEPT ![c] = "woken"]
  /\ UNCHANGED <<queue, size, maxSize, pvars, call, ret, svars, out>>

\* The mutex is held again: take, wait on in the loop of wait(), or give up
\* after the single wait of timedWait().
Resume(c) ==
  /\ ~Aborted
  /\ cons[c] = "woken"
  /\ \/ Take(c, call[c].op)
     \/ /\ queue = <<>> /\ Forever(call[c].op, call[c].ms)
        /\ cons' = [cons EXCEPT ![c] = "waiting"]
        /\ UNCHANGED <<queue, size, svars, out, ret>>
     \/ /\ queue = <<>> /\ ~Forever(call[c].op, call[c].ms)
        /\ Return(c, "empty")
        /\ UNCHANGED <<queue, size, svars, out>>
  /\ UNCHANGED <<maxSize, pvars, call>>

-----------------------------------------------------------------------------
(* Calls any thread may make.                                              *)

Clear ==
  /\ ~Aborted
  /\ "clear" \in Calls
  /\ queue' = <<>>
  /\ size' = 0
  /\ returned' = FALSE
  /\ UNCHANGED <<maxSize, pvars, cons, call, ret, held, out>>

SetMaxSize(m) ==
  /\ ~Aborted
  /\ "setMaxSize" \in Calls
  /\ maxSize' = m
  /\ UNCHANGED <<queue, size, pvars, cvars, out>>

NotifyT ==
  /\ ~Aborted
  /\ "notifyT" \in Calls
  /\ cons' = [c \in Consumers |-> IF c \in Waiting THEN "woken" ELSE cons[c]]
  /\ UNCHANGED <<queue, size, maxSize, pvars, call, ret, svars, out>>

-----------------------------------------------------------------------------
Consume(c) == \/ \E ms \in Millis : Enter(c, "pop_front", ms)
              \/ Resume(c)

Next == \/ \E p \in Producers : \/ PushCheck(p)
                                \/ PushRefused(p)
                                \/ PushInsert(p)
                                \/ PushBatch(p)
                                \/ PushFront(p)
        \/ \E c \in Consumers, ms \in Millis :
             \/ Enter(c, "pop_front", ms)
             \/ Enter(c, "swap", ms)
        \/ \E c \in Consumers : WakeUp(c) \/ Resume(c)
        \/ Clear
        \/ \E m \in Limits : SetMaxSize(m)
        \/ NotifyT

Spec == Init /\ [][Next]_vars

\* Producers finish the push they began and consumers keep calling, as the
\* loop of HandleThread::handleImp does.  Nothing is assumed of WakeUp.
FairSpec == /\ Spec
            /\ \A p \in Producers : WF_vars(PushInsert(p))
            /\ \A c \in Consumers : WF_vars(Consume(c))

-----------------------------------------------------------------------------
(* Properties.                                                             *)

\* Every variable has its type.
TypeOK == /\ queue \in Seq(Item)
          /\ size \in Nat
          /\ maxSize \in 0..MaxSize
          /\ prod \in [Producers -> {"idle", "passed"}]
          /\ pushed \in [Producers -> Nat]
          /\ cons \in [Consumers -> {"idle", "waiting", "woken"}]
          /\ call \in [Consumers -> Call]
          /\ ret \in [Consumers -> {"none", "got", "empty", "abort"}]
          /\ held \in [Consumers -> Seq(Item)]
          /\ returned \in BOOLEAN
          /\ out \in Seq(Item)

\* push_back(T) tests the size before it locks, so _maxSize can be exceeded,
\* but by fewer elements than there are producers; each producer that is
\* past the test already has its place counted.  push_front does not look
\* at _maxSize, nor does swap when the caller's deque holds elements.
CapacityBound ==
  "push_front" \notin Calls /\ Leftover = 0 =>
    Len(queue) + Cardinality(Passed) <= MaxSize + Cardinality(Producers) - 1

\* pop_front's assert(_size > 0) (line 136) fails in no other way than this:
\* swap has put elements of its caller's deque into the queue and counted
\* those it took out.  clear and a swap with an empty deque mend that.
AssertHolds == Aborted => returned

\* While a thread sleeps in the condition variable, at least as many threads
\* are awake to come for an element as there are elements: no notification
\* is lost to a timeout, a barging consumer or a batch.  What swap puts in
\* nobody is notified of.
NoLostWakeup ==
  Waiting # {} /\ ~returned => Len(queue) <= Cardinality(Woken)

\* What is pushed is eventually taken, even when every consumer sleeps with
\* no timeout: each push wakes one.
Delivered == (queue # <<>>) ~> (queue = <<>>)

\* Clients that only append see a bounded first-in first-out channel.
BQ == INSTANCE BoundedQueue
        WITH chan <- queue, out <- out,
             Cap <- MaxSize + Cardinality(Producers) - 1
Abstract == BQ!Spec
=============================================================================
