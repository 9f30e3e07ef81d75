-------------------------- MODULE ThreadQueueProofs --------------------------
(***************************************************************************)
(* Proofs about ThreadQueue for any number of threads, any limit and any   *)
(* set of calls.                                                           *)
(***************************************************************************)
EXTENDS ThreadQueue, FiniteSetTheorems, SequenceTheorems, TLAPS

-----------------------------------------------------------------------------
(* Lemmas about the helpers.                                               *)

\* The thread sets whose sizes are compared are finite.
LEMMA Finiteness ==
  /\ IsFiniteSet(Passed)  /\ Cardinality(Passed) \in Nat
  /\ IsFiniteSet(Waiting) /\ Cardinality(Waiting) \in Nat
  /\ IsFiniteSet(Woken)   /\ Cardinality(Woken) \in Nat
  /\ Cardinality(Producers) \in Nat
<1>1. /\ Passed \in SUBSET Producers
      /\ Waiting \in SUBSET Consumers
      /\ Woken \in SUBSET Consumers
  BY DEF Passed, Waiting, Woken
<1>2. IsFiniteSet(Passed) /\ IsFiniteSet(Waiting) /\ IsFiniteSet(Woken)
  BY <1>1, FS_Subset, QueueAssumption DEF QueueAssumption
<1>3. QED
  BY <1>2, FS_CardinalityType, QueueAssumption DEF QueueAssumption

\* The same of the threads awake after a step.
LEMMA FinitenessPrime == Cardinality(Woken') \in Nat
<1>1. Woken' \in SUBSET Consumers
  BY DEF Woken
<1>2. QED
  BY <1>1, FS_Subset, FS_CardinalityType, QueueAssumption DEF QueueAssumption

\* One member less makes a set smaller by one at most.
LEMMA RemoveOne ==
  ASSUME NEW S, NEW x, IsFiniteSet(S)
  PROVE  Cardinality(S \ {x}) \in {Cardinality(S), Cardinality(S) - 1}
BY FS_RemoveElement

\* One member more never makes it smaller.
LEMMA AddOne ==
  ASSUME NEW S, NEW x, IsFiniteSet(S)
  PROVE  Cardinality(S \cup {x}) \in {Cardinality(S), Cardinality(S) + 1}
BY FS_AddElement

\* Fresh(p, n) is a sequence of n elements.
LEMMA FreshType ==
  ASSUME NEW p \in Producers, NEW n \in Nat, TypeOK
  PROVE  Fresh(p, n) \in Seq(Item) /\ Len(Fresh(p, n)) = n
<1>1. \A i \in 1..n : <<p, pushed[p] + i>> \in Item
  BY DEF TypeOK, Item
<1>2. Fresh(p, n) \in [1..n -> Item]
  BY <1>1 DEF Fresh
<1>3. QED
  BY <1>2

\* The length of a concatenation.
LEMMA ConcatType ==
  ASSUME NEW s \in Seq(Item), NEW t \in Seq(Item)
  PROVE  s \o t \in Seq(Item) /\ Len(s \o t) = Len(s) + Len(t)
OBVIOUS

\* If somebody still sleeps after n notifications, each of them woke one
\* thread.
LEMMA NotifyWakes ==
  ASSUME NEW n \in Nat, TypeOK, NotifyN(n)
  PROVE  /\ cons' \in [Consumers -> {"idle", "waiting", "woken"}]
         /\ Waiting' # {} => /\ Waiting # {}
                             /\ Cardinality(Woken') = Cardinality(Woken) + n
<1>1. PICK W \in SUBSET Waiting :
        /\ Cardinality(W) = Least(n, Cardinality(Waiting))
        /\ cons' = [c \in Consumers |-> IF c \in W THEN "woken" ELSE cons[c]]
  BY DEF NotifyN
<1>2. cons' \in [Consumers -> {"idle", "waiting", "woken"}]
  BY <1>1 DEF TypeOK
<1>3. Waiting' = Waiting \ W /\ Woken' = Woken \cup W /\ Woken \cap W = {}
  BY <1>1 DEF Waiting, Woken
<1>4. ASSUME Waiting' # {}
      PROVE  Waiting # {} /\ Cardinality(Woken') = Cardinality(Woken) + n
  <2>1. IsFiniteSet(W) /\ Cardinality(W) \in Nat
    BY <1>1, Finiteness, FS_Subset, FS_CardinalityType
  <2>2. W # Waiting
    BY <1>3, <1>4
  <2>3. Cardinality(W) # Cardinality(Waiting)
    BY <1>1, <2>2, Finiteness, FS_Subset
  <2>4. Cardinality(W) = n
    BY <1>1, <2>3, Finiteness DEF Least
  <2>5. Cardinality(Woken \cup W) = Cardinality(Woken) + Cardinality(W) - 0
    BY <1>3, <2>1, Finiteness, FS_Union, FS_EmptySet
  <2>6. QED
    BY <1>3, <1>4, <2>1, <2>4, <2>5, Finiteness
<1>5. QED
  BY <1>2, <1>4

-----------------------------------------------------------------------------
(* Types, and the assertion in pop_front.  Neither is inductive alone:     *)
(* _size covers the queue but for what swap put back into it, and the      *)
(* assertion fails only on a queue that _size does not cover.              *)

SizeCovers == returned \/ Len(queue) <= size

TypeInv == TypeOK /\ SizeCovers /\ AssertHolds

\* The last elements of a sequence.
LEMMA LastType ==
  ASSUME NEW q \in Seq(Item), NEW n \in 0..Len(q)
  PROVE  Last(q, n) \in Seq(Item) /\ Len(Last(q, n)) = n
<1>1. Len(q) \in Nat /\ Len(q) - n + 1 \in 1..Len(q) + 1
  OBVIOUS
<1>2. /\ SubSeq(q, Len(q) - n + 1, Len(q)) \in Seq(Item)
      /\ Len(SubSeq(q, Len(q) - n + 1, Len(q))) = n
  BY <1>1, SubSeqProperties
<1>3. QED
  BY <1>2 DEF Last

\* A call that returns anything but "abort" has met no failing assertion.
LEMMA ReturnType ==
  ASSUME TypeOK, ~Aborted, NEW c \in Consumers, NEW r \in {"got", "empty", "abort"}, Return(c, r)
  PROVE  /\ cons' \in [Consumers -> {"idle", "waiting", "woken"}]
         /\ ret' \in [Consumers -> {"none", "got", "empty", "abort"}]
         /\ r # "abort" => ~Aborted'
<1>1. /\ cons' \in [Consumers -> {"idle", "waiting", "woken"}]
      /\ ret' \in [Consumers -> {"none", "got", "empty", "abort"}]
  BY DEF TypeOK, Return
<1>2. \A d \in Consumers : ret'[d] = IF d = c THEN r ELSE ret[d]
  BY DEF TypeOK, Return
<1>3. QED
  BY <1>1, <1>2 DEF Aborted

\* What Take does to the variables it shares with the producers.
LEMMA TakeType ==
  ASSUME TypeInv, ~Aborted, NEW c \in Consumers, NEW op, Take(c, op)
  PROVE  /\ queue' \in Seq(Item) /\ size' \in Nat /\ out' \in Seq(Item)
         /\ held' \in [Consumers -> Seq(Item)] /\ returned' \in BOOLEAN
         /\ SizeCovers' /\ AssertHolds'
         /\ ~returned' => queue' = <<>> \/ (~returned /\ Len(queue') < Len(queue))
         /\ Leftover = 0 /\ ~returned => ~returned'
         /\ cons' \in [Consumers -> {"idle", "waiting", "woken"}]
         /\ cons' = [cons EXCEPT ![c] = "idle"]
         /\ ret' \in [Consumers -> {"none", "got", "empty", "abort"}]
<1>0. /\ TypeOK /\ queue \in Seq(Item) /\ size \in Nat /\ out \in Seq(Item)
      /\ held \in [Consumers -> Seq(Item)] /\ returned \in BOOLEAN
      /\ Leftover \in Nat /\ (returned \/ Len(queue) <= size)
  BY QueueAssumption DEF TypeInv, TypeOK, SizeCovers, QueueAssumption
<1>1. /\ Len(queue) \in Nat \ {0}
      /\ Head(queue) \in Item /\ Tail(queue) \in Seq(Item)
      /\ Len(Tail(queue)) = Len(queue) - 1
  BY <1>0, EmptySeq, HeadTailProperties DEF Take
<1>2. out \o queue \in Seq(Item) /\ Append(out, Head(queue)) \in Seq(Item)
  BY <1>0, <1>1
<1>3. CASE op = "pop_front" /\ size > 0 /\ Return(c, "got") /\ PopFront(c)
  <2>1. /\ out' = Append(out, Head(queue)) /\ queue' = Tail(queue)
        /\ size' = size - 1 /\ held' = held /\ returned' = returned
    BY <1>0, <1>3 DEF PopFront, svars
  <2>2. size - 1 \in Nat /\ (returned \/ Len(queue) - 1 <= size - 1)
    BY <1>0, <1>1, <1>3
  <2>3. SizeCovers'
    BY <1>1, <2>1, <2>2 DEF SizeCovers
  <2>4. ~Aborted' /\ cons' = [cons EXCEPT ![c] = "idle"]
        /\ cons' \in [Consumers -> {"idle", "waiting", "woken"}]
        /\ ret' \in [Consumers -> {"none", "got", "empty", "abort"}]
    BY <1>0, <1>3, ReturnType DEF Return
  <2>5. QED
    BY <1>0, <1>1, <1>2, <2>1, <2>2, <2>3, <2>4 DEF AssertHolds
<1>4. CASE op = "pop_front" /\ size = 0 /\ Return(c, "abort") /\ PopFront(c)
  <2>1. UNCHANGED <<queue, size, out, held, returned>>
    BY <1>0, <1>4 DEF PopFront, svars
  <2>2. returned
    BY <1>0, <1>1, <1>4
  <2>3. cons' = [cons EXCEPT ![c] = "idle"]
        /\ cons' \in [Consumers -> {"idle", "waiting", "woken"}]
        /\ ret' \in [Consumers -> {"none", "got", "empty", "abort"}]
    BY <1>0, <1>4, ReturnType DEF Return
  <2>4. QED
    BY <1>0, <2>1, <2>2, <2>3 DEF AssertHolds, SizeCovers
<1>5. CASE op # "pop_front"
  <2>1. PICK n \in 0..Least(Leftover, Len(held[c])) :
          queue' = Last(held[c], n) /\ returned' = (n > 0)
    BY <1>5 DEF Take, SwapAll
  <2>2. /\ held' = [held EXCEPT ![c] = Last(queue, Least(Leftover, Len(queue)))]
        /\ out' = out \o queue /\ size' = Len(queue) /\ Return(c, "got")
    BY <1>5 DEF Take, SwapAll
  <2>3. held[c] \in Seq(Item) /\ Len(held[c]) \in Nat
    BY <1>0
  <2>4. n \in 0..Len(held[c]) /\ (Leftover = 0 => n = 0)
        /\ Least(Leftover, Len(queue)) \in 0..Len(queue)
    BY <1>0, <2>1, <2>3 DEF Least
  <2>5. queue' \in Seq(Item) /\ Len(queue') = n
    BY <2>1, <2>3, <2>4, LastType
  <2>6. held' \in [Consumers -> Seq(Item)]
    <3>1. Last(queue, Least(Leftover, Len(queue))) \in Seq(Item)
      BY <1>0, <2>4, LastType
    <3>2. QED
      BY <1>0, <2>2, <3>1
  <2>7. ~returned' => n = 0 /\ queue' = <<>>
    <3>1. ASSUME ~returned' PROVE n = 0
      <4>1. n \in Nat
        BY <2>3, <2>4
      <4>2. ~(n > 0)
        BY <2>1, <3>1
      <4>3. QED
        BY <4>1, <4>2
    <3>2. ASSUME n = 0 PROVE queue' = <<>>
      BY <2>5, <3>2, EmptySeq
    <3>3. QED
      BY <3>1, <3>2
  <2>8. SizeCovers'
    BY <1>1, <2>2, <2>5, <2>7 DEF SizeCovers
  <2>9. ~Aborted' /\ cons' = [cons EXCEPT ![c] = "idle"]
        /\ cons' \in [Consumers -> {"idle", "waiting", "woken"}]
        /\ ret' \in [Consumers -> {"none", "got", "empty", "abort"}]
    BY <1>0, <2>2, ReturnType DEF Return
  <2>10. returned' \in BOOLEAN /\ (Leftover = 0 => ~returned') /\ size' \in Nat
    <3>1. n \in Nat /\ (n > 0) \in BOOLEAN /\ (Leftover = 0 => ~(n > 0))
      BY <2>3, <2>4
    <3>2. size' \in Nat
      BY <1>1, <2>2
    <3>3. QED
      BY <2>1, <3>1, <3>2
  <2>11. QED
    <3>1. AssertHolds'
      BY <2>9 DEF AssertHolds
    <3>2. out' \in Seq(Item)
      BY <1>2, <2>2
    <3>3. QED
      BY <2>5, <2>6, <2>7, <2>8, <2>9, <2>10, <3>1, <3>2
<1>6. QED
  BY <1>3, <1>4, <1>5 DEF Take, PopFront

\* push_back(T) under the mutex appends one element and wakes one thread.
LEMMA InsertShape ==
  ASSUME TypeInv, NEW p \in Producers, PushInsert(p)
  PROVE  /\ queue' = queue \o Fresh(p, 1) /\ Fresh(p, 1) \in Seq(Item)
         /\ queue' \in Seq(Item) /\ Len(queue') = Len(queue) + 1
         /\ size' = size + 1 /\ NotifyN(1)
<1>1. TypeOK /\ queue \in Seq(Item)
  BY DEF TypeInv, TypeOK
<1>2. Fresh(p, 1) \in Seq(Item) /\ Len(Fresh(p, 1)) = 1
  BY <1>1, FreshType
<1>3. queue' = queue \o Fresh(p, 1) /\ size' = size + 1 /\ NotifyN(1)
  BY DEF PushInsert
<1>4. QED
  BY <1>1, <1>2, <1>3, ConcatType

\* A batch appends as many elements as there is room for.
LEMMA BatchShape ==
  ASSUME TypeInv, NEW p \in Producers, PushBatch(p)
  PROVE  \E n \in Nat :
           /\ queue' = queue \o Fresh(p, n) /\ Fresh(p, n) \in Seq(Item)
           /\ queue' \in Seq(Item) /\ Len(queue') = Len(queue) + n
           /\ size' = size + n /\ NotifyN(n)
           /\ n = 0 \/ size + n <= maxSize
           /\ pushed' \in [Producers -> Nat]
<1>1. /\ TypeOK /\ queue \in Seq(Item) /\ size \in Nat /\ maxSize \in Nat
      /\ pushed \in [Producers -> Nat]
  BY QueueAssumption DEF TypeInv, TypeOK, QueueAssumption
<1>2. PICK len \in 1..Batch :
        LET n == Least(len, IF size < maxSize THEN maxSize - size ELSE 0)
        IN /\ queue' = queue \o Fresh(p, n)
           /\ size' = size + n
           /\ NotifyN(n)
           /\ Offered(p, len)
  BY DEF PushBatch
<1> DEFINE n == Least(len, IF size < maxSize THEN maxSize - size ELSE 0)
<1>3. n \in Nat /\ (n = 0 \/ size + n <= maxSize)
  BY <1>1 DEF Least
<1>4. /\ queue' = queue \o Fresh(p, n) /\ size' = size + n
      /\ NotifyN(n) /\ Offered(p, len)
  BY <1>2
<1>5. pushed' \in [Producers -> Nat]
  BY <1>1, <1>4 DEF Offered
<1> HIDE DEF n
<1>6. Fresh(p, n) \in Seq(Item) /\ Len(Fresh(p, n)) = n
  BY <1>1, <1>3, FreshType
<1>7. queue' \in Seq(Item) /\ Len(queue') = Len(queue) + n
  BY <1>1, <1>4, <1>6, ConcatType
<1>8. QED
  BY <1>3, <1>4, <1>5, <1>6, <1>7

\* A push to the front adds elements whatever the size.
LEMMA FrontShape ==
  ASSUME TypeInv, NEW p \in Producers, PushFront(p)
  PROVE  \E n \in Nat :
           /\ queue' \in Seq(Item) /\ Len(queue') = Len(queue) + n
           /\ size' = size + n /\ NotifyN(n)
           /\ pushed' \in [Producers -> Nat]
<1>1. TypeOK /\ queue \in Seq(Item) /\ pushed \in [Producers -> Nat]
  BY DEF TypeInv, TypeOK
<1>2. PICK len \in 1..Batch :
        /\ queue' = [i \in 1..len |-> <<p, pushed[p] + len + 1 - i>>] \o queue
        /\ size' = size + len
        /\ NotifyN(len)
        /\ Offered(p, len)
  BY DEF PushFront
<1> DEFINE s == [i \in 1..len |-> <<p, pushed[p] + len + 1 - i>>]
<1>3. len \in Nat /\ \A i \in 1..len : <<p, pushed[p] + len + 1 - i>> \in Item
  BY <1>1, QueueAssumption DEF Item, QueueAssumption
<1>4. s \in Seq(Item) /\ Len(s) = len
  <2>1. s \in [1..len -> Item]
    BY <1>3
  <2>2. QED
    BY <1>3, <2>1
<1>5. queue' = s \o queue
  BY <1>2
<1> HIDE DEF s
<1>6. queue' \in Seq(Item) /\ Len(queue') = Len(s) + Len(queue)
  BY <1>1, <1>4, <1>5, ConcatType
<1>7. pushed' \in [Producers -> Nat]
  BY <1>1, <1>2, <1>3 DEF Offered
<1>8. Len(queue') = Len(queue) + len
  BY <1>1, <1>3, <1>4, <1>6
<1>9. QED
  BY <1>2, <1>3, <1>6, <1>7, <1>8

LEMMA TypeInit == Init => TypeInv
<1>1. Init => ~Aborted
  BY DEF Init, Aborted
<1>2. Init => SizeCovers
  BY DEF Init, SizeCovers
<1>3. Init => TypeOK
  <2> SUFFICES ASSUME Init PROVE TypeOK
    OBVIOUS
  <2>1. /\ queue \in Seq(Item) /\ out \in Seq(Item) /\ held \in [Consumers -> Seq(Item)]
        /\ size \in Nat /\ returned \in BOOLEAN
    BY EmptySeq DEF Init
  <2>2. /\ maxSize \in 0..MaxSize /\ prod \in [Producers -> {"idle", "passed"}]
        /\ pushed \in [Producers -> Nat]
        /\ cons \in [Consumers -> {"idle", "waiting", "woken"}]
        /\ ret \in [Consumers -> {"none", "got", "empty", "abort"}]
    BY QueueAssumption DEF Init, QueueAssumption
  <2>3. call \in [Consumers -> Call]
    BY DEF Init, Call
  <2>4. QED
    BY <2>1, <2>2, <2>3 DEF TypeOK
<1>4. QED
  BY <1>1, <1>2, <1>3 DEF TypeInv, AssertHolds

LEMMA TypeNext == TypeInv /\ [Next]_vars => TypeInv'
<1> SUFFICES ASSUME TypeInv, [Next]_vars
             PROVE  TypeInv'
  OBVIOUS
<1> USE QueueAssumption DEF QueueAssumption, TypeInv, TypeOK, SizeCovers
<1>0. Len(queue) \in Nat
  OBVIOUS
<1>a. ASSUME ~Aborted, UNCHANGED ret PROVE AssertHolds'
  BY <1>a DEF Aborted, AssertHolds
<1>1. ASSUME NEW p \in Producers, PushCheck(p) \/ PushRefused(p)
      PROVE  TypeInv'
  <2>1. /\ UNCHANGED <<queue, size, maxSize, cons, call, ret, held, returned, out>>
        /\ ~Aborted
    BY <1>1 DEF PushCheck, PushRefused, cvars, svars
  <2>2. /\ prod' \in [Producers -> {"idle", "passed"}]
        /\ pushed' \in [Producers -> Nat]
    BY <1>1 DEF PushCheck, PushRefused, Offered
  <2>3. QED
    BY <1>a, <2>1, <2>2
<1>2. ASSUME NEW p \in Producers, PushInsert(p)
      PROVE  TypeInv'
  <2>1. /\ prod' \in [Producers -> {"idle", "passed"}]
        /\ pushed' \in [Producers -> Nat]
        /\ UNCHANGED <<maxSize, call, ret, held, returned, out>> /\ ~Aborted
    BY <1>2 DEF PushInsert, Offered, svars
  <2>2. cons' \in [Consumers -> {"idle", "waiting", "woken"}]
    BY <1>2, InsertShape, NotifyWakes
  <2>3. QED
    BY <1>0, <1>a, <1>2, <2>1, <2>2, InsertShape
<1>3. ASSUME NEW p \in Producers, PushBatch(p)
      PROVE  TypeInv'
  <2>1. UNCHANGED <<maxSize, prod, call, ret, held, returned, out>> /\ ~Aborted
    BY <1>3 DEF PushBatch, svars
  <2>2. cons' \in [Consumers -> {"idle", "waiting", "woken"}]
    BY <1>3, BatchShape, NotifyWakes
  <2>3. QED
    BY <1>0, <1>a, <1>3, <2>1, <2>2, BatchShape
<1>4. ASSUME NEW p \in Producers, PushFront(p)
      PROVE  TypeInv'
  <2>1. UNCHANGED <<maxSize, prod, call, ret, held, returned, out>> /\ ~Aborted
    BY <1>4 DEF PushFront, svars
  <2>2. cons' \in [Consumers -> {"idle", "waiting", "woken"}]
    BY <1>4, FrontShape, NotifyWakes
  <2>3. QED
    BY <1>0, <1>a, <1>4, <2>1, <2>2, FrontShape
<1>5. ASSUME NEW c \in Consumers, NEW ms \in Millis,
             NEW op \in {"pop_front", "swap"}, Enter(c, op, ms)
      PROVE  TypeInv'
  <2>1. call' \in [Consumers -> Call] /\ UNCHANGED <<maxSize, prod, pushed>> /\ ~Aborted
    BY <1>5 DEF Enter, Call, pvars
  <2>2. CASE Take(c, op)
    BY <2>1, <2>2, TakeType
  <2>3. CASE UNCHANGED <<queue, size, svars, out>> /\ Return(c, "empty")
    BY <2>1, <2>3, ReturnType DEF svars, AssertHolds
  <2>4. CASE /\ UNCHANGED <<queue, size, svars, out>>
             /\ cons' = [cons EXCEPT ![c] = "waiting"] /\ ret' = [ret EXCEPT ![c] = "none"]
    <3>1. \A d \in Consumers : ret'[d] = IF d = c THEN "none" ELSE ret[d]
      BY <2>4
    <3>2. AssertHolds'
      BY <2>1, <3>1 DEF Aborted, AssertHolds
    <3>3. QED
      BY <2>1, <2>4, <3>2 DEF svars
  <2>5. QED
    BY <1>5, <2>2, <2>3, <2>4 DEF Enter
<1>6. ASSUME NEW c \in Consumers, WakeUp(c)
      PROVE  TypeInv'
  BY <1>6, <1>a DEF WakeUp, pvars, svars
<1>7. ASSUME NEW c \in Consumers, Resume(c)
      PROVE  TypeInv'
  <2>1. UNCHANGED <<maxSize, prod, pushed, call>> /\ ~Aborted
    BY <1>7 DEF Resume, pvars
  <2>2. CASE Take(c, call[c].op)
    BY <2>1, <2>2, TakeType
  <2>3. CASE UNCHANGED <<queue, size, svars, out>> /\ Return(c, "empty")
    BY <2>1, <2>3, ReturnType DEF svars, AssertHolds
  <2>4. CASE /\ UNCHANGED <<queue, size, svars, out, ret>>
             /\ cons' = [cons EXCEPT ![c] = "waiting"]
    BY <1>a, <2>1, <2>4 DEF svars
  <2>5. QED
    BY <1>7, <2>2, <2>3, <2>4 DEF Resume
<1>8. CASE Clear
  <2>1. /\ queue' = <<>> /\ size' = 0 /\ returned' = FALSE
        /\ UNCHANGED <<maxSize, prod, pushed, cons, call, ret, held, out>> /\ ~Aborted
    BY <1>8 DEF Clear, pvars
  <2>2. /\ queue' \in Seq(Item) /\ Len(queue') = 0 /\ AssertHolds'
        /\ size' \in Nat /\ returned' \in BOOLEAN /\ Len(queue') <= size'
    <3>1. AssertHolds'
      BY <1>a, <2>1
    <3>2. queue' = <<>> /\ size' = 0
      BY <2>1
    <3>3. queue' \in Seq(Item) /\ Len(queue') = 0 /\ size' \in Nat /\ Len(queue') <= size'
      BY <3>2, EmptySeq
    <3>4. returned' \in BOOLEAN
      BY <2>1
    <3>5. QED
      BY <3>1, <3>3, <3>4
  <2>3. QED
    BY <2>1, <2>2
<1>9. ASSUME NEW m \in Limits, SetMaxSize(m)
      PROVE  TypeInv'
  BY <1>9, <1>a DEF SetMaxSize, pvars, cvars, svars
<1>10. CASE NotifyT
  BY <1>10, <1>a DEF NotifyT, pvars, svars
<1>11. CASE UNCHANGED vars
  BY <1>11 DEF vars, pvars, cvars, svars, AssertHolds, Aborted
<1>12. QED
  BY <1>1, <1>2, <1>3, <1>4, <1>5, <1>6, <1>7, <1>8, <1>9, <1>10, <1>11 DEF Next

\* Type correctness.
THEOREM TypeCorrect == Spec => []TypeOK
<1>1. Spec => []TypeInv
  BY TypeInit, TypeNext, PTL DEF Spec
<1>2. QED
  BY <1>1, PTL DEF TypeInv

\* The assertion in pop_front (thread_queue.h:136) fails in one way only: swap was called with a
\* deque that held elements, and neither clear nor another swap has emptied the queue since.
THEOREM AssertionHolds == Spec => []AssertHolds
<1>1. Spec => []TypeInv
  BY TypeInit, TypeNext, PTL DEF Spec
<1>2. QED
  BY <1>1, PTL DEF TypeInv

-----------------------------------------------------------------------------
(* No notification is lost.                                                *)

WakeInv == TypeInv /\ NoLostWakeup

\* A step that changes neither the queue nor any consumer.
LEMMA WakeSame ==
  ASSUME NoLostWakeup, UNCHANGED <<queue, cons, returned>>
  PROVE  NoLostWakeup'
BY DEF NoLostWakeup, Waiting, Woken

\* n elements go in and n notifications go out.
LEMMA WakePush ==
  ASSUME WakeInv, NEW n \in Nat, NotifyN(n), Len(queue') = Len(queue) + n, UNCHANGED returned
  PROVE  NoLostWakeup'
<1>1. TypeOK /\ Len(queue) \in Nat
  BY DEF WakeInv, TypeInv, TypeOK
<1>2. QED
  BY <1>1, NotifyWakes, Finiteness DEF WakeInv, NoLostWakeup

\* With nothing in the queue there is nothing to be woken for.
LEMMA WakeEmpty ==
  ASSUME queue' = <<>>
  PROVE  NoLostWakeup'
<1>1. Len(<<>>) = 0
  OBVIOUS
<1>2. QED
  BY <1>1, FinitenessPrime DEF NoLostWakeup

\* A consumer that takes was idle or counted in Woken; either way the queue
\* shrinks by as much as Woken does, unless swap has put elements back.
LEMMA WakeTake ==
  ASSUME WakeInv, ~Aborted, NEW c \in Consumers, NEW op, Take(c, op), cons[c] # "waiting"
  PROVE  NoLostWakeup'
<1>1. /\ TypeInv /\ TypeOK /\ Len(queue) \in Nat /\ Len(queue') \in Nat
      /\ cons' = [cons EXCEPT ![c] = "idle"]
      /\ cons \in [Consumers -> {"idle", "waiting", "woken"}]
      /\ ~returned' => queue' = <<>> \/ (~returned /\ Len(queue') < Len(queue))
  <2>1. TypeInv
    BY DEF WakeInv
  <2>2. QED
    BY <2>1, TakeType DEF TypeInv, TypeOK
<1>2. \A d \in Consumers : cons'[d] = IF d = c THEN "idle" ELSE cons[d]
  BY <1>1
<1>3. Waiting' = Waiting
  BY <1>2 DEF Waiting
<1>4. Woken' = Woken \ {c}
  BY <1>2 DEF Woken
<1>5. Cardinality(Woken') >= Cardinality(Woken) - 1
  <2>1. Cardinality(Woken \ {c}) \in {Cardinality(Woken), Cardinality(Woken) - 1}
    BY Finiteness, RemoveOne
  <2>2. Cardinality(Woken') \in {Cardinality(Woken), Cardinality(Woken) - 1}
    BY <1>4, <2>1
  <2>3. QED
    BY <2>2, Finiteness
<1>6. CASE queue' = <<>>
  BY <1>6, WakeEmpty
<1>7. CASE ~returned /\ Len(queue') < Len(queue)
  BY <1>1, <1>3, <1>5, <1>7, Finiteness, FinitenessPrime DEF WakeInv, NoLostWakeup
<1>8. CASE returned'
  BY <1>8 DEF NoLostWakeup
<1>9. QED
  BY <1>1, <1>6, <1>7, <1>8

LEMMA WakeNext == WakeInv /\ [Next]_vars => NoLostWakeup'
<1> SUFFICES ASSUME WakeInv, [Next]_vars
             PROVE  NoLostWakeup'
  OBVIOUS
<1>0. TypeInv /\ NoLostWakeup
  BY DEF WakeInv
<1>1. ASSUME NEW p \in Producers, PushCheck(p) \/ PushRefused(p)
      PROVE  NoLostWakeup'
  BY <1>0, <1>1, WakeSame DEF PushCheck, PushRefused, cvars, svars
<1>2. ASSUME NEW p \in Producers, PushInsert(p)
      PROVE  NoLostWakeup'
  BY <1>0, <1>2, InsertShape, WakePush DEF PushInsert, svars
<1>3. ASSUME NEW p \in Producers, PushBatch(p)
      PROVE  NoLostWakeup'
  BY <1>0, <1>3, BatchShape, WakePush DEF PushBatch, svars
<1>4. ASSUME NEW p \in Producers, PushFront(p)
      PROVE  NoLostWakeup'
  BY <1>0, <1>4, FrontShape, WakePush DEF PushFront, svars
<1>5. ASSUME NEW c \in Consumers, NEW ms \in Millis,
             NEW op \in {"pop_front", "swap"}, Enter(c, op, ms)
      PROVE  NoLostWakeup'
  <2>1. cons[c] # "waiting" /\ ~Aborted
    BY <1>5 DEF Enter
  <2>2. CASE Take(c, op)
    BY <2>1, <2>2, WakeTake
  <2>3. CASE queue = <<>> /\ UNCHANGED queue
    BY <2>3, WakeEmpty
  <2>4. QED
    BY <1>5, <2>2, <2>3 DEF Enter
<1>6. ASSUME NEW c \in Consumers, WakeUp(c)
      PROVE  NoLostWakeup'
  <2>1. /\ cons \in [Consumers -> {"idle", "waiting", "woken"}]
        /\ Len(queue) \in Nat /\ queue' = queue /\ returned' = returned
        /\ cons' = [cons EXCEPT ![c] = "woken"] /\ c \in Waiting
    BY <1>0, <1>6 DEF WakeUp, TypeInv, TypeOK, Waiting, svars
  <2>2. \A d \in Consumers : cons'[d] = IF d = c THEN "woken" ELSE cons[d]
    BY <2>1
  <2>3. Woken' = Woken \cup {c}
    BY <2>2 DEF Woken
  <2>4. Cardinality(Woken') >= Cardinality(Woken)
    <3>1. Cardinality(Woken \cup {c}) \in {Cardinality(Woken), Cardinality(Woken) + 1}
      BY Finiteness, AddOne
    <3>2. Cardinality(Woken') \in {Cardinality(Woken), Cardinality(Woken) + 1}
      BY <2>3, <3>1
    <3>3. QED
      BY <3>2, Finiteness
  <2>5. QED
    BY <1>0, <2>1, <2>4, Finiteness, FinitenessPrime DEF NoLostWakeup
<1>7. ASSUME NEW c \in Consumers, Resume(c)
      PROVE  NoLostWakeup'
  <2>1. cons[c] # "waiting" /\ ~Aborted
    BY <1>7 DEF Resume
  <2>2. CASE Take(c, call[c].op)
    BY <2>1, <2>2, WakeTake
  <2>3. CASE queue = <<>> /\ UNCHANGED queue
    BY <2>3, WakeEmpty
  <2>4. QED
    BY <1>7, <2>2, <2>3 DEF Resume
<1>8. CASE Clear
  BY <1>8, WakeEmpty DEF Clear
<1>9. ASSUME NEW m \in Limits, SetMaxSize(m)
      PROVE  NoLostWakeup'
  BY <1>0, <1>9, WakeSame DEF SetMaxSize, cvars, svars
<1>10. CASE NotifyT
  <2>1. Waiting' = {}
    BY <1>10 DEF NotifyT, Waiting
  <2>2. QED
    BY <2>1 DEF NoLostWakeup
<1>11. CASE UNCHANGED vars
  BY <1>0, <1>11, WakeSame DEF vars, svars
<1>12. QED
  BY <1>1, <1>2, <1>3, <1>4, <1>5, <1>6, <1>7, <1>8, <1>9, <1>10, <1>11 DEF Next

\* As long as a consumer sleeps, as many others are awake as there are
\* elements, for every set of calls.
THEOREM WakeupsSuffice == Spec => []NoLostWakeup
<1>1. Init => WakeInv
  BY TypeInit DEF Init, WakeInv, NoLostWakeup, Waiting
<1>2. WakeInv /\ [Next]_vars => WakeInv'
  BY TypeNext, WakeNext DEF WakeInv
<1>3. Spec => []WakeInv
  BY <1>1, <1>2, PTL DEF Spec
<1>4. QED
  BY <1>3, PTL DEF WakeInv

-----------------------------------------------------------------------------
(* How far the unlocked check lets the queue overrun.                      *)

CapInv == TypeInv /\ CapacityBound /\ (Leftover = 0 => ~returned)

Places == Len(queue) + Cardinality(Passed)
Cap    == MaxSize + Cardinality(Producers) - 1

\* At most all producers are past the check, and one fewer if one is not.
LEMMA PassedBound ==
  ASSUME NEW p \in Producers, prod[p] = "idle"
  PROVE  Cardinality(Passed) <= Cardinality(Producers) - 1
<1>1. IsFiniteSet(Producers \ {p}) /\ Cardinality(Producers \ {p}) = Cardinality(Producers) - 1
  BY QueueAssumption, FS_RemoveElement DEF QueueAssumption
<1>2. Passed \in SUBSET (Producers \ {p})
  BY DEF Passed
<1>3. QED
  BY <1>1, <1>2, FS_Subset

\* A step that adds no element and lets no producer through.
LEMMA CapShrink ==
  ASSUME CapInv, "push_front" \notin Calls, Leftover = 0, UNCHANGED prod,
         Len(queue') \in Nat, Len(queue') <= Len(queue)
  PROVE  Places' <= Cap
<1>1. Passed' = Passed /\ Len(queue) \in Nat
  BY DEF Passed, CapInv, TypeInv, TypeOK
<1>2. QED
  BY <1>1, Finiteness, QueueAssumption
     DEF CapInv, CapacityBound, Places, Cap, QueueAssumption

\* Nothing is put back where callers pass empty deques.
LEMMA NothingReturned ==
  ASSUME TypeInv, Leftover = 0, ~returned, [Next]_vars
  PROVE  ~returned'
<1>1. ASSUME NEW c \in Consumers, NEW op, ~Aborted, Take(c, op) PROVE ~returned'
  BY <1>1, TakeType
<1>2. ASSUME NEW c \in Consumers, NEW ms \in Millis, NEW op \in {"pop_front", "swap"}, Enter(c, op, ms)
      PROVE  ~returned'
  BY <1>1, <1>2 DEF Enter, svars
<1>3. ASSUME NEW c \in Consumers, Resume(c) PROVE ~returned'
  BY <1>1, <1>3 DEF Resume, svars
<1>4. QED
  BY <1>2, <1>3 DEF Next, PushCheck, PushRefused, PushInsert, PushBatch, PushFront, WakeUp, Clear,
       SetMaxSize, NotifyT, vars, cvars, svars

LEMMA CapNext == CapInv /\ [Next]_vars => CapacityBound'
<1> SUFFICES ASSUME CapInv, [Next]_vars, "push_front" \notin Calls, Leftover = 0
             PROVE  Places' <= Cap
  BY DEF CapacityBound, Places, Cap
<1>0. /\ TypeInv /\ TypeOK /\ Len(queue) \in Nat /\ size \in Nat
      /\ maxSize \in Nat /\ maxSize <= MaxSize /\ MaxSize \in Nat
      /\ ~returned /\ Len(queue) <= size /\ Places <= Cap
      /\ prod \in [Producers -> {"idle", "passed"}]
  BY QueueAssumption
     DEF CapInv, TypeInv, TypeOK, SizeCovers, CapacityBound, Places, Cap, QueueAssumption
<1>1. ASSUME NEW p \in Producers, PushCheck(p)
      PROVE  Places' <= Cap
  <2>1. /\ prod[p] = "idle" /\ size < maxSize /\ queue' = queue
        /\ prod' = [prod EXCEPT ![p] = "passed"]
    BY <1>1 DEF PushCheck
  <2>2. \A q \in Producers : prod'[q] = IF q = p THEN "passed" ELSE prod[q]
    BY <1>0, <2>1
  <2>3. Passed' = Passed \cup {p}
    BY <2>2 DEF Passed
  <2>4. Cardinality(Passed \cup {p}) \in {Cardinality(Passed), Cardinality(Passed) + 1}
    BY Finiteness, AddOne
  <2>5. Cardinality(Passed') \in {Cardinality(Passed), Cardinality(Passed) + 1}
    BY <2>3, <2>4
  <2>6. Cardinality(Passed) <= Cardinality(Producers) - 1
    BY <2>1, PassedBound
  <2>7. Len(queue') <= MaxSize - 1 /\ Len(queue') \in Nat
    BY <1>0, <2>1
  <2>8. QED
    BY <1>0, <2>5, <2>6, <2>7, Finiteness DEF Places, Cap
<1>2. ASSUME NEW p \in Producers, PushRefused(p)
      PROVE  Places' <= Cap
  BY <1>0, <1>2, CapShrink DEF PushRefused
<1>3. ASSUME NEW p \in Producers, PushInsert(p)
      PROVE  Places' <= Cap
  <2>1. prod' = [prod EXCEPT ![p] = "idle"] /\ p \in Passed
    BY <1>3 DEF PushInsert, Passed
  <2>2. \A q \in Producers : prod'[q] = IF q = p THEN "idle" ELSE prod[q]
    BY <1>0, <2>1
  <2>3. Passed' = Passed \ {p}
    BY <2>2 DEF Passed
  <2>4. Cardinality(Passed \ {p}) = Cardinality(Passed) - 1
    BY <2>1, Finiteness, FS_RemoveElement
  <2>5. Cardinality(Passed') = Cardinality(Passed) - 1
    BY <2>3, <2>4
  <2>6. Len(queue') = Len(queue) + 1
    BY <1>0, <1>3, InsertShape
  <2>7. QED
    BY <1>0, <2>5, <2>6, Finiteness DEF Places, Cap
<1>4. ASSUME NEW p \in Producers, PushBatch(p)
      PROVE  Places' <= Cap
  <2>1. PICK n \in Nat : /\ Len(queue') = Len(queue) + n
                         /\ n = 0 \/ size + n <= maxSize
    BY <1>0, <1>4, BatchShape
  <2>2. prod[p] = "idle" /\ prod' = prod
    BY <1>4 DEF PushBatch
  <2>3. CASE n = 0
    BY <1>0, <2>1, <2>2, <2>3, CapShrink
  <2>4. CASE size + n <= maxSize
    <3>1. Passed' = Passed
      BY <2>2 DEF Passed
    <3>2. Cardinality(Passed) <= Cardinality(Producers) - 1
      BY <2>2, PassedBound
    <3>3. Len(queue') <= MaxSize
      BY <1>0, <2>1, <2>4
    <3>4. QED
      BY <1>0, <2>1, <3>1, <3>2, <3>3, Finiteness DEF Places, Cap
  <2>5. QED
    BY <2>1, <2>3, <2>4
<1>5. ASSUME NEW p \in Producers, PushFront(p)
      PROVE  Places' <= Cap
  BY <1>5 DEF PushFront
<1>6. ASSUME NEW c \in Consumers, NEW op, Take(c, op), ~Aborted, UNCHANGED prod
      PROVE  Places' <= Cap
  <2>1. queue' \in Seq(Item) /\ (queue' = <<>> \/ Len(queue') < Len(queue))
    BY <1>0, <1>6, TakeType
  <2>2. Len(queue') \in Nat /\ Len(queue') <= Len(queue)
    BY <1>0, <2>1, EmptySeq
  <2>3. QED
    BY <1>0, <1>6, <2>2, CapShrink
<1>7. ASSUME UNCHANGED <<queue, prod>>
      PROVE  Places' <= Cap
  BY <1>0, <1>7, CapShrink
<1>8. ASSUME NEW c \in Consumers, NEW ms \in Millis,
             NEW op \in {"pop_front", "swap"}, Enter(c, op, ms)
      PROVE  Places' <= Cap
  BY <1>6, <1>7, <1>8 DEF Enter, pvars
<1>9. ASSUME NEW c \in Consumers, Resume(c)
      PROVE  Places' <= Cap
  BY <1>6, <1>7, <1>9 DEF Resume, pvars
<1>10. CASE Clear
  <2>1. Len(queue') = 0 /\ prod' = prod
    BY <1>10 DEF Clear, pvars
  <2>2. QED
    BY <1>0, <2>1, CapShrink
<1>11. CASE \/ \E c \in Consumers : WakeUp(c)
            \/ \E m \in Limits : SetMaxSize(m)
            \/ NotifyT
            \/ UNCHANGED vars
  BY <1>7, <1>11 DEF WakeUp, SetMaxSize, NotifyT, vars, pvars
<1>12. QED
  BY <1>1, <1>2, <1>3, <1>4, <1>5, <1>8, <1>9, <1>10, <1>11 DEF Next

LEMMA CapInit == Init => CapInv
<1> SUFFICES ASSUME Init PROVE CapInv
  OBVIOUS
<1>1. Passed = {} /\ Len(queue) = 0
  BY DEF Init, Passed
<1>2. Cardinality(Passed) = 0
  BY <1>1, FS_EmptySet
<1>3. Cardinality(Producers) \in Nat \ {0}
  BY Finiteness, FS_EmptySet, QueueAssumption DEF QueueAssumption
<1>4. ~returned
  BY DEF Init
<1>5. QED
  BY TypeInit, <1>1, <1>2, <1>3, <1>4, QueueAssumption
     DEF CapInv, CapacityBound, QueueAssumption

LEMMA CapAlways == Spec => []CapInv
<1>1. CapInv /\ [Next]_vars => CapInv'
  BY TypeNext, CapNext, NothingReturned DEF CapInv
<1>2. QED
  BY CapInit, <1>1, PTL DEF Spec

\* The queue holds at most MaxSize + |Producers| - 1 elements, unless
\* push_front is called or swap with elements to put back: the check of push_back(T) is made before the lock,
\* and every other producer may be past it.
THEOREM OverrunBounded == Spec => []CapacityBound
BY CapAlways, PTL DEF CapInv

-----------------------------------------------------------------------------
(* ThreadQueue implements BoundedQueue.                                    *)

\* Appending within the bound is a Put.
LEMMA AppendIsPut ==
  ASSUME TypeInv, CapacityBound', "push_front" \notin Calls, Leftover = 0, UNCHANGED out,
         NEW s \in Seq(Item), queue' = queue \o s
  PROVE  BQ!Put
<1>1. queue \in Seq(Item) /\ Len(queue) \in Nat
  BY DEF TypeInv, TypeOK
<1>2. queue' \in Seq(Item) /\ Len(queue') \in Nat /\ Len(queue') >= Len(queue)
  BY <1>1
<1>3. SubSeq(queue', 1, Len(queue)) = queue
  BY <1>1
<1>4. Cardinality(Passed') \in Nat
  <2>1. Passed' \in SUBSET Producers
    BY DEF Passed
  <2>2. QED
    BY <2>1, FS_Subset, FS_CardinalityType, QueueAssumption DEF QueueAssumption
<1>5. Len(queue') <= MaxSize + Cardinality(Producers) - 1
  BY <1>2, <1>4, Finiteness, QueueAssumption DEF CapacityBound, QueueAssumption
<1>6. Len(queue') \in Len(queue)..(MaxSize + Cardinality(Producers) - 1)
  BY <1>1, <1>2, <1>5, Finiteness, QueueAssumption DEF QueueAssumption
<1>7. QED
  BY <1>2, <1>3, <1>6 DEF BQ!Put

\* Every step is a step of the channel or leaves it unchanged.
LEMMA StepSimulation ==
  ASSUME CapInv, CapInv', [Next]_vars, "push_front" \notin Calls, Leftover = 0
  PROVE  [BQ!Next]_<<queue, out>>
<1>0. TypeInv /\ CapacityBound'
  BY DEF CapInv
<1>1. ASSUME NEW p \in Producers, PushInsert(p)
      PROVE  BQ!Next
  <2>1. queue' = queue \o Fresh(p, 1) /\ Fresh(p, 1) \in Seq(Item) /\ out' = out
    BY <1>0, <1>1, InsertShape DEF PushInsert
  <2>2. QED
    BY <1>0, <2>1, AppendIsPut DEF BQ!Next
<1>2. ASSUME NEW p \in Producers, PushBatch(p)
      PROVE  BQ!Next
  <2>1. PICK n \in Nat : queue' = queue \o Fresh(p, n) /\ Fresh(p, n) \in Seq(Item)
    BY <1>0, <1>2, BatchShape
  <2>2. out' = out
    BY <1>2 DEF PushBatch
  <2>3. QED
    BY <1>0, <2>1, <2>2, AppendIsPut DEF BQ!Next
<1>3. ASSUME NEW p \in Producers, PushFront(p)
      PROVE  BQ!Next
  BY <1>3 DEF PushFront
<1>4. ASSUME NEW c \in Consumers, NEW op, ~Aborted, Take(c, op)
      PROVE  [BQ!Next]_<<queue, out>>
  <2>1. CASE op = "pop_front"
    BY <1>4, <2>1 DEF Take, PopFront, BQ!Next, BQ!Get
  <2>2. CASE op # "pop_front"
    <3>1. queue' = <<>>
      <4>1. PICK n \in 0..Least(Leftover, Len(held[c])) : queue' = Last(held[c], n)
        BY <1>4, <2>2 DEF Take, SwapAll
      <4>2. held[c] \in Seq(Item) /\ Len(held[c]) \in Nat
        BY DEF CapInv, TypeInv, TypeOK
      <4>3. n = 0 /\ n \in 0..Len(held[c])
        BY <4>1, <4>2 DEF Least
      <4>4. QED
        BY <4>1, <4>2, <4>3, LastType, EmptySeq
    <3>2. out' = out \o queue
      BY <1>4, <2>2 DEF Take, SwapAll
    <3>3. QED
      BY <3>1, <3>2 DEF BQ!Next, BQ!GetAll
  <2>3. QED
    BY <2>1, <2>2
<1>5. ASSUME NEW c \in Consumers, NEW ms \in Millis,
             NEW op \in {"pop_front", "swap"}, Enter(c, op, ms)
      PROVE  [BQ!Next]_<<queue, out>>
  BY <1>4, <1>5 DEF Enter
<1>6. ASSUME NEW c \in Consumers, Resume(c)
      PROVE  [BQ!Next]_<<queue, out>>
  BY <1>4, <1>6 DEF Resume
<1>7. CASE Clear
  BY <1>7 DEF Clear, BQ!Next, BQ!Discard
<1>8. CASE \/ \E p \in Producers : PushCheck(p) \/ PushRefused(p)
           \/ \E c \in Consumers : WakeUp(c)
           \/ \E m \in Limits : SetMaxSize(m)
           \/ NotifyT
           \/ UNCHANGED vars
  BY <1>8 DEF PushCheck, PushRefused, WakeUp, SetMaxSize, NotifyT, vars
<1>9. QED
  BY <1>1, <1>2, <1>3, <1>5, <1>6, <1>7, <1>8 DEF Next

\* Clients that do not call push_front, nor swap with elements to put back,
\* see a first-in first-out channel of capacity MaxSize + |Producers| - 1.
THEOREM Refinement ==
  ASSUME "push_front" \notin Calls, Leftover = 0
  PROVE  Spec => Abstract
<1>1. Init => BQ!Init
  BY DEF Init, BQ!Init
<1>2. CapInv /\ CapInv' /\ [Next]_vars => [BQ!Next]_(BQ!qvars)
  BY StepSimulation DEF BQ!qvars
<1>3. QED
  BY <1>1, <1>2, CapAlways, PTL DEF Spec, Abstract, BQ!Spec
=============================================================================
