---------------------------- MODULE ThreadsProofs ----------------------------
(***************************************************************************)
(* Proofs about what threads share: the read-write lock, the thread pool,  *)
(* the clocks, the loggers and the requests of the web server.             *)
(***************************************************************************)
EXTENDS Library, Integers, FiniteSets, FiniteSetTheorems, SequenceTheorems, TLAPS

\* A step of the library is one of the component that is there.
LEMMA PartSteps ==
  ASSUME [Next]_vars
  PROVE  /\ part' = part
         /\ part = "lock" => [Lock!Next]_s
         /\ part = "pool" => [Pool!Next]_s
         /\ part = "time" => [Time!Next]_s
         /\ part = "logs" => [Logs!Next]_s
         /\ part = "web" => [Web!Next]_s
<1>1. CASE UNCHANGED vars
  BY <1>1 DEF vars
<1>2. CASE Next
  BY <1>2 DEF Next, In
<1> QED  BY <1>1, <1>2
LEMMA PartInit ==
  ASSUME Init
  PROVE  /\ part \in Parts
         /\ part = "lock" => Lock!Init
         /\ part = "pool" => Pool!Init
         /\ part = "time" => Time!Init
         /\ part = "logs" => Logs!Init
         /\ part = "web" => Web!Init
<1> QED  BY DEF Init
-----------------------------------------------------------------------------
(* The read-write lock.                                                    *)

\* Readers that read_cnt counts, and those that have the writers' mutex taken for them.
Counted == {t \in Readers : s.pc[t] \in {"count", "give", "reading"}}
Holding == {t \in Readers : s.pc[t] \in {"give", "reading"}}
AtMutex == {t \in Readers : s.pc[t] \in {"count", "give"}}
Writing == {t \in Writers : s.pc[t] = "writing"}

LockFields == s \in [pc : [Readers \cup Writers -> {"out", "count", "give", "reading", "writing"}],
                      read_mtx : BOOLEAN, write_mtx : BOOLEAN, read_cnt : Nat]
LockType == /\ LockFields
            /\ \A t \in Readers : s.pc[t] # "writing"
            /\ \A t \in Writers : s.pc[t] \in {"out", "writing"}
\* The first reader waits for the writers' mutex while no other is counted.
LockFirst == \A t \in Readers : s.pc[t] = "count" => \A u \in Readers : u # t => s.pc[u] = "out"
LockMutex == /\ AtMutex # {} => s.read_mtx
             /\ \A t, u \in AtMutex : t = u
\* The writers' mutex is taken for the readers or by one writer, never for both.
LockOwner == /\ s.write_mtx <=> Holding \cup Writing # {}
             /\ Holding = {} \/ Writing = {}
             /\ \A t, u \in Writing : t = u
LockInv == LockType /\ s.read_cnt = Cardinality(Counted) /\ LockFirst /\ LockMutex /\ LockOwner

\* The sets are finite: read_cnt counts to zero exactly when the last reader leaves.
LEMMA CountedFinite == ASSUME IsFiniteSet(Readers) PROVE IsFiniteSet(Counted)
  BY FS_Subset DEF Counted

\* The invariant implies exclusion.
LEMMA LockInvExcludes ==
  ASSUME LockInv PROVE Lock!Excludes
<1> USE DEF LockInv, LockType, LockFields
<1>1. Lock!Inside("writing") = Writing
  BY DEF Lock!Inside, Writing
<1>2. Lock!Inside("reading") \cup Lock!Inside("give") = Holding
  BY DEF Lock!Inside, Holding
<1> QED  BY <1>1, <1>2 DEF Lock!Excludes, LockOwner

LEMMA LockInvInit ==
  ASSUME Readers \cap Writers = {}, Lock!Init PROVE LockInv
<1>1. Counted = {} /\ Holding = {} /\ AtMutex = {} /\ Writing = {}
  BY DEF Lock!Init, Counted, Holding, AtMutex, Writing
<1>2. Cardinality(Counted) = 0  BY <1>1, FS_EmptySet
<1> QED  BY <1>1, <1>2 DEF Lock!Init, LockInv, LockType, LockFields, LockFirst, LockMutex, LockOwner

\* What the operations do to the parts of s.
LEMMA LockTypeNext ==
  ASSUME Readers \cap Writers = {}, LockType, s.read_cnt = 0 => Counted = {}, [Lock!Next]_s PROVE LockType'
<1>0. LockFields  BY DEF LockType
<1>1. ASSUME NEW t \in Readers, Lock!LockCount(t) PROVE LockType'
  <2>1. LockFields'
    <3>1. PICK to \in {"count", "give"} :
            s' = [s EXCEPT !.read_mtx = TRUE, !.read_cnt = @ + 1, !.pc[t] = to]  BY <1>1 DEF Lock!LockCount
    <3>2. [s.pc EXCEPT ![t] = to]
            \in [Readers \cup Writers -> {"out", "count", "give", "reading", "writing"}]  BY <1>0 DEF LockFields
    <3>3. s.read_cnt + 1 \in Nat  BY <1>0 DEF LockFields
    <3>4. s' = [pc |-> [s.pc EXCEPT ![t] = to], read_mtx |-> TRUE, write_mtx |-> s.write_mtx,
                read_cnt |-> s.read_cnt + 1]  BY <1>0, <3>1 DEF LockFields
    <3> QED  BY <1>0, <3>2, <3>3, <3>4 DEF LockFields
  <2>2. s'.pc = [s.pc EXCEPT ![t] = IF s.read_cnt = 0 THEN "count" ELSE "give"]
    BY <1>0, <1>1 DEF Lock!LockCount, LockFields
  <2> QED  BY <1>0, <2>1, <2>2 DEF LockType, LockFields
<1>2. ASSUME NEW t \in Readers, Lock!LockWriters(t) PROVE LockType'
  <2>1. LockFields'  BY <1>0, <1>2 DEF Lock!LockWriters, LockFields
  <2>2. s'.pc = [s.pc EXCEPT ![t] = "give"]  BY <1>0, <1>2 DEF Lock!LockWriters, LockFields
  <2> QED  BY <1>0, <2>1, <2>2 DEF LockType, LockFields
<1>3. ASSUME NEW t \in Readers, Lock!LockGive(t) PROVE LockType'
  <2>1. LockFields'  BY <1>0, <1>3 DEF Lock!LockGive, LockFields
  <2>2. s'.pc = [s.pc EXCEPT ![t] = "reading"]  BY <1>0, <1>3 DEF Lock!LockGive, LockFields
  <2> QED  BY <1>0, <2>1, <2>2 DEF LockType, LockFields
<1>4. ASSUME NEW t \in Readers, Lock!Unlock(t) PROVE LockType'
  <2>1. s.read_cnt # 0  BY <1>4 DEF Lock!Unlock, Counted
  <2>2. LockFields'
    <3>1. s.read_cnt - 1 \in Nat  BY <1>0, <2>1 DEF LockFields
    <3>2. CASE s.read_cnt = 1  BY <1>0, <1>4, <3>1, <3>2 DEF Lock!Unlock, LockFields
    <3>3. CASE s.read_cnt # 1  BY <1>0, <1>4, <3>1, <3>3 DEF Lock!Unlock, LockFields
    <3> QED  BY <3>2, <3>3
  <2>3. s'.pc = [s.pc EXCEPT ![t] = "out"]  BY <1>0, <1>4 DEF Lock!Unlock, LockFields
  <2> QED  BY <1>0, <2>2, <2>3 DEF LockType, LockFields
<1>5. ASSUME NEW t \in Writers, Lock!Write(t) PROVE LockType'
  <2>1. PICK to \in {"out", "writing"}, b \in BOOLEAN :
          s' = [s EXCEPT !.write_mtx = b, !.pc[t] = to]  BY <1>5 DEF Lock!Write
  <2>2. LockFields' /\ s'.pc = [s.pc EXCEPT ![t] = to]  BY <1>0, <2>1 DEF LockFields
  <2>3. t \notin Readers  OBVIOUS
  <2> QED  BY <1>0, <2>2, <2>3 DEF LockType, LockFields
<1>6. CASE UNCHANGED s  BY <1>6 DEF LockType, LockFields
<1> QED  BY <1>1, <1>2, <1>3, <1>4, <1>5, <1>6 DEF Lock!Next

\* Every step of a thread keeps the invariant.
LEMMA LockInvNext ==
  ASSUME IsFiniteSet(Readers), Readers \cap Writers = {}, LockInv, [Lock!Next]_s PROVE LockInv'
<1>0. LockType /\ s.read_cnt = Cardinality(Counted) /\ LockFirst /\ LockMutex /\ LockOwner  BY DEF LockInv
<1>f. IsFiniteSet(Counted)  BY CountedFinite
<1>e. s.read_cnt = 0 <=> Counted = {}  BY <1>0, <1>f, FS_EmptySet
<1>t. LockType'  BY <1>0, <1>e, LockTypeNext
<1>1. ASSUME NEW t \in Readers, Lock!LockCount(t) PROVE LockInv'
  <2>1. /\ s.pc[t] = "out" /\ ~s.read_mtx
        /\ s'.pc = [s.pc EXCEPT ![t] = IF s.read_cnt = 0 THEN "count" ELSE "give"]
        /\ s'.read_mtx /\ s'.write_mtx = s.write_mtx /\ s'.read_cnt = s.read_cnt + 1
    BY <1>0, <1>1 DEF Lock!LockCount, LockType, LockFields
  <2>2. t \notin Counted /\ Counted' = Counted \cup {t}  BY <1>0, <2>1 DEF LockType, LockFields, Counted
  <2>3. s'.read_cnt = Cardinality(Counted')
    <3>1. Cardinality(Counted \cup {t}) = Cardinality(Counted) + 1  BY <1>f, <2>2, FS_AddElement
    <3> QED  BY <1>0, <2>1, <2>2, <3>1
  <2>4. AtMutex = {}  BY <1>0, <2>1 DEF LockMutex
  <2>5. AtMutex' = {t}  BY <1>0, <2>1, <2>4 DEF AtMutex, LockType, LockFields
  <2>6. Writing' = Writing  BY <1>0, <2>1 DEF Writing, LockType, LockFields
  <2>7. LockMutex'  BY <2>1, <2>5 DEF LockMutex
  <2>8. CASE s.read_cnt = 0
    <3>1. Holding' = Holding  BY <1>0, <2>1, <2>8 DEF Holding, LockType, LockFields
    <3>2. LockFirst'  BY <1>0, <1>e, <2>1, <2>8 DEF LockFirst, Counted, LockType, LockFields
    <3> QED  BY <1>0, <1>t, <2>1, <2>3, <2>6, <2>7, <3>1, <3>2 DEF LockOwner, LockInv
  <2>9. CASE s.read_cnt # 0
    <3>1. Holding # {}  BY <1>e, <2>4, <2>9 DEF Counted, AtMutex, Holding
    <3>2. Holding' = Holding \cup {t}  BY <1>0, <2>1, <2>9 DEF Holding, LockType, LockFields
    <3>3. LockFirst'  BY <1>0, <2>1, <2>4, <2>9 DEF LockFirst, AtMutex, LockType, LockFields
    <3> QED  BY <1>0, <1>t, <2>1, <2>3, <2>6, <2>7, <3>1, <3>2, <3>3 DEF LockOwner, LockInv
  <2> QED  BY <2>8, <2>9
<1>2. ASSUME NEW t \in Readers, Lock!LockWriters(t) PROVE LockInv'
  <2>1. /\ s.pc[t] = "count" /\ ~s.write_mtx /\ s'.pc = [s.pc EXCEPT ![t] = "give"]
        /\ s'.write_mtx /\ s'.read_mtx = s.read_mtx /\ s'.read_cnt = s.read_cnt
    BY <1>0, <1>2 DEF Lock!LockWriters, LockType, LockFields
  <2>2. Counted' = Counted /\ AtMutex' = AtMutex /\ Writing' = Writing /\ LockFirst'
    BY <1>0, <2>1 DEF Counted, AtMutex, Writing, LockFirst, LockType, LockFields
  <2>3. Holding' = Holding \cup {t}  BY <1>0, <2>1 DEF Holding, LockType, LockFields
  <2>4. Writing = {}  BY <1>0, <2>1 DEF LockOwner
  <2> QED  BY <1>0, <1>t, <2>1, <2>2, <2>3, <2>4 DEF LockMutex, LockOwner, LockInv
<1>3. ASSUME NEW t \in Readers, Lock!LockGive(t) PROVE LockInv'
  <2>1. /\ s.pc[t] = "give" /\ s'.pc = [s.pc EXCEPT ![t] = "reading"]
        /\ s'.write_mtx = s.write_mtx /\ s'.read_cnt = s.read_cnt
    BY <1>0, <1>3 DEF Lock!LockGive, LockType, LockFields
  <2>2. Counted' = Counted /\ Holding' = Holding /\ Writing' = Writing
    BY <1>0, <2>1 DEF Counted, Holding, Writing, LockType, LockFields
  <2>3. AtMutex' = {}  BY <1>0, <2>1 DEF LockMutex, AtMutex, LockType, LockFields
  <2>4. LockFirst'  BY <2>3 DEF LockFirst, AtMutex
  <2> QED  BY <1>0, <1>t, <2>1, <2>2, <2>3, <2>4 DEF LockMutex, LockOwner, LockInv
<1>4. ASSUME NEW t \in Readers, Lock!Unlock(t) PROVE LockInv'
  <2>1. /\ s.pc[t] = "reading" /\ ~s.read_mtx /\ s'.pc = [s.pc EXCEPT ![t] = "out"]
        /\ s'.write_mtx = (IF s.read_cnt = 1 THEN FALSE ELSE s.write_mtx)
        /\ s'.read_cnt = s.read_cnt - 1
    BY <1>0, <1>4 DEF Lock!Unlock, LockType, LockFields
  <2>2. t \in Counted /\ Counted' = Counted \ {t}  BY <1>0, <2>1 DEF Counted, LockType, LockFields
  <2>3. Cardinality(Counted') = Cardinality(Counted) - 1 /\ IsFiniteSet(Counted')
    BY <1>f, <2>2, FS_RemoveElement
  <2>4. AtMutex = {}  BY <1>0, <2>1 DEF LockMutex
  <2>5. AtMutex' = {} /\ Writing' = Writing  BY <1>0, <2>1, <2>4 DEF AtMutex, Writing, LockType, LockFields
  <2>6. Counted = Holding /\ Counted' = Holding'  BY <2>4, <2>5 DEF Counted, Holding, AtMutex
  <2>7. Writing = {} /\ s.write_mtx  BY <1>0, <2>2, <2>6 DEF LockOwner
  <2>8. Counted' = {} <=> s.read_cnt = 1
    BY <1>0, <1>t, <2>1, <2>3, FS_EmptySet DEF LockType, LockFields
  <2>9. LockOwner'  BY <2>1, <2>5, <2>6, <2>7, <2>8 DEF LockOwner
  <2>10. LockFirst'  BY <2>5 DEF LockFirst, AtMutex
  <2> QED  BY <1>0, <1>t, <2>1, <2>3, <2>5, <2>9, <2>10 DEF LockMutex, LockInv
<1>5. ASSUME NEW t \in Writers, Lock!Write(t) PROVE LockInv'
  <2>1. t \notin Readers  OBVIOUS
  <2>2. /\ s'.read_mtx = s.read_mtx /\ s'.read_cnt = s.read_cnt
        /\ \/ /\ s.pc[t] = "out" /\ ~s.write_mtx
              /\ s'.write_mtx /\ s'.pc = [s.pc EXCEPT ![t] = "writing"]
           \/ s.pc[t] = "writing" /\ ~s'.write_mtx /\ s'.pc = [s.pc EXCEPT ![t] = "out"]
    <3>1. CASE s.pc[t] = "out"  BY <1>0, <1>5, <3>1 DEF Lock!Write, LockType, LockFields
    <3>2. CASE s.pc[t] = "writing"  BY <1>0, <1>5, <3>2 DEF Lock!Write, LockType, LockFields
    <3> QED  BY <1>5, <3>1, <3>2 DEF Lock!Write
  <2>3. \A u \in Readers : s'.pc[u] = s.pc[u]  BY <1>0, <2>1, <2>2 DEF LockType, LockFields
  <2>4. \A u \in Writers : u # t => s'.pc[u] = s.pc[u]  BY <1>0, <2>2 DEF LockType, LockFields
  <2>5. Counted' = Counted /\ Holding' = Holding /\ AtMutex' = AtMutex /\ LockFirst'
    BY <1>0, <2>3 DEF Counted, Holding, AtMutex, LockFirst
  <2>6. CASE s.pc[t] = "out"
    <3>1. s'.pc[t] = "writing" /\ ~s.write_mtx /\ s'.write_mtx  BY <1>0, <2>2, <2>6 DEF LockType, LockFields
    <3>2. Writing = {} /\ Holding = {}  BY <1>0, <3>1 DEF LockOwner
    <3>3. Writing' = {t}  BY <2>4, <3>1, <3>2 DEF Writing
    <3> QED  BY <1>0, <1>t, <2>2, <2>5, <3>1, <3>2, <3>3 DEF LockMutex, LockOwner, LockInv
  <2>7. CASE s.pc[t] = "writing"
    <3>1. s'.pc[t] = "out" /\ ~s'.write_mtx  BY <1>0, <2>2, <2>7 DEF LockType, LockFields
    <3>2. t \in Writing  BY <2>7 DEF Writing
    <3>3. Writing = {t} /\ Holding = {}  BY <1>0, <3>2 DEF LockOwner
    <3>4. Writing' = {}  BY <2>4, <3>1, <3>3 DEF Writing
    <3> QED  BY <1>0, <1>t, <2>2, <2>5, <3>1, <3>3, <3>4 DEF LockMutex, LockOwner, LockInv
  <2> QED  BY <2>2, <2>6, <2>7
<1>6. CASE UNCHANGED s
  BY <1>0, <1>6 DEF LockInv, LockType, LockFields, Counted, Holding, AtMutex, Writing, LockFirst, LockMutex, LockOwner
<1> QED  BY <1>1, <1>2, <1>3, <1>4, <1>5, <1>6 DEF Lock!Next

\* rw_locker.h:26-49: however readers and writers interleave, and though the reader that gives
\* the writers' mutex back need not be the one that took it, a writer is alone.
THEOREM WritersExcluded ==
  ASSUME IsFiniteSet(Readers), Readers \cap Writers = {}
  PROVE  Spec => []Excludes
<1>1. Init => (part = "lock" => LockInv)
  BY PartInit, LockInvInit
<1>2. (part = "lock" => LockInv) /\ [Next]_vars => (part = "lock" => LockInv)'
  <2>1. SUFFICES ASSUME (part = "lock" => LockInv), [Next]_vars, part' = "lock" PROVE LockInv'
    OBVIOUS
  <2>2. part = "lock" /\ [Lock!Next]_s
    BY <2>1, PartSteps
  <2> QED  BY <2>1, <2>2, LockInvNext
<1>3. (part = "lock" => LockInv) => Excludes
  BY LockInvExcludes DEF Excludes
<1> QED  BY <1>1, <1>2, <1>3, PTL DEF Spec
-----------------------------------------------------------------------------
(* The thread pool.                                                        *)

PoolStates == {"lock", "tested", "waiting", "run", "gone"}

PoolType == s \in [queue : Seq(Nat), available : Int, shutdown : BOOLEAN,
                   pc : [Workers -> PoolStates], task : [Workers -> Nat], tried : Nat,
                   added : Seq(Nat), started : Seq(Nat), told : BOOLEAN]
PoolInv == PoolType /\ Pool!TasksInOrder

\* The fields that TasksInOrder is about.
PoolLists == <<s.queue, s.available, s.added, s.started>>

\* A sequence is moved one element at a time from the front of another to its
\* own end: both together stay what they are.
LEMMA MoveFront ==
  ASSUME NEW a \in Seq(Nat), NEW q \in Seq(Nat), q # <<>>
  PROVE  /\ Append(a, Head(q)) \in Seq(Nat) /\ Tail(q) \in Seq(Nat)
         /\ Len(Tail(q)) = Len(q) - 1
         /\ Append(a, Head(q)) \o Tail(q) = a \o q
<1>1. /\ Head(q) \in Nat /\ Tail(q) \in Seq(Nat) /\ Len(Tail(q)) = Len(q) - 1
      /\ \A i \in 1..Len(Tail(q)) : Tail(q)[i] = q[i + 1]
  BY HeadTailProperties
<1>. DEFINE b == Append(a, Head(q))
<1>2. /\ b \in Seq(Nat) /\ Len(b) = Len(a) + 1
      /\ \A i \in 1..Len(a) : b[i] = a[i]
      /\ b[Len(a) + 1] = q[1]
  BY <1>1
<1>3. Len(a) \in Nat /\ Len(q) \in Nat \ {0}
  BY EmptySeq, LenProperties
<1>. HIDE DEF b
<1>4. /\ b \o Tail(q) \in Seq(Nat) /\ Len(b \o Tail(q)) = Len(b) + Len(Tail(q))
      /\ \A i \in 1..Len(b) + Len(Tail(q)) :
           (b \o Tail(q))[i] = IF i <= Len(b) THEN b[i] ELSE Tail(q)[i - Len(b)]
  BY <1>1, <1>2, ConcatProperties
<1>5. /\ a \o q \in Seq(Nat) /\ Len(a \o q) = Len(a) + Len(q)
      /\ \A i \in 1..Len(a) + Len(q) :
           (a \o q)[i] = IF i <= Len(a) THEN a[i] ELSE q[i - Len(a)]
  BY ConcatProperties
<1>6. Len(b \o Tail(q)) = Len(a \o q)
  BY <1>1, <1>2, <1>3, <1>4, <1>5
<1>7. ASSUME NEW i \in 1..Len(b \o Tail(q)) PROVE (b \o Tail(q))[i] = (a \o q)[i]
  <2>1. i \in 1..Len(a) + Len(q) /\ i \in 1..Len(b) + Len(Tail(q))
    BY <1>1, <1>2, <1>3, <1>4
  <2>2. CASE i <= Len(a)
    BY <1>2, <1>3, <1>4, <1>5, <2>1, <2>2
  <2>3. CASE i = Len(a) + 1
    BY <1>2, <1>3, <1>4, <1>5, <2>1, <2>3
  <2>4. CASE i > Len(a) + 1
    <3>1. /\ (b \o Tail(q))[i] = Tail(q)[i - Len(b)]
          /\ (a \o q)[i] = q[i - Len(a)]
      BY <1>2, <1>3, <1>4, <1>5, <2>1, <2>4
    <3>2. i - Len(b) \in 1..Len(Tail(q)) /\ i - Len(b) + 1 = i - Len(a)
      BY <1>1, <1>2, <1>3, <2>1, <2>4
    <3>. QED BY <1>1, <3>1, <3>2
  <2>. QED BY SMTT(30), <1>3, <2>1, <2>2, <2>3, <2>4
<1>8. b \o Tail(q) = a \o q
  BY <1>4, <1>5, <1>6, <1>7, SeqEqual
<1>. QED BY <1>1, <1>2, <1>8 DEF b

\* Appending to the second part appends to both together.
LEMMA AppendBoth ==
  ASSUME NEW a \in Seq(Nat), NEW q \in Seq(Nat), NEW n \in Nat
  PROVE  /\ Append(q, n) \in Seq(Nat) /\ Len(Append(q, n)) = Len(q) + 1
         /\ a \o Append(q, n) = Append(a \o q, n)
<1>1. /\ Append(q, n) = q \o <<n>> /\ Append(q, n) \in Seq(Nat)
      /\ Len(Append(q, n)) = Len(q) + 1
  BY AppendIsConcat
<1>2. a \o q \in Seq(Nat)
  BY ConcatProperties
<1>3. Append(a \o q, n) = (a \o q) \o <<n>>
  BY <1>2, AppendIsConcat
<1>4. <<n>> \in Seq(Nat)
  OBVIOUS
<1>5. (a \o q) \o <<n>> = a \o (q \o <<n>>)
  BY <1>4, ConcatAssociative
<1>. QED BY <1>1, <1>3, <1>5

\* The invariant holds before any task is added.
LEMMA PoolInvInit ==
  ASSUME queue_size \in Nat, Pool!Init PROVE PoolInv
<1>1. <<>> \in Seq(Nat) /\ Len(<<>>) = 0 /\ <<>> \o <<>> = <<>>
  BY EmptySeq, ConcatEmptySeq
<1>2. [t \in Workers |-> "lock"] \in [Workers -> PoolStates]
      /\ [t \in Workers |-> 0] \in [Workers -> Nat]
  BY DEF PoolStates
<1>3. PoolType
  BY <1>1, <1>2 DEF Pool!Init, PoolType
<1>4. Pool!TasksInOrder
  BY <1>1 DEF Pool!Init, Pool!TasksInOrder
<1>. QED BY <1>3, <1>4 DEF PoolInv

\* Every step keeps the types.
LEMMA PoolTypeNext ==
  ASSUME PoolType, [Pool!Next]_s PROVE PoolType'
<1>. USE DEF PoolType
<1>1. CASE Pool!add_task
  <2>1. PICK x : /\ x = [s EXCEPT !.tried = s.tried + 1, !.queue = Append(@, s.tried + 1),
                                  !.added = Append(@, s.tried + 1), !.available = @ - 1]
                 /\ \/ s' = [s EXCEPT !.tried = s.tried + 1]
                    \/ \E t \in Workers : s' = [x EXCEPT !.pc[t] = "lock"]
                    \/ s' = x
    BY <1>1 DEF Pool!add_task
  <2>2. /\ s.tried + 1 \in Nat /\ Append(s.queue, s.tried + 1) \in Seq(Nat)
        /\ Append(s.added, s.tried + 1) \in Seq(Nat)
    OBVIOUS
  <2>3. x \in [queue : Seq(Nat), available : Int, shutdown : BOOLEAN,
               pc : [Workers -> PoolStates], task : [Workers -> Nat], tried : Nat,
               added : Seq(Nat), started : Seq(Nat), told : BOOLEAN]
    <3>1. x = [queue |-> Append(s.queue, s.tried + 1), available |-> s.available - 1,
               shutdown |-> s.shutdown, pc |-> s.pc, task |-> s.task,
               tried |-> s.tried + 1, added |-> Append(s.added, s.tried + 1),
               started |-> s.started, told |-> s.told]
      BY <2>1
    <3>2. s.available - 1 \in Int
      OBVIOUS
    <3>. QED BY <2>2, <3>1, <3>2
  <2>4. CASE s' = [s EXCEPT !.tried = s.tried + 1]
    BY <2>2, <2>4
  <2>5. ASSUME NEW t \in Workers, s' = [x EXCEPT !.pc[t] = "lock"] PROVE PoolType'
    <3>1. [x.pc EXCEPT ![t] = "lock"] \in [Workers -> PoolStates]
      BY <2>3 DEF PoolStates
    <3>. QED BY <2>3, <2>5, <3>1
  <2>6. CASE s' = x
    BY <2>3, <2>6
  <2>. QED BY <2>1, <2>4, <2>5, <2>6
<1>2. ASSUME NEW t \in Workers, Pool!Take(t), s.queue # <<>> PROVE PoolType'
  <2>1. Head(s.queue) \in Nat /\ Tail(s.queue) \in Seq(Nat)
    BY <1>2, HeadTailProperties
  <2>2. Append(s.started, Head(s.queue)) \in Seq(Nat)
    BY <2>1
  <2>3. /\ [s.pc EXCEPT ![t] = "run"] \in [Workers -> PoolStates]
        /\ [s.task EXCEPT ![t] = Head(s.queue)] \in [Workers -> Nat]
    BY <2>1 DEF PoolStates
  <2>4. s' = [queue |-> Tail(s.queue), available |-> s.available + 1,
              shutdown |-> s.shutdown, pc |-> [s.pc EXCEPT ![t] = "run"],
              task |-> [s.task EXCEPT ![t] = Head(s.queue)], tried |-> s.tried,
              added |-> s.added, started |-> Append(s.started, Head(s.queue)),
              told |-> s.told]
    BY <1>2 DEF Pool!Take
  <2>5. s.available + 1 \in Int
    OBVIOUS
  <2>. QED BY <2>1, <2>2, <2>3, <2>4, <2>5
<1>3. ASSUME NEW t \in Workers, NEW to \in PoolStates, s' = [s EXCEPT !.pc[t] = to]
      PROVE  PoolType'
  <2>1. [s.pc EXCEPT ![t] = to] \in [Workers -> PoolStates]
    OBVIOUS
  <2>. QED BY <1>3, <2>1
<1>4. ASSUME NEW t \in Workers, Pool!Locked(t) PROVE PoolType'
  BY <1>2, <1>3, <1>4 DEF Pool!Locked, PoolStates
<1>5. ASSUME NEW t \in Workers, Pool!Wait(t) PROVE PoolType'
  BY <1>3, <1>5 DEF Pool!Wait, PoolStates
<1>6. ASSUME NEW t \in Workers, Pool!Run(t) PROVE PoolType'
  <2>1. /\ [s.pc EXCEPT ![t] = "lock"] \in [Workers -> PoolStates]
        /\ [s.task EXCEPT ![t] = 0] \in [Workers -> Nat]
    BY DEF PoolStates
  <2>. QED BY <1>6, <2>1 DEF Pool!Run
<1>7. CASE Pool!Destroy
  BY <1>7 DEF Pool!Destroy
<1>8. CASE Pool!NotifyAll
  <2>1. [t \in Workers |-> IF s.pc[t] = "waiting" THEN "lock" ELSE s.pc[t]]
          \in [Workers -> PoolStates]
    BY DEF PoolStates
  <2>. QED BY <1>8, <2>1 DEF Pool!NotifyAll
<1>9. CASE UNCHANGED s
  BY <1>9
<1>. QED BY <1>1, <1>4, <1>5, <1>6, <1>7, <1>8, <1>9 DEF Pool!Next, Pool!Worker

\* What does not touch the lists keeps the invariant.
LEMMA PoolInvQuiet ==
  ASSUME PoolInv, PoolType', PoolLists' = PoolLists PROVE PoolInv'
BY DEF PoolInv, PoolLists, Pool!TasksInOrder

\* add_task appends the task to the queue and to the tasks added.
LEMMA PoolInvAdd ==
  ASSUME PoolInv, PoolType', Pool!add_task PROVE PoolInv'
<1>. DEFINE n == s.tried + 1
<1>1. CASE s.available = 0
  <2>1. PoolLists' = PoolLists
    BY <1>1 DEF Pool!add_task, PoolInv, PoolType, PoolLists
  <2>. QED BY <2>1, PoolInvQuiet
<1>2. CASE s.available # 0
  <2>1. PICK x : /\ x = [s EXCEPT !.tried = n, !.queue = Append(@, n),
                                  !.added = Append(@, n), !.available = @ - 1]
                 /\ s' = x \/ \E t \in Workers : s' = [x EXCEPT !.pc[t] = "lock"]
    BY <1>2 DEF Pool!add_task
  <2>2. /\ x.queue = Append(s.queue, n) /\ x.added = Append(s.added, n)
        /\ x.available = s.available - 1 /\ x.started = s.started
    BY <2>1 DEF PoolInv, PoolType
  <2>3. /\ s'.queue = x.queue /\ s'.added = x.added
        /\ s'.available = x.available /\ s'.started = x.started
    BY <2>1 DEF PoolInv, PoolType
  <2>4. /\ s.queue \in Seq(Nat) /\ s.started \in Seq(Nat) /\ n \in Nat
        /\ s.available \in Int
    BY DEF PoolInv, PoolType
  <2>5. /\ Len(Append(s.queue, n)) = Len(s.queue) + 1
        /\ s.started \o Append(s.queue, n) = Append(s.started \o s.queue, n)
    BY <2>4, AppendBoth
  <2>6. Len(s.queue) \in Nat
    BY <2>4, LenProperties
  <2>7. s'.available + Len(s'.queue) = queue_size
    <3>1. s'.available = s.available - 1
      BY <2>2, <2>3
    <3>2. Len(s'.queue) = Len(s.queue) + 1
      BY <2>2, <2>3, <2>5
    <3>3. s.available + Len(s.queue) = queue_size
      BY DEF PoolInv, Pool!TasksInOrder
    <3>4. s.available \in Int
      BY <2>4
    <3>5. PICK a, l : a = s.available /\ l = Len(s.queue)
      OBVIOUS
    <3>6. (a - 1) + (l + 1) = a + l
      BY <2>6, <3>4, <3>5
    <3>. QED BY <3>1, <3>2, <3>3, <3>5, <3>6
  <2>8. s'.started \o s'.queue = s'.added
    BY <2>2, <2>3, <2>5 DEF PoolInv, Pool!TasksInOrder
  <2>. QED BY <2>7, <2>8 DEF PoolInv, Pool!TasksInOrder
<1>. QED BY <1>1, <1>2

\* A thread moves the first task from the queue to the tasks started.
LEMMA PoolInvTake ==
  ASSUME PoolInv, PoolType', NEW t \in Workers, Pool!Take(t), s.queue # <<>> PROVE PoolInv'
<1>1. /\ s'.queue = Tail(s.queue) /\ s'.added = s.added
      /\ s'.available = s.available + 1
      /\ s'.started = Append(s.started, Head(s.queue))
  BY DEF Pool!Take, PoolInv, PoolType
<1>2. s.queue \in Seq(Nat) /\ s.started \in Seq(Nat) /\ s.available \in Int
  BY DEF PoolInv, PoolType
<1>3. /\ Len(Tail(s.queue)) = Len(s.queue) - 1
      /\ Append(s.started, Head(s.queue)) \o Tail(s.queue) = s.started \o s.queue
  BY <1>2, MoveFront
<1>4. Len(s.queue) \in Nat
  BY <1>2, LenProperties
<1>5. s'.available + Len(s'.queue) = queue_size
  BY <1>1, <1>2, <1>3, <1>4 DEF PoolInv, Pool!TasksInOrder
<1>6. s'.started \o s'.queue = s'.added
  BY <1>1, <1>3 DEF PoolInv, Pool!TasksInOrder
<1>. QED BY <1>5, <1>6 DEF PoolInv, Pool!TasksInOrder

\* Every step keeps the invariant.
LEMMA PoolInvNext ==
  ASSUME PoolInv, [Pool!Next]_s PROVE PoolInv'
<1>1. PoolType /\ PoolType'
  BY PoolTypeNext DEF PoolInv
<1>2. CASE Pool!add_task
  BY <1>1, <1>2, PoolInvAdd
<1>3. ASSUME NEW t \in Workers, Pool!Locked(t) PROVE PoolInv'
  <2>1. CASE s.queue # <<>> /\ Pool!Take(t)
    BY <1>1, <2>1, PoolInvTake
  <2>2. CASE s' = [s EXCEPT !.pc[t] = "gone"] \/ s' = [s EXCEPT !.pc[t] = "tested"]
    <3>1. PoolLists' = PoolLists
      BY <1>1, <2>2 DEF PoolLists, PoolType
    <3>. QED BY <1>1, <3>1, PoolInvQuiet
  <2>. QED BY <1>3, <2>1, <2>2 DEF Pool!Locked
<1>4. CASE (\E t \in Workers : Pool!Wait(t) \/ Pool!Run(t)) \/ Pool!Destroy \/ Pool!NotifyAll \/ UNCHANGED s
  <2>1. PoolLists' = PoolLists
    BY <1>1, <1>4 DEF Pool!Wait, Pool!Run, Pool!Destroy, Pool!NotifyAll, PoolLists, PoolType
  <2>. QED BY <1>1, <2>1, PoolInvQuiet
<1>. QED BY <1>2, <1>3, <1>4 DEF Pool!Next, Pool!Worker

\* thread_pool.cc:64-111: add_task refuses exactly when queue_size tasks wait, and tasks are
\* started in the order in which they were added, none lost, none twice, whatever the threads
\* do and whenever the pool is destroyed.
THEOREM TasksKept ==
  ASSUME queue_size \in Nat
  PROVE  Spec => []TasksInOrder
<1>1. Init => (part = "pool" => PoolInv)
  BY PartInit, PoolInvInit
<1>2. (part = "pool" => PoolInv) /\ [Next]_vars => (part = "pool" => PoolInv)'
  <2>1. SUFFICES ASSUME (part = "pool" => PoolInv), [Next]_vars, part' = "pool" PROVE PoolInv'
    OBVIOUS
  <2>2. part = "pool" /\ [Pool!Next]_s
    BY <2>1, PartSteps
  <2> QED  BY <2>1, <2>2, PoolInvNext
<1>3. (part = "pool" => PoolInv) => TasksInOrder
  BY DEF PoolInv, TasksInOrder
<1> QED  BY <1>1, <1>2, <1>3, PTL DEF Spec
-----------------------------------------------------------------------------
(* The clocks.                                                             *)

-----------------------------------------------------------------------------
(* Division.                                                               *)

\* The quotient of natural numbers.
LEMMA DivBounds ==
  ASSUME NEW n \in Nat \ {0}, NEW a \in Nat
  PROVE  a \div n \in Nat /\ n * (a \div n) <= a /\ a < n * (a \div n) + n
<1>. DEFINE q == a \div n
<1>1. q \in Int /\ n * q <= a /\ a < n * q + n
  <2>1. a % n \in 0..(n - 1) /\ a = n * (a \div n) + (a % n) /\ a \div n \in Int
    OBVIOUS
  <2>. QED BY <2>1
<1>2. SUFFICES ASSUME q < 0 PROVE FALSE
  BY <1>1
<1>3. q + 1 <= 0 /\ n * q + n = n * (q + 1)
  BY <1>1, <1>2
<1>4. n * (q + 1) <= 0
  BY <1>1, <1>3
<1>. QED BY <1>1, <1>3, <1>4

\* Division is monotonic: an earlier tick is not in a later second.
LEMMA DivMono ==
  ASSUME NEW n \in Nat \ {0}, NEW a \in Nat, NEW b \in Nat, a <= b
  PROVE  a \div n <= b \div n
<1>. DEFINE p == a \div n
            q == b \div n
<1>1. p \in Nat /\ q \in Nat /\ n * p <= a /\ b < n * q + n
  BY DivBounds
<1>. HIDE DEF p, q
<1>2. SUFFICES ASSUME q < p PROVE FALSE
  BY <1>1 DEF p, q
<1>3. q + 1 <= p /\ p - (q + 1) \in Nat
  BY <1>1, <1>2
<1>4. n * p = n * q + n + n * (p - (q + 1)) /\ n * (p - (q + 1)) >= 0
  BY <1>1, <1>3
<1>5. n * q + n <= n * p
  BY <1>1, <1>4
<1>. QED BY <1>1, <1>5

\* Ticks divided by the cycles they took.
LEMMA DivZero ==
  ASSUME NEW n \in Nat, n > 1, NEW d \in Nat \ {0}
  PROVE  d \div (d * n) = 0
<1>. DEFINE m == d * n
            q == d \div m
<1>1. m \in Nat \ {0} /\ d < m
  OBVIOUS
<1>2. q \in Nat /\ m * q <= d
  BY <1>1, DivBounds
<1>. HIDE DEF m, q
<1>3. SUFFICES ASSUME q > 0 PROVE FALSE
  BY <1>2 DEF q, m
<1>4. m * q >= m
  BY <1>1, <1>2, <1>3
<1>. QED BY <1>1, <1>2, <1>4

-----------------------------------------------------------------------------
(* The invariant.                                                          *)

TimeConstants == /\ Rate \in Nat /\ Rate > 1 /\ Boot \in Nat
                 /\ SecondTicks \in Nat \ {0} /\ Slack \in Nat /\ EndOfClock \in Nat

Readings == [pc : {"idle", "index"}, i : 0..1, asked : Nat, got : Int, last : Int, ms : Int]
TimeT == [cycle : BOOLEAN, first : Int, tsc : Nat, last : Int, got : Int, gotLast : Int]
TimeType == s \in [kind : {"provider", "kept"}, now : Nat, tv : [0..1 -> Nat],
                   tsc : [0..1 -> Nat], idx : 0..1, pc : {"write", "flip"}, since : Nat,
                   cycle : Nat, r : [Askers -> Readings],
                   t : TimeT]

Seconds(tick) == tick \div SecondTicks

\* The slots: what is current is the later one, the cycles of a slot are those
\* of its time, and a time that was taken is over when the next is taken.
Times ==
  /\ s.cycle = 0
  /\ \A i \in 0..1 : s.tv[i] <= s.now /\ s.tsc[i] \in {0, Boot + s.tv[i] * Rate}
  /\ s.pc = "write" => /\ s.tv[1 - s.idx] <= s.tv[s.idx]
                       /\ s.tsc[s.idx] # 0 => s.tv[s.idx] <= s.since
  /\ s.pc = "flip" => s.tv[s.idx] <= s.tv[1 - s.idx]
\* A reader is not ahead of the current slot, nor of the one it is about to read.
ReaderRight(q) ==
  /\ s.r[q].got <= Seconds(s.tv[s.idx])
  /\ s.r[q].pc = "idle" => s.r[q].last <= s.r[q].got
  /\ s.r[q].pc = "index" => /\ s.r[q].last <= Seconds(s.tv[s.r[q].i])
                            /\ s.r[q].i = s.idx \/ s.pc = "write"
  /\ s.r[q].ms # -1 => s.r[q].ms = s.r[q].asked
Kept == s.t.gotLast <= s.t.got /\ s.t.got = s.t.last /\ s.t.got <= s.now

TimeInv == TimeType /\ Times /\ (\A q \in Askers : ReaderRight(q)) /\ Kept

\* The invariant implies the property.
LEMMA TimeInvRight ==
  ASSUME TimeConstants, TimeInv PROVE Time!ClockRight
<1>1. ASSUME NEW q \in Askers PROVE s.r[q].got <= s.now \div SecondTicks
  <2>1. s.tv[s.idx] \in Nat /\ s.now \in Nat /\ s.tv[s.idx] <= s.now
    BY DEF TimeInv, TimeType, Times
  <2>2. /\ s.tv[s.idx] \div SecondTicks <= s.now \div SecondTicks
        /\ s.tv[s.idx] \div SecondTicks \in Nat /\ s.now \div SecondTicks \in Nat
    BY <2>1, DivMono, DivBounds DEF TimeConstants
  <2>3. s.r[q].got \in Int /\ s.r[q].got <= s.tv[s.idx] \div SecondTicks
    BY DEF TimeInv, TimeType, Readings, ReaderRight, Seconds
  <2>. QED BY <2>2, <2>3
<1>2. Time!ProviderRight
  BY <1>1 DEF Time!ProviderRight, TimeInv, TimeType, Readings, ReaderRight
<1>. QED BY <1>2 DEF Time!ClockRight, Time!KeptTimeRight, TimeInv, Kept

\* The invariant holds when the thread starts.
LEMMA TimeInvInit ==
  ASSUME TimeConstants, Time!Init PROVE TimeInv
<1>1. PICK k \in {"provider", "kept"} :
        s = [kind |-> k, since |-> 0, now |-> 1, tv |-> [i \in 0..1 |-> 1],
             tsc |-> [i \in 0..1 |-> 0], idx |-> 0, pc |-> "write", cycle |-> 0,
             r |-> [q \in Askers |-> Time!Reader],
             t |-> [cycle |-> FALSE, first |-> -1, tsc |-> 0, last |-> -1, got |-> -1,
                    gotLast |-> -1]]
  BY DEF Time!Init
<1>2. Time!Reader \in Readings
  BY DEF Time!Reader, Readings
<1>3. TimeType
  <2>1. /\ [i \in 0..1 |-> 1] \in [0..1 -> Nat] /\ [i \in 0..1 |-> 0] \in [0..1 -> Nat]
        /\ [q \in Askers |-> Time!Reader] \in [Askers -> Readings]
    BY <1>2
  <2>. QED BY <1>1, <2>1 DEF TimeType, TimeT
<1>4. Times /\ Kept
  BY <1>1 DEF Times, Kept
<1>5. ASSUME NEW q \in Askers PROVE ReaderRight(q)
  <2>1. s.r[q] = Time!Reader /\ s.tv[s.idx] = 1
    BY <1>1
  <2>2. Seconds(1) \in Nat
    BY DivBounds DEF Seconds, TimeConstants
  <2>. QED BY <2>1, <2>2 DEF ReaderRight, Time!Reader
<1>. QED BY <1>3, <1>4, <1>5 DEF TimeInv

-----------------------------------------------------------------------------
(* The steps.                                                              *)

\* Time passes.
LEMMA InvTick ==
  ASSUME TimeInv, Time!Tick PROVE TimeInv'
<1>1. s' = [s EXCEPT !.now = @ + 1]
  BY DEF Time!Tick
<1>2. TimeType'
  BY <1>1 DEF TimeInv, TimeType
<1>3. /\ s'.now = s.now + 1 /\ s'.tv = s.tv /\ s'.tsc = s.tsc /\ s'.idx = s.idx
      /\ s'.pc = s.pc /\ s'.since = s.since /\ s'.cycle = s.cycle /\ s'.r = s.r
      /\ s'.t = s.t
  BY <1>1 DEF TimeInv, TimeType
<1>4. Times'
  BY <1>3 DEF TimeInv, TimeType, Times
<1>5. \A q \in Askers : ReaderRight(q)'
  BY <1>3 DEF TimeInv, ReaderRight
<1>6. Kept'
  BY <1>3 DEF TimeInv, TimeType, TimeT, Kept
<1>. QED BY <1>2, <1>4, <1>5, <1>6 DEF TimeInv

\* The thread fills the slot that is not current.  As a cycle lasts less than
\* a tick, cycle is 0.
LEMMA InvFill ==
  ASSUME TimeConstants, TimeInv, Time!Fill PROVE TimeInv'
<1>. DEFINE i == 1 - s.idx
            n == s.now
<1>0. /\ i \in 0..1 /\ s.idx \in 0..1 /\ i # s.idx /\ 1 - i = s.idx /\ n \in Nat
      /\ Rate \in Nat /\ Rate > 1 /\ Boot \in Nat /\ Time!Tsc \in Nat
      /\ s.tv \in [0..1 -> Nat] /\ s.tsc \in [0..1 -> Nat] /\ s.since \in Nat
  BY DEF TimeInv, TimeType, TimeConstants, Time!Tsc
<1>1. s.pc = "write" /\ s.since < n /\ \A q \in Askers : s.r[q].pc = "index" => s.r[q].i = s.idx
  BY DEF Time!Fill, Time!Due
<1>2. PICK x : x = [s EXCEPT !.tv[1 - s.idx] = s.now, !.pc = "flip"] /\ s' = Time!setTsc(x, 1 - s.idx)
  BY DEF Time!Fill
<1>3. x \in [kind : {"provider", "kept"}, now : Nat, tv : [0..1 -> Nat],
               tsc : [0..1 -> Nat], idx : 0..1, pc : {"write", "flip"}, since : Nat,
               cycle : Nat, r : [Askers -> Readings],
               t : TimeT]
  BY <1>0, <1>2 DEF TimeInv, TimeType
<1>4. /\ x.tv = [s.tv EXCEPT ![i] = n] /\ x.tsc = s.tsc /\ x.pc = "flip" /\ x.now = s.now
      /\ x.idx = s.idx /\ x.since = s.since /\ x.r = s.r /\ x.t = s.t
  BY <1>2 DEF TimeInv, TimeType
<1>. DEFINE c == IF x.tsc[1 - i] = 0 \/ x.tsc[i] = 0 THEN 0
                 ELSE Time!CycleOf(x.tv[i] - x.tv[1 - i], Time!Tsc - x.tsc[1 - i])
<1>5. s' = [x EXCEPT !.tsc[i] = Time!Tsc, !.cycle = c]
  BY <1>2 DEF Time!setTsc
<1>6. c = 0
  <2>1. CASE x.tsc[1 - i] = 0 \/ x.tsc[i] = 0
    BY <2>1
  <2>2. CASE ~(x.tsc[1 - i] = 0 \/ x.tsc[i] = 0)
    <3>. DEFINE v == s.tv[s.idx]
                d == n - v
    <3>1. s.tsc[s.idx] = Boot + v * Rate /\ s.tsc[s.idx] # 0
      BY <1>0, <1>4, <2>2 DEF TimeInv, Times
    <3>2. v \in Nat /\ v <= s.since
      BY <1>0, <1>1, <3>1 DEF TimeInv, Times
    <3>3. d \in Nat \ {0}
      BY <1>0, <1>1, <3>2
    <3>4. x.tv[i] - x.tv[1 - i] = d
      BY <1>0, <1>4
    <3>5. Time!Tsc - x.tsc[1 - i] = d * Rate
      <4>1. Time!Tsc - x.tsc[1 - i] = (Boot + n * Rate) - (Boot + v * Rate)
        BY <1>0, <1>4, <3>1 DEF Time!Tsc
      <4>. QED BY <1>0, <3>2, <4>1
    <3>6. c = d \div (d * Rate)
      BY <2>2, <3>4, <3>5 DEF Time!CycleOf
    <3>. HIDE DEF d, c
    <3>. QED BY <1>0, <3>3, <3>6, DivZero
  <2>. QED BY <2>1, <2>2
<1>. HIDE DEF c, i
<1>7. TimeType'
  <2>1. s' = [kind |-> x.kind, now |-> x.now, tv |-> x.tv, tsc |-> [x.tsc EXCEPT ![i] = Time!Tsc],
              idx |-> x.idx, pc |-> x.pc, since |-> x.since, cycle |-> 0, r |-> x.r,
              t |-> x.t]
    BY <1>3, <1>5, <1>6
  <2>2. [x.tsc EXCEPT ![i] = Time!Tsc] \in [0..1 -> Nat]
    BY <1>0, <1>3
  <2>. QED BY <1>3, <2>1, <2>2 DEF TimeType
<1>8. /\ s'.tv = [s.tv EXCEPT ![i] = n] /\ s'.tsc = [s.tsc EXCEPT ![i] = Time!Tsc]
      /\ s'.pc = "flip" /\ s'.now = s.now /\ s'.idx = s.idx /\ s'.since = s.since
      /\ s'.r = s.r /\ s'.t = s.t /\ s'.cycle = 0
  BY <1>3, <1>4, <1>5, <1>6
<1>9. Times'
  <2>1. ASSUME NEW j \in 0..1
        PROVE  s'.tv[j] <= s'.now /\ s'.tsc[j] \in {0, Boot + s'.tv[j] * Rate}
    BY <1>0, <1>8, <2>1 DEF TimeInv, Times, Time!Tsc
  <2>2. s'.tv[s'.idx] <= s'.tv[1 - s'.idx]
    BY <1>0, <1>8 DEF TimeInv, Times
  <2>. QED BY <1>8, <2>1, <2>2 DEF Times
<1>10. ASSUME NEW q \in Askers PROVE ReaderRight(q)'
  <2>1. s'.tv[s'.idx] = s.tv[s.idx]
    BY <1>0, <1>8
  <2>. QED BY <1>1, <1>8, <2>1 DEF TimeInv, ReaderRight
<1>. QED BY <1>7, <1>8, <1>9, <1>10 DEF TimeInv, Kept

\* The slots are turned: a reader between the index and the slot reads the
\* older one.
LEMMA InvTurn ==
  ASSUME TimeConstants, TimeInv, s.pc = "flip",
         s' = [s EXCEPT !.idx = 1 - @, !.pc = "write", !.since = s.now]
  PROVE  TimeInv'
<1>0. /\ s.idx \in 0..1 /\ 1 - s.idx \in 0..1 /\ 1 - (1 - s.idx) = s.idx /\ s.now \in Nat
      /\ s.tv \in [0..1 -> Nat] /\ s.tsc \in [0..1 -> Nat]
  BY DEF TimeInv, TimeType
<1>1. TimeType'
  BY <1>0 DEF TimeInv, TimeType
<1>2. /\ s'.idx = 1 - s.idx /\ s'.pc = "write" /\ s'.since = s.now /\ s'.now = s.now
      /\ s'.tv = s.tv /\ s'.tsc = s.tsc /\ s'.cycle = s.cycle /\ s'.r = s.r /\ s'.t = s.t
  BY DEF TimeInv, TimeType
<1>3. Times'
  BY <1>0, <1>2 DEF TimeInv, Times
<1>4. ASSUME NEW q \in Askers PROVE ReaderRight(q)'
  <2>1. s.tv[s.idx] \in Nat /\ s.tv[1 - s.idx] \in Nat /\ s.tv[s.idx] <= s.tv[1 - s.idx]
    BY <1>0 DEF TimeInv, Times
  <2>2. /\ Seconds(s.tv[s.idx]) <= Seconds(s.tv[1 - s.idx])
        /\ Seconds(s.tv[s.idx]) \in Nat /\ Seconds(s.tv[1 - s.idx]) \in Nat
    BY <2>1, DivMono, DivBounds DEF Seconds, TimeConstants
  <2>3. s.r[q].got \in Int
    BY DEF TimeInv, TimeType, Readings
  <2>4. s'.r[q].got <= Seconds(s'.tv[s'.idx])
    BY <1>2, <2>2, <2>3 DEF TimeInv, ReaderRight
  <2>. QED BY <1>2, <2>4 DEF TimeInv, ReaderRight
<1>. QED BY <1>1, <1>2, <1>3, <1>4 DEF TimeInv, Kept

\* A step of a reader: only its own readings change.
LEMMA InvReader ==
  ASSUME TimeInv, NEW q \in Askers, NEW x \in Readings, s' = [s EXCEPT !.r[q] = x],
         ReaderRight(q)'
  PROVE  TimeInv'
<1>1. [s.r EXCEPT ![q] = x] \in [Askers -> Readings]
  BY DEF TimeInv, TimeType
<1>2. TimeType'
  BY <1>1 DEF TimeInv, TimeType
<1>3. /\ s'.idx = s.idx /\ s'.pc = s.pc /\ s'.since = s.since /\ s'.now = s.now
      /\ s'.tv = s.tv /\ s'.tsc = s.tsc /\ s'.cycle = s.cycle /\ s'.t = s.t
      /\ s'.r = [s.r EXCEPT ![q] = x]
  BY DEF TimeInv, TimeType
<1>4. Times' /\ Kept'
  BY <1>3 DEF TimeInv, Times, Kept
<1>5. ASSUME NEW p \in Askers, p # q PROVE ReaderRight(p)'
  <2>1. s'.r[p] = s.r[p]
    BY <1>3, <1>5
  <2>. QED BY <1>3, <2>1 DEF TimeInv, ReaderRight
<1>. QED BY <1>2, <1>4, <1>5 DEF TimeInv

\* What a step of a reader leaves alone, and what it reads afterwards.
LEMMA ReaderFields ==
  ASSUME TimeType, NEW q \in Askers, NEW x, s' = [s EXCEPT !.r[q] = x]
  PROVE  /\ s'.r[q] = x /\ s'.tv = s.tv /\ s'.idx = s.idx /\ s'.pc = s.pc
BY DEF TimeType

\* The index is loaded: the slot it leads to is not behind the reader.
LEMMA InvLoadIndex ==
  ASSUME TimeInv, NEW q \in Askers, Time!LoadIndex(q) PROVE TimeInv'
<1>. DEFINE x == [s.r[q] EXCEPT !.pc = "index", !.i = s.idx, !.last = s.r[q].got]
<1>1. s.r[q] \in Readings /\ s.idx \in 0..1 /\ TimeType
  BY DEF TimeInv, TimeType
<1>2. /\ x \in Readings /\ x.pc = "index" /\ x.i = s.idx /\ x.last = s.r[q].got
      /\ x.got = s.r[q].got /\ x.ms = s.r[q].ms /\ x.asked = s.r[q].asked
  BY <1>1 DEF Readings
<1>3. s' = [s EXCEPT !.r[q] = x]
  BY <1>1 DEF Time!LoadIndex, TimeType, Readings
<1>. HIDE DEF x
<1>4. ReaderRight(q)'
  <2>1. /\ s'.r[q] = x /\ s'.tv = s.tv /\ s'.idx = s.idx /\ s'.pc = s.pc
    BY <1>1, <1>3, ReaderFields
  <2>. QED BY <1>2, <2>1 DEF TimeInv, ReaderRight
<1>. QED BY <1>2, <1>3, <1>4, InvReader

\* The time is loaded, of the slot that was current when the index was.
LEMMA InvLoadTime ==
  ASSUME TimeConstants, TimeInv, NEW q \in Askers, Time!LoadTime(q) PROVE TimeInv'
<1>. DEFINE tick == s.tv[s.r[q].i]
            v == tick \div SecondTicks
            x == [s.r[q] EXCEPT !.pc = "idle", !.got = v]
<1>1. s.r[q] \in Readings /\ s.r[q].pc = "index" /\ TimeType /\ s.r[q].i \in 0..1
  BY DEF TimeInv, TimeType, Time!LoadTime, Readings
<1>2. /\ tick \in Nat /\ s.tv[s.idx] \in Nat /\ tick <= s.tv[s.idx]
  <2>1. s.tv \in [0..1 -> Nat] /\ s.idx \in 0..1
    BY <1>1 DEF TimeType
  <2>2. CASE s.r[q].i = s.idx
    BY <2>1, <2>2
  <2>3. CASE s.r[q].i # s.idx
    <3>1. s.pc = "write" /\ s.r[q].i = 1 - s.idx
      BY <1>1, <2>1, <2>3 DEF TimeInv, ReaderRight
    <3>. QED BY <1>1, <2>1, <3>1 DEF TimeInv, Times
  <2>. QED BY <2>2, <2>3
<1>3. /\ v \in Int /\ v <= Seconds(s.tv[s.idx])
  BY <1>2, DivBounds, DivMono DEF TimeConstants, Seconds
<1>5. s' = [s EXCEPT !.r[q] = x]
  BY <1>1 DEF Time!LoadTime, TimeType, Readings
<1>6. s.r[q].last <= v
  BY <1>1 DEF TimeInv, ReaderRight, Seconds
<1>. HIDE DEF v, tick
<1>4. /\ x \in Readings /\ x.pc = "idle" /\ x.got = v
      /\ x.last = s.r[q].last /\ x.ms = s.r[q].ms /\ x.asked = s.r[q].asked
  BY <1>1, <1>3 DEF Readings
<1>. HIDE DEF x
<1>7. ReaderRight(q)'
  <2>1. /\ s'.r[q] = x /\ s'.tv = s.tv /\ s'.idx = s.idx /\ s'.pc = s.pc
    BY <1>1, <1>5, ReaderFields
  <2>. QED BY <1>3, <1>4, <1>6, <2>1 DEF TimeInv, ReaderRight
<1>. QED BY <1>4, <1>5, <1>7, InvReader

\* Milliseconds: as cycle is 0, the system is asked.
LEMMA InvMs ==
  ASSUME TimeInv, NEW q \in Askers, Time!getNowMs(q) PROVE TimeInv'
<1>. DEFINE n == s.now
            x == [s.r[q] EXCEPT !.asked = n, !.ms = n]
<1>1. s.r[q] \in Readings /\ n \in Nat /\ n \in Int /\ TimeType /\ s.cycle = 0
  BY DEF TimeInv, TimeType, Times
<1>3. s' = [s EXCEPT !.r[q] = x]
  BY <1>1 DEF Time!getNowMs, TimeType, Readings
<1>. HIDE DEF n
<1>2. /\ x \in Readings /\ x.pc = s.r[q].pc /\ x.i = s.r[q].i /\ x.got = s.r[q].got
      /\ x.last = s.r[q].last /\ x.ms = n /\ x.asked = n
  BY <1>1 DEF Readings
<1>. HIDE DEF x
<1>4. ReaderRight(q)'
  <2>1. /\ s'.r[q] = x /\ s'.tv = s.tv /\ s'.idx = s.idx /\ s'.pc = s.pc
    BY <1>1, <1>3, ReaderFields
  <2>. QED BY <1>2, <2>1 DEF TimeInv, ReaderRight
<1>. QED BY <1>2, <1>3, <1>4, InvReader

\* get_timeofday, whether it asks the system or keeps the time.
LEMMA InvKept ==
  ASSUME TimeConstants, TimeInv, Time!Calibrate \/ Time!get_timeofday PROVE TimeInv'
<1>0. /\ TimeType /\ s.now \in Nat /\ Time!Tsc \in Nat /\ s.t \in TimeT
      /\ s.t.first \in Int /\ s.t.last \in Int /\ s.t.got \in Int /\ s.t.tsc \in Nat
  BY DEF TimeInv, TimeType, TimeT, TimeConstants, Time!Tsc
<1>1. PICK y \in TimeT : /\ s' = [s EXCEPT !.t = y]
                         /\ y.gotLast = s.t.got /\ y.got = y.last
                         /\ y.got = s.now \/ y.got = s.t.last
  <2>1. CASE Time!Calibrate
    <3>. DEFINE f == IF s.t.first = -1 THEN s.now ELSE s.t.first
                b == s.now \div SecondTicks - f \div SecondTicks >= 1
                y == [s.t EXCEPT !.first = f, !.got = s.now, !.gotLast = s.t.got,
                                 !.last = s.now, !.cycle = b]
    <3>1. f \in Int /\ b \in BOOLEAN /\ s.now \in Int
      BY <1>0
    <3>2. s' = [s EXCEPT !.t = y]
      BY <2>1 DEF Time!Calibrate
    <3>. HIDE DEF f, b
    <3>3. y \in TimeT /\ y.gotLast = s.t.got /\ y.got = s.now /\ y.last = s.now
      BY <1>0, <3>1 DEF TimeT
    <3>. HIDE DEF y
    <3>. QED BY <3>2, <3>3
  <2>2. CASE Time!get_timeofday
    <3>. DEFINE over == (Time!Tsc - s.t.tsc) \div Rate > Slack
                l == IF over THEN s.now ELSE s.t.last
                c == IF over THEN Time!Tsc ELSE s.t.tsc
                y == [s.t EXCEPT !.tsc = c, !.last = l, !.got = l, !.gotLast = s.t.got]
    <3>1. l \in Int /\ c \in Nat /\ (l = s.now \/ l = s.t.last)
      BY <1>0
    <3>2. s' = [s EXCEPT !.t = y]
      BY <2>2 DEF Time!get_timeofday
    <3>. HIDE DEF l, c
    <3>3. y \in TimeT /\ y.gotLast = s.t.got /\ y.got = l /\ y.last = l
      BY <1>0, <3>1 DEF TimeT
    <3>. HIDE DEF y
    <3>. QED BY <3>1, <3>2, <3>3
  <2>. QED BY <2>1, <2>2
<1>2. TimeType'
  BY <1>0, <1>1 DEF TimeType
<1>3. /\ s'.idx = s.idx /\ s'.pc = s.pc /\ s'.since = s.since /\ s'.now = s.now
      /\ s'.tv = s.tv /\ s'.tsc = s.tsc /\ s'.cycle = s.cycle /\ s'.r = s.r /\ s'.t = y
  BY <1>0, <1>1 DEF TimeType
<1>4. Times' /\ \A q \in Askers : ReaderRight(q)'
  BY <1>3 DEF TimeInv, Times, ReaderRight
<1>5. Kept'
  BY <1>0, <1>1, <1>3 DEF TimeInv, Kept
<1>. QED BY <1>2, <1>4, <1>5 DEF TimeInv

\* Every step keeps the invariant.
LEMMA InvNext ==
  ASSUME TimeConstants, TimeInv, [Time!Next]_s PROVE TimeInv'
<1>1. CASE Time!Tick
  BY <1>1, InvTick
<1>2. CASE Time!Calibrate \/ Time!get_timeofday
  BY <1>2, InvKept
<1>3. CASE Time!Flip
  BY <1>3, InvFill, InvTurn DEF Time!Flip
<1>4. ASSUME NEW q \in Askers, Time!LoadIndex(q) \/ Time!LoadTime(q) \/ Time!getNowMs(q) PROVE TimeInv'
  BY <1>4, InvLoadIndex, InvLoadTime, InvMs
<1>5. CASE UNCHANGED s
  BY <1>5 DEF TimeInv, TimeType, Times, ReaderRight, Kept
<1>. QED BY <1>1, <1>2, <1>3, <1>4, <1>5 DEF Time!Next

\* time_provider.cc:41-120 and time_t.cc: the seconds a reader gets without a lock never go back
\* and are never later than now, wherever the thread fills or turns the slots between its two
\* loads; the kept time does not go back either.
THEOREM TimeNeverBack ==
  ASSUME Rate \in Nat, Rate > 1, Boot \in Nat, SecondTicks \in Nat \ {0}, Slack \in Nat,
         EndOfClock \in Nat
  PROVE  Spec => []ClockRight
<1>0. TimeConstants  BY DEF TimeConstants
<1>1. Init => (part = "time" => TimeInv)
  BY <1>0, PartInit, TimeInvInit
<1>2. (part = "time" => TimeInv) /\ [Next]_vars => (part = "time" => TimeInv)'
  <2>1. SUFFICES ASSUME (part = "time" => TimeInv), [Next]_vars, part' = "time" PROVE TimeInv'
    OBVIOUS
  <2>2. part = "time" /\ [Time!Next]_s
    BY <2>1, PartSteps
  <2> QED  BY <1>0, <2>1, <2>2, InvNext
<1>3. (part = "time" => TimeInv) => ClockRight
  BY <1>0, TimeInvRight DEF ClockRight
<1> QED  BY <1>1, <1>2, <1>3, PTL DEF Spec
-----------------------------------------------------------------------------
(* The loggers.                                                            *)

LogConstants == /\ Reload \in Nat /\ Period \in Nat \ {0}
                /\ Logged \subseteq 1..4

LogChecks == {"read", "set", "update", "test"}
PCs == {"idle", "check", "prefix", "file", "write"} \cup LogChecks
LogCall == [pc : PCs, name : Names \cup {""}, level : 0..4, first : BOOLEAN, checked : Nat,
            read : Int, stamp : Nat, file : Nat]
LogEntry == [mode : {"no"} \cup Logs!Modes, level : 1..4, updated : Nat]
LogLine == [name : Names \cup {""}, level : 0..4, checked : Nat, stamp : Nat, file : Nat]
LogState == [now : Nat, conf : Configured, since : Nat, overtaken : BOOLEAN, log : SUBSET LogLine,
             logger : [Names -> LogEntry], t : [Threads -> LogCall]]

\* The lowest level that the configuration leaves switched on.
Least(x) == Logs!ReadConf(1, x.conf)
LevelRight(x, n) == Least(x) <= x.logger[n].level
\* The clock has moved since the configuration changed, and over no check: what was read before
\* is gone.
Settled(x) == ~x.overtaken /\ x.since > 0 /\ x.now > x.since
Late(x, when) == ~x.overtaken /\ x.since > 0 /\ when > x.since + Reload

CallRight(x, c) ==
  /\ c.pc # "idle" => c.name \in Names /\ c.level \in 1..4
  /\ c.checked <= x.now
  /\ ~x.overtaken /\ c.pc \in LogChecks => c.checked = x.now
  /\ Settled(x) /\ c.pc = "set" => c.read = Logs!ReadConf(Logs!NONE, x.conf)
  /\ c.pc = "set" => c.read \in {Logs!NONE} \cup 1..4
  /\ Settled(x) /\ c.pc = "update" => LevelRight(x, c.name)
  /\ Late(x, c.checked) /\ c.pc = "test" => LevelRight(x, c.name)
  /\ Late(x, c.checked) /\ c.pc \in {"prefix", "file", "write"} => Least(x) <= c.level
  /\ c.pc \in {"file", "write"} => c.stamp <= x.now
  /\ c.pc = "write" /\ c.file # 0 => c.file >= c.stamp \div Period
EntryRight(x, n) == /\ x.logger[n].updated <= x.now
                    /\ ~x.overtaken /\ x.since > 0 /\ x.logger[n].updated > x.since => LevelRight(x, n)
LineRight(x, l) == /\ l.checked <= x.now
                   /\ Late(x, l.checked) => l.level >= Least(x)
                   /\ l.file # 0 => l.file >= l.stamp \div Period
LogInv(x) == /\ x \in LogState
             /\ x.since <= x.now
             /\ \A p \in Threads : CallRight(x, x.t[p])
             /\ \A n \in Names : EntryRight(x, n)
             /\ \A l \in x.log : LineRight(x, l)

-----------------------------------------------------------------------------
\* What a reading of the configuration returns.
LEMMA LevelByName ==
  ASSUME NEW v PROVE Logs!get_level_by_name(v) \in {Logs!NONE} \cup 1..4
<1>1. CASE v[1] <= 1 /\ \E i \in 1..4 : Logs!Levels[i] = v[2]
  <2>1. Logs!LEVEL(v[2]) \in 1..4
    BY <1>1 DEF Logs!LEVEL
  <2> QED  BY <1>1, <2>1 DEF Logs!get_level_by_name
<1>2. CASE ~(v[1] <= 1 /\ \E i \in 1..4 : Logs!Levels[i] = v[2])
  BY <1>2 DEF Logs!get_level_by_name
<1> QED  BY <1>1, <1>2

LEMMA Reading ==
  ASSUME NEW conf
  PROVE  /\ Logs!ReadConf(Logs!NONE, conf) \in {Logs!NONE} \cup 1..4
         /\ Logs!ReadConf(1, conf) \in {Logs!NONE} \cup 1..4
         /\ Logs!ReadConf(Logs!NONE, conf) # Logs!NONE => Logs!ReadConf(1, conf) = Logs!ReadConf(Logs!NONE, conf)
         /\ Logs!ReadConf(Logs!NONE, conf) = Logs!NONE => Logs!ReadConf(1, conf) <= 1
<1> DEFINE good == {i \in 1..Len(conf) : Logs!get_level_by_name(conf[i]) # Logs!NONE}
           v == Logs!get_level_by_name(conf[CHOOSE i \in good : \A j \in good : j <= i])
<1>1. \A l : Logs!ReadConf(l, conf) = IF good = {} THEN l ELSE v
  BY DEF Logs!ReadConf
<1>2. v \in {Logs!NONE} \cup 1..4
  BY LevelByName
<1> HIDE DEF good, v
<1>3. Logs!NONE \in Int /\ Logs!NONE <= 1
  BY DEF Logs!NONE
<1> QED  BY <1>1, <1>2, <1>3

\* A step of a thread that changes its call alone.
LEMMA CallStep ==
  ASSUME NEW x, NEW y, NEW p \in Threads, NEW c \in LogCall, LogInv(x), CallRight(x, c),
         y = [x EXCEPT !.t[p] = c]
  PROVE  LogInv(y)
<1>1. x \in LogState
  BY DEF LogInv
<1>2. [x.t EXCEPT ![p] = c] \in [Threads -> LogCall]
  BY <1>1 DEF LogState
<1>3. /\ y \in LogState
      /\ y.now = x.now /\ y.conf = x.conf /\ y.since = x.since /\ y.overtaken = x.overtaken /\ y.log = x.log
      /\ y.logger = x.logger /\ y.t = [x.t EXCEPT ![p] = c]
  BY <1>1, <1>2 DEF LogState
<1>4. \A q \in Threads : y.t[q] = IF q = p THEN c ELSE x.t[q]
  BY <1>1, <1>3 DEF LogState
<1>5. \A d : CallRight(x, d) => CallRight(y, d)
  BY <1>3 DEF CallRight, Settled, Late, LevelRight, Least
<1>6. \A n \in Names : EntryRight(y, n)
  BY <1>3 DEF LogInv, EntryRight, LevelRight, Least
<1>7. \A l \in y.log : LineRight(y, l)
  BY <1>3 DEF LogInv, LineRight, Late, Least
<1> QED  BY <1>3, <1>4, <1>5, <1>6, <1>7 DEF LogInv

LEMMA IdleRight ==
  ASSUME NEW x \in LogState, NEW c, c.pc \in {"idle", "check"},
         c.pc = "check" => c.name \in Names /\ c.level \in 1..4,
         c.checked \in Nat, c.checked <= x.now
  PROVE  CallRight(x, c)
BY DEF CallRight, LogChecks

LEMMA CheckStep ==
  ASSUME LogConstants, LogInv(s), NEW p \in Threads, Logs!Check(p) PROVE LogInv(s')
<1> DEFINE b == s.t[p]
           c == [b EXCEPT !.pc = IF s.now - Logs!Mine(p).updated > Reload THEN "read" ELSE "test",
                          !.checked = s.now]
<1>1. /\ s \in LogState /\ b \in LogCall /\ b.pc = "check" /\ b.name \in Names /\ b.level \in 1..4
      /\ CallRight(s, b) /\ EntryRight(s, b.name)
  BY DEF LogInv, Logs!Check, Logs!At, CallRight, LogState
<1>2. c \in LogCall /\ c.pc \in {"read", "test"} /\ c.checked = s.now
      /\ c.name = b.name /\ c.level = b.level
  BY <1>1 DEF LogCall, PCs, LogChecks, LogState
<1>3. s' = [s EXCEPT !.t[p] = c]
  BY <1>1 DEF Logs!Check, LogState
<1>4. c.pc = "test" /\ Late(s, s.now) => LevelRight(s, b.name)
  <2>2. s.logger[b.name].updated \in Nat /\ s.now \in Nat /\ s.since \in Nat
    BY <1>1 DEF LogState, LogEntry
  <2>3. c.pc = IF s.now - s.logger[b.name].updated > Reload THEN "read" ELSE "test"
    BY <1>1 DEF Logs!Mine, LogCall
  <2> HIDE DEF c
  <2>1. c.pc = "test" => s.now - s.logger[b.name].updated <= Reload
    BY <2>2, <2>3 DEF LogConstants
  <2> QED  BY <1>1, <2>1, <2>2 DEF Late, EntryRight, LogConstants
<1> HIDE DEF c
<1>5. CallRight(s, c)
  BY <1>1, <1>2, <1>4 DEF CallRight, LogChecks, LogState
<1> QED  BY <1>1, <1>2, <1>3, <1>5, CallStep

LEMMA ReadStep ==
  ASSUME LogConstants, LogInv(s), NEW p \in Threads, Logs!Read(p) PROVE LogInv(s')
<1> DEFINE b == s.t[p]
           v == Logs!ReadConf(Logs!NONE, s.conf)
           c == [b EXCEPT !.pc = "set", !.read = v]
<1>1. /\ s \in LogState /\ b \in LogCall /\ b.pc = "read" /\ CallRight(s, b)
  BY DEF LogInv, Logs!Read, Logs!At, LogState
<1>2. v \in {Logs!NONE} \cup 1..4 /\ v \in Int
  BY Reading DEF Logs!NONE
<1> HIDE DEF v
<1>3. c \in LogCall /\ c.pc = "set" /\ c.checked = b.checked /\ c.read = v
      /\ c.name = b.name /\ c.level = b.level
  BY <1>1, <1>2 DEF LogCall, PCs, LogChecks
<1>4. s' = [s EXCEPT !.t[p] = c]
  BY <1>1 DEF Logs!Read, LogState, v
<1> HIDE DEF c
<1>5. CallRight(s, c)
  BY <1>1, <1>2, <1>3 DEF CallRight, LogChecks, v
<1> QED  BY <1>1, <1>3, <1>4, <1>5, CallStep

LEMMA MacroStep ==
  ASSUME LogConstants, LogInv(s), NEW p \in Threads, Logs!Macro(p) \/ Logs!Method(p) PROVE LogInv(s')
<1> DEFINE b == s.t[p]
<1>1. s \in LogState /\ b \in LogCall /\ b.pc = "test" /\ CallRight(s, b)
  BY DEF LogInv, Logs!Macro, Logs!Method, Logs!At, LogState
<1>2. b.name \in Names /\ b.level \in 1..4 /\ b.checked \in Nat /\ b.checked <= s.now
  BY <1>1 DEF CallRight, LogCall
<1>3. CASE s' = [s EXCEPT !.t[p] = Logs!Idle]
  <2>1. Logs!Idle \in LogCall /\ Logs!Idle.pc = "idle" /\ Logs!Idle.checked = 0
    BY DEF Logs!Idle, LogCall, PCs
  <2>3. 0 \in Nat /\ 0 <= s.now
    BY <1>1 DEF LogState
  <2>2. CallRight(s, Logs!Idle)
    BY <1>1, <2>1, <2>3, IdleRight
  <2> QED  BY <1>3, <2>1, <2>2, CallStep
<1>4. CASE s' = [s EXCEPT !.t[p] = [b EXCEPT !.pc = "check", !.first = FALSE]]
  <2> DEFINE c == [b EXCEPT !.pc = "check", !.first = FALSE]
  <2>1. c \in LogCall /\ c.pc = "check" /\ c.name = b.name /\ c.level = b.level
        /\ c.checked = b.checked
    BY <1>1 DEF LogCall, PCs
  <2> HIDE DEF c
  <2>2. CallRight(s, c)
    BY <1>1, <1>2, <2>1, IdleRight
  <2> QED  BY <1>4, <2>1, <2>2, CallStep DEF c
<1>5. CASE ~Logs!Silent(p) /\ s' = [s EXCEPT !.t[p] = [b EXCEPT !.pc = "prefix"]]
  <2> DEFINE c == [b EXCEPT !.pc = "prefix"]
  <2>1. c \in LogCall /\ c.pc = "prefix" /\ c.name = b.name /\ c.level = b.level
        /\ c.checked = b.checked
    BY <1>1 DEF LogCall, PCs
  <2>2. s.logger[b.name].level <= b.level /\ s.logger[b.name].level \in Int
    BY <1>1, <1>2, <1>5 DEF Logs!Silent, Logs!Mine, LogState, LogEntry
  <2>3. Late(s, b.checked) => Least(s) <= b.level
    <3>1. Least(s) \in Int
      BY Reading DEF Least, Logs!NONE
    <3> QED  BY <1>1, <1>2, <2>2, <3>1 DEF CallRight, LevelRight
  <2> HIDE DEF c
  <2>4. CallRight(s, c)
    BY <1>1, <1>2, <2>1, <2>3 DEF CallRight, LogChecks
  <2> QED  BY <1>5, <2>1, <2>4, CallStep DEF c
<1> QED  BY <1>3, <1>4, <1>5 DEF Logs!Macro, Logs!Method

LEMMA PrefixStep ==
  ASSUME LogConstants, LogInv(s), NEW p \in Threads, Logs!Prefix(p) PROVE LogInv(s')
<1> DEFINE b == s.t[p]
           c == [b EXCEPT !.pc = "file", !.stamp = s.now]
<1>1. /\ s \in LogState /\ b \in LogCall /\ b.pc = "prefix" /\ CallRight(s, b) /\ s.now \in Nat
  BY DEF LogInv, Logs!Prefix, Logs!At, LogState
<1>2. c \in LogCall /\ c.pc = "file" /\ c.checked = b.checked /\ c.stamp = s.now
      /\ c.name = b.name /\ c.level = b.level
  BY <1>1 DEF LogCall, PCs, LogChecks, LogState
<1>3. s' = [s EXCEPT !.t[p] = c]
  BY <1>1 DEF Logs!Prefix, LogState
<1> HIDE DEF c
<1>4. CallRight(s, c)
  BY <1>1, <1>2 DEF CallRight, LogChecks
<1> QED  BY <1>1, <1>2, <1>3, <1>4, CallStep

LEMMA NameStep ==
  ASSUME LogConstants, LogInv(s), NEW p \in Threads, Logs!Name(p) PROVE LogInv(s')
<1> DEFINE b == s.t[p]
           f == IF Logs!Mine(p).mode = "NONE" THEN 0 ELSE s.now \div Period
           c == [b EXCEPT !.pc = "write", !.file = f]
<1>1. /\ s \in LogState /\ b \in LogCall /\ b.pc = "file" /\ CallRight(s, b) /\ s.now \in Nat
      /\ b.stamp \in Nat /\ b.stamp <= s.now
  BY DEF LogInv, Logs!Name, Logs!At, LogState, CallRight, LogCall
<1>2. s.now \div Period \in Nat /\ b.stamp \div Period <= s.now \div Period
  BY <1>1, DivMono, DivBounds DEF LogConstants
<1>3. f \in Nat /\ (f # 0 => f >= b.stamp \div Period)
  <2>1. b.stamp \div Period \in Nat
    BY <1>1, DivBounds DEF LogConstants
  <2> QED  BY <1>2, <2>1
<1>4. s' = [s EXCEPT !.t[p] = [b EXCEPT !.pc = "write", !.file = f]]
  BY <1>1 DEF Logs!Name, LogState
<1> HIDE DEF f
<1>5. c \in LogCall /\ c.pc = "write" /\ c.checked = b.checked /\ c.stamp = b.stamp
      /\ c.file = f /\ c.name = b.name /\ c.level = b.level
  BY <1>1, <1>3 DEF LogCall, PCs
<1>6. s' = [s EXCEPT !.t[p] = c]
  BY <1>4
<1> HIDE DEF c
<1>7. CallRight(s, c)
  BY <1>1, <1>3, <1>5 DEF CallRight, LogChecks
<1> QED  BY <1>1, <1>5, <1>6, <1>7, CallStep

\* A step of a thread that changes the entry of a logger as well.
LEMMA EntryStep ==
  ASSUME NEW x, NEW y, NEW p \in Threads, NEW c \in LogCall, NEW n \in Names, NEW e \in LogEntry,
         LogInv(x), y = [x EXCEPT !.t[p] = c, !.logger[n] = e],
         CallRight(y, c), \A d \in LogCall : CallRight(x, d) => CallRight(y, d), EntryRight(y, n)
  PROVE  LogInv(y)
<1>1. x \in LogState
  BY DEF LogInv
<1>2. /\ [x.t EXCEPT ![p] = c] \in [Threads -> LogCall]
      /\ [x.logger EXCEPT ![n] = e] \in [Names -> LogEntry]
  BY <1>1 DEF LogState
<1>3. /\ y \in LogState
      /\ y.now = x.now /\ y.conf = x.conf /\ y.since = x.since /\ y.overtaken = x.overtaken /\ y.log = x.log
      /\ y.logger = [x.logger EXCEPT ![n] = e] /\ y.t = [x.t EXCEPT ![p] = c]
  BY <1>1, <1>2 DEF LogState
<1>4. \A q \in Threads : y.t[q] = IF q = p THEN c ELSE x.t[q]
  BY <1>1, <1>3 DEF LogState
<1>5. \A m \in Names : m # n => y.logger[m] = x.logger[m]
  BY <1>1, <1>3 DEF LogState
<1>6. \A m \in Names : EntryRight(y, m)
  BY <1>3, <1>5 DEF LogInv, EntryRight, LevelRight, Least
<1>7. \A l \in y.log : LineRight(y, l)
  BY <1>3 DEF LogInv, LineRight, Late, Least
<1>8. \A q \in Threads : x.t[q] \in LogCall
  BY <1>1 DEF LogState
<1> QED  BY <1>3, <1>4, <1>6, <1>7, <1>8 DEF LogInv

\* What such a step may change of an entry.
LEMMA EntryKept ==
  ASSUME LogConstants, NEW x \in LogState, NEW y, NEW n \in Names, NEW e \in LogEntry,
         y.now = x.now, y.conf = x.conf, y.since = x.since, y.overtaken = x.overtaken,
         y.logger = [x.logger EXCEPT ![n] = e],
         Settled(x) /\ LevelRight(x, n) => LevelRight(y, n)
  PROVE  \A d \in LogCall : CallRight(x, d) => CallRight(y, d)
<1> SUFFICES ASSUME NEW d \in LogCall, CallRight(x, d) PROVE CallRight(y, d)
  OBVIOUS
<1>1. \A m \in Names : m # n => y.logger[m] = x.logger[m]
  BY DEF LogState
<1>2. \A m \in Names : Settled(x) /\ LevelRight(x, m) => LevelRight(y, m)
  BY <1>1 DEF LevelRight, Least
<1>3. Settled(y) <=> Settled(x)
  BY DEF Settled
<1>4. \A when : Late(y, when) <=> Late(x, when)
  BY DEF Late
<1>5. Least(y) = Least(x)
  BY DEF Least
<1>6. d.pc = "test" /\ Late(x, d.checked) => Settled(x)
  <2>1. ~x.overtaken /\ d.pc = "test" => d.checked = x.now
    BY DEF CallRight, LogChecks
  <2>2. x.since \in Nat /\ x.now \in Nat /\ Reload \in Nat
    BY DEF LogState, LogConstants
  <2> QED  BY <2>1, <2>2 DEF Late, Settled
<1>7. d.pc \in {"update", "test"} => d.name \in Names
  BY DEF CallRight
<1>8. Settled(y) /\ d.pc = "update" => LevelRight(y, d.name)
  BY <1>2, <1>3, <1>7 DEF CallRight
<1>9. Late(y, d.checked) /\ d.pc = "test" => LevelRight(y, d.name)
  BY <1>2, <1>4, <1>6, <1>7 DEF CallRight
<1> HIDE DEF Settled, LevelRight, Late, Least
<1> QED  BY <1>3, <1>4, <1>5, <1>8, <1>9 DEF CallRight

LEMMA GetLogStep ==
  ASSUME LogConstants, LogInv(s), NEW p \in Threads, Logs!getLog(p) PROVE LogInv(s')
<1>1. s \in LogState
  BY DEF LogInv
<1>2. PICK n \in Names, l \in Logged, m \in Logs!Modes :
        s' = [s EXCEPT !.logger[n].mode = IF @ = "no" THEN m ELSE @,
                       !.t[p] = [Logs!Idle EXCEPT !.pc = "check", !.name = n, !.level = l]]
  BY DEF Logs!getLog
<1> DEFINE c == [Logs!Idle EXCEPT !.pc = "check", !.name = n, !.level = l]
           e == [s.logger[n] EXCEPT !.mode = IF @ = "no" THEN m ELSE @]
<1>3. l \in 1..4 /\ c \in LogCall /\ c.pc = "check" /\ c.name = n /\ c.level = l /\ c.checked = 0
  <2>1. l \in 1..4 /\ l \in 0..4
    BY DEF LogConstants
  <2>2. Logs!Idle \in LogCall /\ Logs!Idle.checked = 0
    BY DEF Logs!Idle, LogCall, PCs
  <2> QED  BY <2>1, <2>2 DEF LogCall, PCs
<1>4. e \in LogEntry /\ e.level = s.logger[n].level /\ e.updated = s.logger[n].updated
  BY <1>1 DEF LogState, LogEntry
<1>5. s' = [s EXCEPT !.t[p] = c, !.logger[n] = e]
  <2>1. s.logger[n] \in LogEntry
    BY <1>1 DEF LogState
  <2>2. s' = [s EXCEPT !.t[p] = c, !.logger[n].mode = IF @ = "no" THEN m ELSE @]
    <3> HIDE DEF c
    <3>1. s' = [s EXCEPT !.logger[n].mode = IF @ = "no" THEN m ELSE @, !.t[p] = c]
      BY <1>2 DEF c
    <3> QED  BY <1>1, <3>1 DEF LogState
  <2> QED  BY <1>1, <2>1, <2>2 DEF LogState, LogEntry
<1> HIDE DEF c, e
<1>6. /\ s'.now = s.now /\ s'.conf = s.conf /\ s'.since = s.since /\ s'.overtaken = s.overtaken
      /\ s'.logger = [s.logger EXCEPT ![n] = e] /\ s'.logger[n] = e
  BY <1>1, <1>5 DEF LogState
<1>7. LevelRight(s, n) <=> LevelRight(s', n)
  BY <1>4, <1>6 DEF LevelRight, Least
<1>8. EntryRight(s', n)
  BY <1>4, <1>6, <1>7 DEF LogInv, EntryRight
<1>9. \A d \in LogCall : CallRight(s, d) => CallRight(s', d)
  BY <1>1, <1>4, <1>6, <1>7, EntryKept
<1>10. CallRight(s, c)
  BY <1>1, <1>3, IdleRight DEF LogState
<1>11. CallRight(s', c)
  BY <1>3, <1>9, <1>10
<1>12. n \in Names /\ e \in LogEntry /\ c \in LogCall
  BY <1>2, <1>3, <1>4
<1> QED  BY <1>5, <1>8, <1>9, <1>11, <1>12, EntryStep

\* The level that was read is set: from then on the logger agrees with the configuration.
LEMMA SetStep ==
  ASSUME LogConstants, LogInv(s), NEW p \in Threads, Logs!Set(p) PROVE LogInv(s')
<1> DEFINE b == s.t[p]
           n == b.name
           c == [b EXCEPT !.pc = "update"]
           e == [s.logger[n] EXCEPT !.level = IF b.read = Logs!NONE THEN @ ELSE b.read]
<1>1. /\ s \in LogState /\ b \in LogCall /\ b.pc = "set" /\ CallRight(s, b) /\ EntryRight(s, n)
      /\ n \in Names /\ b.read \in {Logs!NONE} \cup 1..4
  BY DEF LogInv, Logs!Set, Logs!At, LogState, CallRight
<1>2. c \in LogCall /\ c.pc = "update" /\ c.checked = b.checked /\ c.name = n /\ c.level = b.level
  BY <1>1 DEF LogCall, PCs, LogChecks
<1>3. /\ e \in LogEntry /\ e.updated = s.logger[n].updated
      /\ e.level = IF b.read = Logs!NONE THEN s.logger[n].level ELSE b.read
  BY <1>1 DEF LogState, LogEntry
<1>4. s' = [s EXCEPT !.t[p] = c, !.logger[n] = e]
  BY <1>1 DEF Logs!Set, LogState, LogEntry
<1> HIDE DEF c, e
<1>5. /\ s'.now = s.now /\ s'.conf = s.conf /\ s'.since = s.since /\ s'.overtaken = s.overtaken
      /\ s'.logger = [s.logger EXCEPT ![n] = e] /\ s'.logger[n] = e
  BY <1>1, <1>4 DEF LogState
<1>6. Settled(s) => LevelRight(s', n)
  <2>1. Settled(s) => b.read = Logs!ReadConf(Logs!NONE, s.conf)
    BY <1>1 DEF CallRight
  <2>2. s.logger[n].level \in 1..4
    BY <1>1 DEF LogState, LogEntry
  <2>3. Settled(s) => Least(s) <= e.level
    BY <1>3, <2>1, <2>2, Reading DEF Least, Logs!NONE
  <2> QED  BY <1>5, <2>3 DEF LevelRight, Least
<1>7. EntryRight(s', n)
  <2>1. s.now \in Nat /\ s.since \in Nat /\ e.updated \in Nat
    BY <1>1, <1>3 DEF LogState, LogEntry
  <2> QED  BY <1>1, <1>3, <1>5, <1>6, <2>1 DEF EntryRight, Settled
<1>8. \A d \in LogCall : CallRight(s, d) => CallRight(s', d)
  BY <1>1, <1>3, <1>5, <1>6, EntryKept
<1>9. CallRight(s', c)
  <2>1. Settled(s') <=> Settled(s)
    BY <1>5 DEF Settled
  <2> QED  BY <1>1, <1>2, <1>5, <1>6, <2>1 DEF CallRight, LogChecks
<1> QED  BY <1>1, <1>2, <1>3, <1>4, <1>7, <1>8, <1>9, EntryStep

LEMMA UpdateStep ==
  ASSUME LogConstants, LogInv(s), NEW p \in Threads, Logs!Update(p) PROVE LogInv(s')
<1> DEFINE b == s.t[p]
           n == b.name
           c == [b EXCEPT !.pc = "test"]
           e == [s.logger[n] EXCEPT !.updated = b.checked]
<1>1. /\ s \in LogState /\ b \in LogCall /\ b.pc = "update" /\ CallRight(s, b) /\ EntryRight(s, n)
      /\ n \in Names /\ (~s.overtaken => b.checked = s.now) /\ b.checked \in Nat /\ b.checked <= s.now
      /\ s.now \in Nat /\ s.since \in Nat
  BY DEF LogInv, Logs!Update, Logs!At, LogState, LogCall, CallRight, LogChecks
<1>2. c \in LogCall /\ c.pc = "test" /\ c.checked = b.checked /\ c.name = n /\ c.level = b.level
  BY <1>1 DEF LogCall, PCs, LogChecks
<1>3. e \in LogEntry /\ e.updated = b.checked /\ e.level = s.logger[n].level
  BY <1>1 DEF LogState, LogEntry
<1>4. s' = [s EXCEPT !.t[p] = c, !.logger[n] = e]
  BY <1>1 DEF Logs!Update, LogState, LogEntry
<1> HIDE DEF c, e
<1>5. /\ s'.now = s.now /\ s'.conf = s.conf /\ s'.since = s.since /\ s'.overtaken = s.overtaken
      /\ s'.logger = [s.logger EXCEPT ![n] = e] /\ s'.logger[n] = e
  BY <1>1, <1>4 DEF LogState
<1>6. LevelRight(s', n) <=> LevelRight(s, n)
  BY <1>3, <1>5 DEF LevelRight, Least
<1>7. Settled(s) => LevelRight(s', n)
  BY <1>1, <1>6 DEF CallRight
<1>8. EntryRight(s', n)
  BY <1>1, <1>3, <1>5, <1>7 DEF EntryRight, Settled
<1>9. \A d \in LogCall : CallRight(s, d) => CallRight(s', d)
  BY <1>1, <1>3, <1>5, <1>6, EntryKept
<1>10. CallRight(s', c)
  <2>1. Late(s', c.checked) => Settled(s)
    BY <1>1, <1>2, <1>5 DEF Late, Settled, LogConstants
  <2> QED  BY <1>1, <1>2, <1>5, <1>7, <2>1 DEF CallRight, LogChecks
<1> QED  BY <1>1, <1>2, <1>3, <1>4, <1>8, <1>9, <1>10, EntryStep

\* The line is in its file.
LEMMA WriteStep ==
  ASSUME LogConstants, LogInv(s), NEW p \in Threads, Logs!Write(p) PROVE LogInv(s')
<1> DEFINE b == s.t[p]
           l == [name |-> b.name, level |-> b.level, checked |-> b.checked,
                 stamp |-> b.stamp, file |-> b.file]
           x == [s EXCEPT !.log = @ \cup {l}]
<1>1. /\ s \in LogState /\ b \in LogCall /\ b.pc = "write" /\ CallRight(s, b)
  BY DEF LogInv, Logs!Write, Logs!At, LogState
<1>2. l \in LogLine
  BY <1>1 DEF LogCall, LogLine
<1>3. /\ x.now = s.now /\ x.conf = s.conf /\ x.since = s.since /\ x.overtaken = s.overtaken /\ x.t = s.t
      /\ x.logger = s.logger /\ x.log = s.log \cup {l} /\ x \in LogState
  BY <1>1, <1>2 DEF LogState
<1>4. LineRight(s, l)
  <2>1. Least(s) \in Int
    BY Reading DEF Least, Logs!NONE
  <2> QED  BY <1>1, <2>1 DEF LineRight, CallRight, LogCall
<1>5. s' = [x EXCEPT !.t[p] = Logs!Idle]
  BY <1>1 DEF Logs!Write, LogState
<1> HIDE DEF l, x
<1>6. \A k : LineRight(s, k) => LineRight(x, k)
  BY <1>3 DEF LineRight, Late, Least
<1>7. \A d : CallRight(s, d) => CallRight(x, d)
  BY <1>3 DEF CallRight, Settled, Late, LevelRight, Least
<1>8. \A n \in Names : EntryRight(x, n)
  BY <1>3 DEF LogInv, EntryRight, LevelRight, Least
<1>9. LogInv(x)
  BY <1>3, <1>4, <1>6, <1>7, <1>8 DEF LogInv
<1>10. Logs!Idle \in LogCall /\ Logs!Idle.pc = "idle" /\ Logs!Idle.checked = 0 /\ 0 \in Nat /\ 0 <= x.now
  <2>1. 0 <= x.now
    BY <1>3 DEF LogState
  <2> QED  BY <2>1 DEF Logs!Idle, LogCall, PCs
<1>11. CallRight(x, Logs!Idle)
  BY <1>3, <1>10, IdleRight
<1> QED  BY <1>5, <1>9, <1>10, <1>11, CallStep

\* The clock moves: nobody checks, or a check is overtaken and little is left to show.
LEMMA TickStep ==
  ASSUME LogConstants, LogInv(s), Logs!Tick PROVE LogInv(s')
<1>1. /\ s \in LogState /\ s.now \in Nat /\ s.since \in Nat /\ s.since <= s.now
  BY DEF LogInv, LogState
<1>8. \/ s' = [s EXCEPT !.now = s.now + 1, !.overtaken = TRUE]
      \/ s' = [s EXCEPT !.now = s.now + 1, !.overtaken = FALSE] /\ ~s.overtaken /\ ~Logs!Checking
  <2>1. s' = [s EXCEPT !.now = s.now + 1, !.overtaken = s.overtaken \/ Logs!Checking]
    BY Zenon DEF Logs!Tick
  <2>2. (s.overtaken \/ Logs!Checking) = TRUE \/ (s.overtaken \/ Logs!Checking) = FALSE
    BY Zenon
  <2> QED  BY <2>1, <2>2, Zenon
<1>2. /\ s' \in LogState /\ s'.now = s.now + 1 /\ s'.conf = s.conf /\ s'.since = s.since
      /\ s'.log = s.log /\ s'.logger = s.logger /\ s'.t = s.t
      /\ (~s'.overtaken => ~s.overtaken /\ ~Logs!Checking)
  <2> DEFINE n == s.now + 1
  <2>1. n \in Nat
    BY <1>1
  <2> HIDE DEF n
  <2>2. CASE s' = [s EXCEPT !.now = n, !.overtaken = TRUE]
    <3>1. s'.overtaken
      BY <1>1, <2>2 DEF LogState
    <3>2. s' \in LogState /\ s'.now = n /\ s'.conf = s.conf /\ s'.since = s.since
          /\ s'.log = s.log /\ s'.logger = s.logger /\ s'.t = s.t
      BY <1>1, <2>1, <2>2 DEF LogState
    <3> QED  BY <3>1, <3>2 DEF n
  <2>3. CASE s' = [s EXCEPT !.now = n, !.overtaken = FALSE] /\ ~s.overtaken /\ ~Logs!Checking
    <3>2. s' \in LogState /\ s'.now = n /\ s'.conf = s.conf /\ s'.since = s.since
          /\ s'.log = s.log /\ s'.logger = s.logger /\ s'.t = s.t
      BY <1>1, <2>1, <2>3 DEF LogState
    <3> QED  BY <2>3, <3>2 DEF n
  <2> QED  BY <1>8, <2>2, <2>3 DEF n
<1>7. ~s'.overtaken => ~s.overtaken /\ \A p \in Threads : s.t[p].pc \notin LogChecks
  BY <1>2 DEF Logs!Checking, LogChecks
<1>3. Least(s') = Least(s) /\ (\A n : LevelRight(s', n) <=> LevelRight(s, n))
      /\ \A when : Late(s', when) => Late(s, when)
  BY <1>2, <1>7 DEF Least, LevelRight, Late
<1>4. ASSUME NEW p \in Threads PROVE CallRight(s', s'.t[p])
  <2>1. CallRight(s, s.t[p]) /\ s.t[p] \in LogCall /\ (~s'.overtaken => s.t[p].pc \notin LogChecks)
    BY <1>1, <1>7 DEF LogInv, LogState
  <2>2. \A k \in Nat : k <= s.now => k <= s'.now
    BY <1>1, <1>2
  <2>3. s.t[p].checked \in Nat /\ s.t[p].stamp \in Nat
    BY <2>1 DEF LogCall
  <2>4. Settled(s') => s.t[p].pc \notin LogChecks
    BY <2>1 DEF Settled
  <2>5. \A when : Late(s', when) => s.t[p].pc \notin LogChecks
    BY <2>1 DEF Late
  <2> QED  BY <1>2, <1>3, <2>1, <2>2, <2>3, <2>4, <2>5 DEF CallRight, LogChecks
<1>5. ASSUME NEW n \in Names PROVE EntryRight(s', n)
  <2>1. EntryRight(s, n) /\ s.logger[n] \in LogEntry
    BY <1>1 DEF LogInv, LogState
  <2> QED  BY <1>1, <1>2, <1>3, <1>7, <2>1 DEF EntryRight, LogEntry
<1>6. ASSUME NEW l \in s'.log PROVE LineRight(s', l)
  <2>1. LineRight(s, l) /\ l \in LogLine
    BY <1>1, <1>2 DEF LogInv, LogState
  <2>3. \A k \in Nat : k <= s.now => k <= s'.now
    BY <1>1, <1>2
  <2>2. l.checked <= s'.now
    BY <2>1, <2>3 DEF LineRight, LogLine
  <2> QED  BY <1>3, <2>1, <2>2 DEF LineRight
<1> QED  BY <1>1, <1>2, <1>4, <1>5, <1>6 DEF LogInv

\* The configuration changes, once: what was checked until now is not late.
LEMMA ConfigureStep ==
  ASSUME LogConstants, LogInv(s), Logs!Configure PROVE LogInv(s')
<1>1. PICK conf \in Configured : s.since = 0 /\ s' = [s EXCEPT !.conf = conf, !.since = s.now]
  BY DEF Logs!Configure
<1>2. s \in LogState /\ s.now \in Nat
  BY DEF LogInv, LogState
<1>3. /\ s' \in LogState /\ s'.now = s.now /\ s'.conf = conf /\ s'.since = s.now
      /\ s'.log = s.log /\ s'.logger = s.logger /\ s'.t = s.t /\ s'.overtaken = s.overtaken
  BY <1>1, <1>2 DEF LogState
<1>4. ~Settled(s') /\ \A when \in Nat : when <= s.now => ~Late(s', when)
  BY <1>2, <1>3 DEF Settled, Late, LogConstants
<1>5. ASSUME NEW p \in Threads PROVE CallRight(s', s'.t[p])
  <2>1. CallRight(s, s.t[p]) /\ s.t[p] \in LogCall
    BY <1>2 DEF LogInv, LogState
  <2>2. ~Late(s', s.t[p].checked)
    BY <1>4, <2>1 DEF CallRight, LogCall
  <2> QED  BY <1>3, <1>4, <2>1, <2>2 DEF CallRight
<1>6. ASSUME NEW n \in Names PROVE EntryRight(s', n)
  <2>1. EntryRight(s, n) /\ s.logger[n] \in LogEntry
    BY <1>2 DEF LogInv, LogState
  <2> QED  BY <1>2, <1>3, <2>1 DEF EntryRight, LogEntry
<1>7. ASSUME NEW l \in s'.log PROVE LineRight(s', l)
  <2>1. LineRight(s, l) /\ l \in LogLine
    BY <1>2, <1>3 DEF LogInv, LogState
  <2>2. ~Late(s', l.checked)
    BY <1>4, <2>1 DEF LineRight, LogLine
  <2> QED  BY <1>3, <2>1, <2>2 DEF LineRight
<1> QED  BY <1>2, <1>3, <1>5, <1>6, <1>7 DEF LogInv

LEMMA LogInvInit ==
  ASSUME LogConstants, Logs!Init PROVE LogInv(s)
<1>1. PICK conf \in Configured :
        s = [now |-> Reload + 1, conf |-> conf, since |-> 0, overtaken |-> FALSE, log |-> {},
             logger |-> [n \in Names |-> [mode |-> "no", level |-> Logs!LEVEL("INFO"), updated |-> 0]],
             t |-> [p \in Threads |-> Logs!Idle]]
  BY DEF Logs!Init
<1>2. Logs!LEVEL("INFO") \in 1..4
  <2>1. Logs!Levels[2] = "INFO" /\ 2 \in 1..4
    BY DEF Logs!Levels
  <2>2. \E i \in 1..4 : Logs!Levels[i] = "INFO"
    BY <2>1
  <2> QED  BY <2>2 DEF Logs!LEVEL
<1>3. Logs!Idle \in LogCall /\ Logs!Idle.pc = "idle" /\ Logs!Idle.checked = 0 /\ Reload + 1 \in Nat /\ 0 <= Reload + 1
  BY DEF Logs!Idle, LogCall, PCs, LogConstants
<1>4. s \in LogState
  <2>1. [mode |-> "no", level |-> Logs!LEVEL("INFO"), updated |-> 0] \in LogEntry
    BY <1>2 DEF LogEntry
  <2>2. /\ [n \in Names |-> [mode |-> "no", level |-> Logs!LEVEL("INFO"), updated |-> 0]]
             \in [Names -> LogEntry]
        /\ [p \in Threads |-> Logs!Idle] \in [Threads -> LogCall]
    BY <1>3, <2>1
  <2> QED  BY <1>1, <1>3, <2>2 DEF LogState
<1>5. s.now = Reload + 1 /\ s.since = 0 /\ s.log = {} /\ (\A p \in Threads : s.t[p] = Logs!Idle)
      /\ \A n \in Names : s.logger[n].updated = 0
  BY <1>1
<1>6. \A p \in Threads : CallRight(s, s.t[p])
  BY <1>3, <1>4, <1>5, IdleRight
<1>7. \A n \in Names : EntryRight(s, n)
  BY <1>3, <1>5 DEF EntryRight
<1> QED  BY <1>3, <1>4, <1>5, <1>6, <1>7 DEF LogInv

LEMMA LogInvNext ==
  ASSUME LogConstants, LogInv(s), [Logs!Next]_s PROVE LogInv(s')
<1>1. ASSUME NEW p \in Threads, Logs!Step(p) PROVE LogInv(s')
  BY <1>1, GetLogStep, CheckStep, ReadStep, SetStep, UpdateStep, MacroStep, PrefixStep,
     NameStep, WriteStep DEF Logs!Step
<1>2. CASE UNCHANGED s
  BY <1>2
<1> QED  BY <1>1, <1>2, TickStep, ConfigureStep DEF Logs!Next

\* logging.cc:108-243: however threads that log re-read the configuration at the same time, a
\* level that has been switched off for longer than Reload leaves no line as long as no check is
\* held up for a second, and no line is ever in the file of a period before its stamp.
THEOREM LinesStayRight ==
  ASSUME LogConstants
  PROVE  Spec => []LinesRight
<1>1. Init => (part = "logs" => LogInv(s))
  BY PartInit, LogInvInit
<1>2. (part = "logs" => LogInv(s)) /\ [Next]_vars => (part = "logs" => LogInv(s))'
  <2>1. SUFFICES ASSUME (part = "logs" => LogInv(s)), [Next]_vars, part' = "logs" PROVE LogInv(s)'
    OBVIOUS
  <2>2. part = "logs" /\ [Logs!Next]_s
    BY <2>1, PartSteps
  <2> QED  BY <2>1, <2>2, LogInvNext
<1>3. (part = "logs" => LogInv(s)) => LinesRight
  BY DEF LinesRight, LogInv, Logs!LinesRight, LineRight, Late, Least
<1> QED  BY <1>1, <1>2, <1>3, PTL DEF Spec
-----------------------------------------------------------------------------
(* The web server.                                                         *)

MessageIds == Nat \ {0}
Answers    == {"called", "404", "large", "file"} \X Nat
Handlers   == [pc : {"idle", "process", "stat", "read", "send", "close"}, msg : Nat,
               path : Paths \cup {""}, want : Nat, answer : Answers \cup {<<>>}]
Commands   == ({"close"} \X Conns) \cup ({"send"} \X Conns \X Paths \X Answers)
WebState   == [reg : SUBSET Paths, size : [Paths -> Nat], changes : Nat, fds : Nat, fresh : MessageIds,
               freed : Seq(MessageIds), message : [Conns -> Nat],
               queue : [Conns -> Seq([msg : MessageIds, path : Paths])], h : [Conns -> Handlers],
               asked : [Conns -> Seq(Paths)], refused : [Conns -> Nat], cmds : Seq(Commands),
               lost : SUBSET Conns, conn : [Conns -> {"no", "open", "closed", "left"}],
               got : [Conns -> Seq(Paths \X Answers)], cut : SUBSET Conns]

\* A handler that is not idle has a request; from "send" on it has an answer.
HandlerRight(r) == /\ r.pc = "idle" <=> r.msg = Web!None
                   /\ r.pc # "idle" => r.path \in Paths
                   /\ r.pc \in {"send", "close"} => r.answer \in Answers
Defined(x) == \A c \in Conns : x.refused[c] = 0
WebType(x) == /\ x \in WebState
              /\ \A c \in Conns : HandlerRight(x.h[c]) /\ (x.conn[c] = "open" <=> x.message[c] # Web!None)

\* Where a message is: freed, or with a connection, in its parser, its queue or its handler.
InFreed(x, m)    == \E i \in 1..Len(x.freed) : x.freed[i] = m
InWork(x, m, c)  == x.message[c] = m
InQueue(x, m, c) == \E i \in 1..Len(x.queue[c]) : x.queue[c][i].msg = m
InHand(x, m, c)  == x.h[c].msg = m
Has(x, m, c)     == InWork(x, m, c) \/ InQueue(x, m, c) \/ InHand(x, m, c)

\* Every message that was made is in one place.
OnePlace(x, m) ==
  /\ m < x.fresh <=> (InFreed(x, m) \/ \E c \in Conns : Has(x, m, c))
  /\ \A c \in Conns : /\ InFreed(x, m) => ~Has(x, m, c)
                      /\ \A d \in Conns : Has(x, m, c) /\ Has(x, m, d) => c = d
                      /\ ~(InWork(x, m, c) /\ InQueue(x, m, c))
                      /\ ~(InWork(x, m, c) /\ InHand(x, m, c))
                      /\ ~(InQueue(x, m, c) /\ InHand(x, m, c))
FreedOnce(x) == \A i, j \in 1..Len(x.freed) : x.freed[i] = x.freed[j] => i = j
QueuedOnce(x, c) == \A i, j \in 1..Len(x.queue[c]) : x.queue[c][i].msg = x.queue[c][j].msg => i = j
MessageInv(x) == /\ FreedOnce(x)
                 /\ \A c \in Conns : QueuedOnce(x, c)
                 /\ \A m \in MessageIds : OnePlace(x, m)

\* The commands for a connection that wait behind the n-th.
NoneFor(q, c, n) == \A i \in n + 1..Len(q) : q[i][2] # c
FirstFor(q, c, n, i) == i \in n + 1..Len(q) /\ q[i][2] = c /\ \A j \in n + 1..i - 1 : q[j][2] # c
\* The next thing that c is told, after the n-th command, is to close; it is the first answer.
CloseNext(x, c, n) == \/ \E i \in 1..Len(x.cmds) : FirstFor(x.cmds, c, n, i) /\ x.cmds[i][1] = "close"
                      \/ NoneFor(x.cmds, c, n) /\ x.h[c].pc = "close"
AnswerNext(x, c) == \E i \in 1..Len(x.cmds) : /\ FirstFor(x.cmds, c, 0, i)
                                              /\ x.cmds[i][1] = "send" /\ x.cmds[i][3] = x.asked[c][1]
                                              /\ CloseNext(x, c, i)
\* Nothing has been sent to c; what is in hand, or the first in the queue, is its first request.
Unanswered(x, c) ==
  /\ NoneFor(x.cmds, c, 0)
  /\ x.h[c].pc # "close"
  /\ IF x.h[c].pc = "idle"
     THEN IF x.queue[c] = <<>> THEN x.asked[c] = <<>> ELSE x.asked[c] # <<>> /\ x.queue[c][1].path = x.asked[c][1]
     ELSE x.asked[c] # <<>> /\ x.h[c].path = x.asked[c][1]
\* It has heard the answer to its first request, or an answer was dropped.
Answered(x, c) == \/ Len(x.got[c]) = 1 /\ x.asked[c] # <<>> /\ x.got[c][1][1] = x.asked[c][1]
                  \/ x.got[c] = <<>> /\ c \in x.lost
Stage(x, c) ==
  /\ x.conn[c] = "no" => Unanswered(x, c) /\ x.asked[c] = <<>> /\ x.h[c].pc = "idle" /\ x.got[c] = <<>>
  /\ x.conn[c] = "open" => \/ Answered(x, c) /\ CloseNext(x, c, 0)
                           \/ x.got[c] = <<>> /\ x.asked[c] # <<>> /\ AnswerNext(x, c)
                           \/ x.got[c] = <<>> /\ Unanswered(x, c)
  /\ x.conn[c] = "closed" => Answered(x, c)
  /\ x.conn[c] = "left" => x.got[c] = <<>> \/ Answered(x, c)

\* An answer with a file, while the files have changed once, has the size of that file.
AnswerRight(x, p, a) == a[1] = "file" => x.changes > 0 /\ (x.changes = 1 => a[2] = x.size[p])
FilesRight(x) ==
  /\ x.changes = 0 => \A p \in Paths : x.size[p] = Web!Absent
  /\ \A c \in Conns : /\ x.h[c].pc = "read" => /\ x.changes > 0
                                               /\ x.changes = 1 => /\ x.h[c].want = x.size[x.h[c].path]
                                                                   /\ x.h[c].want \in 1..MAX_BODY_SIZE
                      /\ x.h[c].pc \in {"send", "close"} => AnswerRight(x, x.h[c].path, x.h[c].answer)
                      /\ \A i \in 1..Len(x.got[c]) : AnswerRight(x, x.got[c][i][1], x.got[c][i][2])
  /\ \A i \in 1..Len(x.cmds) : x.cmds[i][1] = "send" => AnswerRight(x, x.cmds[i][3], x.cmds[i][4])
AnswerInv(x) == (\A c \in Conns : Stage(x, c)) /\ FilesRight(x)

-----------------------------------------------------------------------------
\* What the actions change, field by field.

Others(x, y, c) == \A d \in Conns : d # c => /\ y.message[d] = x.message[d] /\ y.queue[d] = x.queue[d]
                                             /\ y.h[d] = x.h[d] /\ y.asked[d] = x.asked[d]
                                             /\ y.conn[d] = x.conn[d] /\ y.got[d] = x.got[d]
                                             /\ d \in y.lost <=> d \in x.lost

LEMMA WebInit ==
  ASSUME Web!Init PROVE WebType(s)
<1>1. s \in WebState
  <2>1. Web!NotOpen \in Handlers
    BY DEF Web!NotOpen, Handlers, Web!None
  <2>2. s = [reg |-> s.reg, size |-> s.size, changes |-> s.changes, fds |-> s.fds, fresh |-> s.fresh,
             freed |-> s.freed, message |-> s.message, queue |-> s.queue, h |-> s.h, asked |-> s.asked,
             refused |-> s.refused, cmds |-> s.cmds, lost |-> s.lost, conn |-> s.conn, got |-> s.got,
             cut |-> s.cut]
    BY DEF Web!Init
  <2>3. /\ s.reg = {} /\ s.changes = 0 /\ s.fds = 0 /\ s.fresh = 1 /\ s.freed = <<>> /\ s.cmds = <<>>
        /\ s.lost = {} /\ s.cut = {}
        /\ s.size = [p \in Paths |-> 0] /\ s.message = [c \in Conns |-> 0] /\ s.queue = [c \in Conns |-> <<>>]
        /\ s.h = [c \in Conns |-> Web!NotOpen] /\ s.asked = [c \in Conns |-> <<>>]
        /\ s.refused = [c \in Conns |-> 0] /\ s.conn = [c \in Conns |-> "no"] /\ s.got = [c \in Conns |-> <<>>]
    BY DEF Web!Init, Web!None, Web!Absent
  <2>4. s.h \in [Conns -> Handlers]
    BY <2>1, <2>3
  <2>5. /\ s.size \in [Paths -> Nat] /\ s.message \in [Conns -> Nat] /\ s.refused \in [Conns -> Nat]
        /\ s.queue \in [Conns -> Seq([msg : MessageIds, path : Paths])]
        /\ s.asked \in [Conns -> Seq(Paths)] /\ s.conn \in [Conns -> {"no", "open", "closed", "left"}]
        /\ s.got \in [Conns -> Seq(Paths \X Answers)]
    BY <2>3
  <2>6. /\ s.reg \in SUBSET Paths /\ s.changes \in Nat /\ s.fds \in Nat /\ s.fresh \in MessageIds
        /\ s.freed \in Seq(MessageIds) /\ s.cmds \in Seq(Commands)
        /\ s.lost \in SUBSET Conns /\ s.cut \in SUBSET Conns
    BY <2>3 DEF MessageIds
  <2> QED  BY ONLY <2>2, <2>4, <2>5, <2>6 DEF WebState
<1>2. \A c \in Conns : s.h[c] = Web!NotOpen /\ s.message[c] = Web!None /\ s.conn[c] = "no"
  BY DEF Web!Init
<1>3. HandlerRight(Web!NotOpen)
  BY DEF HandlerRight, Web!NotOpen
<1>4. \A c \in Conns : s.conn[c] # "open"
  BY <1>2
<1> QED  BY <1>1, <1>2, <1>3, <1>4 DEF WebType

LEMMA FilesStep ==
  ASSUME WebType(s), NEW p \in Paths, Web!RegisterProcessor(p) \/ Web!Change(p), MaxSize \in Nat
  PROVE  /\ WebType(s')
         /\ s'.fresh = s.fresh /\ s'.freed = s.freed /\ s'.message = s.message /\ s'.queue = s.queue
         /\ s'.h = s.h /\ s'.asked = s.asked /\ s'.cmds = s.cmds /\ s'.conn = s.conn /\ s'.got = s.got
         /\ s'.lost = s.lost
         /\ \/ s'.changes = s.changes /\ s'.size = s.size
            \/ s'.changes = s.changes + 1
<1>0. s \in WebState
  BY DEF WebType
<1>1. CASE Web!RegisterProcessor(p)
  <2>1. s' = [s EXCEPT !.reg = @ \cup {p}]
    BY <1>1 DEF Web!RegisterProcessor
  <2>2. s' \in WebState
    BY <1>0, <2>1 DEF WebState
  <2> QED  BY <1>0, <2>1, <2>2 DEF WebType, WebState
<1>2. CASE Web!Change(p)
  <2>1. PICK n \in 0..MaxSize : s' = [s EXCEPT !.size[p] = n, !.changes = @ + 1]
    BY <1>2 DEF Web!Change
  <2>2. n \in Nat
    BY <2>1
  <2> DEFINE A == [s.size EXCEPT ![p] = n]
  <2>3. s' \in WebState
    <3>1. A \in [Paths -> Nat] /\ s.changes + 1 \in Nat
      BY <1>0, <2>2 DEF WebState
    <3>2. s' = [s EXCEPT !.size = A, !.changes = s.changes + 1]
      BY <2>1
    <3> HIDE DEF A
    <3> QED  BY <1>0, <3>1, <3>2 DEF WebState
  <2> QED  BY <1>0, <2>1, <2>3 DEF WebType, WebState
<1> QED  BY <1>1, <1>2

LEMMA CreateStep ==
  ASSUME WebType(s), NEW c \in Conns, Web!CreateConnectorCB(c)
  PROVE  /\ WebType(s') /\ Others(s, s', c)
         /\ s.conn[c] = "no" /\ s'.conn[c] = "open" /\ s'.message[c] = s.fresh /\ s'.fresh = s.fresh + 1
         /\ s'.freed = s.freed /\ s'.queue = s.queue /\ s'.h = s.h /\ s'.asked = s.asked
         /\ s'.cmds = s.cmds /\ s'.got = s.got /\ s'.changes = s.changes /\ s'.size = s.size
         /\ s'.lost = s.lost
<1>0. s \in WebState
  BY DEF WebType
<1>1. s.conn[c] = "no" /\ s' = [s EXCEPT !.conn[c] = "open", !.message[c] = s.fresh, !.fresh = @ + 1]
  BY DEF Web!CreateConnectorCB
<1>2. s' \in WebState
  <2> DEFINE A == [s.conn EXCEPT ![c] = "open"]
             B == [s.message EXCEPT ![c] = s.fresh]
  <2>1. /\ A \in [Conns -> {"no", "open", "closed", "left"}] /\ B \in [Conns -> Nat]
        /\ s.fresh + 1 \in MessageIds
    BY <1>0 DEF WebState, MessageIds
  <2>2. s' = [s EXCEPT !.conn = A, !.message = B, !.fresh = s.fresh + 1]
    BY <1>1
  <2> HIDE DEF A, B
  <2> QED  BY <1>0, <2>1, <2>2 DEF WebState
<1>3. /\ s'.conn = [s.conn EXCEPT ![c] = "open"] /\ s'.message = [s.message EXCEPT ![c] = s.fresh]
      /\ s'.fresh = s.fresh + 1 /\ s'.freed = s.freed /\ s'.queue = s.queue /\ s'.h = s.h
      /\ s'.asked = s.asked /\ s'.cmds = s.cmds /\ s'.got = s.got /\ s'.changes = s.changes /\ s'.size = s.size
      /\ s'.lost = s.lost
  BY <1>0, <1>1 DEF WebState
<1>4. s.conn \in [Conns -> {"no", "open", "closed", "left"}] /\ s.message \in [Conns -> Nat] /\ s.fresh # Web!None
  BY <1>0 DEF WebState, MessageIds, Web!None
<1>5. Others(s, s', c) /\ s'.conn[c] = "open" /\ s'.message[c] = s.fresh
  BY <1>3, <1>4 DEF Others
<1>6. \A d \in Conns : HandlerRight(s'.h[d]) /\ (s'.conn[d] = "open" <=> s'.message[d] # Web!None)
  BY <1>3, <1>4, <1>5 DEF Others, WebType
<1> QED  BY <1>1, <1>2, <1>3, <1>5, <1>6 DEF WebType

LEMMA ParseStep ==
  ASSUME WebType(s), NEW c \in Conns, NEW p \in Paths, Web!Parse(c, p)
  PROVE  /\ WebType(s') /\ Others(s, s', c)
         /\ s.conn[c] = "open" /\ s'.conn = s.conn /\ s'.message[c] = s.fresh /\ s'.fresh = s.fresh + 1
         /\ s'.h = s.h /\ s'.cmds = s.cmds /\ s'.got = s.got /\ s'.changes = s.changes /\ s'.size = s.size
         /\ s'.lost = s.lost
         /\ \/ /\ s'.queue[c] = Append(s.queue[c], [msg |-> s.message[c], path |-> p])
               /\ s'.asked[c] = Append(s.asked[c], p) /\ s'.freed = s.freed
            \/ s'.queue = s.queue /\ s'.asked = s.asked /\ ~Defined(s')
<1>0. s \in WebState
  BY DEF WebType
<1> DEFINE r == [msg |-> s.message[c], path |-> p]
           B == [s.message EXCEPT ![c] = s.fresh]
           Q == [s.queue EXCEPT ![c] = Append(@, r)]
           A == [s.asked EXCEPT ![c] = Append(@, p)]
           N == [s.refused EXCEPT ![c] = @ + 1]
           F == s.freed \o <<s.message[c], s.message[c]>>
           x == [s EXCEPT !.message[c] = s.fresh, !.fresh = @ + 1]
<1>1. s.conn[c] = "open" /\ s.message[c] \in MessageIds
  BY <1>0 DEF Web!Parse, WebType, WebState, MessageIds, Web!None
<1>2. /\ s.fresh \in MessageIds /\ s.message \in [Conns -> Nat]
      /\ s.queue \in [Conns -> Seq([msg : MessageIds, path : Paths])]
      /\ s.asked \in [Conns -> Seq(Paths)] /\ s.refused \in [Conns -> Nat] /\ s.freed \in Seq(MessageIds)
  BY <1>0 DEF WebState
<1>3. r \in [msg : MessageIds, path : Paths]
  BY <1>1
<1>4. B \in [Conns -> Nat] /\ B[c] = s.fresh /\ s.fresh + 1 \in MessageIds
  BY <1>2 DEF MessageIds
<1>5. Q \in [Conns -> Seq([msg : MessageIds, path : Paths])] /\ Q[c] = Append(s.queue[c], r)
  <2>1. s.queue[c] \in Seq([msg : MessageIds, path : Paths])
    BY <1>2
  <2> HIDE DEF r
  <2>2. Append(s.queue[c], r) \in Seq([msg : MessageIds, path : Paths])
    BY <1>3, <2>1
  <2> QED  BY <1>2, <2>2
<1>6. A \in [Conns -> Seq(Paths)] /\ A[c] = Append(s.asked[c], p)
  BY <1>2
<1>7. N \in [Conns -> Nat] /\ F \in Seq(MessageIds) /\ N[c] # 0
  BY <1>1, <1>2
<1>8. \/ s' = [x EXCEPT !.queue[c] = Append(@, r), !.asked[c] = Append(@, p)]
      \/ s' = [x EXCEPT !.freed = @ \o <<s.message[c], s.message[c]>>, !.refused[c] = @ + 1]
  BY DEF Web!Parse
<1>9. \/ s' = [s EXCEPT !.message = B, !.fresh = s.fresh + 1, !.queue = Q, !.asked = A]
      \/ s' = [s EXCEPT !.message = B, !.fresh = s.fresh + 1, !.freed = F, !.refused = N]
  BY <1>0, <1>8 DEF WebState
<1>10. \A d \in Conns : d # c => B[d] = s.message[d] /\ Q[d] = s.queue[d] /\ A[d] = s.asked[d]
  BY <1>2
<1> HIDE DEF A, B, Q, N, F, x, r
<1>11. s' \in WebState
  <2>1. CASE s' = [s EXCEPT !.message = B, !.fresh = s.fresh + 1, !.queue = Q, !.asked = A]
    BY ONLY <1>0, <1>4, <1>5, <1>6, <2>1 DEF WebState
  <2>2. CASE s' = [s EXCEPT !.message = B, !.fresh = s.fresh + 1, !.freed = F, !.refused = N]
    BY ONLY <1>0, <1>4, <1>7, <2>2 DEF WebState
  <2> QED  BY <1>9, <2>1, <2>2
<1>12. /\ s'.conn = s.conn /\ s'.message = B /\ s'.fresh = s.fresh + 1
       /\ s'.h = s.h /\ s'.cmds = s.cmds /\ s'.got = s.got /\ s'.changes = s.changes /\ s'.size = s.size
       /\ s'.lost = s.lost
       /\ \/ s'.queue = Q /\ s'.asked = A /\ s'.freed = s.freed
          \/ s'.queue = s.queue /\ s'.asked = s.asked /\ s'.refused = N
  BY <1>0, <1>9 DEF WebState
<1>13. Others(s, s', c)
  BY <1>10, <1>12 DEF Others
<1>14. \A d \in Conns : HandlerRight(s'.h[d]) /\ (s'.conn[d] = "open" <=> s'.message[d] # Web!None)
  <2>1. B[c] # Web!None
    BY <1>2, <1>4 DEF MessageIds, Web!None
  <2> QED  BY <1>1, <1>10, <1>12, <2>1 DEF WebType
<1>15. WebType(s')
  BY <1>11, <1>14 DEF WebType
<1> QED  BY <1>1, <1>4, <1>5, <1>6, <1>7, <1>12, <1>13, <1>15 DEF Defined, r

\* A connection is closed: its parser's message is freed.
Closing(x, y, c, how) ==
  /\ Others(x, y, c)
  /\ x.conn[c] = "open" /\ y.conn[c] = how
  /\ y.freed = Append(x.freed, x.message[c]) /\ y.message[c] = Web!None
  /\ y.fresh = x.fresh /\ y.queue = x.queue /\ y.h = x.h /\ y.asked = x.asked
  /\ y.got = x.got /\ y.changes = x.changes /\ y.size = x.size /\ y.lost = x.lost

LEMMA CloseIs ==
  ASSUME WebType(s), NEW c \in Conns, s.conn[c] = "open", NEW how \in {"closed", "left"},
         NEW q \in Seq(Commands),
         s' = [s EXCEPT !.conn = [@ EXCEPT ![c] = how], !.freed = Append(@, s.message[c]),
                        !.message = [@ EXCEPT ![c] = Web!None], !.cmds = q]
  PROVE  WebType(s') /\ Closing(s, s', c, how) /\ s'.cmds = q
<1>0. s \in WebState
  BY DEF WebType
<1> DEFINE A == [s.conn EXCEPT ![c] = how]
           B == [s.message EXCEPT ![c] = Web!None]
           F == Append(s.freed, s.message[c])
<1>1. s.message[c] \in MessageIds
  BY <1>0 DEF WebType, WebState, MessageIds, Web!None
<1>2. /\ s.message \in [Conns -> Nat] /\ s.conn \in [Conns -> {"no", "open", "closed", "left"}]
      /\ s.freed \in Seq(MessageIds)
  BY <1>0 DEF WebState
<1>3. A \in [Conns -> {"no", "open", "closed", "left"}] /\ A[c] = how /\ B \in [Conns -> Nat] /\ B[c] = Web!None
  BY <1>2 DEF Web!None
<1>4. F \in Seq(MessageIds)
  BY <1>1, <1>2
<1>5. \A d \in Conns : d # c => A[d] = s.conn[d] /\ B[d] = s.message[d]
  BY <1>2
<1>6. s' = [s EXCEPT !.conn = A, !.freed = F, !.message = B, !.cmds = q]
  OBVIOUS
<1> HIDE DEF A, B, F
<1>7. s' \in WebState
  BY ZenonT(30), <1>0, <1>3, <1>4, <1>6 DEF WebState
<1>8. /\ s'.conn = A /\ s'.freed = F /\ s'.message = B /\ s'.cmds = q /\ s'.fresh = s.fresh /\ s'.queue = s.queue
      /\ s'.h = s.h /\ s'.asked = s.asked /\ s'.got = s.got /\ s'.changes = s.changes /\ s'.size = s.size
      /\ s'.lost = s.lost
  BY <1>0, <1>6 DEF WebState
<1>9. Others(s, s', c)
  BY <1>5, <1>8 DEF Others
<1>10. \A d \in Conns : HandlerRight(s'.h[d]) /\ (s'.conn[d] = "open" <=> s'.message[d] # Web!None)
  <2>1. A[c] # "open"
    BY <1>3
  <2> QED  BY <1>3, <1>5, <1>8, <2>1 DEF WebType
<1>11. WebType(s')
  BY <1>7, <1>10 DEF WebType
<1> QED  BY <1>3, <1>8, <1>9, <1>11 DEF Closing, F

LEMMA PeerStep ==
  ASSUME WebType(s), NEW c \in Conns, Web!PeerCloses(c)
  PROVE  WebType(s') /\ Closing(s, s', c, "left") /\ s'.cmds = s.cmds
<1>0. s \in WebState
  BY DEF WebType
<1>1. s.conn[c] = "open" /\ s' = [Web!ClosedConnectCB(c) EXCEPT !.conn[c] = "left"]
  BY DEF Web!PeerCloses
<1>2. s' = [s EXCEPT !.conn = [@ EXCEPT ![c] = "left"], !.freed = Append(@, s.message[c]),
                     !.message = [@ EXCEPT ![c] = Web!None], !.cmds = s.cmds]
  BY <1>0, <1>1 DEF Web!ClosedConnectCB, WebState
<1>3. s.cmds \in Seq(Commands)
  BY <1>0 DEF WebState
<1> QED  BY <1>1, <1>2, <1>3, CloseIs

\* A step of c's handler.
Handling(x, y, c) ==
  /\ \A d \in Conns : d # c => y.h[d] = x.h[d] /\ (d \in y.lost <=> d \in x.lost)
  /\ c \in x.lost => c \in y.lost
  /\ y.fresh = x.fresh /\ y.message = x.message /\ y.asked = x.asked
  /\ y.conn = x.conn /\ y.got = x.got /\ y.changes = x.changes /\ y.size = x.size

HandledAs(x, c, r, n, Q, q, F) ==
  [x EXCEPT !.h = [@ EXCEPT ![c] = r], !.fds = n, !.queue = Q, !.cmds = q, !.freed = F]

LEMMA HandlerIs ==
  ASSUME WebType(s), NEW c \in Conns, NEW r \in Handlers, HandlerRight(r), NEW n \in Nat,
         NEW Q \in [Conns -> Seq([msg : MessageIds, path : Paths])], NEW q \in Seq(Commands),
         NEW F \in Seq(MessageIds),
         s' = HandledAs(s, c, r, n, Q, q, F)
  PROVE  /\ WebType(s') /\ Handling(s, s', c) /\ s'.h[c] = r /\ s'.queue = Q /\ s'.cmds = q
         /\ s'.freed = F
<1>0. s \in WebState
  BY DEF WebType
<1> DEFINE H == [s.h EXCEPT ![c] = r]
<1>1. H \in [Conns -> Handlers] /\ H[c] = r /\ \A d \in Conns : d # c => H[d] = s.h[d]
  BY <1>0 DEF WebState
<1>2. s' = [s EXCEPT !.h = H, !.fds = n, !.queue = Q, !.cmds = q, !.freed = F]
  BY DEF HandledAs
<1> HIDE DEF H
<1>3. s' \in WebState
  BY ONLY <1>0, <1>1, <1>2, n \in Nat, Q \in [Conns -> Seq([msg : MessageIds, path : Paths])],
          q \in Seq(Commands), F \in Seq(MessageIds) DEF WebState
<1>4. /\ s'.h = H /\ s'.queue = Q /\ s'.cmds = q /\ s'.freed = F /\ s'.fresh = s.fresh /\ s'.message = s.message
      /\ s'.asked = s.asked /\ s'.conn = s.conn /\ s'.got = s.got /\ s'.changes = s.changes /\ s'.size = s.size
      /\ s'.lost = s.lost
  BY <1>0, <1>2 DEF WebState
<1>5. \A d \in Conns : HandlerRight(s'.h[d]) /\ (s'.conn[d] = "open" <=> s'.message[d] # Web!None)
  BY <1>1, <1>4 DEF WebType
<1>6. WebType(s')
  BY <1>3, <1>5 DEF WebType
<1> QED  BY <1>1, <1>4, <1>6 DEF Handling

\* The fields of a state that a handler's step may change.
LEMMA HandlerFields ==
  ASSUME WebType(s), NEW c \in Conns
  PROVE  /\ s.h[c] \in Handlers /\ HandlerRight(s.h[c]) /\ s.fds \in Nat /\ s.cmds \in Seq(Commands)
         /\ s.queue \in [Conns -> Seq([msg : MessageIds, path : Paths])] /\ s.freed \in Seq(MessageIds)
  BY DEF WebType, WebState

LEMMA FrontOf ==
  ASSUME NEW S, NEW q \in Seq(S), q # <<>>
  PROVE  /\ Head(q) = q[1] /\ q[1] \in S /\ Tail(q) \in Seq(S) /\ Len(q) >= 1
         /\ Len(Tail(q)) = Len(q) - 1 /\ \A i \in 1..Len(q) - 1 : Tail(q)[i] = q[i + 1]
  OBVIOUS

LEMMA TakeStep ==
  ASSUME WebType(s), NEW c \in Conns, Web!Take(c)
  PROVE  /\ WebType(s') /\ Handling(s, s', c) /\ s'.cmds = s.cmds /\ s'.freed = s.freed
         /\ s.h[c].pc = "idle" /\ s.h[c].msg = Web!None /\ s.queue[c] # <<>>
         /\ s'.h[c].pc = "process" /\ s'.h[c].msg = s.queue[c][1].msg /\ s'.h[c].path = s.queue[c][1].path
         /\ s'.queue[c] = Tail(s.queue[c]) /\ \A d \in Conns : d # c => s'.queue[d] = s.queue[d]
<1>0. s \in WebState
  BY DEF WebType
<1>1. s.queue[c] \in Seq([msg : MessageIds, path : Paths]) /\ s.queue[c] # <<>> /\ s.h[c].pc = "idle"
  BY <1>0 DEF WebState, Web!Take
<1>2. /\ Head(s.queue[c]) = s.queue[c][1] /\ s.queue[c][1] \in [msg : MessageIds, path : Paths]
      /\ Tail(s.queue[c]) \in Seq([msg : MessageIds, path : Paths])
  BY <1>1, FrontOf
<1> DEFINE r == [Web!NotOpen EXCEPT !.pc = "process", !.msg = s.queue[c][1].msg, !.path = s.queue[c][1].path]
           Q == [s.queue EXCEPT ![c] = Tail(@)]
<1>3. s' = [s EXCEPT !.h[c] = r, !.queue[c] = Tail(@)]
  BY <1>2 DEF Web!Take
<1>4. Web!NotOpen \in Handlers
  BY DEF Web!NotOpen, Handlers, Web!None
<1>5. r \in Handlers /\ HandlerRight(r) /\ r.pc = "process" /\ r.msg = s.queue[c][1].msg /\ r.path = s.queue[c][1].path
  <2>1. s.queue[c][1].msg \in MessageIds /\ s.queue[c][1].path \in Paths
    BY <1>2
  <2>2. r \in Handlers /\ r.pc = "process" /\ r.msg = s.queue[c][1].msg /\ r.path = s.queue[c][1].path
    BY <1>4, <2>1 DEF Handlers, MessageIds
  <2> QED  BY <2>1, <2>2 DEF HandlerRight, MessageIds, Web!None
<1>6. /\ Q \in [Conns -> Seq([msg : MessageIds, path : Paths])] /\ Q[c] = Tail(s.queue[c])
      /\ \A d \in Conns : d # c => Q[d] = s.queue[d]
  <2>2. s.queue \in [Conns -> Seq([msg : MessageIds, path : Paths])]
    BY HandlerFields
  <2> QED  BY <1>2, <2>2
<1>7. s' = HandledAs(s, c, r, s.fds, Q, s.cmds, s.freed)
  BY <1>0, <1>3 DEF WebState, HandledAs
<1>8. s.h[c].msg = Web!None
  BY <1>1, HandlerFields DEF HandlerRight
<1> HIDE DEF r, Q
<1>9. /\ WebType(s') /\ Handling(s, s', c) /\ s'.h[c] = r /\ s'.queue = Q /\ s'.cmds = s.cmds
      /\ s'.freed = s.freed
  <2>1. s.fds \in Nat /\ s.cmds \in Seq(Commands) /\ s.freed \in Seq(MessageIds)
    BY HandlerFields
  <2>2. r \in Handlers /\ HandlerRight(r)
    BY <1>5
  <2>3. Q \in [Conns -> Seq([msg : MessageIds, path : Paths])]
    BY <1>6
  <2> QED  BY ONLY WebType(s), c \in Conns, <1>7, <2>1, <2>2, <2>3, HandlerIs
<1> QED  BY <1>1, <1>5, <1>6, <1>8, <1>9

\* The steps from a request to its answer.
Works(x, y, c) ==
  /\ Handling(x, y, c) /\ y.queue = x.queue /\ y.cmds = x.cmds /\ y.freed = x.freed
  /\ x.h[c].pc \in {"process", "stat", "read"} /\ y.h[c].pc \in {"stat", "read", "send"}
  /\ y.h[c].msg = x.h[c].msg /\ y.h[c].path = x.h[c].path

WorkAs(x, c, r, n) == [x EXCEPT !.h = [@ EXCEPT ![c] = r], !.fds = n]

LEMMA WorkIs ==
  ASSUME WebType(s), NEW c \in Conns, s.h[c].pc \in {"process", "stat", "read"},
         NEW r \in Handlers, r.pc \in {"stat", "read", "send"}, r.msg = s.h[c].msg, r.path = s.h[c].path,
         r.pc = "send" => r.answer \in Answers, NEW n \in Nat,
         s' = WorkAs(s, c, r, n)
  PROVE  WebType(s') /\ Works(s, s', c) /\ s'.h[c] = r
<1>1. s.h[c].msg # Web!None /\ s.h[c].path \in Paths
  BY HandlerFields DEF HandlerRight
<1>2. HandlerRight(r)
  BY <1>1 DEF HandlerRight
<1>3. s' = HandledAs(s, c, r, n, s.queue, s.cmds, s.freed)
  BY DEF WebType, WebState, HandledAs, WorkAs
<1>4. /\ WebType(s') /\ Handling(s, s', c) /\ s'.h[c] = r /\ s'.queue = s.queue /\ s'.cmds = s.cmds
      /\ s'.freed = s.freed
  <2>1. /\ s.cmds \in Seq(Commands) /\ s.freed \in Seq(MessageIds)
        /\ s.queue \in [Conns -> Seq([msg : MessageIds, path : Paths])]
    BY HandlerFields
  <2> QED  BY ONLY WebType(s), c \in Conns, r \in Handlers, n \in Nat, <1>2, <1>3, <2>1, HandlerIs
<1> QED  BY <1>4 DEF Works

\* An answer that is ready to be sent.
LEMMA AnswerIs ==
  ASSUME WebType(s), NEW c \in Conns, s.h[c].pc \in {"process", "stat", "read"},
         NEW status \in {"called", "404", "large", "file"}, NEW n \in Nat,
         NEW k \in Nat, s' = WorkAs(s, c, Web!Answer(c, status, n), k)
  PROVE  /\ WebType(s') /\ Works(s, s', c) /\ s'.h[c].pc = "send"
         /\ s'.h[c].answer[1] = status /\ s'.h[c].answer[2] = n
<1> DEFINE r == Web!Answer(c, status, n)
           a == <<status, n>>
<1>1. s.h[c] \in Handlers
  BY HandlerFields
<1>2. a \in Answers /\ a[1] = status /\ a[2] = n
  BY DEF Answers
<1>3. r = [s.h[c] EXCEPT !.pc = "send", !.answer = a]
  BY DEF Web!Answer
<1> HIDE DEF a
<1>4. /\ r \in Handlers /\ r.pc = "send" /\ r.answer = a
      /\ r.msg = s.h[c].msg /\ r.path = s.h[c].path
  BY <1>1, <1>2, <1>3 DEF Handlers
<1>5. s' = WorkAs(s, c, r, k)
  OBVIOUS
<1> HIDE DEF r
<1>6. WebType(s') /\ Works(s, s', c) /\ s'.h[c] = r
  <2>1. r.pc \in {"stat", "read", "send"} /\ (r.pc = "send" => r.answer \in Answers)
    BY <1>2, <1>4
  <2> QED  BY ONLY WebType(s), c \in Conns, s.h[c].pc \in {"process", "stat", "read"}, k \in Nat,
                   <1>4, <1>5, <2>1, WorkIs
<1> QED  BY <1>2, <1>4, <1>6

\* What the answer says of a file.
Told(x, y, c) ==
  LET size == x.size[x.h[c].path]
  IN /\ y.h[c].pc = "read" => y.h[c].want = size /\ size \in 1..MAX_BODY_SIZE
     /\ y.h[c].pc = "send" /\ y.h[c].answer[1] = "file" =>
          /\ x.h[c].pc = "read"
          /\ x.h[c].want = size /\ size \in 1..MAX_BODY_SIZE => y.h[c].answer[2] = size

LEMMA ProcessStep ==
  ASSUME WebType(s), NEW c \in Conns, Web!process(c)
  PROVE  WebType(s') /\ Works(s, s', c) /\ Told(s, s', c)
<1>0. s \in WebState /\ s.h[c] \in Handlers /\ s.fds \in Nat
  BY HandlerFields DEF WebType
<1>1. s.h[c].pc = "process"
  BY DEF Web!process
<1> DEFINE p == s.h[c].path
<1>2. CASE p \in s.reg
  <2>1. s' = [s EXCEPT !.h[c] = Web!Answer(c, "called", 0)]
    BY <1>2 DEF Web!process
  <2>2. s' = WorkAs(s, c, Web!Answer(c, "called", 0), s.fds)
    BY <1>0, <2>1 DEF WorkAs, WebState
  <2>3. WebType(s') /\ Works(s, s', c) /\ s'.h[c].pc = "send" /\ s'.h[c].answer[1] = "called"
    BY <1>0, <1>1, <2>2, AnswerIs
  <2> QED  BY <2>3 DEF Told
<1>3. CASE p \notin s.reg /\ (s.size[p] = Web!Absent \/ s.fds = MaxFds)
  <2>1. s' = [s EXCEPT !.h[c] = Web!Answer(c, "404", 0)]
    BY <1>3 DEF Web!process
  <2>2. s' = WorkAs(s, c, Web!Answer(c, "404", 0), s.fds)
    BY <1>0, <2>1 DEF WorkAs, WebState
  <2>3. WebType(s') /\ Works(s, s', c) /\ s'.h[c].pc = "send" /\ s'.h[c].answer[1] = "404"
    BY <1>0, <1>1, <2>2, AnswerIs
  <2> QED  BY <2>3 DEF Told
<1>4. CASE p \notin s.reg /\ ~(s.size[p] = Web!Absent \/ s.fds = MaxFds)
  <2>1. s' = [s EXCEPT !.fds = @ + 1, !.h[c].pc = "stat"]
    BY <1>4 DEF Web!process
  <2> DEFINE r == [s.h[c] EXCEPT !.pc = "stat"]
  <2>2. s' = WorkAs(s, c, r, s.fds + 1)
    BY <1>0, <2>1 DEF WorkAs, WebState
  <2>3. r \in Handlers /\ r.pc = "stat" /\ r.msg = s.h[c].msg /\ r.path = s.h[c].path
    BY <1>0 DEF Handlers
  <2> HIDE DEF r
  <2>4. WebType(s') /\ Works(s, s', c) /\ s'.h[c] = r
    BY <1>0, <1>1, <2>2, <2>3, WorkIs
  <2> QED  BY <2>3, <2>4 DEF Told
<1> QED  BY <1>2, <1>3, <1>4

LEMMA StatStep ==
  ASSUME WebType(s), MAX_BODY_SIZE \in Nat, NEW c \in Conns, Web!Stat(c)
  PROVE  WebType(s') /\ Works(s, s', c) /\ Told(s, s', c)
<1>0. s \in WebState /\ s.h[c] \in Handlers /\ s.fds \in Nat
  BY HandlerFields DEF WebType
<1>1. s.h[c].pc = "stat"
  BY DEF Web!Stat
<1> DEFINE n == s.size[s.h[c].path]
<1>2. n \in Nat
  BY <1>0, <1>1, HandlerFields DEF WebState, HandlerRight
<1>3. CASE n = Web!Absent
  <2>1. s' = [s EXCEPT !.h[c] = Web!Answer(c, "404", 0)]
    BY <1>3 DEF Web!Stat
  <2>2. s' = WorkAs(s, c, Web!Answer(c, "404", 0), s.fds)
    BY <1>0, <2>1 DEF WorkAs, WebState
  <2>3. WebType(s') /\ Works(s, s', c) /\ s'.h[c].pc = "send" /\ s'.h[c].answer[1] = "404"
    BY <1>0, <1>1, <2>2, AnswerIs
  <2> QED  BY <2>3 DEF Told
<1>4. CASE n # Web!Absent /\ n > MAX_BODY_SIZE
  <2>1. s' = [s EXCEPT !.h[c] = Web!Answer(c, "large", 0)]
    BY <1>4 DEF Web!Stat
  <2>2. s' = WorkAs(s, c, Web!Answer(c, "large", 0), s.fds)
    BY <1>0, <2>1 DEF WorkAs, WebState
  <2>3. WebType(s') /\ Works(s, s', c) /\ s'.h[c].pc = "send" /\ s'.h[c].answer[1] = "large"
    BY <1>0, <1>1, <2>2, AnswerIs
  <2> QED  BY <2>3 DEF Told
<1>5. CASE n # Web!Absent /\ ~(n > MAX_BODY_SIZE)
  <2>1. s' = [s EXCEPT !.h[c].pc = "read", !.h[c].want = n]
    BY <1>5 DEF Web!Stat
  <2> DEFINE r == [s.h[c] EXCEPT !.pc = "read", !.want = n]
  <2>2. s' = WorkAs(s, c, r, s.fds)
    BY <1>0, <2>1 DEF WorkAs, WebState
  <2>3. r \in Handlers /\ r.pc = "read" /\ r.msg = s.h[c].msg /\ r.path = s.h[c].path /\ r.want = n
    BY <1>0, <1>2 DEF Handlers
  <2> HIDE DEF r
  <2>4. WebType(s') /\ Works(s, s', c) /\ s'.h[c] = r
    BY <1>0, <1>1, <2>2, <2>3, WorkIs
  <2>5. n \in 1..MAX_BODY_SIZE
    BY <1>2, <1>5 DEF Web!Absent
  <2> QED  BY <2>3, <2>4, <2>5 DEF Told
<1> QED  BY <1>3, <1>4, <1>5

LEMMA FileReadStep ==
  ASSUME WebType(s), MAX_BODY_SIZE \in Nat, MaxSize \in Nat, NEW c \in Conns, Web!Read(c)
  PROVE  WebType(s') /\ Works(s, s', c) /\ Told(s, s', c)
<1>0. s \in WebState /\ s.h[c] \in Handlers /\ s.fds \in Nat
  BY HandlerFields DEF WebType
<1>1. s.h[c].pc = "read"
  BY DEF Web!Read
<1> DEFINE size == s.size[s.h[c].path]
           want == s.h[c].want
<1>2. size \in Nat /\ want \in Nat
  BY <1>0, <1>1, HandlerFields DEF WebState, HandlerRight, Handlers
<1>3. PICK now \in IF size = Web!Absent THEN 1..MaxSize ELSE {size} :
        s' = [s EXCEPT !.h[c] = Web!Answer(c, "file",
                IF (IF now < want + 1 THEN now ELSE want + 1) > MAX_BODY_SIZE THEN 0
                ELSE (IF now < want + 1 THEN now ELSE want + 1))]
  BY DEF Web!Read
<1> DEFINE n == IF now < want + 1 THEN now ELSE want + 1
           k == IF n > MAX_BODY_SIZE THEN 0 ELSE n
<1>4. now \in Nat /\ (size # 0 => now = size)
  BY <1>2, <1>3 DEF Web!Absent
<1>5. k \in Nat /\ (want = size /\ size \in 1..MAX_BODY_SIZE => k = size)
  <2> HIDE DEF size, want
  <2> QED  BY <1>2, <1>4
<1>6. s' = [s EXCEPT !.h[c] = Web!Answer(c, "file", k)]
  BY <1>3
<1> HIDE DEF k, size, want
<1>7. s' = WorkAs(s, c, Web!Answer(c, "file", k), s.fds)
  BY <1>0, <1>6 DEF WorkAs, WebState
<1>8. /\ WebType(s') /\ Works(s, s', c) /\ s'.h[c].pc = "send"
      /\ s'.h[c].answer[1] = "file" /\ s'.h[c].answer[2] = k
  BY <1>0, <1>1, <1>5, <1>7, AnswerIs
<1> QED  BY <1>1, <1>5, <1>8 DEF Told, size, want

LEMMA CommandIs ==
  ASSUME NEW m \in Commands
  PROVE  /\ m[1] \in {"close", "send"} /\ m[2] \in Conns
         /\ m[1] = "send" => m[3] \in Paths /\ m[4] \in Answers
  BY DEF Commands

\* handle sends the answer, which may be dropped, then asks for the close; after that the request
\* is deleted.
Hands(x, y, c) ==
  /\ Handling(x, y, c) /\ y.queue = x.queue /\ y.freed = x.freed
  /\ x.h[c].pc = "send" /\ y.h[c].pc = "close"
  /\ y.h[c].msg = x.h[c].msg /\ y.h[c].path = x.h[c].path /\ y.h[c].answer = x.h[c].answer
Sends(x, y, c) ==
  /\ Hands(x, y, c)
  /\ y.cmds = Append(x.cmds, <<"send", c, x.h[c].path, x.h[c].answer>>)
  /\ <<"send", c, x.h[c].path, x.h[c].answer>> \in Commands
Loses(x, y, c) == Hands(x, y, c) /\ y.cmds = x.cmds /\ c \in y.lost
Ends(x, y, c) ==
  /\ Handling(x, y, c) /\ y.queue = x.queue
  /\ x.h[c].pc = "close" /\ y.h[c] = Web!NotOpen
  /\ x.h[c].msg \in MessageIds /\ y.freed = Append(x.freed, x.h[c].msg)
  /\ y.cmds = Append(x.cmds, <<"close", c>>)
  /\ <<"close", c>> \in Commands

LEMMA ReplyStep ==
  ASSUME WebType(s), NEW c \in Conns, Web!Reply(c)
  PROVE  WebType(s') /\ (Sends(s, s', c) \/ Loses(s, s', c) \/ Ends(s, s', c))
<1>0. s \in WebState /\ s.h[c] \in Handlers /\ s.fds \in Nat
  BY HandlerFields DEF WebType
<1>1. ASSUME s.h[c].pc = "send",
             s' = [s EXCEPT !.cmds = Append(@, <<"send", c, s.h[c].path, s.h[c].answer>>), !.h[c].pc = "close"]
      PROVE  WebType(s') /\ Sends(s, s', c)
  <2> DEFINE r == [s.h[c] EXCEPT !.pc = "close"]
             m == <<"send", c, s.h[c].path, s.h[c].answer>>
             q == Append(s.cmds, m)
  <2>1. s.h[c].path \in Paths /\ s.h[c].answer \in Answers /\ s.h[c].msg # Web!None
    BY <1>1, HandlerFields DEF HandlerRight
  <2>2. m \in Commands
    BY <2>1 DEF Commands
  <2>3. /\ r \in Handlers /\ r.pc = "close" /\ r.msg = s.h[c].msg /\ r.path = s.h[c].path
        /\ r.answer = s.h[c].answer
    BY <1>0 DEF Handlers
  <2>4. s' = HandledAs(s, c, r, s.fds, s.queue, q, s.freed)
    BY <1>0, <1>1 DEF HandledAs, WebState
  <2> HIDE DEF r, m
  <2>5. q \in Seq(Commands)
    BY <2>2, HandlerFields
  <2> HIDE DEF q
  <2>6. r \in Handlers /\ HandlerRight(r)
    BY <2>1, <2>3 DEF HandlerRight
  <2>7. s.queue \in [Conns -> Seq([msg : MessageIds, path : Paths])] /\ s.freed \in Seq(MessageIds)
    BY HandlerFields
  <2>8. /\ WebType(s') /\ Handling(s, s', c) /\ s'.h[c] = r /\ s'.queue = s.queue /\ s'.cmds = q
        /\ s'.freed = s.freed
    BY ONLY WebType(s), c \in Conns, <1>0, <2>4, <2>5, <2>6, <2>7, HandlerIs
  <2> QED  BY <1>1, <2>2, <2>3, <2>8 DEF Sends, Hands, q, m
<1>2. ASSUME s.h[c].pc = "close",
             s' = [s EXCEPT !.cmds = Append(@, <<"close", c>>), !.h[c] = Web!NotOpen,
                            !.freed = Append(@, s.h[c].msg)]
      PROVE  WebType(s') /\ Ends(s, s', c)
  <2> DEFINE m == <<"close", c>>
             q == Append(s.cmds, m)
             F == Append(s.freed, s.h[c].msg)
  <2>1. s.h[c].msg \in MessageIds
    BY <1>0, <1>2, HandlerFields DEF HandlerRight, Handlers, MessageIds, Web!None
  <2>2. m \in Commands
    BY DEF Commands
  <2>3. Web!NotOpen \in Handlers /\ HandlerRight(Web!NotOpen)
    BY DEF Web!NotOpen, Handlers, HandlerRight, Web!None
  <2>4. s' = HandledAs(s, c, Web!NotOpen, s.fds, s.queue, q, F)
    BY <1>0, <1>2 DEF HandledAs, WebState
  <2> HIDE DEF m
  <2>5. q \in Seq(Commands) /\ F \in Seq(MessageIds)
    BY <2>1, <2>2, HandlerFields
  <2> HIDE DEF q, F
  <2>6. s.queue \in [Conns -> Seq([msg : MessageIds, path : Paths])]
    BY HandlerFields
  <2>7. /\ WebType(s') /\ Handling(s, s', c) /\ s'.h[c] = Web!NotOpen /\ s'.queue = s.queue /\ s'.cmds = q
        /\ s'.freed = F
    BY ONLY WebType(s), c \in Conns, <1>0, <2>3, <2>4, <2>5, <2>6, HandlerIs
  <2> QED  BY <1>2, <2>1, <2>2, <2>7 DEF Ends, q, m, F
<1>3. ASSUME s.h[c].pc = "send", s' = [s EXCEPT !.lost = @ \cup {c}, !.h[c].pc = "close"]
      PROVE  WebType(s') /\ Loses(s, s', c)
  <2> DEFINE r == [s.h[c] EXCEPT !.pc = "close"]
             H == [s.h EXCEPT ![c] = r]
             L == s.lost \cup {c}
  <2>1. s.h[c].path \in Paths /\ s.h[c].answer \in Answers /\ s.h[c].msg # Web!None
    BY <1>3, HandlerFields DEF HandlerRight
  <2>2. /\ r \in Handlers /\ r.pc = "close" /\ r.msg = s.h[c].msg /\ r.path = s.h[c].path
        /\ r.answer = s.h[c].answer
    BY <1>0 DEF Handlers
  <2> HIDE DEF r
  <2>3. H \in [Conns -> Handlers] /\ H[c] = r /\ \A d \in Conns : d # c => H[d] = s.h[d]
    BY <1>0, <2>2 DEF WebState
  <2>4. s' = [s EXCEPT !.lost = L, !.h = H]
    BY <1>0, <1>3 DEF WebState, r
  <2>5. L \in SUBSET Conns /\ c \in L /\ \A d \in Conns : d # c => (d \in L <=> d \in s.lost)
    BY <1>0 DEF WebState
  <2> HIDE DEF H, L
  <2>6. s' \in WebState
    BY ONLY <1>0, <2>3, <2>4, <2>5 DEF WebState
  <2>7. /\ s'.h = H /\ s'.lost = L /\ s'.queue = s.queue /\ s'.cmds = s.cmds /\ s'.freed = s.freed
        /\ s'.fresh = s.fresh /\ s'.message = s.message /\ s'.asked = s.asked /\ s'.conn = s.conn
        /\ s'.got = s.got /\ s'.changes = s.changes /\ s'.size = s.size
    BY <1>0, <2>4 DEF WebState
  <2>8. HandlerRight(r)
    BY <2>1, <2>2 DEF HandlerRight
  <2>9. \A d \in Conns : HandlerRight(s'.h[d]) /\ (s'.conn[d] = "open" <=> s'.message[d] # Web!None)
    BY <2>3, <2>7, <2>8 DEF WebType
  <2>10. WebType(s')
    BY <2>6, <2>9 DEF WebType
  <2> QED  BY <1>3, <2>2, <2>3, <2>5, <2>7, <2>10 DEF Loses, Hands, Handling
<1> QED  BY <1>1, <1>2, <1>3 DEF Web!Reply

\* The network thread drops a command, delivers an answer, or closes the connection.
Drops(x, y) ==
  /\ x.conn[x.cmds[1][2]] # "open"
  /\ y.h = x.h /\ y.queue = x.queue /\ y.freed = x.freed /\ y.fresh = x.fresh /\ y.message = x.message
  /\ y.asked = x.asked /\ y.conn = x.conn /\ y.got = x.got /\ y.changes = x.changes /\ y.size = x.size
  /\ y.lost = x.lost
Delivers(x, y, c) ==
  /\ x.conn[c] = "open" /\ x.cmds[1][1] = "send"
  /\ y.got[c] = Append(x.got[c], <<x.cmds[1][3], x.cmds[1][4]>>)
  /\ x.got[c] \in Seq(Paths \X Answers) /\ <<x.cmds[1][3], x.cmds[1][4]>> \in Paths \X Answers
  /\ \A d \in Conns : d # c => y.got[d] = x.got[d]
  /\ y.h = x.h /\ y.queue = x.queue /\ y.freed = x.freed /\ y.fresh = x.fresh /\ y.message = x.message
  /\ y.asked = x.asked /\ y.conn = x.conn /\ y.changes = x.changes /\ y.size = x.size /\ y.lost = x.lost

LEMMA ExecuteStep ==
  ASSUME WebType(s), Web!Execute
  PROVE  /\ WebType(s') /\ s.cmds # <<>> /\ s'.cmds = Tail(s.cmds)
         /\ s.cmds[1] \in Commands /\ s.cmds[1][2] \in Conns
         /\ \/ Drops(s, s')
            \/ Delivers(s, s', s.cmds[1][2])
            \/ Closing(s, s', s.cmds[1][2], "closed") /\ s.cmds[1][1] = "close"
<1>0. s \in WebState /\ s.cmds \in Seq(Commands) /\ s.cmds # <<>>
  BY DEF WebType, WebState, Web!Execute
<1> DEFINE m == s.cmds[1]
           c == m[2]
           q == Tail(s.cmds)
<1>1. Head(s.cmds) = m /\ m \in Commands /\ q \in Seq(Commands)
  BY <1>0, FrontOf
<1>2. c \in Conns /\ m[1] \in {"close", "send"} /\ (m[1] = "send" => m[3] \in Paths /\ m[4] \in Answers)
  BY <1>1, CommandIs
<1>3. IF s.conn[c] # "open" THEN s' = [s EXCEPT !.cmds = q]
      ELSE IF m[1] = "send"
           THEN \E rest \in {{}, {c}} :
                  s' = [[s EXCEPT !.cmds = q] EXCEPT !.got[c] = Append(@, <<m[3], m[4]>>),
                                                     !.cut = (@ \ {c}) \cup rest]
      ELSE s' = [Web!ClosedConnectCB(c) EXCEPT !.cmds = Tail(@)]
  BY <1>1 DEF Web!Execute
<1> HIDE DEF m, c, q
<1>4. CASE s.conn[c] # "open"
  <2>1. s' = [s EXCEPT !.cmds = q]
    BY <1>3, <1>4
  <2>2. s' \in WebState
    BY <1>0, <1>1, <2>1 DEF WebState
  <2>3. /\ s'.h = s.h /\ s'.queue = s.queue /\ s'.freed = s.freed /\ s'.fresh = s.fresh /\ s'.message = s.message
        /\ s'.asked = s.asked /\ s'.conn = s.conn /\ s'.got = s.got /\ s'.changes = s.changes
        /\ s'.size = s.size /\ s'.cmds = q /\ s'.lost = s.lost
    BY <1>0, <2>1 DEF WebState
  <2>4. WebType(s')
    BY <2>2, <2>3 DEF WebType
  <2> QED  BY <1>0, <1>1, <1>2, <1>4, <2>3, <2>4 DEF Drops, m, c, q
<1>5. CASE s.conn[c] = "open" /\ m[1] = "send"
  <2> DEFINE a == <<m[3], m[4]>>
             G == [s.got EXCEPT ![c] = Append(@, a)]
  <2>1. a \in Paths \X Answers
    BY <1>2, <1>5
  <2>2. PICK rest \in {{}, {c}} :
          s' = [[s EXCEPT !.cmds = q] EXCEPT !.got[c] = Append(@, a), !.cut = (@ \ {c}) \cup rest]
    BY <1>3, <1>5
  <2> DEFINE K == (s.cut \ {c}) \cup rest
  <2>11. K \in SUBSET Conns
    BY <1>0, <1>2, <2>2 DEF WebState
  <2> HIDE DEF a
  <2>3. s.got \in [Conns -> Seq(Paths \X Answers)] /\ s.got[c] \in Seq(Paths \X Answers)
    BY <1>0, <1>2 DEF WebState
  <2>4. Append(s.got[c], a) \in Seq(Paths \X Answers)
    BY <2>1, <2>3
  <2>5. /\ G \in [Conns -> Seq(Paths \X Answers)] /\ G[c] = Append(s.got[c], a)
        /\ \A d \in Conns : d # c => G[d] = s.got[d]
    BY <1>2, <2>3, <2>4
  <2>6. s' = [s EXCEPT !.cmds = q, !.got = G, !.cut = K]
    BY <1>0, <2>2 DEF WebState
  <2> HIDE DEF G, K
  <2>7. s' \in WebState
    BY <1>0, <1>1, <2>5, <2>6, <2>11 DEF WebState
  <2>8. /\ s'.h = s.h /\ s'.queue = s.queue /\ s'.freed = s.freed /\ s'.fresh = s.fresh /\ s'.message = s.message
        /\ s'.asked = s.asked /\ s'.conn = s.conn /\ s'.got = G /\ s'.changes = s.changes
        /\ s'.size = s.size /\ s'.cmds = q /\ s'.lost = s.lost
    BY <1>0, <2>6 DEF WebState
  <2>9. WebType(s')
    BY <2>7, <2>8 DEF WebType
  <2>10. Delivers(s, s', c)
    BY <1>5, <2>1, <2>3, <2>5, <2>8 DEF Delivers, m, a
  <2> QED  BY <1>0, <1>1, <1>2, <2>8, <2>9, <2>10 DEF m, c, q
<1>6. CASE s.conn[c] = "open" /\ m[1] # "send"
  <2>1. s' = [Web!ClosedConnectCB(c) EXCEPT !.cmds = Tail(@)]
    BY <1>3, <1>6
  <2>2. s' = [s EXCEPT !.conn = [@ EXCEPT ![c] = "closed"], !.freed = Append(@, s.message[c]),
                       !.message = [@ EXCEPT ![c] = Web!None], !.cmds = q]
    BY <1>0, <2>1 DEF Web!ClosedConnectCB, WebState, q
  <2>3. WebType(s') /\ Closing(s, s', c, "closed") /\ s'.cmds = q
    BY <1>1, <1>2, <1>6, <2>2, CloseIs
  <2> QED  BY <1>0, <1>1, <1>2, <1>6, <2>3 DEF m, c, q
<1> QED  BY <1>4, <1>5, <1>6

-----------------------------------------------------------------------------
\* Every message is in one place.

LEMMA AppendIs ==
  ASSUME NEW S, NEW q \in Seq(S), NEW e \in S
  PROVE  /\ Append(q, e) \in Seq(S) /\ Len(Append(q, e)) = Len(q) + 1 /\ Append(q, e)[Len(q) + 1] = e
         /\ \A i \in 1..Len(q) : Append(q, e)[i] = q[i]
  OBVIOUS

\* One more message is freed.
LEMMA FreedMore ==
  ASSUME NEW x, NEW y, NEW m, x.freed \in Seq(MessageIds), m \in MessageIds, y.freed = Append(x.freed, m),
         FreedOnce(x), ~InFreed(x, m)
  PROVE  FreedOnce(y) /\ \A n : InFreed(y, n) <=> InFreed(x, n) \/ n = m
<1> DEFINE l == Len(x.freed)
<1>1. /\ l \in Nat /\ Len(y.freed) = l + 1 /\ y.freed[l + 1] = m
      /\ \A i \in 1..l : y.freed[i] = x.freed[i]
  BY AppendIs
<1>2. \A i, j \in 1..l : x.freed[i] = x.freed[j] => i = j
  BY DEF FreedOnce
<1>3. \A i \in 1..l : x.freed[i] # m
  BY DEF InFreed
<1>4. ASSUME NEW n PROVE InFreed(y, n) <=> InFreed(x, n) \/ n = m
  <2> HIDE DEF l
  <2>1. InFreed(y, n) <=> \E i \in 1..l + 1 : y.freed[i] = n
    BY <1>1 DEF InFreed
  <2>2. InFreed(x, n) <=> \E i \in 1..l : x.freed[i] = n
    BY DEF InFreed, l
  <2>3. \A i \in 1..l + 1 : i \in 1..l \/ i = l + 1
    BY <1>1
  <2>4. l + 1 \in 1..l + 1 /\ \A i \in 1..l : i \in 1..l + 1
    BY <1>1
  <2> QED  BY <1>1, <2>1, <2>2, <2>3, <2>4
<1>5. FreedOnce(y)
  <2> HIDE DEF l
  <2>1. SUFFICES ASSUME NEW i \in 1..l + 1, NEW j \in 1..l + 1, y.freed[i] = y.freed[j] PROVE i = j
    BY <1>1 DEF FreedOnce
  <2>2. (i \in 1..l \/ i = l + 1) /\ (j \in 1..l \/ j = l + 1)
    BY <1>1
  <2> QED  BY <1>1, <1>2, <1>3, <2>1, <2>2
<1> QED  BY <1>4, <1>5

\* The requests of a connection: one more is queued, the first is taken.
Queues == Seq([msg : MessageIds, path : Paths])
LEMMA QueuedMore ==
  ASSUME NEW x, NEW y, NEW c, NEW r \in [msg : MessageIds, path : Paths], x.queue[c] \in Queues,
         y.queue[c] = Append(x.queue[c], r), QueuedOnce(x, c), ~InQueue(x, r.msg, c)
  PROVE  QueuedOnce(y, c) /\ \A n : InQueue(y, n, c) <=> InQueue(x, n, c) \/ n = r.msg
<1> DEFINE l == Len(x.queue[c])
           p(i) == x.queue[c][i]
           q(i) == y.queue[c][i]
<1>1. l \in Nat /\ Len(y.queue[c]) = l + 1 /\ q(l + 1) = r /\ \A i \in 1..l : q(i) = p(i)
  BY AppendIs DEF Queues
<1>2. \A i, j \in 1..l : p(i).msg = p(j).msg => i = j
  BY DEF QueuedOnce
<1>3. \A i \in 1..l : p(i).msg # r.msg
  BY DEF InQueue
<1>4. ASSUME NEW n PROVE InQueue(y, n, c) <=> InQueue(x, n, c) \/ n = r.msg
  <2>1. InQueue(y, n, c) <=> \E i \in 1..l + 1 : q(i).msg = n
    BY <1>1 DEF InQueue
  <2>2. InQueue(x, n, c) <=> \E i \in 1..l : p(i).msg = n
    BY DEF InQueue
  <2> HIDE DEF l, p, q
  <2>3. \A i \in 1..l + 1 : i \in 1..l \/ i = l + 1
    BY <1>1
  <2>4. l + 1 \in 1..l + 1 /\ \A i \in 1..l : i \in 1..l + 1
    BY <1>1
  <2> QED  BY <1>1, <2>1, <2>2, <2>3, <2>4
<1>5. QueuedOnce(y, c)
  <2>1. SUFFICES ASSUME NEW i \in 1..l + 1, NEW j \in 1..l + 1, q(i).msg = q(j).msg PROVE i = j
    BY <1>1 DEF QueuedOnce
  <2> HIDE DEF l, p, q
  <2>2. (i \in 1..l \/ i = l + 1) /\ (j \in 1..l \/ j = l + 1)
    BY <1>1
  <2> QED  BY <1>1, <1>2, <1>3, <2>1, <2>2
<1> QED  BY <1>4, <1>5

LEMMA QueuedLess ==
  ASSUME NEW x, NEW y, NEW c, x.queue[c] \in Queues, x.queue[c] # <<>>,
         y.queue[c] = Tail(x.queue[c]), QueuedOnce(x, c)
  PROVE  /\ QueuedOnce(y, c) /\ InQueue(x, x.queue[c][1].msg, c)
         /\ \A n : InQueue(y, n, c) <=> InQueue(x, n, c) /\ n # x.queue[c][1].msg
<1> DEFINE l == Len(x.queue[c]) - 1
           p(i) == x.queue[c][i]
           q(i) == y.queue[c][i]
<1>1. l \in Nat /\ Len(x.queue[c]) = l + 1 /\ Len(y.queue[c]) = l /\ \A i \in 1..l : q(i) = p(i + 1)
  BY FrontOf DEF Queues
<1>2. \A i, j \in 1..l + 1 : p(i).msg = p(j).msg => i = j
  BY <1>1 DEF QueuedOnce
<1>3. ASSUME NEW n
      PROVE  /\ InQueue(y, n, c) <=> \E i \in 1..l : q(i).msg = n
             /\ InQueue(x, n, c) <=> \E i \in 1..l + 1 : p(i).msg = n
  BY <1>1 DEF InQueue
<1>4. QueuedOnce(y, c) <=> \A i, j \in 1..l : q(i).msg = q(j).msg => i = j
  BY <1>1 DEF QueuedOnce
<1>5. x.queue[c][1] = p(1)
  OBVIOUS
<1> HIDE DEF l, p, q
<1>6. \A i \in 1..l : i + 1 \in 1..l + 1 /\ i + 1 # 1
  BY <1>1
<1>7. \A i \in 1..l + 1 : i # 1 => i - 1 \in 1..l /\ (i - 1) + 1 = i
  BY <1>1
<1>8. 1 \in 1..l + 1
  BY <1>1
<1>9. \A i, j \in 1..l : i + 1 = j + 1 => i = j
  BY <1>1
<1>10. QueuedOnce(y, c)
  BY <1>1, <1>2, <1>4, <1>6, <1>9
<1>11. InQueue(x, p(1).msg, c)
  BY <1>3, <1>8
<1>12. ASSUME NEW n PROVE InQueue(y, n, c) <=> InQueue(x, n, c) /\ n # p(1).msg
  <2>1. ASSUME NEW i \in 1..l, q(i).msg = n PROVE p(i + 1).msg = n /\ n # p(1).msg
    BY <1>1, <1>2, <1>6, <1>8, <2>1
  <2>2. ASSUME NEW i \in 1..l + 1, p(i).msg = n, n # p(1).msg PROVE i - 1 \in 1..l /\ q(i - 1).msg = n
    BY <1>1, <1>7, <2>2
  <2> QED  BY <1>3, <1>6, <2>1, <2>2
<1> QED  BY <1>5, <1>10, <1>11, <1>12

\* The places of other connections stay.
PlacesKept(x, y, c) ==
  \A m \in MessageIds : \A d \in Conns :
    d # c => /\ InWork(y, m, d) <=> InWork(x, m, d)
             /\ InQueue(y, m, d) <=> InQueue(x, m, d)
             /\ InHand(y, m, d) <=> InHand(x, m, d)

LEMMA KeptByOthers ==
  ASSUME NEW x, NEW y, NEW c \in Conns,
         \A d \in Conns : d # c => /\ y.message[d] = x.message[d] /\ y.queue[d] = x.queue[d]
                                   /\ y.h[d].msg = x.h[d].msg
  PROVE  /\ PlacesKept(x, y, c)
         /\ \A d \in Conns : d # c => (QueuedOnce(y, d) <=> QueuedOnce(x, d))
  BY DEF PlacesKept, InWork, InQueue, InHand, QueuedOnce

\* A new message in the parser: the one that was there, if any, is queued or freed.
LEMMA OnePlaceNew ==
  ASSUME NEW x, NEW y, NEW c \in Conns, NEW m \in MessageIds, x.fresh \in MessageIds, x.message[c] \in Nat,
         PlacesKept(x, y, c), OnePlace(x, m), y.fresh = x.fresh + 1, y.message[c] = x.fresh,
         InHand(y, m, c) <=> InHand(x, m, c),
         \/ x.message[c] = 0 /\ (InFreed(y, m) <=> InFreed(x, m)) /\ (InQueue(y, m, c) <=> InQueue(x, m, c))
         \/ /\ x.message[c] # 0
            /\ InFreed(y, m) <=> InFreed(x, m)
            /\ InQueue(y, m, c) <=> InQueue(x, m, c) \/ m = x.message[c]
         \/ /\ x.message[c] # 0
            /\ InFreed(y, m) <=> InFreed(x, m) \/ m = x.message[c]
            /\ InQueue(y, m, c) <=> InQueue(x, m, c)
  PROVE  OnePlace(y, m)
<1>1. /\ InWork(y, m, c) <=> m = x.fresh
      /\ InWork(x, m, c) <=> m = x.message[c]
  BY DEF InWork
<1>2. m < y.fresh <=> m < x.fresh \/ m = x.fresh
  BY DEF MessageIds
<1>3. m = x.fresh => ~(m < x.fresh)
  BY DEF MessageIds
<1>4. m # 0
  BY DEF MessageIds
<1>5. m < x.fresh <=> InFreed(x, m) \/ \E d \in Conns : Has(x, m, d)
  BY DEF OnePlace
<1>6. m = x.fresh => ~InFreed(x, m) /\ \A d \in Conns : ~InWork(x, m, d) /\ ~InQueue(x, m, d) /\ ~InHand(x, m, d)
  BY <1>3, <1>5 DEF Has
<1>7. \A d \in Conns : d # c => (Has(y, m, d) <=> Has(x, m, d))
  BY DEF PlacesKept, Has
<1>8. \A d \in Conns : InFreed(x, m) => ~InWork(x, m, d) /\ ~InQueue(x, m, d) /\ ~InHand(x, m, d)
  BY DEF OnePlace, Has
<1>9. m = x.message[c] => ~InQueue(x, m, c) /\ ~InHand(x, m, c) /\ ~InFreed(x, m)
                            /\ \A d \in Conns : d # c => ~Has(x, m, d)
  BY <1>1 DEF OnePlace, Has
<1>10. m = x.message[c] => m < x.fresh
  BY <1>1, <1>5 DEF Has
<1>11. m < y.fresh <=> InFreed(y, m) \/ \E d \in Conns : Has(y, m, d)
  <2>1. CASE m = x.fresh
    BY <1>1, <1>2, <2>1 DEF Has
  <2>2. CASE m # x.fresh /\ m = x.message[c]
    <3>1. InFreed(y, m) \/ InQueue(y, m, c)
      BY <1>4, <2>2
    <3> QED  BY <1>2, <1>10, <2>2, <3>1 DEF Has
  <2>3. CASE m # x.fresh /\ m # x.message[c]
    <3>1. (InFreed(y, m) <=> InFreed(x, m)) /\ (Has(y, m, c) <=> Has(x, m, c))
      BY <1>1, <2>3 DEF Has
    <3> QED  BY <1>2, <1>5, <1>7, <2>3, <3>1
  <2> QED  BY <2>1, <2>2, <2>3
<1>12. \A d \in Conns : InFreed(y, m) => ~Has(y, m, d)
  <2>1. CASE m = x.fresh
    BY <1>6, <1>10, <1>3, <2>1
  <2>2. CASE m # x.fresh /\ m = x.message[c]
    BY <1>1, <1>7, <1>9, <2>2 DEF Has
  <2>3. CASE m # x.fresh /\ m # x.message[c]
    BY <1>1, <1>7, <1>8, <2>3 DEF Has
  <2> QED  BY <2>1, <2>2, <2>3
<1>13. \A d, e \in Conns : Has(y, m, d) /\ Has(y, m, e) => d = e
  <2>1. CASE m = x.fresh
    BY <1>6, <1>7, <2>1 DEF Has
  <2>2. CASE m # x.fresh /\ m = x.message[c]
    BY <1>7, <1>9, <2>2
  <2>3. CASE m # x.fresh /\ m # x.message[c]
    <3>1. Has(y, m, c) <=> Has(x, m, c)
      BY <1>1, <2>3 DEF Has
    <3>2. \A d \in Conns : Has(y, m, d) <=> Has(x, m, d)
      BY <1>7, <3>1
    <3> QED  BY <3>2 DEF OnePlace
  <2> QED  BY <2>1, <2>2, <2>3
<1>14. \A d \in Conns : /\ ~(InWork(y, m, d) /\ InQueue(y, m, d)) /\ ~(InWork(y, m, d) /\ InHand(y, m, d))
                        /\ ~(InQueue(y, m, d) /\ InHand(y, m, d))
  <2>1. /\ ~(InWork(y, m, c) /\ InQueue(y, m, c)) /\ ~(InWork(y, m, c) /\ InHand(y, m, c))
        /\ ~(InQueue(y, m, c) /\ InHand(y, m, c))
    BY <1>1, <1>3, <1>6, <1>9, <1>10 DEF OnePlace
  <2> QED  BY <2>1 DEF PlacesKept, OnePlace
<1> QED  BY <1>11, <1>12, <1>13, <1>14 DEF OnePlace

\* A message of a connection is freed, or taken from its queue.
LEMMA OnePlaceMoved ==
  ASSUME NEW x, NEW y, NEW c \in Conns, NEW m \in MessageIds, NEW n \in MessageIds,
         PlacesKept(x, y, c), OnePlace(x, m), y.fresh = x.fresh,
         \/ /\ n = x.message[c] /\ ~InWork(y, m, c)
            /\ InFreed(y, m) <=> InFreed(x, m) \/ m = n
            /\ InQueue(y, m, c) <=> InQueue(x, m, c)
            /\ InHand(y, m, c) <=> InHand(x, m, c)
         \/ /\ n = x.h[c].msg /\ ~InHand(y, m, c)
            /\ InFreed(y, m) <=> InFreed(x, m) \/ m = n
            /\ InQueue(y, m, c) <=> InQueue(x, m, c)
            /\ InWork(y, m, c) <=> InWork(x, m, c)
         \/ /\ x.h[c].msg = 0 /\ InQueue(x, n, c)
            /\ InFreed(y, m) <=> InFreed(x, m)
            /\ InQueue(y, m, c) <=> InQueue(x, m, c) /\ m # n
            /\ InHand(y, m, c) <=> m = n
            /\ InWork(y, m, c) <=> InWork(x, m, c)
  PROVE  OnePlace(y, m)
<1>1. /\ InWork(x, m, c) <=> m = x.message[c]
      /\ InHand(x, m, c) <=> m = x.h[c].msg
  BY DEF InWork, InHand
<1>2. m # 0
  BY DEF MessageIds
<1>3. \A d \in Conns : d # c => (Has(y, m, d) <=> Has(x, m, d))
  BY DEF PlacesKept, Has
<1>4. CASE m # n
  <2>1. /\ InFreed(y, m) <=> InFreed(x, m)
        /\ InQueue(y, m, c) <=> InQueue(x, m, c)
        /\ InHand(y, m, c) <=> InHand(x, m, c)
        /\ InWork(y, m, c) <=> InWork(x, m, c)
    BY <1>1, <1>2, <1>4
  <2>2. \A d \in Conns : /\ InQueue(y, m, d) <=> InQueue(x, m, d)
                         /\ InHand(y, m, d) <=> InHand(x, m, d)
                         /\ InWork(y, m, d) <=> InWork(x, m, d)
                         /\ Has(y, m, d) <=> Has(x, m, d)
    BY <2>1 DEF PlacesKept, Has
  <2> QED  BY <2>1, <2>2 DEF OnePlace
<1>5. CASE m = n
  <2>1. Has(x, m, c)
    BY <1>1, <1>5 DEF Has
  <2>2. ~InFreed(x, m) /\ m < x.fresh /\ \A d \in Conns : d # c => ~Has(x, m, d)
    BY <2>1 DEF OnePlace
  <2>3. \A d \in Conns : d # c => ~Has(y, m, d)
    BY <1>3, <2>2
  <2>4. /\ ~(InWork(x, m, c) /\ InQueue(x, m, c)) /\ ~(InWork(x, m, c) /\ InHand(x, m, c))
        /\ ~(InQueue(x, m, c) /\ InHand(x, m, c))
    BY DEF OnePlace
  <2>5. \/ InFreed(y, m) /\ ~InWork(y, m, c) /\ ~InQueue(y, m, c) /\ ~InHand(y, m, c)
        \/ ~InFreed(y, m) /\ ~InWork(y, m, c) /\ ~InQueue(y, m, c) /\ InHand(y, m, c)
    BY <1>1, <1>5, <2>2, <2>4
  <2>6. \A d \in Conns : d # c => ~InWork(y, m, d) /\ ~InQueue(y, m, d) /\ ~InHand(y, m, d)
    BY <2>3 DEF Has
  <2> QED  BY <2>2, <2>3, <2>5, <2>6 DEF OnePlace, Has
<1> QED  BY <1>4, <1>5

\* The fields that messages are in, and what the invariant says of one that a connection has.
LEMMA MessageFields ==
  ASSUME WebType(s), NEW c \in Conns
  PROVE  /\ s.fresh \in MessageIds /\ s.freed \in Seq(MessageIds) /\ s.message[c] \in Nat
         /\ s.queue[c] \in Queues /\ s.h[c].msg \in Nat /\ (s.conn[c] = "open" <=> s.message[c] # 0)
  BY DEF WebType, WebState, Handlers, Queues, Web!None

LEMMA NotFreed ==
  ASSUME MessageInv(s), NEW c \in Conns, NEW m \in MessageIds, Has(s, m, c)
  PROVE  /\ ~InFreed(s, m)
         /\ InWork(s, m, c) => ~InQueue(s, m, c)
  BY DEF MessageInv, OnePlace

LEMMA MessagesKept ==
  ASSUME MessageInv(s), s'.freed = s.freed, s'.fresh = s.fresh,
         \A d \in Conns : s'.message[d] = s.message[d] /\ s'.queue[d] = s.queue[d] /\ s'.h[d].msg = s.h[d].msg
  PROVE  MessageInv(s')
<1>1. \A m \in MessageIds : /\ InFreed(s', m) <=> InFreed(s, m)
                            /\ \A d \in Conns : /\ InWork(s', m, d) <=> InWork(s, m, d)
                                                /\ InQueue(s', m, d) <=> InQueue(s, m, d)
                                                /\ InHand(s', m, d) <=> InHand(s, m, d)
                                                /\ Has(s', m, d) <=> Has(s, m, d)
  BY DEF InFreed, InWork, InQueue, InHand, Has
<1>2. FreedOnce(s') /\ \A d \in Conns : QueuedOnce(s', d)
  BY DEF MessageInv, FreedOnce, QueuedOnce
<1>3. \A m \in MessageIds : OnePlace(s', m)
  BY <1>1 DEF MessageInv, OnePlace
<1> QED  BY <1>2, <1>3 DEF MessageInv

LEMMA MessagesCreate ==
  ASSUME WebType(s), MessageInv(s), NEW c \in Conns, Web!CreateConnectorCB(c) PROVE MessageInv(s')
<1>1. /\ Others(s, s', c) /\ s.conn[c] = "no" /\ s'.message[c] = s.fresh /\ s'.fresh = s.fresh + 1
      /\ s'.freed = s.freed /\ s'.queue = s.queue /\ s'.h = s.h
  BY CreateStep
<1>2. s.message[c] = 0 /\ s.fresh \in MessageIds
  BY <1>1, MessageFields
<1>3. PlacesKept(s, s', c)
  <2>1. \A d \in Conns : d # c => /\ s'.message[d] = s.message[d] /\ s'.queue[d] = s.queue[d]
                                  /\ s'.h[d].msg = s.h[d].msg
    BY <1>1 DEF Others
  <2> QED  BY <2>1, KeptByOthers
<1>4. ASSUME NEW m \in MessageIds PROVE OnePlace(s', m)
  <2>1. /\ InFreed(s', m) <=> InFreed(s, m)
        /\ InQueue(s', m, c) <=> InQueue(s, m, c)
        /\ InHand(s', m, c) <=> InHand(s, m, c)
    BY <1>1 DEF InFreed, InQueue, InHand
  <2>2. OnePlace(s, m)
    BY DEF MessageInv
  <2> QED  BY <1>1, <1>2, <1>3, <2>1, <2>2, OnePlaceNew
<1>5. FreedOnce(s') /\ \A d \in Conns : QueuedOnce(s', d)
  BY <1>1 DEF MessageInv, FreedOnce, QueuedOnce
<1> QED  BY <1>4, <1>5 DEF MessageInv

LEMMA MessagesParse ==
  ASSUME WebType(s), MessageInv(s), NEW c \in Conns, NEW p \in Paths, Web!Parse(c, p), Defined(s')
  PROVE  MessageInv(s')
<1> DEFINE n == s.message[c]
           r == [msg |-> n, path |-> p]
<1>1. /\ Others(s, s', c) /\ s.conn[c] = "open" /\ s'.message[c] = s.fresh /\ s'.fresh = s.fresh + 1
      /\ s'.h = s.h
      /\ s'.queue[c] = Append(s.queue[c], r) /\ s'.freed = s.freed
  BY ParseStep
<1>2. n \in MessageIds /\ n # 0 /\ s.fresh \in MessageIds /\ s.freed \in Seq(MessageIds) /\ s.queue[c] \in Queues
  BY <1>1, MessageFields DEF MessageIds
<1>3. Has(s, n, c) /\ InWork(s, n, c)
  BY DEF Has, InWork
<1>4. ~InFreed(s, n) /\ ~InQueue(s, n, c)
  BY <1>2, <1>3, NotFreed
<1>5. /\ PlacesKept(s, s', c)
      /\ \A d \in Conns : d # c => (QueuedOnce(s', d) <=> QueuedOnce(s, d))
  <2>1. \A d \in Conns : d # c => /\ s'.message[d] = s.message[d] /\ s'.queue[d] = s.queue[d]
                                  /\ s'.h[d].msg = s.h[d].msg
    BY <1>1 DEF Others
  <2> QED  BY <2>1, KeptByOthers
<1>6. FreedOnce(s) /\ QueuedOnce(s, c) /\ \A d \in Conns : QueuedOnce(s, d)
  BY DEF MessageInv
<1>7. r \in [msg : MessageIds, path : Paths] /\ r.msg = n
  BY <1>2
<1> HIDE DEF r, n
<1>8. CASE s'.queue[c] = Append(s.queue[c], r) /\ s'.freed = s.freed
  <2>1. QueuedOnce(s', c) /\ \A m : InQueue(s', m, c) <=> InQueue(s, m, c) \/ m = n
    BY <1>2, <1>4, <1>6, <1>7, <1>8, QueuedMore
  <2>2. FreedOnce(s') /\ \A m : InFreed(s', m) <=> InFreed(s, m)
    BY <1>6, <1>8 DEF FreedOnce, InFreed
  <2>3. ASSUME NEW m \in MessageIds PROVE OnePlace(s', m)
    <3>1. OnePlace(s, m) /\ (InHand(s', m, c) <=> InHand(s, m, c))
      BY <1>1 DEF MessageInv, InHand
    <3>2. /\ s.message[c] # 0 /\ s.message[c] \in Nat
          /\ InFreed(s', m) <=> InFreed(s, m)
          /\ InQueue(s', m, c) <=> InQueue(s, m, c) \/ m = s.message[c]
      BY <1>2, <2>1, <2>2 DEF n, MessageIds
    <3> QED  BY <1>1, <1>2, <1>5, <3>1, <3>2, OnePlaceNew
  <2> QED  BY <1>5, <1>6, <2>1, <2>2, <2>3 DEF MessageInv
<1> QED  BY <1>1, <1>8

LEMMA MessagesClose ==
  ASSUME WebType(s), MessageInv(s), NEW c \in Conns, NEW how, Closing(s, s', c, how) PROVE MessageInv(s')
<1> DEFINE n == s.message[c]
<1>1. /\ Others(s, s', c) /\ s.conn[c] = "open" /\ s'.message[c] = 0 /\ s'.fresh = s.fresh
      /\ s'.h = s.h /\ s'.queue = s.queue /\ s'.freed = Append(s.freed, n)
  BY DEF Closing, Web!None
<1>2. n \in MessageIds /\ s.freed \in Seq(MessageIds)
  BY <1>1, MessageFields DEF MessageIds
<1>3. Has(s, n, c)
  BY DEF Has, InWork
<1>4. ~InFreed(s, n)
  BY <1>2, <1>3, NotFreed
<1>5. PlacesKept(s, s', c)
  <2>1. \A d \in Conns : d # c => /\ s'.message[d] = s.message[d] /\ s'.queue[d] = s.queue[d]
                                  /\ s'.h[d].msg = s.h[d].msg
    BY <1>1 DEF Others
  <2> QED  BY <2>1, KeptByOthers
<1>6. FreedOnce(s') /\ \A m : InFreed(s', m) <=> InFreed(s, m) \/ m = n
  <2>1. FreedOnce(s)
    BY DEF MessageInv
  <2> HIDE DEF n
  <2> QED  BY <1>1, <1>2, <1>4, <2>1, FreedMore
<1>7. \A d \in Conns : QueuedOnce(s', d)
  BY <1>1 DEF MessageInv, QueuedOnce
<1>8. ASSUME NEW m \in MessageIds PROVE OnePlace(s', m)
  <2>1. OnePlace(s, m) /\ ~InWork(s', m, c) /\ (InQueue(s', m, c) <=> InQueue(s, m, c))
        /\ (InHand(s', m, c) <=> InHand(s, m, c))
    BY <1>1 DEF MessageInv, InHand, InQueue, InWork, MessageIds
  <2>2. InFreed(s', m) <=> InFreed(s, m) \/ m = n
    BY <1>6
  <2> QED  BY <1>1, <1>2, <1>5, <2>1, <2>2, OnePlaceMoved
<1> QED  BY <1>6, <1>7, <1>8 DEF MessageInv

LEMMA MessagesTake ==
  ASSUME WebType(s), MessageInv(s), NEW c \in Conns, Web!Take(c) PROVE MessageInv(s')
<1> DEFINE n == s.queue[c][1].msg
<1>1. /\ Handling(s, s', c) /\ s'.freed = s.freed /\ s.h[c].msg = 0 /\ s.queue[c] # <<>>
      /\ s'.h[c].msg = n /\ s'.queue[c] = Tail(s.queue[c])
      /\ \A d \in Conns : d # c => s'.queue[d] = s.queue[d]
  BY TakeStep DEF Web!None
<1>2. s'.fresh = s.fresh /\ s'.message = s.message /\ \A d \in Conns : d # c => s'.h[d] = s.h[d]
  BY <1>1 DEF Handling
<1>3. s.queue[c] \in Queues
  BY MessageFields
<1>4. n \in MessageIds
  <2>1. s.queue[c][1] \in [msg : MessageIds, path : Paths]
    BY <1>1, <1>3, FrontOf DEF Queues
  <2> QED  BY <2>1
<1>5. /\ PlacesKept(s, s', c)
      /\ \A d \in Conns : d # c => (QueuedOnce(s', d) <=> QueuedOnce(s, d))
  <2>1. \A d \in Conns : d # c => /\ s'.message[d] = s.message[d] /\ s'.queue[d] = s.queue[d]
                                  /\ s'.h[d].msg = s.h[d].msg
    BY <1>1, <1>2
  <2> QED  BY <2>1, KeptByOthers
<1>6. /\ QueuedOnce(s', c) /\ InQueue(s, n, c)
      /\ \A m : InQueue(s', m, c) <=> InQueue(s, m, c) /\ m # n
  BY <1>1, <1>3, QueuedLess DEF MessageInv
<1>7. FreedOnce(s') /\ \A d \in Conns : QueuedOnce(s', d)
  BY <1>1, <1>5, <1>6 DEF MessageInv, FreedOnce
<1>8. ASSUME NEW m \in MessageIds PROVE OnePlace(s', m)
  <2>1. OnePlace(s, m) /\ (InFreed(s', m) <=> InFreed(s, m)) /\ (InWork(s', m, c) <=> InWork(s, m, c))
        /\ (InHand(s', m, c) <=> m = n)
    BY <1>1, <1>2 DEF MessageInv, InHand, InFreed, InWork
  <2>2. InQueue(s', m, c) <=> InQueue(s, m, c) /\ m # n
    BY <1>6
  <2> HIDE DEF n
  <2> QED  BY <1>1, <1>2, <1>4, <1>5, <1>6, <2>1, <2>2, OnePlaceMoved
<1> QED  BY <1>7, <1>8 DEF MessageInv

LEMMA MessagesEnd ==
  ASSUME WebType(s), MessageInv(s), NEW c \in Conns, Ends(s, s', c) PROVE MessageInv(s')
<1> DEFINE n == s.h[c].msg
<1>1. /\ Handling(s, s', c) /\ n \in MessageIds /\ s'.queue = s.queue /\ s'.freed = Append(s.freed, n)
      /\ s'.h[c].msg = 0
  <2>1. Web!NotOpen.msg = 0
    BY DEF Web!NotOpen, Web!None
  <2> QED  BY <2>1 DEF Ends
<1>2. s'.fresh = s.fresh /\ s'.message = s.message /\ \A d \in Conns : d # c => s'.h[d] = s.h[d]
  BY <1>1 DEF Handling
<1>3. s.freed \in Seq(MessageIds) /\ ~InFreed(s, n)
  <2>1. Has(s, n, c)
    BY DEF Has, InHand
  <2> QED  BY <1>1, <2>1, NotFreed, MessageFields
<1>4. PlacesKept(s, s', c)
  <2>1. \A d \in Conns : d # c => /\ s'.message[d] = s.message[d] /\ s'.queue[d] = s.queue[d]
                                  /\ s'.h[d].msg = s.h[d].msg
    BY <1>1, <1>2
  <2> QED  BY <2>1, KeptByOthers
<1>5. FreedOnce(s') /\ \A m : InFreed(s', m) <=> InFreed(s, m) \/ m = n
  <2>1. FreedOnce(s)
    BY DEF MessageInv
  <2> HIDE DEF n
  <2> QED  BY <1>1, <1>3, <2>1, FreedMore
<1>6. \A d \in Conns : QueuedOnce(s', d)
  BY <1>1 DEF MessageInv, QueuedOnce
<1>7. ASSUME NEW m \in MessageIds PROVE OnePlace(s', m)
  <2>1. OnePlace(s, m) /\ ~InHand(s', m, c) /\ (InQueue(s', m, c) <=> InQueue(s, m, c))
        /\ (InWork(s', m, c) <=> InWork(s, m, c))
    BY <1>1, <1>2 DEF MessageInv, InHand, InQueue, InWork, MessageIds
  <2>2. InFreed(s', m) <=> InFreed(s, m) \/ m = n
    BY <1>5
  <2> QED  BY <1>1, <1>2, <1>4, <2>1, <2>2, OnePlaceMoved
<1> QED  BY <1>5, <1>6, <1>7 DEF MessageInv

LEMMA WebTypeNext ==
  ASSUME WebType(s), MAX_BODY_SIZE \in Nat, MaxSize \in Nat, [Web!Next]_s PROVE WebType(s')
<1>1. ASSUME NEW p \in Paths, Web!RegisterProcessor(p) \/ Web!Change(p) PROVE WebType(s')
  BY <1>1, FilesStep
<1>2. ASSUME NEW c \in Conns, \/ Web!CreateConnectorCB(c) \/ Web!PeerCloses(c) \/ Web!Take(c)
                              \/ Web!process(c) \/ Web!Stat(c) \/ Web!Read(c) \/ Web!Reply(c)
                              \/ \E p \in Paths : Web!Parse(c, p)
      PROVE  WebType(s')
  BY <1>2, CreateStep, PeerStep, TakeStep, ProcessStep, StatStep, FileReadStep, ReplyStep, ParseStep
<1>3. CASE Web!Execute
  BY <1>3, ExecuteStep
<1>4. CASE UNCHANGED s
  BY <1>4
<1> QED  BY <1>1, <1>2, <1>3, <1>4 DEF Web!Next

LEMMA MessagesNext ==
  ASSUME WebType(s), Defined(s) => MessageInv(s), MAX_BODY_SIZE \in Nat, MaxSize \in Nat, [Web!Next]_s,
         Defined(s')
  PROVE  MessageInv(s')
<1>0. CASE UNCHANGED s
  <2>1. Defined(s)
    BY <1>0 DEF Defined
  <2> QED  BY <1>0, <2>1
<1> SUFFICES ASSUME Web!Next, MessageInv(s) PROVE MessageInv(s')
  <2>1. Web!Next => Defined(s)
    BY DEF Web!Next, Web!Defined, Defined
  <2> QED  BY <1>0, <2>1
<1>1. ASSUME NEW p \in Paths, Web!RegisterProcessor(p) \/ Web!Change(p) PROVE MessageInv(s')
  <2>1. s'.fresh = s.fresh /\ s'.freed = s.freed /\ s'.message = s.message /\ s'.queue = s.queue /\ s'.h = s.h
    BY <1>1, FilesStep
  <2> QED  BY <2>1, MessagesKept
<1>2. ASSUME NEW c \in Conns, Web!process(c) \/ Web!Stat(c) \/ Web!Read(c) PROVE MessageInv(s')
  <2>1. Works(s, s', c)
    BY <1>2, ProcessStep, StatStep, FileReadStep
  <2> QED  BY <2>1, MessagesKept DEF Works, Handling
<1>3. ASSUME NEW c \in Conns, Web!Reply(c) PROVE MessageInv(s')
  <2>1. CASE Hands(s, s', c)
    BY <2>1, MessagesKept DEF Hands, Handling
  <2>2. CASE Ends(s, s', c)
    BY <2>2, MessagesEnd
  <2> QED  BY <1>3, <2>1, <2>2, ReplyStep DEF Sends, Loses
<1>4. ASSUME NEW c \in Conns, Web!PeerCloses(c) PROVE MessageInv(s')
  BY <1>4, PeerStep, MessagesClose
<1>5. CASE Web!Execute
  <2>1. CASE Drops(s, s')
    BY <2>1, MessagesKept DEF Drops
  <2>2. CASE Delivers(s, s', s.cmds[1][2])
    BY <2>2, MessagesKept DEF Delivers
  <2>3. CASE Closing(s, s', s.cmds[1][2], "closed")
    BY <1>5, <2>3, ExecuteStep, MessagesClose
  <2> QED  BY <1>5, <2>1, <2>2, <2>3, ExecuteStep
<1>7. ASSUME NEW c \in Conns, Web!CreateConnectorCB(c) \/ Web!Take(c) \/ \E p \in Paths : Web!Parse(c, p)
      PROVE  MessageInv(s')
  BY <1>7, MessagesCreate, MessagesTake, MessagesParse
<1> QED  BY <1>1, <1>2, <1>3, <1>4, <1>5, <1>7 DEF Web!Next

LEMMA MessagesInit ==
  ASSUME Web!Init PROVE MessageInv(s)
<1>1. s.fresh = 1 /\ s.freed = <<>> /\ \A c \in Conns : s.message[c] = 0 /\ s.queue[c] = <<>> /\ s.h[c].msg = 0
  <2>1. Web!NotOpen.msg = 0
    BY DEF Web!NotOpen, Web!None
  <2> QED  BY <2>1 DEF Web!Init, Web!None
<1>2. FreedOnce(s) /\ \A c \in Conns : QueuedOnce(s, c)
  BY <1>1 DEF FreedOnce, QueuedOnce
<1>3. ASSUME NEW m \in MessageIds PROVE OnePlace(s, m)
  <2>1. ~(m < s.fresh) /\ m # 0
    BY <1>1 DEF MessageIds
  <2>2. ~InFreed(s, m) /\ \A c \in Conns : ~InWork(s, m, c) /\ ~InQueue(s, m, c) /\ ~InHand(s, m, c)
    BY <1>1, <2>1 DEF InFreed, InWork, InQueue, InHand
  <2> QED  BY <2>1, <2>2 DEF OnePlace, Has
<1> QED  BY <1>2, <1>3 DEF MessageInv

\* A function that maps different elements to different ones keeps the number.
LEMMA SameNumber ==
  ASSUME NEW S, IsFiniteSet(S), NEW T, NEW f \in [S -> T], \A t \in T : \E a \in S : f[a] = t,
         \A a, b \in S : f[a] = f[b] => a = b
  PROVE  IsFiniteSet(T) /\ Cardinality(T) = Cardinality(S)
<1>1. f \in Surjection(S, T)
  BY DEF Surjection
<1>2. f \in Injection(S, T)
  BY DEF Injection, IsInjective
<1> QED  BY <1>1, <1>2, FS_Surjection

\* When nothing is in hand the messages that are not freed are those of the parsers.
LEMMA AllFreed ==
  ASSUME WebType(s), MessageInv(s), IsFiniteSet(Conns),
         \A c \in Conns : s.queue[c] = <<>> /\ s.h[c].pc = "idle"
  PROVE  Len(s.freed) + Cardinality({c \in Conns : s.message[c] # Web!None}) = s.fresh - 1
<1> DEFINE O == {c \in Conns : s.message[c] # Web!None}
           B == {s.message[c] : c \in O}
           A == {s.freed[i] : i \in 1..Len(s.freed)}
<1>1. /\ s.freed \in Seq(MessageIds) /\ s.fresh \in MessageIds
      /\ \A c \in Conns : s.message[c] \in Nat /\ s.h[c].msg = 0 /\ s.queue[c] = <<>>
  BY DEF WebType, WebState, HandlerRight, Web!None
<1>2. IsFiniteSet(A) /\ Cardinality(A) = Len(s.freed)
  <2> DEFINE f == [i \in 1..Len(s.freed) |-> s.freed[i]]
  <2>1. Len(s.freed) \in Nat
    BY <1>1
  <2>2. IsFiniteSet(1..Len(s.freed)) /\ Cardinality(1..Len(s.freed)) = Len(s.freed)
    BY <2>1, FS_Interval
  <2>3. f \in [1..Len(s.freed) -> A] /\ \A t \in A : \E i \in 1..Len(s.freed) : f[i] = t
    OBVIOUS
  <2>4. \A i, j \in 1..Len(s.freed) : f[i] = f[j] => i = j
    BY DEF MessageInv, FreedOnce
  <2> HIDE DEF f, A
  <2> QED  BY <2>2, <2>3, <2>4, SameNumber
<1>3. IsFiniteSet(O)
  BY FS_Subset
<1>4. IsFiniteSet(B) /\ Cardinality(B) = Cardinality(O)
  <2> DEFINE f == [c \in O |-> s.message[c]]
  <2>1. f \in [O -> B] /\ \A t \in B : \E c \in O : f[c] = t
    OBVIOUS
  <2>2. ASSUME NEW c \in O, NEW d \in O, s.message[c] = s.message[d] PROVE c = d
    <3>1. s.message[c] \in MessageIds
      BY <1>1 DEF MessageIds, Web!None
    <3>2. Has(s, s.message[c], c) /\ Has(s, s.message[c], d)
      BY <2>2 DEF Has, InWork
    <3> QED  BY <3>1, <3>2 DEF MessageInv, OnePlace
  <2>3. \A c, d \in O : f[c] = f[d] => c = d
    BY <2>2
  <2> HIDE DEF f, B, O
  <2> QED  BY <1>3, <2>1, <2>3, SameNumber
<1>5. ASSUME NEW m \in MessageIds
      PROVE  /\ m < s.fresh <=> m \in A \/ m \in B
             /\ ~(m \in A /\ m \in B)
  <2>1. InFreed(s, m) <=> m \in A
    BY DEF InFreed
  <2>2. \A c \in Conns : Has(s, m, c) <=> InWork(s, m, c)
    BY <1>1 DEF Has, InQueue, InHand, MessageIds
  <2>3. (\E c \in Conns : Has(s, m, c)) <=> m \in B
    BY <2>2 DEF InWork, MessageIds, Web!None
  <2>4. OnePlace(s, m)
    BY DEF MessageInv
  <2> HIDE DEF A, B
  <2> QED  BY <2>1, <2>3, <2>4 DEF OnePlace
<1>6. A \subseteq MessageIds /\ B \subseteq MessageIds
  BY <1>1 DEF MessageIds, Web!None
<1> HIDE DEF A, B, O
<1>7. A \cap B = {}
  BY <1>5, <1>6
<1> DEFINE k == s.fresh - 1
<1>8. k \in Nat /\ \A m \in MessageIds : m < s.fresh <=> m \in 1..k
  BY <1>1 DEF MessageIds
<1>13. 1..k \subseteq MessageIds
  BY DEF MessageIds
<1> HIDE DEF k
<1>14. A \cup B = 1..k
  BY <1>5, <1>6, <1>8, <1>13
<1>9. Cardinality(1..k) = k
  BY <1>8, FS_Interval
<1>10. Cardinality(A \cup B) = Cardinality(A) + Cardinality(B) - 0
  BY <1>2, <1>4, <1>7, FS_Union, FS_EmptySet
<1>11. Cardinality(A) \in Nat /\ Cardinality(B) \in Nat
  BY <1>2, <1>4, FS_CardinalityType
<1>12. Len(s.freed) + Cardinality(O) = s.fresh - 1
  <2>1. Cardinality(A \cup B) = k
    BY <1>9, <1>14
  <2>2. k = Cardinality(A) + Cardinality(B)
    BY ONLY <1>10, <1>11, <2>1
  <2>3. k = Len(s.freed) + Cardinality(O)
    BY <1>2, <1>4, <2>2
  <2> QED  BY <2>3 DEF k
<1> QED  BY <1>12 DEF O

\* The module instance counts as the library does.
LEMMA SameCardinality ==
  ASSUME NEW S PROVE Web!Cardinality(S) = Cardinality(S)
  BY Zenon DEF Web!Cardinality, Cardinality

LEMMA OnceFreed ==
  ASSUME WebType(s), Defined(s) => MessageInv(s), IsFiniteSet(Conns) PROVE Web!MessagesFreedOnce
<1> SUFFICES ASSUME MessageInv(s)
             PROVE  /\ Web!IsInjective(s.freed)
                    /\ \A c \in Conns : s.message[c] \notin Web!ToSet(s.freed) /\ s.h[c].msg \notin Web!ToSet(s.freed)
                    /\ (\A c \in Conns : s.queue[c] = <<>> /\ s.h[c].pc = "idle") =>
                         Len(s.freed) + Web!Cardinality({c \in Conns : s.message[c] # Web!None}) = s.fresh - 1
  BY DEF Web!MessagesFreedOnce, Web!Defined, Defined
<1>1. s.freed \in Seq(MessageIds)
  BY DEF WebType, WebState
<1>2. DOMAIN s.freed = 1..Len(s.freed)
  BY <1>1
<1>3. Web!IsInjective(s.freed)
  BY <1>2 DEF MessageInv, FreedOnce, Web!IsInjective
<1>4. ASSUME NEW c \in Conns PROVE s.message[c] \notin Web!ToSet(s.freed) /\ s.h[c].msg \notin Web!ToSet(s.freed)
  <2>1. \A m : m \in Web!ToSet(s.freed) <=> InFreed(s, m)
    BY <1>2 DEF Web!ToSet, InFreed
  <2>2. \A m : InFreed(s, m) => m \in MessageIds
    BY <1>1 DEF InFreed
  <2>3. Has(s, s.message[c], c) /\ Has(s, s.h[c].msg, c)
    BY DEF Has, InWork, InHand
  <2> QED  BY <2>1, <2>2, <2>3 DEF MessageInv, OnePlace
<1> QED  BY <1>3, <1>4, AllFreed, SameCardinality

WebConstants == MAX_BODY_SIZE \in Nat /\ MaxSize \in Nat /\ IsFiniteSet(Conns)

\* http_server.cc:48-158: however requests are parsed and handled while the connection is closed by
\* its peer or after its answer, no message is freed twice or is still in use when it is freed, and
\* none is lost, as long as no request has been refused (handle_thread.h:200-216).
THEOREM EveryMessageFreed ==
  ASSUME WebConstants
  PROVE  Spec => []MessagesFreedOnce
<1>1. Init => (part = "web" => (WebType(s) /\ (Defined(s) => MessageInv(s))))
  BY PartInit, WebInit, MessagesInit
<1>2. (part = "web" => (WebType(s) /\ (Defined(s) => MessageInv(s)))) /\ [Next]_vars => (part = "web" => (WebType(s) /\ (Defined(s) => MessageInv(s))))'
  <2>1. SUFFICES ASSUME (part = "web" => (WebType(s) /\ (Defined(s) => MessageInv(s)))), [Next]_vars, part' = "web" PROVE (WebType(s) /\ (Defined(s) => MessageInv(s)))'
    OBVIOUS
  <2>2. part = "web" /\ [Web!Next]_s
    BY <2>1, PartSteps
  <2> QED  BY <2>1, <2>2, WebTypeNext, MessagesNext DEF WebConstants
<1>3. (part = "web" => (WebType(s) /\ (Defined(s) => MessageInv(s)))) => MessagesFreedOnce
  BY OnceFreed DEF MessagesFreedOnce, WebConstants
<1> QED  BY <1>1, <1>2, <1>3, PTL DEF Spec

-----------------------------------------------------------------------------
\* A peer hears once: the commands for its connection, as they are added and executed.

LEMMA AppendKeepsFirst ==
  ASSUME NEW q \in Seq(Commands), NEW m \in Commands, NEW c, NEW n \in Nat, NEW i, FirstFor(q, c, n, i)
  PROVE  i \in 1..Len(Append(q, m)) /\ FirstFor(Append(q, m), c, n, i) /\ Append(q, m)[i] = q[i]
<1> DEFINE p == Append(q, m)
<1>1. Len(q) \in Nat /\ Len(p) = Len(q) + 1 /\ \A j \in 1..Len(q) : p[j] = q[j]
  BY AppendIs
<1> HIDE DEF p
<1>2. i \in n + 1..Len(q) /\ q[i][2] = c /\ \A j \in n + 1..i - 1 : q[j][2] # c
  BY DEF FirstFor
<1>3. i \in 1..Len(q) /\ i \in 1..Len(p) /\ i \in n + 1..Len(p) /\ \A j \in n + 1..i - 1 : j \in 1..Len(q)
  BY <1>1, <1>2
<1> QED  BY <1>1, <1>2, <1>3 DEF FirstFor, p

LEMMA AppendOther ==
  ASSUME NEW q \in Seq(Commands), NEW m \in Commands, NEW c, NEW n \in Nat, m[2] # c, NoneFor(q, c, n)
  PROVE  NoneFor(Append(q, m), c, n)
<1> DEFINE p == Append(q, m)
<1>1. Len(q) \in Nat /\ Len(p) = Len(q) + 1 /\ p[Len(q) + 1] = m /\ \A j \in 1..Len(q) : p[j] = q[j]
  BY AppendIs
<1> HIDE DEF p
<1>2. \A j \in n + 1..Len(p) : j = Len(q) + 1 \/ (j \in 1..Len(q) /\ j \in n + 1..Len(q))
  BY <1>1
<1> QED  BY <1>1, <1>2 DEF NoneFor, p

LEMMA AppendOwn ==
  ASSUME NEW q \in Seq(Commands), NEW m \in Commands, NEW c, NEW n \in 0..Len(q), m[2] = c, NoneFor(q, c, n)
  PROVE  /\ Len(q) + 1 \in 1..Len(Append(q, m)) /\ FirstFor(Append(q, m), c, n, Len(q) + 1)
         /\ Append(q, m)[Len(q) + 1] = m /\ NoneFor(Append(q, m), c, Len(q) + 1)
<1> DEFINE p == Append(q, m)
           l == Len(q) + 1
<1>1. l \in Nat /\ Len(q) \in Nat /\ Len(p) = l /\ p[l] = m /\ \A j \in 1..Len(q) : p[j] = q[j]
  BY AppendIs
<1>2. \A j \in n + 1..l - 1 : j \in 1..Len(q) /\ j \in n + 1..Len(q)
  BY <1>1
<1>3. l \in n + 1..l /\ l \in 1..l /\ l + 1..l = {}
  BY <1>1
<1> HIDE DEF p, l
<1> QED  BY <1>1, <1>2, <1>3 DEF FirstFor, NoneFor, p, l

\* The first command is executed.
LEMMA TailNone ==
  ASSUME NEW q \in Seq(Commands), q # <<>>, NEW c, NEW n \in Nat, NEW k \in Nat, NoneFor(q, c, n),
         n = k + 1 \/ (n = 0 /\ k = 0)
  PROVE  NoneFor(Tail(q), c, k)
<1> DEFINE p == Tail(q)
<1>1. Len(q) \in Nat /\ Len(p) = Len(q) - 1 /\ \A j \in 1..Len(q) - 1 : p[j] = q[j + 1]
  BY FrontOf
<1> HIDE DEF p
<1>2. \A j \in k + 1..Len(p) : j \in 1..Len(q) - 1 /\ j + 1 \in n + 1..Len(q)
  BY <1>1
<1> QED  BY <1>1, <1>2 DEF NoneFor, p

Shifts(q, c, n, k) == n = k + 1 \/ (n = 0 /\ k = 0 /\ q[1][2] # c)
Less(i, h) == i \in Nat => h = i - 1
LEMMA TailFirst ==
  ASSUME NEW w \in Seq(Commands), w # <<>>, NEW c, NEW n \in Nat, NEW k \in Nat, NEW i, FirstFor(w, c, n, i),
         Shifts(w, c, n, k), NEW v, v = Tail(w), NEW g, Less(i, g)
  PROVE  g \in 1..Len(v) /\ FirstFor(v, c, k, g)
<1>1. Len(w) \in Nat /\ Len(v) = Len(w) - 1 /\ \A j \in 1..Len(w) - 1 : v[j] = w[j + 1]
  BY FrontOf
<1>2. i \in n + 1..Len(w) /\ w[i][2] = c /\ \A j \in n + 1..i - 1 : w[j][2] # c
  BY DEF FirstFor
<1>7. n = k + 1 \/ (n = 0 /\ k = 0 /\ w[1][2] # c)
  BY DEF Shifts
<1>3. i \in Nat /\ i # 1 /\ g = i - 1
  BY <1>2, <1>7 DEF Less
<1>4. i - 1 \in k + 1..Len(v) /\ i - 1 \in 1..Len(w) - 1 /\ (i - 1) + 1 = i
  BY <1>1, <1>2, <1>3, <1>7
<1>5. \A j \in k + 1..(i - 1) - 1 : j \in 1..Len(w) - 1 /\ j + 1 \in n + 1..i - 1
  BY <1>1, <1>2, <1>3, <1>4, <1>7
<1>6. i - 1 \in 1..Len(v)
  BY <1>1, <1>4
<1> QED  BY <1>1, <1>2, <1>3, <1>4, <1>5, <1>6 DEF FirstFor

LEMMA FirstIsFirst ==
  ASSUME NEW q \in Seq(Commands), q # <<>>, NEW c, q[1][2] = c
  PROVE  ~NoneFor(q, c, 0) /\ \A i : FirstFor(q, c, 0, i) => i = 1
<1>1. Len(q) \in Nat /\ 1 \in 0 + 1..Len(q)
  BY FrontOf
<1>2. ASSUME NEW i, FirstFor(q, c, 0, i), i # 1 PROVE FALSE
  <2>1. i \in 0 + 1..Len(q) /\ \A j \in 0 + 1..i - 1 : q[j][2] # c
    BY <1>2 DEF FirstFor
  <2>2. 1 \in 0 + 1..i - 1
    BY <1>2, <2>1
  <2> QED  BY <2>1, <2>2
<1> QED  BY <1>1, <1>2 DEF NoneFor

\* That c is told to close next, or that its answer is next, is kept.
LEMMA CloseNextKept ==
  ASSUME NEW x, NEW y, NEW c, NEW n \in Nat, x.cmds \in Seq(Commands), CloseNext(x, c, n),
         y.h[c].pc = x.h[c].pc \/ x.h[c].pc # "close",
         \/ y.cmds = x.cmds
         \/ \E m \in Commands : /\ y.cmds = Append(x.cmds, m)
                                /\ m[2] # c \/ x.h[c].pc # "close"
  PROVE  CloseNext(y, c, n)
<1>1. CASE y.cmds = x.cmds
  BY <1>1 DEF CloseNext
<1>2. ASSUME NEW m \in Commands, y.cmds = Append(x.cmds, m), m[2] # c \/ x.h[c].pc # "close"
      PROVE  CloseNext(y, c, n)
  <2>1. ASSUME NEW i, FirstFor(x.cmds, c, n, i), x.cmds[i][1] = "close" PROVE CloseNext(y, c, n)
    BY <1>2, <2>1, AppendKeepsFirst DEF CloseNext
  <2>2. CASE NoneFor(x.cmds, c, n) /\ x.h[c].pc = "close"
    BY <1>2, <2>2, AppendOther DEF CloseNext
  <2> QED  BY <2>1, <2>2 DEF CloseNext
<1> QED  BY <1>1, <1>2

LEMMA CloseNextTail ==
  ASSUME NEW x, NEW y, NEW c, NEW n \in Nat, NEW k \in Nat, x.cmds \in Seq(Commands), x.cmds # <<>>,
         CloseNext(x, c, n), y.h[c].pc = x.h[c].pc, y.cmds = Tail(x.cmds),
         n = k + 1 \/ (n = 0 /\ k = 0 /\ x.cmds[1][2] # c)
  PROVE  CloseNext(y, c, k)
<1>1. ASSUME NEW i, FirstFor(x.cmds, c, n, i), x.cmds[i][1] = "close" PROVE CloseNext(y, c, k)
  <2>1. PICK q : q = x.cmds
    OBVIOUS
  <2>2. PICK p : p = Tail(q)
    OBVIOUS
  <2>3. PICK h : h = i - 1
    OBVIOUS
  <2>4. Less(i, h) /\ Shifts(q, c, n, k) /\ 0 \in Nat
    BY <2>1, <2>3 DEF Less, Shifts
  <2>5. q \in Seq(Commands) /\ q # <<>> /\ FirstFor(q, c, n, i)
    BY <1>1, <2>1
  <2>6. h \in 1..Len(p) /\ FirstFor(p, c, k, h)
    BY <2>2, <2>4, <2>5, TailFirst
  <2>8. p[h] = q[i]
    <3>1. Len(p) = Len(q) - 1 /\ \A j \in 1..Len(q) - 1 : p[j] = q[j + 1]
      BY <2>2, <2>5, FrontOf
    <3>2. i = h + 1
      BY <2>3, <2>5 DEF FirstFor
    <3> QED  BY <2>6, <3>1, <3>2
  <2>7. p = y.cmds
    BY <2>1, <2>2
  <2> QED  BY <1>1, <2>1, <2>6, <2>7, <2>8 DEF CloseNext
<1>2. CASE NoneFor(x.cmds, c, n) /\ x.h[c].pc = "close"
  <2>1. NoneFor(y.cmds, c, k)
    BY <1>2, TailNone
  <2> QED  BY <1>2, <2>1 DEF CloseNext
<1> QED  BY <1>1, <1>2 DEF CloseNext

LEMMA AnswerNextKept ==
  ASSUME NEW x, NEW y, NEW c, x.cmds \in Seq(Commands), AnswerNext(x, c), y.asked[c][1] = x.asked[c][1],
         y.h[c].pc = x.h[c].pc \/ x.h[c].pc # "close",
         \/ y.cmds = x.cmds
         \/ \E m \in Commands : /\ y.cmds = Append(x.cmds, m)
                                /\ m[2] # c \/ x.h[c].pc # "close"
  PROVE  AnswerNext(y, c)
<1>1. PICK i \in 1..Len(x.cmds) : /\ FirstFor(x.cmds, c, 0, i) /\ x.cmds[i][1] = "send"
                                  /\ x.cmds[i][3] = x.asked[c][1] /\ CloseNext(x, c, i)
  BY DEF AnswerNext
<1>2. i \in Nat
  BY <1>1
<1>3. CloseNext(y, c, i)
  BY <1>1, <1>2, CloseNextKept
<1>4. i \in 1..Len(y.cmds) /\ FirstFor(y.cmds, c, 0, i) /\ y.cmds[i] = x.cmds[i]
  <2>1. ASSUME NEW m \in Commands, y.cmds = Append(x.cmds, m)
        PROVE  i \in 1..Len(y.cmds) /\ FirstFor(y.cmds, c, 0, i) /\ y.cmds[i] = x.cmds[i]
    <3>1. 0 \in Nat
      OBVIOUS
    <3> QED  BY <1>1, <2>1, <3>1, AppendKeepsFirst
  <2> QED  BY <1>1, <2>1
<1> QED  BY <1>1, <1>3, <1>4 DEF AnswerNext

LEMMA AnswerNextTail ==
  ASSUME NEW x, NEW y, NEW c, x.cmds \in Seq(Commands), x.cmds # <<>>, AnswerNext(x, c),
         y.asked[c] = x.asked[c], y.h[c].pc = x.h[c].pc, y.cmds = Tail(x.cmds), x.cmds[1][2] # c
  PROVE  AnswerNext(y, c)
<1>1. PICK i \in 1..Len(x.cmds) : /\ FirstFor(x.cmds, c, 0, i) /\ x.cmds[i][1] = "send"
                                  /\ x.cmds[i][3] = x.asked[c][1] /\ CloseNext(x, c, i)
  BY DEF AnswerNext
<1>2. i \in Nat /\ i - 1 \in Nat /\ i = (i - 1) + 1
  BY <1>1
<1>3. CloseNext(y, c, i - 1)
  BY <1>1, <1>2, CloseNextTail
<1>4. i - 1 \in 1..Len(y.cmds) /\ FirstFor(y.cmds, c, 0, i - 1) /\ y.cmds[i - 1] = x.cmds[i]
  <2>1. PICK q : q = x.cmds
    OBVIOUS
  <2>2. PICK p : p = Tail(q)
    OBVIOUS
  <2>3. PICK h : h = i - 1
    OBVIOUS
  <2>4. Less(i, h) /\ Shifts(q, c, 0, 0) /\ 0 \in Nat
    BY <2>1, <2>3 DEF Less, Shifts
  <2>5. q \in Seq(Commands) /\ q # <<>> /\ FirstFor(q, c, 0, i)
    BY <1>1, <2>1
  <2>6. h \in 1..Len(p) /\ FirstFor(p, c, 0, h)
    BY <2>2, <2>4, <2>5, TailFirst
  <2>8. p[h] = q[i]
    <3>1. Len(p) = Len(q) - 1 /\ \A j \in 1..Len(q) - 1 : p[j] = q[j + 1]
      BY <2>2, <2>5, FrontOf
    <3>2. i = h + 1
      BY <2>3, <2>5 DEF FirstFor
    <3> QED  BY <2>6, <3>1, <3>2
  <2> QED  BY <2>1, <2>2, <2>3, <2>6, <2>8
<1> QED  BY <1>1, <1>3, <1>4 DEF AnswerNext

\* The stages of a connection.
SameFor(x, y, c) == /\ y.conn[c] = x.conn[c] /\ y.asked[c] = x.asked[c] /\ y.got[c] = x.got[c]
                    /\ y.queue[c] = x.queue[c] /\ y.h[c] = x.h[c] /\ (c \in y.lost <=> c \in x.lost)

LEMMA StageKept ==
  ASSUME NEW x, NEW y, NEW c, x.cmds \in Seq(Commands), Stage(x, c), SameFor(x, y, c),
         \/ y.cmds = x.cmds
         \/ \E m \in Commands : y.cmds = Append(x.cmds, m) /\ m[2] # c
         \/ x.cmds # <<>> /\ y.cmds = Tail(x.cmds) /\ x.cmds[1][2] # c
  PROVE  Stage(y, c)
<1>0. 0 \in Nat
  OBVIOUS
<1>1. NoneFor(x.cmds, c, 0) => NoneFor(y.cmds, c, 0)
  BY <1>0, AppendOther, TailNone
<1>2. CloseNext(x, c, 0) => CloseNext(y, c, 0)
  <2>1. CASE y.cmds = x.cmds \/ \E m \in Commands : y.cmds = Append(x.cmds, m) /\ m[2] # c
    BY <1>0, <2>1, CloseNextKept DEF SameFor
  <2>2. CASE x.cmds # <<>> /\ y.cmds = Tail(x.cmds) /\ x.cmds[1][2] # c
    BY <1>0, <2>2, CloseNextTail DEF SameFor
  <2> QED  BY <2>1, <2>2
<1>3. AnswerNext(x, c) => AnswerNext(y, c)
  <2>1. CASE y.cmds = x.cmds \/ \E m \in Commands : y.cmds = Append(x.cmds, m) /\ m[2] # c
    BY <2>1, AnswerNextKept DEF SameFor
  <2>2. CASE x.cmds # <<>> /\ y.cmds = Tail(x.cmds) /\ x.cmds[1][2] # c
    BY <2>2, AnswerNextTail DEF SameFor
  <2> QED  BY <2>1, <2>2
<1>4. Unanswered(x, c) => Unanswered(y, c)
  BY <1>1 DEF Unanswered, SameFor
<1>5. Answered(x, c) => Answered(y, c)
  BY DEF Answered, SameFor
<1> QED  BY <1>2, <1>3, <1>4, <1>5 DEF Stage, SameFor

LEMMA StageCreate ==
  ASSUME WebType(s), NEW c \in Conns, Stage(s, c), Web!CreateConnectorCB(c) PROVE Stage(s', c)
<1>1. /\ s.conn[c] = "no" /\ s'.conn[c] = "open" /\ s'.queue = s.queue /\ s'.h = s.h /\ s'.asked = s.asked
      /\ s'.cmds = s.cmds /\ s'.got = s.got
  BY CreateStep
<1>2. Unanswered(s, c) /\ s.got[c] = <<>>
  BY <1>1 DEF Stage
<1>3. Unanswered(s', c) /\ s'.got[c] = <<>>
  BY <1>1, <1>2 DEF Unanswered
<1> QED  BY <1>1, <1>3 DEF Stage

LEMMA CommandsOf ==
  ASSUME WebType(s), NEW c \in Conns
  PROVE  /\ s.cmds \in Seq(Commands) /\ s.queue[c] \in Queues /\ s.asked[c] \in Seq(Paths)
         /\ s.conn[c] \in {"no", "open", "closed", "left"} /\ s.got[c] \in Seq(Paths \X Answers)
  BY DEF WebType, WebState, Queues

LEMMA FirstOfAppend ==
  ASSUME NEW S, NEW q \in Seq(S), NEW e \in S
  PROVE  Append(q, e) # <<>> /\ Append(q, e)[1] = IF q = <<>> THEN e ELSE q[1]
<1>1. /\ Len(q) \in Nat /\ Len(Append(q, e)) = Len(q) + 1 /\ Append(q, e)[Len(q) + 1] = e
      /\ \A i \in 1..Len(q) : Append(q, e)[i] = q[i]
  BY AppendIs
<1>2. Append(q, e) # <<>>
  BY <1>1
<1>3. CASE q = <<>>
  <2>1. Len(q) = 0
    BY <1>3
  <2> QED  BY <1>1, <1>2, <1>3, <2>1
<1>4. CASE q # <<>>
  <2>1. 1 \in 1..Len(q)
    BY <1>4
  <2> QED  BY <1>1, <1>2, <1>4, <2>1
<1> QED  BY <1>3, <1>4

LEMMA StageParse ==
  ASSUME WebType(s), NEW c \in Conns, NEW p \in Paths, Stage(s, c), Web!Parse(c, p) PROVE Stage(s', c)
<1> DEFINE r == [msg |-> s.message[c], path |-> p]
<1>1. /\ s.conn[c] = "open" /\ s'.conn[c] = "open" /\ s'.h = s.h /\ s'.cmds = s.cmds /\ s'.got = s.got
      /\ s'.lost = s.lost
      /\ \/ s'.queue[c] = Append(s.queue[c], r) /\ s'.asked[c] = Append(s.asked[c], p)
         \/ s'.queue = s.queue /\ s'.asked = s.asked
  BY ParseStep
<1>2. s.cmds \in Seq(Commands) /\ s.queue[c] \in Queues /\ s.asked[c] \in Seq(Paths)
  BY CommandsOf
<1>3. CASE s'.queue = s.queue /\ s'.asked = s.asked
  <2>1. SameFor(s, s', c)
    BY <1>1, <1>3 DEF SameFor
  <2> QED  BY <1>1, <1>2, <2>1, StageKept
<1>4. CASE s'.queue[c] = Append(s.queue[c], r) /\ s'.asked[c] = Append(s.asked[c], p)
  <2>1. s'.asked[c] # <<>> /\ s'.asked[c][1] = IF s.asked[c] = <<>> THEN p ELSE s.asked[c][1]
    BY <1>2, <1>4, FirstOfAppend
  <2>2. r.path = p /\ r \in [msg : MessageIds, path : Paths]
    BY <1>1, MessageFields DEF MessageIds
  <2> HIDE DEF r
  <2>3. s'.queue[c] # <<>> /\ s'.queue[c][1] = IF s.queue[c] = <<>> THEN r ELSE s.queue[c][1]
    BY <1>2, <1>4, <2>2 DEF Queues
  <2>4. CASE Answered(s, c) /\ CloseNext(s, c, 0)
    <3>1. Answered(s', c)
      BY <1>1, <2>1, <2>4 DEF Answered
    <3>2. CloseNext(s', c, 0)
      BY <1>1, <2>4 DEF CloseNext
    <3> QED  BY <1>1, <3>1, <3>2 DEF Stage
  <2>5. CASE s.got[c] = <<>> /\ s.asked[c] # <<>> /\ AnswerNext(s, c)
    <3>1. AnswerNext(s', c)
      BY <1>1, <1>2, <2>1, <2>5, AnswerNextKept
    <3> QED  BY <1>1, <2>1, <2>5, <3>1 DEF Stage
  <2>6. CASE s.got[c] = <<>> /\ Unanswered(s, c)
    <3>1. Unanswered(s', c)
      BY <1>1, <2>1, <2>2, <2>3, <2>6 DEF Unanswered
    <3> QED  BY <1>1, <2>6, <3>1 DEF Stage
  <2> QED  BY <1>1, <2>4, <2>5, <2>6 DEF Stage
<1> QED  BY <1>1, <1>3, <1>4

LEMMA StageLeft ==
  ASSUME NEW c \in Conns, Stage(s, c), Closing(s, s', c, "left") PROVE Stage(s', c)
<1>1. s.conn[c] = "open" /\ s'.conn[c] = "left" /\ s'.got = s.got /\ s'.asked = s.asked /\ s'.lost = s.lost
  BY DEF Closing
<1>2. s.got[c] = <<>> \/ Answered(s, c)
  BY <1>1 DEF Stage
<1>3. s'.got[c] = <<>> \/ Answered(s', c)
  BY <1>1, <1>2 DEF Answered
<1> QED  BY <1>1, <1>3 DEF Stage

\* A step of the handler that adds no command.
LEMMA StageWork ==
  ASSUME WebType(s), NEW c \in Conns, Stage(s, c), Handling(s, s', c), s'.cmds = s.cmds,
         s.h[c].pc # "close", Unanswered(s, c) => s'.h[c].pc # "close" /\ Unanswered(s', c),
         s.conn[c] # "no"
  PROVE  Stage(s', c)
<1>1. s'.conn = s.conn /\ s'.asked = s.asked /\ s'.got = s.got /\ (c \in s.lost => c \in s'.lost)
  BY DEF Handling
<1>2. s.cmds \in Seq(Commands) /\ 0 \in Nat
  BY CommandsOf
<1>3. CloseNext(s, c, 0) => CloseNext(s', c, 0)
  BY <1>2, CloseNextKept
<1>4. AnswerNext(s, c) => AnswerNext(s', c)
  BY <1>1, <1>2, AnswerNextKept
<1>5. Answered(s, c) => Answered(s', c)
  BY <1>1 DEF Answered
<1> QED  BY <1>1, <1>3, <1>4, <1>5 DEF Stage

LEMMA StageTake ==
  ASSUME WebType(s), NEW c \in Conns, Stage(s, c), Web!Take(c) PROVE Stage(s', c)
<1>1. /\ Handling(s, s', c) /\ s'.cmds = s.cmds /\ s.h[c].pc = "idle" /\ s.queue[c] # <<>>
      /\ s'.h[c].pc = "process" /\ s'.h[c].path = s.queue[c][1].path
  BY TakeStep
<1>2. Unanswered(s, c) => s.asked[c] # <<>> /\ Unanswered(s', c)
  BY <1>1 DEF Unanswered, Handling
<1>3. s.conn[c] # "no"
  BY <1>2 DEF Stage
<1> QED  BY <1>1, <1>2, <1>3, StageWork

LEMMA StageWorks ==
  ASSUME WebType(s), NEW c \in Conns, Stage(s, c), Works(s, s', c) PROVE Stage(s', c)
<1>1. /\ Handling(s, s', c) /\ s'.cmds = s.cmds /\ s'.queue = s.queue
      /\ s.h[c].pc \in {"process", "stat", "read"} /\ s'.h[c].pc \in {"stat", "read", "send"}
      /\ s'.h[c].path = s.h[c].path
  BY DEF Works
<1>2. Unanswered(s, c) => Unanswered(s', c)
  BY <1>1 DEF Unanswered, Handling
<1>3. s.conn[c] # "no"
  BY <1>1 DEF Stage
<1> QED  BY <1>1, <1>2, <1>3, StageWork

LEMMA StageSends ==
  ASSUME WebType(s), NEW c \in Conns, Stage(s, c), Sends(s, s', c) PROVE Stage(s', c)
<1> DEFINE m == <<"send", c, s.h[c].path, s.h[c].answer>>
<1>1. /\ s.h[c].pc = "send" /\ s'.h[c].pc = "close" /\ s'.cmds = Append(s.cmds, m) /\ m \in Commands
      /\ s'.conn = s.conn /\ s'.asked = s.asked /\ s'.got = s.got /\ (c \in s.lost => c \in s'.lost)
  BY DEF Sends, Hands, Handling
<1>2. s.cmds \in Seq(Commands) /\ 0 \in Nat /\ s.conn[c] # "no" /\ Len(s.cmds) \in Nat /\ 0 \in 0..Len(s.cmds)
  <2>1. s.cmds \in Seq(Commands)
    BY CommandsOf
  <2> QED  BY <1>1, <2>1 DEF Stage
<1>3. m[1] = "send" /\ m[2] = c /\ m[3] = s.h[c].path
  OBVIOUS
<1> HIDE DEF m
<1>4. CloseNext(s, c, 0) => CloseNext(s', c, 0)
  BY <1>1, <1>2, CloseNextKept
<1>5. AnswerNext(s, c) => AnswerNext(s', c)
  BY <1>1, <1>2, AnswerNextKept
<1>6. Answered(s, c) => Answered(s', c)
  BY <1>1 DEF Answered
<1>7. Unanswered(s, c) => AnswerNext(s', c) /\ s'.asked[c] # <<>>
  <2>1. SUFFICES ASSUME Unanswered(s, c) PROVE AnswerNext(s', c) /\ s'.asked[c] # <<>>
    OBVIOUS
  <2>2. NoneFor(s.cmds, c, 0) /\ s.asked[c] # <<>> /\ s.h[c].path = s.asked[c][1]
    BY <1>1, <2>1 DEF Unanswered
  <2> DEFINE l == Len(s.cmds) + 1
  <2>3. /\ l \in 1..Len(s'.cmds) /\ FirstFor(s'.cmds, c, 0, l)
        /\ s'.cmds[l] = m /\ NoneFor(s'.cmds, c, l)
    BY <1>1, <1>2, <1>3, <2>2, AppendOwn
  <2> HIDE DEF l
  <2>4. CloseNext(s', c, l)
    BY <1>1, <2>3 DEF CloseNext
  <2> QED  BY <1>1, <1>3, <2>2, <2>3, <2>4 DEF AnswerNext
<1> QED  BY <1>1, <1>2, <1>4, <1>5, <1>6, <1>7 DEF Stage

\* The answer is dropped: the close comes next.
LEMMA StageLoses ==
  ASSUME WebType(s), NEW c \in Conns, Stage(s, c), Loses(s, s', c) PROVE Stage(s', c)
<1>1. /\ s.h[c].pc = "send" /\ s'.h[c].pc = "close" /\ s'.cmds = s.cmds
      /\ s'.conn = s.conn /\ s'.asked = s.asked /\ s'.got = s.got /\ c \in s'.lost
  BY DEF Loses, Hands, Handling
<1>2. s.cmds \in Seq(Commands) /\ 0 \in Nat /\ s.conn[c] # "no"
  BY <1>1, CommandsOf DEF Stage
<1>3. CloseNext(s, c, 0) => CloseNext(s', c, 0)
  BY <1>1, <1>2, CloseNextKept
<1>4. AnswerNext(s, c) => AnswerNext(s', c)
  BY <1>1, <1>2, AnswerNextKept
<1>5. Answered(s, c) => Answered(s', c)
  BY <1>1 DEF Answered
<1>6. Unanswered(s, c) => CloseNext(s', c, 0)
  BY <1>1 DEF Unanswered, CloseNext, NoneFor
<1>7. s.got[c] = <<>> => Answered(s', c)
  BY <1>1 DEF Answered
<1> QED  BY <1>1, <1>2, <1>3, <1>4, <1>5, <1>6, <1>7 DEF Stage

LEMMA CloseNextEnds ==
  ASSUME WebType(s), NEW c \in Conns, NEW n \in 0..Len(s.cmds), CloseNext(s, c, n), Ends(s, s', c)
  PROVE  CloseNext(s', c, n)
<1> DEFINE m == <<"close", c>>
<1>1. s.cmds \in Seq(Commands) /\ n \in Nat
  BY CommandsOf
<1>2. s'.cmds = Append(s.cmds, m) /\ m \in Commands /\ m[1] = "close" /\ m[2] = c
  BY DEF Ends
<1> HIDE DEF m
<1>3. ASSUME NEW i, FirstFor(s.cmds, c, n, i), s.cmds[i][1] = "close" PROVE CloseNext(s', c, n)
  BY <1>1, <1>2, <1>3, AppendKeepsFirst DEF CloseNext
<1>4. CASE NoneFor(s.cmds, c, n)
  <2> DEFINE l == Len(s.cmds) + 1
  <2>1. l \in 1..Len(s'.cmds) /\ FirstFor(s'.cmds, c, n, l) /\ s'.cmds[l] = m
    BY <1>1, <1>2, <1>4, AppendOwn
  <2> HIDE DEF l
  <2> QED  BY <1>2, <2>1 DEF CloseNext
<1> QED  BY <1>3, <1>4 DEF CloseNext

LEMMA StageEnds ==
  ASSUME WebType(s), NEW c \in Conns, Stage(s, c), Ends(s, s', c) PROVE Stage(s', c)
<1> DEFINE m == <<"close", c>>
<1>1. /\ s.h[c].pc = "close" /\ s'.cmds = Append(s.cmds, m) /\ m \in Commands
      /\ s'.conn = s.conn /\ s'.asked = s.asked /\ s'.got = s.got /\ (c \in s.lost => c \in s'.lost)
  BY DEF Ends, Handling
<1>2. s.cmds \in Seq(Commands) /\ s.conn[c] # "no" /\ Len(s.cmds) \in Nat /\ 0 \in 0..Len(s.cmds) /\ 0 \in Nat
  <2>1. s.cmds \in Seq(Commands)
    BY CommandsOf
  <2> QED  BY <1>1, <2>1 DEF Stage
<1> HIDE DEF m
<1>3. CloseNext(s, c, 0) => CloseNext(s', c, 0)
  BY <1>2, CloseNextEnds
<1>4. AnswerNext(s, c) => AnswerNext(s', c)
  <2>1. SUFFICES ASSUME AnswerNext(s, c) PROVE AnswerNext(s', c)
    OBVIOUS
  <2>2. PICK i \in 1..Len(s.cmds) : /\ FirstFor(s.cmds, c, 0, i) /\ s.cmds[i][1] = "send"
                                    /\ s.cmds[i][3] = s.asked[c][1] /\ CloseNext(s, c, i)
    BY <2>1 DEF AnswerNext
  <2>3. i \in 0..Len(s.cmds)
    BY <1>2, <2>2
  <2>4. CloseNext(s', c, i)
    BY <2>2, <2>3, CloseNextEnds
  <2>5. i \in 1..Len(s'.cmds) /\ FirstFor(s'.cmds, c, 0, i) /\ s'.cmds[i] = s.cmds[i]
    BY <1>1, <1>2, <2>2, AppendKeepsFirst
  <2> QED  BY <1>1, <2>2, <2>4, <2>5 DEF AnswerNext
<1>5. Answered(s, c) => Answered(s', c)
  BY <1>1 DEF Answered
<1>6. ~Unanswered(s, c)
  BY <1>1 DEF Unanswered
<1> QED  BY <1>1, <1>2, <1>3, <1>4, <1>5, <1>6 DEF Stage

\* A command for c is executed.
LEMMA StageExecute ==
  ASSUME WebType(s), NEW c \in Conns, Stage(s, c), s.cmds # <<>>, s.cmds[1][2] = c, s'.cmds = Tail(s.cmds),
         Drops(s, s') \/ Delivers(s, s', c) \/ (Closing(s, s', c, "closed") /\ s.cmds[1][1] = "close")
  PROVE  Stage(s', c)
<1>1. s.cmds \in Seq(Commands) /\ 0 \in Nat
  BY CommandsOf
<1>2. ~NoneFor(s.cmds, c, 0) /\ \A i : FirstFor(s.cmds, c, 0, i) => i = 1
  BY <1>1, FirstIsFirst
<1>3. ~Unanswered(s, c) /\ s.conn[c] # "no"
  BY <1>2 DEF Unanswered, Stage
<1>4. CloseNext(s, c, 0) => s.cmds[1][1] = "close"
  BY <1>2 DEF CloseNext
<1>5. AnswerNext(s, c) => /\ s.cmds[1][1] = "send" /\ s.cmds[1][3] = s.asked[c][1]
                          /\ CloseNext(s, c, 1)
  BY <1>2 DEF AnswerNext
<1>6. CASE Drops(s, s')
  <2>1. s.conn[c] \in {"closed", "left"} /\ s'.conn = s.conn /\ s'.got = s.got /\ s'.asked = s.asked
        /\ s'.lost = s.lost
    BY <1>3, <1>6, CommandsOf DEF Drops
  <2>2. Answered(s, c) => Answered(s', c)
    BY <2>1 DEF Answered
  <2> QED  BY <2>1, <2>2 DEF Stage
<1>7. CASE Delivers(s, s', c)
  <2> DEFINE a == <<s.cmds[1][3], s.cmds[1][4]>>
  <2>1. /\ s.conn[c] = "open" /\ s.cmds[1][1] = "send" /\ s'.got[c] = Append(s.got[c], a)
        /\ a \in Paths \X Answers /\ s'.asked = s.asked /\ s'.conn = s.conn /\ s'.h = s.h
    BY <1>7 DEF Delivers
  <2>2. s.got[c] = <<>> /\ s.asked[c] # <<>> /\ a[1] = s.asked[c][1] /\ CloseNext(s, c, 1)
    BY <1>3, <1>4, <1>5, <2>1 DEF Stage
  <2> HIDE DEF a
  <2>3. Len(s'.got[c]) = 1 /\ s'.got[c][1] = a
    BY <2>1, <2>2
  <2>4. Answered(s', c)
    BY <2>1, <2>2, <2>3 DEF Answered
  <2>5. 1 \in Nat /\ 1 = 0 + 1
    OBVIOUS
  <2>6. CloseNext(s', c, 0)
    BY <1>1, <2>1, <2>2, <2>5, CloseNextTail
  <2> QED  BY <2>1, <2>4, <2>6 DEF Stage
<1>8. CASE Closing(s, s', c, "closed") /\ s.cmds[1][1] = "close"
  <2>1. s.conn[c] = "open" /\ s'.conn[c] = "closed" /\ s'.got = s.got /\ s'.asked = s.asked
        /\ s'.lost = s.lost
    BY <1>8 DEF Closing
  <2>2. Answered(s, c)
    BY <1>3, <1>5, <1>8, <2>1 DEF Stage
  <2>3. Answered(s', c)
    BY <2>1, <2>2 DEF Answered
  <2> QED  BY <2>1, <2>3 DEF Stage
<1> QED  BY <1>6, <1>7, <1>8

LEMMA StagesNext ==
  ASSUME WebType(s), MAX_BODY_SIZE \in Nat, MaxSize \in Nat, [Web!Next]_s, NEW d \in Conns, Stage(s, d)
  PROVE  Stage(s', d)
<1>0. s.cmds \in Seq(Commands)
  BY CommandsOf
<1>1. ASSUME NEW p \in Paths, Web!RegisterProcessor(p) \/ Web!Change(p) PROVE Stage(s', d)
  <2>1. /\ s'.queue = s.queue /\ s'.h = s.h /\ s'.asked = s.asked /\ s'.cmds = s.cmds /\ s'.conn = s.conn
        /\ s'.got = s.got /\ s'.lost = s.lost
    BY <1>1, FilesStep
  <2> QED  BY <1>0, <2>1, StageKept DEF SameFor
<1>2. ASSUME NEW c \in Conns, Web!CreateConnectorCB(c) PROVE Stage(s', d)
  <2>1. Others(s, s', c) /\ s'.cmds = s.cmds
    BY <1>2, CreateStep
  <2>2. CASE d = c
    BY <1>2, <2>2, StageCreate
  <2>3. CASE d # c
    BY <1>0, <2>1, <2>3, StageKept DEF Others, SameFor
  <2> QED  BY <2>2, <2>3
<1>3. ASSUME NEW c \in Conns, NEW p \in Paths, Web!Parse(c, p) PROVE Stage(s', d)
  <2>1. Others(s, s', c) /\ s'.cmds = s.cmds
    BY <1>3, ParseStep
  <2>2. CASE d = c
    BY <1>3, <2>2, StageParse
  <2>3. CASE d # c
    BY <1>0, <2>1, <2>3, StageKept DEF Others, SameFor
  <2> QED  BY <2>2, <2>3
<1>4. ASSUME NEW c \in Conns, Web!PeerCloses(c) PROVE Stage(s', d)
  <2>1. Closing(s, s', c, "left") /\ s'.cmds = s.cmds
    BY <1>4, PeerStep
  <2>2. CASE d = c
    BY <2>1, <2>2, StageLeft
  <2>3. CASE d # c
    BY <1>0, <2>1, <2>3, StageKept DEF Closing, Others, SameFor
  <2> QED  BY <2>2, <2>3
<1>5. ASSUME NEW c \in Conns, Web!Take(c) PROVE Stage(s', d)
  <2>1. Handling(s, s', c) /\ s'.cmds = s.cmds /\ \A e \in Conns : e # c => s'.queue[e] = s.queue[e]
    BY <1>5, TakeStep
  <2>2. CASE d = c
    BY <1>5, <2>2, StageTake
  <2>3. CASE d # c
    BY <1>0, <2>1, <2>3, StageKept DEF Handling, SameFor
  <2> QED  BY <2>2, <2>3
<1>6. ASSUME NEW c \in Conns, Web!process(c) \/ Web!Stat(c) \/ Web!Read(c) PROVE Stage(s', d)
  <2>1. Works(s, s', c)
    BY <1>6, ProcessStep, StatStep, FileReadStep
  <2>2. CASE d = c
    BY <2>1, <2>2, StageWorks
  <2>3. CASE d # c
    BY <1>0, <2>1, <2>3, StageKept DEF Works, Handling, SameFor
  <2> QED  BY <2>2, <2>3
<1>7. ASSUME NEW c \in Conns, Web!Reply(c) PROVE Stage(s', d)
  <2>1. Sends(s, s', c) \/ Loses(s, s', c) \/ Ends(s, s', c)
    BY <1>7, ReplyStep
  <2>2. CASE d = c
    BY <2>1, <2>2, StageSends, StageLoses, StageEnds
  <2>3. CASE d # c
    <3>1. s'.cmds = s.cmds \/ \E m \in Commands : s'.cmds = Append(s.cmds, m) /\ m[2] # d
      BY <2>1, <2>3 DEF Sends, Loses, Ends
    <3>2. SameFor(s, s', d)
      BY <2>1, <2>3 DEF Sends, Loses, Hands, Ends, Handling, SameFor
    <3> QED  BY <1>0, <2>3, <3>1, <3>2, StageKept
  <2> QED  BY <2>2, <2>3
<1>8. CASE Web!Execute
  <2> DEFINE c == s.cmds[1][2]
  <2>1. /\ s.cmds # <<>> /\ s'.cmds = Tail(s.cmds) /\ c \in Conns
        /\ \/ Drops(s, s')
           \/ Delivers(s, s', c)
           \/ Closing(s, s', c, "closed") /\ s.cmds[1][1] = "close"
    BY <1>8, ExecuteStep
  <2>2. CASE d = c
    BY <2>1, <2>2, StageExecute
  <2>3. CASE d # c
    <3>1. SameFor(s, s', d)
      BY <2>1, <2>3 DEF Drops, Delivers, Closing, Others, SameFor
    <3> QED  BY <1>0, <2>1, <2>3, <3>1, StageKept
  <2> QED  BY <2>2, <2>3
<1>9. CASE UNCHANGED s
  BY <1>9
<1> QED  BY <1>1, <1>2, <1>3, <1>4, <1>5, <1>6, <1>7, <1>8, <1>9 DEF Web!Next

\* The sizes in the answers.
LEMMA FilesKept ==
  ASSUME FilesRight(s), s'.changes = s.changes, s'.size = s.size, s'.cmds = s.cmds,
         \A d \in Conns : s'.h[d] = s.h[d] /\ s'.got[d] = s.got[d]
  PROVE  FilesRight(s')
  BY DEF FilesRight, AnswerRight

\* A change of the files, the first or a later one.
LEMMA FilesChange ==
  ASSUME WebType(s), FilesRight(s), s'.changes = s.changes + 1, s'.cmds = s.cmds, s'.h = s.h, s'.got = s.got
  PROVE  FilesRight(s')
<1>1. s.changes \in Nat
  BY DEF WebType, WebState
<1>2. s'.changes > 0 /\ s'.changes # 0 /\ (s'.changes = 1 => ~(s.changes > 0))
  BY <1>1
<1>3. \A p, a : AnswerRight(s, p, a) => AnswerRight(s', p, a)
  BY <1>2 DEF AnswerRight
<1>4. \A c \in Conns : s.h[c].pc = "read" => s.changes > 0
  BY DEF FilesRight
<1> QED  BY <1>2, <1>3, <1>4 DEF FilesRight

LEMMA FilesWork ==
  ASSUME WebType(s), FilesRight(s), NEW c \in Conns, Works(s, s', c), Told(s, s', c)
  PROVE  FilesRight(s')
<1>1. /\ s'.changes = s.changes /\ s'.size = s.size /\ s'.cmds = s.cmds /\ s'.got = s.got
      /\ \A d \in Conns : d # c => s'.h[d] = s.h[d]
      /\ s'.h[c].path = s.h[c].path /\ s'.h[c].pc \in {"stat", "read", "send"}
  BY DEF Works, Handling
<1> DEFINE size == s.size[s.h[c].path]
<1>2. s.changes \in Nat /\ s.h[c].path \in Paths
  BY HandlerFields DEF WebType, WebState, HandlerRight, Works
<1>3. \A p, a : AnswerRight(s', p, a) <=> AnswerRight(s, p, a)
  BY <1>1 DEF AnswerRight
<1>4. s'.h[c].pc = "read" => /\ s'.h[c].want = size /\ size \in 1..MAX_BODY_SIZE
                             /\ s.changes > 0
  <2>1. s'.h[c].pc = "read" => s'.h[c].want = size /\ size \in 1..MAX_BODY_SIZE
    BY DEF Told
  <2>2. s.changes = 0 => size = 0
    BY <1>2 DEF FilesRight, Web!Absent
  <2> HIDE DEF size
  <2> QED  BY <1>2, <2>1, <2>2
<1>5. s'.h[c].pc = "send" => AnswerRight(s', s'.h[c].path, s'.h[c].answer)
  <2>1. SUFFICES ASSUME s'.h[c].pc = "send", s'.h[c].answer[1] = "file"
                 PROVE  s.changes > 0 /\ (s.changes = 1 => s'.h[c].answer[2] = size)
    BY <1>1 DEF AnswerRight
  <2>2. s.h[c].pc = "read" /\ (s.h[c].want = size /\ size \in 1..MAX_BODY_SIZE => s'.h[c].answer[2] = size)
    BY <2>1 DEF Told
  <2>3. s.changes > 0 /\ (s.changes = 1 => s.h[c].want = size /\ s.h[c].want \in 1..MAX_BODY_SIZE)
    BY <2>2 DEF FilesRight
  <2> QED  BY <2>2, <2>3
<1>6. \A d \in Conns : /\ s'.h[d].pc = "read" => /\ s'.changes > 0
                                                 /\ s'.changes = 1 => /\ s'.h[d].want = s'.size[s'.h[d].path]
                                                                      /\ s'.h[d].want \in 1..MAX_BODY_SIZE
                       /\ s'.h[d].pc \in {"send", "close"} => AnswerRight(s', s'.h[d].path, s'.h[d].answer)
  <2>1. ASSUME NEW d \in Conns, d # c
        PROVE  /\ s'.h[d].pc = "read" => /\ s'.changes > 0
                                         /\ s'.changes = 1 => /\ s'.h[d].want = s'.size[s'.h[d].path]
                                                              /\ s'.h[d].want \in 1..MAX_BODY_SIZE
               /\ s'.h[d].pc \in {"send", "close"} => AnswerRight(s', s'.h[d].path, s'.h[d].answer)
    BY <1>1, <1>3, <2>1 DEF FilesRight
  <2>2. s'.h[c].pc # "close"
    BY <1>1
  <2> QED  BY <1>1, <1>4, <1>5, <2>1, <2>2
<1> QED  BY <1>1, <1>3, <1>6 DEF FilesRight

\* The handlers, what peers have got and the commands, when the files stay as they are.
HandRight(x, r) == /\ r.pc # "read"
                   /\ r.pc \in {"send", "close"} => AnswerRight(x, r.path, r.answer)
GotRight(x, q)  == \A i \in 1..Len(q) : AnswerRight(x, q[i][1], q[i][2])
SentRight(x, q) == \A i \in 1..Len(q) : q[i][1] = "send" => AnswerRight(x, q[i][3], q[i][4])
LEMMA FilesParts ==
  ASSUME FilesRight(s), s'.changes = s.changes, s'.size = s.size,
         \A d \in Conns : s'.h[d] = s.h[d] \/ HandRight(s, s'.h[d]),
         \A d \in Conns : s'.got[d] = s.got[d] \/ GotRight(s, s'.got[d]),
         s'.cmds = s.cmds \/ SentRight(s, s'.cmds)
  PROVE  FilesRight(s')
<1>1. \A p, a : AnswerRight(s', p, a) <=> AnswerRight(s, p, a)
  BY DEF AnswerRight
<1>2. s'.changes = 0 => \A p \in Paths : s'.size[p] = Web!Absent
  BY DEF FilesRight
<1>3. ASSUME NEW d \in Conns
      PROVE  /\ s'.h[d].pc = "read" => /\ s'.changes > 0
                                       /\ s'.changes = 1 => /\ s'.h[d].want = s'.size[s'.h[d].path]
                                                            /\ s'.h[d].want \in 1..MAX_BODY_SIZE
             /\ s'.h[d].pc \in {"send", "close"} => AnswerRight(s', s'.h[d].path, s'.h[d].answer)
  <2>1. CASE s'.h[d] = s.h[d]
    BY <1>1, <2>1 DEF FilesRight
  <2>2. CASE HandRight(s, s'.h[d])
    BY <1>1, <2>2 DEF HandRight
  <2> QED  BY <2>1, <2>2
<1>4. ASSUME NEW d \in Conns, NEW i \in 1..Len(s'.got[d])
      PROVE  AnswerRight(s', s'.got[d][i][1], s'.got[d][i][2])
  <2>1. CASE s'.got[d] = s.got[d]
    BY <1>1, <2>1 DEF FilesRight
  <2>2. CASE GotRight(s, s'.got[d])
    BY <1>1, <2>2 DEF GotRight
  <2> QED  BY <2>1, <2>2
<1>5. ASSUME NEW i \in 1..Len(s'.cmds), s'.cmds[i][1] = "send"
      PROVE  AnswerRight(s', s'.cmds[i][3], s'.cmds[i][4])
  <2>1. CASE s'.cmds = s.cmds
    BY <1>1, <1>5, <2>1 DEF FilesRight
  <2>2. CASE SentRight(s, s'.cmds)
    BY <1>1, <1>5, <2>2 DEF SentRight
  <2> QED  BY <2>1, <2>2
<1> QED  BY <1>2, <1>3, <1>4, <1>5 DEF FilesRight

LEMMA SentMore ==
  ASSUME NEW q \in Seq(Commands), NEW m \in Commands, SentRight(s, q),
         m[1] = "send" => AnswerRight(s, m[3], m[4])
  PROVE  SentRight(s, Append(q, m))
<1> DEFINE p == Append(q, m)
<1>1. Len(q) \in Nat /\ Len(p) = Len(q) + 1 /\ p[Len(q) + 1] = m /\ \A i \in 1..Len(q) : p[i] = q[i]
  BY AppendIs
<1>2. \A i \in 1..Len(p) : i \in 1..Len(q) \/ i = Len(q) + 1
  BY <1>1
<1> HIDE DEF p
<1> QED  BY <1>1, <1>2 DEF SentRight, p

LEMMA FilesReply ==
  ASSUME WebType(s), FilesRight(s), NEW c \in Conns, Sends(s, s', c) \/ Loses(s, s', c) \/ Ends(s, s', c)
  PROVE  FilesRight(s')
<1>1. /\ s'.changes = s.changes /\ s'.size = s.size /\ s'.got = s.got
      /\ \A d \in Conns : d # c => s'.h[d] = s.h[d]
  BY DEF Sends, Loses, Hands, Ends, Handling
<1>2. s.cmds \in Seq(Commands) /\ SentRight(s, s.cmds)
  BY CommandsOf DEF SentRight, FilesRight
<1>3. CASE Sends(s, s', c)
  <2> DEFINE m == <<"send", c, s.h[c].path, s.h[c].answer>>
  <2>1. m \in Commands /\ s'.cmds = Append(s.cmds, m) /\ m[3] = s.h[c].path /\ m[4] = s.h[c].answer
    BY <1>3 DEF Sends
  <2>2. AnswerRight(s, s.h[c].path, s.h[c].answer)
    BY <1>3 DEF Sends, Hands, FilesRight
  <2> HIDE DEF m
  <2>3. SentRight(s, s'.cmds)
    BY <1>2, <2>1, <2>2, SentMore
  <2>4. HandRight(s, s'.h[c])
    BY <1>3, <2>2 DEF Sends, Hands, HandRight
  <2> QED  BY <1>1, <2>3, <2>4, FilesParts
<1>4. CASE Ends(s, s', c)
  <2> DEFINE m == <<"close", c>>
  <2>1. m \in Commands /\ s'.cmds = Append(s.cmds, m) /\ m[1] # "send" /\ s'.h[c].pc = "idle"
    <3>1. Web!NotOpen.pc = "idle" /\ s'.h[c] = Web!NotOpen
      BY <1>4 DEF Ends, Web!NotOpen
    <3> QED  BY <1>4, <3>1 DEF Ends
  <2> HIDE DEF m
  <2>2. SentRight(s, s'.cmds)
    BY <1>2, <2>1, SentMore
  <2>3. HandRight(s, s'.h[c])
    BY <2>1 DEF HandRight
  <2> QED  BY <1>1, <2>2, <2>3, FilesParts
<1>5. CASE Loses(s, s', c)
  <2>1. s'.cmds = s.cmds /\ AnswerRight(s, s.h[c].path, s.h[c].answer)
    BY <1>5 DEF Loses, Hands, FilesRight
  <2>2. HandRight(s, s'.h[c])
    BY <1>5, <2>1 DEF Loses, Hands, HandRight
  <2> QED  BY <1>1, <2>1, <2>2, FilesParts
<1> QED  BY <1>3, <1>4, <1>5

LEMMA FilesExecute ==
  ASSUME WebType(s), FilesRight(s), Web!Execute PROVE FilesRight(s')
<1> DEFINE c == s.cmds[1][2]
<1>1. /\ s.cmds # <<>> /\ s'.cmds = Tail(s.cmds) /\ c \in Conns
      /\ Drops(s, s') \/ Delivers(s, s', c) \/ Closing(s, s', c, "closed")
  BY ExecuteStep
<1>2. s.cmds \in Seq(Commands) /\ s.got[c] \in Seq(Paths \X Answers)
  BY <1>1, CommandsOf
<1> HIDE DEF c
<1>3. /\ Len(s.cmds) \in Nat /\ Len(s.cmds) >= 1 /\ Len(s'.cmds) = Len(s.cmds) - 1
      /\ \A i \in 1..Len(s.cmds) - 1 : s'.cmds[i] = s.cmds[i + 1]
  BY <1>1, <1>2, FrontOf
<1>4. SentRight(s, s.cmds)
  BY DEF SentRight, FilesRight
<1>5. \A i \in 1..Len(s'.cmds) : i \in 1..Len(s.cmds) - 1 /\ i + 1 \in 1..Len(s.cmds)
  BY <1>3
<1>6. SentRight(s, s'.cmds)
  BY <1>3, <1>4, <1>5 DEF SentRight
<1>7. /\ s'.changes = s.changes /\ s'.size = s.size /\ s'.h = s.h
      /\ \A d \in Conns : d # c => s'.got[d] = s.got[d]
  BY <1>1 DEF Drops, Delivers, Closing, Others
<1>8. s'.got[c] = s.got[c] \/ GotRight(s, s'.got[c])
  <2>1. CASE Delivers(s, s', c)
    <3> DEFINE a == <<s.cmds[1][3], s.cmds[1][4]>>
    <3>1. s.cmds[1][1] = "send" /\ s'.got[c] = Append(s.got[c], a) /\ a \in Paths \X Answers
      BY <2>1 DEF Delivers
    <3>2. 1 \in 1..Len(s.cmds)
      BY <1>3
    <3>3. AnswerRight(s, a[1], a[2])
      BY <1>4, <3>1, <3>2 DEF SentRight
    <3> HIDE DEF a
    <3>4. /\ Len(s.got[c]) \in Nat /\ Len(s'.got[c]) = Len(s.got[c]) + 1 /\ s'.got[c][Len(s.got[c]) + 1] = a
          /\ \A i \in 1..Len(s.got[c]) : s'.got[c][i] = s.got[c][i]
      BY <1>2, <3>1, AppendIs
    <3>5. \A i \in 1..Len(s'.got[c]) : i \in 1..Len(s.got[c]) \/ i = Len(s.got[c]) + 1
      BY <3>4
    <3>6. \A i \in 1..Len(s.got[c]) : AnswerRight(s, s.got[c][i][1], s.got[c][i][2])
      BY <1>1 DEF FilesRight
    <3> QED  BY <3>3, <3>4, <3>5, <3>6 DEF GotRight
  <2>2. CASE Drops(s, s') \/ Closing(s, s', c, "closed")
    BY <2>2 DEF Drops, Closing
  <2> QED  BY <1>1, <2>1, <2>2
<1> QED  BY <1>6, <1>7, <1>8, FilesParts

LEMMA FilesNext ==
  ASSUME WebType(s), FilesRight(s), MAX_BODY_SIZE \in Nat, MaxSize \in Nat, [Web!Next]_s PROVE FilesRight(s')
<1>1. ASSUME NEW p \in Paths, Web!RegisterProcessor(p) \/ Web!Change(p) PROVE FilesRight(s')
  <2>1. s'.h = s.h /\ s'.cmds = s.cmds /\ s'.got = s.got
    BY <1>1, FilesStep
  <2>2. CASE s'.changes = s.changes /\ s'.size = s.size
    BY <2>1, <2>2, FilesKept
  <2>3. CASE s'.changes = s.changes + 1
    BY <2>1, <2>3, FilesChange
  <2> QED  BY <1>1, <2>2, <2>3, FilesStep
<1>2. ASSUME NEW c \in Conns, Web!CreateConnectorCB(c) \/ Web!PeerCloses(c) \/ \E p \in Paths : Web!Parse(c, p)
      PROVE  FilesRight(s')
  <2>1. s'.changes = s.changes /\ s'.size = s.size /\ s'.cmds = s.cmds /\ s'.h = s.h /\ s'.got = s.got
    BY <1>2, CreateStep, PeerStep, ParseStep DEF Closing
  <2> QED  BY <2>1, FilesKept
<1>3. ASSUME NEW c \in Conns, Web!Take(c) PROVE FilesRight(s')
  <2>1. Handling(s, s', c) /\ s'.cmds = s.cmds /\ s'.h[c].pc = "process"
    BY <1>3, TakeStep
  <2>2. /\ s'.changes = s.changes /\ s'.size = s.size /\ s'.got = s.got
        /\ \A d \in Conns : d # c => s'.h[d] = s.h[d]
    BY <2>1 DEF Handling
  <2>3. HandRight(s, s'.h[c])
    BY <2>1 DEF HandRight
  <2> QED  BY <2>1, <2>2, <2>3, FilesParts
<1>4. ASSUME NEW c \in Conns, Web!process(c) \/ Web!Stat(c) \/ Web!Read(c) PROVE FilesRight(s')
  <2>1. Works(s, s', c) /\ Told(s, s', c)
    BY <1>4, ProcessStep, StatStep, FileReadStep
  <2> QED  BY <2>1, FilesWork
<1>5. ASSUME NEW c \in Conns, Web!Reply(c) PROVE FilesRight(s')
  <2>1. Sends(s, s', c) \/ Loses(s, s', c) \/ Ends(s, s', c)
    BY <1>5, ReplyStep
  <2> QED  BY <2>1, FilesReply
<1>6. CASE Web!Execute
  BY <1>6, FilesExecute
<1>7. CASE UNCHANGED s
  BY <1>7
<1> QED  BY <1>1, <1>2, <1>3, <1>4, <1>5, <1>6, <1>7 DEF Web!Next

LEMMA AnswerInit ==
  ASSUME Web!Init PROVE AnswerInv(s)
<1>1. /\ s.changes = 0 /\ s.cmds = <<>> /\ \A p \in Paths : s.size[p] = Web!Absent
      /\ \A c \in Conns : /\ s.conn[c] = "no" /\ s.asked[c] = <<>> /\ s.got[c] = <<>> /\ s.queue[c] = <<>>
                          /\ s.h[c].pc = "idle"
  <2>1. Web!NotOpen.pc = "idle"
    BY DEF Web!NotOpen
  <2> QED  BY <2>1 DEF Web!Init
<1>2. Len(s.cmds) = 0 /\ \A c \in Conns : Len(s.got[c]) = 0
  BY <1>1
<1>3. FilesRight(s)
  BY <1>1, <1>2 DEF FilesRight
<1>4. ASSUME NEW c \in Conns PROVE Stage(s, c)
  <2>1. NoneFor(s.cmds, c, 0)
    BY <1>2 DEF NoneFor
  <2> QED  BY <1>1, <2>1 DEF Stage, Unanswered
<1> QED  BY <1>3, <1>4 DEF AnswerInv

LEMMA OnceAnswered ==
  ASSUME WebType(s), AnswerInv(s) PROVE Web!AnsweredOnce
<1> SUFFICES ASSUME NEW c \in Conns
             PROVE  /\ Len(s.got[c]) \in {0, 1}
                    /\ s.conn[c] = "closed" => s.got[c] # <<>> \/ c \in s.lost
                    /\ \A i \in 1..Len(s.got[c]) : s.got[c][i][1] = s.asked[c][1]
                    /\ s.changes = 1 /\ c \notin s.cut => \A i \in 1..Len(s.got[c]) :
                         s.got[c][i][2][1] = "file" => s.got[c][i][2][2] = s.size[s.got[c][i][1]]
  BY DEF Web!AnsweredOnce
<1>1. Stage(s, c) /\ s.conn[c] \in {"no", "open", "closed", "left"}
  BY CommandsOf DEF AnswerInv
<1>2. s.got[c] = <<>> \/ Answered(s, c)
  BY <1>1 DEF Stage
<1>3. s.conn[c] = "closed" => Answered(s, c)
  BY <1>1 DEF Stage
<1>4. Len(s.got[c]) = 0 \/ (Len(s.got[c]) = 1 /\ s.got[c][1][1] = s.asked[c][1])
  BY <1>2 DEF Answered
<1>5. Len(s.got[c]) \in {0, 1} /\ (s.conn[c] = "closed" => s.got[c] # <<>> \/ c \in s.lost)
  <2>1. s.got[c] = <<>> => Len(s.got[c]) = 0
    OBVIOUS
  <2> QED  BY <1>3, <1>4, <2>1 DEF Answered
<1>6. \A i \in 1..Len(s.got[c]) : s.got[c][i][1] = s.asked[c][1]
  <2>1. ASSUME NEW i \in 1..Len(s.got[c]) PROVE Len(s.got[c]) = 1 /\ i = 1
    <3>1. 1..0 = {} /\ 1..1 = {1}
      OBVIOUS
    <3>2. CASE Len(s.got[c]) = 0
      BY <2>1, <3>1, <3>2
    <3>3. CASE Len(s.got[c]) = 1
      BY <2>1, <3>1, <3>3
    <3> QED  BY <1>4, <3>2, <3>3
  <2> QED  BY <1>4, <2>1
<1>7. \A i \in 1..Len(s.got[c]) : AnswerRight(s, s.got[c][i][1], s.got[c][i][2])
  BY DEF AnswerInv, FilesRight
<1> QED  BY <1>5, <1>6, <1>7 DEF AnswerRight

LEMMA AnswersKept ==
  ASSUME WebConstants, WebType(s), AnswerInv(s), [Web!Next]_s PROVE WebType(s') /\ AnswerInv(s')
<1>1. MAX_BODY_SIZE \in Nat /\ MaxSize \in Nat
  BY DEF WebConstants
<1>2. WebType(s')
  BY <1>1, WebTypeNext
<1>3. FilesRight(s')
  BY <1>1, FilesNext DEF AnswerInv
<1>4. \A d \in Conns : Stage(s', d)
  BY <1>1, StagesNext DEF AnswerInv
<1> QED  BY <1>2, <1>3, <1>4 DEF AnswerInv

\* http_server.cc:120-158: a peer hears once at most, the answer to the first of its requests, and
\* the server closes no connection before that answer unless it was dropped, the queue of commands
\* being full (net_thread.h:655); a file that did not change after the server saw it is answered
\* whole, unless the socket took only a part (connector.cc:228).
THEOREM FirstAnswerOnly ==
  ASSUME WebConstants
  PROVE  Spec => []AnsweredOnce
<1>1. Init => (part = "web" => (WebType(s) /\ AnswerInv(s)))
  BY PartInit, WebInit, AnswerInit
<1>2. (part = "web" => (WebType(s) /\ AnswerInv(s))) /\ [Next]_vars => (part = "web" => (WebType(s) /\ AnswerInv(s)))'
  <2>1. SUFFICES ASSUME (part = "web" => (WebType(s) /\ AnswerInv(s))), [Next]_vars, part' = "web" PROVE (WebType(s) /\ AnswerInv(s))'
    OBVIOUS
  <2>2. part = "web" /\ [Web!Next]_s
    BY <2>1, PartSteps
  <2> QED  BY <2>1, <2>2, AnswersKept
<1>3. (part = "web" => (WebType(s) /\ AnswerInv(s))) => AnsweredOnce
  BY OnceAnswered DEF AnsweredOnce
<1> QED  BY <1>1, <1>2, <1>3, PTL DEF Spec

\* rw_locker.h, thread_pool.cc, time_provider.cc, time_t.cc and logging.cc: what threads share
\* is right in every interleaving, for any number of threads of each kind.
THEOREM ThreadsStayRight ==
  ASSUME IsFiniteSet(Readers), Readers \cap Writers = {}, queue_size \in Nat, LogConstants,
         Rate \in Nat, Rate > 1, Boot \in Nat, SecondTicks \in Nat \ {0}, Slack \in Nat, EndOfClock \in Nat
  PROVE  Spec => []ThreadsRight
<1>1. Spec => []Excludes
  BY WritersExcluded
<1>2. Spec => []TasksInOrder
  BY TasksKept
<1>3. Spec => []ClockRight
  BY TimeNeverBack
<1>4. Spec => []LinesRight
  BY LinesStayRight
<1> QED  BY <1>1, <1>2, <1>3, <1>4, PTL DEF ThreadsRight

\* http_server.cc:48-158: every request that is not refused is served once, for any connections and
\* files; its answer comes before the close, if it was not dropped.
THEOREM RequestsStayServed ==
  ASSUME WebConstants
  PROVE  Spec => []RequestsServed
<1>1. Spec => []MessagesFreedOnce
  BY EveryMessageFreed
<1>2. Spec => []AnsweredOnce
  BY FirstAnswerOnly
<1> QED  BY <1>1, <1>2, PTL DEF RequestsServed
=============================================================================
