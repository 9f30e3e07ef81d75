---------------------------- MODULE TablesProofs ----------------------------
(***************************************************************************)
(* Proofs about what the program keeps its data in: the free lists of the  *)
(* memory pool, the buffers of a connection and the event loop's table.    *)
(***************************************************************************)
EXTENDS Library, Integers, FiniteSets, SequenceTheorems, WellFoundedInduction, TLAPS

\* A step of the library is one of the component that is there.
LEMMA PartSteps ==
  ASSUME [Next]_vars
  PROVE  /\ part' = part
         /\ part = "heap" => [Heap!Next]_s
         /\ part = "bytes" => [Bytes!Next]_s
         /\ part = "table" => [Table!Next]_s
<1>1. CASE UNCHANGED vars
  BY <1>1 DEF vars
<1>2. CASE Next
  BY <1>2 DEF Next, In
<1> QED  BY <1>1, <1>2
LEMMA PartInit ==
  ASSUME Init
  PROVE  /\ part \in Parts
         /\ part = "heap" => Heap!Init
         /\ part = "bytes" => Bytes!Init
         /\ part = "table" => Table!Init
<1> QED  BY DEF Init
-----------------------------------------------------------------------------
(* The memory pool.                                                        *)

\* The sizes are positive and the largest class ends where the last size does.
HeapConstants == /\ Align \in Nat \ {0} /\ PerChunk \in Nat \ {0} /\ Sizes \subseteq Nat \ {0}
                 /\ \E k \in Nat : MaxBytes = k * Align

Classes == 1..MaxBytes \div Align
Address == Nat \X Nat
HeapState == [free : [Classes -> Seq(Address)], chunks : Seq(Nat), live : SUBSET [at : Address, bytes : Nat \ {0}],
              big : Nat, ended : BOOLEAN]

\* A block of class c lies in a chunk of that class, a whole number of blocks behind its start.
Block(x, c, a) == /\ a[1] \in 1..Len(x.chunks)
                  /\ x.chunks[a[1]] = (c * Align) * PerChunk
                  /\ \E k \in 0..PerChunk - 1 : a[2] = k * (c * Align)
\* A list holds blocks of its class, none of them twice.
ListRight(x, c) ==
  \A i \in 1..Len(x.free[c]) : /\ Block(x, c, x.free[c][i])
                               /\ \A j \in 1..Len(x.free[c]) : x.free[c][i] = x.free[c][j] => i = j
LiveRight(x, b) ==
  /\ Heap!Class(b.bytes) \in Classes /\ Block(x, Heap!Class(b.bytes), b.at)
  /\ \A d \in x.live : d.at = b.at => d = b
  /\ \A i \in 1..Len(x.free[Heap!Class(b.bytes)]) : x.free[Heap!Class(b.bytes)][i] # b.at
HeapInv(x) == ~x.ended => /\ x \in HeapState
                          /\ \A c \in Classes : ListRight(x, c)
                          /\ \A b \in x.live : LiveRight(x, b)

-----------------------------------------------------------------------------
\* The quotient of natural numbers.
LEMMA DivBounds ==
  ASSUME NEW n \in Nat \ {0}, NEW a \in Nat
  PROVE  a \div n \in Nat /\ n * (a \div n) <= a /\ a < n * (a \div n) + n
<1>. DEFINE q == a \div n
<1>1. q \in Int /\ n * q <= a /\ a < n * q + n
  <2>1. a % n \in 0..(n - 1) /\ a = n * (a \div n) + (a % n) /\ a \div n \in Int
    OBVIOUS
  <2>. QED BY <2>1
<1>2. SUFFICES ASSUME q < 0 PROVE FALSE
  BY <1>1
<1>3. q + 1 <= 0 /\ n * q + n = n * (q + 1)
  BY <1>1, <1>2
<1>4. n * (q + 1) <= 0
  BY <1>1, <1>3
<1>. QED BY <1>1, <1>3, <1>4

\* Multiplying by a positive number loses nothing.
LEMMA Times ==
  ASSUME NEW d \in Nat \ {0}, NEW a \in Nat, NEW b \in Nat
  PROVE  /\ a * d \in Nat
         /\ a * d = b * d => a = b
         /\ a < b => a * d + d <= b * d
<1>1. a * d \in Nat /\ b * d \in Nat
  OBVIOUS
<1>2. ASSUME NEW u \in Nat, NEW v \in Nat, u < v PROVE u * d + d <= v * d
  <2>1. v - (u + 1) \in Nat /\ v * d = u * d + d + (v - (u + 1)) * d
    BY <1>2
  <2>2. (v - (u + 1)) * d >= 0
    BY <2>1
  <2>3. u * d \in Nat /\ v * d \in Nat
    OBVIOUS
  <2> QED  BY <2>1, <2>2, <2>3
<1>3. a < b => a * d + d <= b * d
  BY <1>2
<1>4. b < a => b * d + d <= a * d
  BY <1>2
<1>5. a * d = b * d => a = b
  <2>1. SUFFICES ASSUME a * d = b * d, a # b PROVE FALSE
    OBVIOUS
  <2>2. a < b \/ b < a
    BY <2>1
  <2> QED  BY <1>1, <1>3, <1>4, <2>1, <2>2
<1> QED  BY <1>1, <1>3, <1>5

LEMMA Exact ==
  ASSUME NEW d \in Nat \ {0}, NEW q \in Nat PROVE (q * d) \div d = q
<1> DEFINE r == (q * d) \div d
<1>1. q * d \in Nat
  OBVIOUS
<1>2. r \in Nat /\ d * r <= q * d /\ q * d < d * r + d
  BY <1>1, DivBounds
<1> HIDE DEF r
<1>3. d * r = r * d
  BY <1>2
<1>4. ~(r < q) /\ ~(q < r)
  BY <1>1, <1>2, <1>3, Times
<1> QED  BY <1>2, <1>4 DEF r

\* The size of a class holds what is asked for, and there is a list for it.
LEMMA ClassHolds ==
  ASSUME HeapConstants, NEW n \in Nat \ {0}
  PROVE  /\ Heap!Class(n) \in Nat \ {0} /\ Heap!RoundUp(n) = Heap!Class(n) * Align /\ n <= Heap!Class(n) * Align
         /\ n <= MaxBytes => Heap!Class(n) \in Classes
<1>0. Align \in Nat \ {0}
  BY DEF HeapConstants
<1> DEFINE q == (n + Align - 1) \div Align
<1>1. n + Align - 1 \in Nat
  BY <1>0
<1>2. q \in Nat /\ Align * q <= n + Align - 1 /\ n + Align - 1 < Align * q + Align
  BY <1>0, <1>1, DivBounds
<1>3. Heap!RoundUp(n) = q * Align
  BY DEF Heap!RoundUp
<1>4. Heap!Class(n) = q
  BY <1>0, <1>2, <1>3, Exact DEF Heap!Class
<1> HIDE DEF q
<1>5. Align * q = q * Align /\ q * Align \in Nat
  BY <1>0, <1>2
<1>6. n <= q * Align
  BY <1>0, <1>2, <1>5
<1>7. q # 0
  BY <1>0, <1>6
<1>8. ASSUME n <= MaxBytes PROVE q \in Classes
  <2>1. PICK k \in Nat : MaxBytes = k * Align
    BY DEF HeapConstants
  <2>2. MaxBytes \div Align = k
    BY <1>0, <2>1, Exact
  <2>3. k * Align \in Nat /\ (k < q => k * Align + Align <= q * Align)
    BY <1>0, <1>2, Times
  <2>4. ~(k < q)
    BY <1>0, <1>2, <1>5, <1>8, <2>1, <2>3
  <2> QED  BY <1>2, <1>7, <2>2, <2>4 DEF Classes
<1> QED  BY <1>2, <1>3, <1>4, <1>6, <1>7, <1>8

\* A chunk has blocks of one class.
LEMMA OneClass ==
  ASSUME HeapConstants, NEW x, NEW c \in Nat, NEW d \in Nat, NEW a, NEW b,
         Block(x, c, a), Block(x, d, b), a[1] = b[1]
  PROVE  c = d
<1>1. c * Align \in Nat /\ d * Align \in Nat /\ (c * Align) * PerChunk = (d * Align) * PerChunk
  BY Times DEF HeapConstants, Block
<1>2. c * Align = d * Align
  BY <1>1, Times DEF HeapConstants
<1> QED  BY <1>2, Times DEF HeapConstants

\* Two blocks that are out, one of them behind the other, do not reach into each other.
LEMMA Behind ==
  ASSUME HeapConstants, NEW d \in Nat \ {0}, NEW k \in Nat, NEW l \in Nat, k < l,
         NEW p \in Nat, NEW q \in Nat, p = k * d, q = l * d,
         NEW n \in Nat, n <= d, NEW i \in 0..n - 1, NEW j \in Nat
  PROVE  p + i # q + j
<1>1. k * d + d <= l * d
  BY Times
<1> QED  BY <1>1

LEMMA LiveApart ==
  ASSUME HeapConstants, NEW x, ~x.ended, HeapInv(x), NEW a \in x.live, NEW b \in x.live, a # b
  PROVE  Heap!Bytes(a) \cap Heap!Bytes(b) = {}
<1>1. SUFFICES ASSUME NEW z \in Heap!Bytes(a), z \in Heap!Bytes(b) PROVE FALSE
  OBVIOUS
<1>2. PICK i \in 0..a.bytes - 1 : z = <<a.at[1], a.at[2] + i>>
  BY <1>1 DEF Heap!Bytes
<1>3. PICK j \in 0..b.bytes - 1 : z = <<b.at[1], b.at[2] + j>>
  BY <1>1 DEF Heap!Bytes
<1>4. a \in [at : Address, bytes : Nat \ {0}] /\ b \in [at : Address, bytes : Nat \ {0}]
  BY DEF HeapInv, HeapState
<1>5. a.at \in Nat \X Nat /\ b.at \in Nat \X Nat /\ a.bytes \in Nat \ {0} /\ b.bytes \in Nat \ {0}
  BY <1>4 DEF Address
<1>6. a.at[1] = b.at[1] /\ a.at[2] + i = b.at[2] + j
  BY <1>2, <1>3
<1> DEFINE c == Heap!Class(a.bytes)
<1>7. c \in Nat \ {0} /\ a.bytes <= c * Align /\ Heap!Class(b.bytes) \in Nat \ {0} /\ b.bytes <= Heap!Class(b.bytes) * Align
  BY <1>5, ClassHolds
<1>8. Block(x, c, a.at) /\ Block(x, Heap!Class(b.bytes), b.at)
  BY DEF HeapInv, LiveRight
<1>9. Heap!Class(b.bytes) = c
  BY <1>6, <1>7, <1>8, OneClass
<1> HIDE DEF c
<1> DEFINE d == c * Align
<1>10. d \in Nat \ {0} /\ a.bytes <= d /\ b.bytes <= d
  BY <1>7, <1>9 DEF HeapConstants
<1>11. PICK k \in 0..PerChunk - 1 : a.at[2] = k * d
  BY <1>8 DEF Block
<1>12. PICK l \in 0..PerChunk - 1 : b.at[2] = l * d
  BY <1>8, <1>9 DEF Block
<1>13. k \in Nat /\ l \in Nat
  BY <1>11, <1>12 DEF HeapConstants
<1> HIDE DEF d
<1>14. a.at # b.at
  BY DEF HeapInv, LiveRight
<1>15. k # l
  BY <1>5, <1>6, <1>11, <1>12, <1>14
<1>16. a.at[2] \in Nat /\ b.at[2] \in Nat /\ i \in Nat /\ j \in Nat
  BY <1>2, <1>3, <1>5
<1>17. ~(k < l)
  BY <1>2, <1>5, <1>6, <1>10, <1>11, <1>12, <1>13, <1>16, Behind
<1>18. ~(l < k)
  BY <1>3, <1>5, <1>6, <1>10, <1>11, <1>12, <1>13, <1>16, Behind
<1> QED  BY <1>13, <1>15, <1>17, <1>18

\* A block that is out ends inside its chunk.
LEMMA InChunk ==
  ASSUME HeapConstants, NEW x, ~x.ended, HeapInv(x), NEW b \in x.live
  PROVE  b.at[2] + b.bytes <= x.chunks[b.at[1]]
<1> DEFINE c == Heap!Class(b.bytes)
<1>1. b \in [at : Address, bytes : Nat \ {0}]
  BY DEF HeapInv, HeapState
<1>2. b.bytes \in Nat \ {0}
  BY <1>1
<1>3. c \in Nat \ {0} /\ b.bytes <= c * Align
  BY <1>2, ClassHolds
<1>4. Block(x, c, b.at)
  BY DEF HeapInv, LiveRight
<1> HIDE DEF c
<1> DEFINE d == c * Align
<1>5. PICK k \in 0..PerChunk - 1 : b.at[2] = k * d
  BY <1>4 DEF Block
<1>6. x.chunks[b.at[1]] = d * PerChunk /\ d \in Nat \ {0} /\ b.bytes <= d
  BY <1>3, <1>4 DEF Block, HeapConstants
<1> HIDE DEF d
<1>7. k \in Nat /\ k < PerChunk /\ PerChunk \in Nat
  BY <1>5 DEF HeapConstants
<1>8. k * d + d <= PerChunk * d /\ PerChunk * d = d * PerChunk /\ k * d \in Nat /\ d * PerChunk \in Nat
  BY <1>6, <1>7, Times
<1> QED  BY <1>2, <1>5, <1>6, <1>8

LEMMA HeapInvApart == ASSUME HeapConstants, HeapInv(s) PROVE Heap!BlocksApart
<1>1. SUFFICES ASSUME ~s.ended
               PROVE  /\ \A a, b \in s.live : a # b => Heap!Bytes(a) \cap Heap!Bytes(b) = {}
                      /\ \A b \in s.live : b.at[2] + b.bytes <= s.chunks[b.at[1]]
                      /\ \A c \in DOMAIN s.free : {b.at : b \in s.live} \cap Heap!Range(s.free[c]) = {}
  BY DEF Heap!BlocksApart
<1>2. \A a, b \in s.live : a # b => Heap!Bytes(a) \cap Heap!Bytes(b) = {}
  BY <1>1, LiveApart
<1>3. \A b \in s.live : b.at[2] + b.bytes <= s.chunks[b.at[1]]
  BY <1>1, InChunk
<1>4. ASSUME NEW c \in DOMAIN s.free, NEW b \in s.live, b.at \in Heap!Range(s.free[c]) PROVE FALSE
  <2>1. s \in HeapState /\ c \in Classes /\ s.free[c] \in Seq(Address)
    BY <1>1, <1>4 DEF HeapInv, HeapState
  <2>2. PICK i \in 1..Len(s.free[c]) : s.free[c][i] = b.at
    BY <1>4, <2>1 DEF Heap!Range
  <2>3. Block(s, c, b.at)
    BY <1>1, <2>1, <2>2 DEF HeapInv, ListRight
  <2>4. /\ Block(s, Heap!Class(b.bytes), b.at) /\ Heap!Class(b.bytes) \in Classes
        /\ \A k \in 1..Len(s.free[Heap!Class(b.bytes)]) : s.free[Heap!Class(b.bytes)][k] # b.at
    BY <1>1 DEF HeapInv, LiveRight
  <2>5. Heap!Class(b.bytes) = c
    BY <2>1, <2>3, <2>4, OneClass DEF Classes
  <2> QED  BY <2>2, <2>4, <2>5
<1> QED  BY <1>2, <1>3, <1>4

-----------------------------------------------------------------------------
LEMMA HeapInvInit == ASSUME HeapConstants, Heap!Init PROVE HeapInv(s)
<1>1. s.free = [c \in Classes |-> <<>>] /\ s.chunks = <<>> /\ s.live = {} /\ s.big = 0 /\ s.ended = FALSE
  BY DEF Heap!Init, Classes
<1>2. s \in HeapState
  BY DEF Heap!Init, HeapState, Classes
<1>3. \A c \in Classes : ListRight(s, c)
  BY <1>1 DEF ListRight
<1> QED  BY <1>1, <1>2, <1>3 DEF HeapInv

\* A new chunk leaves the blocks of the others where they are.
LEMMA BlockKept ==
  ASSUME NEW x, NEW y, x.chunks \in Seq(Nat), NEW m \in Nat, y.chunks = Append(x.chunks, m),
         NEW c, NEW a, Block(x, c, a)
  PROVE  Block(y, c, a)
<1>1. Len(y.chunks) = Len(x.chunks) + 1 /\ \A k \in 1..Len(x.chunks) : y.chunks[k] = x.chunks[k]
  BY AppendProperties
<1>2. a[1] \in 1..Len(x.chunks) /\ Len(x.chunks) \in Nat
  BY DEF Block
<1>3. a[1] \in 1..Len(y.chunks) /\ y.chunks[a[1]] = x.chunks[a[1]]
  BY <1>1, <1>2
<1> QED  BY <1>3 DEF Block

LEMMA Refilled ==
  ASSUME HeapConstants, NEW x, HeapInv(x), ~x.ended, NEW n \in Nat \ {0}, n <= MaxBytes,
         x.free[Heap!Class(n)] = <<>>, NEW y, y = Heap!_M_refill(x, n)
  PROVE  HeapInv(y) /\ ~y.ended /\ y.free[Heap!Class(n)] # <<>>
<1> DEFINE c == Heap!Class(n)
           new == Heap!Blocks(Len(x.chunks) + 1, Heap!RoundUp(n))
<1>0. c \in Classes /\ c \in Nat \ {0} /\ Heap!RoundUp(n) = c * Align /\ PerChunk \in Nat \ {0} /\ Align \in Nat \ {0}
  BY ClassHolds DEF HeapConstants
<1>1. x \in HeapState
  BY DEF HeapInv
<1>2. /\ y.chunks = Append(x.chunks, Heap!RoundUp(n) * PerChunk)
      /\ y.free = [x.free EXCEPT ![c] = new]
      /\ y.live = x.live /\ y.big = x.big /\ y.ended = x.ended /\ y = [x EXCEPT !.chunks = y.chunks, !.free = y.free]
  BY <1>1 DEF Heap!_M_refill, HeapState
<1> HIDE DEF c
<1> DEFINE d == c * Align
<1>3. d \in Nat \ {0} /\ Heap!RoundUp(n) = d /\ d * PerChunk \in Nat
  BY <1>0
<1>4. x.chunks \in Seq(Nat) /\ x.free \in [Classes -> Seq(Address)] /\ Len(x.chunks) \in Nat
      /\ x.live \in SUBSET [at : Address, bytes : Nat \ {0}]
  BY <1>1 DEF HeapState
<1>5. y.chunks \in Seq(Nat) /\ Len(y.chunks) = Len(x.chunks) + 1 /\ y.chunks[Len(x.chunks) + 1] = d * PerChunk
  BY <1>2, <1>3, <1>4, AppendProperties
<1>6. /\ new \in Seq(Address) /\ Len(new) = PerChunk
      /\ \A i \in 1..PerChunk : new[i] = <<Len(x.chunks) + 1, (i - 1) * d>>
  <2>1. new = [i \in 1..PerChunk |-> <<Len(x.chunks) + 1, (i - 1) * d>>]
    BY <1>3 DEF Heap!Blocks
  <2>2. \A i \in 1..PerChunk : i - 1 \in Nat /\ (i - 1) * d \in Nat
    BY <1>0, <1>3, Times
  <2> HIDE DEF d
  <2>3. \A i \in 1..PerChunk : <<Len(x.chunks) + 1, (i - 1) * d>> \in Address
    BY <1>4, <2>2 DEF Address
  <2> HIDE DEF new
  <2>4. new \in [1..PerChunk -> Address]
    BY <2>1, <2>3
  <2> QED  BY <1>0, <2>1, <2>4
<1> HIDE DEF d, new
<1>7. y.free[c] = new /\ \A e \in Classes \ {c} : y.free[e] = x.free[e]
  BY <1>0, <1>2, <1>4
<1>8. y \in HeapState
  <2>1. y.free \in [Classes -> Seq(Address)]
    BY <1>2, <1>4, <1>6
  <2> QED  BY <1>1, <1>2, <1>5, <2>1 DEF HeapState
<1>9. \A e, a : Block(x, e, a) => Block(y, e, a)
  BY <1>2, <1>3, <1>4, BlockKept
<1>10. ASSUME NEW e \in Classes PROVE ListRight(y, e)
  <2>1. CASE e # c
    BY <1>7, <1>9, <2>1 DEF HeapInv, ListRight
  <2>2. CASE e = c
    <3>1. ASSUME NEW i \in 1..PerChunk PROVE Block(y, c, new[i])
      <4>1. new[i][1] = Len(x.chunks) + 1 /\ new[i][2] = (i - 1) * d
        BY <1>6
      <4>2. new[i][1] \in 1..Len(y.chunks) /\ y.chunks[new[i][1]] = (c * Align) * PerChunk
        BY <1>4, <1>5, <4>1 DEF d
      <4>3. i - 1 \in 0..PerChunk - 1 /\ new[i][2] = (i - 1) * (c * Align)
        BY <1>0, <4>1 DEF d
      <4> QED  BY <4>2, <4>3 DEF Block
    <3>2. ASSUME NEW i \in 1..PerChunk, NEW j \in 1..PerChunk, new[i] = new[j] PROVE i = j
      <4>1. i - 1 \in Nat /\ j - 1 \in Nat /\ (i - 1) * d = (j - 1) * d
        BY <1>6, <3>2
      <4>2. i - 1 = j - 1
        BY <1>3, <4>1, Times
      <4> QED  BY <4>2
    <3> QED  BY <1>6, <1>7, <2>2, <3>1, <3>2 DEF ListRight
  <2> QED  BY <2>1, <2>2
<1>11. ASSUME NEW b \in y.live PROVE LiveRight(y, b)
  <2>1. LiveRight(x, b) /\ b \in x.live
    BY <1>2, <1>11 DEF HeapInv
  <2>2. Heap!Class(b.bytes) \in Classes /\ Block(x, Heap!Class(b.bytes), b.at) /\ \A f \in y.live : f.at = b.at => f = b
    BY <1>2, <2>1 DEF LiveRight
  <2>3. \A i \in 1..Len(y.free[Heap!Class(b.bytes)]) : y.free[Heap!Class(b.bytes)][i] # b.at
    <3>1. CASE Heap!Class(b.bytes) # c
      BY <1>7, <2>1, <2>2, <3>1 DEF LiveRight
    <3>2. CASE Heap!Class(b.bytes) = c
      <4>1. b.at[1] \in 1..Len(x.chunks)
        BY <2>2 DEF Block
      <4>2. \A i \in 1..PerChunk : new[i][1] = Len(x.chunks) + 1
        BY <1>6
      <4> QED  BY SMTT(30), <1>4, <1>6, <1>7, <3>2, <4>1, <4>2
    <3> QED  BY <3>1, <3>2
  <2> QED  BY <1>9, <2>2, <2>3 DEF LiveRight
<1>12. y.free[c] # <<>>
  BY <1>0, <1>6, <1>7
<1> QED  BY <1>2, <1>8, <1>10, <1>11, <1>12 DEF HeapInv, c

LEMMA Taken ==
  ASSUME HeapConstants, NEW x, HeapInv(x), ~x.ended, NEW n \in Nat \ {0}, n <= MaxBytes,
         x.free[Heap!Class(n)] # <<>>, NEW y, y = Heap!TakeFirst(x, n)
  PROVE  HeapInv(y)
<1> DEFINE c == Heap!Class(n)
           l == x.free[c]
           new == [at |-> Head(l), bytes |-> n]
<1>0. c \in Classes
  BY ClassHolds
<1>1. x \in HeapState
  BY DEF HeapInv
<1>2. /\ y.free = [x.free EXCEPT ![c] = Tail(l)] /\ y.live = x.live \cup {new}
      /\ y.chunks = x.chunks /\ y.ended = x.ended /\ y = [x EXCEPT !.free = y.free, !.live = y.live]
  BY <1>1 DEF Heap!TakeFirst, HeapState
<1>3. l \in Seq(Address) /\ l # <<>> /\ x.free \in [Classes -> Seq(Address)]
  BY <1>0, <1>1 DEF HeapState
<1>4. ListRight(x, c)
  BY <1>0 DEF HeapInv
<1> HIDE DEF c
<1>5. new.at = l[1] /\ new.bytes = n /\ Heap!Class(new.bytes) = c
  BY <1>3, HeadTailProperties DEF c
<1>6. /\ Len(l) \in Nat \ {0} /\ Head(l) \in Address /\ Tail(l) \in Seq(Address) /\ Len(Tail(l)) = Len(l) - 1
      /\ \A i \in 1..Len(Tail(l)) : Tail(l)[i] = l[i + 1] /\ i + 1 \in 1..Len(l)
  BY <1>3, HeadTailProperties
<1>7. y.free[c] = Tail(l) /\ \A e \in Classes \ {c} : y.free[e] = x.free[e]
  BY <1>0, <1>2, <1>3
<1>8. y \in HeapState
  <2>1. new \in [at : Address, bytes : Nat \ {0}]
    BY <1>6
  <2>2. y.live \in SUBSET [at : Address, bytes : Nat \ {0}]
    BY <1>1, <1>2, <2>1 DEF HeapState
  <2>3. y.free \in [Classes -> Seq(Address)]
    BY <1>2, <1>3, <1>6
  <2> QED  BY <1>1, <1>2, <2>2, <2>3 DEF HeapState
<1>9. /\ \A i \in 1..Len(l) : Block(x, c, l[i])
      /\ \A i, j \in 1..Len(l) : l[i] = l[j] => i = j
  BY <1>4 DEF ListRight
<1>10. \A e, a : Block(x, e, a) <=> Block(y, e, a)
  BY <1>2 DEF Block
<1> HIDE DEF new
<1>11. ASSUME NEW e \in Classes PROVE ListRight(y, e)
  <2>1. CASE e # c
    BY <1>7, <1>10, <2>1 DEF HeapInv, ListRight
  <2>2. CASE e = c
    <3> DEFINE t == Tail(l)
    <3> HIDE DEF t, l
    <3>0. Len(l) \in Nat \ {0} /\ Len(t) = Len(l) - 1 /\ \A i \in 1..Len(t) : t[i] = l[i + 1] /\ i + 1 \in 1..Len(l)
      BY <1>6 DEF t
    <3>1. \A i \in 1..Len(t) : Block(y, c, t[i])
      BY <1>9, <1>10, <3>0
    <3>2. ASSUME NEW i \in 1..Len(t), NEW j \in 1..Len(t), t[i] = t[j] PROVE i = j
      <4>1. i + 1 = j + 1
        BY <1>9, <3>0, <3>2
      <4> QED  BY <3>0, <4>1
    <3>3. y.free[e] = t
      BY <1>7, <2>2 DEF t
    <3> QED  BY <2>2, <3>1, <3>2, <3>3 DEF ListRight
  <2> QED  BY <2>1, <2>2
<1>12. ASSUME NEW b \in y.live PROVE LiveRight(y, b)
  <2>0. 1 \in 1..Len(l)
    BY <1>6
  <2>1. CASE b = new
    <3>1. Heap!Class(b.bytes) \in Classes /\ Block(y, Heap!Class(b.bytes), b.at)
      BY <1>0, <1>5, <1>9, <1>10, <2>0, <2>1
    <3>2. ASSUME NEW f \in x.live, f.at = b.at PROVE FALSE
      <4>1. LiveRight(x, f)
        BY DEF HeapInv
      <4>2. Block(x, Heap!Class(f.bytes), f.at) /\ Heap!Class(f.bytes) \in Nat /\ c \in Nat
        BY <1>0, <4>1 DEF LiveRight, Classes
      <4>3. Block(x, c, f.at)
        BY <1>5, <1>9, <2>0, <2>1, <3>2
      <4>4. Heap!Class(f.bytes) = c
        BY <4>2, <4>3, OneClass
      <4>5. l[1] # f.at
        BY <2>0, <4>1, <4>4 DEF LiveRight
      <4> QED  BY <1>5, <2>1, <3>2, <4>5
    <3>3. \A i \in 1..Len(Tail(l)) : Tail(l)[i] # l[1]
      BY <1>6, <1>9, <2>0
    <3>4. \A i \in 1..Len(y.free[Heap!Class(b.bytes)]) : y.free[Heap!Class(b.bytes)][i] # b.at
      BY <1>5, <1>7, <2>1, <3>3
    <3>5. \A f \in y.live : f.at = b.at => f = b
      BY <1>2, <2>1, <3>2
    <3> QED  BY <3>1, <3>4, <3>5 DEF LiveRight
  <2>2. CASE b # new
    <3>0. b \in x.live
      BY <1>2, <1>12, <2>2
    <3>1. LiveRight(x, b)
      BY <3>0 DEF HeapInv
    <3>2. Heap!Class(b.bytes) \in Classes /\ Block(y, Heap!Class(b.bytes), b.at)
      BY <1>10, <3>1 DEF LiveRight
    <3>3. new.at # b.at
      <4>1. SUFFICES ASSUME new.at = b.at PROVE FALSE
        OBVIOUS
      <4>2. Block(x, Heap!Class(b.bytes), b.at) /\ Heap!Class(b.bytes) \in Nat /\ c \in Nat
        BY <1>0, <3>1 DEF LiveRight, Classes
      <4>3. Block(x, c, b.at)
        BY <1>5, <1>9, <2>0, <4>1
      <4>4. Heap!Class(b.bytes) = c
        BY <4>2, <4>3, OneClass
      <4>5. l[1] # b.at
        BY <2>0, <3>1, <4>4 DEF LiveRight
      <4> QED  BY <1>5, <4>1, <4>5
    <3>4. \A i \in 1..Len(y.free[Heap!Class(b.bytes)]) : y.free[Heap!Class(b.bytes)][i] # b.at
      <4>1. CASE Heap!Class(b.bytes) # c
        BY <1>7, <3>1, <4>1 DEF LiveRight
      <4>2. CASE Heap!Class(b.bytes) = c
        <5>1. \A i \in 1..Len(l) : l[i] # b.at
          BY <3>1, <4>2 DEF LiveRight
        <5>2. \A i \in 1..Len(Tail(l)) : Tail(l)[i] # b.at
          BY <1>6, <5>1
        <5> QED  BY <1>7, <4>2, <5>2
      <4> QED  BY <4>1, <4>2
    <3>5. \A f \in y.live : f.at = b.at => f = b
      BY <1>2, <3>1, <3>3 DEF LiveRight
    <3> QED  BY <3>2, <3>4, <3>5 DEF LiveRight
  <2> QED  BY <2>1, <2>2
<1> QED  BY <1>8, <1>11, <1>12 DEF HeapInv

LEMMA Freed ==
  ASSUME HeapConstants, NEW x, HeapInv(x), ~x.ended, NEW b \in x.live, NEW y,
         y = [x EXCEPT !.live = @ \ {b}, !.free[Heap!Class(b.bytes)] = <<b.at>> \o @]
  PROVE  HeapInv(y)
<1> DEFINE c == Heap!Class(b.bytes)
           l == x.free[c]
           t == <<b.at>> \o l
<1>0. c \in Classes /\ LiveRight(x, b)
  BY DEF HeapInv, LiveRight
<1>1. x \in HeapState
  BY DEF HeapInv
<1>2. /\ y.free = [x.free EXCEPT ![c] = t] /\ y.live = x.live \ {b}
      /\ y.chunks = x.chunks /\ y.ended = x.ended /\ y = [x EXCEPT !.free = y.free, !.live = y.live]
  BY <1>1 DEF HeapState
<1>3. l \in Seq(Address) /\ x.free \in [Classes -> Seq(Address)] /\ b.at \in Address
  BY <1>0, <1>1 DEF HeapState
<1>4. /\ \A i \in 1..Len(l) : Block(x, c, l[i]) /\ l[i] # b.at
      /\ \A i, j \in 1..Len(l) : l[i] = l[j] => i = j
      /\ Block(x, c, b.at)
  BY <1>0 DEF HeapInv, ListRight, LiveRight
<1> HIDE DEF c
<1>5. /\ t \in Seq(Address) /\ Len(t) = Len(l) + 1 /\ t[1] = b.at /\ Len(l) \in Nat
      /\ \A i \in 2..Len(t) : i - 1 \in 1..Len(l) /\ t[i] = l[i - 1]
  BY <1>3
<1>6. y.free[c] = t /\ \A e \in Classes \ {c} : y.free[e] = x.free[e]
  BY <1>0, <1>2, <1>3 DEF c
<1> HIDE DEF t, l
<1>7. y \in HeapState
  <2>1. y.live \in SUBSET [at : Address, bytes : Nat \ {0}] /\ y.free \in [Classes -> Seq(Address)]
    BY <1>1, <1>2, <1>3, <1>5 DEF HeapState
  <2> QED  BY <1>1, <1>2, <2>1 DEF HeapState
<1>8. \A e, a : Block(x, e, a) <=> Block(y, e, a)
  BY <1>2 DEF Block
<1>9. /\ \A i \in 1..Len(t) : Block(y, c, t[i])
      /\ \A i, j \in 1..Len(t) : t[i] = t[j] => i = j
  <2>1. \A i \in 1..Len(t) : i = 1 \/ i \in 2..Len(t)
    BY <1>5
  <2>2. \A i \in 1..Len(t) : Block(y, c, t[i])
    BY <1>4, <1>5, <1>8, <2>1
  <2>3. ASSUME NEW i \in 1..Len(t), NEW j \in 1..Len(t), t[i] = t[j] PROVE i = j
    <3>1. CASE i = 1 /\ j = 1
      BY <3>1
    <3>2. CASE i = 1 /\ j \in 2..Len(t)
      BY <1>4, <1>5, <2>3, <3>2
    <3>3. CASE i \in 2..Len(t) /\ j = 1
      BY <1>4, <1>5, <2>3, <3>3
    <3>4. CASE i \in 2..Len(t) /\ j \in 2..Len(t)
      <4>1. i - 1 = j - 1
        BY <1>4, <1>5, <2>3, <3>4
      <4> QED  BY <3>4, <4>1
    <3> QED  BY <2>1, <3>1, <3>2, <3>3, <3>4
  <2> QED  BY <2>2, <2>3
<1>10. ASSUME NEW e \in Classes PROVE ListRight(y, e)
  <2>1. CASE e # c
    <3>1. ListRight(x, e) /\ y.free[e] = x.free[e]
      BY <1>6, <2>1 DEF HeapInv
    <3> QED  BY <1>8, <3>1 DEF ListRight
  <2>2. CASE e = c
    BY <1>6, <1>9, <2>2 DEF ListRight
  <2> QED  BY <2>1, <2>2
<1>11. ASSUME NEW f \in y.live PROVE LiveRight(y, f)
  <2>1. f \in x.live /\ f # b
    BY <1>2, <1>11
  <2>2. LiveRight(x, f)
    BY <2>1 DEF HeapInv
  <2>3. Heap!Class(f.bytes) \in Classes /\ Block(y, Heap!Class(f.bytes), f.at) /\ \A g \in y.live : g.at = f.at => g = f
    BY <1>2, <1>8, <2>2 DEF LiveRight
  <2>4. f.at # b.at
    BY <1>0, <2>1 DEF LiveRight
  <2>5. \A i \in 1..Len(y.free[Heap!Class(f.bytes)]) : y.free[Heap!Class(f.bytes)][i] # f.at
    <3>1. CASE Heap!Class(f.bytes) # c
      BY <1>6, <2>2, <3>1 DEF LiveRight
    <3>2. CASE Heap!Class(f.bytes) = c
      <4>1. \A i \in 1..Len(l) : l[i] # f.at
        BY <2>2, <3>2 DEF LiveRight, l
      <4>2. \A i \in 1..Len(t) : i = 1 \/ i \in 2..Len(t)
        BY <1>5
      <4>3. \A i \in 1..Len(t) : t[i] # f.at
        BY <1>5, <2>4, <4>1, <4>2
      <4> QED  BY <1>6, <3>2, <4>3
    <3> QED  BY <3>1, <3>2
  <2> QED  BY <2>3, <2>5 DEF LiveRight
<1> QED  BY <1>7, <1>10, <1>11 DEF HeapInv

\* Only the big blocks change.
LEMMA BigOnly ==
  ASSUME NEW x, HeapInv(x), ~x.ended, NEW m \in Nat, NEW y, y = [x EXCEPT !.big = m] PROVE HeapInv(y)
<1>1. x \in HeapState
  BY DEF HeapInv
<1>2. /\ y \in HeapState /\ y.free = x.free /\ y.live = x.live /\ y.chunks = x.chunks
  BY <1>1 DEF HeapState
<1>3. \A e, a : Block(x, e, a) <=> Block(y, e, a)
  BY <1>2 DEF Block
<1>4. \A c \in Classes : ListRight(y, c)
  BY <1>2, <1>3 DEF HeapInv, ListRight
<1>5. \A b \in y.live : LiveRight(y, b)
  BY <1>2, <1>3 DEF HeapInv, LiveRight
<1> QED  BY <1>2, <1>4, <1>5 DEF HeapInv

LEMMA HeapInvNext == ASSUME HeapConstants, HeapInv(s), [Heap!Next]_s PROVE HeapInv(s')
<1>1. CASE s' = s
  BY <1>1
<1>2. ASSUME NEW n \in Sizes, Heap!allocate(n) PROVE HeapInv(s')
  <2>0. n \in Nat \ {0} /\ ~s.ended /\ s \in HeapState
    BY <1>2 DEF HeapConstants, Heap!allocate, HeapInv
  <2>1. CASE n > MaxBytes /\ s.big < MaxChunks /\ s' = [s EXCEPT !.big = @ + 1]
    <3>1. s.big + 1 \in Nat /\ s' = [s EXCEPT !.big = s.big + 1]
      BY <2>0, <2>1 DEF HeapState
    <3> QED  BY <2>0, <3>1, BigOnly
  <2>2. CASE n <= MaxBytes /\ s.free[Heap!Class(n)] # <<>> /\ s' = Heap!TakeFirst(s, n)
    BY <2>0, <2>2, Taken
  <2>3. CASE n <= MaxBytes /\ s.free[Heap!Class(n)] = <<>> /\ s' = Heap!TakeFirst(Heap!_M_refill(s, n), n)
    <3> DEFINE y == Heap!_M_refill(s, n)
    <3>1. HeapInv(y) /\ ~y.ended /\ y.free[Heap!Class(n)] # <<>>
      BY <2>0, <2>3, Refilled
    <3> HIDE DEF y
    <3>2. s' = Heap!TakeFirst(y, n)
      BY <2>3 DEF y
    <3> QED  BY <2>0, <2>3, <3>1, <3>2, Taken
  <2> QED  BY <1>2, <2>1, <2>2, <2>3 DEF Heap!allocate
<1>3. CASE Heap!deallocate
  <2>0. ~s.ended /\ s \in HeapState
    BY <1>3 DEF Heap!deallocate, HeapInv
  <2>1. ASSUME NEW b \in s.live, Heap!Free(b) PROVE HeapInv(s')
    BY <2>0, <2>1, Freed DEF Heap!Free
  <2>2. ASSUME s.big > 0, s' = [s EXCEPT !.big = @ - 1] PROVE HeapInv(s')
    <3>1. s.big - 1 \in Nat /\ s' = [s EXCEPT !.big = s.big - 1]
      BY <2>0, <2>2 DEF HeapState
    <3> QED  BY <2>0, <3>1, BigOnly
  <2> QED  BY <1>3, <2>1, <2>2 DEF Heap!deallocate
<1>4. CASE Heap!release_memory
  <2>1. s \in HeapState /\ s' = [s EXCEPT !.ended = TRUE, !.chunks = <<>>]
    BY <1>4 DEF Heap!release_memory, HeapInv
  <2>2. s'.ended
    BY <2>1 DEF HeapState
  <2> QED  BY <2>2 DEF HeapInv
<1> QED  BY <1>1, <1>2, <1>3, <1>4 DEF Heap!Next

\* Blocks that are out share no byte, end inside their chunk and are in no free list, whatever the
\* sizes, the alignment and the blocks of a chunk (memory_pool.cc:38-112).
THEOREM BlocksStayApart ==
  ASSUME HeapConstants
  PROVE  Spec => []BlocksApart
<1>1. Init => (part = "heap" => HeapInv(s))
  BY PartInit, HeapInvInit
<1>2. (part = "heap" => HeapInv(s)) /\ [Next]_vars => (part = "heap" => HeapInv(s))'
  <2>1. SUFFICES ASSUME (part = "heap" => HeapInv(s)), [Next]_vars, part' = "heap" PROVE HeapInv(s)'
    OBVIOUS
  <2>2. part = "heap" /\ [Heap!Next]_s
    BY <2>1, PartSteps
  <2> QED  BY <2>1, <2>2, HeapInvNext DEF HeapInv, HeapState, ListRight, LiveRight, Block
<1>3. (part = "heap" => HeapInv(s)) => BlocksApart
  BY HeapInvApart DEF BlocksApart
<1> QED  BY <1>1, <1>2, <1>3, PTL DEF Spec
-----------------------------------------------------------------------------
(* The buffers of a connection.                                            *)

\* StreamSizes are natural numbers.
StreamSizes == init_size \in Nat /\ READBYTES \in Nat /\ Copied \in Nat

Buffers == [data : Seq(Nat), read_index : Nat, write_index : Nat]
Sound(b) == b \in Buffers /\ b.read_index <= b.write_index /\ b.write_index <= Len(b.data)
\* Nothing has been read into the room behind the write index.
Clean(b) == \A i \in b.write_index + 1..Len(b.data) : b.data[i] = 0
ByteState == [in : Buffers, out : Buffers, come : Nat, unread : Seq(Nat), reused : BOOLEAN, sees : BOOLEAN,
              owed : Seq(Nat), got : Seq(Nat), is_closed : BOOLEAN]
BytesInv(x) == /\ x \in ByteState
               /\ Sound(x.in) /\ Sound(x.out)
               /\ Bytes!Content(x.in) = x.unread
               /\ ~x.is_closed => x.got \o Bytes!Content(x.out) = x.owed
               /\ ~x.reused => Clean(x.in) /\ \A i \in 1..Len(x.unread) : x.unread[i] # 0
               /\ x.sees

-----------------------------------------------------------------------------
\* A piece of a sequence, from behind l to h.
LEMMA Piece ==
  ASSUME NEW d \in Seq(Nat), NEW l \in Nat, NEW h \in Nat, l <= h, h <= Len(d)
  PROVE  /\ SubSeq(d, l + 1, h) \in Seq(Nat) /\ Len(SubSeq(d, l + 1, h)) = h - l
         /\ \A i \in 1..h - l : SubSeq(d, l + 1, h)[i] = d[l + i]
<1>1. \A i \in l + 1..h : d[i] \in Nat
  <2>1. \A i \in l + 1..h : i \in 1..Len(d)
    OBVIOUS
  <2> QED  BY <2>1, ElementOfSeq
<1>2. l + 1 \in Int /\ h \in Int
  OBVIOUS
<1> DEFINE m == l + 1
<1>3. /\ SubSeq(d, m, h) \in Seq(Nat) /\ Len(SubSeq(d, m, h)) = IF m <= h THEN h - m + 1 ELSE 0
      /\ \A i \in 1..h - m + 1 : SubSeq(d, m, h)[i] = d[m + i - 1]
  <2> HIDE DEF m
  <2>1. m \in Int /\ \A i \in m..h : d[i] \in Nat
    BY <1>1, <1>2 DEF m
  <2> QED  BY <1>2, <2>1, SubSeqProperties
<1>4. Len(SubSeq(d, l + 1, h)) = h - l
  BY <1>3
<1>5. ASSUME NEW i \in 1..h - l PROVE SubSeq(d, l + 1, h)[i] = d[l + i]
  <2>1. i \in 1..h - m + 1 /\ m + i - 1 = l + i
    OBVIOUS
  <2> QED  BY <1>3, <2>1
<1> QED  BY <1>3, <1>4, <1>5

LEMMA ContentIs ==
  ASSUME NEW b, Sound(b)
  PROVE  /\ Bytes!Content(b) \in Seq(Nat) /\ Len(Bytes!Content(b)) = b.write_index - b.read_index
         /\ Bytes!readable(b) = Len(Bytes!Content(b)) /\ Bytes!readable(b) \in Nat
         /\ \A i \in 1..Len(Bytes!Content(b)) : Bytes!Content(b)[i] = b.data[b.read_index + i]
<1>1. /\ b.data \in Seq(Nat) /\ b.read_index \in Nat /\ b.write_index \in Nat
      /\ b.read_index <= b.write_index /\ b.write_index <= Len(b.data)
  BY DEF Sound, Buffers
<1>2. /\ Bytes!Content(b) \in Seq(Nat) /\ Len(Bytes!Content(b)) = b.write_index - b.read_index
      /\ \A i \in 1..b.write_index - b.read_index : Bytes!Content(b)[i] = b.data[b.read_index + i]
  BY <1>1, Piece DEF Bytes!Content
<1> QED  BY <1>1, <1>2 DEF Bytes!readable

\* Indices of the readable part are indices of the data, and those behind v are behind w.
LEMMA Reaches ==
  ASSUME NEW r \in Nat, NEW w \in Nat, NEW m \in Nat, NEW k \in Nat, r <= w, w <= m, NEW l, l = w - r,
         NEW i \in 1..l
  PROVE  r + i \in 1..m + k /\ r + i <= m
  OBVIOUS
LEMMA PastBoth ==
  ASSUME NEW w \in Nat, NEW n \in Nat, NEW h \in Nat, NEW v, v = w + n, NEW i \in v + 1..h
  PROVE  i \in w + 1..h
  OBVIOUS

\* Equal bytes make equal contents.
LEMMA SameContent ==
  ASSUME NEW b, Sound(b), NEW q \in Seq(Nat), Len(q) = b.write_index - b.read_index,
         \A i \in 1..Len(q) : b.data[b.read_index + i] = q[i]
  PROVE  Bytes!Content(b) = q
<1>1. /\ Bytes!Content(b) \in Seq(Nat) /\ Len(Bytes!Content(b)) = Len(q)
      /\ \A i \in 1..Len(Bytes!Content(b)) : Bytes!Content(b)[i] = q[i]
  BY ContentIs
<1> QED  BY <1>1, SeqEqual

LEMMA NewSound == ASSUME StreamSizes PROVE Sound(Bytes!NewBuffer) /\ Clean(Bytes!NewBuffer) /\ Bytes!Content(Bytes!NewBuffer) = <<>>
<1>1. Bytes!Zeros(init_size) \in [1..init_size -> Nat] /\ \A i \in 1..init_size : Bytes!Zeros(init_size)[i] = 0
  BY DEF Bytes!Zeros
<1>2. Bytes!Zeros(init_size) \in Seq(Nat) /\ Len(Bytes!Zeros(init_size)) = init_size
  BY <1>1 DEF StreamSizes, Bytes!Zeros
<1> HIDE DEF Bytes!Zeros
<1>3. Sound(Bytes!NewBuffer) /\ Clean(Bytes!NewBuffer)
  BY <1>1, <1>2 DEF StreamSizes, Bytes!NewBuffer, Sound, Clean, Buffers
<1>4. Bytes!Content(Bytes!NewBuffer) = <<>>
  <2>1. Bytes!NewBuffer.read_index = 0 /\ Bytes!NewBuffer.write_index = 0 /\ <<>> \in Seq(Nat) /\ Len(<<>>) = 0
    BY DEF Bytes!NewBuffer
  <2>2. Bytes!Content(Bytes!NewBuffer) \in Seq(Nat) /\ Len(Bytes!Content(Bytes!NewBuffer)) = 0
    BY <1>3, <2>1, ContentIs
  <2> QED  BY <2>2, EmptySeq
<1> QED  BY <1>3, <1>4

\* Room for n bytes is made without touching what is readable.
LEMMA EnsureKeeps ==
  ASSUME NEW b, Sound(b), NEW n \in Nat, NEW y, y = Bytes!ensure_writeable(b, n)
  PROVE  /\ Sound(y) /\ Bytes!Content(y) = Bytes!Content(b) /\ y.write_index + n <= Len(y.data)
         /\ ~Bytes!Moves(b, n) /\ Clean(b) => Clean(y)
<1>1. /\ b.data \in Seq(Nat) /\ b.read_index \in Nat /\ b.write_index \in Nat /\ Len(b.data) \in Nat
      /\ b.read_index <= b.write_index /\ b.write_index <= Len(b.data) /\ b \in Buffers
  BY DEF Sound, Buffers
<1>2. CASE ~(Bytes!writeable(b) < n)
  BY <1>1, <1>2 DEF Bytes!ensure_writeable, Bytes!writeable
<1>3. CASE Bytes!writeable(b) < n /\ Bytes!Moves(b, n)
  <2> DEFINE r == Bytes!readable(b)
             rest == SubSeq(b.data, r + 1, Len(b.data))
             d == Bytes!Content(b) \o rest
  <2>1. y = [data |-> d, read_index |-> 0, write_index |-> r]
    BY <1>3 DEF Bytes!ensure_writeable, Bytes!make_space
  <2>2. r \in Nat /\ r = b.write_index - b.read_index /\ Bytes!Content(b) \in Seq(Nat) /\ Len(Bytes!Content(b)) = r
    BY <1>1, ContentIs
  <2> HIDE DEF r
  <2>3. rest \in Seq(Nat) /\ Len(rest) = Len(b.data) - r
    <3> DEFINE h == Len(b.data)
    <3>1. r \in Nat /\ h \in Nat /\ r <= h /\ h <= Len(b.data)
      BY <1>1, <2>2
    <3> HIDE DEF h
    <3>2. SubSeq(b.data, r + 1, h) \in Seq(Nat) /\ Len(SubSeq(b.data, r + 1, h)) = h - r
      BY <1>1, <3>1, Piece
    <3> QED  BY <3>2 DEF h
  <2> HIDE DEF rest
  <2>4. /\ d \in Seq(Nat) /\ Len(d) = Len(b.data)
        /\ \A i \in 1..r : d[i] = Bytes!Content(b)[i]
    <3> DEFINE q == Bytes!Content(b)
    <3> HIDE DEF q
    <3>0. d = q \o rest /\ q \in Seq(Nat) /\ Len(q) = r
      BY <2>2 DEF q
    <3> HIDE DEF d
    <3>1. /\ d \in Seq(Nat) /\ Len(d) = r + Len(rest)
          /\ \A i \in 1..r + Len(rest) : d[i] = IF i <= r THEN q[i] ELSE rest[i - r]
      BY <2>3, <3>0, ConcatProperties
    <3> QED  BY <1>1, <2>2, <2>3, <3>1 DEF q
  <2> HIDE DEF d
  <2>5. Sound(y)
    BY <1>1, <2>1, <2>2, <2>4 DEF Sound, Buffers
  <2>6. Bytes!Content(y) = Bytes!Content(b)
    BY <2>1, <2>2, <2>4, <2>5, SameContent
  <2>7. y.write_index + n <= Len(y.data)
    BY <1>1, <1>3, <2>1, <2>2, <2>4 DEF Bytes!Moves, Bytes!writeable
  <2> QED  BY <1>3, <2>5, <2>6, <2>7
<1>4. CASE Bytes!writeable(b) < n /\ ~Bytes!Moves(b, n)
  <2> DEFINE k == b.write_index + n - Len(b.data)
             z == Bytes!Zeros(k)
             d == b.data \o z
  <2>1. y = [b EXCEPT !.data = d]
    BY <1>4 DEF Bytes!ensure_writeable, Bytes!make_space
  <2>2. k \in Nat
    BY <1>1, <1>4 DEF Bytes!writeable
  <2> HIDE DEF k
  <2>3. z \in Seq(Nat) /\ Len(z) = k /\ \A i \in 1..k : z[i] = 0
    <3>1. z \in [1..k -> Nat] /\ \A i \in 1..k : z[i] = 0
      BY DEF Bytes!Zeros
    <3>2. z \in Seq(Nat) /\ Len(z) = k
      BY <2>2, <3>1 DEF Bytes!Zeros
    <3> QED  BY <3>1, <3>2
  <2> HIDE DEF z
  <2>4. /\ d \in Seq(Nat) /\ Len(d) = Len(b.data) + k
        /\ \A i \in 1..Len(b.data) + k : d[i] = IF i <= Len(b.data) THEN b.data[i] ELSE z[i - Len(b.data)]
    BY <1>1, <2>3, ConcatProperties
  <2> HIDE DEF d
  <2>5. y.data = d /\ y.read_index = b.read_index /\ y.write_index = b.write_index /\ y \in Buffers
    BY <1>1, <2>1, <2>4 DEF Buffers
  <2>6. Sound(y)
    BY <1>1, <2>2, <2>4, <2>5 DEF Sound
  <2>7. Bytes!Content(y) = Bytes!Content(b)
    <3>1. /\ Bytes!Content(b) \in Seq(Nat) /\ Len(Bytes!Content(b)) = y.write_index - y.read_index
          /\ \A i \in 1..Len(Bytes!Content(b)) : Bytes!Content(b)[i] = b.data[b.read_index + i]
      BY <2>5, ContentIs
    <3>2. \A i \in 1..Len(Bytes!Content(b)) : d[b.read_index + i] = b.data[b.read_index + i]
      <4> DEFINE l == Len(Bytes!Content(b))
      <4>0. l = b.write_index - b.read_index
        BY <2>5, <3>1
      <4> HIDE DEF l
      <4>1. \A i \in 1..l : b.read_index + i \in 1..Len(b.data) + k /\ b.read_index + i <= Len(b.data)
        <5>1. b.read_index \in Nat /\ b.write_index \in Nat /\ Len(b.data) \in Nat
          BY <1>1
        <5>2. b.read_index <= b.write_index /\ b.write_index <= Len(b.data)
          BY <1>1
        <5> QED  BY <2>2, <4>0, <5>1, <5>2, Reaches
      <4> QED  BY <2>4, <4>1 DEF l
    <3> QED  BY <2>5, <2>6, <3>1, <3>2, SameContent
  <2>8. ASSUME Clean(b) PROVE Clean(y)
    <3>1. SUFFICES ASSUME NEW i \in y.write_index + 1..Len(y.data) PROVE y.data[i] = 0
      BY DEF Clean
    <3>2. CASE i <= Len(b.data)
      <4>1. i \in b.write_index + 1..Len(b.data) /\ i \in 1..Len(b.data) + k
        BY <1>1, <2>2, <2>4, <2>5, <3>2
      <4> QED  BY <2>4, <2>5, <2>8, <3>2, <4>1 DEF Clean
    <3>3. CASE ~(i <= Len(b.data))
      <4>1. i - Len(b.data) \in 1..k /\ i \in 1..Len(b.data) + k
        BY <1>1, <2>2, <2>4, <2>5, <3>3
      <4> QED  BY <2>3, <2>4, <2>5, <3>3, <4>1
    <3> QED  BY <3>2, <3>3
  <2>9. y.write_index + n <= Len(y.data)
    BY <1>1, <2>2, <2>4, <2>5 DEF k
  <2> QED  BY <2>6, <2>7, <2>8, <2>9
<1> QED  BY <1>2, <1>3, <1>4

LEMMA Begin ==
  ASSUME NEW d \in Seq(Nat), NEW h \in Nat, h <= Len(d)
  PROVE  /\ SubSeq(d, 1, h) \in Seq(Nat) /\ Len(SubSeq(d, 1, h)) = h
         /\ \A i \in 1..h : SubSeq(d, 1, h)[i] = d[i]
<1> DEFINE l == 0
<1>1. l \in Nat /\ l <= h /\ l + 1 = 1 /\ h - l = h /\ \A i \in 1..h : l + i = i
  OBVIOUS
<1> HIDE DEF l
<1>2. /\ SubSeq(d, l + 1, h) \in Seq(Nat) /\ Len(SubSeq(d, l + 1, h)) = h - l
      /\ \A i \in 1..h - l : SubSeq(d, l + 1, h)[i] = d[l + i]
  BY <1>1, Piece
<1> QED  BY <1>1, <1>2

\* Two sequences, one behind the other.
LEMMA Joined ==
  ASSUME NEW p \in Seq(Nat), NEW q \in Seq(Nat)
  PROVE  /\ p \o q \in Seq(Nat) /\ Len(p \o q) = Len(p) + Len(q)
         /\ \A i \in 1..Len(p) : (p \o q)[i] = p[i]
         /\ \A i \in 1..Len(q) : (p \o q)[Len(p) + i] = q[i]
<1>1. /\ p \o q \in Seq(Nat) /\ Len(p \o q) = Len(p) + Len(q)
      /\ \A i \in 1..Len(p) + Len(q) : (p \o q)[i] = IF i <= Len(p) THEN p[i] ELSE q[i - Len(p)]
  BY ConcatProperties
<1>2. Len(p) \in Nat /\ Len(q) \in Nat
  OBVIOUS
<1>3. ASSUME NEW i \in 1..Len(q) PROVE (p \o q)[Len(p) + i] = q[i]
  <2>1. Len(p) + i \in 1..Len(p) + Len(q) /\ ~(Len(p) + i <= Len(p)) /\ (Len(p) + i) - Len(p) = i
    BY <1>2
  <2> QED  BY <1>1, <2>1
<1>4. ASSUME NEW i \in 1..Len(p) PROVE (p \o q)[i] = p[i]
  <2>1. i \in 1..Len(p) + Len(q) /\ i <= Len(p)
    BY <1>2
  <2> QED  BY <1>1, <2>1
<1> QED  BY <1>1, <1>3, <1>4

LEMMA Regroup ==
  ASSUME NEW p \in Seq(Nat), NEW q \in Seq(Nat), NEW r \in Seq(Nat)
  PROVE  p \o (q \o r) = (p \o q) \o r
BY SMTT(30), ConcatAssociative

\* Bytes that there is room for come behind what is readable.
LEMMA AppendKeeps ==
  ASSUME NEW b, Sound(b), NEW bytes \in Seq(Nat), b.write_index + Len(bytes) <= Len(b.data),
         NEW y, y = Bytes!append(b, bytes)
  PROVE  Sound(y) /\ Bytes!Content(y) = Bytes!Content(b) \o bytes /\ (Clean(b) => Clean(y))
<1> DEFINE w == b.write_index
           n == Len(bytes)
           h == Len(b.data)
           v == w + n
           p == SubSeq(b.data, 1, w)
           q == SubSeq(b.data, v + 1, h)
           d == p \o bytes \o q
<1>1. /\ b.data \in Seq(Nat) /\ b.read_index \in Nat /\ w \in Nat /\ h \in Nat /\ n \in Nat /\ v \in Nat
      /\ b.read_index <= w /\ w <= h /\ b \in Buffers /\ v <= h
  BY DEF Sound, Buffers
<1>2. y = [b EXCEPT !.data = d, !.write_index = v]
  BY DEF Bytes!append
<1>3. p \in Seq(Nat) /\ Len(p) = w /\ \A i \in 1..w : p[i] = b.data[i]
  BY <1>1, Begin
<1>4. q \in Seq(Nat) /\ Len(q) = h - v /\ \A i \in 1..h - v : q[i] = b.data[v + i]
  <2> HIDE DEF v, h
  <2>1. h <= Len(b.data)
    BY <1>1 DEF h
  <2> QED  BY <1>1, <2>1, Piece
<1>5. n = Len(bytes) /\ h = Len(b.data) /\ v = w + n /\ w = b.write_index
  OBVIOUS
<1> HIDE DEF p, q, v, w, n, h
<1> DEFINE a == p \o bytes
<1>7. d = a \o q
  OBVIOUS
<1> HIDE DEF d
<1>6. /\ a \in Seq(Nat) /\ Len(a) = w + n
      /\ \A i \in 1..w : a[i] = p[i]
      /\ \A i \in 1..n : a[w + i] = bytes[i]
  <2>1. a = p \o bytes
    OBVIOUS
  <2>2. p \in Seq(Nat) /\ bytes \in Seq(Nat) /\ Len(p) = w /\ Len(bytes) = n
    BY <1>3, <1>5
  <2>3. /\ a \in Seq(Nat) /\ Len(a) = Len(p) + Len(bytes)
        /\ \A i \in 1..Len(p) : a[i] = p[i]
        /\ \A i \in 1..Len(bytes) : a[Len(p) + i] = bytes[i]
    BY <2>2, Joined
  <2> HIDE DEF a
  <2> QED  BY <2>2, <2>3
<1> HIDE DEF a
<1>8. /\ d \in Seq(Nat) /\ Len(d) = v + (h - v)
      /\ \A i \in 1..v : d[i] = a[i]
      /\ \A i \in 1..h - v : d[v + i] = q[i]
  <2>1. v = Len(a) /\ h - v = Len(q)
    BY <1>4, <1>5, <1>6
  <2> DEFINE k == h - v
  <2> HIDE DEF k
  <2>2. k = Len(q)
    BY <2>1 DEF k
  <2>3. /\ d \in Seq(Nat) /\ Len(d) = v + k
        /\ \A i \in 1..v : d[i] = a[i]
        /\ \A i \in 1..k : d[v + i] = q[i]
    BY <1>4, <1>6, <1>7, <2>1, <2>2, Joined
  <2> QED  BY <2>3 DEF k
<1>9. d \in Seq(Nat) /\ Len(d) = h
  BY <1>1, <1>8
<1>0. w \in Nat /\ n \in Nat /\ v \in Nat /\ h \in Nat /\ v = w + n /\ v <= h
  BY <1>1, <1>5
<1>10. \A i \in 1..w : d[i] = b.data[i]
  <2>1. \A i \in 1..w : i \in 1..v
    BY <1>0
  <2> QED  BY <1>3, <1>6, <1>8, <2>1
<1>11. \A i \in 1..n : d[w + i] = bytes[i]
  <2>1. \A i \in 1..n : w + i \in 1..v
    BY <1>0
  <2> QED  BY <1>6, <1>8, <2>1
<1>12. \A i \in v + 1..h : d[i] = b.data[i]
  <2>1. SUFFICES ASSUME NEW i \in v + 1..h PROVE d[i] = b.data[i]
    OBVIOUS
  <2>2. i - v \in 1..h - v /\ v + (i - v) = i
    BY <1>0
  <2>3. d[v + (i - v)] = q[i - v] /\ q[i - v] = b.data[v + (i - v)]
    BY <1>4, <1>8, <2>2
  <2> QED  BY <2>2, <2>3
<1>13. y.data = d /\ y.read_index = b.read_index /\ y.write_index = v /\ y \in Buffers
  BY <1>1, <1>2, <1>9 DEF Buffers
<1>14. Sound(y)
  BY <1>1, <1>5, <1>9, <1>13 DEF Sound
<1>15. Bytes!Content(y) = Bytes!Content(b) \o bytes
  <2> DEFINE c == Bytes!Content(b)
             k == w - b.read_index
  <2>1. c \in Seq(Nat) /\ Len(c) = k /\ \A i \in 1..k : c[i] = b.data[b.read_index + i]
    BY <1>5, ContentIs
  <2>2. k \in Nat /\ b.read_index + k = w
    BY <1>1
  <2> HIDE DEF c, k
  <2> DEFINE e == c \o bytes
  <2>3. /\ e \in Seq(Nat) /\ Len(e) = k + n
        /\ \A i \in 1..k : e[i] = c[i]
        /\ \A i \in 1..n : e[k + i] = bytes[i]
    <3>1. e = c \o bytes /\ k = Len(c)
      BY <2>1
    <3> HIDE DEF e
    <3> QED  BY SMTT(30), <1>5, <2>1, <3>1, Joined
  <2> HIDE DEF e
  <2>4. ASSUME NEW i \in 1..k + n PROVE d[b.read_index + i] = e[i]
    <3>1. CASE i <= k
      <4>1. i \in 1..k /\ b.read_index + i \in 1..w
        BY <1>0, <1>1, <2>2, <3>1
      <4> QED  BY <1>10, <2>1, <2>3, <4>1
    <3>2. CASE ~(i <= k)
      <4>1. i - k \in 1..n /\ b.read_index + i = w + (i - k) /\ k + (i - k) = i
        <5>1. b.read_index \in Nat
          BY <1>1
        <5> QED  BY SMTT(30), <1>0, <2>2, <3>2, <5>1
      <4>2. d[w + (i - k)] = bytes[i - k] /\ e[k + (i - k)] = bytes[i - k]
        BY <1>11, <2>3, <4>1
      <4> QED  BY <4>1, <4>2
    <3> QED  BY <3>1, <3>2
  <2>5. k + n = y.write_index - y.read_index
    <3>1. b.read_index \in Nat /\ y.write_index = v /\ y.read_index = b.read_index
      BY <1>1, <1>13
    <3>2. b.read_index \in Nat /\ b.read_index + k = w /\ v = w + n /\ n \in Nat /\ k \in Nat
      BY <1>0, <2>2, <3>1
    <3> HIDE DEF v, w
    <3>3. k + n = v - b.read_index
      BY <3>2
    <3> QED  BY <3>1, <3>3
  <2>6. /\ Len(e) = y.write_index - y.read_index
        /\ \A i \in 1..Len(e) : y.data[y.read_index + i] = e[i]
    BY <1>13, <2>3, <2>4, <2>5
  <2>7. Bytes!Content(y) = e
    BY <1>14, <2>3, <2>6, SameContent
  <2> QED  BY <2>7 DEF e, c
<1>16. Clean(b) => Clean(y)
  <2>1. SUFFICES ASSUME Clean(b), NEW i \in y.write_index + 1..Len(y.data) PROVE y.data[i] = 0
    BY DEF Clean
  <2>2. i \in v + 1..h /\ i \in b.write_index + 1..Len(b.data)
    <3>1. y.write_index = v /\ Len(y.data) = h
      BY <1>9, <1>13
    <3>2. i \in v + 1..h
      BY <2>1, <3>1
    <3>3. i \in w + 1..h
      BY <1>0, <3>2, PastBoth
    <3>4. h = Len(b.data) /\ w = b.write_index
      BY DEF h, w
    <3> QED  BY <3>2, <3>3, <3>4
  <2> QED  BY <1>12, <1>13, <2>1, <2>2 DEF Clean
<1> QED  BY <1>14, <1>15, <1>16

\* What is left when n bytes are taken from the front of a sequence.
LEMMA DropIs ==
  ASSUME NEW q \in Seq(Nat), NEW n \in Nat, n <= Len(q)
  PROVE  /\ Bytes!Drop(q, n) \in Seq(Nat) /\ Len(Bytes!Drop(q, n)) = Len(q) - n
         /\ \A i \in 1..Len(q) - n : Bytes!Drop(q, n)[i] = q[n + i]
<1> DEFINE h == Len(q)
<1>1. h \in Nat /\ n <= h /\ h <= Len(q)
  OBVIOUS
<1> HIDE DEF h
<1>2. /\ SubSeq(q, n + 1, h) \in Seq(Nat) /\ Len(SubSeq(q, n + 1, h)) = h - n
      /\ \A i \in 1..h - n : SubSeq(q, n + 1, h)[i] = q[n + i]
  BY <1>1, Piece
<1> QED  BY <1>2 DEF h, Bytes!Drop

LEMMA DropAll ==
  ASSUME NEW q \in Seq(Nat), NEW n \in Nat, n > Len(q) PROVE Bytes!Drop(q, n) = <<>>
<1> DEFINE m == n + 1
           h == Len(q)
<1>1. m \in Int /\ h \in Int /\ h < m
  OBVIOUS
<1>2. Bytes!Drop(q, n) = SubSeq(q, m, h)
  BY DEF Bytes!Drop
<1> HIDE DEF m, h
<1> QED  BY <1>1, <1>2, SubSeqEmpty

\* retrieve takes the bytes from the front; more than there are empties the buffer.
LEMMA RetrieveKeeps ==
  ASSUME NEW b, Sound(b), NEW n \in Nat, NEW y, y = Bytes!retrieve(b, n)
  PROVE  /\ Sound(y) /\ Bytes!Content(y) = Bytes!Drop(Bytes!Content(b), n)
         /\ n <= Bytes!readable(b) /\ Clean(b) => Clean(y)
<1> DEFINE c == Bytes!Content(b)
<1>1. /\ b.data \in Seq(Nat) /\ b.read_index \in Nat /\ b.write_index \in Nat /\ Len(b.data) \in Nat
      /\ b.read_index <= b.write_index /\ b.write_index <= Len(b.data) /\ b \in Buffers
  BY DEF Sound, Buffers
<1>2. /\ c \in Seq(Nat) /\ Len(c) = b.write_index - b.read_index /\ Bytes!readable(b) = Len(c)
      /\ \A i \in 1..Len(c) : c[i] = b.data[b.read_index + i]
  BY ContentIs
<1> HIDE DEF c
<1>3. CASE n > Bytes!readable(b)
  <2>1. y = [b EXCEPT !.read_index = 0, !.write_index = 0]
    BY <1>3 DEF Bytes!retrieve, Bytes!retrieve_all
  <2>2. Sound(y) /\ y.read_index = 0 /\ y.write_index = 0
    <3>1. b \in Buffers
      BY <1>1
    <3> DEFINE o == 0
    <3>3. o \in Nat /\ y = [b EXCEPT !.read_index = o, !.write_index = o]
      BY <2>1
    <3> HIDE DEF o
    <3>4. y \in Buffers /\ y.read_index = o /\ y.write_index = o /\ y.data = b.data
      BY <1>1, <3>3 DEF Buffers
    <3>2. y \in Buffers /\ y.read_index = 0 /\ y.write_index = 0 /\ y.data = b.data
      BY <3>4 DEF o
    <3> QED  BY <1>1, <3>2 DEF Sound
  <2>3. Bytes!Content(y) \in Seq(Nat) /\ Len(Bytes!Content(y)) = 0
    BY <2>2, ContentIs
  <2>4. Bytes!Content(y) = <<>>
    BY <2>3, EmptySeq
  <2>5. Bytes!Drop(c, n) = <<>>
    BY <1>2, <1>3, DropAll
  <2>6. ~(n <= Bytes!readable(b))
    BY <1>1, <1>2, <1>3
  <2> QED  BY <2>2, <2>4, <2>5, <2>6 DEF c
<1>4. CASE ~(n > Bytes!readable(b))
  <2>1. y = [b EXCEPT !.read_index = @ + n]
    BY <1>4 DEF Bytes!retrieve
  <2>2. n <= Len(c)
    BY <1>1, <1>2, <1>4
  <2>3. y.data = b.data /\ y.read_index = b.read_index + n /\ y.write_index = b.write_index /\ y \in Buffers
    BY <1>1, <2>1 DEF Buffers
  <2>4. Sound(y)
    BY <1>1, <1>2, <2>2, <2>3 DEF Sound
  <2> DEFINE q == Bytes!Drop(c, n)
  <2>5. q \in Seq(Nat) /\ Len(q) = Len(c) - n /\ \A i \in 1..Len(c) - n : q[i] = c[n + i]
    BY <1>2, <2>2, DropIs
  <2> HIDE DEF q
  <2>6. ASSUME NEW i \in 1..Len(q) PROVE y.data[y.read_index + i] = q[i]
    <3>0. Len(c) \in Nat /\ Len(q) = Len(c) - n /\ y.read_index = b.read_index + n /\ b.read_index \in Nat
      BY <1>1, <1>2, <2>3, <2>5
    <3>1. n + i \in 1..Len(c) /\ y.read_index + i = b.read_index + (n + i) /\ i \in 1..Len(c) - n
      BY <2>2, <3>0
    <3> QED  BY <1>2, <2>3, <2>5, <3>1
  <2>7. Len(q) = y.write_index - y.read_index
    BY <1>1, <1>2, <2>3, <2>5
  <2>8. Bytes!Content(y) = q
    BY <2>4, <2>5, <2>6, <2>7, SameContent
  <2>9. Clean(b) => Clean(y)
    BY <2>3 DEF Clean
  <2> QED  BY <2>4, <2>8, <2>9 DEF c, q
<1> QED  BY <1>3, <1>4

-----------------------------------------------------------------------------
LEMMA MinIs ==
  ASSUME NEW S \in SUBSET Int, NEW m \in S, \A y \in S : m <= y PROVE Bytes!Min(S) = m
<1>1. ASSUME NEW z \in S, \A y \in S : z =< y PROVE z = m
  BY <1>1
<1> QED  BY <1>1 DEF Bytes!Min

LEMMA MinOfTwo ==
  ASSUME NEW a \in Nat, NEW b \in Nat
  PROVE  Bytes!Min({a, b}) \in Nat /\ Bytes!Min({a, b}) <= a /\ Bytes!Min({a, b}) <= b
<1>1. CASE a <= b
  <2>1. Bytes!Min({a, b}) = a
    BY <1>1, MinIs
  <2> QED  BY <1>1, <2>1
<1>2. CASE ~(a <= b)
  <2>1. Bytes!Min({a, b}) = b
    BY <1>2, MinIs
  <2> QED  BY <1>2, <2>1
<1> QED  BY <1>1, <1>2

\* Where no byte behind the write index was read before, strncpy ends with what is unread.
LEMMA HandedIs ==
  ASSUME StreamSizes, Sound(s.in), Clean(s.in), Bytes!Content(s.in) = s.unread,
         \A i \in 1..Len(s.unread) : s.unread[i] # 0
  PROVE  Bytes!Handed = SubSeq(s.unread, 1, Bytes!Min({Copied, Len(s.unread)}))
<1> DEFINE d == s.in.data
           l == s.in.read_index
           h == Len(d)
           u == s.unread
           r == Len(u)
           all == SubSeq(d, l + 1, h)
           ends == {i \in 1..Len(all) : all[i] = 0} \cup {Len(all) + 1}
<1>1. /\ d \in Seq(Nat) /\ l \in Nat /\ s.in.write_index \in Nat /\ h \in Nat
      /\ l <= s.in.write_index /\ s.in.write_index <= h
  BY DEF Sound, Buffers
<1>2. u \in Seq(Nat) /\ r = s.in.write_index - l /\ \A i \in 1..r : u[i] = d[l + i]
  BY ContentIs
<1>3. Bytes!Handed = SubSeq(all, 1, Bytes!Min({Bytes!Min(ends) - 1, Copied}))
  BY DEF Bytes!Handed
<1>4. all \in Seq(Nat) /\ Len(all) = h - l /\ \A i \in 1..h - l : all[i] = d[l + i]
  <2> HIDE DEF h, d, l
  <2>1. h <= Len(d) /\ l <= h
    BY <1>1 DEF h
  <2> QED  BY <1>1, <2>1, Piece
<1>5. \A i \in s.in.write_index + 1..h : d[i] = 0
  BY DEF Clean
<1> DEFINE w == s.in.write_index
<1>6. l \in Nat /\ w \in Nat /\ h \in Nat /\ l <= w /\ w <= h /\ r = w - l
  BY <1>1, <1>2
<1>7. \A i \in 1..r : u[i] # 0
  OBVIOUS
<1>8. \A i \in w + 1..h : d[i] = 0
  BY <1>5
<1>9. ends \subseteq Int /\ \A i \in ends : (i \in 1..h - l /\ all[i] = 0) \/ i = h - l + 1
  BY <1>4
<1>10. \A i \in 1..h - l : all[i] = 0 => i \in ends
  BY <1>4
<1>11. h - l + 1 \in ends
  BY <1>4
<1> HIDE DEF d, l, h, u, r, all, ends, w
<1>12. ASSUME NEW i \in 1..r PROVE i \in 1..h - l /\ all[i] = u[i] /\ all[i] # 0
  <2>1. i \in 1..h - l
    BY <1>6
  <2> QED  BY <1>2, <1>4, <1>7, <2>1
<1>13. r + 1 \in ends
  <2>1. CASE r = h - l
    BY <1>11, <2>1
  <2>2. CASE r # h - l
    <3>1. r + 1 \in 1..h - l /\ l + (r + 1) \in w + 1..h
      BY <1>6, <2>2
    <3>2. all[r + 1] = 0
      BY <1>4, <1>8, <3>1
    <3> QED  BY <1>10, <3>1, <3>2
  <2> QED  BY <2>1, <2>2
<1>14. ASSUME NEW i \in ends PROVE r + 1 <= i
  <2>1. CASE i = h - l + 1
    BY <1>6, <2>1
  <2>2. CASE i \in 1..h - l /\ all[i] = 0
    <3>1. i \notin 1..r
      BY <1>12, <2>2
    <3> QED  BY <1>6, <2>2, <3>1
  <2> QED  BY <1>9, <2>1, <2>2
<1>15. Bytes!Min(ends) = r + 1
  <2> DEFINE m == r + 1
  <2>1. ends \in SUBSET Int /\ m \in ends /\ \A i \in ends : m <= i
    BY <1>9, <1>13, <1>14
  <2> HIDE DEF m
  <2>2. Bytes!Min(ends) = m
    BY <2>1, MinIs
  <2> QED  BY <2>2 DEF m
<1>16. r \in Nat /\ Bytes!Min(ends) - 1 = r
  BY <1>6, <1>15
<1> DEFINE k == Bytes!Min({Copied, r})
<1>17. k \in Nat /\ k <= r
  BY <1>16, MinOfTwo DEF StreamSizes
<1>18. {Bytes!Min(ends) - 1, Copied} = {Copied, r}
  BY <1>16
<1>19. Bytes!Handed = SubSeq(all, 1, k)
  BY <1>3, <1>18
<1> HIDE DEF k
<1>20. k <= Len(all) /\ k <= Len(u) /\ \A i \in 1..k : i \in 1..r
  <2>1. r = Len(u) /\ Len(all) = h - l
    BY <1>4 DEF r
  <2> QED  BY <1>6, <1>17, <2>1
<1>21. /\ SubSeq(all, 1, k) \in Seq(Nat) /\ Len(SubSeq(all, 1, k)) = k
       /\ \A i \in 1..k : SubSeq(all, 1, k)[i] = all[i]
  BY <1>4, <1>17, <1>20, Begin
<1>22. /\ SubSeq(u, 1, k) \in Seq(Nat) /\ Len(SubSeq(u, 1, k)) = k
       /\ \A i \in 1..k : SubSeq(u, 1, k)[i] = u[i]
  BY <1>2, <1>17, <1>20, Begin
<1>23. \A i \in 1..k : SubSeq(all, 1, k)[i] = SubSeq(u, 1, k)[i]
  BY <1>12, <1>20, <1>21, <1>22
<1>24. SubSeq(all, 1, k) = SubSeq(u, 1, k)
  BY <1>21, <1>22, <1>23, SeqEqual
<1> QED  BY <1>19, <1>24 DEF k, r, u

\* The bytes of one call.
LEMMA Numbered ==
  ASSUME NEW m \in Nat, NEW n \in Nat
  PROVE  /\ [i \in 1..n |-> m + i] \in Seq(Nat) /\ Len([i \in 1..n |-> m + i]) = n
         /\ \A i \in 1..n : [j \in 1..n |-> m + j][i] # 0
<1> DEFINE b == [i \in 1..n |-> m + i]
<1>1. b \in [1..n -> Nat] /\ \A i \in 1..n : b[i] = m + i /\ m + i # 0
  OBVIOUS
<1>2. b \in Seq(Nat) /\ Len(b) = n
  BY <1>1
<1> QED  BY <1>1, <1>2

-----------------------------------------------------------------------------
LEMMA BytesInvInit == ASSUME StreamSizes, Bytes!Init PROVE BytesInv(s)
<1>1. /\ s.in = Bytes!NewBuffer /\ s.out = Bytes!NewBuffer /\ s.come = 0 /\ s.unread = <<>> /\ s.reused = FALSE
      /\ s.sees /\ s.owed = <<>> /\ s.got = <<>> /\ ~s.is_closed
  BY DEF Bytes!Init
<1>2. Sound(Bytes!NewBuffer) /\ Clean(Bytes!NewBuffer) /\ Bytes!Content(Bytes!NewBuffer) = <<>> /\ Bytes!NewBuffer \in Buffers
  BY NewSound DEF Sound
<1>3. s \in ByteState
  BY <1>2 DEF Bytes!Init, ByteState
<1>4. s.got \o Bytes!Content(s.out) = s.owed
  BY <1>1, <1>2
<1> QED  BY <1>1, <1>2, <1>3, <1>4 DEF BytesInv

LEMMA ReadStep == ASSUME StreamSizes, BytesInv(s), NEW n \in 1..READBYTES, Bytes!Read(n) PROVE BytesInv(s')
<1> DEFINE bytes == [i \in 1..n |-> s.come + i]
           e == Bytes!ensure_writeable(s.in, READBYTES)
           y == Bytes!append(e, bytes)
<1>1. s \in ByteState /\ n \in Nat /\ n <= READBYTES /\ READBYTES \in Nat /\ s.come \in Nat
  BY DEF BytesInv, StreamSizes, ByteState
<1>2. bytes \in Seq(Nat) /\ Len(bytes) = n /\ \A i \in 1..n : bytes[i] # 0
  BY <1>1, Numbered
<1>3. /\ s'.in = y /\ s'.come = s.come + n /\ s'.unread = s.unread \o bytes
      /\ s'.reused = (s.reused \/ Bytes!Moves(s.in, READBYTES))
      /\ s'.out = s.out /\ s'.sees = s.sees /\ s'.owed = s.owed /\ s'.got = s.got /\ s'.is_closed = s.is_closed
      /\ s' = [s EXCEPT !.in = y, !.come = s'.come, !.unread = s'.unread, !.reused = s'.reused]
  BY <1>1 DEF Bytes!Read, ByteState
<1> HIDE DEF bytes
<1>4. /\ Sound(e) /\ Bytes!Content(e) = Bytes!Content(s.in) /\ e.write_index + READBYTES <= Len(e.data)
      /\ ~Bytes!Moves(s.in, READBYTES) /\ Clean(s.in) => Clean(e)
  BY <1>1, EnsureKeeps DEF BytesInv
<1> HIDE DEF e
<1>5. e.write_index + Len(bytes) <= Len(e.data)
  <2>1. e.write_index \in Nat /\ Len(e.data) \in Nat
    BY <1>4 DEF Sound, Buffers
  <2> QED  BY <1>1, <1>2, <1>4, <2>1
<1>6. Sound(y) /\ Bytes!Content(y) = Bytes!Content(e) \o bytes /\ (Clean(e) => Clean(y))
  BY <1>2, <1>4, <1>5, AppendKeeps
<1> HIDE DEF y
<1>7. s.unread \in Seq(Nat)
  BY <1>1 DEF ByteState
<1> DEFINE u == s.unread \o bytes
<1>8. /\ u \in Seq(Nat) /\ Len(u) = Len(s.unread) + n
      /\ \A i \in 1..Len(s.unread) : u[i] = s.unread[i]
      /\ \A i \in 1..n : u[Len(s.unread) + i] = bytes[i]
  BY <1>2, <1>7, Joined
<1>9. s'.unread = u
  BY <1>3
<1> HIDE DEF u
<1>10. s' \in ByteState
  <2>1. y \in Buffers /\ s'.come \in Nat /\ u \in Seq(Nat) /\ s'.reused \in BOOLEAN
    BY <1>1, <1>3, <1>6, <1>8 DEF Sound
  <2> QED  BY <1>1, <1>3, <1>9, <2>1 DEF ByteState
<1>11. ASSUME ~s'.reused PROVE Clean(y) /\ \A i \in 1..Len(u) : u[i] # 0
  <2>1. ~s.reused /\ ~Bytes!Moves(s.in, READBYTES)
    BY <1>3, <1>11
  <2>2. Clean(s.in) /\ \A i \in 1..Len(s.unread) : s.unread[i] # 0
    BY <2>1 DEF BytesInv
  <2>3. ASSUME NEW i \in 1..Len(u) PROVE u[i] # 0
    <3> DEFINE m == Len(s.unread)
    <3>0. m \in Nat
      BY <1>7
    <3> HIDE DEF m
    <3>1. i \in 1..m \/ (i - m \in 1..n /\ i = m + (i - m))
      BY <1>1, <1>8, <3>0 DEF m
    <3>2. CASE i \in 1..m
      BY <1>8, <2>2, <3>2 DEF m
    <3>3. CASE i - m \in 1..n /\ i = m + (i - m)
      <4>1. u[m + (i - m)] = bytes[i - m]
        BY <1>8, <3>3 DEF m
      <4> QED  BY <1>2, <3>3, <4>1
    <3> QED  BY <3>1, <3>2, <3>3
  <2> QED  BY <1>4, <1>6, <2>1, <2>2, <2>3
<1>12. Bytes!Content(s'.in) = s'.unread
  BY <1>3, <1>4, <1>6 DEF BytesInv
<1>13. ~s'.is_closed => s'.got \o Bytes!Content(s'.out) = s'.owed
  BY <1>3 DEF BytesInv
<1>14. ~s'.reused => Clean(s'.in) /\ \A i \in 1..Len(s'.unread) : s'.unread[i] # 0
  BY <1>3, <1>9, <1>11
<1>15. Sound(s'.in) /\ Sound(s'.out) /\ s'.sees
  BY <1>3, <1>6 DEF BytesInv
<1> QED  BY <1>10, <1>12, <1>13, <1>14, <1>15 DEF BytesInv

LEMMA ParseStep == ASSUME StreamSizes, BytesInv(s), NEW n \in 1..READBYTES, Bytes!Parse(n) PROVE BytesInv(s')
<1> DEFINE y == Bytes!retrieve(s.in, n)
           u == Bytes!Drop(s.unread, n)
<1>1. s \in ByteState /\ n \in Nat /\ s.unread \in Seq(Nat)
  BY DEF BytesInv, StreamSizes, ByteState
<1>2. /\ s'.in = y /\ s'.unread = u /\ s'.reused = (s.reused \/ n > Bytes!readable(s.in))
      /\ s'.sees = (s.sees /\ (s.reused \/ Bytes!Handed = SubSeq(s.unread, 1, Bytes!Min({Copied, Len(s.unread)}))))
      /\ s'.out = s.out /\ s'.owed = s.owed /\ s'.got = s.got /\ s'.is_closed = s.is_closed
      /\ s' = [s EXCEPT !.in = y, !.unread = u, !.reused = s'.reused, !.sees = s'.sees]
  BY <1>1 DEF Bytes!Parse, ByteState
<1>3. s'.sees
  <2>1. CASE s.reused
    BY <1>2, <2>1 DEF BytesInv
  <2>2. CASE ~s.reused
    <3>1. Bytes!Handed = SubSeq(s.unread, 1, Bytes!Min({Copied, Len(s.unread)}))
      BY <2>2, HandedIs DEF BytesInv
    <3> QED  BY <1>2, <3>1 DEF BytesInv
  <2> QED  BY <2>1, <2>2
<1>4. /\ Sound(y) /\ Bytes!Content(y) = Bytes!Drop(Bytes!Content(s.in), n)
      /\ n <= Bytes!readable(s.in) /\ Clean(s.in) => Clean(y)
  BY <1>1, RetrieveKeeps DEF BytesInv
<1>5. Bytes!readable(s.in) = Len(s.unread) /\ Len(s.unread) \in Nat /\ Bytes!Content(s.in) = s.unread
  BY <1>1, ContentIs DEF BytesInv
<1> HIDE DEF y
<1>6. Bytes!Content(y) = u
  BY <1>4, <1>5
<1>7. u \in Seq(Nat)
  BY <1>4, <1>6, ContentIs
<1>8. ASSUME ~s'.reused PROVE Clean(y) /\ \A i \in 1..Len(u) : u[i] # 0
  <2>1. ~s.reused /\ ~(n > Len(s.unread))
    BY <1>2, <1>5, <1>8
  <2>2. n <= Len(s.unread)
    BY <1>1, <1>5, <2>1
  <2>3. Len(u) = Len(s.unread) - n /\ \A i \in 1..Len(s.unread) - n : u[i] = s.unread[n + i]
    BY <1>1, <2>2, DropIs
  <2>4. Clean(s.in) /\ \A i \in 1..Len(s.unread) : s.unread[i] # 0
    BY <2>1 DEF BytesInv
  <2> HIDE DEF u
  <2>5. \A i \in 1..Len(s.unread) - n : n + i \in 1..Len(s.unread)
    BY <1>1, <1>5, <2>2
  <2> QED  BY <1>4, <1>5, <2>2, <2>3, <2>4, <2>5
<1> HIDE DEF u
<1>9. s' \in ByteState
  <2>1. y \in Buffers /\ s'.reused \in BOOLEAN /\ s'.sees \in BOOLEAN
    BY <1>1, <1>2, <1>4 DEF Sound
  <2> QED  BY <1>1, <1>2, <1>7, <2>1 DEF ByteState
<1>10. Bytes!Content(s'.in) = s'.unread
  BY <1>2, <1>6
<1>11. ~s'.is_closed => s'.got \o Bytes!Content(s'.out) = s'.owed
  BY <1>2 DEF BytesInv
<1>12. ~s'.reused => Clean(s'.in) /\ \A i \in 1..Len(s'.unread) : s'.unread[i] # 0
  BY <1>2, <1>8
<1>13. Sound(s'.in) /\ Sound(s'.out)
  BY <1>2, <1>4 DEF BytesInv
<1> QED  BY <1>3, <1>9, <1>10, <1>11, <1>12, <1>13 DEF BytesInv

\* A step that leaves the side of the reading alone.
LEMMA OutOnly ==
  ASSUME BytesInv(s), Sound(s'.out), s'.owed \in Seq(Nat), s'.got \in Seq(Nat), s'.is_closed \in BOOLEAN,
         s' = [s EXCEPT !.out = s'.out, !.owed = s'.owed, !.got = s'.got, !.is_closed = s'.is_closed],
         ~s'.is_closed => s'.got \o Bytes!Content(s'.out) = s'.owed
  PROVE  BytesInv(s')
<1>1. s \in ByteState /\ s'.out \in Buffers
  BY DEF BytesInv, Sound
<1>2. s' \in ByteState /\ s'.in = s.in /\ s'.unread = s.unread /\ s'.reused = s.reused /\ s'.sees = s.sees
  BY <1>1 DEF ByteState
<1> QED  BY <1>2 DEF BytesInv

LEMMA WriteStep == ASSUME StreamSizes, BytesInv(s), NEW n \in 1..READBYTES, Bytes!Write(n) PROVE BytesInv(s')
<1> DEFINE bytes == [i \in 1..n |-> Len(s.owed) + i]
           e == Bytes!ensure_writeable(s.out, n)
           y == Bytes!append(e, bytes)
           c == Bytes!Content(s.out)
<1>1. s \in ByteState /\ n \in Nat /\ s.owed \in Seq(Nat) /\ s.got \in Seq(Nat) /\ Len(s.owed) \in Nat /\ s.is_closed \in BOOLEAN
  BY DEF BytesInv, StreamSizes, ByteState
<1>2. bytes \in Seq(Nat) /\ Len(bytes) = n
  BY <1>1, Numbered
<1>3. /\ s'.out = y /\ s'.owed = s.owed \o bytes /\ s'.got = s.got /\ s'.is_closed = s.is_closed
      /\ s' = [s EXCEPT !.out = s'.out, !.owed = s'.owed, !.got = s'.got, !.is_closed = s'.is_closed]
  BY <1>1 DEF Bytes!Write, ByteState
<1> HIDE DEF bytes
<1>4. Sound(e) /\ Bytes!Content(e) = c /\ e.write_index + n <= Len(e.data) /\ c \in Seq(Nat)
  BY <1>1, EnsureKeeps, ContentIs DEF BytesInv
<1> HIDE DEF e
<1>5. Sound(y) /\ Bytes!Content(y) = c \o bytes
  BY <1>2, <1>4, AppendKeeps
<1>6. s'.owed \in Seq(Nat)
  BY <1>1, <1>2, <1>3
<1> HIDE DEF y, c
<1>7. ASSUME ~s'.is_closed PROVE s'.got \o Bytes!Content(s'.out) = s'.owed
  <2>1. s.got \o c = s.owed
    BY <1>3, <1>7 DEF BytesInv, c
  <2>2. s.got \o (c \o bytes) = (s.got \o c) \o bytes
    BY <1>1, <1>2, <1>4, Regroup
  <2> QED  BY <1>3, <1>5, <2>1, <2>2
<1> QED  BY <1>1, <1>3, <1>5, <1>6, <1>7, OutOnly

LEMMA SendStep == ASSUME StreamSizes, BytesInv(s), NEW n \in 1..READBYTES, Bytes!Send(n) PROVE BytesInv(s')
<1> DEFINE y == Bytes!retrieve(s.out, n)
           c == Bytes!Content(s.out)
           p == SubSeq(c, 1, n)
           q == Bytes!Drop(c, n)
<1>1. s \in ByteState /\ n \in Nat /\ s.owed \in Seq(Nat) /\ s.got \in Seq(Nat) /\ ~s.is_closed /\ n <= Bytes!readable(s.out)
  BY DEF BytesInv, StreamSizes, ByteState, Bytes!Send
<1>2. /\ s'.out = y /\ s'.owed = s.owed /\ s'.got = s.got \o p /\ s'.is_closed = s.is_closed
      /\ s' = [s EXCEPT !.out = s'.out, !.owed = s'.owed, !.got = s'.got, !.is_closed = s'.is_closed]
  BY <1>1 DEF Bytes!Send, ByteState
<1>3. Sound(y) /\ Bytes!Content(y) = q
  BY <1>1, RetrieveKeeps DEF BytesInv
<1>4. c \in Seq(Nat) /\ n <= Len(c) /\ Len(c) \in Nat /\ s.got \o c = s.owed
  BY <1>1, ContentIs DEF BytesInv
<1> HIDE DEF y, c
<1>5. p \in Seq(Nat)
  BY <1>1, <1>4, Begin
<1>6. q \in Seq(Nat)
  BY <1>1, <1>4, DropIs
<1>7. p \o q = c
  <2>1. p \o q = SubSeq(c, 1, n) \o SubSeq(c, n + 1, Len(c))
    BY DEF Bytes!Drop
  <2>2. SubSeq(c, 1, n) \o SubSeq(c, n + 1, Len(c)) = SubSeq(c, 1, Len(c))
    <3>1. 1 \in 1..Len(c) + 1 /\ n \in 1 - 1..Len(c) /\ Len(c) \in n..Len(c)
      BY <1>1, <1>4
    <3> QED  BY <1>4, <3>1, ConcatAdjacentSubSeq
  <2>3. SubSeq(c, 1, Len(c)) = c
    BY <1>4, SubSeqFull
  <2> QED  BY <2>1, <2>2, <2>3
<1> HIDE DEF p, q
<1>8. s.got \o (p \o q) = (s.got \o p) \o q /\ s.got \o p \in Seq(Nat)
  <2> DEFINE g == s.got
  <2>1. g \in Seq(Nat)
    BY <1>1
  <2> HIDE DEF g
  <2>2. g \o (p \o q) = (g \o p) \o q
    BY <1>5, <1>6, <2>1, Regroup
  <2>3. g \o p \in Seq(Nat)
    BY <1>5, <2>1, Joined
  <2> QED  BY <2>2, <2>3 DEF g
<1>9. s'.got \o Bytes!Content(s'.out) = s'.owed
  BY <1>2, <1>3, <1>4, <1>7, <1>8
<1>10. s'.is_closed \in BOOLEAN
  BY <1>1, <1>2 DEF ByteState
<1> QED  BY <1>1, <1>2, <1>3, <1>8, <1>9, <1>10, OutOnly

LEMMA BytesInvNext == ASSUME StreamSizes, BytesInv(s), [Bytes!Next]_s PROVE BytesInv(s')
<1>0. s \in ByteState
  BY DEF BytesInv
<1>1. CASE s' = s
  BY <1>1
<1>2. ASSUME NEW n \in 1..READBYTES, Bytes!Read(n) \/ Bytes!Parse(n) \/ Bytes!Write(n) \/ Bytes!Send(n) PROVE BytesInv(s')
  BY <1>2, ReadStep, ParseStep, WriteStep, SendStep
<1>3. CASE Bytes!SendClosed
  <2> DEFINE y == Bytes!retrieve_all(s.out)
  <2>1. Sound(y)
    <3> DEFINE o == 0
    <3>1. o \in Nat /\ y = [s.out EXCEPT !.read_index = o, !.write_index = o]
      BY DEF Bytes!retrieve_all
    <3>2. s.out \in Buffers /\ o <= Len(s.out.data) /\ o <= o
      BY DEF BytesInv, Sound, Buffers
    <3> HIDE DEF o, y
    <3> QED  BY <3>1, <3>2 DEF Sound, Buffers
  <2>2. /\ s'.out = y /\ s'.owed = s.owed /\ s'.got = s.got /\ s'.is_closed = s.is_closed /\ s.is_closed
        /\ s' = [s EXCEPT !.out = s'.out, !.owed = s'.owed, !.got = s'.got, !.is_closed = s'.is_closed]
    BY <1>0, <1>3 DEF Bytes!SendClosed, ByteState
  <2>3. s.owed \in Seq(Nat) /\ s.got \in Seq(Nat) /\ s.is_closed \in BOOLEAN
    BY <1>0 DEF ByteState
  <2> HIDE DEF y
  <2> QED  BY <2>1, <2>2, <2>3, OutOnly
<1>4. CASE Bytes!Close
  <2>1. /\ s'.out = s.out /\ s'.owed = s.owed /\ s'.got = s.got /\ s'.is_closed
        /\ s'.is_closed \in BOOLEAN
        /\ s' = [s EXCEPT !.out = s'.out, !.owed = s'.owed, !.got = s'.got, !.is_closed = s'.is_closed]
    BY <1>0, <1>4 DEF Bytes!Close, ByteState
  <2>2. s.owed \in Seq(Nat) /\ s.got \in Seq(Nat) /\ Sound(s.out)
    BY <1>0 DEF ByteState, BytesInv
  <2> QED  BY <2>1, <2>2, OutOnly
<1> QED  BY <1>1, <1>2, <1>3, <1>4 DEF Bytes!Next

LEMMA BytesInvKept ==
  ASSUME StreamSizes PROVE BytesInv(s) /\ [Bytes!Next]_s => BytesInv(s)'
<1>1. SUFFICES ASSUME BytesInv(s), [Bytes!Next]_s PROVE BytesInv(s')
  BY DEF BytesInv, ByteState, Sound, Clean, Bytes!Content
<1> QED  BY <1>1, BytesInvNext

\* in_buf loses, repeats and reorders no byte through any growth, any move of the unread bytes and
\* any retrieve of more than is readable, for all sizes (base/buffer.h:41-137, Connector::read).
THEOREM ReadInOrder ==
  ASSUME StreamSizes
  PROVE  Spec => []UnreadKept
<1>1. Init => (part = "bytes" => BytesInv(s))
  BY PartInit, BytesInvInit
<1>2. (part = "bytes" => BytesInv(s)) /\ [Next]_vars => (part = "bytes" => BytesInv(s))'
  <2>1. SUFFICES ASSUME (part = "bytes" => BytesInv(s)), [Next]_vars, part' = "bytes" PROVE BytesInv(s)'
    OBVIOUS
  <2>2. part = "bytes" /\ [Bytes!Next]_s
    BY <2>1, PartSteps
  <2> QED  BY <2>1, <2>2, BytesInvKept
<1>3. (part = "bytes" => BytesInv(s)) => UnreadKept
  BY DEF UnreadKept, BytesInv, Bytes!UnreadKept
<1> QED  BY <1>1, <1>2, <1>3, PTL DEF Spec

\* What the peer has and what out_buf still holds is what was written, for all sizes, until the
\* connection is closed (Connector::write and send, net/connector.cc:193-237).
THEOREM SentInOrder ==
  ASSUME StreamSizes
  PROVE  Spec => []WrittenInOrder
<1>1. Init => (part = "bytes" => BytesInv(s))
  BY PartInit, BytesInvInit
<1>2. (part = "bytes" => BytesInv(s)) /\ [Next]_vars => (part = "bytes" => BytesInv(s))'
  <2>1. SUFFICES ASSUME (part = "bytes" => BytesInv(s)), [Next]_vars, part' = "bytes" PROVE BytesInv(s)'
    OBVIOUS
  <2>2. part = "bytes" /\ [Bytes!Next]_s
    BY <2>1, PartSteps
  <2> QED  BY <2>1, <2>2, BytesInvKept
<1>3. (part = "bytes" => BytesInv(s)) => WrittenInOrder
  BY DEF WrittenInOrder, BytesInv, Bytes!WrittenInOrder
<1> QED  BY <1>1, <1>2, <1>3, PTL DEF Spec

\* Until the room of parsed bytes is used again HttpServer::Parse hands the parser what is unread,
\* up to the size of its copy (net/http_server.cc), though strncpy runs past the write index.
THEOREM ParserIsHandedUnread ==
  ASSUME StreamSizes
  PROVE  Spec => []ParserSeesUnread
<1>1. Init => (part = "bytes" => BytesInv(s))
  BY PartInit, BytesInvInit
<1>2. (part = "bytes" => BytesInv(s)) /\ [Next]_vars => (part = "bytes" => BytesInv(s))'
  <2>1. SUFFICES ASSUME (part = "bytes" => BytesInv(s)), [Next]_vars, part' = "bytes" PROVE BytesInv(s)'
    OBVIOUS
  <2>2. part = "bytes" /\ [Bytes!Next]_s
    BY <2>1, PartSteps
  <2> QED  BY <2>1, <2>2, BytesInvKept
<1>3. (part = "bytes" => BytesInv(s)) => ParserSeesUnread
  BY DEF ParserSeesUnread, BytesInv, Bytes!ParserSeesUnread
<1> QED  BY <1>1, <1>2, <1>3, PTL DEF Spec
-----------------------------------------------------------------------------
(* The table of the event loop.                                            *)

\* Descriptors are numbers, and a grown table is longer by at least the step.
TableConstants == /\ Fds \subseteq Nat
                  /\ INIT_EVENTS \in Nat
                  /\ Growth \in Nat \ {0}

\* What is said of one descriptor, and the invariant: the table is a function on the numbers
\* below max_events, and TableSound holds with known flags.
EntryOf(x, f) == IF f < x.max_events THEN x.anfds[f] ELSE Table!Unused
Agrees(x, f) ==
  LET e == EntryOf(x, f)
  IN IF e.used THEN /\ e.list # <<>> /\ e.events = UNION Table!ToSet(e.list) /\ e.events \subseteq Table!Events
                    /\ x.epoll[f] # Table!Off /\ (x.epoll[f] = e.events \/ e.own)
     ELSE x.epoll[f] = Table!Off
IsEntry(e) == e = [used |-> e.used, events |-> e.events, list |-> e.list, own |-> e.own] /\ e.used \in BOOLEAN
Shape(x) == /\ x = [anfds |-> x.anfds, max_events |-> x.max_events, epoll |-> x.epoll,
                    odd |-> x.odd, null |-> x.null, stop |-> x.stop, loop |-> x.loop, wake |-> x.wake]
            /\ x.max_events \in Nat
            /\ x.anfds = [i \in 0..x.max_events - 1 |-> x.anfds[i]]
            /\ \A i \in 0..x.max_events - 1 : IsEntry(x.anfds[i])
            /\ x.epoll = [f \in Fds |-> x.epoll[f]]
            /\ x.odd \subseteq Fds
TableInv(x) == /\ Shape(x)
               /\ x.null \subseteq x.odd
               /\ \A f \in Fds \ x.odd : Agrees(x, f)

\* A call on f that leaves the other descriptors, the length and the loop alone.
Touches(x, y, f) ==
  /\ y.max_events = x.max_events
  /\ \A g \in Fds \ {f} : g \in y.odd <=> g \in x.odd
  /\ \A g \in Fds \ {f} : EntryOf(y, g) = EntryOf(x, g) /\ y.epoll[g] = x.epoll[g]

\* A set of numbers that is not empty has a least element.
LEMMA LeastElement ==
  ASSUME NEW T \in SUBSET Nat, T # {}
  PROVE  \E m \in T : \A k \in T : m <= k
<1> DEFINE R == OpToRel(<, Nat)
<1>1. IsWellFoundedOn(R, Nat)
  BY NatLessThanWellFounded
<1>2. \A i, j \in Nat : i < j => <<i, j>> \in R
  BY DEF OpToRel
<1> HIDE DEF R
<1>3. PICK m \in T : \A k \in T : ~ (<<k, m>> \in R)
  BY <1>1, WFMin
<1>4. ASSUME NEW k \in T PROVE m <= k
  <2>1. k \in Nat /\ m \in Nat
    OBVIOUS
  <2>2. ~(k < m)
    BY <1>2, <1>3, <2>1
  <2> QED  BY <2>1, <2>2
<1> QED  BY <1>4

\* The length that array_needsize tries after k.
Longer(k) == k + k \div 2 + Growth

LEMMA LongerGrows ==
  ASSUME TableConstants, NEW k \in Nat
  PROVE  Longer(k) \in Nat /\ k < Longer(k)
<1> DEFINE h == k \div 2
<1>1. h \in Nat
  OBVIOUS
<1> HIDE DEF h
<1>2. k + h + Growth \in Nat /\ k < k + h + Growth
  BY <1>1 DEF TableConstants
<1> QED  BY <1>2 DEF Longer, h

\* g follows the loop of array_needsize from every length that is less than j short of need.
Follows(g, need, j) ==
  \A k \in Nat : need <= k + j => g[k] = IF need <= k THEN k ELSE g[Longer(k)]

\* For every j some function follows the loop: a first j without one would follow one with.
LEMMA LoopHasFunction ==
  ASSUME TableConstants, NEW need \in Nat
  PROVE  \A j \in Nat : \E g \in [Nat -> Nat] : Follows(g, need, j)
<1> DEFINE Bad == {j \in Nat : ~ \E g \in [Nat -> Nat] : Follows(g, need, j)}
<1> SUFFICES ASSUME Bad # {} PROVE FALSE
  OBVIOUS
<1>1. PICK j \in Bad : \A k \in Bad : j <= k
  <2>1. Bad \in SUBSET Nat
    OBVIOUS
  <2> HIDE DEF Bad
  <2> QED  BY <2>1, LeastElement
<1>2. j \in Nat
  OBVIOUS
<1>3. CASE j = 0
  <2> DEFINE g == [k \in Nat |-> k]
  <2>1. g \in [Nat -> Nat]
    OBVIOUS
  <2>2. \A k \in Nat : need <= k + j => need <= k
    BY <1>3
  <2>3. Follows(g, need, j)
    BY <2>2 DEF Follows
  <2> QED  BY <2>1, <2>3
<1>4. CASE j # 0
  <2> DEFINE i == j - 1
  <2>1. i \in Nat /\ i < j /\ j = i + 1
    BY <1>2, <1>4
  <2> HIDE DEF i
  <2>2. i \notin Bad
    <3> HIDE DEF Bad
    <3> QED  BY <1>1, <1>2, <2>1
  <2>3. PICK h \in [Nat -> Nat] : Follows(h, need, i)
    BY <2>1, <2>2
  <2> DEFINE g == [k \in Nat |-> IF need <= k + i THEN h[k] ELSE h[Longer(k)]]
  <2>4. g \in [Nat -> Nat]
    BY <2>3, LongerGrows
  <2>5. ASSUME NEW k \in Nat, need <= k + j
        PROVE  g[k] = IF need <= k THEN k ELSE g[Longer(k)]
    <3> DEFINE l == Longer(k)
    <3>1. l \in Nat /\ k < l
      BY LongerGrows
    <3> HIDE DEF l
    <3>2. need <= l + i
      BY <2>1, <2>5, <3>1
    <3>3. g[l] = h[l]
      BY <3>1, <3>2
    <3>4. CASE need <= k + i
      <4>1. g[k] = h[k]
        BY <3>4
      <4>2. h[k] = IF need <= k THEN k ELSE h[l]
        BY <2>3, <3>4 DEF Follows, l
      <4> QED  BY <3>3, <4>1, <4>2 DEF l
    <3>5. CASE ~(need <= k + i)
      <4>1. g[k] = h[l]
        BY <3>5 DEF l
      <4>2. ~(need <= k)
        BY <2>1, <3>5
      <4> QED  BY <3>3, <4>1, <4>2 DEF l
    <3> QED  BY <3>4, <3>5
  <2>6. Follows(g, need, j)
    <3> HIDE DEF g
    <3> QED  BY <2>5 DEF Follows
  <2> QED  BY <2>4, <2>6
<1> QED  BY <1>3, <1>4

\* The loop ends, and with a length that is neither short of need nor less than before.
LEMMA GrownIsEnough ==
  ASSUME TableConstants, NEW n \in Nat, NEW need \in Nat
  PROVE  Table!Grown(n, need) \in Nat /\ need <= Table!Grown(n, need) /\ n <= Table!Grown(n, need)
<1> DEFINE IsLoop(g) == g = [k \in Nat |-> IF need <= k THEN k ELSE g[k + k \div 2 + Growth]]
           grown == CHOOSE g : IsLoop(g)
<1>1. \E g : IsLoop(g)
  <2>1. PICK g \in [Nat -> Nat] : Follows(g, need, need)
    BY LoopHasFunction
  <2>2. \A k \in Nat : need <= k + need
    OBVIOUS
  <2>3. \A k \in Nat : g[k] = IF need <= k THEN k ELSE g[k + k \div 2 + Growth]
    BY <2>1, <2>2 DEF Follows, Longer
  <2>4. g = [k \in Nat |-> g[k]]
    BY <2>1
  <2>5. IsLoop(g)
    BY <2>3, <2>4
  <2> QED  BY <2>5
<1>2. Table!Grown(n, need) = grown[n]
  BY DEF Table!Grown
<1>3. IsLoop(grown)
  BY <1>1
<1> HIDE DEF grown
<1>4. \A k \in Nat : grown[k] = IF need <= k THEN k ELSE grown[Longer(k)]
  BY <1>3 DEF Longer
<1> DEFINE Good(k) == grown[k] \in Nat /\ need <= grown[k] /\ k <= grown[k]
           Bad == {j \in Nat : \E k \in Nat : need <= k + j /\ ~Good(k)}
<1>5. Bad = {}
  <2> SUFFICES ASSUME Bad # {} PROVE FALSE
    OBVIOUS
  <2>1. PICK j \in Bad : \A i \in Bad : j <= i
    <3>1. Bad \in SUBSET Nat
      OBVIOUS
    <3> HIDE DEF Bad
    <3> QED  BY <3>1, LeastElement
  <2>2. PICK k \in Nat : need <= k + j /\ ~Good(k)
    OBVIOUS
  <2>3. j \in Nat
    OBVIOUS
  <2>4. ~(need <= k)
    BY <1>4, <2>2
  <2> DEFINE l == Longer(k)
             i == j - 1
  <2>5. l \in Nat /\ k < l
    BY LongerGrows
  <2>6. i \in Nat /\ i < j /\ j = i + 1
    BY <2>2, <2>3, <2>4
  <2>7. grown[k] = grown[l]
    BY <1>4, <2>4
  <2> HIDE DEF l, i
  <2>8. need <= l + i
    BY <2>2, <2>5, <2>6
  <2>9. ~Good(l)
    <3> SUFFICES ASSUME Good(l) PROVE FALSE
      OBVIOUS
    <3>1. Good(k)
      BY <2>5, <2>7
    <3> QED  BY <2>2, <3>1
  <2>10. i \in Bad
    BY <2>5, <2>6, <2>8, <2>9
  <2>11. j <= i
    <3> HIDE DEF Bad
    <3> QED  BY <2>1, <2>10
  <2> QED  BY <2>3, <2>6, <2>11
<1>6. Good(n)
  <2>1. need <= n + need
    OBVIOUS
  <2>2. need \notin Bad
    <3> HIDE DEF Bad
    <3> QED  BY <1>5
  <2> HIDE DEF Good
  <2> QED  BY <2>1, <2>2
<1> QED  BY <1>2, <1>6

\* A call that leaves the other descriptors alone keeps what is said of them.
LEMMA OthersAgree ==
  ASSUME NEW x, NEW y, NEW f \in Fds, TableInv(x), Touches(x, y, f),
         Shape(y), y.null \subseteq y.odd, f \notin y.odd => Agrees(y, f)
  PROVE  TableInv(y)
<1>1. ASSUME NEW g \in Fds \ y.odd PROVE Agrees(y, g)
  <2>1. CASE g = f
    BY <2>1
  <2>2. CASE g # f
    <3>1. g \notin x.odd /\ EntryOf(y, g) = EntryOf(x, g) /\ y.epoll[g] = x.epoll[g]
      BY <2>2 DEF Touches
    <3>2. Agrees(x, g)
      BY <3>1 DEF TableInv
    <3> QED  BY <3>1, <3>2 DEF Agrees
  <2> QED  BY <2>1, <2>2
<1> QED  BY <1>1 DEF TableInv

LEMMA InTable ==
  ASSUME TableConstants, NEW x, Shape(x), NEW f \in Fds, f < x.max_events
  PROVE  f \in 0..x.max_events - 1 /\ IsEntry(x.anfds[f]) /\ EntryOf(x, f) = x.anfds[f]
<1>1. f \in Nat /\ x.max_events \in Nat
  BY DEF TableConstants, Shape
<1>2. f \in 0..x.max_events - 1
  BY <1>1
<1> QED  BY <1>2 DEF Shape, EntryOf

LEMMA UnusedIsEntry == IsEntry(Table!Unused)
<1>1. /\ Table!Unused.used = FALSE /\ Table!Unused.events = {} /\ Table!Unused.list = <<>>
      /\ Table!Unused.own = FALSE
  BY DEF Table!Unused
<1>2. Table!Unused = [used |-> Table!Unused.used, events |-> Table!Unused.events,
                      list |-> Table!Unused.list, own |-> Table!Unused.own]
  BY <1>1 DEF Table!Unused
<1> QED  BY <1>1, <1>2 DEF IsEntry

\* A longer table says the same of every descriptor.
LEMMA NeedsizeKeeps ==
  ASSUME TableConstants, NEW x, TableInv(x), NEW f \in Fds, f >= x.max_events,
         NEW y, y = Table!array_needsize(x, f + 1)
  PROVE  /\ TableInv(y) /\ f < y.max_events /\ y.epoll = x.epoll /\ y.odd = x.odd /\ y.null = x.null
         /\ EntryOf(y, f) = Table!Unused
<1> DEFINE m == x.max_events
           n == Table!Grown(m, f + 1)
<1>1. m \in Nat /\ f \in Nat /\ f + 1 \in Nat
  BY DEF TableConstants, TableInv, Shape
<1>2. n \in Nat /\ f + 1 <= n /\ m <= n
  BY <1>1, GrownIsEnough
<1> DEFINE T == [i \in 0..n - 1 |-> IF i < m THEN x.anfds[i] ELSE Table!Unused]
<1>3. y = [x EXCEPT !.max_events = n, !.anfds = T]
  BY DEF Table!array_needsize
<1>4. Shape(x)
  BY DEF TableInv
<1> HIDE DEF n
<1>13. /\ \A i \in 0..n - 1 : T[i] = IF i < m THEN x.anfds[i] ELSE Table!Unused
       /\ T = [i \in 0..n - 1 |-> T[i]]
  OBVIOUS
<1> HIDE DEF T
<1>5. y = [anfds |-> T, max_events |-> n, epoll |-> x.epoll, odd |-> x.odd, null |-> x.null,
           stop |-> x.stop, loop |-> x.loop, wake |-> x.wake]
  BY <1>3, <1>4 DEF Shape
<1>14. y.anfds = T /\ y.max_events = n
  BY <1>5
<1>6. f < n
  BY <1>1, <1>2
<1>7. ASSUME NEW i \in 0..n - 1 PROVE IsEntry(y.anfds[i])
  <2>1. CASE i < m
    <3>1. i \in 0..m - 1
      BY <1>1, <1>2, <2>1
    <3>2. IsEntry(x.anfds[i])
      BY <1>4, <3>1 DEF Shape
    <3> QED  BY <1>13, <1>14, <2>1, <3>2
  <2>2. CASE ~(i < m)
    <3>1. y.anfds[i] = Table!Unused
      BY <1>13, <1>14, <2>2
    <3> QED  BY <3>1, UnusedIsEntry
  <2> QED  BY <2>1, <2>2
<1>8. Shape(y)
  <2>1. y.anfds = [i \in 0..y.max_events - 1 |-> y.anfds[i]]
    BY <1>13, <1>14
  <2>2. x.epoll = [g \in Fds |-> x.epoll[g]] /\ x.odd \subseteq Fds
    BY <1>4 DEF Shape
  <2>3. y.max_events = n /\ y.epoll = x.epoll /\ y.odd = x.odd
    BY <1>5
  <2>4. y = [anfds |-> y.anfds, max_events |-> y.max_events, epoll |-> y.epoll, odd |-> y.odd,
             null |-> y.null, stop |-> y.stop, loop |-> y.loop, wake |-> y.wake]
    BY <1>5
  <2> QED  BY <1>2, <1>7, <2>1, <2>2, <2>3, <2>4 DEF Shape
<1>9. ASSUME NEW g \in Fds PROVE EntryOf(y, g) = EntryOf(x, g)
  <2>1. g \in Nat
    BY DEF TableConstants
  <2>2. CASE g < n
    <3>1. g \in 0..n - 1
      BY <1>2, <2>1, <2>2
    <3> QED  BY <1>13, <1>14, <2>2, <3>1 DEF EntryOf
  <2>3. CASE ~(g < n)
    <3>1. ~(g < m)
      BY <1>1, <1>2, <2>1, <2>3
    <3> QED  BY <1>14, <2>3, <3>1 DEF EntryOf
  <2> QED  BY <2>2, <2>3
<1>10. y.odd = x.odd /\ y.null = x.null /\ y.epoll = x.epoll /\ y.max_events = n
  BY <1>5
<1>11. TableInv(y)
  <2>1. ASSUME NEW g \in Fds \ y.odd PROVE Agrees(y, g)
    <3>1. Agrees(x, g)
      BY <1>10 DEF TableInv
    <3> QED  BY <1>9, <1>10, <3>1 DEF Agrees
  <2> QED  BY <1>8, <1>10, <2>1 DEF TableInv
<1>12. EntryOf(y, f) = Table!Unused
  <2>1. ~(f < m)
    BY <1>1
  <2> QED  BY <1>9, <2>1 DEF EntryOf
<1> QED  BY <1>6, <1>10, <1>11, <1>12

\* What every call does to the table when it changes it: e and w are f's new entry and flags.
Changed(x, f, e, w, o) == [x EXCEPT !.anfds[f] = e, !.epoll[f] = w, !.odd = o]

\* A change of f's entry and flags keeps the table's shape and leaves the others alone.
LEMMA EntryChange ==
  ASSUME TableConstants, NEW x, Shape(x), NEW f \in Fds, f < x.max_events,
         NEW e, IsEntry(e), NEW w, NEW o \in SUBSET Fds, o \ {f} = x.odd \ {f},
         NEW y, y = Changed(x, f, e, w, o)
  PROVE  /\ Shape(y) /\ Touches(x, y, f) /\ EntryOf(y, f) = e /\ y.epoll[f] = w
         /\ y.odd = o /\ y.null = x.null
<1> DEFINE m == x.max_events
           A == [x.anfds EXCEPT ![f] = e]
           P == [x.epoll EXCEPT ![f] = w]
<1>1. m \in Nat /\ f \in Nat /\ f \in 0..m - 1
  BY InTable DEF TableConstants, Shape
<1>2. y = [anfds |-> A, max_events |-> m, epoll |-> P, odd |-> o, null |-> x.null,
           stop |-> x.stop, loop |-> x.loop, wake |-> x.wake]
  BY DEF Shape, Changed
<1>3. x.anfds = [i \in 0..m - 1 |-> x.anfds[i]] /\ x.epoll = [g \in Fds |-> x.epoll[g]]
  BY DEF Shape
<1>4. A = [i \in 0..m - 1 |-> A[i]] /\ A[f] = e /\ \A i \in 0..m - 1 : i # f => A[i] = x.anfds[i]
  BY <1>1, <1>3
<1>5. P = [g \in Fds |-> P[g]] /\ P[f] = w /\ \A g \in Fds : g # f => P[g] = x.epoll[g]
  BY <1>3
<1> HIDE DEF A, P
<1>6. /\ y.anfds = A /\ y.max_events = m /\ y.epoll = P /\ y.odd = o /\ y.null = x.null
      /\ y.stop = x.stop /\ y.loop = x.loop /\ y.wake = x.wake
  BY <1>2
<1>7. \A i \in 0..m - 1 : IsEntry(A[i])
  BY <1>4 DEF Shape
<1>8. Shape(y)
  BY <1>1, <1>2, <1>4, <1>5, <1>6, <1>7 DEF Shape
<1>9. ASSUME NEW g \in Fds \ {f}
      PROVE  /\ g \in y.odd <=> g \in x.odd
             /\ EntryOf(y, g) = EntryOf(x, g) /\ y.epoll[g] = x.epoll[g]
  <2>1. g \in Nat /\ (g < m => g \in 0..m - 1)
    BY <1>1 DEF TableConstants
  <2>2. g \in o <=> g \in x.odd
    OBVIOUS
  <2> QED  BY <1>4, <1>5, <1>6, <2>1, <2>2 DEF EntryOf
<1>10. Touches(x, y, f)
  BY <1>6, <1>9 DEF Touches
<1>11. EntryOf(y, f) = e
  BY <1>4, <1>6 DEF EntryOf
<1> QED  BY <1>5, <1>6, <1>8, <1>10, <1>11

\* The flags of a list of one element.
LEMMA FlagsOfOne ==
  ASSUME NEW ev
  PROVE  UNION Table!ToSet(<<ev>>) = ev /\ <<ev>> # <<>>
<1>1. Table!ToSet(<<ev>>) = {ev}
  BY DEF Table!ToSet
<1>2. UNION {ev} = ev
  OBVIOUS
<1> QED  BY <1>1, <1>2

\* add_event once the table is long enough.
Added(x, f, ev, ctl, ok) ==
  LET e   == x.anfds[f]
      new == ~e.used \/ ~(ev \subseteq e.events)
      l   == IF ~e.used THEN <<ev>> ELSE IF new THEN Append(e.list, ev) ELSE e.list
      in  == ctl /\ new
      bad == in /\ (x.epoll[f] # Table!Off \/ ~ok)
  IN IF e.used /\ new /\ e.list = <<>> THEN [x EXCEPT !.null = @ \cup {f}]
     ELSE [x EXCEPT !.anfds[f] = [used |-> TRUE, list |-> l,
                                  events |-> IF bad THEN e.events ELSE UNION Table!ToSet(l),
                                  own |-> e.used /\ e.own],
                    !.epoll[f] = IF in /\ ~bad THEN ev ELSE @,
                    !.odd = IF bad THEN @ \cup {f} ELSE @]

LEMMA FlagsAreNotOff ==
  ASSUME NEW ev, ev \subseteq Table!Events
  PROVE  ev # Table!Off
BY DEF Table!Events, Table!Off

LEMMA AddedKeeps ==
  ASSUME TableConstants, NEW x, TableInv(x), NEW f \in Fds, f < x.max_events,
         NEW ev \in SUBSET Table!Events, NEW ok \in BOOLEAN, NEW y, y = Added(x, f, ev, TRUE, ok)
  PROVE  TableInv(y)
<1> DEFINE e   == x.anfds[f]
           new == ~e.used \/ ~(ev \subseteq e.events)
           l   == IF ~e.used THEN <<ev>> ELSE IF new THEN Append(e.list, ev) ELSE e.list
           bad == new /\ (x.epoll[f] # Table!Off \/ ~ok)
           fl  == IF bad THEN e.events ELSE UNION Table!ToSet(l)
           ow  == e.used /\ e.own
           z   == [used |-> TRUE, list |-> l, events |-> fl, own |-> ow]
           w   == IF new /\ ~bad THEN ev ELSE x.epoll[f]
           o   == IF bad THEN x.odd \cup {f} ELSE x.odd
<1>1. Shape(x) /\ x.null \subseteq x.odd /\ x.odd \subseteq Fds
  BY DEF TableInv, Shape
<1>2. EntryOf(x, f) = e /\ IsEntry(e)
  BY <1>1, InTable
<1>3. CASE e.used /\ new /\ e.list = <<>>
  <2>1. y = [x EXCEPT !.null = @ \cup {f}]
    BY <1>3 DEF Added
  <2>2. f \in x.odd
    <3> SUFFICES ASSUME f \notin x.odd PROVE FALSE
      OBVIOUS
    <3>1. Agrees(x, f)
      BY DEF TableInv
    <3> QED  BY <1>2, <1>3, <3>1 DEF Agrees
  <2>3. /\ y.anfds = x.anfds /\ y.max_events = x.max_events /\ y.epoll = x.epoll /\ y.odd = x.odd
        /\ y.null = x.null \cup {f}
        /\ y = [anfds |-> y.anfds, max_events |-> y.max_events, epoll |-> y.epoll, odd |-> y.odd,
                null |-> y.null, stop |-> y.stop, loop |-> y.loop, wake |-> y.wake]
    BY <1>1, <2>1 DEF Shape
  <2>4. Shape(y)
    BY <1>1, <2>3 DEF Shape
  <2>5. \A g \in Fds \ y.odd : Agrees(y, g)
    BY <2>3 DEF TableInv, Agrees, EntryOf
  <2> QED  BY <1>1, <2>2, <2>3, <2>4, <2>5 DEF TableInv
<1>4. CASE ~(e.used /\ new /\ e.list = <<>>)
  <2>1. y = Changed(x, f, z, w, o)
    <3>1. x.epoll = [g \in Fds |-> x.epoll[g]]
      BY <1>1 DEF Shape
    <3> QED  BY <1>1, <1>4, <3>1 DEF Added, Changed
  <2>2. IsEntry(z)
    BY DEF IsEntry
  <2>3. o \in SUBSET Fds /\ o \ {f} = x.odd \ {f} /\ x.odd \subseteq o
    BY <1>1
  <2>4. z.used /\ z.list = l /\ z.events = fl /\ z.own = ow
    OBVIOUS
  <2> HIDE DEF z, w, o, ow
  <2>5. /\ Shape(y) /\ Touches(x, y, f) /\ EntryOf(y, f) = z /\ y.epoll[f] = w
        /\ y.odd = o /\ y.null = x.null
    <3> HIDE DEF e, new, l, bad, fl
    <3>1. Shape(x) /\ f < x.max_events
      BY <1>1
    <3>2. o \in SUBSET Fds /\ o \ {f} = x.odd \ {f}
      BY <2>3
    <3> QED  BY ONLY <2>1, <2>2, <3>1, <3>2, EntryChange, TableConstants, f \in Fds
  <2>6. ASSUME f \notin o PROVE Agrees(y, f)
    <3>1. ~bad /\ f \notin x.odd
      BY <2>6 DEF o
    <3>2. Agrees(x, f)
      BY <3>1 DEF TableInv
    <3>3. CASE e.used
      <4>1. /\ e.list # <<>> /\ e.events = UNION Table!ToSet(e.list) /\ x.epoll[f] # Table!Off
            /\ e.events \subseteq Table!Events /\ (x.epoll[f] = e.events \/ e.own)
        BY <1>2, <3>2, <3>3 DEF Agrees
      <4>2. ~new
        BY <3>1, <4>1
      <4>3. l = e.list /\ fl = UNION Table!ToSet(e.list) /\ w = x.epoll[f]
        BY <3>1, <3>3, <4>2 DEF w
      <4>4. e.own => z.own
        BY <2>4, <3>3 DEF ow
      <4> QED  BY <2>4, <2>5, <4>1, <4>3, <4>4 DEF Agrees
    <3>4. CASE ~e.used
      <4>1. l = <<ev>> /\ new
        BY <3>4
      <4>2. fl = UNION Table!ToSet(<<ev>>) /\ w = ev
        BY <3>1, <4>1 DEF w
      <4>3. fl = ev /\ l # <<>>
        BY <4>1, <4>2, FlagsOfOne
      <4> HIDE DEF l, fl, new, bad
      <4>4. ev \subseteq Table!Events
        OBVIOUS
      <4>5. EntryOf(y, f).used /\ EntryOf(y, f).list = l /\ EntryOf(y, f).events = ev /\ y.epoll[f] = ev
            /\ y.epoll[f] # Table!Off
        BY <2>4, <2>5, <4>2, <4>3, FlagsAreNotOff
      <4>6. UNION Table!ToSet(l) = ev
        BY <4>1, FlagsOfOne DEF l
      <4> QED  BY <4>3, <4>4, <4>5, <4>6 DEF Agrees
    <3> QED  BY <3>3, <3>4
  <2>7. y.null \subseteq y.odd
    BY <1>1, <2>3, <2>5
  <2> QED  BY <2>5, <2>6, <2>7, OthersAgree
<1> QED  BY <1>3, <1>4

LEMMA AddKeeps ==
  ASSUME TableConstants, NEW x, TableInv(x), NEW f \in Fds,
         NEW ev \in SUBSET Table!Events, NEW ok \in BOOLEAN
  PROVE  TableInv(Table!add_event(x, f, ev, TRUE, ok))
<1>1. CASE f >= x.max_events
  <2> DEFINE y == Table!array_needsize(x, f + 1)
  <2>1. TableInv(y) /\ f < y.max_events
    BY <1>1, NeedsizeKeeps
  <2>2. Table!add_event(x, f, ev, TRUE, ok) = Added(y, f, ev, TRUE, ok)
    BY ZenonT(30), <1>1 DEF Table!add_event, Added
  <2> HIDE DEF y
  <2> QED  BY <2>1, <2>2, AddedKeeps
<1>2. CASE ~(f >= x.max_events)
  <2>1. f < x.max_events
    BY <1>2 DEF TableConstants, TableInv, Shape
  <2>2. Table!add_event(x, f, ev, TRUE, ok) = Added(x, f, ev, TRUE, ok)
    BY <1>2 DEF Table!add_event, Added
  <2> QED  BY <2>1, <2>2, AddedKeeps
<1> QED  BY <1>1, <1>2

\* Two fields of an entry are changed.
LEMMA EntryWith ==
  ASSUME NEW e, IsEntry(e), NEW a, NEW b
  PROVE  /\ [e EXCEPT !.events = a, !.list = b] = [used |-> e.used, events |-> a, list |-> b, own |-> e.own]
         /\ [e EXCEPT !.used = a, !.list = b] = [used |-> a, events |-> e.events, list |-> b, own |-> e.own]
<1>1. e = [used |-> e.used, events |-> e.events, list |-> e.list, own |-> e.own]
  BY DEF IsEntry
<1>2. ASSUME NEW g, g = [e EXCEPT !.events = a], NEW h, h = [g EXCEPT !.list = b]
      PROVE  h = [used |-> e.used, events |-> a, list |-> b, own |-> e.own]
  <2>1. g = [used |-> e.used, events |-> a, list |-> e.list, own |-> e.own]
    BY <1>1, <1>2
  <2> QED  BY <1>2, <2>1
<1>3. ASSUME NEW g, g = [e EXCEPT !.used = a], NEW h, h = [g EXCEPT !.list = b]
      PROVE  h = [used |-> a, events |-> e.events, list |-> b, own |-> e.own]
  <2>1. g = [used |-> a, events |-> e.events, list |-> e.list, own |-> e.own]
    BY <1>1, <1>3
  <2> QED  BY <1>3, <2>1
<1> DEFINE g == [e EXCEPT !.events = a]
           h == [e EXCEPT !.used = a]
<1>4. [g EXCEPT !.list = b] = [used |-> e.used, events |-> a, list |-> b, own |-> e.own]
  <2> HIDE DEF g
  <2>1. g = [e EXCEPT !.events = a]
    BY DEF g
  <2> QED  BY <1>2, <2>1
<1>5. [h EXCEPT !.list = b] = [used |-> a, events |-> e.events, list |-> b, own |-> e.own]
  <2> HIDE DEF h
  <2>1. h = [e EXCEPT !.used = a]
    BY DEF h
  <2> QED  BY <1>3, <2>1
<1>6. [g EXCEPT !.list = b] = [e EXCEPT !.events = a, !.list = b]
  OBVIOUS
<1>7. [h EXCEPT !.list = b] = [e EXCEPT !.used = a, !.list = b]
  OBVIOUS
<1> QED  BY <1>4, <1>5, <1>6, <1>7

LEMMA DeleteKeeps ==
  ASSUME TableConstants, NEW x, TableInv(x), NEW f \in Fds, f < x.max_events, NEW ev \in SUBSET Table!Events
  PROVE  TableInv(Table!delete_event(x, f, ev))
<1> DEFINE y == Table!delete_event(x, f, ev)
           e == x.anfds[f]
<1>1. Shape(x) /\ x.null \subseteq x.odd /\ x.odd \subseteq Fds
  BY DEF TableInv, Shape
<1>2. IsEntry(e)
  BY <1>1, InTable
<1>3. CASE ~e.used \/ e.events \cap ev = {}
  <2>1. y = x
    BY <1>3 DEF Table!delete_event
  <2> QED  BY <2>1
<1>4. CASE ~(~e.used \/ e.events \cap ev = {})
  <2> DEFINE Cut(n) == IF n \cap ev = {} THEN n ELSE (n \ ev) \cup (ev \ n)
             rest == SelectSeq([i \in 1..Len(e.list) - 1 |-> Cut(e.list[i + 1])], LAMBDA n : n # {})
             left == (e.events \ ev) \cup (ev \ e.events)
             list == IF left = {} THEN rest ELSE <<e.list[1]>> \o rest
             o    == x.odd \cup {f}
  <2>1. y = [x EXCEPT !.anfds[f].events = left, !.anfds[f].list = list, !.epoll[f] = Table!Off, !.odd = o]
    BY <1>4 DEF Table!delete_event
  <2> HIDE DEF left, list
  <2> DEFINE z == [used |-> e.used, events |-> left, list |-> list, own |-> e.own]
  <2>2. y = Changed(x, f, z, Table!Off, o)
    <3> HIDE DEF y
    <3>1. x.anfds = [i \in 0..x.max_events - 1 |-> x.anfds[i]] /\ f \in 0..x.max_events - 1
      BY <1>1, InTable DEF Shape
    <3>2. [x.anfds[f] EXCEPT !.events = left, !.list = list] = z
      BY <1>2, EntryWith
    <3>3. [x.anfds EXCEPT ![f].events = left, ![f].list = list] = [x.anfds EXCEPT ![f] = z]
      BY <3>1, <3>2
    <3> HIDE DEF z, o
    <3> QED  BY <1>1, <2>1, <3>3 DEF Changed, Shape
  <2>3. IsEntry(z)
    BY <1>2 DEF IsEntry
  <2>4. o \in SUBSET Fds /\ o \ {f} = x.odd \ {f} /\ x.odd \subseteq o /\ f \in o
    BY <1>1
  <2> HIDE DEF y, e, z, o
  <2>5. Shape(y) /\ Touches(x, y, f) /\ y.odd = o /\ y.null = x.null
    BY <1>1, <2>2, <2>3, <2>4, EntryChange
  <2>6. y.null \subseteq y.odd
    BY <1>1, <2>4, <2>5
  <2> QED  BY <2>4, <2>5, <2>6, OthersAgree DEF y
<1> QED  BY <1>3, <1>4

LEMMA StopKeeps ==
  ASSUME TableConstants, NEW x, x.null = {}, TableInv(x), NEW f \in Fds, f < x.max_events
  PROVE  TableInv(Table!event_stop(x, f))
<1> DEFINE y == Table!event_stop(x, f)
           e == x.anfds[f]
           z == [used |-> FALSE, events |-> e.events, list |-> <<>>, own |-> e.own]
           o == x.odd \ {f}
<1>1. Shape(x) /\ x.odd \subseteq Fds
  BY DEF TableInv, Shape
<1>2. IsEntry(e)
  BY <1>1, InTable
<1>3. CASE ~e.used
  BY <1>3 DEF Table!event_stop
<1>4. CASE e.used
  <2>1. y = [x EXCEPT !.anfds[f].used = FALSE, !.anfds[f].list = <<>>, !.epoll[f] = Table!Off, !.odd = o]
    BY <1>4 DEF Table!event_stop
  <2>2. y = Changed(x, f, z, Table!Off, o)
    <3> HIDE DEF y
    <3>1. x.anfds = [i \in 0..x.max_events - 1 |-> x.anfds[i]] /\ f \in 0..x.max_events - 1
      BY <1>1, InTable DEF Shape
    <3>2. [x.anfds[f] EXCEPT !.used = FALSE, !.list = <<>>] = z
      BY <1>2, EntryWith
    <3>3. [x.anfds EXCEPT ![f].used = FALSE, ![f].list = <<>>] = [x.anfds EXCEPT ![f] = z]
      BY <3>1, <3>2
    <3> HIDE DEF z, o
    <3> QED  BY <1>1, <2>1, <3>3 DEF Changed, Shape
  <2>3. IsEntry(z) /\ ~z.used
    BY DEF IsEntry
  <2>4. o \in SUBSET Fds /\ o \ {f} = x.odd \ {f}
    BY <1>1
  <2> HIDE DEF y, e, z, o
  <2>5. /\ Shape(y) /\ Touches(x, y, f) /\ EntryOf(y, f) = z /\ y.epoll[f] = Table!Off
        /\ y.odd = o /\ y.null = x.null
    BY <1>1, <2>2, <2>3, <2>4, EntryChange
  <2>6. Agrees(y, f)
    BY <2>3, <2>5 DEF Agrees
  <2>7. y.null \subseteq y.odd
    BY <2>5
  <2> QED  BY <2>5, <2>6, <2>7, OthersAgree DEF y
<1> QED  BY <1>3, <1>4

LEMMA ModKeeps ==
  ASSUME TableConstants, NEW x, x.null = {}, TableInv(x), NEW f \in Fds, f < x.max_events,
         NEW ev \in SUBSET Table!Events
  PROVE  TableInv(Table!mod_event(x, f, ev))
<1> DEFINE y == Table!mod_event(x, f, ev)
           e == x.anfds[f]
           u == [used |-> FALSE, events |-> e.events, list |-> <<>>, own |-> e.own]
           z == [used |-> TRUE, list |-> <<ev>>, events |-> ev, own |-> FALSE]
           w == IF x.epoll[f] = Table!Off THEN Table!Off ELSE ev
           o == IF x.epoll[f] = Table!Off THEN x.odd ELSE x.odd \ {f}
<1>1. Shape(x) /\ x.odd \subseteq Fds
  BY DEF TableInv, Shape
<1>2. IsEntry(e) /\ EntryOf(x, f) = e
  BY <1>1, InTable
<1>3. CASE ~e.used
  BY <1>3 DEF Table!mod_event
<1>4. CASE e.used
  <2> DEFINE v == [x EXCEPT !.anfds[f].used = FALSE, !.anfds[f].list = <<>>]
             a == Table!add_event(v, f, ev, FALSE, TRUE)
  <2>1. y = [a EXCEPT !.epoll[f] = IF @ = Table!Off THEN @ ELSE ev, !.odd = IF x.epoll[f] = Table!Off THEN @ ELSE @ \ {f}]
    BY <1>4 DEF Table!mod_event
  <2>2. /\ x.anfds = [i \in 0..x.max_events - 1 |-> x.anfds[i]] /\ f \in 0..x.max_events - 1
        /\ x.epoll = [g \in Fds |-> x.epoll[g]]
    BY <1>1, InTable DEF Shape
  <2>3. v = [x EXCEPT !.anfds[f] = u]
    <3>1. [x.anfds[f] EXCEPT !.used = FALSE, !.list = <<>>] = u
      BY <1>2, EntryWith
    <3>2. [x.anfds EXCEPT ![f].used = FALSE, ![f].list = <<>>] = [x.anfds EXCEPT ![f] = u]
      BY <2>2, <3>1
    <3> HIDE DEF u
    <3> QED  BY <1>1, <3>2 DEF Shape
  <2>4. a = [x EXCEPT !.anfds[f] = z]
    <3>1. /\ v.anfds = [x.anfds EXCEPT ![f] = u] /\ v.max_events = x.max_events /\ v.epoll = x.epoll
          /\ v.odd = x.odd /\ v.null = x.null /\ v.stop = x.stop /\ v.loop = x.loop /\ v.wake = x.wake
          /\ v = [anfds |-> v.anfds, max_events |-> v.max_events, epoll |-> v.epoll, odd |-> v.odd,
                  null |-> v.null, stop |-> v.stop, loop |-> v.loop, wake |-> v.wake]
      <4> HIDE DEF v
      <4> DEFINE T == [x.anfds EXCEPT ![f] = u]
      <4>1. v = [x EXCEPT !.anfds = T]
        BY <2>3
      <4> HIDE DEF u, T
      <4>2. v = [anfds |-> T, max_events |-> x.max_events, epoll |-> x.epoll, odd |-> x.odd,
                 null |-> x.null, stop |-> x.stop, loop |-> x.loop, wake |-> x.wake]
        BY <1>1, <4>1 DEF Shape
      <4> QED  BY <4>2 DEF T
    <3>2. v.anfds[f] = u /\ ~u.used /\ u.list = <<>> /\ ~(f >= v.max_events)
      <4>1. ~u.used /\ u.list = <<>>
        OBVIOUS
      <4> HIDE DEF u, v
      <4>2. v.anfds[f] = u
        BY <2>2, <3>1
      <4>3. f \in Nat /\ x.max_events \in Nat
        BY <1>1 DEF TableConstants, Shape
      <4> QED  BY <3>1, <4>1, <4>2, <4>3
    <3> HIDE DEF u, v
    <3>3. a = [v EXCEPT !.anfds[f] = [used |-> TRUE, list |-> <<ev>>, events |-> UNION Table!ToSet(<<ev>>),
                                      own |-> FALSE],
                        !.epoll[f] = @, !.odd = @]
      BY <3>2 DEF Table!add_event
    <3>4. [used |-> TRUE, list |-> <<ev>>, events |-> UNION Table!ToSet(<<ev>>), own |-> FALSE] = z
      BY FlagsOfOne
    <3>5. [v.anfds EXCEPT ![f] = z] = [x.anfds EXCEPT ![f] = z] /\ [v.epoll EXCEPT ![f] = @] = x.epoll
      BY <2>2, <3>1
    <3> HIDE DEF z, a
    <3> QED  BY <1>1, <3>1, <3>3, <3>4, <3>5 DEF Shape
  <2>5. y = Changed(x, f, z, w, o)
    <3> HIDE DEF v, a, z, y
    <3> QED  BY <1>1, <2>1, <2>2, <2>4 DEF Changed, Shape
  <2>6. IsEntry(z) /\ z.used /\ z.list = <<ev>> /\ z.events = ev
    BY DEF IsEntry
  <2>7. o \in SUBSET Fds /\ o \ {f} = x.odd \ {f}
    BY <1>1
  <2> HIDE DEF y, z, w, o, v, a, u
  <2>8. /\ Shape(y) /\ Touches(x, y, f) /\ EntryOf(y, f) = z /\ y.epoll[f] = w
        /\ y.odd = o /\ y.null = x.null
    <3> HIDE DEF e
    <3> QED  BY <1>1, <2>5, <2>6, <2>7, EntryChange
  <2>9. ASSUME f \notin y.odd PROVE Agrees(y, f)
    <3>1. x.epoll[f] # Table!Off
      <4> SUFFICES ASSUME x.epoll[f] = Table!Off PROVE FALSE
        OBVIOUS
      <4>1. f \notin x.odd
        BY <2>8, <2>9 DEF o
      <4>2. Agrees(x, f)
        BY <4>1 DEF TableInv
      <4> QED  BY <1>2, <1>4, <4>2 DEF Agrees
    <3>2. w = ev
      BY <3>1 DEF w
    <3> QED  BY <2>6, <2>8, <3>2, FlagsOfOne, FlagsAreNotOff DEF Agrees
  <2>10. y.null \subseteq y.odd
    BY <2>8
  <2> QED  BY <2>8, <2>9, <2>10, OthersAgree DEF y
<1> QED  BY <1>3, <1>4

\* mod_ev_only changes what epoll watches, and says so when it is not what the entry says.
LEMMA ModOnlyKeeps ==
  ASSUME TableConstants, NEW x, TableInv(x), NEW f \in Fds, f < x.max_events,
         NEW ev \in SUBSET Table!Events
  PROVE  TableInv(Table!mod_ev_only(x, f, ev))
<1> DEFINE y == Table!mod_ev_only(x, f, ev)
           e == x.anfds[f]
           d == ev # e.events
           z == [used |-> e.used, events |-> e.events, list |-> e.list, own |-> d]
           o == x.odd
<1>1. Shape(x) /\ x.odd \subseteq Fds /\ x.null \subseteq x.odd
  BY DEF TableInv, Shape
<1>2. IsEntry(e) /\ EntryOf(x, f) = e
  BY <1>1, InTable
<1>3. CASE ~e.used \/ x.epoll[f] = Table!Off
  BY <1>3 DEF Table!mod_ev_only
<1>4. CASE ~(~e.used \/ x.epoll[f] = Table!Off)
  <2>1. y = [x EXCEPT !.epoll[f] = ev, !.anfds[f].own = d]
    BY <1>4 DEF Table!mod_ev_only
  <2>2. [x.anfds[f] EXCEPT !.own = d] = z
    <3>1. e = [used |-> e.used, events |-> e.events, list |-> e.list, own |-> e.own]
      BY <1>2 DEF IsEntry
    <3> HIDE DEF d
    <3> QED  BY <3>1
  <2>3. z.used /\ z.events = e.events /\ z.list = e.list /\ z.own = d /\ IsEntry(z)
    BY <1>4 DEF IsEntry
  <2>4. y = Changed(x, f, z, ev, o)
    <3> HIDE DEF y, d
    <3>1. x.anfds = [i \in 0..x.max_events - 1 |-> x.anfds[i]] /\ f \in 0..x.max_events - 1
      BY <1>1, InTable DEF Shape
    <3>2. [x.anfds EXCEPT ![f].own = d] = [x.anfds EXCEPT ![f] = z]
      BY <2>2, <3>1
    <3> HIDE DEF z
    <3> QED  BY <1>1, <2>1, <3>2 DEF Changed, Shape
  <2>5. o \in SUBSET Fds /\ o \ {f} = x.odd \ {f}
    BY <1>1
  <2> HIDE DEF y, e, z, d
  <2>6. /\ Shape(y) /\ Touches(x, y, f) /\ EntryOf(y, f) = z /\ y.epoll[f] = ev
        /\ y.odd = o /\ y.null = x.null
    BY <1>1, <2>3, <2>4, <2>5, EntryChange
  <2>7. ASSUME f \notin y.odd PROVE Agrees(y, f)
    <3>1. Agrees(x, f)
      BY <2>6, <2>7 DEF TableInv
    <3>2. e.list # <<>> /\ e.events = UNION Table!ToSet(e.list) /\ e.events \subseteq Table!Events
      BY <1>2, <1>4, <3>1 DEF Agrees
    <3>3. ev # Table!Off
      BY FlagsAreNotOff
    <3>4. ev = e.events \/ d
      BY DEF d
    <3> QED  BY <2>3, <2>6, <3>2, <3>3, <3>4 DEF Agrees
  <2>8. y.null \subseteq y.odd
    BY <1>1, <2>6
  <2> QED  BY <2>6, <2>7, <2>8, OthersAgree DEF y
<1> QED  BY <1>3, <1>4

LEMMA TableInvInit ==
  ASSUME TableConstants, Table!Init
  PROVE  TableInv(s)
<1> DEFINE A == [i \in 0..INIT_EVENTS - 1 |-> Table!Unused]
           P == [f \in Fds |-> Table!Off]
<1>1. s = [anfds |-> A, max_events |-> INIT_EVENTS, epoll |-> P, odd |-> {}, null |-> {},
           stop |-> "no", loop |-> "top", wake |-> FALSE]
  BY DEF Table!Init
<1>2. /\ A = [i \in 0..INIT_EVENTS - 1 |-> A[i]] /\ \A i \in 0..INIT_EVENTS - 1 : A[i] = Table!Unused
      /\ P = [f \in Fds |-> P[f]] /\ \A f \in Fds : P[f] = Table!Off
  OBVIOUS
<1> HIDE DEF A, P
<1>3. s.anfds = A /\ s.max_events = INIT_EVENTS /\ s.epoll = P /\ s.odd = {} /\ s.null = {}
  BY <1>1
<1>4. Shape(s)
  BY <1>1, <1>2, <1>3, UnusedIsEntry DEF Shape, TableConstants
<1>5. ASSUME NEW f \in Fds PROVE Agrees(s, f)
  <2>1. EntryOf(s, f) = Table!Unused
    <3>1. f \in Nat /\ INIT_EVENTS \in Nat
      BY DEF TableConstants
    <3>2. f < INIT_EVENTS => f \in 0..INIT_EVENTS - 1
      BY <3>1
    <3> QED  BY <1>2, <1>3, <3>2 DEF EntryOf
  <2>2. ~Table!Unused.used
    BY DEF Table!Unused
  <2> QED  BY <1>2, <1>3, <2>1, <2>2 DEF Agrees
<1> QED  BY <1>3, <1>4, <1>5 DEF TableInv

\* A call finds no walk over NULL before it; the loop and stop_loop leave the table alone.
LEMMA TableInvNext ==
  ASSUME TableConstants, TableInv(s), [Table!Next]_s
  PROVE  TableInv(s')
<1>1. CASE s.null = {} /\ Table!Ctl
  <2>1. PICK f \in Fds, ev \in SUBSET Table!Events \ {{}} :
          \/ \E ok \in BOOLEAN :
               /\ f < s.max_events => Len(s.anfds[f].list) < MaxList
               /\ s' = Table!add_event(s, f, ev, TRUE, ok)
          \/ f < s.max_events /\ s' \in {Table!delete_event(s, f, ev), Table!mod_event(s, f, ev), Table!mod_ev_only(s, f, ev),
                                           Table!event_stop(s, f)}
    BY <1>1 DEF Table!Ctl
  <2>2. ev \in SUBSET Table!Events
    BY <2>1
  <2>3. CASE \E ok \in BOOLEAN : s' = Table!add_event(s, f, ev, TRUE, ok)
    BY <2>2, <2>3, AddKeeps
  <2>4. CASE f < s.max_events /\ s' = Table!delete_event(s, f, ev)
    BY <2>2, <2>4, DeleteKeeps
  <2>5. CASE f < s.max_events /\ s' = Table!mod_event(s, f, ev)
    BY <1>1, <2>2, <2>5, ModKeeps
  <2>6. CASE f < s.max_events /\ s' = Table!event_stop(s, f)
    BY <1>1, <2>6, StopKeeps
  <2>7. CASE f < s.max_events /\ s' = Table!mod_ev_only(s, f, ev)
    BY <2>2, <2>7, ModOnlyKeeps
  <2> QED  BY <2>1, <2>3, <2>4, <2>5, <2>6, <2>7
<1>2. ASSUME Table!Loop \/ Table!StopLoop \/ UNCHANGED s PROVE TableInv(s')
  <2>1. s = [anfds |-> s.anfds, max_events |-> s.max_events, epoll |-> s.epoll, odd |-> s.odd,
             null |-> s.null, stop |-> s.stop, loop |-> s.loop, wake |-> s.wake]
    BY DEF TableInv, Shape
  <2>2. /\ s'.anfds = s.anfds /\ s'.max_events = s.max_events /\ s'.epoll = s.epoll
        /\ s'.odd = s.odd /\ s'.null = s.null
        /\ s' = [anfds |-> s'.anfds, max_events |-> s'.max_events, epoll |-> s'.epoll, odd |-> s'.odd,
                 null |-> s'.null, stop |-> s'.stop, loop |-> s'.loop, wake |-> s'.wake]
    <3>1. CASE Table!Loop
      BY <2>1, <3>1 DEF Table!Loop
    <3>2. CASE Table!StopLoop
      BY <2>1, <3>2 DEF Table!StopLoop
    <3>3. CASE UNCHANGED s
      BY <2>1, <3>3
    <3> QED  BY <1>2, <3>1, <3>2, <3>3
  <2>3. Shape(s')
    BY <2>2 DEF TableInv, Shape
  <2>4. \A f \in Fds \ s'.odd : Agrees(s', f)
    BY <2>2 DEF TableInv, Agrees, EntryOf
  <2> QED  BY <2>2, <2>3, <2>4 DEF TableInv
<1> QED  BY <1>1, <1>2 DEF Table!Next

\* Whatever the sequence of calls, and however the table has grown between them, an entry in use
\* has a list whose flags are its own, and epoll watches them unless mod_ev_only has set others
\* since; an unused one is not watched, and the walk over NULL is only ever taken through an odd
\* entry (add_event, delete_event, mod_event, mod_ev_only and event_stop of base/event_loop.cc).
THEOREM TableStaysSound ==
  ASSUME TableConstants
  PROVE  Spec => []TableSound
<1>1. Init => (part = "table" => TableInv(s))
  BY PartInit, TableInvInit
<1>2. (part = "table" => TableInv(s)) /\ [Next]_vars => (part = "table" => TableInv(s))'
  <2>1. SUFFICES ASSUME (part = "table" => TableInv(s)), [Next]_vars, part' = "table" PROVE TableInv(s)'
    OBVIOUS
  <2>2. part = "table" /\ [Table!Next]_s
    BY <2>1, PartSteps
  <2> QED  BY <2>1, <2>2, TableInvNext
<1>3. (part = "table" => TableInv(s)) => TableSound
  BY DEF TableSound, TableInv, Agrees, EntryOf, Table!TableSound
<1> QED  BY <1>1, <1>2, <1>3, PTL DEF Spec

\* event_loop.cc, buffer.h, connector.cc and memory_pool.cc: what the program keeps its data in stays
\* sound, for all sizes and any sequence of calls.
THEOREM DataStaysSound ==
  ASSUME HeapConstants, StreamSizes, TableConstants
  PROVE  Spec => []DataSound
<1>1. Spec => []BlocksApart
  BY BlocksStayApart
<1>2. Spec => []UnreadKept
  BY ReadInOrder
<1>3. Spec => []WrittenInOrder
  BY SentInOrder
<1>4. Spec => []ParserSeesUnread
  BY ParserIsHandedUnread
<1>5. Spec => []TableSound
  BY TableStaysSound
<1> QED  BY <1>1, <1>2, <1>3, <1>4, <1>5, PTL DEF DataSound
=============================================================================
