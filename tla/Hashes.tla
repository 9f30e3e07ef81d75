------------------------------- MODULE Hashes -------------------------------
(***************************************************************************)
(* crypto/hash.cc: hashes of a string, on unsigned int.  The characters    *)
(* are plain char, with a sign.                                            *)
(***************************************************************************)
EXTENDS Words, SequencesExt

CONSTANTS Chars, MaxLength
VARIABLE s  \* the string so far

W == 32
Add(a, b) == Plus(a, b, W)
Low(h)    == h \ {31}
Over(f(_, _), start) == Low(FoldLeft(f, start, s))
C(c) == Signed(c, W)
Minus(a, b) == Add(a, Add(Flip(b, W), {0}))

\* Variant: 16 for 6 of the first shift.
SDBMShifts(h, c) == Minus(Add(Add(C(c), Shl(h, 16, W)), Shl(h, 16, W)), h)
SDBM(h, c) == Minus(Add(Add(C(c), Shl(h, 6, W)), Shl(h, 16, W)), h)
SDBMHash == Over(SDBM, {})
RS(x, c) == [a |-> Times(x.a, Word(378551, W), W), h |-> Add(Times(x.h, x.a, W), C(c))]
RSHash   == Low(FoldLeft(RS, [a |-> Word(63689, W), h |-> {}], s).h)
JS(h, c) == Xor(h, Add(Add(Shl(h, 5, W), C(c)), Shr(h, 2)))
JSHash   == Over(JS, Word(1315423911 % 2^30, W) \cup {30})
PJW(h, c) == LET n == Add(Shl(h, 4, W), C(c))
                 test == n \cap 28..31
             IN IF test = {} THEN n ELSE Xor(n, Shr(test, 24)) \ (28..31)
PJWHash   == Over(PJW, {})
\* Variant: the high bits stay.
ELFKeeps(h, c) == LET n == Add(Shl(h, 4, W), C(c)) IN Xor(n, Shr(n \cap 28..31, 24))
ELF(h, c) == LET n == Add(Shl(h, 4, W), C(c))
                 x == n \cap 28..31
             IN Xor(n, Shr(x, 24)) \ x
ELFHash   == Over(ELF, {})
BKDR(h, c) == Add(Times(h, Word(131, W), W), C(c))
BKDRHash   == Over(BKDR, {})
DJB(h, c) == Add(h, Add(Shl(h, 5, W), C(c)))
DJBHash   == Over(DJB, Word(5381, W))
AP(x, c) == [i |-> x.i + 1,
             h |-> IF x.i % 2 = 0 THEN Xor(x.h, Xor(Xor(Shl(x.h, 7, W), C(c)), Shr(x.h, 3)))
                   ELSE Xor(x.h, Flip(Xor(Xor(Shl(x.h, 11, W), C(c)), Shr(x.h, 5)), W))]
APHash   == Low(FoldLeft(AP, [i |-> 0, h |-> {}], s).h)

Init == s = <<>>
Next == Len(s) < MaxLength /\ \E c \in Chars : s' = Append(s, c)

\* hash.cc:15 says that a step of SDBM is 65599 * hash + c; PJW and ELF are the same function
\* in two forms; DJB is 33 * hash + c: the polynomials, over the whole word and with signed
\* characters.  All are below 2^31.
Poly(m, start) == Low(FoldLeft(LAMBDA h, c : Add(Times(h, m, W), C(c)), start, s))
HashesRight ==
  /\ SDBMHash = Poly(Word(65599, W), {})
  /\ PJWHash = ELFHash
  /\ DJBHash = Poly(Word(33, W), Word(5381, W))
  /\ \A h \in {SDBMHash, RSHash, JSHash, PJWHash, ELFHash, BKDRHash, DJBHash, APHash} : h \subseteq 0..30
=============================================================================
