-------------------------------- MODULE Words --------------------------------
\* Machine words of w bits, as the sets of the positions of their ones, so that
\* & and | are intersection and union.
EXTENDS Naturals, Sequences

Wide(a, w)    == a \cap 0..w - 1
Flip(a, w)    == 0..w - 1 \ a
Xor(a, b)     == (a \ b) \cup (b \ a)
Shl(a, n, w)  == Wide({i + n : i \in a}, w)
Shr(a, n)     == {i - n : i \in {j \in a : j >= n}}

RECURSIVE Plus(_, _, _)
Plus(a, b, w) == IF b = {} THEN a ELSE Plus(Xor(a, b), Shl(a \cap b, 1, w), w)

RECURSIVE Times(_, _, _)
Times(a, b, w) == IF b = {} THEN {}
                  ELSE LET i == CHOOSE j \in b : TRUE
                       IN Plus(Shl(a, i, w), Times(a, b \ {i}, w), w)

\* The word of a natural number, and of a signed char: its sign goes up to the top.
Word(n, w)   == {i \in 0..(IF w > 30 THEN 30 ELSE w - 1) : (n \div 2^i) % 2 = 1}
Signed(c, w) == IF c < 128 THEN Word(c, w) ELSE Word(c, w) \cup 8..w - 1
=============================================================================
