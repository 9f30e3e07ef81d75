--------------------------------- MODULE Md5 ---------------------------------
(***************************************************************************)
(* crypto/md5.cc, class MD5, on words of 32 bits, and                      *)
(* crypto/MD5Checksum.cc, class CMD5Checksum, the same algorithm on words  *)
(* of unsigned long: 32 bits or, on a 64 bit Linux, 64.  An object is fed  *)
(* in pieces, asked for a digest, also more than once, and reset.          *)
(***************************************************************************)
EXTENDS Words, SequencesExt

CONSTANTS Width,  \* the bits of a word: uint32, or ULONG
          Texts,  \* what is fed, as bytes
          Pieces, \* sizes of the pieces
          Known   \* digests from RFC 1321, <<bytes, digest>>

VARIABLE s  \* [text, fed, md5, digest, sound, spoilt]; histories: spoilt, of the buffer; sound, of the digest

HexDigits == "0123456789abcdef"
HexOf(n)  == SubSeq(HexDigits, n + 1, n + 1)
Digits    == [c \in {HexOf(n) : n \in 0..15} |-> CHOOSE n \in 0..15 : HexOf(n) = c]

\* The constants of the 64 steps, and how far each rotates.
T == "d76aa478e8c7b756242070dbc1bdceeef57c0faf4787c62aa8304613fd469501" \o
     "698098d88b44f7afffff5bb1895cd7be6b901122fd987193a679438e49b40821" \o
     "f61e2562c040b340265e5a51e9b6c7aad62f105d02441453d8a1e681e7d3fbc8" \o
     "21e1cde6c33707d6f4d50d87455a14eda9e3e905fcefa3f8676f02d98d2a4c8a" \o
     "fffa39428771f6816d9d6122fde5380ca4beea444bdecfa9f6bb4b60bebfbc70" \o
     "289b7ec6eaa127fad4ef308504881d05d9d4d039e6db99e51fa27cf8c4ac5665" \o
     "f4292244432aff97ab9423a7fc93a039655b59c38f0ccc92ffeff47d85845dd1" \o
     "6fa87e4ffe2ce6e0a30143144e0811a1f7537e82bd3af2352ad7d2bbeb86d391"
Hex(h)  == UNION {{4 * (8 - i) + b : b \in Word(Digits[SubSeq(h, i, i)], 4)} : i \in 1..8}
Step(k) == Hex(SubSeq(T, 8 * k + 1, 8 * k + 8))
Turn(k) == << <<7, 12, 17, 22>>, <<5, 9, 14, 20>>, <<4, 11, 16, 23>>, <<6, 10, 15, 21>> >>
             [(k \div 16) + 1][(k % 4) + 1]
Input(k) == CASE k \div 16 = 0 -> k % 16
              [] k \div 16 = 1 -> (5 * k + 1) % 16
              [] k \div 16 = 2 -> (3 * k + 5) % 16
              [] k \div 16 = 3 -> (7 * k) % 16

\* F, G, H and I of the four rounds.
Mix(k, b, c, d) == CASE k \div 16 = 0 -> (b \cap c) \cup (Flip(b, Width) \cap d)
                     [] k \div 16 = 1 -> (b \cap d) \cup (c \cap Flip(d, Width))
                     [] k \div 16 = 2 -> Xor(Xor(b, c), d)
                     [] k \div 16 = 3 -> Xor(c, b \cup Flip(d, Width))

\* (x << n) | (x >> (32 - n)), whatever the width of x.
RotateLeft(x, n) == Shl(x, n, Width) \cup Shr(x, 32 - n)

\* ByteToDWord, decode
WordAt(block, i) == UNION {{8 * j + b : b \in Word(block[4 * i + j + 1], 8)} : j \in 0..3}

\* The 64 steps on the words X of a block.
Rounds(v0, X) ==
  LET Add(a, b) == Plus(a, b, Width)
      One(v, k) == <<v[4], Add(RotateLeft(Add(Add(v[1], Mix(k, v[2], v[3], v[4])),
                                              Add(X[Input(k)], Step(k))), Turn(k)), v[2]),
                     v[2], v[3]>>
  IN FoldLeft(One, v0, [i \in 1..64 |-> i - 1])
Transform(state, block) ==
  LET end == Rounds(state, [i \in 0..15 |-> WordAt(block, i)])
  IN [i \in 1..4 |-> Plus(state[i], end[i], Width)]

Zeros(n) == [i \in 1..n |-> 0]
reset == [state |-> <<Hex("67452301"), Hex("efcdab89"), Hex("98badcfe"), Hex("10325476")>>,
          count |-> 0, buffer |-> Zeros(64)]

Over(buffer, at, data) ==
  SubSeq(buffer, 1, at) \o data \o SubSeq(buffer, at + Len(data) + 1, 64)

\* update; count is in bytes.
Update(o, input) ==
  LET index   == o.count % 64
      partLen == 64 - index
      full    == Over(o.buffer, index, SubSeq(input, 1, partLen))
      blocks  == (Len(input) - partLen) \div 64
      At(i)   == IF i = 0 THEN full ELSE SubSeq(input, partLen + 64 * i - 63, partLen + 64 * i)
      Next1(st, i) == Transform(st, At(i))
      rest    == SubSeq(input, partLen + 64 * blocks + 1, Len(input))
  IN IF Len(input) < partLen
     THEN [o EXCEPT !.count = @ + Len(input), !.buffer = Over(@, index, input)]
     ELSE [state  |-> FoldLeft(Next1, o.state, [i \in 1..blocks + 1 |-> i - 1]),
           count  |-> o.count + Len(input),
           buffer |-> Over(full, 0, rest)]

\* DWordToByte, encode, of the number of bits and of the state, and the hexadecimal form.
Bits(o) == [i \in 1..8 |-> IF i > 3 THEN 0 ELSE ((o.count * 8) \div 256^(i - 1)) % 256]
Nibble(word, i) == LET bits == {b \in 0..3 : 4 * i + b \in word}
                   IN HexOf(FoldSeq(LAMBDA b, n : n + (IF b \in bits THEN 2^b ELSE 0), 0, <<0, 1, 2, 3>>))
HexWord(word) == Nibble(word, 1) \o Nibble(word, 0) \o Nibble(word, 3) \o Nibble(word, 2)
                 \o Nibble(word, 5) \o Nibble(word, 4) \o Nibble(word, 7) \o Nibble(word, 6)
toString(state) == HexWord(state[1]) \o HexWord(state[2]) \o HexWord(state[3]) \o HexWord(state[4])

PADDING == <<128>> \o Zeros(63)
\* Variant: a buffer of 56 bytes is taken to have room for the length.
PaddedTight(o) ==
  LET index == o.count % 64
  IN Update(Update(o, SubSeq(PADDING, 1, IF index <= 56 THEN 56 - index ELSE 120 - index)), Bits(o))
Padded(o) ==
  LET index == o.count % 64
  IN Update(Update(o, SubSeq(PADDING, 1, IF index < 56 THEN 56 - index ELSE 120 - index)), Bits(o))

\* CMD5Checksum: a text at once.
GetMD5(t) == toString(Padded(Update(reset, t)).state)

-----------------------------------------------------------------------------
Init == \E t \in Texts : s = [text |-> t, fed |-> 0, md5 |-> reset, digest |-> "", sound |-> TRUE, spoilt |-> FALSE]

Feed(n) ==
  /\ s.fed + n <= Len(s.text)
  /\ s' = [s EXCEPT !.fed = @ + n, !.digest = "",
                    !.md5 = Update(@, SubSeq(s.text, s.fed + 1, s.fed + n))]
Rest == Len(s.text) - s.fed

\* digest, which computes the digest every time: final calls update, which clears _finished again.
\* final gives back state and count, but not the buffer, whose first bytes the padding has
\* overwritten if it took another block: from then on the buffer is spoilt.
Digest == LET p == Padded(s.md5)
          IN s' = [s EXCEPT !.digest = toString(p.state), !.md5.buffer = p.buffer, !.sound = ~s.spoilt,
                            !.spoilt = @ \/ s.fed % 64 >= 56]

\* reset; the buffer keeps what it holds.
Reset == s' = [s EXCEPT !.fed = 0, !.digest = "", !.spoilt = FALSE, !.md5 = [reset EXCEPT !.buffer = s.md5.buffer]]

Next == (\E n \in Pieces \cup {Rest} : Feed(n)) \/ Digest \/ Reset

-----------------------------------------------------------------------------
\* The digest of a text by the definition of RFC 1321.
Message(t) == t \o <<128>> \o Zeros((119 - (Len(t) % 64)) % 64) \o Bits([count |-> Len(t)])
RECURSIVE Chain(_, _)
Chain(state, m) == IF m = <<>> THEN state
                   ELSE Chain(Transform(state, SubSeq(m, 1, 64)), SubSeq(m, 65, Len(m)))
Definition(t) == toString(Chain(reset.state, Message(t)))

\* However the text is fed, and whatever was in the buffer before a reset, the digest is that of
\* the text so far; and the one that RFC 1321 prints, where it does.  It is also when it is asked
\* for again, unless one was asked for with 56 bytes or more in the buffer and no reset followed:
\* the digests after that one are of other bytes (md5.cc:99-105, 155, 188-216).
DigestRight ==
  s.digest # "" /\ s.sound =>
    LET t == SubSeq(s.text, 1, s.fed)
    IN s.digest = Definition(t) /\ \A k \in Known : k[1] = t => s.digest = k[2]
\* CMD5Checksum agrees where its words have the 32 bits of the algorithm, and is another function,
\* no MD5, where they have more (MD5Checksum.h:305-306, MD5Checksum.cc:114-129).
ChecksumRight ==
  s.digest # "" /\ s.sound =>
    (GetMD5(SubSeq(s.text, 1, s.fed)) = s.digest <=> Width = 32)
=============================================================================
