------------------------------- MODULE Strings -------------------------------
(***************************************************************************)
(* base/string.cc: copying into buffers, looking for characters, url       *)
(* encoding and decoding.  A text is a sequence of characters as a plain   *)
(* char holds them (-128..127), with no 0.  Each call of a run takes the   *)
(* texts that are there and leaves its result in s.                        *)
(***************************************************************************)
EXTENDS Integers, Sequences, SequencesExt, FiniteSetsExt

CONSTANTS Characters,  \* characters of the texts
          MaxText,     \* bound: the length of a text
          Lengths,     \* sizes of buffers
          Delimiters   \* the characters that split a text

VARIABLE s  \* [pc, text, sub, len, result, index]

Texts == UNION {[1..n -> Characters] : n \in 0..MaxText}
NULL == <<1000>>  \* no text
Fresh(t, u, n) == [pc |-> "given", text |-> t, sub |-> u, len |-> n, result |-> <<>>, index |-> 0, words |-> <<>>]
Init == \E t \in Texts, n \in Lengths : s = Fresh(t, <<>>, n)

Digit(c) == 48 <= c /\ c <= 57
Upper(c) == 65 <= c /\ c <= 90
Lower(c) == 97 <= c /\ c <= 122
Kept(c)  == Digit(c) \/ Upper(c) \/ Lower(c) \/ c \in {45, 46, 95, 126}
hexchars(i) == IF i < 10 THEN 48 + i ELSE 55 + i

\* url_encode: what a character becomes; a blank is a '+'.  The index of a negative character lies
\* before hexchars, so what is there is unknown: 0 stands for it.
Hexed(c) == IF c < 0 THEN <<37, 0, hexchars(c % 16)>> ELSE <<37, hexchars(c \div 16), hexchars(c % 16)>>
Encoded(c) == IF c = 32 THEN <<43>> ELSE IF Kept(c) THEN <<c>> ELSE Hexed(c)
\* The room that is asked for before a character is written, its end included.
\* Variant: the room for the end is forgotten.
RoomShort(c) == Len(Encoded(c))
RoomFor(c)   == Len(Encoded(c)) + 1
url_encode(t, n) ==
  IF n < Len(t) THEN NULL
  ELSE FoldLeft(LAMBDA e, c : IF e = NULL \/ Len(e) + RoomFor(c) > n THEN NULL ELSE e \o Encoded(c), <<>>, t)

\* FromHexChar and url_decode, which takes two characters after a '%' even beyond the end (the end
\* is a 0), and writes a '+' after the blank it stands for.
FromHexChar(c) == IF Digit(c) THEN c - 48 ELSE IF Upper(c) THEN c - 55 ELSE 32
CharAt(t, i)   == IF i <= Len(t) THEN t[i] ELSE 0
AsChar(v)      == LET w == v % 256 IN IF w > 127 THEN w - 256 ELSE w
url_decode(t, n) ==
  LET from[i \in 1..Len(t) + 3] ==
        \* the output and the index of the next character, as a function of the steps taken
        IF i = 1 THEN [out |-> <<>>, at |-> 1]
        ELSE LET x == from[i - 1]
             IN IF x.at > Len(t) \/ n <= Len(x.out) + 1 THEN x
                ELSE IF t[x.at] = 37
                     THEN [out |-> Append(x.out, AsChar(16 * FromHexChar(CharAt(t, x.at + 1))
                                                        + FromHexChar(CharAt(t, x.at + 2)))),
                           at |-> x.at + 3]
                     ELSE [out |-> x.out \o (IF t[x.at] = 43 THEN <<32>> ELSE <<>>) \o <<t[x.at]>>, at |-> x.at + 1]
  IN from[Len(t) + 3].out

\* strlncat and strlncpy: as much as fits, and an end.  Their asserts stop the program when it is
\* not all, so the caller sees a result only when there was room.
strlncat(dst, len, src, n) ==
  LET part == SubSeq(src, 1, IF n < Len(src) THEN n ELSE Len(src))
  IN IF len > Len(part) + Len(dst) THEN dst \o part ELSE NULL
strlncpy(len, src, n) == strlncat(<<>>, len, src, n)

\* last_index_of, first_index_of, first_index_of_substr; an index counts from 0.
Indices(t, c) == {i \in 1..Len(t) : t[i] = c}
last_index_of(t, c)  == IF Indices(t, c) = {} THEN -1 ELSE Max(Indices(t, c)) - 1
first_index_of(t, c) == IF Indices(t, c) = {} THEN -1 ELSE Min(Indices(t, c)) - 1
\* The inner loop compares up to the end of the text and beyond, where a 0 meets no character.
Alike(t, u, i) == u # <<>> /\ \A j \in 1..Len(u) : CharAt(t, i + j - 1) = u[j]
first_index_of_substr(t, u) ==
  IF Len(t) < Len(u) \/ ~\E i \in 1..Len(t) : Alike(t, u, i) THEN -1
  ELSE Min({i \in 1..Len(t) : Alike(t, u, i)}) - 1

\* split and SplitString, by strtok: the longest pieces without a delimiter, none of them empty.
Pieces(t) == {p \in (1..Len(t)) \X (1..Len(t)) :
                /\ p[1] <= p[2] /\ \A i \in p[1]..p[2] : t[i] \notin Delimiters
                /\ p[1] = 1 \/ t[p[1] - 1] \in Delimiters
                /\ p[2] = Len(t) \/ t[p[2] + 1] \in Delimiters}
split(t) == LET q == SetToSortSeq(Pieces(t), LAMBDA a, b : a[1] < b[1])
            IN [i \in 1..Len(q) |-> SubSeq(t, q[i][1], q[i][2])]

Encode == s.pc = "given" /\ s' = [s EXCEPT !.pc = "encoded", !.result = url_encode(s.text, s.len)]
Decode == s.pc = "encoded" /\ s.result # NULL
          /\ s' = [s EXCEPT !.pc = "decoded", !.result = url_decode(s.result, MaxText + 1)]
Copy == \E n \in 0..MaxText :
          s.pc = "given" /\ s' = [s EXCEPT !.pc = "copied", !.result = strlncpy(s.len, s.text, n), !.index = n]
Join == /\ s.pc = "copied" /\ s.result # NULL
        /\ s' = [s EXCEPT !.pc = "joined", !.sub = s.result,
                          !.result = strlncat(s.result, 2 * MaxText + 1, s.text, MaxText)]
Search == s.pc = "joined" /\ s' = [s EXCEPT !.pc = "found", !.index = first_index_of_substr(s.result, s.text)]
Split == s.pc = "given" /\ s' = [s EXCEPT !.pc = "split", !.words = split(s.text)]
Find == \E c \in Characters :
          /\ s.pc = "given"
          /\ s' = [s EXCEPT !.pc = "index", !.sub = <<c>>, !.index = first_index_of(s.text, c),
                            !.result = <<last_index_of(s.text, c)>>]
Next == Encode \/ Decode \/ Copy \/ Join \/ Search \/ Split \/ Find
-----------------------------------------------------------------------------
\* string.cc:108: all but letters, digits and four marks is written in hexadecimal.  A text of
\* ASCII characters with no blank comes back unchanged, and what is written fits the buffer with
\* its end.  (A blank comes back as a blank and a '+', for which no room was asked.)
RoundTrip ==
  /\ s.pc = "encoded" /\ s.result # NULL /\ s.len > 0 => Len(s.result) < s.len
  /\ s.pc = "decoded" /\ (\A i \in 1..Len(s.text) : s.text[i] > 0 /\ s.text[i] # 32) => s.result = s.text

\* What is joined to a copy is found there, no later than behind it; a character's first index is
\* that of the text that is the character, and not after its last; the pieces of a split, in order,
\* are the text without the delimiters.
Searches ==
  /\ s.pc = "found" /\ s.text # <<>> => 0 <= s.index /\ s.index <= Len(s.sub)
  /\ s.pc = "index" => s.index = first_index_of_substr(s.text, s.sub) /\ s.index <= s.result[1]
  /\ s.pc = "split" => FlattenSeq(s.words) = SelectSeq(s.text, LAMBDA c : c \notin Delimiters)
StringsRight == RoundTrip /\ Searches
=============================================================================
