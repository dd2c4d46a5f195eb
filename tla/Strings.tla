------------------------------- MODULE Strings -------------------------------
(***************************************************************************)
(* BasicDS/String: the exercises on strings and the Rabin-Karp search.  A  *)
(* string is a sequence of chars; char is signed, so that a char outside   *)
(* ASCII is negative.  Indices start at 1.                                 *)
(***************************************************************************)
EXTENDS Integers, Sequences, SequencesExt

Indices(str) == [i \in DOMAIN str |-> i]

Swapped(str, i, j) == [str EXCEPT ![i] = str[j], ![j] = str[i]]

\* A negative index of a bitset throws.  (No char is 256.)
Threw == <<256>>

ToInt(c) == c
-----------------------------------------------------------------------------
(* Permituation.cpp *)

\* The strings that Permute puts into result, and chars as it leaves it.
RECURSIVE Permute(_, _)
Permute(s, start) ==
  LET chars == s.chars
      Try(r, i) ==
        LET below == Permute([r EXCEPT !.chars = Swapped(r.chars, i, start)], start + 1)
        IN [below EXCEPT !.chars = Swapped(below.chars, i, start)]
  IN IF start = Len(chars) THEN [s EXCEPT !.result = Append(s.result, chars)]
     ELSE FoldLeft(Try, s, [i \in 1..(Len(chars) - start + 1) |-> start + i - 1])

Permutations_(str) == Permute([chars |-> str, result |-> <<>>], 1)
-----------------------------------------------------------------------------
(* remove_duplicate.cpp, unique.cpp: in place, behind the reading *)

KeptIn(s) == SubSeq(s.str, 1, s.written)

Keep(s, c) == [s EXCEPT !.str[s.written + 1] = c, !.written = s.written + 1]

RemoveDuplicateNoBuffer(str) ==
  LET Visit(s, rit) == IF s.str[rit] \in ToSet(KeptIn(s)) THEN s ELSE Keep(s, s.str[rit])
  IN KeptIn(FoldLeft(Visit, [str |-> str, written |-> 0], Indices(str)))

RemoveDuplicate(str) ==
  LET Visit(s, rit) ==
        LET v == ToInt(s.str[rit])
        IN IF v \in s.bits THEN s ELSE [Keep(s, s.str[rit]) EXCEPT !.bits = @ \cup {v}]
  IN IF \E i \in DOMAIN str : ToInt(str[i]) < 0 THEN Threw
     ELSE KeptIn(FoldLeft(Visit, [str |-> str, written |-> 0, bits |-> {}], Indices(str)))

\* The chars are looked at up to the first that recurs.
HasUniqueCharacters(str) ==
  LET recurs == {i \in DOMAIN str : \E j \in 1..i - 1 : str[j] = str[i]}
      negative == {i \in DOMAIN str : ToInt(str[i]) < 0}
  IN CASE recurs = {} /\ negative = {} -> "unique"
       [] \E i \in negative : \A j \in recurs : i <= j -> "threw"
       [] OTHER -> "repeated"
-----------------------------------------------------------------------------
(* anagram.cpp, is_rotation.cpp, reverse.cpp *)

IsAnagramUsingSort(s1, s2) == SortSeq(s1, <) = SortSeq(s2, <)

\* A negative index is outside the vector of counts.
CountsOutside(str) == \E i \in DOMAIN str : ToInt(str[i]) < 0

GetCharacterCount(str) ==
  [v \in 0..127 |-> Len(SelectSeq(str, LAMBDA c : ToInt(c) = v))]

IsAnangram(s1, s2) == GetCharacterCount(s1) = GetCharacterCount(s2)

IsSubstr(s1, s2) ==
  \E at \in 0..Len(s1) - Len(s2) : SubSeq(s1, at + 1, at + Len(s2)) = s2

IsRotation(s1, s2) == Len(s1) = Len(s2) /\ IsSubstr(s1 \o s1, s2)

\* The two iterators meet or pass each other in the middle.
ReverseString(str) ==
  FoldLeft(LAMBDA s, i : Swapped(s, i, Len(str) + 1 - i), str, [i \in 1..(Len(str) \div 2) |-> i])
-----------------------------------------------------------------------------
(* replace_space.cpp *)

\* One round of Replace: from the back, reading and writing the same string.
ReplaceOne(s, replace, with) ==
  IF s.str[s.rit] # replace
  THEN [s EXCEPT !.str[s.wit] = s.str[s.rit], !.wit = @ - 1, !.rit = @ - 1]
  ELSE [s EXCEPT !.str = [i \in DOMAIN s.str |->
                            IF i \in s.wit - Len(with) + 1..s.wit
                            THEN with[i - (s.wit - Len(with))] ELSE s.str[i]],
                 !.wit = @ - Len(with), !.rit = @ - 1, !.nchars = @ - 1,
                 !.broke = (s.nchars = 1)]

Replace(str, replace, with) ==
  LET nchars == Len(SelectSeq(str, LAMBDA c : c = replace))
      size == Len(str) + nchars * (Len(with) - 1)
      resized == [i \in 1..size |-> IF i <= Len(str) THEN str[i] ELSE 0]
      begun == [str |-> resized, rit |-> Len(str), wit |-> size, nchars |-> nchars, broke |-> FALSE]
  IN FoldLeft(LAMBDA s, i : IF s.broke THEN s ELSE ReplaceOne(s, replace, with), begun, Indices(str)).str
-----------------------------------------------------------------------------
(* RollingHash.h, RobinKarpStringMatch.cpp, RobinKarpHashUser.cpp.  A hash   *)
(* has word_size bits; the table of CharacterHash, which is random, is given *)

word_size == 3

kB == 37

\* b_to_n_ of KarpRabinHash.
RECURSIVE PowerOfB(_)
PowerOfB(n) == IF n = 0 THEN 1 ELSE (PowerOfB(n - 1) * kB) % 2 ^ word_size

EatChar(table, hash, c) == (kB * hash + table[c]) % 2 ^ word_size

\* Variant of UpdateHash: the power of the char after.
UpdateHashLater(table, n, hash, out, in) ==
  (kB * hash + table[in] - PowerOfB(n + 1) * table[out]) % 2 ^ word_size

\* Update: the window of n chars moves on by one.
UpdateHash(table, n, hash, out, in) ==
  (kB * hash + table[in] - PowerOfB(n) * table[out]) % 2 ^ word_size

GetStringHash(table, str) == FoldLeft(LAMBDA h, c : EatChar(table, h, c), 0, str)

\* The hashes of the windows of n chars, from the first on.
WindowHashes(table, text, n) ==
  LET hash[out \in 0..Len(text) - n] ==
        IF out = 0 THEN GetStringHash(table, SubSeq(text, 1, n))
        ELSE UpdateHash(table, n, hash[out - 1], text[out], text[out + n])
  IN hash

\* RobinKarpStringMatch's main, for a text not shorter than match: where the
\* hashes agree and then the chars do.
Matches(table, text, match) ==
  LET n == Len(match)
  IN {out \in 0..Len(text) - n :
        /\ WindowHashes(table, text, n)[out] = GetStringHash(table, match)
        /\ \A j \in 1..n : text[out + j] = match[j]}

\* RobinKarpHashUser's main prints the hash of each window of 3 but the first.
PrintedHashes(table, text) ==
  [i \in 1..Len(text) - 3 |-> WindowHashes(table, text, 3)[i]]
=============================================================================
