-------------------------------- MODULE TTTD ---------------------------------
(***************************************************************************)
(* The chunker of src/BasicDS/CDC/tttd.h with the hash of RollingHash.h:   *)
(* where the next chunk of a buffer ends.  A chunk ends at the first byte, *)
(* from the min_-th on, at which the main divisor divides the hash of the  *)
(* chunk so far; after max_ bytes it ends at the last byte at which the    *)
(* backup divisor did, and if there was none it is cut by force.           *)
(***************************************************************************)
EXTENDS Integers, FiniteSetsExt

CONSTANTS
  min_, max_,         \* SetMinChunkSize, SetMaxChunkSize
  backup_divisor_,    \* 270 * m, of SetRecommendedChunkSize
  HashBits            \* the width of the hash, word_size

ASSUME TTTDAssumption ==
  /\ min_ \in Nat \ {0} /\ max_ \in Nat /\ min_ <= max_
  /\ backup_divisor_ \in Nat \ {0} /\ HashBits \in Nat

main_divisor_ == 2 * backup_divisor_

kB_ == 37

\* KarpRabinHash::Update on the n-th byte after Reset.  A byte stands for its
\* value in CharacterHash's table.  Nothing is ever pushed into seen_, so
\* seen_.size() < seq_len_ at every byte and only Eat is called: the window
\* does not slide and the hash is that of all the bytes so far.
Update(bytes, n, hash_value) == (kB_ * hash_value + bytes[n]) % 2^HashBits

Hashes(bytes, size) ==
  LET h[n \in 0..size] == IF n = 0 THEN 0 ELSE Update(bytes, n, h[n - 1])
  IN h

\* The chunk takes `taken' bytes; a caller may hash it when it is ready.
Cut(taken, ready) == [taken |-> taken, ready |-> ready]

\* The bytes, up to the last-th, at which the chunk may end.
Divided(h, divisor, last) == {n \in min_..last : h[n] % divisor = 0}

\* Variant of LastByte: one byte more.
LastByteOneMore(size) == Min({max_ + 1, size})

\* The last byte that is looked at: the max_-th, unless the buffer ends first.
LastByte(size) == Min({max_, size})

\* TTTD::Chunkify on a buffer of size bytes.
Chunkify(bytes, size) ==
  LET h == Hashes(bytes, size)
      main == Divided(h, main_divisor_, LastByte(size))
      backup == Divided(h, backup_divisor_, LastByte(size))
  IN CASE main # {}                                      -> Cut(Min(main), TRUE)
       [] main = {} /\ size < max_                       -> Cut(size, FALSE)
       [] main = {} /\ size >= max_ /\ backup # {}       -> Cut(Max(backup), TRUE)
       [] main = {} /\ size >= max_ /\ backup = {}       -> Cut(max_, FALSE)
=============================================================================
