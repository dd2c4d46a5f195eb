------------------------------- MODULE Chunkers -------------------------------
(* The chunkers of BasicDS/CDC that the program names but does not use: BSW.h  *)
(* and FixedSizeChunking.h.  `values' are the hashes that Update returned,     *)
(* byte by byte; both give what a chunk takes and whether it is ready.         *)
EXTENDS Integers, Sequences, FiniteSetsExt

\* BSW::Chunkify.  The counter c of the n-th byte is n - 1; mask_ is a power of
\* two less one.
Chunkify(values, min_, max_, mask_) ==
  LET ends == {n \in DOMAIN values :
                 /\ n - 1 > min_
                 /\ values[n] % (mask_ + 1) = 0 \/ n - 1 >= max_}
  IN IF ends = {} THEN [taken |-> Len(values), ready |-> FALSE]
     ELSE [taken |-> Min(ends), ready |-> TRUE]

\* FixSizeChunking::Chunkify: a chunk that is ready takes all there is, not
\* size_ bytes of it.
FixSizeChunkify(values, size_) == [taken |-> Len(values), ready |-> Len(values) >= size_]
=============================================================================
