----------------------------- MODULE RocksFile ------------------------------
(***************************************************************************)
(* The data of a file: rocksfile_impl::write and read of                   *)
(* src/rocksfs/rocksfile.cc, which cut a request into blocks and keep each *)
(* block in the database under key:number.  Here `blocks' are the blocks   *)
(* under one key.                                                          *)
(*                                                                         *)
(* Offsets are 64 bits wide, block numbers 32; here 2^OffsetBits bytes and *)
(* 2^BlockBits blocks of BS bytes, with the same overflow.  The bytes of a *)
(* request are one value: every block of it holds that value.              *)
(***************************************************************************)
EXTENDS Integers, SequencesExt

CONSTANTS
  BS,           \* the block size, DEFAULT_BLOCK_SIZE
  BlockBits,    \* the width of a block number (uint32_t)
  OffsetBits,   \* the width of an offset (off_t, size_t)
  LastBlock,    \* bound: requests end in block LastBlock at the latest
  Data,         \* what a request writes
  Hole          \* no block is stored

ASSUME RocksFileAssumption ==
  /\ BS \in Nat \ {0} /\ BlockBits \in Nat /\ OffsetBits \in Nat /\ LastBlock \in Nat
  /\ 2^BlockBits \in Nat /\ 2^OffsetBits \in Nat
  \* No number or offset of a request is cut: see First.
  /\ LastBlock + 1 < 2^BlockBits /\ BS * (LastBlock + 1) < 2^OffsetBits
  /\ Hole \notin Data /\ Hole \notin [offset : Nat, data : Data]

BlockNumbers == 0..(2^BlockBits - 1)
NoBlocks == [n \in BlockNumbers |-> Hole]
-----------------------------------------------------------------------------
BlockOf(offset) == (offset \div BS) % 2^BlockBits

\* io_blocks; of an empty request at 0 the last byte is 2^64 - 1.
First(offset) == BlockOf(offset)
End(offset, count) == BlockOf((offset + count - 1) % 2^OffsetBits)

is_block_aligned(offset) == offset % BS = 0

\* The block of the k-th round of the loops of write and read: sb++ has 32 bits.
Round(offset, k) == (First(offset) + k) % 2^BlockBits

Past(offset, count, k) == Round(offset, k) > End(offset, count)

\* encode and decode assert that a chunk is a whole block, and a chunk that
\* starts inside a block is not implemented.
HasWholeBlock(offset, count, k) == is_block_aligned(offset + k * BS) /\ count - k * BS >= BS

\* The records that write puts into its batch, one in a round, and whether it
\* passes the last block before an assert fails.
write(offset, count) ==
  LET stop == Min({k \in 0..(count \div BS) :
                     Past(offset, count, k) \/ ~HasWholeBlock(offset, count, k)})
  IN [ok    |-> Past(offset, count, stop),
      batch |-> [i \in 1..stop |-> [block |-> Round(offset, i - 1), offset |-> offset + (i - 1) * BS]]]

\* What read copies out, a block in a round.  It also ends, without an error,
\* at a block that is not stored; decode asserts that a block holds the offset
\* that is read.
read(blocks, offset, count) ==
  LET Block(k) == blocks[Round(offset, k)]
      Ends(k) == Past(offset, count, k) \/ Block(k) = Hole
      Fails(k) == ~HasWholeBlock(offset, count, k) \/ Block(k).offset # offset + k * BS
      stop == Min({k \in 0..(count \div BS) : Ends(k) \/ Fails(k)})
  IN [ok |-> Ends(stop), data |-> [i \in 1..stop |-> Block(i - 1).data]]

\* Variant of Stored: a block that is stored already is not replaced.
StoredOnce(blocks, batch, value) ==
  LET puts(n) == {i \in DOMAIN batch : batch[i].block = n}
  IN [n \in BlockNumbers |->
        IF puts(n) = {} \/ blocks[n] # Hole THEN blocks[n]
        ELSE [offset |-> batch[Max(puts(n))].offset, data |-> value]]

\* The blocks once the batch of a write is in the database.  A later record of
\* the batch replaces an earlier one under the same key.
Stored(blocks, batch, value) ==
  LET puts(n) == {i \in DOMAIN batch : batch[i].block = n}
  IN [n \in BlockNumbers |->
        IF puts(n) = {} THEN blocks[n] ELSE [offset |-> batch[Max(puts(n))].offset, data |-> value]]

\* Any request, empty and unaligned ones included.
Requests ==
  {r \in (0..BS * (LastBlock + 1)) \X (0..BS * (LastBlock + 1)) : r[1] + r[2] <= BS * (LastBlock + 1)}

\* The requests the code implements: whole blocks.
WholeBlocks == {r \in Requests : r[2] > 0 /\ is_block_aligned(r[1]) /\ is_block_aligned(r[2])}
=============================================================================
