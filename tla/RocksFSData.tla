----------------------------- MODULE RocksFSData -----------------------------
(***************************************************************************)
(* The file system of src/rocksfs with the data of its files: the calls of *)
(* RocksFS, and pwrite and pread through a descriptor (rocksfs.cc), which  *)
(* go to the blocks (RocksFile) under the key of the file the descriptor   *)
(* is open on.                                                             *)
(*                                                                         *)
(* Deleting a file deletes its record and none of its blocks ("TODO",      *)
(* lines 593 and 650): they stay in the database, out of reach as long as  *)
(* no later file gets the same key.                                        *)
(***************************************************************************)
EXTENDS RocksFS, RocksFile

VARIABLES
  blocks,   \* blocks[key][n]: the record under key:n, or Hole
  written   \* history: what was last written to each block of the file that
            \* has the key now

dataVars == <<blocks, written>>
Empty == [n \in 0..LastBlock |-> Hole]

InitData ==
  /\ Init
  /\ blocks = [k \in Keys |-> NoBlocks]
  /\ written = [k \in Keys |-> Empty]
-----------------------------------------------------------------------------
\* Variant of calc_key: the key is a hash of the path alone, and comes back.
calc_key_of_path(key) == key \in Keys

\* calc_key hashes the path with the time in nanoseconds, so that no file ever
\* had the key before.  (A file that has no blocks leaves nothing behind.)
calc_key(key) == blocks[key] = NoBlocks

Created == {k \in Keys : db[k] = NoRecord /\ db'[k] # NoRecord}

\* A call that is not about data.
NameSpaceCall ==
  /\ Call
  /\ \A k \in Created : calc_key(k)
  /\ written' = [k \in Keys |-> IF k \in Created THEN Empty ELSE written[k]]
  /\ UNCHANGED blocks

\* fd_search
IsOpen(fd) == fd_table[fd] # NoKey

\* The batch of a write is applied wholly; one that fails changes nothing and
\* is not shown.
pwrite(fd, offset, count, value) ==
  LET result == write(offset, count)
  IN /\ IsOpen(fd) /\ result.ok
     /\ blocks' = [blocks EXCEPT ![fd_table[fd]] = Stored(@, result.batch, value)]
     /\ written' = [written EXCEPT ![fd_table[fd]] = [n \in 0..LastBlock |->
                      IF offset <= n * BS /\ (n + 1) * BS <= offset + count THEN value ELSE @[n]]]
     /\ UNCHANGED <<db, memory, failed>>

\* An assert fails in encode, or a part of a block is asked for: nothing of
\* the batch has been written.
pwrite_asserts(fd, offset, count) ==
  /\ IsOpen(fd) /\ ~write(offset, count).ok
  /\ failed' = "write"
  /\ UNCHANGED <<db, memory, dataVars>>

\* A read that ends in an assert; any other changes nothing.
pread_asserts(fd, offset, count) ==
  /\ IsOpen(fd) /\ ~read(blocks[fd_table[fd]], offset, count).ok
  /\ failed' = "read"
  /\ UNCHANGED <<db, memory, dataVars>>

DataCall ==
  \E fd \in Fds, r \in Requests :
    \/ \E value \in Data : pwrite(fd, r[1], r[2], value)
    \/ pwrite_asserts(fd, r[1], r[2])
    \/ pread_asserts(fd, r[1], r[2])

NextData ==
  \/ failed = "none" /\ (NameSpaceCall \/ DataCall)
  \/ Restart /\ UNCHANGED dataVars

SpecData == InitData /\ [][NextData]_<<vars, dataVars>>
-----------------------------------------------------------------------------
(* Properties *)

TypeOKData ==
  /\ blocks \in [Keys -> [BlockNumbers -> {Hole} \cup [offset : 0..BS * LastBlock, data : Data]]]
  /\ written \in [Keys -> [0..LastBlock -> {Hole} \cup Data]]
  /\ TablesTyped
  /\ failed \in {"none", "rmdir_root", "lazy_unlink_del", "lazy_unlink_write", "write", "read"}

\* What the blocks of a key hold.
Held(k) == [n \in 0..LastBlock |-> IF blocks[k][n] = Hole THEN Hole ELSE blocks[k][n].data]

Store == INSTANCE FileStore WITH
  Objects  <- Keys,
  None     <- NoKey,
  Blocks   <- 0..LastBlock,
  dirs     <- Directories,
  files    <- Files,
  handles  <- fd_table,
  contents <- [k \in Keys |-> Held(k)]

\* Every file has its own data, over unlinks, restarts and whatever files had
\* its name before: a new file is empty although blocks of deleted ones stay
\* in the database, and a write through a descriptor changes this file alone.
ImplementsFileStore == Store!SpecStore

\* What a read of blocks first..last of a file has to return: what was written
\* last, through whatever descriptor, up to the first block never written.
Expected(key, first, last) ==
  LET stop == Min({last + 1} \cup {n \in first..last : written[key][n] = Hole})
  IN [i \in 1..(stop - first) |-> written[key][first + i - 1]]

\* A read of whole blocks from a file that is there returns what was written
\* to it, and no assert of decode fails (line 101); a write of whole blocks
\* returns the count it was given, and no assert of encode fails.
ReadsReturnWritten ==
  /\ TypeOKData
  /\ failed = "none" => \A r \in WholeBlocks :
       LET write_ == write(r[1], r[2])
           last == (r[1] + r[2] - 1) \div BS
       IN /\ write_.ok /\ BS * Len(write_.batch) = r[2]
          /\ \A k \in Keys : db[k].type = "file" =>
               LET read_ == read(blocks[k], r[1], r[2]) IN
               read_.ok /\ read_.data = Expected(k, r[1] \div BS, last)
=============================================================================
