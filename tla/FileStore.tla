------------------------------ MODULE FileStore ------------------------------
(***************************************************************************)
(* What src/rocksfs promises about the data of files: the tree of FileTree *)
(* in which every file has contents of its own, block by block.  They are  *)
(* empty when the file is created and change by a write through a          *)
(* descriptor of the file alone, which changes all blocks of its range.    *)
(***************************************************************************)
EXTENDS FileTree

CONSTANTS
  Blocks,     \* numbers of blocks
  Data,       \* what a block holds
  Hole        \* it was never written

VARIABLE contents    \* contents[o][n]: block n of file o

InitStore == Init /\ contents = [o \in Objects |-> [n \in Blocks |-> Hole]]

CreateEmpty(p) ==
  /\ Create(p)
  /\ contents' = [contents EXCEPT ![files'[p]] = [n \in Blocks |-> Hole]]

WriteBlocks(fd, first, last, value) ==
  /\ handles[fd] # None
  /\ contents' = [contents EXCEPT ![handles[fd]] =
                    [n \in Blocks |-> IF n \in first..last THEN value ELSE @[n]]]
  /\ UNCHANGED <<dirs, files, handles>>

NextStore ==
  \/ UNCHANGED contents /\ \/ \E p \in Addable : Mkdir(p)
                           \/ \E p \in dirs : Rmdir(p)
                           \/ \E p \in DOMAIN files : Unlink(p) \/ Open(p)
                           \/ \E fd \in 0..MaxFd : Close(fd)
                           \/ Restart
  \/ \E p \in Addable : CreateEmpty(p)
  \/ \E fd \in 0..MaxFd, first, last \in Blocks, value \in Data :
       first <= last /\ WriteBlocks(fd, first, last, value)

SpecStore == InitStore /\ [][NextStore]_<<dirs, files, handles, contents>>
=============================================================================
