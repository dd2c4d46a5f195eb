------------------------------ MODULE FileTree ------------------------------
(***************************************************************************)
(* What src/rocksfs promises a program that uses it: a tree of directories *)
(* and files addressed by paths, and open files addressed by descriptors.  *)
(* A name is gone as soon as it is unlinked, while a descriptor keeps      *)
(* naming the file it was opened on; a restart closes every descriptor.    *)
(* A path is the sequence of its names below the root.                     *)
(***************************************************************************)
EXTENDS Integers, SequencesExt

CONSTANTS
  Names,      \* names of files and directories
  Objects,    \* identities of files
  MaxFd,      \* descriptors are 0..MaxFd
  None        \* a free descriptor

VARIABLES
  dirs,       \* the paths that are directories
  files,      \* files[p]: the file at path p
  handles     \* handles[fd]: the file descriptor fd is open on, or None

Init ==
  /\ dirs = {<<>>}
  /\ files = <<>>
  /\ handles = [fd \in 0..MaxFd |-> None]

InUse == dirs \cup DOMAIN files

CanAdd(p) == p # <<>> /\ p \notin InUse /\ Front(p) \in dirs

Mkdir(p) ==
  /\ CanAdd(p)
  /\ dirs' = dirs \cup {p}
  /\ UNCHANGED <<files, handles>>

Rmdir(p) ==
  /\ p \in dirs \ {<<>>}
  /\ \A q \in InUse \ {<<>>} : Front(q) # p
  /\ dirs' = dirs \ {p}
  /\ UNCHANGED <<files, handles>>

\* A new file is none that a path or a descriptor leads to.
Create(p) ==
  /\ CanAdd(p)
  /\ \E o \in Objects \ (Range(files) \cup Range(handles)) :
       files' = [q \in DOMAIN files \cup {p} |-> IF q = p THEN o ELSE files[q]]
  /\ UNCHANGED <<dirs, handles>>

Unlink(p) ==
  /\ p \in DOMAIN files
  /\ files' = [q \in DOMAIN files \ {p} |-> files[q]]
  /\ UNCHANGED <<dirs, handles>>

\* The lowest descriptor that is free.
Open(p) ==
  /\ p \in DOMAIN files
  /\ \E fd \in 0..MaxFd :
       /\ handles[fd] = None
       /\ \A lower \in 0..(fd - 1) : handles[lower] # None
       /\ handles' = [handles EXCEPT ![fd] = files[p]]
  /\ UNCHANGED <<dirs, files>>

Close(fd) ==
  /\ handles[fd] # None
  /\ handles' = [handles EXCEPT ![fd] = None]
  /\ UNCHANGED <<dirs, files>>

Restart ==
  /\ handles' = [fd \in 0..MaxFd |-> None]
  /\ UNCHANGED <<dirs, files>>

Addable == {Append(d, n) : d \in dirs, n \in Names}

Next ==
  \/ \E p \in Addable : Mkdir(p) \/ Create(p)
  \/ \E p \in dirs : Rmdir(p)
  \/ \E p \in DOMAIN files : Unlink(p) \/ Open(p)
  \/ \E fd \in 0..MaxFd : Close(fd)
  \/ Restart

Spec == Init /\ [][Next]_<<dirs, files, handles>>
=============================================================================
