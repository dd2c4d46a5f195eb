------------------------------- MODULE RocksFS -------------------------------
(***************************************************************************)
(* The name space and the open files of src/rocksfs/rocksfs.cc.            *)
(*                                                                         *)
(* The file system is one RocksDB database: a record per directory and per *)
(* file under a random-looking key, the root directory under "root".  A    *)
(* directory record holds its entries (name -> key and type).  Next to it  *)
(* are two tables in memory: open_file_table, key -> (refcnt, deleted),    *)
(* and fd_table, descriptor -> open file.                                  *)
(*                                                                         *)
(* The program is sequential and every call writes the database in at most *)
(* one WriteBatch, which RocksDB applies wholly or not at all, so a call   *)
(* is an action.  A call that returns an error changes nothing and is not  *)
(* shown, unless it changes memory before its write fails.                 *)
(*                                                                         *)
(* path_convert (utils.cc) maps every spelling of a path to one; a path is *)
(* the sequence of its names below the root.                               *)
(***************************************************************************)
EXTENDS Integers, FiniteSets, SequencesExt

CONSTANTS
  Names,           \* names of files and directories
  MaxDepth,        \* bound on the length of the paths that are used
  Keys,            \* keys of records, other than ROOT_KEY
  MaxFd,           \* bound on the descriptors open at a time
  WritesMayFail,   \* DB::Write may return an error (a full disk)
  Restarts,        \* the process may end and be started again
  NoKey            \* no record, no open file

ASSUME RocksFSAssumption ==
  /\ MaxDepth \in Nat /\ MaxFd \in Nat
  /\ WritesMayFail \in BOOLEAN /\ Restarts \in BOOLEAN
  /\ "root" \notin Keys /\ NoKey \notin Keys \cup {"root"}

VARIABLES
  db,               \* the database: key -> record
  open_file_table,  \* open_file_table[key]: its rocksfile_impl
  fd_table,         \* fd_table[fd]: the key of the file fd is open on
  failed            \* the assert that ended the process, or "none"

vars == <<db, open_file_table, fd_table, failed>>
memory == <<open_file_table, fd_table>>
-----------------------------------------------------------------------------
RootKey == "root"
AllKeys == Keys \cup {RootKey}
Fds == 0..MaxFd
Paths == BoundedSeq(Names, MaxDepth)

NoEntry == [key |-> NoKey, type |-> "none"]
Entries == [Names -> {NoEntry} \cup [key : AllKeys, type : {"dir", "file"}]]
NoEntries == [n \in Names |-> NoEntry]

\* A record's JSON: the members that the code reads back or that name other
\* records.
Record(type, key, parent) ==
  [type |-> type, key |-> key, parent |-> parent, del |-> 0, entries |-> NoEntries]

NoRecord == Record("none", NoKey, NoKey)

dir_json_init(key, parent) == Record("dir", key, parent)

file_json_init(key, parent) == Record("file", key, parent)

NotOpen == [refcnt |-> 0, deleted |-> FALSE]

\* rocksfs::rocksfs on an empty database: mkfs.
Init ==
  /\ db = [k \in AllKeys |-> IF k = RootKey THEN dir_json_init(RootKey, RootKey)
                                           ELSE NoRecord]
  /\ open_file_table = [k \in AllKeys |-> NotOpen]
  /\ fd_table = [fd \in Fds |-> NoKey]
  /\ failed = "none"

\* A WriteBatch that leads to database new is written, or the write fails.
Written(new) == db' = new
WriteFails == WritesMayFail /\ UNCHANGED db

(* open_file_table and the reference counts of its members *)

is_file_open(key) == open_file_table[key] # NotOpen
mark_file_open(key) == [open_file_table EXCEPT ![key].refcnt = @ + 1]
mark_file_closed(key) == [open_file_table EXCEPT ![key] = NotOpen]
mark_file_deleted(key) == [open_file_table EXCEPT ![key].deleted = TRUE]

\* calc_key hashes the path with the time in nanoseconds: the key is new.
NewKeys == {k \in Keys : db[k] = NoRecord /\ ~is_file_open(k)}
-----------------------------------------------------------------------------
Found(key, type) == [rc |-> "ok", key |-> key, type |-> type]
Error(rc) == [rc |-> rc, key |-> NoKey, type |-> "none"]

dir_lookup(key, name) ==
  LET entry == db[key].entries[name] IN
  IF db[key].del # 0 \/ entry = NoEntry THEN Error("ENOENT")
                                        ELSE Found(entry.key, entry.type)

\* The walk from the root, one directory record after the other.
namei[p \in Paths] ==
  IF p = <<>> THEN Found(RootKey, "dir")
  ELSE LET d == namei[Front(p)] IN
       CASE d.rc # "ok"                     -> d
         [] d.rc = "ok" /\ d.type = "file"  -> Error("ENOTDIR")
         [] OTHER                            -> dir_lookup(d.key, Last(p))

Exists(p, type) == namei[p].rc = "ok" /\ namei[p].type = type

\* lookup: the directory that holds, or is to hold, the last name of p.
HasParent(p) == p # <<>> /\ Exists(Front(p), "dir")
ParentKey(p) == namei[Front(p)].key

\* Adds the record of a new file or directory, and its entry in the parent.
Add(p, type, key, record) ==
  [db EXCEPT ![ParentKey(p)].entries[Last(p)] = [key |-> key, type |-> type],
             ![key] = record]

\* Variant of Erase: the entry stays.
EraseRecordOnly(p, record) == [db EXCEPT ![namei[p].key] = record]

\* Erases the entry of p, and makes record the one under its key.
Erase(p, record) ==
  [db EXCEPT ![ParentKey(p)].entries[Last(p)] = NoEntry,
             ![namei[p].key] = record]

\* Variant of is_dir_empty: every directory is taken for empty.
is_dir_empty_unchecked(key) == key \in AllKeys

\* The members of a directory's JSON that are no keywords.
is_dir_empty(key) == db[key].entries = NoEntries

\* list_dir prints these names.
list_dir(p) ==
  IF namei[p].rc # "ok" THEN {} ELSE {n \in Names : db[namei[p].key].entries[n] # NoEntry}
-----------------------------------------------------------------------------
mkdir(p) ==
  /\ namei[p].rc # "ok" /\ HasParent(p)
  /\ \E dk \in NewKeys :
       Written(Add(p, "dir", dk, dir_json_init(dk, ParentKey(p))))
  /\ UNCHANGED <<memory, failed>>

\* Variant of create: no check that the name is free.
create_over(p) ==
  /\ HasParent(p)
  /\ \E fk \in NewKeys :
       Written(Add(p, "file", fk, file_json_init(ParentKey(p), fk)))
  /\ UNCHANGED <<memory, failed>>

\* create passes the parent's key as the key and its own as the parent.
create(p) ==
  /\ namei[p].rc # "ok" /\ HasParent(p)
  /\ \E fk \in NewKeys :
       Written(Add(p, "file", fk, file_json_init(ParentKey(p), fk)))
  /\ UNCHANGED <<memory, failed>>

rmdir(p) ==
  /\ Exists(p, "dir") /\ is_dir_empty(namei[p].key) /\ p # <<>>
  /\ Written(Erase(p, NoRecord))
  /\ UNCHANGED <<memory, failed>>

\* rmdir("/"): lookup splits "/root" into "" and "root", namei succeeds on ""
\* without filling in the dentry, and its type is whatever was on the stack.
\* When that is FS_DIRECTORY the read of the parent "" fails an assert;
\* otherwise the call returns -ENOTDIR.
rmdir_root ==
  /\ is_dir_empty(RootKey)
  /\ failed' = "rmdir_root"
  /\ UNCHANGED <<db, memory>>

\* Variant of unlink: the record is deleted although the file is open.
unlink_ignores_open(p) ==
  /\ Exists(p, "file")
  /\ Written(Erase(p, NoRecord))
  /\ open_file_table' = IF is_file_open(namei[p].key) THEN mark_file_deleted(namei[p].key)
                        ELSE open_file_table
  /\ UNCHANGED <<fd_table, failed>>

\* The record of an open file stays, marked; its impl is marked in memory
\* before the batch is written.
unlink(p) ==
  /\ Exists(p, "file")
  /\ LET fk == namei[p].key
     IN /\ open_file_table' = IF is_file_open(fk) THEN mark_file_deleted(fk) ELSE open_file_table
        /\ \/ Written(Erase(p, IF is_file_open(fk) THEN [db[fk] EXCEPT !.del = 1] ELSE NoRecord))
           \/ WriteFails
  /\ UNCHANGED <<fd_table, failed>>

\* fd_allocate: the first gap in the ordered fd_table.
fd_allocate ==
  CHOOSE fd \in Fds : fd_table[fd] = NoKey /\ \A lower \in 0..(fd - 1) : fd_table[lower] # NoKey

fd_set(fd, key) == [fd_table EXCEPT ![fd] = key]
fd_deallocate(fd) == [fd_table EXCEPT ![fd] = NoKey]

open(p) ==
  /\ Exists(p, "file")
  /\ db[namei[p].key] # NoRecord
  /\ \E fd \in Fds : fd_table[fd] = NoKey
  /\ open_file_table' = mark_file_open(namei[p].key)
  /\ fd_table' = fd_set(fd_allocate, namei[p].key)
  /\ UNCHANGED <<db, failed>>

\* Variant of close: lazy_unlink is not called.
close_keeps_record(fd) ==
  LET key == fd_table[fd]
      fi == open_file_table[key]
  IN /\ key # NoKey
     /\ open_file_table' =
          IF fi.refcnt = 1 THEN mark_file_closed(key)
          ELSE [open_file_table EXCEPT ![key].refcnt = @ - 1]
     /\ fd_table' = fd_deallocate(fd)
     /\ UNCHANGED <<db, failed>>

\* The last close of a file forgets its impl and, when it was unlinked, runs
\* lazy_unlink, whose asserts are that the record is there and marked (line
\* 590) and that it can be written (line 596).
close(fd) ==
  LET key == fd_table[fd]
      fi == open_file_table[key]
  IN /\ key # NoKey
     /\ \/ /\ fi.refcnt > 1
           /\ open_file_table' = [open_file_table EXCEPT ![key].refcnt = @ - 1]
           /\ UNCHANGED <<db, failed>>
        \/ /\ fi.refcnt = 1
           /\ open_file_table' = mark_file_closed(key)
           /\ \/ ~fi.deleted /\ UNCHANGED <<db, failed>>
              \/ /\ fi.deleted /\ db[key].del = 1
                 /\ \/ Written([db EXCEPT ![key] = NoRecord]) /\ UNCHANGED failed
                    \/ WriteFails /\ failed' = "lazy_unlink_write"
              \/ /\ fi.deleted /\ db[key].del # 1
                 /\ failed' = "lazy_unlink_del"
                 /\ UNCHANGED db
     /\ fd_table' = fd_deallocate(fd)

\* The process ends, by exit or by an assert, and a new one opens the
\* database: the root record is there, so mkfs is not run again.
Restart ==
  /\ Restarts
  /\ open_file_table' = [k \in AllKeys |-> NotOpen]
  /\ fd_table' = [fd \in Fds |-> NoKey]
  /\ failed' = "none"
  /\ UNCHANGED db
-----------------------------------------------------------------------------
Call ==
  \/ \E p \in Paths : mkdir(p) \/ create(p) \/ rmdir(p) \/ unlink(p) \/ open(p)
  \/ \E fd \in Fds : close(fd)
  \/ rmdir_root

Next == (failed = "none" /\ Call) \/ Restart

Spec == Init /\ [][Next]_vars
-----------------------------------------------------------------------------
(* Properties *)

TablesTyped ==
  /\ db \in [AllKeys -> [type : {"none", "dir", "file"},
                         key : AllKeys \cup {NoKey}, parent : AllKeys \cup {NoKey},
                         del : {0, 1}, entries : Entries]]
  /\ open_file_table \in [AllKeys -> [refcnt : Nat, deleted : BOOLEAN]]
  /\ fd_table \in [Fds -> Keys \cup {NoKey}]

TypeOK ==
  /\ TablesTyped
  /\ failed \in {"none", "rmdir_root", "lazy_unlink_del", "lazy_unlink_write"}

\* No entry dangles: what a directory entry leads to is in the database, of
\* the type the entry says and not deleted.  The code asserts it at each of
\* its reads (lines 357, 392, 447, 496, 529, 568, 639).
EntriesResolve ==
  \A d \in AllKeys, n \in Names :
    LET entry == db[d].entries[n] IN
    entry # NoEntry => db[entry.key].type = entry.type /\ db[entry.key].del = 0

Links(k) == {link \in AllKeys \X Names : db[link[1]].entries[link[2]].key = k}

\* Nothing in the database is lost or shared: each record but the root's is
\* found under exactly one path, or is the record of a deleted file and found
\* under none; a directory's record names itself and its parent; and what
\* list_dir prints, which does not look whether the directory is deleted, are
\* the names that namei finds in it.
OneLinkEach ==
  /\ \A k \in Keys : db[k] # NoRecord =>
      /\ Cardinality(Links(k)) = 1 - db[k].del
      /\ db[k].del = 0 => \E p \in Paths : namei[p] = Found(k, db[k].type)
      /\ db[k].type = "dir" => db[k].key = k /\ \E n \in Names : <<db[k].parent, n>> \in Links(k)
  /\ \A p \in Paths : Len(p) < MaxDepth =>
       list_dir(p) = {n \in Names : namei[Append(p, n)].rc = "ok"}

OpenFds(k) == {fd \in Fds : fd_table[fd] = k}

\* The reference count of a file is the number of its descriptors, whatever
\* was unlinked, recreated under the same name or restarted in between; and
\* every open file still has its record, so that the last close, and only the
\* last, may delete it.
OpenFilesCounted ==
  /\ TypeOK
  /\ \A k \in AllKeys : open_file_table[k].refcnt = Cardinality(OpenFds(k))
  /\ \A k \in AllKeys : OpenFds(k) # {} => db[k].type = "file"

\* "The file's key and DB entry is kept around until last instance of file is
\* closed" (lines 627-629), and no longer while the process lives: a step after
\* which a deleted record belongs to no descriptor is the end of the process,
\* by a restart or by the assert that lazy_unlink's write succeeds.  No later
\* step looks at such a record again.
DeletedRecordsGoWithLastClose ==
  [][\A k \in Keys :
       (db[k].del = 1 => OpenFds(k) # {}) /\ db'[k].del = 1 /\ OpenFds(k)' = {} =>
         failed' = "lazy_unlink_write" \/ Restart]_vars

\* The assert of lazy_unlink: the last close of a file that was unlinked
\* finds its record marked (line 590).
LazyUnlinkFindsMark == failed # "lazy_unlink_del"

\* The tree that namei shows.
Directories == {p \in Paths : Exists(p, "dir")}
Files == [p \in {q \in Paths : Exists(q, "file")} |-> namei[p].key]

Tree == INSTANCE FileTree WITH
  Objects <- Keys,
  None    <- NoKey,
  dirs    <- Directories,
  files   <- Files,
  handles <- fd_table

\* Through its calls the database is a tree of directories and files, and a
\* descriptor keeps its file over unlinks and recreations, crashes included.
ImplementsFileTree == Tree!Spec
=============================================================================
