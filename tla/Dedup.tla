-------------------------------- MODULE Dedup --------------------------------
(***************************************************************************)
(* The deduplication program of src/BasicDS/CDC/main.cpp: threads that     *)
(* each read a region of the disk buffer by buffer, cut the buffers into   *)
(* chunks (TTTD) and count each chunk in the table they share.             *)
(*                                                                         *)
(* HashRefer holds mutex_; DumpStats, which thread 0 calls after some of   *)
(* its buffers and main at the end, does not.  SHA1 tells chunks of        *)
(* different content apart: the key of a chunk is its content.             *)
(***************************************************************************)
EXTENDS TTTD, Sequences

CONSTANTS
  kThreads, kReadSize,
  DiskSizes,        \* the sizes that lseek64 may report
  Align,            \* O_DIRECT reads begin and end on multiples of so many bytes
  Bytes,            \* what a byte of the disk can be
  Period,           \* bound: the disk repeats itself after so many bytes
  StatsEvery,       \* thread 0 dumps after every StatsEvery-th buffer (5)
  LastRange,        \* the end of the last range of RefCountHistogram (10000000)
  NoOne             \* mutex_ is free; nothing has been dumped

ASSUME DedupAssumption ==
  /\ kThreads \in Nat \ {0} /\ StatsEvery \in Nat \ {0} /\ LastRange \in Nat \ {0}
  /\ DiskSizes \subseteq Nat /\ \A size \in DiskSizes : size >= kThreads
  /\ Align \in Nat \ {0, 1} /\ kReadSize \in Nat \ {0} /\ kReadSize % Align = 0
  /\ 2 * kThreads <= kReadSize     \* 4 threads, 100 MB
  /\ Bytes \subseteq Nat /\ Period \in Nat \ {0}
  /\ NoOne \notin 0..(kThreads - 1)

Threads == 0..(kThreads - 1)

VARIABLES
  disk,        \* its bytes
  pc,          \* where each thread is
  i, offset,   \* locals of CreateDedupHashes
  data,        \* its buffer
  copied,      \* local of SafeRead
  it, stopped, \* positions in the buffer, from 0
  mutex_,      \* of the table: the thread that holds it
  found,       \* local of HashRefer: the hash is in the table
  table,       \* hash_ref_table_: content -> size_ and ref_cnt_
  referred,    \* history: what was given to HashRefer, <<thread, from, to>>
  joined,      \* main has joined the threads and dumped the final numbers
  final,       \* the final numbers
  aborted      \* the process ended: an assert, a division by zero or a data race

vars == <<disk, pc, i, offset, data, copied, it, stopped, mutex_, found, table, referred,
          joined, final, aborted>>
reading == <<data, copied>>
cutting == <<it, stopped>>
shared == <<mutex_, found, table, referred>>
ended == <<joined, final>>

DiskSize == Cardinality(DOMAIN disk)
x == DiskSize \div kThreads
read_begin(t) == t * x
read_end(t) == (t + 1) * x - 1

Init ==
  /\ \E size \in DiskSizes, piece \in [0..(Period - 1) -> Bytes] :
       disk = [n \in 0..(size - 1) |-> piece[n % Period]]
  /\ pc = [t \in Threads |-> "read"]
  /\ i = [t \in Threads |-> 0]
  /\ offset = [t \in Threads |-> read_begin(t)]
  /\ data = [t \in Threads |-> [n \in 0..(kReadSize - 1) |-> 0]]
  /\ copied = [t \in Threads |-> 0]
  /\ it = [t \in Threads |-> 0] /\ stopped = [t \in Threads |-> 0]
  /\ mutex_ = NoOne /\ found = [t \in Threads |-> FALSE]
  /\ table = <<>> /\ referred = {}
  /\ joined = FALSE /\ final = NoOne /\ aborted = FALSE

Goto(t, s) == pc' = [pc EXCEPT ![t] = s]

\* The bytes of the buffer from one position up to another.
Content(t, from, to) == [n \in 1..(to - from) |-> data[t][from + n - 1]]

\* The chunk thread t has at hand, and where on the disk that is.
Chunk(t) == Content(t, it[t], stopped[t])
From(t) == offset[t] + it[t]
To(t) == offset[t] + stopped[t]
-----------------------------------------------------------------------------
\* Variant of CanRead: only buffers within the region.
CanReadWithin(t) == offset[t] + kReadSize <= read_end(t) /\ offset[t] + kReadSize < DiskSize

\* The condition of the outer loop; File::Read refuses a buffer that reaches
\* the end of the disk.
CanRead(t) == offset[t] < read_end(t) /\ offset[t] + kReadSize < DiskSize

Read(t) ==
  /\ pc[t] = "read"
  /\ it' = [it EXCEPT ![t] = 0]
  /\ copied' = [copied EXCEPT ![t] = 0]
  /\ IF CanRead(t) THEN Goto(t, "pread") ELSE Goto(t, "done")
  /\ UNCHANGED <<disk, i, offset, data, stopped, shared, ended, aborted>>

\* One round of SafeRead's loop: pread may come back with a part of what is
\* asked for; one that fails with EAGAIN changes nothing and is made again.
Pread(t) ==
  /\ pc[t] = "pread"
  /\ \E r \in 1..(kReadSize - copied[t]) :
       /\ r % Align = 0 /\ (offset[t] + copied[t]) % Align = 0
       /\ data' = [data EXCEPT ![t] = [n \in DOMAIN @ |->
                     IF n \in copied[t]..(copied[t] + r - 1) THEN disk[offset[t] + n] ELSE @[n]]]
       /\ copied' = [copied EXCEPT ![t] = @ + r]
       /\ IF copied'[t] = kReadSize THEN Goto(t, "cut") ELSE UNCHANGED pc
  /\ UNCHANGED <<disk, i, offset, cutting, shared, ended, aborted>>

\* Any other error of pread, EINVAL for an unaligned region among them: less
\* than a buffer was read, and the assert of File::Read fails.
PreadFails(t) ==
  /\ pc[t] = "pread"
  /\ aborted' = TRUE
  /\ UNCHANGED <<disk, pc, i, offset, reading, cutting, shared, ended>>

\* Variant of Hashed: what is left at the end of a buffer is not hashed.
HashedIfReady(cut, end) == cut.ready

\* Which chunks NewChunkReady and HashRefer are called for.
Hashed(cut, end) == cut.ready \/ end = kReadSize

\* One round of the inner loop, up to the call of HashRefer.
CutChunk(t) ==
  /\ pc[t] = "cut" /\ it[t] # kReadSize
  /\ LET cut == Chunkify(Content(t, it[t], kReadSize), kReadSize - it[t])
         end == it[t] + cut.taken
     IN /\ stopped' = [stopped EXCEPT ![t] = end]
        /\ IF Hashed(cut, end) THEN Goto(t, "refer") /\ UNCHANGED it
                               ELSE it' = [it EXCEPT ![t] = end] /\ UNCHANGED pc
  /\ UNCHANGED <<disk, i, offset, reading, shared, ended, aborted>>

\* Variant of Lock: the lock_guard is missing.
NoLock(t) ==
  /\ pc[t] = "refer"
  /\ mutex_' = t
  /\ found' = [found EXCEPT ![t] = Chunk(t) \in DOMAIN table]
  /\ Goto(t, "found")
  /\ UNCHANGED <<disk, i, offset, reading, cutting, table, referred, ended, aborted>>

\* HashRefer, up to the find.
Lock(t) ==
  /\ pc[t] = "refer" /\ mutex_ = NoOne
  /\ mutex_' = t
  /\ found' = [found EXCEPT ![t] = Chunk(t) \in DOMAIN table]
  /\ Goto(t, "found")
  /\ UNCHANGED <<disk, i, offset, reading, cutting, table, referred, ended, aborted>>

\* unordered_map::emplace does nothing when the key is there.
Emplace(content) ==
  IF content \in DOMAIN table THEN table
  ELSE [c \in DOMAIN table \cup {content} |->
          IF c = content THEN [size_ |-> Len(content), ref_cnt_ |-> 1] ELSE table[c]]

ReferenceAdd(content) == [table EXCEPT ![content].ref_cnt_ = @ + 1]

\* Variant of Refer: mutex_ is not released.
ReferHoldsLock(t) ==
  /\ pc[t] = "found"
  /\ table' = IF found[t] THEN ReferenceAdd(Chunk(t)) ELSE Emplace(Chunk(t))
  /\ referred' = referred \cup {<<t, From(t), To(t)>>}
  /\ it' = [it EXCEPT ![t] = stopped[t]]
  /\ Goto(t, "cut")
  /\ UNCHANGED <<disk, i, offset, reading, stopped, mutex_, found, ended, aborted>>

\* The rest of HashRefer.  A thread that goes through the table in DumpStats
\* at the time may come to grief over it.
Refer(t) ==
  /\ pc[t] = "found"
  /\ table' = IF found[t] THEN ReferenceAdd(Chunk(t)) ELSE Emplace(Chunk(t))
  /\ \/ UNCHANGED aborted
     \/ (\E u \in Threads : pc[u] = "dumping") /\ aborted' = TRUE
  /\ referred' = referred \cup {<<t, From(t), To(t)>>}
  /\ mutex_' = NoOne
  /\ it' = [it EXCEPT ![t] = stopped[t]]
  /\ Goto(t, "cut")
  /\ UNCHANGED <<disk, i, offset, reading, stopped, found, ended>>

\* The buffer is done; thread 0 was started with dump_stats.
NextBuffer(t) ==
  /\ pc[t] = "cut" /\ it[t] = kReadSize
  /\ i' = [i EXCEPT ![t] = @ + 1]
  /\ offset' = [offset EXCEPT ![t] = @ + kReadSize]
  /\ IF t = 0 /\ i[t] % StatsEvery = 0 THEN Goto(t, "dumping") ELSE Goto(t, "read")
  /\ UNCHANGED <<disk, reading, cutting, shared, ended, aborted>>

\* Variant of DumpStats: a chunk's bytes are counted once, not once for each
\* reference to it.
DumpStatsOnce ==
  LET hashes == DOMAIN table
      refs == {table[c].ref_cnt_ : c \in hashes}
      processed == SumFunction([c \in hashes |-> table[c].size_])
  IN [total |-> Cardinality(hashes), least |-> Min(refs), most |-> Max(refs),
      non_one |-> Cardinality({c \in hashes : table[c].ref_cnt_ > 1}),
      only_one |-> Cardinality({c \in hashes : table[c].ref_cnt_ <= 1}),
      data_size |-> processed, data_size_after_dedup |-> processed, percent |-> 0]

\* What DumpStats prints, sizes in bytes.
DumpStats ==
  LET hashes == DOMAIN table
      refs == {table[c].ref_cnt_ : c \in hashes}
      processed == SumFunction([c \in hashes |-> table[c].size_ * table[c].ref_cnt_])
      after == SumFunction([c \in hashes |-> table[c].size_])
  IN [total |-> Cardinality(hashes), least |-> Min(refs), most |-> Max(refs),
      non_one |-> Cardinality({c \in hashes : table[c].ref_cnt_ > 1}),
      only_one |-> Cardinality({c \in hashes : table[c].ref_cnt_ <= 1}),
      data_size |-> processed, data_size_after_dedup |-> after,
      percent |-> 100 - (100 * after) \div processed]

\* "Dedup %" divides by the bytes processed, and IncrementRange asserts that
\* there is a range for each reference count.
DumpDies == DOMAIN table = {} \/ \E c \in DOMAIN table : table[c].ref_cnt_ > LastRange

\* DumpStats of thread 0.  Nothing is kept of what it prints.
Dumped(t) ==
  /\ pc[t] = "dumping"
  /\ aborted' = DumpDies
  /\ Goto(t, "read")
  /\ UNCHANGED <<disk, i, offset, reading, cutting, shared, ended>>

\* main joins the threads and dumps the final numbers.
Join ==
  /\ ~joined /\ \A t \in Threads : pc[t] = "done"
  /\ joined' = TRUE
  /\ aborted' = DumpDies
  /\ final' = IF DumpDies THEN NoOne ELSE DumpStats
  /\ UNCHANGED <<disk, pc, i, offset, reading, cutting, shared>>

Step(t) == Read(t) \/ Pread(t) \/ CutChunk(t) \/ Lock(t) \/ Refer(t) \/ NextBuffer(t) \/ Dumped(t)

Next == ~aborted /\ (Join \/ \E t \in Threads : Step(t) \/ PreadFails(t))

\* The scheduler runs every thread; mutex_ goes to any thread that waits; and
\* the device does not answer EAGAIN for ever.
Fairness ==
  /\ WF_vars(~aborted /\ Join)
  /\ \A t \in Threads : WF_vars(~aborted /\ (Step(t) \/ PreadFails(t)))

Spec == Init /\ [][Next]_vars /\ Fairness
-----------------------------------------------------------------------------
(* Properties *)

TypeOK ==
  /\ pc \in [Threads -> {"read", "pread", "cut", "refer", "found", "dumping", "done"}]
  /\ i \in [Threads -> Nat] /\ offset \in [Threads -> Nat]
  /\ data \in [Threads -> [0..(kReadSize - 1) -> Bytes \cup {0}]]
  /\ copied \in [Threads -> 0..kReadSize]
  /\ it \in [Threads -> 0..kReadSize] /\ stopped \in [Threads -> 0..kReadSize]
  /\ mutex_ \in Threads \cup {NoOne} /\ found \in [Threads -> BOOLEAN]
  /\ \A c \in DOMAIN table : table[c].size_ \in Nat /\ table[c].ref_cnt_ \in Nat \ {0}
  /\ referred \subseteq Threads \X Nat \X Nat
  /\ joined \in BOOLEAN /\ aborted \in BOOLEAN

OnDisk(r) == [n \in 1..(r[3] - r[2]) |-> disk[r[2] + n - 1]]

\* The table counts every chunk that was given to HashRefer once, under what
\* the disk holds there and with its size (the assert of HashRefer, line 209),
\* whatever threads come upon the same content together and in however many
\* pieces their buffers were read.
TableExact ==
  /\ TypeOK
  /\ DOMAIN table = {OnDisk(r) : r \in referred}
  /\ \A c \in DOMAIN table :
       /\ table[c].size_ = Len(c)
       /\ table[c].ref_cnt_ = Cardinality({r \in referred : OnDisk(r) = c})

\* A chunk has at most max_ bytes and at least min_, unless its buffer ends
\* with it, and lies on the disk; chunks of a thread do not overlap.
ChunksBounded ==
  \A r \in referred :
    /\ r[2] < r[3] /\ r[3] <= r[2] + max_ /\ r[3] < DiskSize
    /\ r[3] >= r[2] + min_ \/ (r[3] - read_begin(r[1])) % kReadSize = 0
    /\ \A s \in referred : s[1] = r[1] /\ s # r => s[3] <= r[2] \/ s[2] >= r[3]

\* The bytes that thread t is through with.
PassedIn(t) ==
  read_begin(t)..((IF pc[t] \in {"cut", "refer", "found"} THEN From(t) ELSE offset[t]) - 1)

Covered(t) == UNION {r[2]..(r[3] - 1) : r \in {s \in referred : s[1] = t}}

\* "Once the chunk boundary is defined. The code computes SHA1 hash of the
\* chunk, adds in the map with reference count" (lines 424-425): a thread is
\* through with no byte that is in no chunk of the table.
EveryChunkIsHashed == \A t \in Threads : PassedIn(t) \subseteq Covered(t)

\* What is passed over without being hashed are whole chunks of max_ bytes,
\* the forced cuts: every other byte a thread has read is in the table.
OnlyForcedCutsAreSkipped ==
  \A t \in Threads :
    LET lost == PassedIn(t) \ Covered(t)
    IN \A n \in lost : \E a \in lost :
         /\ n \in a..(a + max_ - 1) /\ a..(a + max_ - 1) \subseteq lost
         /\ LET h == Hashes([k \in 1..max_ |-> disk[a + k - 1]], max_)
            IN \A m \in min_..max_ : h[m] % backup_divisor_ # 0

\* When the threads are done their regions meet: a byte that none of them has
\* read is one of the last kReadSize, and what two of them have read lies less
\* than a buffer behind the end of the first one's region.  A region that does
\* not begin where the device can read has ended the process before.
RegionsMeet ==
  (\A t \in Threads : pc[t] = "done") =>
    /\ \A n \in DOMAIN disk :
         (\A t \in Threads : n \notin PassedIn(t)) => n >= DiskSize - kReadSize
    /\ \A t, u \in Threads : t < u =>
         PassedIn(t) \cap PassedIn(u) \subseteq read_begin(u)..(read_end(t) + kReadSize - 1)

\* The final numbers, which no thread disturbs any more, are about the bytes
\* that were hashed: twice where regions overlap, and not where a cut was forced.
FinalNumbersExact ==
  final # NoOne =>
    /\ final.data_size = SumFunction([t \in Threads |-> Cardinality(Covered(t))])
    /\ final.data_size_after_dedup = SumFunction([c \in {OnDisk(r) : r \in referred} |-> Len(c)])
    /\ final.total = final.non_one + final.only_one
    /\ final.least <= final.most /\ final.percent \in 0..100
    /\ final.most = 1 => final.percent = 0
    /\ final.percent = 100 => final.most > 100
    /\ final.data_size_after_dedup + final.non_one <= final.data_size

\* The program comes to its final numbers, or has died on the way: of a read,
\* of the unguarded table, for want of a single buffer, or of a chunk that
\* recurs too often for the histogram.
Termination == <>(joined \/ aborted)
=============================================================================
