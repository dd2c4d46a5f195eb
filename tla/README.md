# A verification of CPPCodes

The repository is a collection of C++ programs.  A few are small systems with
threads, callbacks or persistent state; most are exercises of one file.  This
directory holds TLA+ models of the systems, operators for the algorithms of the
exercises, the TLC configurations that check both on small instances, and
proofs, checked by TLAPS, of what holds for every instance.

    tlc -config RWLock.cfg RWLock        # one run; PROJECT.json lists them all
    tlapm RWLockProofs.tla               # the proofs

## 1. The system

### Reader-writer lock: `Threads/RWLock.cpp`

*State.*  `lock_state_`, and for readers and writers a count of pending and of
acquired locks, all guarded by `mutex_`; two condition variables.
*Operations.*  `ReadLock`, `TryReadLock`, `WriteLock`, `TryWriteLock`, `Unlock`.
*Program.*  `main` starts readers and writers; each locks, yields or increments
`ds.i`, and unlocks, a given number of times; `main` joins them and asserts the sum.
*Hard.*  `Unlock` wakes one writer or all readers, never both, and a thread that
comes in between the notification and the woken thread's return from `wait`
takes the free lock.  Whether everyone is woken in the end depends on what the
thread that was woken does next.  Wakeups may be spurious.
*Correct when* a writer is alone, the counters are exact, no sleeper is
forgotten, no assert fails, no increment is lost, and the program ends.

### rocksfs: `rocksfs/`

*State.*  A RocksDB database with one JSON record per directory and file, and a
record per data block; in memory the table of open files (reference count,
deleted flag) and the table of descriptors.
*Operations.*  `mkdir`, `rmdir`, `create`, `unlink`, `open`, `close`, `pread`,
`pwrite`, `list_dir`; start-up, which runs `mkfs` on a new database.
*Interactions.*  Each call reads records and writes one `WriteBatch`; `unlink`
of an open file leaves the record, marked, to the last `close` (`lazy_unlink`).
*Hard.*  Sequences of calls on one name through several descriptors; a write
that fails after memory was changed; the end of the process between two calls;
widths of block numbers and offsets.
*Correct when* the database is a tree in which nothing dangles, is shared or is
lost, descriptors keep their file, and reads return what was written last.

### Asynchronous I/O: `AsyncIO/`

*State.*  `inflight_`, the promise of each IO, the kernel's aio context with its
ring of completion events, and the eventfd the kernel signals.
*Operations.*  `ioSubmit`, from the program or from a callback; `iosCompleted`,
which the event loop runs when the eventfd is readable.
*Hard.*  The kernel goes on while the loop thread is between the read of the
counter and the taking of events; callbacks submit while `inflight_` is worked
on; addresses are used again.
*Correct when* each future is fulfilled once, by its own event and in the order
of completion, only what the kernel refused is lost, the loop never blocks, and
chained writes run in order.

### Chunking and deduplication: `BasicDS/CDC`

*State.*  Each thread's region of the disk, its buffer with how much of it is
read, and the position in it; the table
`hash_ref_table_` of hashes with size and reference count, guarded by `mutex_`.
*Operations.*  `File::Read` with the loop of `SafeRead`, `TTTD::Chunkify`,
`DedupTable::HashRefer`, `DumpStats` with its histograms.
*Hard.*  Threads that come upon the same content together; thread 0, which goes
through the table in `DumpStats` without the mutex; reads that come back short
or fail; how chunks, buffers and regions end.
*Correct when* each chunk is counted once under what the disk holds there,
chunks keep their bounds and cover what was read, the regions meet, and the
program comes to its numbers and they are about what was hashed.

### Hex: `Hex/src`

*State.*  `board_`, `moves_played_`, `winner_`, and the search's `evaluated_` and
`winner_path_`, which are members.
*Operations.*  `PlayerPlayed`, which ends in a search, and `IsGameOver`.
*Hard.*  The depth-first search has to find every chain, to take back every
dead end, and to leave nothing for the next search.
*Correct when* there is a winner exactly when a player's edges are joined, the
path is a chain, and a full board has a winner.

### City database: `interval-tree/city`

*State.*  Cities by name and by key, two interval maps from numbers to keys with
the bounds of their ranges, the two stacks of the evaluation, a file.
*Operations.*  `addCity`, `serialize`, `deserialize`, the constructor, `query`.
*Hard.*  A query goes through tokens, a postfix translation and stacks that
live as long as the database; keys are given out anew when a file is loaded.
*Correct when* the indexes hold exactly the cities, and a query answers what its
tokens mean.

### Exercises

| Component | What it does | Correct when |
|---|---|---|
| `BasicDS/List/check_circle.cpp` | finds a loop in a list with two iterators and cuts it open | the list is the one that was built; the walks end |
| `date` | difference of two dates | it is the number of days |
| `BasicDS/divide-conqure`, `Tree/PriorityQueue.cpp`, `Stack` | quicksort, quickselect, heaps, a sort between two stacks, Hanoi | the result is sorted; no disk on a smaller one |
| `BasicDS/DynamicProgramming`, `Backtracking`, `temp.c` | change, knapsack, subsets of a sum, settling of debts | nothing is better, nothing is missed |
| `BasicDS/Tree` | insertion, inorder and breadth-first walk, height | a walk meets every node once, in order |
| `SPOJ/prime1` | primes of an interval, three times | exactly the primes |
| `MetaBatchesMapInputIterator`, `Iterator` | iterators over the vectors of a map, a list, a range | they meet the elements in order, up to an empty vector |
| `Interpretor/part-1` | a calculator | the value is that of the line, from left to right |
| `BasicDS/String` | edits in place, comparisons, permutations, the Rabin-Karp search | each is what its name says; no match is passed over |
| `BSW.h`, `FixedSizeChunking.h` | two chunkers that the program does not use | chunks keep their bounds |

## 2. Modules

| Module | Models | Kind |
|---|---|---|
| `SharedExclusiveLock` | what the lock promises | abstract specification |
| `RWLock` | class `RWLock` | detailed specification |
| `RWLockMain` | the program around the lock | composition, with fairness |
| `RWLockProofs`, `RWLockMainProofs` | | theorems about the two |
| `FileTree` | what rocksfs promises of names and descriptors | abstract specification |
| `RocksFS` | `rocksfs.cc`, its two tables and the database | detailed specification |
| `RocksFile` | `rocksfile.cc`: the blocks of one file | operators |
| `FileStore` | `FileTree` with the contents of the files | abstract specification |
| `RocksFSData` | `pread` and `pwrite` through descriptors, on `RocksFS` and `RocksFile` | composition |
| `RocksFSProofs` | | theorems about `RocksFS` and `RocksFSData` |
| `Futures` | what the I/O engine promises to who submits | abstract specification |
| `AsyncIO` | class `AsyncIO` against the kernel | detailed specification |
| `AsyncIOMain` | `AsyncIO/main.cpp`, which extends `AsyncIO` | composition |
| `AsyncIOProofs` | | theorems about the two |
| `TTTD` | the chunker and its rolling hash | operators |
| `Dedup` | the threads, the table and its mutex, on `TTTD` | composition, with fairness |
| `DedupProofs` | | theorems about `Dedup` |
| `Hex` | `HexBoard` | detailed specification |
| `HexProofs` | | theorems about `Hex` |
| `CityDB` | class `CityDB`, its tokens and its file | detailed specification |
| `CityDBProofs` | | theorems about `CityDB` |
| `CircularList` | `check_circle.cpp` | detailed specification |
| `Dates`, `Sorting`, `Optimizing`, `Trees`, `Primes`, `Batches`, `Iterators`, `Strings`, `Chunkers`, `Calculator` | the algorithms | operators |
| `Exercises` | runs `CircularList`, or `CityDB`, or chooses an input of one algorithm; reference definitions and properties | composition |
| `MCExercises` | the cities, ranges and queries that `Exercises` is checked with | instance |
| `ExercisesProofs` | | theorems about `CircularList`, `Dates` and `Primes` |

**RWLock.**  A member function holds `mutex_` from its first line to its return,
except inside `wait`.  So a call is one action, or two if it sleeps: `ReadLock`
up to `wait`, `ResumeRead` from there on.  `pc[t]` tells where thread `t` is;
the wait sets of the two condition variables are the threads that are
`asleepRead` and `asleepWrite`.  `notify_one` moves one sleeper to `woken`, or
nobody when there is none; a woken thread competes for `mutex_` with every
other.  Users follow the protocol (no recursive locking, no unlock without a
lock), as the program's do; the class does not check it.  A failed assert sets
`aborted`, after which nothing happens.

**RWLockMain** runs the lock's actions in the order of `ReaderFunc` and
`WriteFunc`, with `++ds.i` as a read and a write.

**RocksFS.**  rocksfs is sequential and writes one batch per call, so a call is
an action.  Paths are sequences of names: `path_convert` removes the spellings.
`WriteFails` is a batch that RocksDB refuses; `Restart` is the end of the
process and a new start.  A batch that was written survives: what a machine
crash does to a log that was not synced is not modelled.  A new key is a key
that is not in use: the code hashes the path and the time in nanoseconds.
`open_file_table` maps a key to the count and the flag of its `rocksfile_impl`,
and descriptors to keys; that the impl is found again under its key is what
`OpenFilesCounted` checks.

**RocksFSData** adds the data: `pwrite` and `pread` find the key of a descriptor
and go to the blocks under it.  The blocks are those of **RocksFile**: numbers of
2^`BlockBits` values and offsets of 2^`OffsetBits`, cut off as `uint32_t` and the
64-bit types are, with a request's bytes as one value.  Deleting a file leaves
its blocks in the database, as the code does (two `TODO`s).  What keeps them from
the next file of the name is `calc_key` alone: here a key is not given again as
long as blocks are stored under it, since the time in its hash has gone on.
That the clock it takes starts again with the machine is not modelled.
`written` is a history of what each block of a file was last given.

**AsyncIO.**  One action per step of the loop thread at which the kernel or a
callback can come in between.  `running`, `ring` and `unsignalled` are the
kernel's: it puts an event in the ring before it increments the eventfd, which
is the order of the kernel's `aio_complete`.  An IO is its address; the address
is free again once the callback has returned.  **Futures** is the engine without
its counter, batches and `inflight_`: the device works on requests, is done with
them in some order, and one callback after the other runs.  A submission may be
lost, but only when the context is full.  In **AsyncIOMain** the fourth IO may be
built at the address of the third, which is over and destroyed then;
`OverlappingWritesOrdered` is about the two as long as both are there.

**TTTD and Dedup.**  `Chunkify(bytes, size)` is the loop of `tttd.h` by what it
finds: the first byte at which the main divisor divides the hash, the last one
for the backup divisor.  The hash is computed as the code computes it: nothing
is ever pushed into `seen_`, so its window never slides.  A thread's step is one
`pread` of the loop of `SafeRead`, a cut, a half of `HashRefer` (find; then
insert or count) or a dump.  The device reads from and up to multiples of
`Align`, any such part of what is asked for, or fails, which the assert of
`File::Read` turns into the end of the process.  SHA-1 is injective here: the key of a chunk is its content.  `DumpStats`
reads the table without `mutex_`; that the process may die of it is a choice of
`Refer`; so does a dump of an empty table (a division by zero) or of a chunk with
more references than the histogram has ranges for.  `final` is what `main`
prints after it has joined the threads.

**Hex.**  A move is an action that begins a search; the search goes on in small
steps: a start (`NextStart`), a call for the first neighbor in the order of
`kDirections` that is not skipped (`Enter`), a return (`Return`).  `calls` is the
stack of the calls that have not returned, next to `winner_path_` and `evaluated_`.
No move comes in before the search is over.

**CityDB.**  An interval map is a function from numbers to sets of keys, and
`indexCreate` is what one more city makes of the two maps and their bounds.
`load` gives out keys in the order of the names, and is a fold of `indexCreate` over
the file.  Tokens
are records; `recursive_decent` is a fold of `Shunt`, and `query` one of
`Evaluate`, over the members `tokenStack_` and `resultStack_`.  The missing
return of `addCity` is a choice between going on and not.  The class is a state
machine of its own, `SpecCity`, which the theorems are about; it is checked as
one of the programs of `Exercises`.

**Exercises.**  The programs of one thread.  A behaviour runs `CircularList` or
`CityDB`, step by step, or picks one input
of one algorithm; the properties compare the operator with a definition that
does not search: sorted sequences, sums over subsets, divisors, day numbers,
bijections.  A text of the calculator is a sequence of tokens, with one token
for any character that begins none; its `int32_t` has 8 bits.  Strings are
sequences of signed chars, and the rolling hash has 3 bits and any of four
tables of two characters, with and without collisions.

Where the code leaves the language, an operator gives the set of what may come of
it.  `print_prime` gives the numbers it prints, or `Died`: the mark of an even
composite end is written outside the vector, through a null pointer if the
vector is empty, behind its memory if its places fill the words of a
`vector<bool>`, and to spare bits of the last word otherwise.  Every call of the batched
iterator's `operator++` that moves it ends without a return, so `Increment` gives
the next position, or `Lost`, and `Walks` all the walks there may be.

## 3. Runs

| Run | Instance | Shows |
|---|---|---|
| `rwlock` | 5 threads | types and state as the counters say, no failed assert, exclusion, no lost wakeup, no overtaken writer, refinement of `SharedExclusiveLock` |
| `rwlock_main` | 2 readers, 2 writers, 2 iterations | no lost increment; the program ends |
| `rocksfs` | 2 names, depth 2, 3 keys, 2 descriptors, failing writes, restarts | the database is a tree, counts are exact, deleted records go with the last close, refinement of `FileTree` |
| `rocksfs_lazy_unlink` | the same, 2 keys | *violated*: the assert of `lazy_unlink` |
| `rocksfs_data` | 2 names, 2 keys, 2 descriptors, 2 blocks of 2 bytes, 2 values, restarts | reads return what was written last to that file; refinement of `FileStore`: a new file is empty, a write changes one file |
| `asyncio` | 4 IOs, room for 3 | `inflight_` is exact and no assert fails, events are counted, admitted IOs complete, refinement of `Futures` |
| `asyncio_main` | 4 addresses | chained writes are ordered; `main` returns |
| `hex` | 9 hexes, any order of moves by either player | a winner is found exactly when there is one, with a path; a full board has one; no failed assert |
| `dedup` | 2 threads, disks of 4, 10, 12 and 16 bytes of 3 values that recur, buffers of 4, alignment 2, chunks of 2 or 3, a histogram up to 5 | the table is exact, chunks keep their bounds, only forced cuts are passed over, the regions meet, the final numbers are about what was hashed, the program ends |
| `dedup_forced_cut` | the same | *violated*: every chunk is hashed and counted |
| `exercises` | lists of up to 7 nodes; 2 cities, overlapping and empty ranges, queries of up to 3 comparisons, malformed ones too; sequences of up to 5 elements, values up to 9, intervals that begin up to 30 and end up to 40, at 66 and at 67, dates from 1899 to 2004, formulas of up to 3 numbers, any 4 tokens, strings of up to 4 chars, texts of 5 and matches of 2 | the list is restored and `main` returns; exact indexes, and queries that mean what they say and leave nothing behind; each exercise is correct in the sense of section 1 |
| `exercises_all_primes` | the same | *violated*: `prime1.cpp` prints every prime of an interval |

*Why the bounds are enough.*  Five threads give two readers inside or asleep
next to two writers and a thread that barges in; the lock tells no thread from
another, and the proofs cover every number.  Two names at depth 2 give siblings,
a directory with content and a file recreated under its name while the old one
is open; three keys let all of these exist at once; two descriptors share a
file or not.  Four IOs in a context of three give a refused request and a
batch of several events with submissions from inside it.  Two keys and two
descriptors let a file be written while another file has its name, and a
third file come after both; two blocks give a hole and a request over both.

Nine hexes have chains with bends, dead ends and loops.  The disk's content
recurs with a period that the regions do not share, so that both threads meet
the same chunk; its four sizes give a disk smaller than a buffer, regions that
overlap, that do not begin on a multiple of the alignment, and that are a
multiple of the buffer; with `max_` next to `min_` a chunk is cut by each of the three
rules.  The interval from 2 to 66 has a vector of just one word.  The other
exercises are small enough for every input in the bound, and large enough for
both sides of each branch.

*Type invariants.*  `TypeOK` is a conjunct of the invariant that tells most of
the state (`StateExact`, `NoUpdateLost`,
`OpenFilesCounted`, `ReadsReturnWritten`, `InflightExact`, `WinnerPathIsChain`,
`TableExact`, `IndexExact`).

*Deadlock* is checked except where the program ends or an assert may end it.

*Fairness.*  `RWLockMain` assumes that the scheduler runs each thread that is
not asleep and `main`: weak fairness per thread.  It assumes nothing of the
order in which woken threads get `mutex_`, and nothing of spurious wakeups.
Termination holds since the iterations are bounded; unbounded users could
starve a woken thread.  `AsyncIO` and `AsyncIOMain` assume that the kernel
completes and signals what it admitted and that the loop thread runs; nobody
has to submit.  `Dedup` assumes the same of its threads and of `main`, and that
the device does not answer `EAGAIN` for ever; `mutex_` may go to any thread that
waits, for each has a bounded number of chunks.  In
`Exercises` the one thread of the circular list goes on; nobody has to call `CityDB`.

## 4. Proofs

Each theorem, but for those about dates and primes, is `Spec => []Inv`,
`Spec => [][A]_vars` or `Spec => Abstract!Spec` of the specification that TLC checks (of `SpecCity` and
`SpecList`, whose steps are steps of `Exercises`), for every value of the constants that the named
assumption of its module allows.  Each rests on an inductive invariant `IInv`,
which is proved to hold initially and to survive each action in a lemma of its
own; TLC has checked each `IInv` on the instance of the module's run before.

| Theorems in | Assuming | State for every instance |
|---|---|---|
| `RWLockProofs` | `ThreadsAssumption` | `StateExact`, `Exclusion`, `NoLostWakeup`, `WriterNotOvertaken`, refinement of `SharedExclusiveLock` |
| `RWLockMainProofs` | `MainAssumption` | `NoUpdateLost` |
| `RocksFSProofs` | `RocksFSAssumption` | `EntriesResolve`, `OneLinkEach`, `OpenFilesCounted`, `DeletedRecordsGoWithLastClose`, refinement of `FileTree` |
| | that and `RocksFileAssumption` | `ReadsReturnWritten`, refinement of `FileStore` |
| `AsyncIOProofs` | `AsyncIOAssumption` | `InflightExact`, `EventsCounted`, refinement of `Futures`; `OverlappingWritesOrdered` |
| `DedupProofs` | `DedupAssumption`, `TTTDAssumption` | `TableExact`, `ChunksBounded`, `OnlyForcedCutsAreSkipped`, `RegionsMeet`, `FinalNumbersExact` |
| `HexProofs` | `HexAssumption` | `WinnerPathIsChain` |
| `CityDBProofs` | `CityAssumption` | `IndexExact`, `AnswersAreMeant`, `QueriesLeaveNothing` |
| `ExercisesProofs` | `MaxAssumption` | `ListRestored`, and `PointersHold`: no null pointer is followed |
| | `NoReturnAssumption` | `IsDifference` of any two dates, which is `DifferenceIsDays` without its instance |
| | none | `PrintsPrimes` of every interval, which is `SievesPrintPrimes` without its instance |

**The lock.**  `IInv` of `RWLockProofs` is the conjunction of the invariants.  None
is inductive alone.  Exclusion rests on `lock_state` agreeing with who is inside;
that agreement rests on `reader_acquired` being exact when the last reader
leaves; and `NoLostWakeup` needs `writer_pending` to be exact, since `Unlock`
wakes a writer when the counter is positive and the readers only when it is
zero.  The lemmas follow the code: what `Goto` does to the set of threads at a
place and its cardinality, the tails of the two lock calls, going to sleep,
`Unlock` with and without freeing the lock.

**The program around it.**  `RWLockMainProofs` takes over the lock's invariant
by instantiating its proofs: every step of a thread is a step of the lock or
leaves it alone.  To this it adds that a thread stays with its own calls, that
it increments only while it is inside, and the exact value of the counter: the
number of pairs of a writer and an iteration that the writer has behind it.
The last is what the assert of `main` at the end needs.

**rocksfs.**  A record is found by a walk from the root, so that one changed
record could change where every path leads.  The proof is therefore about a
database as a value: `Walk(d)` is `namei` in the database `d`, `Good(d)` says that no
entry dangles, no record is shared, none is lost and directories name
themselves and their parents.  Three lemmas carry it: adding a record where
no path led (`AddedWalks`), erasing an empty directory or a file (`ErasedWalks`) and
dropping a deleted record (`Dropped`) change the walk along the one path that was
given, and no other; and they leave the database good.  Each is an induction
over the length of paths, by the least path for which the claim fails.  That no
other path leads to the changed record is `WalksApart`: in a good database two
paths never end at the same key.  With that, `OneLinkEach` and the refinement
are read off the walks.  `OpenFilesKnown` is the part about the two tables: a
count is the number of descriptors, the impl of a file with none is as if it
had never been, and an open file whose record is marked knows it.  The last
conjunct is what makes the last close erase the record; its converse is false,
which is the finding of `rocksfs_lazy_unlink`.

**The data of files.**  The second part of `RocksFSProofs` adds that the blocks under every key, also
one that no file has any more, are those that were written there, each in its
place (`BlocksHoldWritten`).  That the loops of `write` and `read` keep and use this is
said by lemmas on a request of whole blocks: its first and last block number,
that none between them is left out or met twice, that the batch of `write` has
each block once with its offset, and that `read` gives the blocks up to the first
hole.  `RocksFileAssumption` leaves out requests so far behind that a block number or
an offset is cut off to its width: there a read meets another block
(section 5), and the theorems would be false.  A new file is empty since its key
has no blocks (`NameSpaceKeepsData`), which is `calc_key`'s doing.

**Asynchronous I/O.**  The events that the loop has not delivered are the rest
of its batch and the kernel's ring.  `IInv` says that these and `running` are
exactly the IOs with an open promise, each at one place (`UndeliveredIsPending`),
that the batch in hand is as long as its count (`BatchAtHand`), and that the one
fulfilled promise is that of the callback at work.  `EventsCounted` is then
inductive with it.  For `AsyncIOMain` the same invariant is used again, with what
`main` does between the steps; it adds that there is one third IO and that it
is over when the fourth is built.

**Deduplication.**  `TableExact` needs to know what a buffer holds of the disk, piece
by piece (`BuffersHoldDisk`), and that what `find` told is still true when the table
is changed, which is what `mutex_` is for (`LookupHolds`).  `OnlyForcedCutsAreSkipped`
rests on a lemma that the hash of a byte depends on the bytes before it in
the chunk alone, by induction over the recursive function `Hashes`.
`DedupAssumption` asks for buffers of at least two bytes per thread: the size of
a region is rounded down and each region leaves out its last byte, so that
fewer than `2 * kThreads` bytes lie behind the last region.  `RegionsMeet` needs
them to be within a last buffer.  The code has 4 threads and 100 MB.

`FinalNumbersExact` is about sums.  The library's folds are recursive functions;
that such a function exists is an induction over cardinality (`SumsExist`), after
which a sum can be taken element by element (`SumUnfolds`).  The two ways of
counting, over the contents of the table and over the threads, are two ways to
take apart one set of bytes, each byte with its thread: by the content it was
hashed as (`HashedAs`) and by the thread it belongs to (`CoveredBy`).  `FinalIsDumped`
says that the last dump is of a table that no thread changes any more.  The
attempt at the proof corrected the property: the percentage is rounded up, so
that it may be 100, once a chunk has more than 100 references.

**Hex.**  The argument is that of a depth-first search.  The path is the calls
that have not returned (`PathIsCalls`); it is a chain, and a hex that is marked but
no longer in the path touches marked hexes only (`Marked`).  So when a start
fails, what it has marked is a closed set without a hex at the far edge, and
the start is hopeless (`StartsFailed`); when all are, their closed sets together
show that the player's edges are not joined.  `OthersAreApart` carries that
over from move to move, since a move changes the hexes of one player only.
`IdleIsClean` and `MovesCounted` are what the next search and the asserts rely on.

**The city database.**  The loops of the code are folds over sequences.  A fold
is taken apart once for a sequence and an element appended to it (`FoldOfAppend`);
what holds of it then goes by induction over appended elements.  For the indexes
this is `CreateKeepsExact`: `indexCreate` keeps what the two maps hold and how their
bounds enclose it (`Holding`, `Bounding`), whether it is called for one city or from
the fold of `load`.  `Keyed` keeps keys and names in step, for `load` by the one
increasing enumeration of a finite set of numbers (`Enumeration`).

For queries the induction goes over the comparisons of a well-formed query.
After each comparison something is on the stack of `recursive_decent`: at most one
`||` that waits for the end, at most one `&&` or comparison operator above it.  What
the output so far leaves, when `Evaluate` goes through it, is the set of cities
that meet an alternative that is over (`MeetingEarlier`) and the set of those that
meet the current one so far (`MeetingLast`).  `ComparisonIsRead`, `NextWithAnd` and
`NextWithOr` are the steps, `AlternativeCloses` and `EndCloses` say what is flushed at a
`||` and at the end: this is where `precedence` has to put `&&` before `||`, and both
behind the comparisons.  That the query of an index meets the cities that a
comparison means (`ComparedMeets`) uses that the bounds are exact.  The proof does
not need empty stacks: whatever operands malformed queries have left stay where
they are below those of the query.  What `answer` says stays
true until a call changes the cities, which clears it (`AnswerMeant`).

**The circular list.**  The proofs are about `CircularList` by itself (`SpecList`),
whose steps are those of the run `exercises`.  An iterator that made `u` steps
on a list that is closed at `link` stands at node `u` less some laps of the
circle (`After`).  When the two iterators of `MeetingPoint` meet, the one has made
twice the steps of the other, so that the number of steps is a number of laps
(`MetAfterLaps`).  From there an iterator that goes on and one from the beginning
come to `link` together (`BackAtLink`), from the last node and from the one before
`link` (`BeforeLink`), and the link from the last node is the one that is cut.  On
an open list the fast iterator is ahead of the slow one until it is at the end.

**Dates.**  Any two of the dates of 65536 years: the two loops of `date.cpp`, over
months and years, are folds, which `SumStep` takes apart round by round; `ElapsedDaysAre`
adds up the months, `YearsBetween` the years, since a year has a leap day just
when the number of leap years up to it grows (`LeapStep`).  `DifferencesAreDays` goes
through the cases of operator `-`; it names, as the one exception, the pairs of
dates for which the code does not return.

**Primes.**  A number that is not prime has a least divisor, which is prime and at
most its root (`LeastDivisor`); so `prime1.cpp` loses nothing by looking only at
the primes up to the root, nor `prime2.cpp` at the odd numbers that 3, 5 and 7 do not divide.  The sieve of
`prime1-old.cpp` is a loop, taken apart round by round as those of `date.cpp` are: it
may pass over a number that was taken out, because a divisor of that one has taken
out its multiples (`SieveRound`).  `PrimesOfEveryInterval` says of every
interval that the old program prints its primes, that `prime1.cpp` prints nothing
else, and all of them if the end is odd, and that `prime2.cpp` prints all if the
end is even.  For an odd end `prime1.cpp` has a place for every number it marks,
so that its only outcome is to print; for an even one the theorem leaves open
that the process dies or that a prime is missing, as the run
`exercises_all_primes` shows.

**Only model-checked**, and why:

- liveness (`Termination` of the two programs, `AdmittedIOsComplete`, `MainEnds`): it
  needs ENABLED, which the provers do not have;
- `WinnerIsConnected` of `Hex`: it says that two chains never cross and that a full
  board has one, which is the theorem of Hex about the plane and not about the
  search.  What the search has to do with it is `WinnerPathIsChain`, which is proved;
- the properties of `Exercises` other than those of the circular list, of dates and of primes:
  `Batches`, `Calculator`, `Iterators`, `Optimizing`, `Sorting`, `Strings` and `Trees` have RECURSIVE
  operators, for which the provers have no backend, and what a recursive algorithm
  computes for every input is an induction over data.  `Exercises` reaches these
  modules, so that `DifferenceIsDays` and `SievesPrintPrimes` cannot be named in a
  theorem; what they say of two dates and of an interval can, as `IsDifference` and
  `PrintsPrimes`.

## 5. Findings

With a run:

* `unlink` marks the open file before it writes; when the write fails the last
  `close` ends the process in an assert (`rocksfs_lazy_unlink`).
* A chunk that is cut by force, for want of a divisor, in the middle of a buffer
  is returned as not ready and is neither hashed nor counted (`dedup_forced_cut`).
* `prime1.cpp` is to "print all prime numbers p such that m <= p <= n" (line 13), but
  its vector has no place for an even end.  A 2 that is the end is not printed
  (`exercises_all_primes`: the interval from 1 to 2), and the mark of a composite end
  is written behind the vector, for an interval as "4 4" through a null pointer.

Against a comment of the source, seen by the definitions but without a run of
its own: `prime2.cpp` is to "make start and end even" (line 19), but for an odd end
line 26 changes `end` and leaves `even_end` odd.  Then the assert of line 8 fails, or,
below 9, the end is not printed, and for the end 1 it prints 2.

Met while modelling, without a claim of the source to hold them against.  The
models do in each case what the code does:

* rocksfs: a process that ends while an unlinked file is open leaves the record
  in the database for ever, and so do the blocks of every deleted file.  Block numbers are 32 bits wide and offsets 64: a
  read 2^44 bytes behind a stored block meets that block.  `rmdir("/")` on an
  empty root reads a type that `lookup` has not set.  `create` stores a file's
  key and its parent's under each other's name, in fields that nothing reads.
* AsyncIO: the result of `io_submit` is not looked at; an IO that the kernel
  refuses stays in `inflight_` and its future is never fulfilled.  In `main` the
  fourth write overlaps not only the third, which it is chained to, but the
  first two as well, which nothing orders; and `main` may return while those two
  are in flight.
* Dedup: `DumpStats` races with the threads.  A region's last buffer may reach
  into the next region, so that those bytes are counted twice, and up to a
  buffer at the end of the disk is read by nobody; a disk of less than a buffer
  makes `DumpStats` divide by zero.  A region whose beginning is not aligned ends
  the process, for `O_DIRECT` reads fail there.  The `SetMinChunkSize` of `BSW` is a
  bound that two more bytes are needed to pass.
* City: `>` takes in its bound and `>=` leaves it out; `20 < T` is read as
  `T < 20`; a malformed query leaves its operand on the stack; `addCity` ends
  without a return.
* Hex: boards of one row, or of 256 and more, are outside what the types and the
  search can take (`HexAssumption`).
* Date: month and day count even when the years differ, so that of two dates
  each may be later than the other, and their difference never returns.
* Calculator: the `default` case is spelled `defult`, so that an unknown character
  is not reported; the token before it comes again and meets an assert.
* Strings: outside ASCII a `char` is a negative index, of a bitset, which throws,
  or of a vector.
* Exercises: `SubsetSum` reads the word behind its vector; the batched iterator
  reads behind an empty vector, and its `operator++` ends without a return whenever it
  moves, which a compiler may turn into anything;
  `DPCoin` leaves its table when there is no change; `IsEmpty` of a tree asks its
  root for children; `BinaryTree.h` lacks a
  parenthesis in `PreorderIterator`, and the second loop of
  `MetaBatchesMapInputIterator/test.cpp` (line 33) does not compile either.

## 6. Not modelled

* `serialize`: a bison grammar and a flex scanner.  The state is that of the
  generated parser, and the actions print.
* `pcap`, `extern-c`: calls of a library in a row; a C program that calls a C++
  class.
* `base64.cc`, `sha1.c`, the CMake modules: third-party.
* The benchmark in `interval-tree/city/main.cpp`, the console loop and display of
  Hex, the tests in the `main` of `rocksfs.cc`: they call what is modelled.
* In `BasicDS/CDC/main.cpp`, a `posix_memalign` that fails (the thread returns
  with its region unread) and a `pread` that returns 0, which would be repeated.
* Code that is never reached: `iosSubmit` (`#if 0`), `blocks_count`,
  `List::PushFront`, `PreorderIterator`, which does not compile.

## 7. What is left

1. Proofs: that two chains of `Hex` never cross; of the exercises, those whose
   algorithm could be written as steps instead of a RECURSIVE operator, quickselect
   and the sort between two stacks first.
2. Models: nothing of weight is left that a model would show more of than the
   code.
