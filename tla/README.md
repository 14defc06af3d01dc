# A formal model of erigon-seg

`erigon-seg` reads and writes Erigon's immutable "segment" files. A *file set* is a `.kv`
of alternating key and value words in ascending key order, an optional `.bt` (an
Elias-Fano array of key offsets plus every M-th key, the di-nodes) and an optional `.kvei`
(a Bloom filter over salted key hashes). This directory holds TLA+ modules translated from
the Rust source, TLC configurations that check them on small instances, and proofs that
TLAPS checks for every instance.

## 1. Inventory

| Component (source) | State | Operations | What is hard about it | What makes it correct |
|---|---|---|---|---|
| Point lookup (`reader.rs`, `btree.rs`) | the mapped files, the active salt, the `OnceLock` of di-nodes, per call a search range | `open`, `enable_bloom`, `get`, `iter` | several threads share a reader and race for the first parse; half-open ranges, last partial block; a salt validated by samples only | `get` answers with the stored value exactly when the key is stored, and always answers |
| Salt search (`reader.rs:150-208`) | one shared `AtomicU64`, a cursor per worker | `find_salt`, hints | workers race to report; `checked_add` at the end of `u32`; 16 samples here, 64 in `enable_bloom` | a reported salt passes the samples; one is found iff one exists; all workers stop |
| Merge (`writer/merge.rs`) | heads, heap, cursors, the output writer | `merge` | equal keys in several inputs, order of inputs, the deletion rule | sorted output, newest wins, deletions dropped exactly in merges from step 0 |
| Stack (`stack.rs`) | readers oldest to newest, one salt | `open`, `open_dir`, `get` | ordering by parsed step range, one hash for all readers, files being replaced by their merge | newest wins; agrees with `merge` on which file is newest |
| File-set writer (`writer/domain.rs`, `seg_writer.rs`, `bt_writer.rs`, `kvei_writer.rs`) | word counters, temporary word file, `finished` flag, three final files | `create`, `add`, `finish`, drop | an I/O error between two writes, a retry, a crash between two files, stale siblings of an earlier generation | a `.bt`/`.kvei` next to a `.kv` describes that `.kv`; pairs stay aligned |
| Residency (`reader.rs:210-400`, `stack.rs:157-234`, `util.rs`) | pinned mappings, `RLIMIT_MEMLOCK` (process wide) | `advise_*`, `preload_*`, `lock_*`, `unlock_*`, `raise_memlock_limit` | partial failure of a multi-file lock; read-then-set of a process-wide limit by two threads | after Ok all files are pinned, an unlock releases all, also after a failed lock; without the privilege the limit only goes up |
| Seg codec (`seg.rs`, `writer/compress.rs`, `writer/huffman.rs`, `bitwriter.rs`) | bit cursor, pattern and position tables | `next`, `skip`, `reset`, encode | nested tables at 9 bits, word spans, byte alignment | decode inverts encode; `skip` lands where `next` does |
| Elias-Fano (`eliasfano.rs`, `writer/ef_builder.rs`) | lower bits, upper bits, jump table | `add_offset`, `build`, `get` | boundaries of quanta and super-quanta, `u64` width | `get(i)` is the i-th offset added |
| Bloom filter (`bloom.rs`, `kvei_writer.rs`, `hash.rs`) | bit array, three keys | `add_hash`, `contains_hash` | modulus that is no multiple of 64 | no false negative |
| Varint (`varint.rs`) | none | `put_uvarint`, `uvarint`, `read_uvarint` | ten-byte boundary; interrupted reads use up rounds | decode inverts encode; what is too long is refused |
| Hash (`hash.rs`), salt files (`salt.rs`), errors and exports (`error.rs`, `lib.rs`) | none | | pure, or one read | not modelled, see section 6 |

Readers and the stack only read; the writers only write new files; they meet on the disk.
A `KvStack` owns its `KvReader`s and calls their `get_hashed`; `merge` owns one `Seg`
cursor per input and a `DomainWriter`; `DomainWriter::finish` builds the `.bt` and `.kvei`
by reading back the `.kv` it has just written.

## 2. Modules

Every module models one part of the crate; a module named `MC...` gives a module its small
instances, a `.cfg` its constants, a module named `...Proofs` holds theorems about it. Two
proof modules hold those of more than one: `KvStackProofs` of `KvStack` and of `Memlock`, which are both
about `stack.rs`, and `HuffmanProofs` with `SegWordsProofs`, which extends it, those of `Varint`, `Huffman` and
`SegWords`: what is written about codes, and what is read by them.

| Module | Models | Composed with |
|---|---|---|
| `PointLookup` | what a point lookup promises; the abstract specification | implemented by `KvReader` and by `KvStack` |
| `KvReader` | `enable_bloom` and `get` of one file set, several threads | instance of `PointLookup` |
| `KvStack` | the stack, its lookups, and files being merged under it | instance of `PointLookup`; one reader is one step, as `KvReader` allows; one merge writes what `Merge` shows it writes |
| `Merge` | the heap loop of `merge` | |
| `SaltSearch` | `find_salt_with_hints` and its workers | |
| `Bloom` | the bits of a filter, its file, cut off anywhere, and `contains_hash` | |
| `KveiSearch` | a `.kvei` from `build_kvei_from_seg` to `enable_bloom` | extends `SaltSearch` and `Bloom` |
| `FileSet` | the writers of the three files, with failures | |
| `Memlock` | `lock_*`, `unlock_*`, `raise_memlock_limit` of a stack | |
| `Varint` | `put_uvarint` and both decoders | used by `Huffman` and `SegWords` |
| `SegWords` | the words of a `.kv`: the spool, both writers, the cursor, `KvIter` | takes codes as given: `Huffman` |
| `Huffman` | codes, dictionary, tables, decoding | |
| `EliasFano` | the offsets of a `.bt`, builder and `get` | |
| `BtFile` | both layouts of a `.bt`, written, cut off anywhere, opened and parsed | extends `EliasFano` |

### KvReader

State: the file set (`count`, `keys`, `odd` for a last key without a value, `layout` for the kind of
`.bt`, `fanout` for M, `accepted` for the hashes in the filter), the active `salt`, `nodes`
for the `OnceLock`, and per thread `pc`, `key`, `lo`, `hi` and the reply. One action is one
step between two accesses to what threads share, or one round of a loop: `EnableBloom`,
`Get`, `Excluded` (the filter says no), `Dispatch`, `StartParse` and `Parse` (the `OnceLock`
closure), `NarrowWithNodes`, `UpperStep` (a round of `upper_bound`), `ProbeStep` (a round of
the bisection over keys), the scan of a file without an index, `Finish`. `EnableBloom` takes
`&mut self`: it runs only while no thread is in a call.

A hash is a value of a small set, and which key has which hash under which salt is a
constant: keys collide, and a salt other than the builder's may pass the samples.

The writers of the `.bt` and the `.kvei` take `words_count() / 2` keys (`Pairs`), so that a last key
without a value is in neither. A lookup by the index comes to those keys only, a scan to all of them
(`Reach`); the contents of the abstract lookup are the keys a lookup comes to.

### Merge

One action is one statement of the loop of `merge`: loading an input, taking the top of the
heap (`Pick`), taking another input with the same key (`GatherSame`), the break
(`Gathered`), reading on in the inputs taken from, dropping the deletion or writing the
winner, and `Finish`. A file is a function from keys to values, a cursor the set of keys it
has not read. `DomainWriter::add`'s check is kept: an unsorted merge would stop in
"rejected".

### SaltSearch, Bloom, KveiSearch

Every worker's load of the shared cell, test of a candidate, `fetch_min` and stride is a step
of its own. The cell is one variable: all its operations are on one atomic, for which
relaxed order gives a single modification order, and the caller reads it after the scope has
joined the workers. `Bloom` sets the bits of one hash per step, word by word, writes the file
from its words, and opens whatever beginning of it there is: complete, cut in the words, cut
before them, or not a filter at all. `KveiSearch` puts the two together: `AddNextKey` hashes
the keys of the `.kv` one after the other under the builder's salt, `Call` samples keys (by
the `.bt`, or the first ones, an odd last key among them when there is no `.bt`), and which salts pass
is what `contains_hash` says of the samples. The filter may also be another program's, with any bits at all.

### FileSet

One action is one effect on the disk: `Create`, `AddKey` and `AddValue` (the two words of
`add`), `DropWriter`, `Flush`, `CreateKv`, `WriteKv`, `RemoveTmp`, `OpenKv`, `CreateBt`,
`WriteBt`, `CreateKvei`, `WriteKvei`, `ReturnOk`. Each that writes may fail, and `Kill` stops
the process between any two. A failed `add` leaves a torn word and a usable writer, as the
code does; from a torn word on the copy may do anything. A key too long for a `.bt` node is
one of the failures of `CreateBt`.

### KvStack

A file carries its name's range, its pairs and its filter. Opening sorts the files by
`step_key`; `resolve_and_enable` enables those filters whose sample passes. `Get` starts on
the stack as it is and `Consult` asks one reader at a time, newest first. `Compact` is the
caller's: it merges files that follow one another, listed in any order, names the output after the
steps, and opens the stack again; a lookup under way stays on the old stack.

### Memlock

Per thread: which files the call still has to handle, in the code's order, and what it has
read of the limit. `EnterOnce`, `OnceRead`, `OnceSet` are the `OnceLock` of
`raise_memlock_soft_once`; `RaiseRead`, `RaiseSoft`, `RaiseHard`, `RaiseReread` the four system calls
of `raise_memlock_limit`. `SetLimit`, `Bytes` and `Fits` are the kernel's rules.

### SegWords, Huffman, Varint

`SegWords` spools words with their lengths, reads the spool in one pass or, with
compression, in three (`SampleWord`, `CountWord`, `EmitWord`), where a signal may interrupt
any read, and then moves a cursor with `NextWord`, `NextPair` (`KvIter`), `Skip` and `Reset`
in any order. A code is what it stands for and the bits it takes. `Huffman` shows that codes
can be told apart again: it builds the tree from a heap as `build_huffman` does, writes the
dictionary of symbols and depths with varints and a message after it, reads the dictionary
back, builds the nested tables from the depths alone and decodes bit by bit. `Varint` has the
encoding, the decoder over memory and the one over a file, whose rounds an interrupted read
uses up.

### EliasFano, BtFile

`EliasFano` adds offsets, builds the jump tables and reads them, each word a number, with
the code's shifts and masks. `BtFile` writes the nodes, the padding, the array and the footer
cell by cell; `WriteBt` may stop anywhere; `OpenBt` tells the layout and makes the reader's
checks; `Parsed` is `parse_nodes` with its arena and its shortcut for keys of one length.

## 3. Runs, bounds and fairness

| Run | Bounds | What it shows |
|---|---|---|
| `kv_reader_shared` | 2 threads, files of 0-3 keys out of 3, M = 2, with or without an odd last key, 2 salts, all keys sampled | `ImplementsPointLookup` with its fairness: every `get` answers, and rightly |
| `kv_reader_blocks` | 1 thread, 0-6 keys out of 7, M from 1 to 4, 2 samples | `SearchKeepsKey`; `NeverAnotherValue`; `NeverMissed`: of the keys a lookup comes to, a miss only under a salt the samples did not tell from the builder's |
| `merge` | 3 inputs, 2 keys, empty and other values | `MergeCorrect`, `HeadsMatchHeap` (no panic), `NeverRejected` (sorted), `Terminates` |
| `salt_search` | 5 salts, 1-3 workers, asked for 0, 2 or 9; words of 4 bits, filters of 4 and 5, up to 3 keys, the last of them with or without a value, 1 and 3 samples, the file cut anywhere | the least report wins, one is found iff there is one, hints first, every call returns; no false negative; `ActiveIsValidated`: what passes the smaller sample only is not used; `OwnFilterAccepted`: when a filter of this crate is left unused, and that it is by nothing else |
| `file_set` | 2 writers in turn, 3 keys, 2 failures | `OkMeansComplete`; `NoStaleSiblings`, in every state, those after a crash or an error in `finish` included; `TmpCleanedUp` |
| `memlock` | 2 threads, 2 calls, a stack of 2 readers, 3 limits | `OkMeansPinned`, `UnlockedMeansFree`, `LockedAtTheLimit`, `UnprivilegedNeverLowered`, `CallsReturn` |
| `memlock_race` | 2 threads, 2 calls, 1 reader | *violation*, finding 1 |
| `kv_stack` | 3 files of successive ranges or 2 with missing ones, 2 compactions, 1 key, 3 values | `ImplementsPointLookup` over contents no compaction changes, also for lookups under way; `DeletionsKept` |
| `kv_stack_overlap` | 2 files that start at the same step | *violation*, finding 2 |
| `huffman` | up to 6 symbols used 1, 3, 4 or 7 times, bytes of 2 bits, tables of 3, depths up to 4, varints of two groups of 2 bits, messages of 2 | optimal codes, complete tables, the dictionary reads back, it is refused only when a depth or a number is too large, decoding inverts encoding and ends |
| `elias_fano` | words of 8 bits, Q = 2, SuperQ = 8; the arrays and files of `MCBtFile` in both layouts, some cut anywhere; keys of 0-3 bytes where 2 are allowed, M from 0 to 4 | every `get` returns, with its offset; only a legacy file cut in its jumps panics; a file that opens is whole; the nodes are every M-th key |
| `seg_words` | 2 words of up to 4 bytes out of 2, four sets of patterns, bytes of 2 bits, varints of three groups of 2, 2 interruptions | the cursor stays on words, reads them and pairs of them back, no position is missing from the dictionary, `finish` fails only where interruptions leave a length no round to be read in, or for one at the end of the spool |

Why these are enough: two threads are the least that race, and no action of the modules
distinguishes a third. Six keys with M from 1 to 4 include full, partial and single blocks. Three
inputs give a middle one that is neither oldest nor newest. A salt space of five is not
divisible by two or three workers, so that the last strides differ. Two failures allow a
failed retry. In `Huffman`, `EliasFano`, `Bloom`, `Varint` and `SegWords` widths are scaled together (tables of
9 bits to 3, bytes of 8 to 2, words of 64 to 4 or 8, Q and SuperQ of 256 and 16384 to 2 and
8, varints of ten groups of 7 bits to two or three of 2), so that counts and lengths below, at and
above each boundary occur in small instances. Successive ranges in `kv_stack` are what
erigon writes; `kv_stack_overlap` shows what happens otherwise. With its one key `kv_stack` is about
which file answers: a filter in use there has the key or its file has not, and what filters do to
several keys is the question of the `kv_reader` runs and of `StackIsPointLookup`. Where the bounds matter most
the proofs of section 5 do without them. The type invariants of `KvReader`, `Merge`,
`FileSet` and `Memlock` are proved, and so the runs leave them out; those of `SegWords` and
`BtFile` are part of the invariants proved there.

*Fairness.* A thread or worker in a call goes on with it (weak fairness of its own steps: no
blocking other than the `OnceLock`, scheduled by the operating system); a caller need never
call. The loops of one call (`merge`, Huffman's decoding, the building of and the search in
an Elias-Fano array) get weak fairness of their steps. No strong fairness is used.

*Deadlock* checking is off where the program just ends: a merge, a file set, a decoded
message, words with nothing left to read, an array that was refused, or no calls left.

## 4. Findings

1. `memlock_race`: raising "must never lower anything" (`tests/preload.rs:207`) fails when two threads with
   the privilege raise at once, since the limit is read and then set (`util.rs:223-231`).
   `UnprivilegedNeverLowered` is what holds.
2. `kv_stack_overlap`: the merge's newest-wins is said to match the stack's (`merge.rs:4-7`), but of two files whose
   ranges start at the same step `merge` takes the one listed later, the stack the one that ends later
   (`merge.rs:64`, `stack.rs:259-272`). For successive ranges they agree, which is proved
   (`CompactionIsInvisible`).

Also worth knowing:

- "A wrong salt can never cause a missed key" (`reader.rs:112-114`) holds for the keys that are sampled. What holds for all keys a lookup
  comes to is `NeverMissed`, proved as `NoMiss`: a miss takes a salt that is not the builder's and that the
  samples did not tell apart, which is improbable.
- A last key without a value word is returned by `iter` and by the `get` of a file without a `.bt`, but
  missed by the `get` of one with a `.bt`, under any salt, since the index is built from
  `words_count() / 2` keys (`writer/bt_writer.rs:71`). "Each returned key is genuinely present, so a
  correct bloom must contain it" (`reader.rs:478-479`) does not hold of it either: without a `.bt` it may be sampled, the `.kvei` does
  not have it (`writer/kvei_writer.rs:134`), and `enable_bloom` then refuses the filter. `DomainWriter` never writes such a file.
- `find_salt` returns the first hint, or the least salt, that passes 16 samples. `enable_bloom` may refuse it for
  its 64, and then does not go on to the builder's salt: the filter is left unused. That this is the only
  way a filter of this crate is left unused, but for an odd last key, is `OwnFilterAccepted`.
- A lock that fails leaves pinned what it had pinned before (`reader.rs:381`, `stack.rs:215`); `UnlockedMeansFree` shows
  that an unlock releases it.
- A failed `finish` leaves its temporary file (`seg_writer.rs:92`), until a later writer of the path
  succeeds or is dropped (`TmpCleanedUp`). A writer without a salt leaves
  the `.kvei` of an earlier one in place (`domain.rs:98`), and one that fails in between leaves an older
  `.bt` or `.kvei` beside a newer `.kv`: `NoStaleSiblings` says that it is never the other way round.
- After an `add` whose second word failed the writer can be used on, and the pairs that follow are
  shifted by a word (`domain.rs:74`): `OkMeansComplete` then says only that the three files belong together.
- A legacy `.bt` cut off in its table of jumps still opens, since only the regions of bits are
  checked (`eliasfano.rs`); a `get` may then index past its end: the exception in `OnlyCutJumpsPanic` and `OpenedIsWhole`. The footer
  layout is protected by its magic.
- `read_uvarint` counts an interrupted read as one of its ten rounds, and takes an end of the
  spool in a round after the first for damage, although no byte was read ("cleanly at end of input (before any
  byte is read)", `varint.rs:15-16`): one interruption there makes `finish` fail on a sound spool. Elsewhere it takes as many as
  leave no round for the length, and it never writes a wrong file (`FailsOnlyInterrupted`, `ReadsBack`).

## 5. Proofs

The theorems hold for every value of the constants that meets the named assumptions of the modules.

`KvReaderProofs`. The inductive invariant is
`TypeOK /\ FilesOK /\ NodesOK /\ PlacesOK /\ SearchKeepsKey /\ RepliesOK`. `SearchKeepsKey` says of
every thread that its range still contains the key if the file does: `UpperOK`, `ProbeOK` and
`ScanOK`, one for each kind of search. It cannot be had without `FilesOK`: the keys are
sorted, those of the pairs are in the filter under the builder's salt, and an active salt passed its
samples. `NodesOK` and `PlacesOK` tie the kind of search to the kind of file: by nodes only where there is
a footer, by the index only where there is one, by a scan only where there is none. `NodeCountFact` (a node for every M-th key and none beyond) and `MidInRange` carry the arithmetic.
From it follow `SearchCorrect`, `NoAlienValue`, `NoMiss`, `TypeCorrect`, and
`Refinement`: as long as the active salt is trusted, every step is a step of `PointLookup` or
a stutter.

`MergeProofs`. `TypeOK`, `HeadsMatchHeap` and `NeverRejected` are not inductive on their own. The
strengthening says which keys an input still holds (`PendingOK`: exactly those whose round is not
over, and in the current round those not yet taken), that a cursor reads upwards (`CursorsOK`),
which inputs have a pair in hand (`HandsOK`), that the winner is the newest taken so far (`BestOK`) and
what has been written (`OutputOK`). `MergeIsCorrect`, `PrefixIsMerged`, `MergeIsSorted`, `NoPanic` and
`TypeCorrect` follow.

`KveiSearchProofs`. Of the filter: `FilterTypeOK /\ Recorded /\ FileIsPrefix`, the bits of every
hash added are set in their words, and the file holds the first words as they were. A filter
that opens has all its words, so `FilterNeverLies`: it contains every hash that was added, for any
size and any place where the file was cut. Of the search: `Searched` says a worker has tried
every salt of its residue class below its candidate, and returned only for a reason that lasts;
`FoundIsLeastReport` and `CallerKnows` relate the cell to the workers and to the caller. The
residue classes cover the salts (`ClassGap` and `ClassStride` are the arithmetic of strides), whence
`SearchIsComplete`; `LeastReport`, `HintOrder` and `TypeCorrect` follow. Of both together, `KveiSearchCorrect`: the
salts that pass are those for which the filter contains the samples. A sample of an own
filter is a key whose hash was added under the builder's salt, unless it has no value, and so that salt passes both
samples, of which the smaller is a part of the larger when its size divides the other's: `OwnFilterIsAccepted`. `OnlyValidated` is `ActiveIsValidated`.

`FileSetProofs`. `OkMeansComplete` and `NoStaleSiblings` speak of what is on the disk when `finish`
returns. The inductive invariant says what is there at every step before: `RunOK` (what the
writer has done so far and whether it was torn), `TmpOK` (the spool holds the words added), `KvOK`
(the `.kv` is the spool's copy, or an earlier writer's), `IndexesOK` (an index of the current
writer describes the current `.kv`), `SiblingsOK` (the files of earlier writers go together
until this one touches them) and `OrderOK` (no index is newer than its data, and none is this writer's before
its turn, `NotYet`). Theorems: `OkIsComplete`, `NoStale`, `NoTmpLeft`, `TypeCorrect`.

`KvStackProofs`, of the locks. `OnceOK` (one thread is in the `OnceLock`, and after it the soft limit is the hard
one), `HardOK` and `LimitOK` (what a thread has read of the limit against what it is now, without the
privilege), `DoingOK` and `DoneOK` (what a call has pinned or released so far is still so,
unless another call undid it) and `ApartOK` (no call under way is about to undo what another promises).
Theorems: `OkIsPinned`, `UnlockedIsFree`, `LockAtLimit`, `NoLimitLowered`, `LockTypeCorrect`, for any
number of threads, readers and calls.

`KvStackProofs`, of the stack. The hypothesis is `SuccessiveRanges`: the files opened first have ranges, none empty,
no two of which overlap; `kv_stack_overlap` shows that it cannot be dropped. `SortedAscends`
(the stable sort by rank returns every file once, in ascending order) makes `StackOK`
inductive: `Replaced` says the merge of a block takes exactly its place. `WinnerIs` (the merge
takes a key from the last file of the block that holds it, in whatever order its inputs are
listed) and `NewestStarts` (the stack answers from the file that starts last among those that
hold the key) meet in `BlockReplaced`: a key's newest value stays, or it was a deletion that a
merge from step 0 covers. From it `CompactionIsInvisible`, `DeletionsAreKept`, and, with
`LookupsOK` (a lookup under way has passed no file that holds its key, and its stack answers
what the open one does), `StackIsPointLookup`: as long as no filter denies a key of its file, every step is a step of
`PointLookup` or a stutter.

`SegWordsProofs`, of the words. The cursor finds a word again because of what holds of the whole file. The
invariant is `TypeInv /\ SpoolInv /\ FileInv /\ CursorInv /\ ReadsBack`. `SpoolInv` gives the offsets at
which the words of the spool end and says how many of them the pass has read; `DecodeIs` of `HuffmanProofs` (a varint
reads back, whatever follows, `UvarintReadsBack`; with interrupted reads it reads back or fails) then makes `SpoolNext`: every pass reads
the next word, or fails for interrupted reads, and then they have used up its rounds (`RoundsRunOut`). `CountedUpto` says that the dictionary has what
those words need, and with `CodesTakeTurns` (every code of a word was counted) nothing is missing. `FileInv`
says that each word emitted has its codes and its literals at their places (`PlacedAt`), that at one bit there is one code
of a kind at most (`CodesApart`: a position takes a bit, and a pattern, which may take none, is
followed by a position) and that one byte is one literal at most (`LiteralsApart`). Hence
`WordFound`: the walk over the codes sees the spans of `Cover` (`SpansAre`), and they and the
literals make up the word (`CoveredIs`, `AssembledIs`). What recursive functions say is
proved with `Upto`, induction over a set of numbers, which needs no operator as a parameter.
Theorems: `CursorIsOnWord`, `WordsReadBack`, `WordsNeverPanic`, `OnlyInterruptedFail`.

`HuffmanProofs`, of the codes. `TreeKeepsRoots` is the inductive invariant `BuildInv`, for any number of
symbols and any uses. `TreeInv`: the subtrees and the symbols still in line share no symbol
(`Pool`), a subtree has the uses of its symbols, and among its codes no one begins with another and
at every bit of one there is another that parts from it (`IsTree`), so that they leave no gap. `FewInv`
carries the growth of the tree: a root that reaches depth d has at least `FewestUses[d]` uses, every other
root, from depth 3 on, more than `FewestUses[d - 1]` (`Others`), and those made after it more than `FewestUses[d]`;
of the one root alone nothing could be kept. From it `RefusedNeedsHugeUses`: for the depth of 50 that `seg.rs` accepts,
65 thousand million words. `DictInv`: the dictionary is the depths and symbols in the order of the codes, as
varints one after the other, and what is read is the same (`DictEntries`), unless a code is too deep.

That the codes are the best (`WritesOptimalCodes`) is the invariant `OptInv` with `TreeInv`. One symbol
stands for each root and has its uses (`IsReps`). `IsServed` says that the lengths given so far have lost
nothing: whatever lengths all symbols could have had, there are some for the representatives that
cost no more with them. Joining the rarest two roots keeps it, by three lemmas about lengths
that satisfy Kraft's inequality: `Swapped` (of two symbols the rarer one may have the longer code),
`MergedFits` (the two deepest leave room for one that is a bit shorter) and `MergedCost`. When one root is
left, `IsServed` is optimality; and by `KraftIn` (each subtree's codes take all the room there is,
`KraftJoined`) its codes can be decoded.

`SegWordsProofs`, of the tables. The reader makes its tables from depths alone, by a recursion that splits a place at every bit
and opens a table at every ninth. `Under` says which entries of the dictionary a place stands for: those whose codes
begin with the bits so far; they are next to one another, since the dictionary is in the order of the
codes, and they are one code or split into those with a 0 and a 1 next (`NodeLeaf`, `NodeSplit`). `FillIs` turns the
recursion into rounds, and induction over them gives `AreTables`: the tables have the links and the leaves of
every code, and nothing else. Then `TablesAreComplete` follows from `IsTree`: two codes meet in no slot, and every lookup follows
the codes to one that has it. `ReadInv` says how far the reader is: `Packs` relates bytes to bits
(`IsStream`, with the zeros after the end), `Lookup` is the next bits whatever the byte they start in
(`LookupIs`), and `Reached` that the symbols read are the first of the message and that the table open is the
one the next code leads to. Theorem:
`ReaderReadsWhatWasWritten`, with no lookup that fails.

`BtFileProofs`. What a search reads was written long before, by another part of the code, and so the
invariant follows the words from the builder to the reader. `SetUp` relates the plan to the sizes and
says the offsets ascend. `Made` says that the low bits are the offsets' (`LowRight`), that in the upper
region there is a one at `Pos(n)` for every offset added and nowhere else (`UpRight`), and `Adding` that no
low bits are there yet of the offsets to come, without which `|=` would mix them. `Counting` and
`Entries` say which ones the build has seen and that their jumps are right (`JumpsRight`). `Put` says the file is a
beginning of what was to be written; `Readable`, that what was opened holds the same words as far as it
goes. `Scanning` says the window of a search has the ones from some place on, of which the first is
number `i - d`. The arithmetic is in lemmas of its own: a word is the set of its bits (`WordOfBits`, so
that an or is a union, `OrIs`), the words of two entries of the table do not meet (`PlacesApart`),
the low bits of an offset are cut into two words and put together again (`SetLowerIs`, `LowerIs`), and the
rank of a one among those of a word is what `select64` looks for (`Ranks`, `SelectIs`). Theorems:
`BtInvHolds`, `GetIsOffsetHolds`, `OpenedIsWholeHolds`, `OnlyCutJumpsPanicHolds` and `NodesAreKeysHolds`. The last
adds `KeysInv` (the nodes written so far are the keys of the blocks begun so far, by `CeilNext`)
and `FooterInv` (the reader's file has them, and says where they end); `ParsedTo` is the invariant
of the parser's rounds.

`OnlyCutJumpsPanicHolds` is about plans for which `JumpsFit`: the ones of a block of SuperQ are never so far
apart that half a word cannot say it. The comment at `ef_builder.rs:85` calls anything else "unreachable for any realistic
universe", and `FewKeysFit` says when it is: `2 * count + SuperQ <= Half` is enough, whatever the
bound. `JumpsFit` holds of every plan of the run.

Only model-checked: liveness (`Terminates`, `CallReturns`, `CallsReturn`, `GetReturns`, `Decodes` and the
fair part of the two refinements), since the provers do not handle fairness and ENABLED. Every
invariant of a run that passes is proved, and so is every action property.

## 6. Not modelled, and assumptions

- Hashing (`hash.rs`), salt files (`salt.rs`), errors and exports: pure or without state.
- Residency hints (`preload_*`, `advise_*`): the kernel may undo them at any time, so no later state depends on them.
- Malformed and hostile files: readers are given what the writers write, all of it or a
  beginning of it, plus an unparsable `.bt` and other programs' filters.
- The choice of patterns in `compress.rs`: a heuristic, any set is allowed in `SegWords`.
- Prefetching, accessors and sums of sizes: they change no state.
- The kernel: `mlock` refuses what exceeds the soft limit, whole; `setrlimit` needs the privilege to raise the
  hard limit; `getrlimit` succeeds; removing a file succeeds; a file is not changed while mapped (`util.rs:186`).
- The caller of a compaction is not part of the crate; `KvStack` states what it must do.
- The files of a `KvStack` have a value for every key (a last key without one is `KvReader`'s). Values are
  compared by identity, keys by order. Step numbers and lengths do not overflow.

## 7. What could come next

The order of work was: point lookup and its proof, the salt search, merge, the writers, the
stack and its compactions, residency, then the codecs, and their proofs. Left are:

1. A reader that opens the file set while `FileSet` is at work or after it was stopped, as one
   composition: today `NoStaleSiblings` and `BtFile`'s cut files describe the two sides.
2. One theorem from `Huffman` to `SegWords`: the codes of one are the constants of the other, and today
   that such codes exist is a reading of both.
3. Files that are damaged in the middle, for which the crate has length checks only.
