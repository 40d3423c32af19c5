# A TLA+ model of litelsm

litelsm is the beginning of a log-structured key-value store in C++: the pages a
table will be made of (data pages and filter pages, with a builder and a reader
each), a bloom filter, the integer encodings and the checksum the pages are
written with, and a file layer over POSIX. There is no tree, no write-ahead log
and no compaction yet, and no threads: every component is a passive library that
one caller drives. What can go wrong is therefore in the sequences of calls, in
two members that must move together, in views of memory that somebody else owns,
in boundaries of formats, and, in the file layer, in what the kernel may do in the
middle of a call.

Paths below are relative to `src/`. All of `tla/` is checked with TLC; the modules
named `*Proofs` hold theorems that TLAPS checks (section 5).

## 1. Components

| component | source | state | operations | module |
|---|---|---|---|---|
| integer coding | `common/coding.{h,cpp}` | none; a buffer, a `Slice` | put, get, decode of fixed32, varint32, varint64, pairs, texts behind their length | `Coding`, `VarintStream` |
| page and footer | `storage/page_builder.h`, `page_reader.h` | `buffer_`, `footer_` | `finish`, `checkCRC32C`, `getPageType` | `Page`, `PageChecksum` |
| data page builder | `storage/data_page_builder.{h,cpp}` | `buffer_`, `restartPointOffsets_`, `recordNum_`, `lastRestartPointKey_` | `add`, `finish`, `reset`, the two estimates | `DataPageBuilder`, `DataPage` |
| data page reader, iterator | `storage/data_page_reader.{h,cpp}`, `common/iterator.h` | `data_`, `restartPointNum_`, `restartPointStart_`, `cur_`, `curRestartPoint_`, `key_` | `newIterator`, `seekToFirst`, `seekToLast`, `seek`, `next`, `prev`, `key`, `value` | `DataPageIterator`, `RecordCursor` |
| filter page | `storage/filter_page.{h,cpp}` | `keys_`, `start_`, `filter_offsets_`, `buffer_` | `StartBlock`, `AddKey`, `Finish`; reader: `KeyMayMatch` | `FilterPage` |
| bloom filter | `util/bloom.cpp`, `common/filter_policy.h` | `bits_per_key_`, `k_` | `CreateFilter`, `KeyMayMatch` | `Bloom` |
| file | `filesystem/posix_file.{h,cpp}` | `fd_`, the kernel's descriptor table and files | `append`, `read`, `sync`, `close`, the destructor | `PosixFile` |
| file system, files | `filesystem/posix_filesystem.cpp` | the kernel's names | `newRWFile`, `repenRWFile`, `openReadableFile`, `removeFile` | `PosixFile` |
| file system, names | `filesystem/posix_filesystem.cpp` | the kernel's directory tree, its directory streams | make, remove, list, exists, and the opens as far as names go | `PosixFileSystem` |
| status | `util/status.h`, `filesystem/io_error.*` | `code_`, the owned `msg_` | copy, move, assign; errno to code | `Status`, `PosixFileSystem` |
| slice, comparator | `util/slice.h`, `common/comparator.*` | none | `compare` | `SliceLess` of `DataPage` |
| crc32c | `util/crc32c.{h,cpp}` | none; the loops of `ExtendImpl` | `Extend`, `Value` | `Crc32c` |
| hash | `util/hash.{h,cpp}` | none | `Hash` | `Hash` |
| chunk | `common/chunk.h` | none | an interface nothing implements | not modelled |
| helpers | `util/string_util.*`, `uuid_gen.*`, `defer_op.h` | none | formatting, random names, scope guard | not modelled |

How they interact. A page builder appends encodings (`Coding`) to `buffer_`,
`PageBuilder::finish` closes it with a type and a checksum, and the `Slice` it
returns is a view of `buffer_`: the next `reset()` ends its life. A reader is given
such a `Slice` and an iterator keeps views into it. `add()` takes the key as a view
of the caller's memory and keeps that view until the next restart point. A filter
builder calls the filter policy it was given; the reader of the filter page calls
the same policy on bytes it finds in the page. A `PosixFile` owns a number in the
kernel's descriptor table, which is given out again as soon as it is free.

What is hard, and the property that is about it:

- two members that move separately: `cur_` and `curRestartPoint_` of the iterator
  (`BackwardScanRight`, `SeekFindsLowerBound`, `ImplementsCursor`, and the findings
  1 and 2), `keys_` and `start_` of the filter builder (`OneFilterPerRange`);
- a view of memory that is written meanwhile: `lastRestartPointKey_`
  (`KeysReadBack`, `PageWalks`);
- an estimate that must be an upper bound before the fact: `estimateSize()`
  (`PageFits`);
- boundaries: varint lengths (`GotIsWritten`, `FourByteCell`), restart intervals
  (`PageWalks`), 2 KB ranges with no block in them (`AssertHolds`,
  `NoFalseNegative`), the rounded size of a bloom filter (`NoFalseNegative`), sizes
  and addresses around the steps of the checksum (`ReadsInBounds`,
  `CrcIsReference`), the bytes behind the last record (`PastKeyHarmless`);
- one format written and read by differently built programs, and damaged in
  between (`DamageDetected`, `PageImplemented`);
- system calls that do a part of the work, are interrupted or fail, and a loss of
  power between any two of them (`WholeAppends`, `TornIsPrefix`,
  `SyncedIsDurable`, `CallsReturn`);
- descriptor numbers that are used again while a destructor still knows them
  (`DescriptorsMatchFiles`), and streams that use them up (`StreamsClosed`);
- an errno that is read after something else may have set it, an operation on many
  names that stops half way, and a status that is passed on (`StatusTellsTruth`,
  `ListingComplete`, `MessagesBelong`).

`PROJECT.json` lists every hazard with its line, and for those no property covers
yet the reason.

## 2. Modules

`Coding` <- `Page` <- `DataPage` <- `DataPageBuilder` <- `DataPageIterator`, each
extending the one before; `Page` <- `FilterPage`; `Coding` <- `VarintStream`;
`Hash` <- `Bloom`, which `MCFilterPage` puts into `FilterPage`; `Crc32c` <-
`PageChecksum`, which has an instance of `Page`; `Status` <- `PosixFileSystem`;
`RecordCursor`, `AppendLog` and `PosixFile` stand alone. `MC<M>` gives the constants of
`M` their values for TLC and nothing else. A definition that a comment calls a
mutant is a wrong form of the definition that follows it: with it in place of the
right one the run named in `PROJECT.json` fails, so the property does depend on
the code being as it is. No specification uses them.

**Pure functions of bytes** (`Coding`, `Page`, `DataPage`). A byte string is a
sequence over 0..255, an offset into it is 0-based as in the code. Varints are
encoded and decoded by what the loops compute; the reader of a data page decodes
each length from a cell of four bytes, `GetVarint32(_, _, U32Size)`, and steps over
the length of the value it read. A uint64 is the sequence of its seven-bit groups,
since it is beyond TLC's integers. `Crc32cBits` is an unknown constant operator: the
pages need of a checksum only that it is a function to four bytes, and
`PageChecksum` puts CRC-32C in its place.

**`VarintStream`** is a writer that appends fields to a buffer and a reader that is
given a `Slice` of its first bytes. The reader knows which fields to expect, as one
does, and stops at the first failure. A field of `written` and `got` carries the
offset at which it begins. The repository has a writer of texts behind
their length and no reader: `TakeText` is a reader's half, and external.

**`DataPageBuilder`.** `Add`, `Finish`, `Reset` are the three operations, each whole.
`lastRestartPointKey_` stands for what the memory behind the kept `Slice` holds at
present: with `reuse` the caller has put the next key into that memory, so the old
view shows the new bytes (`Overwritten`). `added` (with the offset of each entry),
`checked`, `stable` and `finishes` are history variables. Calls out of the
documented order, such as `add()` after `finish()`, are allowed; the properties of
a page are stated of `WholePage`, one `finish()` and nothing since.

**`DataPageIterator`** extends the builder, so that the iterator reads exactly the
pages the builder writes. Each positioning call is an operator from a position, the
pair `cur_`, `curRestartPoint_`, to a position, and an action that moves there. The
loops of `prev`, `seekToLast` and `seek` are recursive functions. A loop that goes
from entry to entry goes on only to an offset further on and not behind the restart
array (`Onward`): the code has no such test, and on a page that can be read it never
decides (section 5), but with it the functions are defined for all bytes.
`seekToLast()` on
a page without records reads the four bytes before the page, which is undefined:
`SeekToLastOfNone` takes any of a few values. `key_`, the scratch string of `key()`,
shows in one call only, `seek(it->key())`: the target is a view of `key_`, which each
`key()` of the scan overwrites, so that after the search two views of the same
bytes are compared and their lengths decide (`SeekOwnKey`).

**`RecordCursor`** is the abstract specification, what `common/iterator.h` promises
without `seek()`: a position among records. `DataPageIterator!ImplementsCursor`
maps `pos` to the record at `cur_`.

**`FilterPage`** takes the filter policy as operators, and with it what the policy
promises, `PolicyMatches`; `PolicyContract` is that promise, checked of the policies
that are put in. `rangeKeys` is a history variable, the keys added in each range.
The reader's `KeyMayMatch` is an operator of the page.
`GenerateFilters(n)` is the loop of `StartBlock()`: its first round may make a
filter, every other one makes an empty range.

**`Bloom` and `Hash`** are the policy of the library and its hash, bit for bit. A
32-bit word is its four bytes, so that products and sums modulo 2^32 stay within
TLC's integers; `SignedUnsignedIssue` compares `HashOf` with the values that
`hash_test.cpp` expects, and TLC evaluates it. `Matches` says what a filter answers
without bytes: a key matches if all its bits are among those of the keys.

**`Crc32c`** runs `ExtendImpl()` over a stream that the caller cuts into buffers at any
addresses: an action for each round of its four loops, with `p` and `l`, and the
rounds of the table and of the SSE4.2 builds. A word is the set of its 1 bits. The
literals of the tables are generated (`Table0` from the polynomial, each other one
from the one before), not copied; `TableLiterals` compares two of each table with the
source, and a wrong digit in another one is out of the model's sight. `Reference` is CRC-32C by its definition, the remainder of a division
of polynomials, and `StandardResults` compares it with `crc32c_test.cpp`.

**`PageChecksum`** carries a page from `finish()` over a storage that may invert bits or
lose the end to `checkCRC32C()`, in programs that may be built differently.
`PageImplemented` shows that this does what `Page` says in one step. The damages that
are considered lie within 32 adjacent bits, the longest burst that a checksum of
32 bits is bound to notice.

**`AppendLog`** is the abstract specification of the files of `openRWFile()`, what a
program that keeps a log may rely on: open files grow at their end by pieces of
slices, a sync puts them on the disk, a loss of power cuts off at most what was
added since. A file that is created again (`renewed`) has nothing on the disk that
counts until it is synced: a loss of power may bring the old bytes back, or leave
any first part of the new ones, or nothing. `PosixFile!ImplementsLog` maps to it the
contents, the disk, the files emptied since their last sync and the set of open
files. A file on which a writer without O_APPEND meets another one is withdrawn
(`mixed`), and so is every file once a close(2) has failed: then a destructor may
close a descriptor that another file has been given.

**`Status`** has the constructors, copies and moves of a `Status`; a message stands for the
errno in it, or for none where the pointer is null. **`PosixFileSystem`** has a tree of
names and Status variables, into which the program puts what operations return.
The kernel's calls, `create_directories` and `remove_all` included, are operators
from a tree to the outcomes they may have, an unexpected failure among them; the
last two may stop after a part of their work. Operations are one action each,
except `listDir()`, where each `readdir(3)` is a step, with the errno that the loop
saves around its callback. Whether a file is open is the business of `PosixFile`.

**`PosixFile`** has the program's files in `Slots` (the `unique_ptr<File>`s) and, as
external state, the part of a kernel they use: names, inodes, the descriptor table,
what the disk holds, and which files were emptied and not synced since (`emptied`:
the old bytes on the disk may happen to be how the new contents begin, so this
cannot be read off the two). `append()` and `read()` are split at each system call:
a begin, a step for each round of the loop (`WriteSome`, `ReadSome`) of any length
the kernel may choose, the end, `Interrupted` (EINTR), `CallFails`, `BadDescriptor`.
All other operations make one system call and are one action. `Crash` is a loss of
power at any point, also in the middle of an `append()`. What is assumed of the
kernel: open(2) gives the lowest free descriptor; O_APPEND writes at the end;
fsync(2) that returns 0 puts the file on the disk; unsynced appended data may
survive in part, from its start; a file that open(2) emptied and no fsync(2)
followed may have its old bytes after a loss of power, or be empty, or have any
first part of what was appended to it since, and the old bytes are those that a loss
of power could have left when it was emptied (`Surviving`); what may become of a
file that was overwritten (`mixed`) is not modelled in full, and no property speaks
of it; a name survives; a close(2) that fails may or may not have freed the
descriptor. open(2), fsync(2) and unlink(2) that fail change nothing.

## 3. Runs

| run | question | bounds, and why they are enough |
|---|---|---|
| `varint_stream` | Is what is parsed what was written, wherever the `Slice` ends? | 12 values of 32 and 6 of 64 bits, both sides of length boundaries up to the tenth byte, a text that looks like a varint, pairs; two calls, so that a field has another one in front of it or behind it; every cut |
| `page_builder` | Does a page fit, can it be walked, does it give its keys back? | up to 4 records, 2 per restart point, so blocks are full, partial and absent; keys with 0 and 2 common bytes and one that is a prefix of another; reuse of key memory at each `add()`; `PageSize` 38 lies within the sizes that occur, so the estimate is met from both sides; 2 `finish()` |
| `iterator_seek` | Where do the six positioning calls lead, in any order? | up to 5 records, in any order of their 4 keys: 3 blocks, the last one full or partial; targets below, at, between and above the keys, and the iterator's own key |
| `iterator_cursor` | Is the iterator, without `seek()`, a cursor? | up to 5 records with keys and values of two lengths, the empty page included |
| `forward_keys`, `seek_one_block` | findings 1, 2 | as `iterator_seek`, up to 4 and 2 records |
| `filter_page` | Does the reader ask the right filter, and does that never turn away a key? Does the bloom filter keep the contract that the theorems assume? | blocks in one range, at its last byte, in the next and two further on; keys without bytes, with a rest and with a word, bytes above 127; up to two keys per filter; 1, 10, 50 bits per key: the number of probes at both limits, the least array and one that is rounded up to bytes |
| `file_append` | Does a file use the descriptor of another one? Are appends whole, durable once synced? Are the files an `AppendLog`? | 2 slots on one name, 3 descriptors (the third is the one `open()` takes before the old file is closed), slices of 2 bytes, files of up to 4 bytes, 2 appends per file: a torn append followed by a whole one and the other way round, and a file that is emptied when its old bytes are on the disk, in part or not at all, and grows to fewer or more bytes than these |
| `file_calls` | What does a torn append leave? Is a read right, do calls return? | 1 slot, a slice of 3 bytes that takes up to three rounds, files of up to 3 bytes, reads within, up to, across and beyond the end; close(2) may fail, so that a file may be left with a descriptor that is not open |
| `short_read` | finding 3 | as `file_calls`, shorter slices |
| `file_system` | Can a caller believe a status? Is a listing complete, and are descriptors given back? | a directory and two names in it, so that every errno of the operations occurs and each removal has something below it; a fault at each call; two Status variables, a descriptor more than one listing needs |
| `crc32c` | Is `Extend()` CRC-32C however it is called and built? Is damage noticed? | streams of 48 and 33 bytes, cut at 0, 1, 5, 8, 17, 24, 33 at addresses on, next to and between 16-byte boundaries: each loop is passed over, run once and more often; pages of 0, 3 and 24 bytes; one bit, two and 32 at every place, every cut |

The interval of restart points is 2 where the code has 16 and the range of a filter
is 4 bytes where the code has 2048: both are constants of the modules, and what
matters is on which side of a multiple a record or a block is. `file_append` uses
symmetry of the slots, which no action tells apart, and checks no liveness.
There close(2) does not fail, except on a descriptor that is not open: what it
checks is promised of histories without such a failure. `file_system` uses symmetry
of the variables and of the two names, for invariants only. Bounds on counters (`MaxRecords`, `MaxFinishes`,
`MaxKeys`, `MaxPuts`, `MaxLength`, `MaxAppends`) are guards of the actions that
count. `CHECK_DEADLOCK FALSE` is said where the bounds or a finished page let the
caller stop; a caller may always stop using a library.

What the passing runs show, beyond the wording of the properties in the modules:

- `iterator_seek` states exactly when the iterator is right in spite of findings
  1 and 2. A valid iterator always stands on a record. Backward scans from
  `seekToLast()` are right on every page, keys included. `seek()` finds the lower bound on a page with more
  than one restart point if that is the first record or `curRestartPoint_` already
  is the restart point it scans from.
- `page_builder`: reuse of key memory between two restart points breaks keys and
  never anything else; the values and the walk through the page stay right.
- `file_append`: on one name, two appenders from `repenRWFile()` do not disturb one
  another, whole or torn; a writer from `newRWFile()`, which has no O_APPEND, does,
  and is what the history variable `mixed` excludes.
- `iterator_seek`: behind the last record `key()` is the empty key, because the first
  restart offset is 0: this keeps the call of `key()` with which the scan of `seek()`
  ends from reading a long key out of the restart array.
- `file_system`: `NotFound` and `AlreadyExist` are always true of the tree, also where
  an operation on many names failed; the reverse does not hold, since an I/O error
  may hide a missing name. `StreamsClosed` needs that no `readdir(3)` failed, and
  `MessagesBelong` leaves out variables that kept a message: both are what the code
  does and are noted below.
- `crc32c`: a page built with SSE4.2 is accepted by a program built without and the
  other way round.

**Fairness.** Only `PosixFile` states any: weak fairness of `CallStep`, a round of
the loop of a call that has begun. The loops have no other exit than through such
a round, and the caller is inside the call. It excludes a system call that is
interrupted for ever. Nothing is assumed to fail, to begin, or to crash. `CallsReturn`
is the only liveness property: the other components do nothing on their own.

## 4. Findings

Each is a run that must end in a violation.

1. `forward_keys`, `storage/data_page_reader.cpp:132`. `next()` compares `cur_`, the
   offset of an entry, with `getRestartPointOffset(...)`, the place of an array
   element, where the offset stored there is meant. `curRestartPoint_` stays where
   it is and `key()` takes the shared prefix from the wrong block.
   `data_page_test.cpp:71` asserts the key of every step; its keys share too little
   for the difference to show.
   `seek()` (`:183`) leaves it alone likewise, and the next `prev()` starts from the
   block of an earlier call.
2. `seek_one_block`, `:171`. When the binary search ends at 0 `seek()` goes to the first
   record without a scan, which is wrong on a page with one restart point.
3. `short_read`, `filesystem/posix_file.cpp:59`. After a short pread(2) the next round
   writes over the start of `buf` and asks for `size` bytes again: `read()` returns
   bytes that are not the file's, or more than `size` of them.

Seen on the way and not run: `pageSize` of the options is ignored
(`storage/data_page_builder.h:28`); offsets of filters are cut to 32 bits
(`storage/filter_page.cpp:46`); the branch for empty filters at
`storage/filter_page.cpp:105` is never taken for a page the builder made, because
an empty range satisfies the condition before it; assigning a `Status` without a
message keeps the old message (`util/status.h:53`); `iterateDir()` does not close
the directory when `readdir()` fails (`filesystem/posix_filesystem.cpp:124`); the
`openXXX` functions read errno after they have built a string (`:162`); no
directory is ever synced; `crc32c.cpp:150` promises aligned loads, and a buffer that
ends before the first aligned address gets others, which memcpy makes harmless.

## 5. Theorems

Proved for all values of the constants. The module assumptions on the constants are
all that is assumed, but for what a theorem names: `PoliciesContract`, `BloomPolicies`,
`Readable`, `Fits`. For each module with theorems: the properties, the inductive invariant they
follow from, and why they are not inductive themselves.

**`PageProofs`** has no theorem of a specification but the lemmas about bytes that the
others rest on. `Stands(code, buf, off)` says that these bytes are found at that offset:
`StandsApart` takes it through a concatenation, `CellReadsBack`, `ArrayReadsBack`
and `FooterReadsBack` say that a cell of four bytes, an array of fixed32 and a
footer are read as they were written wherever they stand. `MaxOfBounded` and
`MinOfTwo` show that the maxima and minima of the model exist, `Crc32cType` needs no
more of the checksum than that its bits are bits: the theorems about pages are of
every `Crc32cBits`, CRC-32C included.

**`DataPageBuilderProofs`.**
- `BuilderTypeCorrect`: `BuilderTypeOK` is inductive.
- `PagesFit`: `PageFits` speaks of finished pages only. `FitsInv` adds that the room
  `finish()` needs is there from the last checked `add()` on, that a page is never
  longer than `buffer_`, and that there is no page before `finish()`. The step that
  matters is `AddTypes`: an entry and its possible restart offset take at most one
  byte more than `estimateEntrySize()`, since the estimate leaves out the third
  varint but counts four bytes that only a restart point uses, and `estimateSize()`
  has counted the place of the next restart offset.
- `PagesWalk`, `PageKeysReadBack`: a page that `finish()` returned once is walked,
  entry by entry, from each restart point, and its keys are those that were added.
  Both speak of the page, and nothing of a page says how it came to be. `WalkInv` is
  of the builder at work: each entry stands in `buffer_` at the offset in `added`
  and ends where the next one begins (`Walks`), `restartPointOffsets_` are the
  offsets of the first entries of the blocks (`RestartsNamed`), and, if the memory of
  keys was left alone (`stable`), `lastRestartPointKey_` is the key of the block's
  first record and no key shares more with it than the entry says (`Shares`,
  `RestartKeyKept`). `Closed` then says what `finish()` put behind them.
  The hypothesis `Readable`, a page of less than 2^28 bytes, is the limit of the
  reader's cells of four bytes (`FourByteCell`), not of the model;
  `CheckedPagesRead` shows that who checks the two estimates, as
  the header asks, is always below it.

**`VarintStreamProofs`.** `Varint32ReadsBack` (of `PageProofs`) and `Varint64ReadsBack`
hold for every value of 32 and 64 bits: a decoder that is given the whole encoding finds the value
and the end of it, and one that is given less fails. `StreamTypes`,
`StreamReadsBack`, `StreamFailsWhenCut` and `StreamFourByteCell` carry that through
the calls. `StreamInv` adds to the properties that the fields fill the buffer
without a gap and a text has its length in front of it (`LaidOut`), and that the
reader, before and after a failure, is where a field begins (`AtField`).

**`FilterPageProofs`.** `FilterTypes`, `FilterAssertion`, `FilterPerRange` and
`FilterFindsKeys` are of every set of policies that keep their contract
(`PoliciesContract`): a filter is made of bytes, and an answer is what
`PolicyMatches` says of the list; it leaves false positives open.
`FilterInv` ties `keys_`, `start_`, `filter_offsets_` and `buffer_` to the history:
there are as many filters as ranges before that of the current block (`Standing`),
which is the assertion of the code; the flattened keys are those of the range that
comes next (`Pending`); each stored filter is that of the keys of its range
(`Made`); and the page is what `Contents` lays out (`Written`). The reader's answer
is then read from the bytes of the page. `Fits`, a buffer of less than 4 GB, is
needed because `storage/filter_page.cpp:46` cuts offsets to 32 bits.

The last part is about `Bloom`. `BloomPolicies` says what the run says in its
configuration: the operators of the policies are those of `Bloom`.
- `BloomKeepsContract`, `PolicyKeepsContract`: then the contract holds, for any
  bits per key and any list. The hash matters only in that it gives a word
  (`HashType`), whatever its rounds mix, so the proof would be the same of another
  one; what matters is that writer and reader touch the same bits. The reader has the
  length of the filter in bytes where the writer had the number of keys, and both
  come to the same number of bits (`FilterBits`); the probes it finds in the last
  byte are between 1 and 30, so they are never taken for a reserved encoding; and each
  bit of the array is found again in its byte (`BitIsSet` of `ByteOf`).
- `BloomFilterPage`: `NoFalseNegative` and `OneFilterPerRange` with no assumption on the
  policies left.

**`DataPageIteratorProofs`**, for pages of any contents and restart interval that are
`Readable`.
- The loops first. A recursive function is more than an equation: that there is one has
  to be shown. `LoopExists` does so for every loop whose measure falls, from the
  well-foundedness of the naturals, and `LoopEnds` says that such a loop ends in any
  set that it does not leave. `LastEntryIs`, `SearchFinds` and `ScanLands` are the
  loops of `prev()`, of the binary search and of the scan with sets of their own.
  There the branches of `Onward` turn out never to decide: on an entry of the page
  the next offset is further on and not behind the restart array.
- `IteratorTypes`, `IteratorStands`, `IteratorPastKey`: `IterInv` has `WalkInv` of the
  builder, from which the page is an increasing chain of entries with restart points
  on some (`PageLaid`), and that the iterator is on the first byte of a record or of
  the restart array with a restart point that exists (`OnPlace`). That is all that
  holds of `curRestartPoint_` in every history, because of finding 1, and yet enough:
  no positioning call reads a length from the middle of an entry.
- `IteratorBackward`: `BackwardScanRight` compares the loops of `seekToLast()` and
  `prev()` with the records, and `Key` with what `PageKeysReadBack` says of the page,
  hence the hypothesis `stable`.
- `IteratorSeek`: `SeekFindsLowerBound`, for any sorted records and targets. The search
  leaves a restart key below the target with the next one not below it
  (`ScannedBounds`); the scan reads the keys of one block right and stops at the
  next block's first key at the latest, which no restart point can spoil
  (`OpenerKeyRead`); what is in front of the block is below because the records are
  sorted and `Slice::compare` is an order (`LessGoesOn`).
- `IteratorImplementsCursor`: without `seek()` (`SeekTargets` is empty) each call is the
  step of `RecordCursor` of that name. `CursorInv` adds `Behind`, that the restart
  point is never one of a later block, which `next()` keeps although it does not
  advance it, and without which `prev()` would not find the record before.

**`PosixFileProofs`**, for any number of slots, names, files and descriptors.
- `DescriptorsMatch`: `DescriptorsInv` adds the shape of the table, which has to hold
  after a failed close(2) too. `Match` and `Shape` are stated of any table and any
  slots, so that `OpenedInv` can follow the table through open(2) and then the
  close() of the file that is replaced. `CloseMatch` uses that no two files hold one
  descriptor, and that a closed file holds -1, which is no descriptor.
- `TypesRight`: `TypeOK`, from `DescriptorsInv`.
- `ReadsRight`: `ReadRightUnlessShort` is of a `read()` that has returned. `ReadInv`
  says what the loop has done: the count of what is left goes with the offset
  (`Counted`), and as long as no pread(2) was short, `buf` holds the first bytes
  (`PartRead`).

- `AppendsWhole`, `SyncedDurable`, `TornPrefix` follow from `LogInv`. A file without
  O_APPEND writes at its own position, so that is the end of the file only because
  no other writer is open there (`NoOtherWriter`, `AtEnd`); that an `append()` that
  returns OK is whole depends on every round before (`PartWritten`); and what is on
  the disk of a file is what `AppendsHeld` says of its records. That a loss of power
  keeps it there needs two more facts: the file on the disk is how the file in the
  kernel begins, unless it was emptied (`Grown`), and a file that was emptied has no
  record that was synced (`EmptiedUnsynced`).
- `FilesImplementLog`: `Spec => ImplementsLog`. Each action of `PosixFile` is an action
  of `AppendLog` or a stutter under the mapping: a round of `append()` extends the
  log by a piece, a `newRWFile()` creates, a crash is a `PowerLoss`, and a file that
  gets a second writer is withdrawn. `LeftIs` shows that what the kernel may leave of
  a file that is kept is what `AppendLog` allows (`Left`), by `Grown` where it was
  not emptied.

**`PosixFileSystemProofs`**, for any tree, any failures and any number of variables.
- `StreamsAreClosed`: `StreamsClosed` becomes inductive with what a listing keeps
  while it runs (`Listing`): its errno is 0, since the loop puts back what the
  callback changed, so the branch that returns without closedir(3) is not taken at
  the end of a directory.
- `MessagesAreRight`: `StatusInv` adds to `MessagesBelong` that a Status is a code and
  a message. The proof needs nothing of the kernel: `PerformKeeps` is of any
  operation with any outcomes.
- `FileSystemTypes`, `StatusIsTrue`, `ListingIsComplete`: `TreeInv` adds that the tree
  is one, each path below directories (`WellFormed`), which `remove_all` that stops
  half way has to preserve, and that what a listing has found and what is left are
  together the names of its directory (`Progress`). `Truthful` says of each
  outcome of each operation what the errno promises of the tree, and is proved
  operation by operation.

**`PageChecksumProofs`**, for streams and pages of any length, cut into buffers at any
addresses, in the three builds. A word, or a longer stream, is the set of the
positions of its 1 bits, and the division by the polynomial is a recursive function
of the number of steps.
- The algebra first. `Halved` is linear for `Xor`, hence so is any number of steps
  (`DividedXor`), and a word with nothing in its low n bits is only shifted by n
  steps. So the four tables hold what 8, 16, 24 and 32 steps make of an octet
  (`TablesAre`), and a round of the table build, one of either SSE4.2 build, and a
  single byte each divide by the bits they load (`Crc32Divides`): that is all the
  builds have in common, and all the proof needs of them.
- `ChecksumTypes`, `ExtendReadsInBounds`, `ExtendIsCrc32c` follow from `ExtendInv`: within
  a call `l` is the register after the bytes up to `done + p` (`Register`) and `p` is
  not behind the buffer (`Counting`). `CrcIsReference` is not inductive, as it is
  silent about the streams that are pages and says that a register is right where
  the step needs to know which one it is. `ReferenceIs` shows that it is the
  remainder in the definition, which divides from the other end of the numbers
  (`Mirrored`), octet by octet.
- `DamageIsDetected`, `PageIsImplemented`: `PageInv` says what stands in the page at each
  stage, and that the verdict is whether its sum is the stored one. If bits
  were inverted, both sums and the stored checksum are linear in them, so the
  page is accepted only if the inverted bits by themselves divide without a
  remainder. Bits within 32 adjacent ones leave one: they are a word that is not 0,
  and `Halved` makes no such word 0 (`DividedWord`, `BurstLeavesRest`). The limit of
  32 is in `PageChecksumAssumption`, and it is that of the code: a pattern of 33 bits,
  the polynomial itself, goes unnoticed.

Only model-checked: `CallsReturn`, which needs fairness and is out of the prover's
reach, and what compares with literal values, `TableLiterals`, `StandardResults` and
`SignedUnsignedIssue`. These are evaluated as assumptions by the runs, and no proof
uses them.

## 6. Plan

Modelled: all that the table of section 1 gives a module. Still to come, in this
order:

1. Names that do not survive a loss of power because no directory is synced, if
   the code comes to say what it relies on.
2. `Table`, once the code has one: a filter page built along with data pages, and a
   lookup that asks the filter before the page.

Every invariant that a run checks, and both refinements, are proved (section 5);
`BackwardScanRight`, `SeekFindsLowerBound` and the pages of the filter keep the
hypotheses named there, which are limits of the formats or of findings.

## 7. Not modelled

- The literals of the crc tables (above), and unaligned loads as such.
- `seekToLast()` on a page without records: the offset read before the page is any
  number (`WildOffsets`), but the entry there, which the loop goes on to measure, is
  not read; for a page in memory of its own that is an access out of bounds.
- The 8, 16 and 64 bit fixed encodings: no caller in this code stores them.
  `decode_fixed64_le` is the load of `Crc32c`.
- Callbacks of `iterateDir()` that ask to stop: `listDir()` is its only caller and never
  does.
- What other processes do to files and directories, permissions, links.
- Names that a loss of power takes away: the model keeps them.
- The page size of the options, which nothing reads, and offsets of filters beyond
  32 bits, which no page of the bounds reaches.
- `key_` growing in the middle of `seek(it->key())`, which would leave the target
  pointing to freed memory.
- `Chunk`, the options of a builder, the random names of test directories, string
  formatting: no state and no decision.
- Memory allocation failure, which ends the program.
