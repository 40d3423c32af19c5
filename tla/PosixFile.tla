------------------------------ MODULE PosixFile ------------------------------
(***************************************************************************)
(* filesystem/posix_file.{h,cpp} and the file operations of                *)
(* posix_filesystem.cpp, over the part of a POSIX kernel they use.         *)
(*                                                                         *)
(* The program holds PosixFiles in slots, its unique_ptr<File>s.  append() *)
(* and read() are loops around a system call that may be interrupted, may  *)
(* do less than it was asked to and may fail: each round is a step, and    *)
(* the machine may lose power before the next one.  The library has no     *)
(* threads, so nothing else happens while a call is under way.             *)
(*                                                                         *)
(* inode, desc and fd_ are partial functions: their domains are the names  *)
(* that exist, the descriptors that are open, the slots that hold a file.  *)
(***************************************************************************)
EXTENDS Integers, Sequences, FiniteSetsExt, Functions

CONSTANTS
  Slots,       \* the unique_ptr<File>s of the program
  Names,       \* file names
  Inodes,      \* files, those without a name included
  Fds,         \* descriptor numbers
  Slices,      \* the byte strings that are appended
  Reads,       \* the << offset, size >> of the reads
  CloseFails,  \* close(2) of an open descriptor may fail
  MaxLength,   \* bound on the length of a file
  MaxAppends   \* bound on the appends to a file

ASSUME FileAssumption ==
  /\ Fds \subseteq Nat
  /\ Slices \subseteq Seq(0..255) \ {<< >>}
  /\ Reads \subseteq Nat \X (Nat \ {0})
  /\ CloseFails \in BOOLEAN
  /\ MaxLength \in Nat /\ MaxAppends \in Nat

VARIABLES
  inode, content, desc,  \* the kernel's names, files and descriptors
  durable,               \* what the disk holds of each file
  emptied,               \* open(2) emptied the file, and no fsync(2) came
                         \* after that
  fd_,                   \* the descriptor of the file in each slot
  call,                  \* the append() or read() under way
  result,                \* what the read() that has just ended returned
  appended,              \* history: the appends that returned OK, by inode
  mixed,                 \* history: a file without O_APPEND was written
                         \* along with another one
  closeFailed            \* history: close(2) failed on an open descriptor

kernelVars == << inode, content, desc, durable, emptied >>
history    == << appended, mixed, closeFailed >>
vars       == << kernelVars, fd_, call, result, history >>

NoFd     == -1
Idle     == [op |-> "none"]
NoResult == << >>

Descriptions ==
  [inode : Inodes, pos : Nat, append : BOOLEAN, write : BOOLEAN,
   slot : Slots]

AppendCalls == { c \in [op : {"append"}, slot : Slots, slice : Slices,
                        left : Nat, at : Nat] : c.left \in 1..Len(c.slice) }

ReadCalls == [op : {"read"}, slot : Slots, from : Nat, size : Nat,
              offset : Nat, left : Int, buf : Seq(-1..255),
              short : BOOLEAN]

Results == [from : Nat, size : Nat, length : Int, buf : Seq(-1..255),
            short : BOOLEAN, file : Seq(0..255)]

(* An append() that returned OK: where, what, and whether a sync() that    *)
(* returned OK came after it.                                              *)
Entries == [at : Nat, slice : Slices, synced : BOOLEAN]

TypeOK ==
  /\ DOMAIN inode \subseteq Names
  /\ \A n \in DOMAIN inode : inode[n] \in Inodes
  /\ content \in [Inodes -> Seq(0..255)]
  /\ durable \in [Inodes -> Seq(0..255)]
  /\ emptied \in [Inodes -> BOOLEAN]
  /\ DOMAIN desc \subseteq Fds
  /\ \A fd \in DOMAIN desc : desc[fd] \in Descriptions
  /\ DOMAIN fd_ \subseteq Slots
  /\ \A s \in DOMAIN fd_ : fd_[s] \in Fds \cup {NoFd}
  /\ call \in AppendCalls \cup ReadCalls \cup {Idle}
  /\ result \in Results \cup {NoResult}
  /\ appended \in [Inodes -> SUBSET Entries]
  /\ mixed \in [Inodes -> BOOLEAN] /\ closeFailed \in BOOLEAN

Init ==
  /\ inode = << >> /\ desc = << >> /\ fd_ = << >>
  /\ content = [i \in Inodes |-> << >>] /\ durable = content
  /\ emptied = [i \in Inodes |-> FALSE]
  /\ call = Idle /\ result = NoResult
  /\ appended = [i \in Inodes |-> {}]
  /\ mixed = [i \in Inodes |-> FALSE] /\ closeFailed = FALSE

-----------------------------------------------------------------------------
(* The partial function that also, or instead, takes x to v.               *)
With(f, x, v) == [y \in DOMAIN f \cup {x} |-> IF y = x THEN v ELSE f[y]]

(* The kernel.                                                             *)

(* The file after a write of bytes at pos; a gap before pos reads as 0.    *)
Written(file, pos, bytes) ==
  [ k \in 1..Max({Len(file), pos + Len(bytes)}) |->
      IF k \in (pos + 1)..(pos + Len(bytes)) THEN bytes[k - pos]
      ELSE IF k <= Len(file) THEN file[k] ELSE 0 ]

(* What may become of descriptor fd when it is closed.  A close(2) that    *)
(* fails may have released the descriptor, as on Linux, or not.            *)
CloseOutcomes(fd, table) ==
  LET released == Restrict(table, DOMAIN table \ {fd})
  IN  IF fd \notin DOMAIN table THEN { [ok |-> FALSE, desc |-> table] }
      ELSE { [ok |-> TRUE, desc |-> released] } \cup
           { [ok |-> FALSE, desc |-> d] :
               d \in IF CloseFails THEN {released, table} ELSE {} }

FreshInodes == Inodes \ ( { inode[n] : n \in DOMAIN inode } \cup
                          { desc[fd].inode : fd \in DOMAIN desc } )

(* What the disk may hold of a file when power is lost: what was synced    *)
(* and a first part of what was appended since then.  A file that was      *)
(* emptied since then may have its old bytes, or it is empty or has a      *)
(* first part of the new ones.  A file that was overwritten may have more  *)
(* than this; no property speaks of it.                                    *)
Surviving(i) ==
  LET least == IF emptied[i] THEN 0 ELSE Len(durable[i])
  IN  {durable[i]} \cup
      { SubSeq(content[i], 1, n) : n \in least..Len(content[i]) }

-----------------------------------------------------------------------------
(* Two files are open for writing on inode i, and one of them does not     *)
(* have O_APPEND: its writes go to its own position.                       *)
Mixed(table, i) ==
  \E a \in DOMAIN table, b \in DOMAIN table :
    /\ a # b /\ table[a].inode = i /\ table[b].inode = i
    /\ table[a].write /\ table[b].write /\ ~table[a].append

(* Mutant: close() leaves the number of the closed descriptor in fd_.      *)
CloseKeepsFd(s) ==
  /\ call = Idle /\ s \in DOMAIN fd_
  /\ \E outcome \in CloseOutcomes(fd_[s], desc) :
       /\ desc' = outcome.desc
       /\ closeFailed' =
            (closeFailed \/ (~outcome.ok /\ fd_[s] \in DOMAIN desc))
  /\ result' = NoResult
  /\ UNCHANGED
       << inode, content, durable, emptied, fd_, call, appended, mixed >>

(* PosixFile::close() on the file in slot s.                               *)
Close(s) ==
  /\ call = Idle /\ s \in DOMAIN fd_
  /\ \E outcome \in CloseOutcomes(fd_[s], desc) :
       /\ desc' = outcome.desc
       /\ fd_' = IF outcome.ok THEN [fd_ EXCEPT ![s] = NoFd] ELSE fd_
       /\ closeFailed' =
            (closeFailed \/ (~outcome.ok /\ fd_[s] \in DOMAIN desc))
  /\ result' = NoResult
  /\ UNCHANGED << inode, content, durable, emptied, call, appended, mixed >>

(* The destructor closes the file, closed already or not, and ignores the  *)
(* answer.                                                                 *)
Destroy(s) ==
  /\ call = Idle /\ s \in DOMAIN fd_
  /\ \E outcome \in CloseOutcomes(fd_[s], desc) :
       /\ desc' = outcome.desc
       /\ closeFailed' =
            (closeFailed \/ (~outcome.ok /\ fd_[s] \in DOMAIN desc))
  /\ fd_' = Restrict(fd_, DOMAIN fd_ \ {s})
  /\ result' = NoResult
  /\ UNCHANGED << inode, content, durable, emptied, call, appended, mixed >>

(* open(2) gives the lowest free descriptor; file->reset() then destroys   *)
(* the file that the slot held.                                            *)
Opened(s, description) ==
  LET fd    == Min(Fds \ DOMAIN desc)
      table == With(desc, fd, description)
      outcomes == IF s \in DOMAIN fd_ THEN CloseOutcomes(fd_[s], table)
                  ELSE { [ok |-> TRUE, desc |-> table] }
  IN  /\ \E outcome \in outcomes :
           /\ desc' = outcome.desc
           /\ closeFailed' =
                (closeFailed \/ (~outcome.ok /\ fd_[s] \in DOMAIN desc))
      /\ fd_' = With(fd_, s, fd)

(* Mutant: O_APPEND is never given.                                        *)
NeverAppend(i, s, append, write) ==
  [inode |-> i, pos |-> 0, append |-> FALSE, write |-> write, slot |-> s]

(* What open(2) makes of its flags: O_APPEND, O_RDWR or O_RDONLY.          *)
Description(i, s, append, write) ==
  [inode |-> i, pos |-> 0, append |-> append, write |-> write, slot |-> s]

(* newRWFile() (isNew) and repenRWFile(): both create a file that is not   *)
(* there; the first one empties a file that is, the second one appends.    *)
(* The kernel may have put a part of the file on the disk before it is     *)
(* emptied.  A call that fails, in open(2), changes nothing.               *)
OpenRWFile(s, name, isNew) ==
  /\ call = Idle /\ Fds \ DOMAIN desc # {}
  /\ \E i \in IF name \in DOMAIN inode THEN {inode[name]} ELSE FreshInodes :
       LET fresh == name \notin DOMAIN inode
           empty == fresh \/ isNew
       IN  /\ inode' = With(inode, name, i)
           /\ content' = IF empty THEN [content EXCEPT ![i] = << >>]
                         ELSE content
           /\ durable' \in
                { [durable EXCEPT ![i] = file] :
                    file \in IF fresh THEN {<< >>}
                            ELSE IF isNew THEN Surviving(i)
                            ELSE {durable[i]} }
           /\ emptied' = IF empty THEN [emptied EXCEPT ![i] = ~fresh]
                         ELSE emptied
           /\ appended' = IF empty THEN [appended EXCEPT ![i] = {}]
                          ELSE appended
           /\ Opened(s, Description(i, s, ~isNew, TRUE))
           /\ mixed' = [mixed EXCEPT ![i] =
                          (@ /\ ~empty) \/ Mixed(desc', i)]
  /\ result' = NoResult
  /\ UNCHANGED call

OpenReadableFile(s, name) ==
  /\ call = Idle /\ Fds \ DOMAIN desc # {}
  /\ name \in DOMAIN inode
  /\ Opened(s, Description(inode[name], s, FALSE, FALSE))
  /\ result' = NoResult
  /\ UNCHANGED << inode, content, durable, emptied, call, appended, mixed >>

RemoveFile(name) ==
  /\ call = Idle /\ name \in DOMAIN inode
  /\ inode' = Restrict(inode, DOMAIN inode \ {name})
  /\ result' = NoResult
  /\ UNCHANGED << content, desc, durable, emptied, fd_, call, history >>

(* Mutant: what fsync(2) answers is ignored.                               *)
SyncIgnoresError(s) ==
  /\ call = Idle /\ s \in DOMAIN fd_ /\ fd_[s] \in DOMAIN desc
  /\ LET i == desc[fd_[s]].inode
     IN  /\ \/ UNCHANGED << durable, emptied >>
            \/ /\ durable' = [durable EXCEPT ![i] = content[i]]
               /\ emptied' = [emptied EXCEPT ![i] = FALSE]
         /\ appended' = [appended EXCEPT ![i] =
              { [r EXCEPT !.synced = TRUE] : r \in @ }]
  /\ result' = NoResult
  /\ UNCHANGED << inode, content, desc, fd_, call, mixed, closeFailed >>

(* fsync(2) works on every open descriptor.  It may fail, and then sync()  *)
(* changes nothing.                                                        *)
Sync(s) ==
  /\ call = Idle /\ s \in DOMAIN fd_ /\ fd_[s] \in DOMAIN desc
  /\ LET i == desc[fd_[s]].inode
     IN  /\ durable' = [durable EXCEPT ![i] = content[i]]
         /\ emptied' = [emptied EXCEPT ![i] = FALSE]
         /\ appended' = [appended EXCEPT ![i] =
              { [r EXCEPT !.synced = TRUE] : r \in @ }]
  /\ result' = NoResult
  /\ UNCHANGED << inode, content, desc, fd_, call, mixed, closeFailed >>

-----------------------------------------------------------------------------
(* append() and read(): the call, the rounds of its loop, its failure.     *)

WritePosition(d) == IF d.append THEN Len(content[d.inode]) ELSE d.pos

AppendBegin(s, slice) ==
  /\ call = Idle /\ s \in DOMAIN fd_
  /\ fd_[s] \in DOMAIN desc =>
       LET d == desc[fd_[s]]
       IN  /\ Cardinality(appended[d.inode]) < MaxAppends
           /\ WritePosition(d) + Len(slice) <= MaxLength
  /\ call' = [op |-> "append", slot |-> s, slice |-> slice,
              left |-> Len(slice),
              at |-> IF fd_[s] \in DOMAIN desc
                     THEN Len(content[desc[fd_[s]].inode]) ELSE 0]
  /\ result' = NoResult
  /\ UNCHANGED << kernelVars, fd_, history >>

Fd       == fd_[call.slot]
Appending == call.op = "append"
Reading   == call.op = "read"

(* Mutant: src does not advance.                                           *)
FirstBytes(n) == SubSeq(call.slice, 1, n)

(* The n bytes that a round of append() writes.                            *)
NextBytes(n) ==
  LET done == Len(call.slice) - call.left
  IN  SubSeq(call.slice, done + 1, done + n)

(* Mutant: what was asked for counts, not what was written.                *)
LeftAfterAsking(n) == call.left - call.left

LeftAfter(n) == call.left - n

WriteSome ==
  /\ Appending /\ Fd \in DOMAIN desc /\ desc[Fd].write
  /\ LET d == desc[Fd]
         i == d.inode
     IN  \E n \in 1..call.left :
           /\ content' =
                [content EXCEPT
                   ![i] = Written(@, WritePosition(d), NextBytes(n))]
           /\ desc' = IF d.append THEN desc
                      ELSE [desc EXCEPT ![Fd].pos = @ + n]
           /\ \/ /\ n # call.left
                 /\ call' = [call EXCEPT !.left = LeftAfter(n)]
                 /\ UNCHANGED appended
              \/ /\ n = call.left
                 /\ call' = Idle
                 /\ appended' = [appended EXCEPT ![i] = @ \cup
                      { [at |-> call.at, slice |-> call.slice,
                         synced |-> FALSE] }]
  /\ result' = NoResult
  /\ UNCHANGED << inode, durable, emptied, fd_, mixed, closeFailed >>

ReadBegin(s, offset, size) ==
  /\ call = Idle /\ s \in DOMAIN fd_
  /\ call' = [op |-> "read", slot |-> s, from |-> offset, size |-> size,
              offset |-> offset, left |-> size, short |-> FALSE,
              buf |-> [k \in 1..size |-> -1]]
  /\ result' = NoResult
  /\ UNCHANGED << kernelVars, fd_, history >>

(* Mutant: the offset of the next round is that of this one.               *)
SameOffset(n) == call.offset

NextOffset(n) == call.offset + n

(* Every round asks for `size` bytes and has them put at the start of buf. *)
(* left is a size_t: where it is negative here it has wrapped around,      *)
(* and size - left is still the number of bytes that were read.            *)
ReadSome ==
  /\ Reading /\ call.left # 0 /\ Fd \in DOMAIN desc
  /\ LET file == content[desc[Fd].inode]
         all  == Min({call.size, Len(file) - call.offset})
     IN  \E n \in 1..all :
           call' = [call EXCEPT
                      !.left = @ - n, !.offset = NextOffset(n),
                      !.short = (@ \/ n < all),
                      !.buf = [ k \in DOMAIN @ |->
                                  IF k <= n THEN file[call.offset + k]
                                  ELSE @[k] ]]
  /\ result' = NoResult
  /\ UNCHANGED << kernelVars, fd_, history >>

(* Mutant: the loop only ends when nothing is left.                        *)
ReadEndsWhenFull ==
  /\ Reading /\ Fd \in DOMAIN desc
  /\ call.left = 0
  /\ result' = [from |-> call.from, size |-> call.size,
                length |-> call.size - call.left, buf |-> call.buf,
                short |-> call.short,
                file |-> content[desc[Fd].inode]]
  /\ call' = Idle
  /\ UNCHANGED << kernelVars, fd_, history >>

(* The loop ends when nothing is left, or when a round reads no byte.      *)
ReadEnds ==
  /\ Reading /\ Fd \in DOMAIN desc
  /\ \/ call.left = 0
     \/ call.offset >= Len(content[desc[Fd].inode])
  /\ result' = [from |-> call.from, size |-> call.size,
                length |-> call.size - call.left, buf |-> call.buf,
                short |-> call.short,
                file |-> content[desc[Fd].inode]]
  /\ call' = Idle
  /\ UNCHANGED << kernelVars, fd_, history >>

Usable == Fd \in DOMAIN desc /\ (Appending => desc[Fd].write)

CallReturnsError ==
  /\ Appending \/ (Reading /\ call.left # 0)
  /\ call' = Idle /\ result' = NoResult
  /\ UNCHANGED << kernelVars, fd_, history >>

(* EBADF: the descriptor is not open, or not open for writing.             *)
BadDescriptor == call # Idle /\ ~Usable /\ CallReturnsError

(* Another errno, except EINTR.                                            *)
CallFails == call # Idle /\ Usable /\ CallReturnsError

(* EINTR: the loop makes another round.                                    *)
Interrupted ==
  /\ Appending \/ (Reading /\ call.left # 0)
  /\ UNCHANGED vars

(* The machine loses power and starts again with an empty program.  A name *)
(* outlives this, as it does on the common Linux file systems.             *)
Crash ==
  /\ content' \in [Inodes -> UNION { Surviving(i) : i \in Inodes }]
  /\ \A i \in Inodes : content'[i] \in Surviving(i)
  /\ durable' = content' /\ emptied' = [i \in Inodes |-> FALSE]
  /\ desc' = << >> /\ fd_' = << >>
  /\ call' = Idle /\ result' = NoResult
  /\ appended' = [ i \in Inodes |-> { r \in appended[i] : r.synced } ]
  /\ UNCHANGED << inode, mixed, closeFailed >>

CallStep == WriteSome \/ ReadSome \/ ReadEnds \/ BadDescriptor

Next ==
  \/ \E s \in Slots, name \in Names, isNew \in BOOLEAN :
       OpenRWFile(s, name, isNew)
  \/ \E s \in Slots, name \in Names : OpenReadableFile(s, name)
  \/ \E name \in Names : RemoveFile(name)
  \/ \E s \in Slots : Close(s) \/ Destroy(s) \/ Sync(s)
  \/ \E s \in Slots, slice \in Slices : AppendBegin(s, slice)
  \/ \E s \in Slots, read \in Reads : ReadBegin(s, read[1], read[2])
  \/ WriteSome \/ ReadSome \/ ReadEnds
  \/ BadDescriptor \/ CallFails \/ Interrupted
  \/ Crash

(* The program goes on with a call it has begun, and a system call is not  *)
(* interrupted for ever.  Nothing makes a system call fail, makes another  *)
(* call begin or the power go.                                             *)
Spec == Init /\ [][Next]_vars /\ WF_vars(CallStep)

-----------------------------------------------------------------------------
(* The descriptors that are open and the files that hold one correspond    *)
(* to each other, as long as no close(2) failed: no file uses or closes    *)
(* the descriptor of another one, although numbers are used again and the  *)
(* destructor closes once more, and none is leaked.                        *)
DescriptorsMatchFiles ==
  ~closeFailed =>
    /\ \A s \in DOMAIN fd_ :
         fd_[s] # NoFd => fd_[s] \in DOMAIN desc /\ desc[fd_[s]].slot = s
    /\ \A fd \in DOMAIN desc :
         desc[fd].slot \in DOMAIN fd_ /\ fd_[desc[fd].slot] = fd

(* A file holds the whole slice of an append, in its place.                *)
Holds(file, r) ==
  /\ r.at + Len(r.slice) <= Len(file)
  /\ SubSeq(file, r.at + 1, r.at + Len(r.slice)) = r.slice

(* Every append() that returned OK put its whole slice, in one piece, at   *)
(* what was then the end of the file, and no later append(), whole or      *)
(* failed, nor a crash after a sync() damages it, unless a file from       *)
(* newRWFile() was written along with another one.                         *)
WholeAppends ==
  ~closeFailed =>
    \A i \in Inodes : ~mixed[i] =>
      \A r \in appended[i] : Holds(content[i], r)

(* All along an append(), so also where it fails or power is lost, what    *)
(* is behind the old end of the file is the first part of the slice.       *)
TornIsPrefix ==
  Appending /\ ~closeFailed /\ Fd \in DOMAIN desc =>
    LET i == desc[Fd].inode
    IN  ~mixed[i] /\ desc[Fd].write =>
          content[i] = SubSeq(content[i], 1, call.at)
                         \o SubSeq(call.slice, 1, Len(call.slice) - call.left)

(* What was appended before a sync() that returned OK is on the disk.      *)
SyncedIsDurable ==
  ~closeFailed =>
    \A i \in Inodes : ~mixed[i] =>
      \A r \in appended[i] : r.synced => Holds(durable[i], r)

(* The files of openRWFile() are an AppendLog: however appends end and     *)
(* descriptors are closed and used again, a byte that is in a file stays   *)
(* where it is until the file is emptied or, unless it was synced, power   *)
(* is lost.  Until it is synced, a file that was emptied may get its old   *)
(* bytes back then, or be left empty or with a first part of the new ones. *)
(* Withdrawn are the files in which WholeAppends sees no use, and all      *)
(* files where a close(2) failed.                                          *)
Kept == IF closeFailed THEN {} ELSE { i \in Inodes : ~mixed[i] }

Log == INSTANCE AppendLog WITH
  Files   <- Inodes,
  Pieces  <- UNION { { SubSeq(s, m, n) : m \in 1..Len(s), n \in 1..Len(s) } :
                      s \in Slices },
  log     <- Restrict(content, Kept),
  disk    <- Restrict(durable, Kept),
  renewed <- { i \in Kept : emptied[i] },
  open    <- { desc[fd].inode : fd \in DOMAIN desc }

ImplementsLog == Log!LogSpec

(* The bytes of a file that a read of size bytes at from should return.    *)
Asked(file, from, size) ==
  SubSeq(file, from + 1, Min({from + size, Len(file)}))

(* What posix_file_test.cpp:93-104 asserts of read(), from the start and   *)
(* across the end of the file: the size and the bytes are the file's.      *)
ReadReturnsFile ==
  result # NoResult =>
    LET asked == Asked(result.file, result.from, result.size)
    IN  /\ result.length = Len(asked)
        /\ SubSeq(result.buf, 1, result.length) = asked

(* read() returns the bytes that were asked for, up to the end of the      *)
(* file, if no pread(2) returned fewer bytes than it could.                *)
ReadRightUnlessShort == (result # NoResult => ~result.short) => ReadReturnsFile

(* append() and read() return, however often a system call is interrupted  *)
(* or does only a part of its work.                                        *)
CallsReturn == call # Idle ~> call = Idle
=============================================================================
