--------------------------- MODULE PosixFileSystem ---------------------------
(***************************************************************************)
(* The directory operations of filesystem/posix_filesystem.cpp, and its    *)
(* file operations as far as names go (their files are those of            *)
(* PosixFile), over a tree of paths, and the Status that each returns.     *)
(*                                                                         *)
(* Every operation but listDir() is one system call, or one call of        *)
(* std::filesystem, and a return: one action.  iterateDir() is a loop      *)
(* around readdir(3), whose end and whose failure differ in errno alone,   *)
(* and has an action for each round.  Any system call may fail.            *)
(***************************************************************************)
EXTENDS Status, Integers, Sequences, FiniteSets, Functions

CONSTANTS
  Paths,      \* sequences of names below a directory that always exists
  Vars,       \* the Status variables of the program
  MaxStreams  \* descriptors there are for directory streams

ASSUME FileSystemAssumption ==
  /\ \A p \in Paths :
       /\ p \in Seq(Range(p)) /\ p # << >>
       /\ \A n \in 1..Len(p) :
            SubSeq(p, 1, n) \in Paths /\ p[n] \notin {".", ".."}
  /\ MaxStreams \in Nat \ {0}

VARIABLES
  tree,     \* the kernel's: what there is, "dir" or "file", at a path
  streams,  \* the kernel's: how many directory streams are open
  call,     \* the iterateDir() under way
  status,   \* the Status variables
  last,     \* history: the operation that has just returned
  lost,     \* history: a readdir(3) failed
  stale     \* history: the variables that kept their message when a
            \* Status without one was copied to them, and what has
            \* been copied or moved from these

callVars == << streams, call, lost >>
vars     == << tree, callVars, status, last, stale >>

Idle   == [op |-> "none"]
Errnos == { "0", "ENOENT", "EEXIST", "ENOTDIR", "ENOTEMPTY", "EISDIR",
            "EMFILE", "ENOMEM", "EIO" }
Dots(dir) == { Append(dir, "."), Append(dir, "..") }

(* The errors that a system call may meet for reasons of its own.          *)
Fault == "EIO"

Statuses ==
  [code : {"kOK", "kNotFound", "kAlreadyExist", "kIOError"},
   msg : {NoMsg} \cup Errnos]

TypeOK ==
  /\ DOMAIN tree \subseteq Paths
  /\ \A p \in DOMAIN tree : tree[p] \in {"dir", "file"}
  /\ streams \in 0..MaxStreams
  /\ call = Idle \/ (call.dir \in DOMAIN tree /\ call.errno \in Errnos)
  /\ status \in [Vars -> Statuses]
  /\ stale \subseteq Vars /\ lost \in BOOLEAN

Init ==
  /\ tree = << >> /\ streams = 0 /\ call = Idle
  /\ status = [v \in Vars |-> OK]
  /\ last = Idle /\ lost = FALSE /\ stale = {}

-----------------------------------------------------------------------------
(* The kernel: what a system call on a path makes of a tree.               *)

Outcome(errno, t) == [errno |-> errno, tree |-> t]

Ancestors(p) == { SubSeq(p, 1, n) : n \in 1..(Len(p) - 1) }

Is(t, p, kind) == p \in DOMAIN t /\ t[p] = kind

Below(t, p) ==
  { q \in DOMAIN t : Len(q) > Len(p) /\ SubSeq(q, 1, Len(p)) = p }

Children(t, p) == { q \in Below(t, p) : Len(q) = Len(p) + 1 }

With(t, paths, kind) ==
  [ q \in DOMAIN t \cup paths |-> IF q \in paths THEN kind ELSE t[q] ]

Without(t, paths) == Restrict(t, DOMAIN t \ paths)

(* How a path is not found.                                                *)
WalkErrno(t, p) ==
  IF \E q \in Ancestors(p) : Is(t, q, "file") THEN "ENOTDIR"
  ELSE IF ~(Ancestors(p) \subseteq DOMAIN t) THEN "ENOENT" ELSE "0"

LookupErrno(t, p) ==
  IF WalkErrno(t, p) = "0" /\ p \notin DOMAIN t THEN "ENOENT"
  ELSE WalkErrno(t, p)

(* A call that is to end with errno and tree t, or fails of itself.        *)
Calls(errno, old, new) ==
  { Outcome(errno, IF errno = "0" THEN new ELSE old), Outcome(Fault, old) }

Mkdir(t, p) ==
  Calls(IF WalkErrno(t, p) = "0" /\ p \in DOMAIN t THEN "EEXIST"
        ELSE WalkErrno(t, p),
        t, With(t, {p}, "dir"))

Rmdir(t, p) ==
  Calls(IF Is(t, p, "file") THEN "ENOTDIR"
        ELSE IF Below(t, p) # {} THEN "ENOTEMPTY" ELSE LookupErrno(t, p),
        t, Without(t, {p}))

Unlink(t, p) ==
  Calls(IF Is(t, p, "dir") THEN "EISDIR" ELSE LookupErrno(t, p),
        t, Without(t, {p}))

Access(t, p) == Calls(LookupErrno(t, p), t, t)

OpenToWrite(t, p) ==
  Calls(IF Is(t, p, "dir") THEN "EISDIR" ELSE WalkErrno(t, p),
        t, With(t, {p}, "file"))

(* std::filesystem::create_directories: the missing directories are made   *)
(* one after the other, and those made before a failure stay.              *)
CreateDirectories(t, p) ==
  LET path    == Ancestors(p) \cup {p}
      missing == path \ DOMAIN t
      made(n) == With(t, { q \in missing : Len(q) <= n }, "dir")
  IN  IF \E q \in path : Is(t, q, "file") THEN Calls("ENOTDIR", t, t)
      ELSE { Outcome("0", made(Len(p))) } \cup
           { Outcome(Fault, made(Len(q) - 1)) : q \in missing }

(* std::filesystem::remove_all: what is not there is no error, and a       *)
(* failure leaves a part of the tree, with all that leads to it.  Through  *)
(* a file, libraries differ.                                               *)
RemoveAll(t, p) ==
  LET all     == Below(t, p) \cup ({p} \cap DOMAIN t)
      Leaves(rest) ==
        rest # {} /\ \A q \in rest : Ancestors(q) \cap all \subseteq rest
  IN  { Outcome("0", Without(t, all)), Outcome(Fault, t) } \cup
      { Outcome(Fault, Without(t, all \ rest)) :
          rest \in { s \in SUBSET all : Leaves(s) } } \cup
      { Outcome("ENOTDIR", t) : e \in {WalkErrno(t, p)} \cap {"ENOTDIR"} }

-----------------------------------------------------------------------------
(* The program.                                                            *)

(* An operation on path p returns ioError(p, errno) and the caller assigns *)
(* it to v, by move since it is a temporary.                               *)
Return(op, v, p, errno, failed, names) ==
  /\ status' = [status EXCEPT ![v] = MoveAssigned(@, IoError(errno))]
  /\ last' = [op |-> op, var |-> v, path |-> p, failed |-> failed,
              names |-> names]
  /\ stale' = stale \ {v}

Perform(op, v, p, outcomes) ==
  /\ call = Idle
  /\ \E outcome \in outcomes :
       /\ tree' = outcome.tree
       /\ Return(op, v, p, outcome.errno, outcome.errno # "0", {})
  /\ UNCHANGED callVars

MakeDir(v, p)    == Perform("makeDir", v, p, Mkdir(tree, p))
FileExists(v, p) == Perform("fileExists", v, p, Access(tree, p))
RemoveDir(v, p)  == Perform("removeDir", v, p, Rmdir(tree, p))
RemoveFile(v, p) == Perform("removeFile", v, p, Unlink(tree, p))

MakeDirRecursively(v, p) ==
  Perform("makeDirRecursively", v, p, CreateDirectories(tree, p))

RemoveDirRecursively(v, p) ==
  Perform("removeDirRecursively", v, p, RemoveAll(tree, p))

(* openRWFile() and openReadableFile() build a string before they read     *)
(* errno, and an allocation that succeeds may still set it.                *)
AfterAllocation(outcomes) ==
  outcomes \cup
    { Outcome("ENOMEM", o.tree) : o \in { x \in outcomes : x.errno # "0" } }

OpenRWFile(v, p) ==
  Perform("openRWFile", v, p, AfterAllocation(OpenToWrite(tree, p)))

OpenReadableFile(v, p) ==
  Perform("openReadableFile", v, p, AfterAllocation(Access(tree, p)))

-----------------------------------------------------------------------------
(* listDir(): iterateDir() with a callback that adds the name to *result   *)
(* and never asks to stop.                                                 *)

OpenDirErrno(t, p) ==
  IF LookupErrno(t, p) # "0" THEN LookupErrno(t, p)
  ELSE IF t[p] # "dir" THEN "ENOTDIR"
  ELSE IF streams = MaxStreams THEN "EMFILE" ELSE "0"

ErrnoBefore == "0"

(* A call that returns before there is a stream or after it is closed.     *)
ListDirBegin(v, p) ==
  /\ call = Idle
  /\ \E outcome \in Calls(OpenDirErrno(tree, p), tree, tree) :
       \/ /\ outcome.errno # "0"
          /\ Return("listDir", v, p, outcome.errno, TRUE, {})
          /\ UNCHANGED << streams, call >>
       \/ /\ outcome.errno = "0"
          /\ streams' = streams + 1
          /\ call' = [op |-> "listDir", var |-> v, dir |-> p,
                      errno |-> ErrnoBefore, names |-> {},
                      left |-> Children(tree, p) \cup Dots(p)]
          /\ last' = Idle
          /\ UNCHANGED << status, stale >>
  /\ UNCHANGED << tree, lost >>

(* Mutant: what the callback made of errno is kept.                        *)
ErrnoOfCallback(before, after) == after

(* errno is saved before the callback, which may allocate, and put back.   *)
ErrnoAfterCallback(before, after) == before

(* Mutant: the directory itself and its parent are listed.                 *)
AllListed(name) == {name}

(* An entry is a path, as a path is what has a place in the tree.          *)
Listed(name) == {name} \ Dots(call.dir)

ReadDir(name) ==
  /\ call # Idle /\ name \in call.left
  /\ \E e \in {call.errno, "ENOMEM"} :
       call' = [call EXCEPT !.left = @ \ {name},
                            !.names = @ \cup Listed(name),
                            !.errno = ErrnoAfterCallback(@, e)]
  /\ UNCHANGED << tree, streams, lost, status, last, stale >>

(* readdir(3) fails: the call returns and the stream stays open.           *)
ReadDirFails ==
  /\ call # Idle
  /\ Return(call.op, call.var, call.dir, Fault, TRUE, call.names)
  /\ lost' = TRUE /\ call' = Idle
  /\ UNCHANGED << tree, streams >>

(* Mutant: closedir(3) is called again after it has failed.                *)
ClosedAgain(errno) == IF errno = "0" THEN Idle ELSE call

AfterClose(errno) == Idle

(* readdir(3) has no more entries, which leaves errno alone; a closedir(3) *)
(* that fails has released the stream.                                     *)
ReadDirEnds ==
  /\ call # Idle /\ call.left = {}
  /\ \/ /\ call.errno # "0"
        /\ Return(call.op, call.var, call.dir, call.errno, FALSE, call.names)
        /\ call' = Idle
        /\ UNCHANGED streams
     \/ /\ call.errno = "0"
        /\ \E errno \in {"0", Fault} :
             /\ Return(call.op, call.var, call.dir, errno, errno # "0",
                       call.names)
             /\ call' = AfterClose(errno)
        /\ streams' = streams - 1
  /\ UNCHANGED << tree, lost >>

-----------------------------------------------------------------------------
(* What a program does with its Status variables; from a copied Status     *)
(* without a message a variable keeps its own.                             *)

Assign(v, w) ==
  /\ call = Idle
  /\ status' = [status EXCEPT ![v] = CopyAssigned(@, status[w])]
  /\ stale' = (stale \ {v}) \cup
       { u \in {v} : IF status[w].msg = NoMsg THEN status[v].msg # NoMsg
                     ELSE w \in stale }
  /\ last' = Idle
  /\ UNCHANGED << tree, callVars >>

(* v is a new variable, constructed as a copy.                             *)
Copy(v, w) ==
  /\ call = Idle
  /\ status' = [status EXCEPT ![v] = CopyOf(status[w])]
  /\ stale' = (stale \ {v}) \cup { u \in {v} : w \in stale }
  /\ last' = Idle
  /\ UNCHANGED << tree, callVars >>

Move(v, w) ==
  /\ call = Idle
  /\ status' = IF v = w THEN status
               ELSE [status EXCEPT ![v] = MoveAssigned(@, status[w]),
                                   ![w] = MovedFrom(@)]
  /\ stale' = (stale \ {v, w}) \cup { u \in {v} : w \in stale }
  /\ last' = Idle
  /\ UNCHANGED << tree, callVars >>

Next ==
  \/ \E v \in Vars, p \in Paths :
       \/ MakeDir(v, p) \/ MakeDirRecursively(v, p) \/ FileExists(v, p)
       \/ RemoveDir(v, p) \/ RemoveDirRecursively(v, p) \/ RemoveFile(v, p)
       \/ OpenRWFile(v, p) \/ OpenReadableFile(v, p) \/ ListDirBegin(v, p)
  \/ call # Idle /\ \E name \in call.left : ReadDir(name)
  \/ ReadDirFails \/ ReadDirEnds
  \/ \E v \in Vars, w \in Vars : Assign(v, w) \/ Copy(v, w) \/ Move(v, w)

Spec == Init /\ [][Next]_vars

-----------------------------------------------------------------------------
Removals == { "removeDir", "removeDirRecursively", "removeFile" }

Answer == status[last.var]

Exists == last.path \in DOMAIN tree

(* A caller may act on a Status as filesystem_test.cpp does: it is an      *)
(* error exactly if something failed, OK of a removal means that nothing   *)
(* is there and OK of any other operation that something is, NotFound that *)
(* nothing is and AlreadyExist that something is, also after an operation  *)
(* on many directories that failed on its way; and what is missing, with   *)
(* all that leads to it there, is reported as NotFound.                    *)
StatusTellsTruth ==
  last # Idle =>
    /\ ~Ok(Answer) <=> last.failed
    /\ Ok(Answer) => (Exists <=> last.op \notin Removals)
    /\ IsNotFound(Answer) => ~Exists
    /\ Answer.code = "kAlreadyExist" => Exists
    /\ Answer.code = "kIOError" /\ last.op \in {"fileExists", "removeDir"} =>
         \/ Answer.msg = Fault
         \/ LookupErrno(tree, last.path) # "ENOENT"

(* listDir() is OK only with all the names of the directory and no other,  *)
(* and an error leaves a part of them.                                     *)
ListingComplete ==
  last # Idle /\ last.op = "listDir" =>
    /\ Ok(Answer) => last.names = Children(tree, last.path)
    /\ last.names \subseteq Children(tree, last.path)

(* Unless a readdir(3) failed, a directory stream is open only during the  *)
(* listDir() that opened it: listing a directory again and again does not  *)
(* use up the descriptors, whatever else fails.                            *)
StreamsClosed == ~lost => streams = IF call = Idle THEN 0 ELSE 1

(* However statuses are moved and copied, a message belongs to the code it *)
(* is found with, and OK has none, except in a variable that kept its      *)
(* message through a copy assignment.                                      *)
MessagesBelong ==
  \A v \in Vars \ stale :
    status[v].msg # NoMsg =>
      status[v] = IoError(status[v].msg)
=============================================================================
