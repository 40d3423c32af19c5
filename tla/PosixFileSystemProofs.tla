------------------------ MODULE PosixFileSystemProofs ------------------------
(***************************************************************************)
(* Two invariants of PosixFileSystem for all values of the constants:      *)
(* directory streams are given back (StreamsClosed), and messages go with  *)
(* their codes (MessagesBelong).                                           *)
(***************************************************************************)
EXTENDS PosixFileSystem, SequenceTheorems, TLAPS

(* What iterateDir() keeps while it runs: errno is 0, or the end of the    *)
(* directory would be taken for a failure and its stream be lost.          *)
Listing(c) ==
  /\ c = [f \in {"op", "var", "dir", "errno", "names", "left"} |-> c[f]]
  /\ c.op = "listDir" /\ c.var \in Vars /\ c.errno = "0"

ListingInv ==
  /\ call # Idle => Listing(call)
  /\ StreamsClosed

(* A Status has a code and a message and nothing else, in every variable.  *)
StatusInv ==
  /\ status = [v \in Vars |-> StatusOf(status[v].code, status[v].msg)]
  /\ MessagesBelong

-----------------------------------------------------------------------------
LEMMA IoErrorMessage ==
  ASSUME NEW errno
  PROVE  /\ IoError(errno) =
              StatusOf(IoError(errno).code, IoError(errno).msg)
         /\ IoError(errno).msg # NoMsg => IoError(errno).msg = errno
BY DEF IoError, StatusOf, OK, NotFound, AlreadyExist, IOError, NoMsg

(* A variable to which an operation's Status was moved is like new.        *)
LEMMA ReturnStatus ==
  ASSUME StatusInv, NEW op, NEW v \in Vars, NEW p, NEW errno, NEW failed,
         NEW names, Return(op, v, p, errno, failed, names)
  PROVE  StatusInv'
<1>1. /\ status' = [status EXCEPT ![v] = IoError(errno)]
      /\ stale' = stale \ {v}
  BY DEF Return, MoveAssigned
<1>2. /\ status'[v] = IoError(errno)
      /\ \A w \in Vars \ {v} : status'[w] = status[w]
      /\ DOMAIN status' = Vars
  BY <1>1 DEF StatusInv
<1>3. status' = [w \in Vars |-> StatusOf(status'[w].code, status'[w].msg)]
  <2>1. \A w \in Vars :
          status'[w] = StatusOf(status'[w].code, status'[w].msg)
    BY <1>2, IoErrorMessage DEF StatusInv
  <2> QED
    BY <1>1, <1>2, <2>1 DEF StatusInv
<1>4. MessagesBelong'
  BY <1>1, <1>2, IoErrorMessage DEF StatusInv, MessagesBelong
<1> QED
  BY <1>3, <1>4 DEF StatusInv

LEMMA PerformKeeps ==
  ASSUME StatusInv, ListingInv, NEW op, NEW v \in Vars, NEW p, NEW outcomes,
         Perform(op, v, p, outcomes)
  PROVE  StatusInv' /\ ListingInv'
<1>1. PICK outcome \in outcomes :
        Return(op, v, p, outcome.errno, outcome.errno # "0", {})
  BY DEF Perform
<1>2. StatusInv'
  BY <1>1, ReturnStatus
<1>3. ListingInv'
  BY DEF Perform, ListingInv, StreamsClosed, callVars
<1> QED
  BY <1>2, <1>3

-----------------------------------------------------------------------------
LEMMA ListDirKeeps ==
  ASSUME StatusInv, ListingInv
  PROVE  /\ \A v \in Vars, p \in Paths :
              ListDirBegin(v, p) => StatusInv' /\ ListingInv'
         /\ \A name : ReadDir(name) => StatusInv' /\ ListingInv'
         /\ ReadDirFails => StatusInv' /\ ListingInv'
         /\ ReadDirEnds => StatusInv' /\ ListingInv'
<1>1. ASSUME NEW v \in Vars, NEW p \in Paths, ListDirBegin(v, p)
      PROVE  StatusInv' /\ ListingInv'
  <2>1. PICK outcome \in Calls(OpenDirErrno(tree, p), tree, tree) :
          \/ /\ Return("listDir", v, p, outcome.errno, TRUE, {})
             /\ UNCHANGED << streams, call >>
          \/ /\ streams' = streams + 1
             /\ call' = [op |-> "listDir", var |-> v, dir |-> p,
                         errno |-> ErrnoBefore, names |-> {},
                         left |-> Children(tree, p) \cup Dots(p)]
             /\ UNCHANGED << status, stale >>
    BY <1>1 DEF ListDirBegin
  <2>2. call = Idle /\ lost' = lost
    BY <1>1 DEF ListDirBegin
  <2>3. CASE /\ Return("listDir", v, p, outcome.errno, TRUE, {})
             /\ UNCHANGED << streams, call >>
    <3>1. StatusInv'
      BY <2>3, ReturnStatus
    <3> QED
      BY <2>2, <2>3, <3>1 DEF ListingInv, StreamsClosed
  <2>4. CASE /\ streams' = streams + 1
             /\ call' = [op |-> "listDir", var |-> v, dir |-> p,
                         errno |-> ErrnoBefore, names |-> {},
                         left |-> Children(tree, p) \cup Dots(p)]
             /\ UNCHANGED << status, stale >>
    <3>1. Listing(call') /\ call' # Idle
      BY <2>4 DEF Listing, ErrnoBefore, Idle
    <3>2. StatusInv'
      BY <2>4 DEF StatusInv, MessagesBelong
    <3> QED
      BY <2>2, <2>4, <3>1, <3>2 DEF ListingInv, StreamsClosed, Listing
  <2> QED
    BY <2>1, <2>3, <2>4
<1>2. ASSUME NEW name, ReadDir(name)
      PROVE  StatusInv' /\ ListingInv'
  <2>1. PICK e :
          call' = [call EXCEPT !.left = @ \ {name},
                               !.names = @ \cup Listed(name),
                               !.errno = ErrnoAfterCallback(@, e)]
    BY <1>2 DEF ReadDir
  <2>2. call # Idle /\ Listing(call)
    BY <1>2 DEF ReadDir, ListingInv
  <2>3. Listing(call')
    BY <2>1, <2>2 DEF Listing, ErrnoAfterCallback
  <2>4. call' # Idle
    BY <2>3 DEF Listing, Idle
  <2> QED
    BY <1>2, <2>2, <2>3, <2>4
    DEF ReadDir, ListingInv, StreamsClosed, StatusInv, MessagesBelong, Listing
<1>3. ASSUME ReadDirFails
      PROVE  StatusInv' /\ ListingInv'
  <2>1. StatusInv'
    BY <1>3, ReturnStatus DEF ReadDirFails, ListingInv, Listing
  <2> QED
    BY <1>3, <2>1 DEF ReadDirFails, ListingInv, StreamsClosed
<1>4. ASSUME ReadDirEnds
      PROVE  StatusInv' /\ ListingInv'
  <2>1. call # Idle /\ Listing(call) /\ call.errno = "0"
    BY <1>4 DEF ReadDirEnds, ListingInv, Listing
  <2>2. PICK errno \in {"0", Fault} :
          /\ Return(call.op, call.var, call.dir, errno, errno # "0",
                    call.names)
          /\ call' = Idle
    BY <1>4, <2>1 DEF ReadDirEnds, AfterClose
  <2>3. StatusInv'
    BY <2>1, <2>2, ReturnStatus DEF Listing
  <2>4. streams' = streams - 1 /\ lost' = lost
    BY <1>4, <2>1 DEF ReadDirEnds
  <2> QED
    BY <2>1, <2>2, <2>3, <2>4 DEF ListingInv, StreamsClosed
<1> QED
  BY <1>1, <1>2, <1>3, <1>4

-----------------------------------------------------------------------------
(* Assigning, copying and moving, also to the variable itself.             *)
LEMMA VariablesKeep ==
  ASSUME StatusInv, ListingInv, NEW v \in Vars, NEW w \in Vars,
         Assign(v, w) \/ Copy(v, w) \/ Move(v, w)
  PROVE  StatusInv' /\ ListingInv'
<1>1. ListingInv'
  BY DEF Assign, Copy, Move, ListingInv, StreamsClosed, callVars
<1>2. \A u \in Vars : status[u] = StatusOf(status[u].code, status[u].msg)
  BY DEF StatusInv
<1>3. \A u \in Vars \ stale :
        status[u].msg # NoMsg => status[u] = IoError(status[u].msg)
  BY DEF StatusInv, MessagesBelong
<1>4. CASE Assign(v, w)
  <2>1. /\ status' = [status EXCEPT ![v] = CopyAssigned(@, status[w])]
        /\ stale' = (stale \ {v}) \cup
             { u \in {v} : IF status[w].msg = NoMsg
                           THEN status[v].msg # NoMsg ELSE w \in stale }
    BY <1>4 DEF Assign
  <2>2. /\ status'[v] = StatusOf(status[w].code,
             IF status[w].msg = NoMsg THEN status[v].msg ELSE status[w].msg)
        /\ \A u \in Vars \ {v} : status'[u] = status[u]
        /\ status' = [u \in Vars |-> status'[u]]
    BY <2>1 DEF StatusInv, CopyAssigned, StatusOf
  <2>3. \A u \in Vars :
          status'[u] = StatusOf(status'[u].code, status'[u].msg)
    BY <1>2, <2>2 DEF StatusOf
  <2>4. v \notin stale' =>
          (status'[v].msg # NoMsg => status'[v] = IoError(status'[v].msg))
    <3>1. CASE status[w].msg = NoMsg
      BY <2>1, <2>2, <3>1 DEF StatusOf
    <3>2. CASE status[w].msg # NoMsg
      <4>1. status'[v] = status[w]
        BY <1>2, <2>2, <3>2
      <4> QED
        BY <1>3, <2>1, <3>2, <4>1
    <3> QED
      BY <3>1, <3>2
  <2>5. \A u \in Vars \ {v} : u \in stale <=> u \in stale'
    BY <2>1
  <2>6. MessagesBelong'
    BY <1>3, <2>2, <2>4, <2>5 DEF MessagesBelong
  <2> QED
    BY <1>1, <2>2, <2>3, <2>6 DEF StatusInv
<1>5. CASE Copy(v, w)
  <2>1. /\ status' = [status EXCEPT ![v] = status[w]]
        /\ stale' = (stale \ {v}) \cup { u \in {v} : w \in stale }
    BY <1>5 DEF Copy, CopyOf
  <2>2. /\ status'[v] = status[w]
        /\ \A u \in Vars \ {v} : status'[u] = status[u]
        /\ status' = [u \in Vars |-> status'[u]]
    BY <2>1 DEF StatusInv
  <2>3. \A u \in Vars :
          status'[u] = StatusOf(status'[u].code, status'[u].msg)
    BY <1>2, <2>2
  <2>4. /\ v \in stale' <=> w \in stale
        /\ \A u \in Vars \ {v} : u \in stale <=> u \in stale'
    BY <2>1
  <2>5. MessagesBelong'
    BY <1>3, <2>2, <2>4 DEF MessagesBelong
  <2> QED
    BY <1>1, <2>2, <2>3, <2>5 DEF StatusInv
<1>6. CASE Move(v, w)
  <2>1. CASE v = w
    <3>1. status' = status /\ stale' = stale \ ({v} \ stale)
      BY <1>6, <2>1 DEF Move
    <3>2. \A u \in Vars : u \in stale' <=> u \in stale
      BY <3>1
    <3>3. MessagesBelong'
      BY <1>3, <3>1, <3>2 DEF MessagesBelong
    <3> QED
      BY <1>1, <3>1, <3>3 DEF StatusInv
  <2>2. CASE v # w
    <3>1. /\ status' = [status EXCEPT ![v] = status[w],
                                      ![w] = [@ EXCEPT !.msg = NoMsg]]
          /\ stale' = (stale \ {v, w}) \cup { u \in {v} : w \in stale }
      BY <1>6, <2>2 DEF Move, MoveAssigned, MovedFrom
    <3>2. /\ status'[v] = status[w]
          /\ status'[w] = [status[w] EXCEPT !.msg = NoMsg]
          /\ \A u \in Vars \ {v, w} : status'[u] = status[u]
          /\ status' = [u \in Vars |-> status'[u]]
      BY <2>2, <3>1 DEF StatusInv
    <3>3. status'[w] = StatusOf(status[w].code, NoMsg)
      BY <1>2, <3>2 DEF StatusOf
    <3>4. \A u \in Vars :
            status'[u] = StatusOf(status'[u].code, status'[u].msg)
      BY <1>2, <3>2, <3>3 DEF StatusOf
    <3>5. /\ v \in stale' <=> w \in stale
          /\ \A u \in Vars \ {v, w} : u \in stale <=> u \in stale'
      BY <3>1
    <3>6. MessagesBelong'
      BY <1>3, <3>2, <3>3, <3>5 DEF MessagesBelong, StatusOf
    <3> QED
      BY <1>1, <3>2, <3>4, <3>6 DEF StatusInv
  <2> QED
    BY <2>1, <2>2
<1> QED
  BY <1>4, <1>5, <1>6

-----------------------------------------------------------------------------
LEMMA InvInit == Init => StatusInv /\ ListingInv
<1> SUFFICES ASSUME Init PROVE StatusInv /\ ListingInv
  OBVIOUS
<1>1. status = [v \in Vars |-> OK]
  BY DEF Init
<1>2. \A v \in Vars :
        /\ status[v] = StatusOf(status[v].code, status[v].msg)
        /\ status[v].msg = NoMsg
  BY <1>1 DEF OK, StatusOf
<1>3. StatusInv
  BY <1>1, <1>2 DEF StatusInv, MessagesBelong
<1>4. ListingInv
  BY DEF Init, ListingInv, StreamsClosed
<1> QED
  BY <1>3, <1>4

LEMMA InvNext ==
  ASSUME StatusInv, ListingInv, [Next]_vars
  PROVE  StatusInv' /\ ListingInv'
<1>1. ASSUME NEW v \in Vars, NEW p \in Paths, NEW op, NEW outcomes,
             Perform(op, v, p, outcomes)
      PROVE  StatusInv' /\ ListingInv'
  BY <1>1, PerformKeeps
<1>2. ASSUME NEW v \in Vars, NEW p \in Paths,
             \/ MakeDir(v, p) \/ MakeDirRecursively(v, p) \/ FileExists(v, p)
             \/ RemoveDir(v, p) \/ RemoveDirRecursively(v, p)
             \/ RemoveFile(v, p) \/ OpenRWFile(v, p)
             \/ OpenReadableFile(v, p)
      PROVE  StatusInv' /\ ListingInv'
  BY <1>1, <1>2
  DEF MakeDir, MakeDirRecursively, FileExists, RemoveDir,
      RemoveDirRecursively, RemoveFile, OpenRWFile, OpenReadableFile
<1>3. CASE UNCHANGED vars
  BY <1>3 DEF vars, callVars, StatusInv, ListingInv, MessagesBelong,
              StreamsClosed
<1> QED
  BY <1>2, <1>3, ListDirKeeps, VariablesKeep DEF Next

(* Unless a readdir(3) failed, iterateDir() gives back each directory      *)
(* stream: its test of errno never takes the end of a directory for a      *)
(* failure, whatever the callback does to errno.                           *)
THEOREM StreamsAreClosed == Spec => []StreamsClosed
<1>1. ListingInv => StreamsClosed
  BY DEF ListingInv
<1> QED
  BY <1>1, InvInit, InvNext, PTL DEF Spec

(* A message of a Status is the one of the error that its code names, but  *)
(* for variables that kept theirs when a Status without one was assigned.  *)
THEOREM MessagesAreRight == Spec => []MessagesBelong
<1>1. StatusInv => MessagesBelong
  BY DEF StatusInv
<1> QED
  BY <1>1, InvInit, InvNext, PTL DEF Spec

-----------------------------------------------------------------------------
(* Paths and their ancestors.                                              *)
LEMMA PathSequence ==
  ASSUME FileSystemAssumption, NEW p \in Paths
  PROVE  /\ p \in Seq(Range(p)) /\ Len(p) \in Nat \ {0}
         /\ \A n \in 1..Len(p) :
              /\ SubSeq(p, 1, n) \in Paths
              /\ Len(SubSeq(p, 1, n)) = n
              /\ \A m \in 1..n : SubSeq(SubSeq(p, 1, n), 1, m)
                                 = SubSeq(p, 1, m)
<1>1. p \in Seq(Range(p)) /\ p # << >>
  BY DEF FileSystemAssumption
<1>2. Len(p) \in Nat \ {0}
  BY <1>1, EmptySeq, LenProperties
<1>3. ASSUME NEW n \in 1..Len(p)
      PROVE  /\ SubSeq(p, 1, n) \in Paths
             /\ Len(SubSeq(p, 1, n)) = n
             /\ \A m \in 1..n : SubSeq(SubSeq(p, 1, n), 1, m)
                                = SubSeq(p, 1, m)
  <2>1. SubSeq(p, 1, n) \in Paths
    BY DEF FileSystemAssumption
  <2>2. Len(SubSeq(p, 1, n)) = n
    BY <1>1, <1>2
  <2>3. ASSUME NEW m \in 1..n
        PROVE  SubSeq(SubSeq(p, 1, n), 1, m) = SubSeq(p, 1, m)
    BY <1>1, <1>2
  <2> QED
    BY <2>1, <2>2, <2>3
<1> QED
  BY <1>1, <1>2, <1>3

LEMMA AncestorsOfPath ==
  ASSUME FileSystemAssumption, NEW p \in Paths
  PROVE  \A q \in Ancestors(p) :
           /\ q \in Paths /\ Len(q) < Len(p) /\ q # p
           /\ Ancestors(q) \subseteq Ancestors(p)
<1> SUFFICES ASSUME NEW q \in Ancestors(p)
             PROVE  /\ q \in Paths /\ Len(q) < Len(p) /\ q # p
                    /\ Ancestors(q) \subseteq Ancestors(p)
  OBVIOUS
<1>1. PICK n \in 1..(Len(p) - 1) : q = SubSeq(p, 1, n)
  BY DEF Ancestors
<1>2. n \in 1..Len(p) /\ n < Len(p)
  BY PathSequence
<1>3. q \in Paths /\ Len(q) = n
        /\ \A m \in 1..n : SubSeq(q, 1, m) = SubSeq(p, 1, m)
  BY <1>1, <1>2, PathSequence
<1>4. ASSUME NEW r \in Ancestors(q) PROVE r \in Ancestors(p)
  <2>1. PICK m \in 1..(n - 1) : r = SubSeq(q, 1, m)
    BY <1>3 DEF Ancestors
  <2>2. m \in 1..n /\ m \in 1..(Len(p) - 1)
    BY <1>2, PathSequence
  <2> QED
    BY <1>3, <2>1, <2>2 DEF Ancestors
<1> QED
  BY <1>2, <1>3, <1>4

(* What is below a path is what has it for an ancestor.                    *)
LEMMA BelowIsUnder ==
  ASSUME FileSystemAssumption, NEW t, DOMAIN t \subseteq Paths,
         NEW p \in Paths, NEW q \in DOMAIN t
  PROVE  q \in Below(t, p) <=> p \in Ancestors(q)
<1>1. Len(p) \in Nat \ {0} /\ Len(q) \in Nat \ {0}
  BY PathSequence
<1>2. ASSUME q \in Below(t, p) PROVE p \in Ancestors(q)
  <2>1. Len(q) > Len(p) /\ SubSeq(q, 1, Len(p)) = p
    BY <1>2 DEF Below
  <2>2. Len(p) \in 1..(Len(q) - 1)
    BY <1>1, <2>1
  <2> QED
    BY <2>1, <2>2 DEF Ancestors
<1>3. ASSUME p \in Ancestors(q) PROVE q \in Below(t, p)
  <2>1. PICK n \in 1..(Len(q) - 1) : p = SubSeq(q, 1, n)
    BY <1>3 DEF Ancestors
  <2>2. Len(p) = n /\ Len(q) > n
    BY <1>1, <2>1, PathSequence
  <2> QED
    BY <2>1, <2>2 DEF Below
<1> QED
  BY <1>2, <1>3

-----------------------------------------------------------------------------
(* A tree that a file system may have: every path in it is of one of the   *)
(* two kinds and stands below directories.                                 *)
WellFormed(t) ==
  /\ DOMAIN t \subseteq Paths
  /\ \A p \in DOMAIN t : t[p] \in {"dir", "file"}
  /\ \A p \in DOMAIN t : \A q \in Ancestors(p) : Is(t, q, "dir")

(* What StatusTellsTruth asks of the outcome of an operation on a path.    *)
Truthful(op, p, outcome) ==
  /\ outcome.errno \in Errnos
  /\ WellFormed(outcome.tree)
  /\ outcome.errno = "0" =>
       (p \in DOMAIN outcome.tree <=> op \notin Removals)
  /\ outcome.errno = "ENOENT" => p \notin DOMAIN outcome.tree
  /\ outcome.errno = "EEXIST" => p \in DOMAIN outcome.tree
  /\ op \in {"fileExists", "removeDir"} =>
       outcome.errno \in {"0", "ENOENT", "EEXIST", Fault}
         \/ LookupErrno(outcome.tree, p) # "ENOENT"

(* The walk to a path that is there ends well; if it does not find a       *)
(* directory, the path is not there either.                                *)
LEMMA Walks ==
  ASSUME NEW t, WellFormed(t), NEW p \in Paths
  PROVE  /\ p \in DOMAIN t => WalkErrno(t, p) = "0" /\ LookupErrno(t, p) = "0"
         /\ WalkErrno(t, p) \in {"0", "ENOENT", "ENOTDIR"}
         /\ LookupErrno(t, p) \in {"0", "ENOENT", "ENOTDIR"}
         /\ WalkErrno(t, p) = "0" =>
              \A q \in Ancestors(p) : Is(t, q, "dir")
         /\ LookupErrno(t, p) = "0" => p \in DOMAIN t
<1>1. ASSUME p \in DOMAIN t PROVE WalkErrno(t, p) = "0"
  BY <1>1 DEF WellFormed, WalkErrno, Is
<1>2. ASSUME WalkErrno(t, p) = "0", NEW q \in Ancestors(p)
      PROVE  Is(t, q, "dir")
  <2>1. q \in DOMAIN t /\ ~Is(t, q, "file")
    BY <1>2 DEF WalkErrno
  <2> QED
    BY <2>1 DEF Is, WellFormed
<1>3. WalkErrno(t, p) \in {"0", "ENOENT", "ENOTDIR"}
  BY DEF WalkErrno
<1> QED
  BY <1>1, <1>2, <1>3 DEF LookupErrno

(* A path with directories for ancestors may be added, and changed unless  *)
(* a directory becomes a file.                                             *)
LEMMA AddedPath ==
  ASSUME FileSystemAssumption, NEW t, WellFormed(t), NEW p \in Paths,
         \A q \in Ancestors(p) : Is(t, q, "dir"),
         NEW kind \in {"dir", "file"}, kind = "dir" \/ ~Is(t, p, "dir")
  PROVE  WellFormed(With(t, {p}, kind)) /\ p \in DOMAIN With(t, {p}, kind)
<1> DEFINE u == With(t, {p}, kind)
<1>1. /\ DOMAIN u = DOMAIN t \cup {p} /\ u[p] = kind
      /\ \A q \in DOMAIN t \ {p} : u[q] = t[q]
  BY DEF With
<1> HIDE DEF u
<1>2. ASSUME NEW q \in DOMAIN u, NEW r \in Ancestors(q)
      PROVE  Is(u, r, "dir")
  <2>1. Is(t, r, "dir")
    BY <1>1 DEF WellFormed
  <2> QED
    BY <1>1, <2>1 DEF Is
<1> QED
  BY <1>1, <1>2 DEF WellFormed, u

(* A set of paths may be removed with all that is below them.              *)
LEMMA RemovedPaths ==
  ASSUME NEW t, WellFormed(t), NEW gone,
         \A p \in DOMAIN t : p \notin gone => Ancestors(p) \cap gone = {}
  PROVE  /\ WellFormed(Without(t, gone))
         /\ DOMAIN Without(t, gone) = DOMAIN t \ gone
BY DEF WellFormed, Without, Restrict, Is

LEMMA RemovedPath ==
  ASSUME NEW t, WellFormed(t), NEW p, \A q \in DOMAIN t : p \notin Ancestors(q)
  PROVE  /\ WellFormed(Without(t, {p}))
         /\ DOMAIN Without(t, {p}) = DOMAIN t \ {p}
<1>1. \A q \in DOMAIN t : q \notin {p} => Ancestors(q) \cap {p} = {}
  OBVIOUS
<1> QED
  BY <1>1, RemovedPaths

-----------------------------------------------------------------------------
(* Each system call.                                                       *)
LEMMA FaultIsNot ==
  /\ Fault \in Errnos
  /\ Fault \notin {"0", "ENOENT", "EEXIST"}
BY DEF Fault, Errnos

(* A call is truthful if what it is to end with is.                        *)
LEMMA CallsTruthful ==
  ASSUME NEW op, NEW p, NEW errno, NEW t, NEW u, WellFormed(t),
         Truthful(op, p, Outcome(errno, IF errno = "0" THEN u ELSE t))
  PROVE  \A outcome \in Calls(errno, t, u) : Truthful(op, p, outcome)
<1>1. Truthful(op, p, Outcome(Fault, t))
  BY FaultIsNot DEF Truthful, Outcome
<1> QED
  BY <1>1 DEF Calls

LEMMA MkdirTruthful ==
  ASSUME FileSystemAssumption, NEW t, WellFormed(t), NEW p \in Paths
  PROVE  \A outcome \in Mkdir(t, p) : Truthful("makeDir", p, outcome)
<1> DEFINE errno == IF WalkErrno(t, p) = "0" /\ p \in DOMAIN t THEN "EEXIST"
                    ELSE WalkErrno(t, p)
           u == With(t, {p}, "dir")
<1>1. CASE errno = "0"
  <2>1. WellFormed(u) /\ p \in DOMAIN u
    BY <1>1, Walks, AddedPath
  <2>2. Truthful("makeDir", p, Outcome(errno, u))
    BY <1>1, <2>1 DEF Truthful, Outcome, Errnos, Removals
  <2> QED
    BY <1>1, <2>2, CallsTruthful DEF Mkdir
<1>2. CASE errno # "0"
  <2>1. /\ errno \in Errnos
        /\ errno = "ENOENT" => p \notin DOMAIN t
        /\ errno = "EEXIST" => p \in DOMAIN t
    BY Walks DEF Errnos
  <2>2. Truthful("makeDir", p, Outcome(errno, t))
    BY <1>2, <2>1 DEF Truthful, Outcome
  <2> QED
    BY <1>2, <2>2, CallsTruthful DEF Mkdir
<1> QED
  BY <1>1, <1>2

LEMMA RmdirTruthful ==
  ASSUME FileSystemAssumption, NEW t, WellFormed(t), NEW p \in Paths
  PROVE  \A outcome \in Rmdir(t, p) : Truthful("removeDir", p, outcome)
<1> DEFINE errno == IF Is(t, p, "file") THEN "ENOTDIR"
                    ELSE IF Below(t, p) # {} THEN "ENOTEMPTY"
                    ELSE LookupErrno(t, p)
           u == Without(t, {p})
<1>1. CASE errno = "0"
  <2>1. Below(t, p) = {}
    BY <1>1
  <2>2. \A q \in DOMAIN t : p \notin Ancestors(q)
    BY <2>1, BelowIsUnder DEF WellFormed
  <2>3. WellFormed(u) /\ DOMAIN u = DOMAIN t \ {p}
    BY <2>2, RemovedPath
  <2>4. Truthful("removeDir", p, Outcome(errno, u))
    BY <1>1, <2>3 DEF Truthful, Outcome, Errnos, Removals
  <2> QED
    BY <1>1, <2>4, CallsTruthful DEF Rmdir
<1>2. CASE errno # "0"
  <2>1. /\ errno \in {"ENOTDIR", "ENOTEMPTY", "ENOENT"}
        /\ errno = "ENOENT" => p \notin DOMAIN t
    BY <1>2, Walks
  <2>2. ASSUME errno # "ENOENT" PROVE LookupErrno(t, p) # "ENOENT"
    <3>1. CASE Is(t, p, "file")
      BY <3>1, Walks DEF Is
    <3>2. CASE Below(t, p) # {}
      <4>1. PICK q \in DOMAIN t : q \in Below(t, p)
        BY <3>2 DEF Below
      <4>2. p \in Ancestors(q)
        BY <4>1, BelowIsUnder DEF WellFormed
      <4>3. p \in DOMAIN t
        BY <4>2 DEF WellFormed, Is
      <4> QED
        BY <4>3, Walks
    <3>3. CASE ~Is(t, p, "file") /\ Below(t, p) = {}
      BY <2>2, <3>3
    <3> QED
      BY <3>1, <3>2, <3>3
  <2>3. Truthful("removeDir", p, Outcome(errno, t))
    BY <2>1, <2>2 DEF Truthful, Outcome, Errnos
  <2> QED
    BY <1>2, <2>3, CallsTruthful DEF Rmdir
<1> QED
  BY <1>1, <1>2

LEMMA UnlinkTruthful ==
  ASSUME FileSystemAssumption, NEW t, WellFormed(t), NEW p \in Paths
  PROVE  \A outcome \in Unlink(t, p) : Truthful("removeFile", p, outcome)
<1> DEFINE errno == IF Is(t, p, "dir") THEN "EISDIR" ELSE LookupErrno(t, p)
           u == Without(t, {p})
<1>1. CASE errno = "0"
  <2>1. \A q \in DOMAIN t : p \notin Ancestors(q)
    BY <1>1 DEF WellFormed
  <2>2. WellFormed(u) /\ DOMAIN u = DOMAIN t \ {p}
    BY <2>1, RemovedPath
  <2>3. Truthful("removeFile", p, Outcome(errno, u))
    BY <1>1, <2>2 DEF Truthful, Outcome, Errnos, Removals
  <2> QED
    BY <1>1, <2>3, CallsTruthful DEF Unlink
<1>2. CASE errno # "0"
  <2>1. /\ errno \in {"EISDIR", "ENOTDIR", "ENOENT"}
        /\ errno = "ENOENT" => p \notin DOMAIN t
    BY <1>2, Walks
  <2>2. Truthful("removeFile", p, Outcome(errno, t))
    BY <2>1 DEF Truthful, Outcome, Errnos
  <2> QED
    BY <1>2, <2>2, CallsTruthful DEF Unlink
<1> QED
  BY <1>1, <1>2

LEMMA AccessTruthful ==
  ASSUME NEW t, WellFormed(t), NEW p \in Paths,
         NEW op \in {"fileExists", "openReadableFile"}
  PROVE  \A outcome \in Access(t, p) : Truthful(op, p, outcome)
<1> DEFINE errno == LookupErrno(t, p)
<1>1. /\ errno \in {"0", "ENOENT", "ENOTDIR"}
      /\ errno = "0" <=> p \in DOMAIN t
  BY Walks
<1>2. Truthful(op, p, Outcome(errno, t))
  BY <1>1 DEF Truthful, Outcome, Errnos, Removals
<1> QED
  BY <1>2, CallsTruthful DEF Access

LEMMA OpenToWriteTruthful ==
  ASSUME FileSystemAssumption, NEW t, WellFormed(t), NEW p \in Paths
  PROVE  \A outcome \in OpenToWrite(t, p) :
           Truthful("openRWFile", p, outcome)
<1> DEFINE errno == IF Is(t, p, "dir") THEN "EISDIR" ELSE WalkErrno(t, p)
           u == With(t, {p}, "file")
<1>1. CASE errno = "0"
  <2>1. WellFormed(u) /\ p \in DOMAIN u
    BY <1>1, Walks, AddedPath
  <2>2. Truthful("openRWFile", p, Outcome(errno, u))
    BY <1>1, <2>1 DEF Truthful, Outcome, Errnos, Removals
  <2> QED
    BY <1>1, <2>2, CallsTruthful DEF OpenToWrite
<1>2. CASE errno # "0"
  <2>1. /\ errno \in {"EISDIR", "ENOTDIR", "ENOENT"}
        /\ errno = "ENOENT" => p \notin DOMAIN t
    BY <1>2, Walks
  <2>2. Truthful("openRWFile", p, Outcome(errno, t))
    BY <2>1 DEF Truthful, Outcome, Errnos
  <2> QED
    BY <1>2, <2>2, CallsTruthful DEF OpenToWrite
<1> QED
  BY <1>1, <1>2

(* Whatever was made before a failure stands below directories.            *)
LEMMA CreateDirectoriesTruthful ==
  ASSUME FileSystemAssumption, NEW t, WellFormed(t), NEW p \in Paths
  PROVE  \A outcome \in CreateDirectories(t, p) :
           Truthful("makeDirRecursively", p, outcome)
<1> DEFINE path    == Ancestors(p) \cup {p}
           missing == path \ DOMAIN t
           made(n) == With(t, { q \in missing : Len(q) <= n }, "dir")
           op      == "makeDirRecursively"
<1>1. CASE \E q \in path : Is(t, q, "file")
  <2>1. Truthful(op, p, Outcome("ENOTDIR", t))
    BY DEF Truthful, Outcome, Errnos
  <2>2. \A outcome \in Calls("ENOTDIR", t, t) : Truthful(op, p, outcome)
    BY <2>1, CallsTruthful
  <2> QED
    BY <1>1, <2>2 DEF CreateDirectories
<1>2. CASE ~\E q \in path : Is(t, q, "file")
  <2>1. \A q \in path : /\ q \in Paths /\ Len(q) \in Nat
                         /\ Ancestors(q) \subseteq path
                         /\ \A r \in Ancestors(q) : Len(r) < Len(q)
    BY AncestorsOfPath, PathSequence
  <2>2. \A q \in path : q \in DOMAIN t => t[q] = "dir"
    BY <1>2 DEF WellFormed, Is
  <2>3. ASSUME NEW n \in Int PROVE WellFormed(made(n))
    <3> DEFINE new == { q \in missing : Len(q) <= n }
               u   == made(n)
    <3>1. /\ DOMAIN u = DOMAIN t \cup new
          /\ \A q \in new : u[q] = "dir"
          /\ \A q \in DOMAIN t : u[q] = t[q]
      BY DEF With
    <3> HIDE DEF u
    <3>2. DOMAIN u \subseteq Paths
            /\ \A q \in DOMAIN u : u[q] \in {"dir", "file"}
      BY <2>1, <3>1 DEF WellFormed
    <3>3. ASSUME NEW q \in DOMAIN u, NEW r \in Ancestors(q)
          PROVE  Is(u, r, "dir")
      <4>1. CASE q \in DOMAIN t
        BY <3>1, <4>1 DEF WellFormed, Is
      <4>2. CASE q \in new
        <5>1. r \in path /\ Len(r) <= n
          <6>1. q \in path /\ Len(q) <= n
            BY <4>2
          <6>2. r \in path /\ Len(r) < Len(q) /\ Len(q) \in Nat
                  /\ Len(r) \in Nat
            BY <2>1, <6>1
          <6> QED
            BY <6>1, <6>2
        <5>2. CASE r \in DOMAIN t
          BY <2>2, <3>1, <5>1, <5>2 DEF Is
        <5>3. CASE r \notin DOMAIN t
          BY <3>1, <5>1, <5>3 DEF Is
        <5> QED
          BY <5>2, <5>3
      <4> QED
        BY <3>1, <4>1, <4>2
    <3> QED
      BY <3>2, <3>3 DEF WellFormed, u
  <2>4. p \in DOMAIN made(Len(p))
    BY <2>1 DEF With
  <2>5. Truthful(op, p, Outcome("0", made(Len(p))))
    <3>1. WellFormed(made(Len(p)))
      BY <2>1, <2>3
    <3> HIDE DEF made
    <3> QED
      BY <2>4, <3>1 DEF Truthful, Outcome, Errnos, Removals
  <2>6. ASSUME NEW q \in missing
        PROVE  Truthful(op, p, Outcome(Fault, made(Len(q) - 1)))
    <3>1. Len(q) - 1 \in Int
      BY <2>1
    <3>2. WellFormed(made(Len(q) - 1))
      <4> HIDE DEF made
      <4> QED
        BY <2>3, <3>1
    <3> HIDE DEF made
    <3> QED
      BY <3>2, FaultIsNot DEF Truthful, Outcome
  <2> HIDE DEF made, missing
  <2>7. CreateDirectories(t, p) =
          { Outcome("0", made(Len(p))) } \cup
          { Outcome(Fault, made(Len(q) - 1)) : q \in missing }
    BY <1>2 DEF CreateDirectories, made, missing
  <2> QED
    BY <2>5, <2>6, <2>7
<1> QED
  BY <1>1, <1>2

(* What a failed removal leaves stands below directories too.              *)
LEMMA RemoveAllTruthful ==
  ASSUME FileSystemAssumption, NEW t, WellFormed(t), NEW p \in Paths
  PROVE  \A outcome \in RemoveAll(t, p) :
           Truthful("removeDirRecursively", p, outcome)
<1> DEFINE all == Below(t, p) \cup ({p} \cap DOMAIN t)
           Leaves(rest) ==
             rest # {} /\ \A q \in rest : Ancestors(q) \cap all \subseteq rest
           op  == "removeDirRecursively"
<1>1. \A q \in DOMAIN t :
        q \in all <=> (q = p \/ p \in Ancestors(q))
  BY BelowIsUnder DEF WellFormed, Below
<1>2. all \subseteq DOMAIN t
  BY DEF Below
<1>3. ASSUME NEW q \in DOMAIN t, q \notin all
      PROVE  Ancestors(q) \cap all = {}
  <2> SUFFICES ASSUME NEW r \in Ancestors(q), r \in all PROVE FALSE
    OBVIOUS
  <2>1. r = p \/ p \in Ancestors(r)
    BY <1>1, <1>2
  <2>2. p \in Ancestors(q)
    BY <2>1, AncestorsOfPath DEF WellFormed
  <2> QED
    BY <1>1, <1>3, <2>2
<1> HIDE DEF all
<1>4. Truthful(op, p, Outcome("0", Without(t, all)))
  <2>1. WellFormed(Without(t, all)) /\ DOMAIN Without(t, all) = DOMAIN t \ all
    BY <1>3, RemovedPaths
  <2>2. p \notin DOMAIN t \ all
    BY <1>1
  <2> QED
    BY <2>1, <2>2 DEF Truthful, Outcome, Errnos, Removals
<1>5. Truthful(op, p, Outcome(Fault, t))
  BY FaultIsNot DEF Truthful, Outcome
<1>6. ASSUME NEW rest \in SUBSET all, Leaves(rest)
      PROVE  Truthful(op, p, Outcome(Fault, Without(t, all \ rest)))
  <2>1. ASSUME NEW q \in DOMAIN t, q \notin all \ rest
        PROVE  Ancestors(q) \cap (all \ rest) = {}
    BY <1>3, <1>6, <2>1
  <2>2. WellFormed(Without(t, all \ rest))
    BY <2>1, RemovedPaths
  <2> QED
    BY <2>2, FaultIsNot DEF Truthful, Outcome
<1>7. Truthful(op, p, Outcome("ENOTDIR", t))
  BY DEF Truthful, Outcome, Errnos
<1>8. \A outcome \in RemoveAll(t, p) :
        \/ outcome = Outcome("0", Without(t, all))
        \/ outcome = Outcome(Fault, t)
        \/ \E rest \in SUBSET all :
             Leaves(rest) /\ outcome = Outcome(Fault, Without(t, all \ rest))
        \/ outcome = Outcome("ENOTDIR", t)
  BY DEF RemoveAll, all
<1> QED
  BY <1>4, <1>5, <1>6, <1>7, <1>8

LEMMA AfterAllocationTruthful ==
  ASSUME NEW op, op \notin {"fileExists", "removeDir"}, NEW p, NEW outcomes,
         \A outcome \in outcomes : Truthful(op, p, outcome)
  PROVE  \A outcome \in AfterAllocation(outcomes) : Truthful(op, p, outcome)
<1>1. ASSUME NEW o \in outcomes
      PROVE  Truthful(op, p, Outcome("ENOMEM", o.tree))
  BY DEF Truthful, Outcome, Errnos
<1> QED
  BY <1>1 DEF AfterAllocation

-----------------------------------------------------------------------------
(* The part of StatusTellsTruth that is about what a call returned.        *)
Told(op, p, errno, failed) ==
  /\ errno # "0" <=> failed
  /\ errno = "0" => (p \in DOMAIN tree' <=> op \notin Removals)
  /\ errno = "ENOENT" => p \notin DOMAIN tree'
  /\ errno = "EEXIST" => p \in DOMAIN tree'
  /\ op \in {"fileExists", "removeDir"} =>
       errno \in {"0", "ENOENT", "EEXIST", Fault}
         \/ LookupErrno(tree', p) # "ENOENT"

LEMMA IoErrorCodes ==
  ASSUME NEW errno \in Errnos
  PROVE  /\ IoError(errno) \in Statuses
         /\ IoError(errno).code = "kOK" <=> errno = "0"
         /\ IoError(errno).code = "kNotFound" <=> errno = "ENOENT"
         /\ IoError(errno).code = "kAlreadyExist" <=> errno = "EEXIST"
         /\ errno # "0" => IoError(errno).msg = errno
<1>1. NoMsg \notin Errnos
  BY DEF NoMsg, Errnos
<1> QED
  BY <1>1 DEF IoError, OK, NotFound, AlreadyExist, IOError, StatusOf, Statuses

(* The Status that is returned says so.                                    *)
LEMMA ReturnTellsTruth ==
  ASSUME status \in [Vars -> Statuses], stale \subseteq Vars,
         NEW op, NEW v \in Vars, NEW p, NEW errno \in Errnos,
         NEW failed \in BOOLEAN, NEW names,
         Return(op, v, p, errno, failed, names), Told(op, p, errno, failed)
  PROVE  /\ StatusTellsTruth'
         /\ status' \in [Vars -> Statuses] /\ stale' \subseteq Vars
<1>1. /\ status' = [status EXCEPT ![v] = IoError(errno)]
      /\ last' = [op |-> op, var |-> v, path |-> p, failed |-> failed,
                  names |-> names]
      /\ stale' = stale \ {v}
  BY DEF Return, MoveAssigned
<1>2. /\ last'.op = op /\ last'.var = v /\ last'.path = p
      /\ last'.failed = failed
  BY <1>1
<1>3. Answer' = IoError(errno)
  BY <1>1, <1>2 DEF Answer
<1>4. Exists' <=> p \in DOMAIN tree'
  BY <1>2 DEF Exists
<1>5. status' \in [Vars -> Statuses] /\ stale' \subseteq Vars
  BY <1>1, IoErrorCodes
<1>6. StatusTellsTruth'
  <2>1. /\ ~Ok(Answer') <=> errno # "0"
        /\ IsNotFound(Answer') <=> errno = "ENOENT"
        /\ Answer'.code = "kAlreadyExist" <=> errno = "EEXIST"
        /\ errno # "0" => Answer'.msg = errno
        /\ Answer'.code = "kIOError" =>
             errno \notin {"0", "ENOENT", "EEXIST"}
    BY <1>3, IoErrorCodes DEF Ok, IsNotFound
  <2>2. /\ ~Ok(Answer') <=> failed
        /\ Ok(Answer') => (p \in DOMAIN tree' <=> op \notin Removals)
        /\ IsNotFound(Answer') => p \notin DOMAIN tree'
        /\ Answer'.code = "kAlreadyExist" => p \in DOMAIN tree'
    BY <2>1 DEF Told
  <2>3. Answer'.code = "kIOError" /\ op \in {"fileExists", "removeDir"} =>
          Answer'.msg = Fault \/ LookupErrno(tree', p) # "ENOENT"
    BY <2>1 DEF Told
  <2> QED
    BY <1>2, <1>4, <2>2, <2>3 DEF StatusTellsTruth
<1> QED
  BY <1>5, <1>6

-----------------------------------------------------------------------------
(* While a directory is listed, it is there, it has a stream, and what was *)
(* found of it and what is left make up its names, with "." and "..".      *)
Progress ==
  call # Idle =>
    /\ Listing(call) /\ call.dir \in DOMAIN tree
    /\ streams >= 1
    /\ call.left \subseteq Children(tree, call.dir) \cup Dots(call.dir)
    /\ call.names \subseteq Children(tree, call.dir)
    /\ Children(tree, call.dir) \subseteq call.names \cup call.left

TreeInv ==
  /\ WellFormed(tree)
  /\ streams \in 0..MaxStreams
  /\ status \in [Vars -> Statuses]
  /\ stale \subseteq Vars /\ lost \in BOOLEAN
  /\ Progress
  /\ StatusTellsTruth /\ ListingComplete

LEMMA TreeInvTypes ==
  TreeInv => TypeOK
BY DEF TreeInv, TypeOK, WellFormed, Progress, Listing, Errnos

(* "." and ".." are the names of no path.                                  *)
LEMMA DotsAreNoChildren ==
  ASSUME FileSystemAssumption, NEW t, DOMAIN t \subseteq Paths, NEW p \in Paths
  PROVE  Children(t, p) \cap Dots(p) = {}
<1> SUFFICES ASSUME NEW q \in Children(t, p), q \in Dots(p) PROVE FALSE
  OBVIOUS
<1>1. q \in Paths /\ Len(q) = Len(p) + 1
  BY DEF Children, Below
<1>2. Len(p) \in Nat /\ p \in Seq(Range(p))
  BY PathSequence
<1>3. PICK dot \in {".", ".."} : q = Append(p, dot)
  BY DEF Dots
<1>4. q[Len(p) + 1] = dot
  <2>1. p \in Seq(Range(p) \cup {dot}) /\ dot \in Range(p) \cup {dot}
    BY <1>2, SeqMonotonic
  <2> QED
    BY <1>3, <2>1, AppendProperties
<1>5. Len(p) + 1 \in 1..Len(q)
  BY <1>1, <1>2
<1> QED
  BY <1>1, <1>3, <1>4, <1>5 DEF FileSystemAssumption

LEMMA TreeInit == FileSystemAssumption /\ Init => TreeInv
<1> SUFFICES ASSUME FileSystemAssumption, Init PROVE TreeInv
  OBVIOUS
<1>1. WellFormed(tree)
  BY DEF Init, WellFormed
<1>2. status \in [Vars -> Statuses]
  BY DEF Init, OK, Statuses
<1>3. 0 \in 0..MaxStreams
  BY DEF FileSystemAssumption
<1> QED
  BY <1>1, <1>2, <1>3 DEF Init, TreeInv, Progress, StatusTellsTruth,
                          ListingComplete

LEMMA PerformTellsTruth ==
  ASSUME TreeInv, NEW op, op # "listDir", NEW v \in Vars, NEW p \in Paths,
         NEW outcomes, Perform(op, v, p, outcomes),
         \A outcome \in outcomes : Truthful(op, p, outcome)
  PROVE  TreeInv'
<1>1. PICK outcome \in outcomes :
        /\ tree' = outcome.tree
        /\ Return(op, v, p, outcome.errno, outcome.errno # "0", {})
  BY DEF Perform
<1>2. call = Idle /\ call' = call /\ streams' = streams /\ lost' = lost
  BY DEF Perform, callVars
<1>3. outcome.errno \in Errnos /\ WellFormed(tree')
  BY <1>1 DEF Truthful
<1>4. Told(op, p, outcome.errno, outcome.errno # "0")
  BY <1>1 DEF Truthful, Told
<1>5. /\ StatusTellsTruth'
      /\ status' \in [Vars -> Statuses] /\ stale' \subseteq Vars
  BY <1>1, <1>3, <1>4, ReturnTellsTruth DEF TreeInv
<1>6. ListingComplete'
  BY <1>1 DEF Return, ListingComplete
<1> QED
  BY <1>2, <1>3, <1>5, <1>6 DEF TreeInv, Progress

LEMMA ListDirBegins ==
  ASSUME FileSystemAssumption, TreeInv, NEW v \in Vars, NEW p \in Paths,
         ListDirBegin(v, p)
  PROVE  TreeInv'
<1>1. PICK outcome \in Calls(OpenDirErrno(tree, p), tree, tree) :
        \/ /\ outcome.errno # "0"
           /\ Return("listDir", v, p, outcome.errno, TRUE, {})
           /\ UNCHANGED << streams, call >>
        \/ /\ outcome.errno = "0"
           /\ streams' = streams + 1
           /\ call' = [op |-> "listDir", var |-> v, dir |-> p,
                       errno |-> ErrnoBefore, names |-> {},
                       left |-> Children(tree, p) \cup Dots(p)]
           /\ last' = Idle
           /\ UNCHANGED << status, stale >>
  BY DEF ListDirBegin
<1>2. call = Idle /\ tree' = tree /\ lost' = lost
  BY DEF ListDirBegin
<1>3. /\ WellFormed(tree) /\ streams \in 0..MaxStreams
      /\ status \in [Vars -> Statuses] /\ stale \subseteq Vars
      /\ lost \in BOOLEAN
  BY DEF TreeInv
<1>4. outcome.errno \in {OpenDirErrno(tree, p), Fault}
  BY DEF Calls, Outcome
<1>5. /\ OpenDirErrno(tree, p) \in Errnos \ {"EEXIST"}
      /\ OpenDirErrno(tree, p) = "ENOENT" => p \notin DOMAIN tree
      /\ OpenDirErrno(tree, p) = "0" =>
           p \in DOMAIN tree /\ streams # MaxStreams
  BY <1>3, Walks DEF OpenDirErrno, Errnos
<1>6. CASE /\ outcome.errno # "0"
           /\ Return("listDir", v, p, outcome.errno, TRUE, {})
           /\ UNCHANGED << streams, call >>
  <2>1. outcome.errno \in Errnos
    BY <1>4, <1>5, FaultIsNot
  <2>2. Told("listDir", p, outcome.errno, TRUE)
    BY <1>2, <1>4, <1>5, <1>6, FaultIsNot DEF Told
  <2>3. /\ StatusTellsTruth'
        /\ status' \in [Vars -> Statuses] /\ stale' \subseteq Vars
    BY <1>3, <1>6, <2>1, <2>2, ReturnTellsTruth
  <2>4. last'.failed = TRUE /\ last' # Idle /\ last'.names = {}
    BY <1>6 DEF Return, Idle
  <2>5. ListingComplete'
    BY <2>3, <2>4 DEF ListingComplete, StatusTellsTruth
  <2> QED
    BY <1>2, <1>3, <1>6, <2>3, <2>5 DEF TreeInv, Progress
<1>7. CASE /\ outcome.errno = "0"
           /\ streams' = streams + 1
           /\ call' = [op |-> "listDir", var |-> v, dir |-> p,
                       errno |-> ErrnoBefore, names |-> {},
                       left |-> Children(tree, p) \cup Dots(p)]
           /\ last' = Idle
           /\ UNCHANGED << status, stale >>
  <2>1. p \in DOMAIN tree /\ streams # MaxStreams
    BY <1>4, <1>5, <1>7, FaultIsNot
  <2>2. streams' \in 0..MaxStreams /\ streams' >= 1
    <3>1. MaxStreams \in Nat
      BY DEF FileSystemAssumption
    <3> QED
      BY <1>3, <1>7, <2>1, <3>1
  <2>3. Listing(call')
    BY <1>7 DEF Listing, ErrnoBefore
  <2>4. /\ call'.dir = p /\ call'.names = {}
        /\ call'.left = Children(tree, p) \cup Dots(p)
    BY <1>7
  <2>5. Progress'
    BY <1>2, <2>1, <2>2, <2>3, <2>4 DEF Progress
  <2> QED
    BY <1>2, <1>3, <1>7, <2>2, <2>5
    DEF TreeInv, StatusTellsTruth, ListingComplete
<1> QED
  BY <1>1, <1>6, <1>7

LEMMA ReadDirProgress ==
  ASSUME FileSystemAssumption, TreeInv, NEW name, ReadDir(name)
  PROVE  TreeInv'
<1>1. PICK e :
        call' = [call EXCEPT !.left = @ \ {name},
                             !.names = @ \cup Listed(name),
                             !.errno = ErrnoAfterCallback(@, e)]
  BY DEF ReadDir
<1>2. /\ call # Idle /\ name \in call.left
      /\ tree' = tree /\ streams' = streams /\ lost' = lost
      /\ status' = status /\ last' = last /\ stale' = stale
  BY DEF ReadDir
<1> DEFINE children == Children(tree, call.dir)
           dots     == Dots(call.dir)
<1>3. /\ Listing(call) /\ call.dir \in DOMAIN tree /\ streams >= 1
      /\ call.left \subseteq children \cup dots
      /\ call.names \subseteq children
      /\ children \subseteq call.names \cup call.left
  BY <1>2 DEF TreeInv, Progress
<1>4. Listing(call')
  BY <1>1, <1>3 DEF Listing, ErrnoAfterCallback
<1>5. /\ call'.dir = call.dir
      /\ call'.left = call.left \ {name}
      /\ call'.names = call.names \cup ({name} \ dots)
  BY <1>1, <1>3 DEF Listing, Listed
<1>6. children \cap dots = {}
  BY <1>3, DotsAreNoChildren DEF TreeInv, WellFormed
<1> HIDE DEF children, dots
<1>7. /\ call'.left \subseteq children \cup dots
      /\ call'.names \subseteq children
      /\ children \subseteq call'.names \cup call'.left
  BY <1>2, <1>3, <1>5, <1>6
<1>8. Progress'
  BY <1>2, <1>3, <1>4, <1>5, <1>7 DEF Progress, children, dots
<1> QED
  BY <1>2, <1>8 DEF TreeInv, StatusTellsTruth, ListingComplete, Answer, Exists

(* A listing that was under way returns, with all the names if it is OK.   *)
LEMMA ListDirReturns ==
  ASSUME FileSystemAssumption, TreeInv, call # Idle,
         tree' = tree, call' = Idle,
         streams' \in {streams, streams - 1}, lost' \in BOOLEAN,
         NEW errno \in {"0", Fault},
         Return(call.op, call.var, call.dir, errno, errno # "0", call.names),
         errno = "0" => call.left = {}
  PROVE  TreeInv'
<1>1. /\ WellFormed(tree) /\ streams \in 0..MaxStreams
      /\ status \in [Vars -> Statuses] /\ stale \subseteq Vars
      /\ Progress
  BY DEF TreeInv
<1>2. /\ Listing(call) /\ call.dir \in DOMAIN tree /\ streams >= 1
      /\ call.names \subseteq Children(tree, call.dir)
      /\ Children(tree, call.dir) \subseteq call.names \cup call.left
  BY <1>1 DEF Progress
<1>3. call.op = "listDir" /\ call.var \in Vars
  BY <1>2 DEF Listing
<1>4. Told(call.op, call.dir, errno, errno # "0")
  BY <1>2, <1>3, FaultIsNot DEF Told, Removals
<1>5. errno \in Errnos
  BY FaultIsNot DEF Errnos
<1>6. /\ StatusTellsTruth'
      /\ status' \in [Vars -> Statuses] /\ stale' \subseteq Vars
  BY <1>1, <1>3, <1>4, <1>5, ReturnTellsTruth
<1>7. /\ last' # Idle /\ last'.op = "listDir" /\ last'.path = call.dir
      /\ last'.failed = (errno # "0") /\ last'.names = call.names
  <2>1. last' = [op |-> call.op, var |-> call.var, path |-> call.dir,
                 failed |-> errno # "0", names |-> call.names]
    BY DEF Return
  <2> QED
    BY <1>3, <2>1, Zenon DEF Idle
<1>8. ListingComplete'
  <2>1. Ok(Answer') => errno = "0"
    BY <1>6, <1>7 DEF StatusTellsTruth
  <2>2. Children(tree', last'.path) = Children(tree, call.dir)
    BY <1>7, Zenon
  <2>3. errno = "0" => call.names = Children(tree, call.dir)
    BY <1>2
  <2>4. Ok(Answer') => last'.names = Children(tree', last'.path)
    BY <1>7, <2>1, <2>2, <2>3
  <2>5. last'.names \subseteq Children(tree', last'.path)
    BY <1>2, <1>7, <2>2
  <2> QED
    BY <2>4, <2>5 DEF ListingComplete
<1>9. streams' \in 0..MaxStreams
  <2>1. MaxStreams \in Nat
    BY DEF FileSystemAssumption
  <2> QED
    BY <1>1, <1>2, <2>1
<1> QED
  BY <1>1, <1>6, <1>8, <1>9 DEF TreeInv, Progress

LEMMA VariablesTellTruth ==
  ASSUME TreeInv, NEW v \in Vars, NEW w \in Vars,
         Assign(v, w) \/ Copy(v, w) \/ Move(v, w)
  PROVE  TreeInv'
<1>1. /\ call = Idle /\ call' = call /\ tree' = tree /\ last' = Idle
      /\ streams' = streams /\ lost' = lost
  BY DEF Assign, Copy, Move, callVars
<1>2. status \in [Vars -> Statuses] /\ stale \subseteq Vars
  BY DEF TreeInv
<1>3. stale' \subseteq Vars
  BY <1>2 DEF Assign, Copy, Move
<1>4. status' \in [Vars -> Statuses]
  <2>1. status[v] \in Statuses /\ status[w] \in Statuses
    BY <1>2
  <2>2. CopyAssigned(status[v], status[w]) \in Statuses
    BY <2>1 DEF CopyAssigned, Statuses
  <2>3. MovedFrom(status[w]) \in Statuses
    BY <2>1 DEF MovedFrom, Statuses
  <2>4. CASE Assign(v, w)
    BY <1>2, <2>2, <2>4 DEF Assign
  <2>5. CASE Copy(v, w)
    BY <1>2, <2>1, <2>5 DEF Copy, CopyOf
  <2>6. CASE Move(v, w)
    <3>1. CASE v = w
      BY <1>2, <2>6, <3>1 DEF Move
    <3>2. CASE v # w
      <4>1. status' = [status EXCEPT ![v] = status[w],
                                     ![w] = MovedFrom(status[w])]
        BY <2>6, <3>2 DEF Move, MoveAssigned
      <4> QED
        BY <1>2, <2>1, <2>3, <4>1
    <3> QED
      BY <3>1, <3>2
  <2> QED
    BY <2>4, <2>5, <2>6
<1> QED
  BY <1>1, <1>3, <1>4
  DEF TreeInv, Progress, StatusTellsTruth, ListingComplete

-----------------------------------------------------------------------------
LEMMA OperationsTellTruth ==
  ASSUME FileSystemAssumption, TreeInv, NEW v \in Vars, NEW p \in Paths,
         \/ MakeDir(v, p) \/ MakeDirRecursively(v, p) \/ FileExists(v, p)
         \/ RemoveDir(v, p) \/ RemoveDirRecursively(v, p)
         \/ RemoveFile(v, p) \/ OpenRWFile(v, p) \/ OpenReadableFile(v, p)
  PROVE  TreeInv'
<1>1. WellFormed(tree)
  BY DEF TreeInv
<1>2. CASE MakeDir(v, p)
  BY <1>1, <1>2, MkdirTruthful, PerformTellsTruth DEF MakeDir
<1>3. CASE MakeDirRecursively(v, p)
  BY <1>1, <1>3, CreateDirectoriesTruthful, PerformTellsTruth
  DEF MakeDirRecursively
<1>4. CASE FileExists(v, p)
  BY <1>1, <1>4, AccessTruthful, PerformTellsTruth DEF FileExists
<1>5. CASE RemoveDir(v, p)
  BY <1>1, <1>5, RmdirTruthful, PerformTellsTruth DEF RemoveDir
<1>6. CASE RemoveDirRecursively(v, p)
  BY <1>1, <1>6, RemoveAllTruthful, PerformTellsTruth
  DEF RemoveDirRecursively
<1>7. CASE RemoveFile(v, p)
  BY <1>1, <1>7, UnlinkTruthful, PerformTellsTruth DEF RemoveFile
<1>8. CASE OpenRWFile(v, p)
  <2>1. \A outcome \in AfterAllocation(OpenToWrite(tree, p)) :
          Truthful("openRWFile", p, outcome)
    BY <1>1, OpenToWriteTruthful, AfterAllocationTruthful
  <2> QED
    BY <1>8, <2>1, PerformTellsTruth DEF OpenRWFile
<1>9. CASE OpenReadableFile(v, p)
  <2>1. \A outcome \in AfterAllocation(Access(tree, p)) :
          Truthful("openReadableFile", p, outcome)
    BY <1>1, AccessTruthful, AfterAllocationTruthful
  <2> QED
    BY <1>9, <2>1, PerformTellsTruth DEF OpenReadableFile
<1> QED
  BY <1>2, <1>3, <1>4, <1>5, <1>6, <1>7, <1>8, <1>9

LEMMA TreeNext ==
  ASSUME FileSystemAssumption, TreeInv, [Next]_vars
  PROVE  TreeInv'
<1>1. CASE ReadDirFails
  <2>1. /\ call # Idle /\ tree' = tree /\ call' = Idle
        /\ streams' = streams /\ lost' = TRUE
        /\ Return(call.op, call.var, call.dir, Fault, TRUE, call.names)
    BY <1>1 DEF ReadDirFails
  <2>2. (Fault # "0") = TRUE
    BY FaultIsNot
  <2> QED
    BY <2>1, <2>2, ListDirReturns
<1>2. CASE ReadDirEnds
  <2>1. call # Idle /\ Listing(call) /\ call.errno = "0"
    BY <1>2 DEF ReadDirEnds, TreeInv, Progress, Listing
  <2>2. PICK errno \in {"0", Fault} :
          /\ Return(call.op, call.var, call.dir, errno, errno # "0",
                    call.names)
          /\ call' = Idle
    BY <1>2, <2>1 DEF ReadDirEnds, AfterClose
  <2>3. /\ call.left = {} /\ tree' = tree /\ lost' = lost
        /\ streams' = streams - 1 /\ lost \in BOOLEAN
    BY <1>2, <2>1 DEF ReadDirEnds, TreeInv
  <2> QED
    BY <2>1, <2>2, <2>3, ListDirReturns
<1>3. CASE UNCHANGED vars
  BY <1>3 DEF vars, callVars, TreeInv, Progress, StatusTellsTruth,
              ListingComplete, Answer, Exists
<1> QED
  BY <1>1, <1>2, <1>3, OperationsTellTruth, ListDirBegins, ReadDirProgress,
     VariablesTellTruth DEF Next

LEMMA TreeAlways ==
  ASSUME FileSystemAssumption
  PROVE  Spec => []TreeInv
BY TreeInit, TreeNext, PTL DEF Spec

(* The tree holds paths of the two kinds, an open listing is of a path     *)
(* that is there, and no more streams are open than there are descriptors  *)
(* (TypeOK).                                                               *)
THEOREM FileSystemTypes ==
  ASSUME FileSystemAssumption
  PROVE  Spec => []TypeOK
BY TreeAlways, TreeInvTypes, PTL

(* For any tree, any failures of system calls and any allocation that sets *)
(* errno on the way, what an operation returns is true of the tree that it *)
(* leaves (StatusTellsTruth).                                              *)
THEOREM StatusIsTrue ==
  ASSUME FileSystemAssumption
  PROVE  Spec => []StatusTellsTruth
<1>1. TreeInv => StatusTellsTruth
  BY DEF TreeInv
<1> QED
  BY <1>1, TreeAlways, PTL

(* listDir() is OK only with all the names of the directory and no others  *)
(* (ListingComplete).                                                      *)
THEOREM ListingIsComplete ==
  ASSUME FileSystemAssumption
  PROVE  Spec => []ListingComplete
<1>1. TreeInv => ListingComplete
  BY DEF TreeInv
<1> QED
  BY <1>1, TreeAlways, PTL
=============================================================================
