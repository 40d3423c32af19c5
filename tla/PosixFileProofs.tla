--------------------------- MODULE PosixFileProofs ---------------------------
(***************************************************************************)
(* Invariants of PosixFile for all values of the constants: files and open *)
(* descriptors correspond to each other (DescriptorsMatchFiles), the types *)
(* (TypeOK), and what read() returns (ReadRightUnlessShort); and what a    *)
(* program that appends to files may rely on.                              *)
(*                                                                         *)
(* The correspondence is stated of any descriptor table and any slots, so  *)
(* that the lemmas can follow the table through an open(2) and the close() *)
(* of the file that the new one replaces.                                  *)
(***************************************************************************)
EXTENDS PosixFile, SequenceTheorems, WellFoundedInduction, TLAPS

(* Each file that is not closed holds an open descriptor that was opened   *)
(* for its slot, and each open descriptor is held in that slot.            *)
Match(table, files) ==
  /\ \A s \in DOMAIN files :
       files[s] # NoFd => /\ files[s] \in DOMAIN table
                          /\ table[files[s]].slot = s
  /\ \A fd \in DOMAIN table :
       /\ table[fd].slot \in DOMAIN files
       /\ files[table[fd].slot] = fd

(* Whatever failed, the descriptors are numbers and know their slot.       *)
Shape(table, files) ==
  /\ DOMAIN table \subseteq Fds
  /\ \A fd \in DOMAIN table : "slot" \in DOMAIN table[fd]
  /\ \A s \in DOMAIN files : files[s] \in Fds \cup {NoFd}

(* The inductive invariant.                                                *)
DescriptorsInv ==
  /\ Shape(desc, fd_)
  /\ ~closeFailed => Match(desc, fd_)

-----------------------------------------------------------------------------
(* The descriptor that open(2) gives was free.                             *)
LEMMA LowestIsFree ==
  ASSUME NEW S, S \subseteq Nat, S # {}
  PROVE  Min(S) \in S
<1>1. PICK m \in S : \A y \in S : << y, m >> \notin OpToRel(<, Nat)
  BY NatLessThanWellFounded, WFMin
<1>2. \A y \in S : m <= y
  <2> SUFFICES ASSUME NEW y \in S, y < m PROVE FALSE
    OBVIOUS
  <2> QED
    BY <1>1 DEF OpToRel
<1> QED
  BY <1>2 DEF Min

(* close(2) leaves a part of the table.                                    *)
LEMMA CloseShrinks ==
  ASSUME NEW table, NEW fd, NEW outcome \in CloseOutcomes(fd, table)
  PROVE  /\ \/ outcome.desc = table
            \/ outcome.desc = Restrict(table, DOMAIN table \ {fd})
         /\ outcome.ok =>
              /\ fd \in DOMAIN table
              /\ outcome.desc = Restrict(table, DOMAIN table \ {fd})
         /\ ~outcome.ok /\ fd \notin DOMAIN table => outcome.desc = table
BY DEF CloseOutcomes

LEMMA CloseShape ==
  ASSUME NEW table, NEW files, Shape(table, files),
         NEW fd, NEW outcome \in CloseOutcomes(fd, table)
  PROVE  Shape(outcome.desc, files)
<1>1. \/ outcome.desc = table
      \/ outcome.desc = Restrict(table, DOMAIN table \ {fd})
  BY CloseShrinks
<1>2. CASE outcome.desc = table
  BY <1>2
<1>3. CASE outcome.desc = Restrict(table, DOMAIN table \ {fd})
  <2>1. /\ DOMAIN outcome.desc \subseteq DOMAIN table
        /\ \A x \in DOMAIN outcome.desc : outcome.desc[x] = table[x]
    BY <1>3 DEF Restrict
  <2> QED
    BY <2>1 DEF Shape
<1> QED
  BY <1>1, <1>2, <1>3

(* A file whose close(2) went well, or that was closed before, can leave   *)
(* its slot: the others keep what they hold, because no two of them hold   *)
(* the same descriptor.                                                    *)
LEMMA CloseMatch ==
  ASSUME FileAssumption,
         NEW table, NEW files, Shape(table, files), Match(table, files),
         NEW s \in DOMAIN files,
         NEW outcome \in CloseOutcomes(files[s], table),
         outcome.ok \/ files[s] \notin DOMAIN table
  PROVE  /\ Match(outcome.desc, Restrict(files, DOMAIN files \ {s}))
         /\ outcome.ok => Match(outcome.desc, [files EXCEPT ![s] = NoFd])
         /\ ~outcome.ok => Match(outcome.desc, files)
<1> DEFINE fd   == files[s]
           left == Restrict(table, DOMAIN table \ {fd})
<1>1. NoFd \notin DOMAIN table
  BY DEF FileAssumption, Shape, NoFd
<1>2. CASE outcome.ok
  <2>1. outcome.desc = left
    BY <1>2, CloseShrinks
  <2> QED
    BY <1>1, <1>2, <2>1 DEF Match, Restrict
<1>3. CASE ~outcome.ok
  <2>1. outcome.desc = table /\ files[s] = NoFd
    BY <1>3, CloseShrinks DEF Match
  <2> QED
    BY <1>1, <1>3, <2>1 DEF Match, Restrict
<1> QED
  BY <1>2, <1>3

(* The table after open(2) and the close() of the replaced file.           *)
LEMMA OpenedInv ==
  ASSUME FileAssumption, DescriptorsInv,
         NEW s \in Slots, NEW d, d.slot = s, "slot" \in DOMAIN d,
         Fds \ DOMAIN desc # {}, Opened(s, d)
  PROVE  DescriptorsInv'
<1> DEFINE fd    == Min(Fds \ DOMAIN desc)
           table == With(desc, fd, d)
<1>1. fd \in Fds /\ fd \notin DOMAIN desc /\ fd # NoFd
  <2>1. Fds \ DOMAIN desc \subseteq Nat
    BY DEF FileAssumption
  <2>2. fd \in Fds \ DOMAIN desc
    BY <2>1, LowestIsFree
  <2> QED
    BY <2>1, <2>2 DEF NoFd
<1>2. /\ DOMAIN table = DOMAIN desc \cup {fd}
      /\ table[fd] = d
      /\ \A x \in DOMAIN desc : table[x] = desc[x]
  BY <1>1 DEF With
<1>3. Shape(table, fd_)
  BY <1>1, <1>2 DEF DescriptorsInv, Shape
<1>4. /\ DOMAIN fd_' = DOMAIN fd_ \cup {s}
      /\ fd_'[s] = fd
      /\ \A x \in DOMAIN fd_ : x # s => fd_'[x] = fd_[x]
  BY DEF Opened, With
<1> HIDE DEF fd, table
<1>5. CASE s \notin DOMAIN fd_
  <2>1. desc' = table /\ (closeFailed' <=> closeFailed)
    <3>1. PICK outcome \in {[ok |-> TRUE, desc |-> table]} :
            /\ desc' = outcome.desc
            /\ closeFailed' =
                 (closeFailed \/ (~outcome.ok /\ fd_[s] \in DOMAIN desc))
      BY <1>5, Zenon DEF Opened, fd, table
    <3>2. outcome.ok /\ outcome.desc = table
      BY <3>1
    <3> QED
      BY <3>1, <3>2
  <2>2. Shape(desc', fd_')
    BY <1>1, <1>3, <1>4, <2>1 DEF Shape
  <2>3. ASSUME ~closeFailed' PROVE Match(desc', fd_')
    BY <1>1, <1>2, <1>4, <1>5, <2>1, <2>3 DEF DescriptorsInv, Match
  <2> QED
    BY <2>2, <2>3 DEF DescriptorsInv
<1>6. CASE s \in DOMAIN fd_
  <2>1. PICK outcome \in CloseOutcomes(fd_[s], table) :
          /\ desc' = outcome.desc
          /\ closeFailed' =
               (closeFailed \/ (~outcome.ok /\ fd_[s] \in DOMAIN desc))
    BY <1>6 DEF Opened, fd, table
  <2>2. Shape(desc', fd_')
    <3>1. Shape(desc', fd_)
      BY <1>3, <2>1, CloseShape
    <3> QED
      BY <1>1, <1>4, <3>1 DEF Shape
  <2>3. ASSUME ~closeFailed' PROVE Match(desc', fd_')
    <3>1. Match(desc, fd_) /\ (outcome.ok \/ fd_[s] \notin DOMAIN desc)
      BY <2>1, <2>3 DEF DescriptorsInv
    <3>2. fd_[s] # fd
      BY <1>1, <1>6, <3>1 DEF Match
    <3>3. /\ DOMAIN desc' = DOMAIN table \ {fd_[s]}
          /\ \A x \in DOMAIN desc' : desc'[x] = table[x]
      <4>1. CASE outcome.ok
        <5>1. desc' = Restrict(table, DOMAIN table \ {fd_[s]})
          BY <2>1, <4>1, CloseShrinks
        <5> QED
          BY <5>1 DEF Restrict
      <4>2. CASE ~outcome.ok
        <5>1. fd_[s] \notin DOMAIN table
          BY <1>2, <3>1, <3>2, <4>2
        <5>2. desc' = table
          BY <2>1, <4>2, <5>1, CloseShrinks
        <5> QED
          BY <5>1, <5>2
      <4> QED
        BY <4>1, <4>2
    <3> QED
      BY <1>1, <1>2, <1>4, <1>6, <3>1, <3>2, <3>3 DEF Match
  <2> QED
    BY <2>2, <2>3 DEF DescriptorsInv
<1> QED
  BY <1>5, <1>6

(* A write moves the position of its descriptor and nothing else.          *)
LEMMA WriteInv ==
  ASSUME FileAssumption, DescriptorsInv, WriteSome
  PROVE  DescriptorsInv'
<1>1. /\ DOMAIN desc' = DOMAIN desc
      /\ \A x \in DOMAIN desc : /\ DOMAIN desc'[x] = DOMAIN desc[x]
                                /\ "slot" \in DOMAIN desc[x] =>
                                     desc'[x].slot = desc[x].slot
  BY DEF WriteSome
<1>2. fd_' = fd_ /\ closeFailed' = closeFailed
  BY DEF WriteSome
<1> QED
  BY <1>1, <1>2 DEF DescriptorsInv, Shape, Match

-----------------------------------------------------------------------------
(* Every step keeps the correspondence.                                    *)
LEMMA DescriptorsKept ==
  ASSUME FileAssumption, DescriptorsInv, [Next]_vars
  PROVE  DescriptorsInv'
<1>1. CASE UNCHANGED << desc, fd_, closeFailed >>
  BY <1>1 DEF DescriptorsInv, Shape, Match
<1>2. ASSUME NEW s \in Slots, NEW name \in Names, NEW isNew \in BOOLEAN,
             OpenRWFile(s, name, isNew)
      PROVE  DescriptorsInv'
  <2>1. PICK i : Opened(s, Description(i, s, ~isNew, TRUE))
    BY <1>2 DEF OpenRWFile
  <2> QED
    BY <1>2, <2>1, OpenedInv DEF OpenRWFile, Description
<1>3. ASSUME NEW s \in Slots, NEW name \in Names,
             OpenReadableFile(s, name)
      PROVE  DescriptorsInv'
  <2>1. Opened(s, Description(inode[name], s, FALSE, FALSE))
    BY <1>3 DEF OpenReadableFile
  <2> QED
    BY <1>3, <2>1, OpenedInv DEF OpenReadableFile, Description
<1>4. ASSUME NEW s \in Slots, Close(s)
      PROVE  DescriptorsInv'
  <2>1. PICK outcome \in CloseOutcomes(fd_[s], desc) :
          /\ desc' = outcome.desc
          /\ fd_' = IF outcome.ok THEN [fd_ EXCEPT ![s] = NoFd] ELSE fd_
          /\ closeFailed' =
               (closeFailed \/ (~outcome.ok /\ fd_[s] \in DOMAIN desc))
    BY <1>4 DEF Close
  <2>2. Shape(desc', fd_')
    <3>1. Shape(desc', fd_)
      BY <2>1, CloseShape DEF DescriptorsInv
    <3> QED
      BY <2>1, <3>1 DEF Shape
  <2>3. ASSUME ~closeFailed' PROVE Match(desc', fd_')
    BY <1>4, <2>1, <2>3, CloseMatch DEF Close, DescriptorsInv
  <2> QED
    BY <2>2, <2>3 DEF DescriptorsInv
<1>5. ASSUME NEW s \in Slots, Destroy(s)
      PROVE  DescriptorsInv'
  <2>1. PICK outcome \in CloseOutcomes(fd_[s], desc) :
          /\ desc' = outcome.desc
          /\ closeFailed' =
               (closeFailed \/ (~outcome.ok /\ fd_[s] \in DOMAIN desc))
    BY <1>5 DEF Destroy
  <2>2. fd_' = Restrict(fd_, DOMAIN fd_ \ {s}) /\ s \in DOMAIN fd_
    BY <1>5 DEF Destroy
  <2>3. Shape(desc', fd_')
    <3>1. Shape(desc', fd_)
      BY <2>1, CloseShape DEF DescriptorsInv
    <3> QED
      BY <2>2, <3>1 DEF Shape, Restrict
  <2>4. ASSUME ~closeFailed' PROVE Match(desc', fd_')
    BY <2>1, <2>2, <2>4, CloseMatch DEF DescriptorsInv
  <2> QED
    BY <2>3, <2>4 DEF DescriptorsInv
<1>6. CASE WriteSome
  BY <1>6, WriteInv
<1>7. CASE Crash
  BY <1>7 DEF Crash, DescriptorsInv, Shape, Match
<1>8. ASSUME NEW name \in Names, RemoveFile(name)
      PROVE  DescriptorsInv'
  BY <1>1, <1>8 DEF RemoveFile, history
<1>9. ASSUME NEW s \in Slots, Sync(s)
      PROVE  DescriptorsInv'
  BY <1>1, <1>9 DEF Sync
<1>10. ASSUME NEW s \in Slots, NEW slice \in Slices, AppendBegin(s, slice)
       PROVE  DescriptorsInv'
  BY <1>1, <1>10 DEF AppendBegin, kernelVars, history
<1>11. ASSUME NEW s \in Slots, NEW read \in Reads,
              ReadBegin(s, read[1], read[2])
       PROVE  DescriptorsInv'
  BY <1>1, <1>11 DEF ReadBegin, kernelVars, history
<1>12. CASE ReadSome \/ ReadEnds \/ BadDescriptor \/ CallFails
  BY <1>1, <1>12
     DEF ReadSome, ReadEnds, BadDescriptor, CallFails, CallReturnsError,
         kernelVars, history
<1>13. CASE Interrupted \/ UNCHANGED vars
  BY <1>1, <1>13 DEF Interrupted, vars, kernelVars, history
<1> QED
  BY <1>2, <1>3, <1>4, <1>5, <1>6, <1>7, <1>8, <1>9, <1>10, <1>11, <1>12,
     <1>13 DEF Next

(* Files and open descriptors correspond to each other in every history in *)
(* which no close(2) failed.                                               *)
THEOREM DescriptorsMatch == Spec => []DescriptorsMatchFiles
<1>1. Init => DescriptorsInv
  BY DEF Init, DescriptorsInv, Shape, Match
<1>2. DescriptorsInv /\ [Next]_vars => DescriptorsInv'
  BY FileAssumption, DescriptorsKept
<1>3. DescriptorsInv => DescriptorsMatchFiles
  BY DEF DescriptorsInv, Match, DescriptorsMatchFiles
<1> QED
  BY <1>1, <1>2, <1>3, PTL DEF Spec

-----------------------------------------------------------------------------
(* The operators of the model.                                             *)

LEMMA MaxOfTwo ==
  ASSUME NEW a \in Int, NEW b \in Int
  PROVE  Max({a, b}) = IF a >= b THEN a ELSE b
BY DEF Max

LEMMA MinOfTwo ==
  ASSUME NEW a \in Int, NEW b \in Int
  PROVE  Min({a, b}) = IF a <= b THEN a ELSE b
BY DEF Min

(* A write leaves a file, at least as long as before and as the write.     *)
LEMMA WrittenIsFile ==
  ASSUME NEW file \in Seq(0..255), NEW bytes \in Seq(0..255), NEW pos \in Nat
  PROVE  Written(file, pos, bytes) \in Seq(0..255)
<1> DEFINE max == IF Len(file) >= pos + Len(bytes) THEN Len(file)
                  ELSE pos + Len(bytes)
           Byte(k) == IF k \in (pos + 1)..(pos + Len(bytes))
                      THEN bytes[k - pos]
                      ELSE IF k <= Len(file) THEN file[k] ELSE 0
<1>1. Max({Len(file), pos + Len(bytes)}) = max
  BY MaxOfTwo
<1>2. Written(file, pos, bytes) = [ k \in 1..max |-> Byte(k) ]
  BY <1>1, Zenon DEF Written
<1>3. max \in Nat
  OBVIOUS
<1>4. \A k \in 1..max : Byte(k) \in 0..255
  <2> TAKE k \in 1..max
  <2>1. CASE k \in (pos + 1)..(pos + Len(bytes))
    <3>1. k - pos \in 1..Len(bytes)
      BY <2>1
    <3> QED
      BY <2>1, <3>1, ElementOfSeq
  <2>2. CASE k \notin (pos + 1)..(pos + Len(bytes))
    BY <2>2, ElementOfSeq
  <2> QED
    BY <2>1, <2>2
<1> HIDE DEF max, Byte
<1> QED
  BY <1>2, <1>3, <1>4, IsASeq

(* A write at the end of a file adds its bytes and changes none.           *)
LEMMA WrittenAtEnd ==
  ASSUME NEW file \in Seq(0..255), NEW bytes \in Seq(0..255)
  PROVE  Written(file, Len(file), bytes) = file \o bytes
<1> DEFINE all     == Len(file) + Len(bytes)
           Byte(k) == IF k \in (Len(file) + 1)..all
                      THEN bytes[k - Len(file)]
                      ELSE IF k <= Len(file) THEN file[k] ELSE 0
           written == Written(file, Len(file), bytes)
<1>1. Max({Len(file), all}) = all
  BY MaxOfTwo
<1>2. written = [ k \in 1..all |-> Byte(k) ]
  BY <1>1, Zenon DEF Written
<1>3. written \in Seq(0..255) /\ file \o bytes \in Seq(0..255)
  BY WrittenIsFile
<1>4. Len(written) = all /\ Len(file \o bytes) = all
  BY <1>2, <1>3, ConcatProperties, LenProperties
<1>5. \A k \in 1..all : written[k] = (file \o bytes)[k]
  BY <1>2, ConcatProperties
<1>6. \A k \in 1..Len(written) : written[k] = (file \o bytes)[k]
  BY <1>4, <1>5
<1>7. written = file \o bytes
  <2> HIDE DEF all, written
  <2> QED
    BY <1>3, <1>4, <1>6, SeqEqual
<1> QED
  BY <1>7

LEMMA PartOfBytes ==
  ASSUME NEW bytes \in Seq(0..255),
         NEW m \in 1..(Len(bytes) + 1), NEW n \in 0..Len(bytes)
  PROVE  /\ SubSeq(bytes, m, n) \in Seq(0..255)
         /\ Len(SubSeq(bytes, m, n)) = IF m <= n THEN n - m + 1 ELSE 0
         /\ \A k \in 1..(n - m + 1) : SubSeq(bytes, m, n)[k] = bytes[m + k - 1]
<1>1. m \in Int /\ n \in Int /\ m..n \subseteq 1..Len(bytes)
  OBVIOUS
<1>2. \A k \in 1..Len(bytes) : bytes[k] \in 0..255
  BY ElementOfSeq
<1> QED
  BY <1>1, <1>2, SubSeqProperties

LEMMA FirstOfBytes ==
  ASSUME NEW bytes \in Seq(0..255), NEW n \in 0..Len(bytes)
  PROVE  /\ SubSeq(bytes, 1, n) \in Seq(0..255)
         /\ Len(SubSeq(bytes, 1, n)) = n
         /\ \A k \in 1..n : SubSeq(bytes, 1, n)[k] = bytes[k]
<1>1. 1 \in 1..(Len(bytes) + 1) /\ n \in Nat /\ n - 1 + 1 = n
  OBVIOUS
<1>2. \A k \in 1..n : 1 + k - 1 = k
  OBVIOUS
<1>3. /\ SubSeq(bytes, 1, n) \in Seq(0..255)
      /\ Len(SubSeq(bytes, 1, n)) = IF 1 <= n THEN n - 1 + 1 ELSE 0
      /\ \A k \in 1..(n - 1 + 1) : SubSeq(bytes, 1, n)[k] = bytes[1 + k - 1]
  BY <1>1, PartOfBytes
<1> QED
  BY <1>1, <1>2, <1>3

(* A loss of power leaves of a file what was on the disk, or a first part  *)
(* of what was written, which is as long as what was on the disk unless    *)
(* the file was emptied.                                                   *)
LEMMA SurvivingIsPrefix ==
  ASSUME NEW i \in Inodes, content[i] \in Seq(0..255),
         durable[i] \in Seq(0..255), NEW file \in Surviving(i)
  PROVE  /\ file \in Seq(0..255)
         /\ \/ file = durable[i]
            \/ \E n \in 0..Len(content[i]) :
                 /\ emptied[i] \/ Len(durable[i]) <= n
                 /\ file = SubSeq(content[i], 1, n)
<1> DEFINE least == IF emptied[i] THEN 0 ELSE Len(durable[i])
<1>1. /\ least \in Nat /\ Len(content[i]) \in Nat
      /\ \A n \in least..Len(content[i]) :
           /\ n \in 0..Len(content[i])
           /\ emptied[i] \/ Len(durable[i]) <= n
  OBVIOUS
<1>2. \/ file = durable[i]
      \/ \E n \in least..Len(content[i]) : file = SubSeq(content[i], 1, n)
  BY Zenon DEF Surviving
<1> HIDE DEF least
<1>3. \/ file = durable[i]
      \/ \E n \in 0..Len(content[i]) :
           /\ emptied[i] \/ Len(durable[i]) <= n
           /\ file = SubSeq(content[i], 1, n)
  BY <1>1, <1>2
<1> QED
  BY <1>3, FirstOfBytes

(* close(2) takes descriptors from the table and changes none.             *)
LEMMA CloseKeepsOthers ==
  ASSUME NEW table, NEW fd, NEW outcome \in CloseOutcomes(fd, table)
  PROVE  /\ DOMAIN outcome.desc \subseteq DOMAIN table
         /\ \A x \in DOMAIN outcome.desc : outcome.desc[x] = table[x]
<1>1. \/ outcome.desc = table
      \/ outcome.desc = Restrict(table, DOMAIN table \ {fd})
  BY CloseShrinks
<1> QED
  BY <1>1 DEF Restrict

(* open(2), and the close(2) of the file that the new one replaces, add    *)
(* one description to the table at most and change none.                   *)
LEMMA OpenedTable ==
  ASSUME FileAssumption, DOMAIN desc \subseteq Fds,
         NEW s, NEW d, Fds \ DOMAIN desc # {}, Opened(s, d)
  PROVE  \E fd \in Fds \ DOMAIN desc :
           /\ DOMAIN desc' \subseteq DOMAIN desc \cup {fd}
           /\ \A x \in DOMAIN desc' :
                desc'[x] = IF x = fd THEN d ELSE desc[x]
           /\ fd_' = With(fd_, s, fd)
           /\ closeFailed' \in BOOLEAN
           /\ closeFailed => closeFailed'
<1> DEFINE fd    == Min(Fds \ DOMAIN desc)
           table == With(desc, fd, d)
<1>1. fd \in Fds \ DOMAIN desc
  <2>1. Fds \ DOMAIN desc \subseteq Nat
    BY DEF FileAssumption
  <2> QED
    BY <2>1, LowestIsFree
<1>2. /\ DOMAIN table = DOMAIN desc \cup {fd}
      /\ \A x \in DOMAIN table : table[x] = IF x = fd THEN d ELSE desc[x]
  BY DEF With
<1>3. fd_' = With(fd_, s, fd)
  BY DEF Opened
<1>4. \E outcome \in IF s \in DOMAIN fd_ THEN CloseOutcomes(fd_[s], table)
                     ELSE { [ok |-> TRUE, desc |-> table] } :
        /\ desc' = outcome.desc
        /\ closeFailed' =
             (closeFailed \/ (~outcome.ok /\ fd_[s] \in DOMAIN desc))
  BY Zenon DEF Opened
<1> HIDE DEF fd, table
<1>5. /\ DOMAIN desc' \subseteq DOMAIN table
      /\ \A x \in DOMAIN desc' : desc'[x] = table[x]
  BY <1>4, CloseKeepsOthers
<1>6. closeFailed' \in BOOLEAN /\ (closeFailed => closeFailed')
  BY <1>4
<1> QED
  BY <1>1, <1>2, <1>3, <1>5, <1>6

-----------------------------------------------------------------------------
(* Types.  A description, a call and a result are records whose fields the *)
(* steps change one at a time.                                             *)

LEMMA OpenedTypes ==
  ASSUME FileAssumption, TypeOK, NEW s \in Slots, NEW d \in Descriptions,
         Fds \ DOMAIN desc # {}, Opened(s, d)
  PROVE  /\ DOMAIN desc' \subseteq Fds
         /\ \A fd \in DOMAIN desc' : desc'[fd] \in Descriptions
         /\ DOMAIN fd_' \subseteq Slots
         /\ \A x \in DOMAIN fd_' : fd_'[x] \in Fds \cup {NoFd}
         /\ closeFailed' \in BOOLEAN
<1> DOMAIN desc \subseteq Fds
  BY DEF TypeOK
<1>1. PICK fd \in Fds \ DOMAIN desc :
        /\ DOMAIN desc' \subseteq DOMAIN desc \cup {fd}
        /\ \A x \in DOMAIN desc' :
             desc'[x] = IF x = fd THEN d ELSE desc[x]
        /\ fd_' = With(fd_, s, fd)
        /\ closeFailed' \in BOOLEAN
  BY OpenedTable
<1>2. /\ DOMAIN fd_' = DOMAIN fd_ \cup {s}
      /\ \A x \in DOMAIN fd_' : fd_'[x] = IF x = s THEN fd ELSE fd_[x]
  BY <1>1 DEF With
<1> QED
  BY <1>1, <1>2 DEF TypeOK

LEMMA ClosedTypes ==
  ASSUME FileAssumption, TypeOK,
         NEW fd, NEW outcome \in CloseOutcomes(fd, desc)
  PROVE  /\ DOMAIN outcome.desc \subseteq Fds
         /\ \A x \in DOMAIN outcome.desc : outcome.desc[x] \in Descriptions
BY CloseKeepsOthers DEF TypeOK

LEMMA WriteTypes ==
  ASSUME FileAssumption, TypeOK, WriteSome
  PROVE  TypeOK'
<1> DEFINE d == desc[Fd]
           i == d.inode
<1>1. /\ d \in Descriptions /\ i \in Inodes
      /\ content[i] \in Seq(0..255) /\ WritePosition(d) \in Nat
  BY DEF TypeOK, WriteSome, Descriptions, WritePosition
<1>2. /\ call \in AppendCalls
      /\ call.slice \in Slices /\ call.slice \in Seq(0..255)
      /\ call.left \in 1..Len(call.slice) /\ call.at \in Nat
  BY DEF TypeOK, WriteSome, Appending, AppendCalls, ReadCalls, Idle,
         FileAssumption
<1>3. PICK n \in 1..call.left :
        /\ content' =
             [content EXCEPT
                ![i] = Written(@, WritePosition(d), NextBytes(n))]
        /\ desc' = IF d.append THEN desc
                   ELSE [desc EXCEPT ![Fd].pos = @ + n]
        /\ \/ /\ n # call.left
              /\ call' = [call EXCEPT !.left = LeftAfter(n)]
              /\ UNCHANGED appended
           \/ /\ n = call.left
              /\ call' = Idle
              /\ appended' = [appended EXCEPT ![i] = @ \cup
                   { [at |-> call.at, slice |-> call.slice,
                      synced |-> FALSE] }]
  BY DEF WriteSome
<1>4. NextBytes(n) \in Seq(0..255)
  <2> DEFINE done == Len(call.slice) - call.left
  <2>1. /\ done + 1 \in 1..(Len(call.slice) + 1)
        /\ done + n \in 0..Len(call.slice)
    BY <1>2
  <2> QED
    BY <1>2, <2>1, PartOfBytes DEF NextBytes
<1>5. content' \in [Inodes -> Seq(0..255)]
  BY <1>1, <1>3, <1>4, WrittenIsFile DEF TypeOK
<1>6. /\ DOMAIN desc' \subseteq Fds
      /\ \A fd \in DOMAIN desc' : desc'[fd] \in Descriptions
  <2>1. [d EXCEPT !.pos = @ + n] \in Descriptions
    <3>1. d.pos + n \in Nat
      BY <1>1, <1>2 DEF Descriptions
    <3> HIDE DEF d
    <3> QED
      BY <1>1, <3>1 DEF Descriptions
  <2>2. \/ desc' = desc
        \/ desc' = [desc EXCEPT ![Fd] = [d EXCEPT !.pos = @ + n]]
    BY <1>3
  <2> QED
    BY <2>1, <2>2 DEF TypeOK
<1>7. call' \in AppendCalls \cup {Idle}
  <2>1. CASE n = call.left
    BY <1>3, <2>1
  <2>2. CASE n # call.left
    <3>1. call' = [call EXCEPT !.left = call.left - n]
      BY <1>3, <2>2 DEF LeftAfter
    <3>2. call.left - n \in 1..Len(call.slice)
      BY <1>2, <2>2
    <3> QED
      BY <1>2, <3>1, <3>2 DEF AppendCalls
  <2> QED
    BY <2>1, <2>2
<1>8. appended' \in [Inodes -> SUBSET Entries]
  <2> DEFINE e == [at |-> call.at, slice |-> call.slice, synced |-> FALSE]
  <2>1. e \in Entries
    BY <1>2 DEF Entries
  <2>2. appended' = appended \/ appended' = [appended EXCEPT ![i] = @ \cup {e}]
    BY <1>3
  <2>3. appended \in [Inodes -> SUBSET Entries]
    BY DEF TypeOK
  <2> HIDE DEF e, i
  <2> QED
    BY <1>1, <2>1, <2>2, <2>3
<1>9. /\ result' = NoResult
      /\ UNCHANGED << inode, durable, emptied, fd_, mixed, closeFailed >>
  BY DEF WriteSome
<1> QED
  BY <1>5, <1>6, <1>7, <1>8, <1>9 DEF TypeOK

(* A round of read(): the n bytes at the offset, put at the start of buf.  *)
Available(c, file) == Min({c.size, Len(file) - c.offset})
Filled(c, file, n) == [ k \in DOMAIN c.buf |->
                          IF k <= n THEN file[c.offset + k] ELSE c.buf[k] ]
Round(c, file, n)  ==
  [c EXCEPT !.left = @ - n, !.offset = @ + n,
            !.short = (@ \/ n < Available(c, file)),
            !.buf = Filled(c, file, n)]

LEMMA AvailableIs ==
  ASSUME NEW c \in ReadCalls, NEW file \in Seq(0..255)
  PROVE  Available(c, file) = IF c.size <= Len(file) - c.offset THEN c.size
                              ELSE Len(file) - c.offset
<1>1. c.size \in Int /\ Len(file) - c.offset \in Int
  BY DEF ReadCalls
<1> QED
  BY <1>1, MinOfTwo DEF Available

LEMMA RoundType ==
  ASSUME NEW c \in ReadCalls, NEW file \in Seq(0..255),
         NEW n \in 1..Available(c, file)
  PROVE  Round(c, file, n) \in ReadCalls
<1>1. /\ c.buf \in Seq(-1..255) /\ DOMAIN c.buf = 1..Len(c.buf)
      /\ Len(c.buf) \in Nat
      /\ c.offset \in Nat /\ c.size \in Nat /\ c.left \in Int
  BY DEF ReadCalls
<1>2. /\ Available(c, file) \in Int
      /\ Available(c, file) <= Len(file) - c.offset
      /\ n \in Nat /\ n <= Available(c, file)
  <2>1. Len(file) \in Nat
    OBVIOUS
  <2>2. Available(c, file) = IF c.size <= Len(file) - c.offset THEN c.size
                             ELSE Len(file) - c.offset
    BY AvailableIs
  <2> QED
    BY <1>1, <2>1, <2>2
<1>3. \A k \in 1..n : c.offset + k \in 1..Len(file)
  BY <1>1, <1>2
<1> DEFINE Byte(k) == IF k <= n THEN file[c.offset + k] ELSE c.buf[k]
<1>4. \A k \in 1..Len(c.buf) : Byte(k) \in -1..255
  <2> TAKE k \in 1..Len(c.buf)
  <2>1. CASE k <= n
    <3>1. c.offset + k \in 1..Len(file)
      BY <1>1, <1>2, <1>3, <2>1
    <3>2. file[c.offset + k] \in 0..255
      BY <3>1, ElementOfSeq
    <3> QED
      BY <2>1, <3>2
  <2>2. CASE ~(k <= n)
    BY <1>1, <2>2, ElementOfSeq
  <2> QED
    BY <2>1, <2>2
<1>5. Filled(c, file, n) \in Seq(-1..255)
  <2>1. Filled(c, file, n) = [ k \in 1..Len(c.buf) |-> Byte(k) ]
    BY <1>1 DEF Filled
  <2> HIDE DEF Byte
  <2> QED
    BY <1>1, <1>4, <2>1, IsASeq
<1> DEFINE short == c.short \/ n < Available(c, file)
           buf == Filled(c, file, n)
<1>6. short \in BOOLEAN /\ c.left - n \in Int /\ c.offset + n \in Nat
  BY <1>1, <1>2 DEF ReadCalls
<1>7. Round(c, file, n) =
        [c EXCEPT !.left = c.left - n, !.offset = c.offset + n,
                  !.short = short, !.buf = buf]
  BY DEF Round
<1> HIDE DEF short, buf
<1>8. buf \in Seq(-1..255)
  BY <1>5 DEF buf
<1>9. [c EXCEPT !.left = c.left - n, !.offset = c.offset + n]
        \in ReadCalls
  BY <1>6 DEF ReadCalls
<1>10. Round(c, file, n) =
        [[c EXCEPT !.left = c.left - n, !.offset = c.offset + n]
           EXCEPT !.short = short, !.buf = buf]
  BY <1>7 DEF ReadCalls
<1> QED
  BY <1>6, <1>8, <1>9, <1>10 DEF ReadCalls

LEMMA ReadSomeIsRound ==
  ASSUME ReadSome
  PROVE  \E n \in 1..Available(call, content[desc[Fd].inode]) :
           call' = Round(call, content[desc[Fd].inode], n)
BY DEF ReadSome, Round, Available, Filled, NextOffset

LEMMA ReadTypes ==
  ASSUME FileAssumption, TypeOK, ReadSome \/ ReadEnds
  PROVE  TypeOK'
<1> DEFINE file == content[desc[Fd].inode]
<1>1. file \in Seq(0..255)
  <2>1. Fd \in DOMAIN desc
    BY DEF ReadSome, ReadEnds
  <2>2. desc[Fd].inode \in Inodes
    BY <2>1 DEF TypeOK, Descriptions
  <2> QED
    BY <2>2 DEF TypeOK
<1>2. call \in ReadCalls
  <2>1. call.op = "read" /\ call \in AppendCalls \cup ReadCalls \cup {Idle}
    BY DEF TypeOK, ReadSome, ReadEnds, Reading
  <2> QED
    BY <2>1 DEF AppendCalls, Idle
<1>3. CASE ReadSome
  <2>1. call' \in ReadCalls
    BY <1>1, <1>2, <1>3, ReadSomeIsRound, RoundType
  <2> QED
    BY <1>3, <2>1 DEF ReadSome, TypeOK, kernelVars, history
<1>4. CASE ReadEnds
  <2>1. result' \in Results /\ call' = Idle
    BY <1>1, <1>2, <1>4 DEF ReadEnds, Results, ReadCalls
  <2> QED
    BY <1>4, <2>1 DEF ReadEnds, TypeOK, kernelVars, history
<1> QED
  BY <1>3, <1>4

(* Every state of the specification has the types that TypeOK names.       *)
LEMMA TypesKept ==
  ASSUME FileAssumption, TypeOK, [Next]_vars
  PROVE  TypeOK'
<1>1. ASSUME NEW s \in Slots, NEW name \in Names, NEW isNew \in BOOLEAN,
             OpenRWFile(s, name, isNew)
      PROVE  TypeOK'
  <2>1. PICK i \in IF name \in DOMAIN inode THEN {inode[name]}
                   ELSE FreshInodes :
          LET fresh == name \notin DOMAIN inode
              empty == fresh \/ isNew
          IN  /\ inode' = With(inode, name, i)
              /\ content' = IF empty THEN [content EXCEPT ![i] = << >>]
                            ELSE content
              /\ durable' \in
                   { [durable EXCEPT ![i] = file] :
                       file \in IF fresh THEN {<< >>}
                               ELSE IF isNew THEN Surviving(i)
                               ELSE {durable[i]} }
              /\ emptied' = IF empty THEN [emptied EXCEPT ![i] = ~fresh]
                            ELSE emptied
              /\ appended' = IF empty THEN [appended EXCEPT ![i] = {}]
                             ELSE appended
              /\ Opened(s, Description(i, s, ~isNew, TRUE))
              /\ mixed' = [mixed EXCEPT ![i] =
                             (@ /\ ~empty) \/ Mixed(desc', i)]
    BY <1>1 DEF OpenRWFile
  <2>2. i \in Inodes
    BY DEF TypeOK, FreshInodes
  <2>3. Description(i, s, ~isNew, TRUE) \in Descriptions
    BY <2>2 DEF Description, Descriptions
  <2>4. /\ DOMAIN desc' \subseteq Fds
        /\ \A fd \in DOMAIN desc' : desc'[fd] \in Descriptions
        /\ DOMAIN fd_' \subseteq Slots
        /\ \A x \in DOMAIN fd_' : fd_'[x] \in Fds \cup {NoFd}
        /\ closeFailed' \in BOOLEAN
    BY <1>1, <2>1, <2>3, OpenedTypes DEF OpenRWFile
  <2>5. /\ DOMAIN inode' \subseteq Names
        /\ \A x \in DOMAIN inode' : inode'[x] \in Inodes
    BY <2>1, <2>2 DEF TypeOK, With
  <2>6. /\ content' \in [Inodes -> Seq(0..255)]
        /\ durable' \in [Inodes -> Seq(0..255)]
        /\ emptied' \in [Inodes -> BOOLEAN]
    <3>1. PICK file \in {<< >>, durable[i]} \cup Surviving(i) :
            durable' = [durable EXCEPT ![i] = file]
      BY <2>1
    <3>2. file \in Seq(0..255)
      <4>1. /\ << >> \in Seq(0..255) /\ content[i] \in Seq(0..255)
            /\ durable[i] \in Seq(0..255)
        BY <2>2, EmptySeq DEF TypeOK
      <4>2. \A left \in Surviving(i) : left \in Seq(0..255)
        BY <2>2, <4>1, SurvivingIsPrefix
      <4> QED
        BY <4>1, <4>2
    <3>3. content' \in [Inodes -> Seq(0..255)]
      BY <2>1, <2>2 DEF TypeOK
    <3>4. emptied' \in [Inodes -> BOOLEAN]
      BY <2>1, <2>2 DEF TypeOK
    <3> QED
      BY <2>2, <3>1, <3>2, <3>3, <3>4 DEF TypeOK
  <2>7. appended' \in [Inodes -> SUBSET Entries]
    BY <2>1, <2>2 DEF TypeOK
  <2>8. mixed' \in [Inodes -> BOOLEAN]
    BY <2>1, <2>2 DEF TypeOK, Mixed
  <2>9. call' = call /\ result' = NoResult
    BY <1>1 DEF OpenRWFile
  <2> QED
    BY <2>4, <2>5, <2>6, <2>7, <2>8, <2>9 DEF TypeOK
<1>2. ASSUME NEW s \in Slots, NEW name \in Names, OpenReadableFile(s, name)
      PROVE  TypeOK'
  <2>1. Description(inode[name], s, FALSE, FALSE) \in Descriptions
    BY <1>2 DEF OpenReadableFile, TypeOK, Description, Descriptions
  <2>2. /\ DOMAIN desc' \subseteq Fds
        /\ \A fd \in DOMAIN desc' : desc'[fd] \in Descriptions
        /\ DOMAIN fd_' \subseteq Slots
        /\ \A x \in DOMAIN fd_' : fd_'[x] \in Fds \cup {NoFd}
        /\ closeFailed' \in BOOLEAN
    BY <1>2, <2>1, OpenedTypes DEF OpenReadableFile
  <2> QED
    BY <1>2, <2>2 DEF OpenReadableFile, TypeOK
<1>3. ASSUME NEW s \in Slots, Close(s) \/ Destroy(s)
      PROVE  TypeOK'
  <2>1. PICK outcome \in CloseOutcomes(fd_[s], desc) :
          /\ desc' = outcome.desc
          /\ \/ fd_' = [fd_ EXCEPT ![s] = NoFd]
             \/ fd_' = fd_
             \/ fd_' = Restrict(fd_, DOMAIN fd_ \ {s})
          /\ closeFailed' =
               (closeFailed \/ (~outcome.ok /\ fd_[s] \in DOMAIN desc))
    BY <1>3 DEF Close, Destroy
  <2>2. /\ DOMAIN desc' \subseteq Fds
        /\ \A fd \in DOMAIN desc' : desc'[fd] \in Descriptions
    BY <2>1, ClosedTypes
  <2>3. /\ DOMAIN fd_' \subseteq Slots
        /\ \A x \in DOMAIN fd_' : fd_'[x] \in Fds \cup {NoFd}
        /\ closeFailed' \in BOOLEAN
    BY <2>1 DEF TypeOK, Restrict
  <2> QED
    BY <1>3, <2>2, <2>3 DEF Close, Destroy, TypeOK
<1>4. ASSUME NEW name \in Names, RemoveFile(name)
      PROVE  TypeOK'
  BY <1>4 DEF RemoveFile, TypeOK, Restrict, history
<1>5. ASSUME NEW s \in Slots, Sync(s)
      PROVE  TypeOK'
  <2> DEFINE i == desc[fd_[s]].inode
             now == { [r EXCEPT !.synced = TRUE] : r \in appended[i] }
  <2>1. i \in Inodes
    BY <1>5 DEF Sync, TypeOK, Descriptions
  <2>2. /\ durable' = [durable EXCEPT ![i] = content[i]]
        /\ emptied' = [emptied EXCEPT ![i] = FALSE]
        /\ appended' = [appended EXCEPT ![i] = now]
        /\ result' = NoResult
        /\ UNCHANGED << inode, content, desc, fd_, call, mixed,
                        closeFailed >>
    BY <1>5 DEF Sync
  <2>3. now \subseteq Entries
    <3>1. appended[i] \subseteq Entries
      BY <2>1 DEF TypeOK
    <3>2. \A r \in Entries : [r EXCEPT !.synced = TRUE] \in Entries
      BY DEF Entries
    <3> HIDE DEF i
    <3> QED
      BY <3>1, <3>2
  <2> HIDE DEF i, now
  <2> QED
    BY <2>1, <2>2, <2>3 DEF TypeOK
<1>6. ASSUME NEW s \in Slots, NEW slice \in Slices, AppendBegin(s, slice)
      PROVE  TypeOK'
  <2>1. fd_[s] \in DOMAIN desc =>
          Len(content[desc[fd_[s]].inode]) \in Nat
    <3> SUFFICES ASSUME fd_[s] \in DOMAIN desc
                 PROVE  Len(content[desc[fd_[s]].inode]) \in Nat
      OBVIOUS
    <3>1. desc[fd_[s]].inode \in Inodes
      BY DEF TypeOK, Descriptions
    <3>2. content[desc[fd_[s]].inode] \in Seq(0..255)
      BY <3>1 DEF TypeOK
    <3> QED
      BY <3>2
  <2>2. slice \in Seq(0..255) /\ Len(slice) \in 1..Len(slice)
    BY DEF FileAssumption
  <2>3. call' \in AppendCalls
    BY <1>6, <2>1, <2>2 DEF AppendBegin, AppendCalls
  <2> QED
    BY <1>6, <2>3 DEF AppendBegin, TypeOK, kernelVars, history
<1>7. ASSUME NEW s \in Slots, NEW read \in Reads,
             ReadBegin(s, read[1], read[2])
      PROVE  TypeOK'
  <2>1. read[1] \in Nat /\ read[2] \in Nat
    BY DEF FileAssumption
  <2>2. [k \in 1..read[2] |-> -1] \in Seq(-1..255)
    BY <2>1, IsASeq
  <2>3. call' \in ReadCalls
    BY <1>7, <2>1, <2>2 DEF ReadBegin, ReadCalls
  <2> QED
    BY <1>7, <2>3 DEF ReadBegin, TypeOK, kernelVars, history
<1>8. CASE WriteSome
  BY <1>8, WriteTypes
<1>9. CASE ReadSome \/ ReadEnds
  BY <1>9, ReadTypes
<1>10. CASE BadDescriptor \/ CallFails
  BY <1>10 DEF BadDescriptor, CallFails, CallReturnsError, TypeOK,
               kernelVars, history
<1>11. CASE Crash
  <2>1. \A i \in Inodes : /\ content'[i] \in Surviving(i)
                          /\ content[i] \in Seq(0..255)
                          /\ durable[i] \in Seq(0..255)
    BY <1>11 DEF Crash, TypeOK
  <2>2. content' = [i \in Inodes |-> content'[i]]
    BY <1>11 DEF Crash
  <2>3. content' \in [Inodes -> Seq(0..255)]
    BY <2>1, <2>2, SurvivingIsPrefix
  <2>4. appended' \in [Inodes -> SUBSET Entries]
    BY <1>11 DEF Crash, TypeOK
  <2> QED
    BY <1>11, <2>3, <2>4 DEF Crash, TypeOK
<1>12. CASE Interrupted \/ UNCHANGED vars
  BY <1>12 DEF Interrupted, vars, kernelVars, history, TypeOK
<1> QED
  BY <1>1, <1>2, <1>3, <1>4, <1>5, <1>6, <1>7, <1>8, <1>9, <1>10, <1>11,
     <1>12 DEF Next

LEMMA InitTypes ==
  ASSUME Init
  PROVE  TypeOK
<1>1. DOMAIN inode = {} /\ DOMAIN desc = {} /\ DOMAIN fd_ = {}
  BY DEF Init
<1>2. /\ content \in [Inodes -> Seq(0..255)]
      /\ durable \in [Inodes -> Seq(0..255)]
      /\ emptied \in [Inodes -> BOOLEAN]
  BY EmptySeq DEF Init
<1>3. appended \in [Inodes -> SUBSET Entries]
  BY DEF Init
<1> QED
  BY <1>1, <1>2, <1>3 DEF Init, TypeOK

(* The state has its types: what the kernel and the disk hold of a file    *)
(* are bytes, a call and what it leaves are well formed.                   *)
THEOREM TypesRight == Spec => []TypeOK
<1>1. TypeOK /\ [Next]_vars => TypeOK'
  BY FileAssumption, TypesKept
<1> QED
  BY <1>1, InitTypes, PTL DEF Spec

-----------------------------------------------------------------------------
(* What read() returns.  As long as no round was short, one round at most  *)
(* has put bytes into buf, and after it nothing is left to read.           *)

PartRead(c, file) ==
  LET got == c.size - c.left
  IN  ~c.short /\ got > 0 =>
        /\ got = IF c.size <= Len(file) - c.from THEN c.size
                 ELSE Len(file) - c.from
        /\ \A k \in 1..got : c.buf[k] = file[c.from + k]

Counted(c) ==
  /\ c.size > 0 /\ Len(c.buf) = c.size
  /\ c.left <= c.size /\ c.offset = c.from + c.size - c.left

ReadInv ==
  /\ Reading => /\ Counted(call)
                /\ Fd \in DOMAIN desc =>
                     PartRead(call, content[desc[Fd].inode])
  /\ ReadRightUnlessShort

LEMMA RoundRight ==
  ASSUME NEW c \in ReadCalls, NEW file \in Seq(0..255),
         c.left # 0, NEW n \in 1..Available(c, file),
         Counted(c), PartRead(c, file)
  PROVE  Counted(Round(c, file, n)) /\ PartRead(Round(c, file, n), file)
<1> DEFINE r == Round(c, file, n)
           available == Available(c, file)
<1>1. /\ c.size \in Nat /\ c.left \in Int /\ c.offset \in Nat
      /\ c.from \in Nat /\ c.buf \in Seq(-1..255) /\ c.short \in BOOLEAN
      /\ DOMAIN c.buf = 1..c.size
  BY DEF ReadCalls, Counted
<1>2. Len(file) \in Nat
  OBVIOUS
<1>3. available = IF c.size <= Len(file) - c.offset THEN c.size
                  ELSE Len(file) - c.offset
  BY AvailableIs
<1>4. n \in Nat /\ 1 <= n /\ n <= available /\ available \in Int
  BY <1>1, <1>2, <1>3
<1>5. /\ r.left = c.left - n /\ r.offset = c.offset + n
      /\ r.size = c.size /\ r.from = c.from
      /\ r.short = (c.short \/ n < available)
      /\ r.buf = [ k \in 1..c.size |-> IF k <= n THEN file[c.offset + k]
                                       ELSE c.buf[k] ]
  BY <1>1 DEF Round, Filled, ReadCalls
<1> HIDE DEF r, available
<1>6. Counted(r)
  <2>1. Len(r.buf) = c.size
    BY <1>1, <1>5
  <2> QED
    <3>1. c.left <= c.size /\ c.size > 0
      BY DEF Counted
    <3>2. c.offset = c.from + c.size - c.left
      BY DEF Counted
    <3>3. r.left <= r.size /\ r.size > 0
      BY <1>1, <1>4, <1>5, <3>1
    <3>4. r.offset = r.from + r.size - r.left
      BY <1>1, <1>4, <1>5, <3>2
    <3> QED
      BY <1>5, <2>1, <3>3, <3>4 DEF Counted
<1>7. PartRead(r, file)
  <2> SUFFICES ASSUME ~c.short, n = available
               PROVE  /\ r.size - r.left = IF c.size <= Len(file) - c.from
                                           THEN c.size
                                           ELSE Len(file) - c.from
                      /\ \A k \in 1..(r.size - r.left) :
                           r.buf[k] = file[c.from + k]
    <3>1. ~r.short => ~c.short /\ n = available
      <4>1. ~r.short => ~(c.short \/ n < available)
        BY <1>5, Zenon
      <4> QED
        BY <1>4, <4>1
    <3> QED
      BY <1>5, <3>1 DEF PartRead
  <2>1. c.left = c.size
    <3> SUFFICES ASSUME c.left < c.size PROVE FALSE
      BY <1>1 DEF Counted
    <3>1. c.size - c.left = IF c.size <= Len(file) - c.from THEN c.size
                            ELSE Len(file) - c.from
      BY <1>1 DEF PartRead
    <3>2. c.offset = c.from + c.size - c.left
      BY DEF Counted
    <3> QED
      BY <1>1, <1>2, <1>3, <1>4, <3>1, <3>2
  <2>2. c.offset = c.from /\ r.size - r.left = n
    BY <1>1, <1>4, <1>5, <2>1 DEF Counted
  <2>3. n <= c.size
    BY <1>1, <1>2, <1>3, <1>4
  <2>4. \A k \in 1..n : r.buf[k] = file[c.from + k]
    BY <1>1, <1>4, <1>5, <2>2, <2>3
  <2> QED
    BY <1>3, <2>2, <2>4
<1> QED
  BY <1>6, <1>7 DEF r

LEMMA ReadRight ==
  ASSUME NEW c \in ReadCalls, NEW file \in Seq(0..255), ~c.short,
         Counted(c), PartRead(c, file),
         c.left = 0 \/ c.offset >= Len(file)
  PROVE  LET asked == Asked(file, c.from, c.size)
             got   == c.size - c.left
         IN  got = Len(asked) /\ SubSeq(c.buf, 1, got) = asked
<1> DEFINE asked == Asked(file, c.from, c.size)
           got   == c.size - c.left
           last   == IF c.from + c.size <= Len(file) THEN c.from + c.size
                    ELSE Len(file)
<1>1. /\ c.size \in Nat /\ c.left \in Int /\ c.offset \in Nat
      /\ c.from \in Nat /\ c.buf \in Seq(-1..255)
      /\ c.size > 0 /\ Len(c.buf) = c.size /\ c.left <= c.size
      /\ c.offset = c.from + c.size - c.left /\ Len(file) \in Nat
  BY DEF ReadCalls, Counted
<1>2. asked = SubSeq(file, c.from + 1, last)
  <2>1. c.from + c.size \in Int /\ Len(file) \in Int
    BY <1>1
  <2>2. Min({c.from + c.size, Len(file)}) = last
    BY <2>1, MinOfTwo
  <2> QED
    BY <2>2 DEF Asked
<1>3. CASE got = 0
  <2>1. last < c.from + 1 /\ last \in Int
    BY <1>1, <1>3
  <2>2. asked = << >>
    BY <1>1, <1>2, <2>1, SubSeqEmpty
  <2>3. SubSeq(c.buf, 1, got) = << >>
    BY <1>3, SubSeqEmpty
  <2> QED
    BY <1>3, <2>2, <2>3
<1>4. CASE got > 0
  <2>1. /\ got = IF c.size <= Len(file) - c.from THEN c.size
                 ELSE Len(file) - c.from
        /\ \A k \in 1..got : c.buf[k] = file[c.from + k]
    BY <1>4 DEF PartRead
  <2>2. got \in Nat /\ last = c.from + got /\ got <= c.size
    BY <1>1, <1>4, <2>1
  <2>3. /\ c.from + 1 \in 1..(Len(file) + 1) /\ last \in 0..Len(file)
        /\ c.from + 1 <= last /\ last - (c.from + 1) + 1 = got
        /\ \A k \in 1..got : (c.from + 1) + k - 1 = c.from + k
    <3>1. got >= 1 /\ last <= Len(file) /\ c.from \in Nat /\ Len(file) \in Nat
      BY <1>1, <1>4, <2>1, <2>2
    <3> HIDE DEF got, last
    <3>2. \A k \in 1..got : (c.from + 1) + k - 1 = c.from + k
      BY <2>2, <3>1
    <3>3. /\ c.from + 1 \in 1..(Len(file) + 1) /\ last \in 0..Len(file)
          /\ c.from + 1 <= last /\ last - (c.from + 1) + 1 = got
      <4>1. c.from + 1 \in 1..(Len(file) + 1)
        BY <2>2, <3>1
      <4>2. last \in 0..Len(file)
        BY <2>2, <3>1
      <4>3. c.from + 1 <= last
        BY <2>2, <3>1
      <4>4. last - (c.from + 1) + 1 = got
        BY <2>2, <3>1
      <4> QED
        BY <4>1, <4>2, <4>3, <4>4
    <3> QED
      BY <3>2, <3>3
  <2>4. /\ asked \in Seq(0..255) /\ Len(asked) = got
        /\ \A k \in 1..got : asked[k] = file[c.from + k]
    <3> HIDE DEF last, got, asked
    <3> QED
      BY <1>2, <2>3, PartOfBytes
  <2>5. asked \in Seq(-1..255)
    <3>1. (0..255) \subseteq (-1..255)
      OBVIOUS
    <3> HIDE DEF asked
    <3> QED
      BY <2>4, <3>1, SeqMonotonic
  <2> DEFINE part == SubSeq(c.buf, 1, got)
  <2>6. /\ part \in Seq(-1..255) /\ Len(part) = got
        /\ \A k \in 1..got : part[k] = c.buf[k]
    <3>1. \A k \in 1..c.size : c.buf[k] \in -1..255
      BY <1>1, ElementOfSeq
    <3>2. \A k \in 1..got : c.buf[k] \in -1..255
      <4>1. 1..got \subseteq 1..c.size
        <5> HIDE DEF got
        <5> QED
          BY <1>1, <2>2
      <4> HIDE DEF got
      <4> QED
        BY <3>1, <4>1
    <3>3. 1 <= got /\ got - 1 + 1 = got /\ \A k \in 1..got : 1 + k - 1 = k
      BY <1>4, <2>2
    <3> HIDE DEF got
    <3>4. /\ part \in Seq(-1..255)
          /\ Len(part) = IF 1 <= got THEN got - 1 + 1 ELSE 0
          /\ \A k \in 1..(got - 1 + 1) : part[k] = c.buf[1 + k - 1]
      BY <2>2, <3>2, SubSeqProperties
    <3> HIDE DEF part
    <3> QED
      BY <3>3, <3>4
  <2>7. part = asked
    <3> HIDE DEF part, asked, got
    <3> QED
      BY <2>1, <2>4, <2>5, <2>6, SeqEqual
  <2> QED
    BY <2>4, <2>7
<1> QED
  BY <1>1, <1>3, <1>4

LEMMA ReadCallType ==
  ASSUME TypeOK, Reading
  PROVE  call \in ReadCalls
<1>1. call.op = "read" /\ call \in AppendCalls \cup ReadCalls \cup {Idle}
  BY DEF TypeOK, Reading
<1> QED
  BY <1>1 DEF AppendCalls, Idle

LEMMA ReadKept ==
  ASSUME FileAssumption, TypeOK, ReadInv, [Next]_vars
  PROVE  ReadInv'
<1> DEFINE file == content[desc[Fd].inode]
<1>1. ASSUME Fd \in DOMAIN desc PROVE file \in Seq(0..255)
  <2>1. desc[Fd].inode \in Inodes
    BY <1>1 DEF TypeOK, Descriptions
  <2> QED
    BY <2>1 DEF TypeOK
<1>2. ASSUME result' = NoResult, call'.op # "read"
      PROVE  ReadInv'
  BY <1>2 DEF ReadInv, ReadRightUnlessShort, ReadReturnsFile, Reading
<1>3. CASE UNCHANGED vars
  BY <1>3 DEF vars, kernelVars, ReadInv, ReadRightUnlessShort,
              ReadReturnsFile, Reading, Fd
<1>4. ASSUME NEW s \in Slots, NEW read \in Reads,
             ReadBegin(s, read[1], read[2])
      PROVE  ReadInv'
  <2>1. read[1] \in Nat /\ read[2] \in Nat \ {0}
    BY DEF FileAssumption
  <2>2. /\ call'.size = read[2] /\ call'.left = read[2]
        /\ call'.from = read[1] /\ call'.offset = read[1]
        /\ call'.buf = [k \in 1..read[2] |-> -1]
        /\ result' = NoResult
    BY <1>4 DEF ReadBegin
  <2>3. Len(call'.buf) = read[2]
    BY <2>1, <2>2
  <2>4. Counted(call')
    BY <2>1, <2>2, <2>3 DEF Counted
  <2>5. \A f : PartRead(call', f)
    BY <2>1, <2>2 DEF PartRead
  <2> QED
    BY <2>2, <2>4, <2>5
       DEF ReadInv, ReadRightUnlessShort, ReadReturnsFile
<1>5. CASE ReadSome
  <2>1. /\ Reading /\ call.left # 0 /\ Fd \in DOMAIN desc
        /\ result' = NoResult /\ UNCHANGED kernelVars /\ fd_' = fd_
    BY <1>5 DEF ReadSome
  <2>2. call \in ReadCalls
    BY <2>1, ReadCallType
  <2>3. Counted(call) /\ PartRead(call, file)
    BY <2>1 DEF ReadInv
  <2>4. PICK n \in 1..Available(call, file) : call' = Round(call, file, n)
    BY <1>5, ReadSomeIsRound
  <2>5. Counted(call') /\ PartRead(call', file)
    <3>1. file \in Seq(0..255)
      BY <1>1, <2>1
    <3> HIDE DEF file
    <3> QED
      BY <2>1, <2>2, <2>3, <2>4, <3>1, RoundRight
  <2>6. call'.slot = call.slot
    BY <1>5, <2>2 DEF ReadSome, ReadCalls
  <2>7. Fd' = Fd /\ content' = content /\ desc' = desc
    BY <2>1, <2>6 DEF Fd, kernelVars
  <2> QED
    BY <2>1, <2>5, <2>7 DEF ReadInv, ReadRightUnlessShort, ReadReturnsFile
<1>6. CASE ReadEnds
  <2>1. /\ Reading /\ Fd \in DOMAIN desc
        /\ call.left = 0 \/ call.offset >= Len(file)
        /\ result' = [from |-> call.from, size |-> call.size,
                      length |-> call.size - call.left, buf |-> call.buf,
                      short |-> call.short, file |-> file]
        /\ call' = Idle
    BY <1>6 DEF ReadEnds
  <2>2. call \in ReadCalls /\ file \in Seq(0..255)
    BY <1>1, <2>1, ReadCallType
  <2>3. Counted(call) /\ PartRead(call, file)
    BY <2>1 DEF ReadInv
  <2>4. /\ result'.from = call.from /\ result'.size = call.size
        /\ result'.length = call.size - call.left
        /\ result'.buf = call.buf /\ result'.short = call.short
        /\ result'.file = file
    BY <2>1
  <2>5. ~result'.short => ReadReturnsFile'
    <3> SUFFICES ASSUME ~call.short
                 PROVE  LET asked == Asked(file, call.from, call.size)
                            got   == call.size - call.left
                        IN  /\ got = Len(asked)
                            /\ SubSeq(call.buf, 1, got) = asked
      BY <2>4 DEF ReadReturnsFile
    <3> HIDE DEF file
    <3> QED
      BY <2>1, <2>2, <2>3, ReadRight
  <2>6. result' = NoResult => ReadReturnsFile'
    BY DEF ReadReturnsFile
  <2> QED
    BY <2>1, <2>5, <2>6 DEF ReadInv, ReadRightUnlessShort, Reading, Idle
<1>7. CASE WriteSome
  <2>1. Appending /\ result' = NoResult
    BY <1>7 DEF WriteSome
  <2>2. call.op = "append" /\ call \in AppendCalls \cup ReadCalls \cup {Idle}
    BY <2>1 DEF TypeOK, Appending
  <2>3. call \in AppendCalls
    BY <2>2 DEF ReadCalls, Idle
  <2>4. call'.op # "read"
    BY <1>7, <2>3 DEF WriteSome, AppendCalls, Idle
  <2> QED
    BY <1>2, <2>1, <2>4
<1>8. ASSUME NEW s \in Slots, NEW name \in Names, NEW isNew \in BOOLEAN,
             OpenRWFile(s, name, isNew)
      PROVE  ReadInv'
  BY <1>2, <1>8 DEF OpenRWFile, Idle
<1>9. ASSUME NEW s \in Slots, NEW name \in Names, OpenReadableFile(s, name)
      PROVE  ReadInv'
  BY <1>2, <1>9 DEF OpenReadableFile, Idle
<1>10. ASSUME NEW s \in Slots, Close(s) \/ Destroy(s) \/ Sync(s)
       PROVE  ReadInv'
  BY <1>2, <1>10 DEF Close, Destroy, Sync, Idle
<1>11. ASSUME NEW name \in Names, RemoveFile(name)
       PROVE  ReadInv'
  BY <1>2, <1>11 DEF RemoveFile, Idle
<1>12. ASSUME NEW s \in Slots, NEW slice \in Slices, AppendBegin(s, slice)
       PROVE  ReadInv'
  BY <1>2, <1>12 DEF AppendBegin
<1>13. CASE BadDescriptor \/ CallFails \/ Crash
  BY <1>2, <1>13 DEF BadDescriptor, CallFails, CallReturnsError, Crash, Idle
<1>14. CASE Interrupted
  BY <1>3, <1>14 DEF Interrupted
<1> QED
  BY <1>3, <1>4, <1>5, <1>6, <1>7, <1>8, <1>9, <1>10, <1>11, <1>12, <1>13,
     <1>14 DEF Next

(* read() returns what the file holds, if no pread(2) was short: the loop, *)
(* which asks for all of it in every round and has it put at the start of  *)
(* buf, is right only because one round then does it all.                  *)
THEOREM ReadsRight == Spec => []ReadRightUnlessShort
<1>1. Init => ReadInv
  BY DEF Init, ReadInv, ReadRightUnlessShort, ReadReturnsFile, Reading,
         Idle
<1>2. TypeOK /\ ReadInv /\ [Next]_vars => ReadInv'
  BY FileAssumption, ReadKept
<1>3. ReadInv => ReadRightUnlessShort
  BY DEF ReadInv
<1> QED
  BY <1>1, <1>2, <1>3, TypesRight, PTL DEF Spec

-----------------------------------------------------------------------------
(***************************************************************************)
(* What a program may rely on that appends to files, for all values of the *)
(* constants of PosixFile: WholeAppends, TornIsPrefix, SyncedIsDurable and *)
(* the implementation of AppendLog.                                        *)
(*                                                                         *)
(* None of these is inductive.  A file without O_APPEND appends because    *)
(* its position is the end of the file, and that stays so because no other *)
(* file is open for writing on the inode: NoOtherWriter and AtEnd.  That   *)
(* an append() that is done is whole follows from where the one under way  *)
(* stands: PartWritten.  What a loss of power leaves of a file has in it   *)
(* what was synced because the file has only grown since then, unless it   *)
(* was emptied: Grown; and of a file that was emptied nothing was synced:  *)
(* EmptiedUnsynced.                                                        *)
(***************************************************************************)
NoOtherWriter == \A i \in Inodes : ~mixed[i] => ~Mixed(desc, i)

(* The next write of a file without O_APPEND goes to the end.              *)
AtEnd ==
  ~closeFailed =>
    \A fd \in DOMAIN desc :
      desc[fd].write /\ ~desc[fd].append /\ ~mixed[desc[fd].inode] =>
        desc[fd].pos = Len(content[desc[fd].inode])

(* The append() under way has put a first part of its slice, and nothing   *)
(* else, behind the old end of the file.                                   *)
PartWritten ==
  Appending /\ ~closeFailed /\ Fd \in DOMAIN desc =>
    LET i    == desc[Fd].inode
        done == Len(call.slice) - call.left
    IN  ~mixed[i] /\ desc[Fd].write =>
          /\ Len(content[i]) = call.at + done
          /\ \A k \in 1..done : content[i][call.at + k] = call.slice[k]

AppendsHeld ==
  ~closeFailed =>
    \A i \in Inodes : ~mixed[i] =>
      \A r \in appended[i] :
        Holds(content[i], r) /\ (r.synced => Holds(durable[i], r))

(* A file that a file begins with.                                         *)
BeginsWith(file, first) ==
  /\ Len(first) <= Len(file)
  /\ \A k \in 1..Len(first) : file[k] = first[k]

(* Where no file was emptied, what is on the disk is also in the file.     *)
Grown ==
  ~closeFailed =>
    \A i \in Inodes : ~mixed[i] /\ ~emptied[i] =>
      BeginsWith(content[i], durable[i])

EmptiedUnsynced ==
  \A i \in Inodes : emptied[i] => \A r \in appended[i] : ~r.synced

(* The inductive invariant.                                                *)
LogInv ==
  /\ TypeOK /\ DescriptorsInv
  /\ NoOtherWriter /\ AtEnd /\ PartWritten /\ AppendsHeld
  /\ Grown /\ EmptiedUnsynced

-----------------------------------------------------------------------------
(* Holds, byte by byte.                                                    *)
LEMMA HoldsBytes ==
  ASSUME FileAssumption, NEW file \in Seq(0..255), NEW r \in Entries
  PROVE  Holds(file, r) <=>
           /\ r.at + Len(r.slice) <= Len(file)
           /\ \A k \in 1..Len(r.slice) : file[r.at + k] = r.slice[k]
<1>1. /\ r.at \in Nat /\ r.slice \in Seq(0..255) /\ Len(r.slice) \in Nat
      /\ Len(file) \in Nat
  BY DEF FileAssumption, Entries
<1>2. ASSUME r.at + Len(r.slice) <= Len(file)
      PROVE  SubSeq(file, r.at + 1, r.at + Len(r.slice)) = r.slice <=>
               \A k \in 1..Len(r.slice) : file[r.at + k] = r.slice[k]
  <2> DEFINE part == SubSeq(file, r.at + 1, r.at + Len(r.slice))
  <2>1. /\ r.at + 1 \in 1..(Len(file) + 1)
        /\ r.at + Len(r.slice) \in 0..Len(file)
    BY <1>1, <1>2
  <2>2. /\ part \in Seq(0..255)
        /\ Len(part) = Len(r.slice)
        /\ \A k \in 1..Len(r.slice) : part[k] = file[r.at + k]
    <3> DEFINE m == r.at + 1
               n == r.at + Len(r.slice)
    <3>1. /\ part \in Seq(0..255)
          /\ Len(part) = IF m <= n THEN n - m + 1 ELSE 0
          /\ \A k \in 1..(n - m + 1) : part[k] = file[m + k - 1]
      BY <2>1, PartOfBytes
    <3>2. n - m + 1 = Len(r.slice)
      BY <1>1
    <3>3. \A k \in 1..Len(r.slice) : m + k - 1 = r.at + k
      BY <1>1
    <3> HIDE DEF part
    <3> QED
      BY <1>1, <3>1, <3>2, <3>3
  <2>3. part = r.slice <=> \A k \in 1..Len(r.slice) : part[k] = r.slice[k]
    <3> HIDE DEF part
    <3> QED
      BY <1>1, <2>2, SeqEqual
  <2> QED
    BY <2>2, <2>3
<1> QED
  BY <1>2 DEF Holds

(* What a file holds, it holds when bytes are added.                       *)
LEMMA HoldsLonger ==
  ASSUME FileAssumption, NEW r \in Entries,
         NEW file \in Seq(0..255), NEW first \in Seq(0..255),
         BeginsWith(file, first), Holds(first, r)
  PROVE  Holds(file, r)
<1>1. /\ r.at \in Nat /\ Len(r.slice) \in Nat
      /\ Len(file) \in Nat /\ Len(first) \in Nat
  BY DEF FileAssumption, Entries
<1>2. /\ r.at + Len(r.slice) <= Len(first)
      /\ \A k \in 1..Len(r.slice) : first[r.at + k] = r.slice[k]
  BY HoldsBytes
<1>3. \A k \in 1..Len(r.slice) : r.at + k \in 1..Len(first)
  BY <1>1, <1>2
<1>4. /\ r.at + Len(r.slice) <= Len(file)
      /\ \A k \in 1..Len(r.slice) : file[r.at + k] = r.slice[k]
  <2>1. \A k \in 1..Len(r.slice) : file[r.at + k] = first[r.at + k]
    BY <1>3 DEF BeginsWith
  <2>2. Len(first) <= Len(file)
    BY DEF BeginsWith
  <2>3. r.at + Len(r.slice) <= Len(file)
    BY <1>1, <1>2, <2>2
  <2> QED
    BY <1>2, <2>1, <2>3
<1> QED
  BY <1>4, HoldsBytes

LEMMA ConcatBytes ==
  ASSUME NEW file \in Seq(0..255), NEW bytes \in Seq(0..255),
         NEW n, Len(bytes) = n
  PROVE  /\ Len(file \o bytes) = Len(file) + n
         /\ \A k \in 1..(Len(file) + n) :
              (file \o bytes)[k] = IF k <= Len(file) THEN file[k]
                                   ELSE bytes[k - Len(file)]
BY ConcatProperties

LEMMA ConcatBegins ==
  ASSUME NEW file \in Seq(0..255), NEW bytes \in Seq(0..255)
  PROVE  BeginsWith(file \o bytes, file)
BY ConcatProperties DEF BeginsWith

LEMMA BeginsLonger ==
  ASSUME NEW file \in Seq(0..255), NEW bytes \in Seq(0..255),
         NEW first \in Seq(0..255), BeginsWith(file, first)
  PROVE  BeginsWith(file \o bytes, first)
<1>1. BeginsWith(file \o bytes, file)
  BY ConcatBegins
<1>2. /\ Len(first) \in Nat /\ Len(file) \in Nat
      /\ file \o bytes \in Seq(0..255) /\ Len(file \o bytes) \in Nat
  BY ConcatProperties
<1> HIDE DEF BeginsWith
<1> QED
  BY <1>1, <1>2 DEF BeginsWith

(* What a loss of power leaves of a file that has only grown begins with   *)
(* what was on the disk.                                                   *)
LEMMA SurvivingBegins ==
  ASSUME NEW i \in Inodes, content[i] \in Seq(0..255),
         durable[i] \in Seq(0..255), NEW file \in Surviving(i),
         ~emptied[i], BeginsWith(content[i], durable[i])
  PROVE  BeginsWith(file, durable[i])
<1>1. CASE file = durable[i]
  BY <1>1 DEF BeginsWith
<1>2. ASSUME NEW n \in 0..Len(content[i]), Len(durable[i]) <= n,
             file = SubSeq(content[i], 1, n)
      PROVE  BeginsWith(file, durable[i])
  <2>1. Len(file) = n /\ \A k \in 1..n : file[k] = content[i][k]
    BY <1>2, FirstOfBytes
  <2>2. \A k \in 1..Len(durable[i]) : durable[i][k] = content[i][k]
    BY DEF BeginsWith
  <2>3. Len(durable[i]) \in Nat /\ n \in Nat
    OBVIOUS
  <2> QED
    BY <1>2, <2>1, <2>2, <2>3 DEF BeginsWith
<1> QED
  BY <1>1, <1>2, SurvivingIsPrefix

(* Closing descriptors does not make a file mixed.                         *)
LEMMA FewerNotMixed ==
  ASSUME NEW table, NEW other, NEW i, ~Mixed(table, i),
         DOMAIN other \subseteq DOMAIN table,
         \A x \in DOMAIN other : other[x] = table[x]
  PROVE  ~Mixed(other, i)
BY DEF Mixed

-----------------------------------------------------------------------------
(* A round of append(), read off WriteSome: the file on inode i gets n     *)
(* bytes of the slice, and a description at most its position.             *)
WritesTo(i, n) ==
  /\ Appending /\ Fd \in DOMAIN desc /\ desc[Fd].write /\ i = desc[Fd].inode
  /\ content' = [content EXCEPT
                   ![i] = Written(content[i], WritePosition(desc[Fd]),
                                  NextBytes(n))]
  /\ DOMAIN desc' = DOMAIN desc
  /\ \A x \in DOMAIN desc :
       /\ desc'[x].inode = desc[x].inode /\ desc'[x].write = desc[x].write
       /\ desc'[x].append = desc[x].append
       /\ desc'[x].pos = IF x = Fd /\ ~desc[x].append THEN desc[x].pos + n
                         ELSE desc[x].pos
  /\ UNCHANGED << durable, emptied, fd_, mixed, closeFailed >>
  /\ \/ /\ n # call.left
        /\ call' = [call EXCEPT !.left = call.left - n]
        /\ UNCHANGED appended
     \/ /\ n = call.left
        /\ call' = Idle
        /\ appended' = [appended EXCEPT ![i] = appended[i] \cup
             { [at |-> call.at, slice |-> call.slice, synced |-> FALSE] }]

LEMMA WriteSomeWrites ==
  ASSUME TypeOK, WriteSome
  PROVE  \E i \in Inodes, n \in 1..call.left : WritesTo(i, n)
<1> DEFINE i == desc[Fd].inode
<1>1. Appending /\ Fd \in DOMAIN desc /\ desc[Fd].write
  BY DEF WriteSome
<1>2. i \in Inodes
  BY <1>1 DEF TypeOK, Descriptions
<1>3. PICK n \in 1..call.left :
        /\ content' = [content EXCEPT
                         ![i] = Written(@, WritePosition(desc[Fd]),
                                        NextBytes(n))]
        /\ desc' = IF desc[Fd].append THEN desc
                   ELSE [desc EXCEPT ![Fd].pos = @ + n]
        /\ \/ /\ n # call.left
              /\ call' = [call EXCEPT !.left = LeftAfter(n)]
              /\ UNCHANGED appended
           \/ /\ n = call.left
              /\ call' = Idle
              /\ appended' = [appended EXCEPT ![i] = @ \cup
                   { [at |-> call.at, slice |-> call.slice,
                      synced |-> FALSE] }]
  BY DEF WriteSome
<1>4. /\ DOMAIN desc' = DOMAIN desc
      /\ \A x \in DOMAIN desc :
           /\ desc'[x].inode = desc[x].inode
           /\ desc'[x].write = desc[x].write
           /\ desc'[x].append = desc[x].append
           /\ desc'[x].pos = IF x = Fd /\ ~desc[x].append
                             THEN desc[x].pos + n ELSE desc[x].pos
  BY <1>1, <1>3 DEF TypeOK, Descriptions
<1>5. UNCHANGED << durable, emptied, fd_, mixed, closeFailed >>
  BY DEF WriteSome
<1> QED
  BY <1>1, <1>2, <1>3, <1>4, <1>5 DEF WritesTo, LeftAfter

(* The bytes of the round, and where the append() stands before it.        *)
LEMMA AppendCallType ==
  ASSUME FileAssumption, TypeOK, Appending
  PROVE  /\ call \in AppendCalls
         /\ call.slice \in Slices /\ call.slice \in Seq(0..255)
         /\ call.left \in 1..Len(call.slice) /\ call.at \in Nat
<1>1. call.op = "append" /\ call \in AppendCalls \cup ReadCalls \cup {Idle}
  BY DEF TypeOK, Appending
<1>2. call \in AppendCalls
  BY <1>1 DEF ReadCalls, Idle
<1> QED
  BY <1>2 DEF AppendCalls, FileAssumption

LEMMA NextBytesAre ==
  ASSUME FileAssumption, TypeOK, Appending, NEW n \in 1..call.left
  PROVE  LET done == Len(call.slice) - call.left
         IN  /\ NextBytes(n) \in Seq(0..255)
             /\ Len(NextBytes(n)) = n
             /\ \A k \in 1..n : NextBytes(n)[k] = call.slice[done + k]
<1> DEFINE s == call.slice
           done == Len(s) - call.left
<1>1. s \in Seq(0..255) /\ Len(s) \in Nat /\ call.left \in 1..Len(s)
  BY AppendCallType
<1>2. /\ done + 1 \in 1..(Len(s) + 1) /\ done + n \in 0..Len(s)
      /\ done + 1 <= done + n /\ (done + n) - (done + 1) + 1 = n
      /\ \A k \in 1..n : (done + 1) + k - 1 = done + k
  <2>1. /\ done \in Nat /\ n \in Nat /\ 1 <= n
        /\ done + n <= Len(s) /\ Len(s) \in Nat
    BY <1>1
  <2> HIDE DEF done
  <2> QED
    BY <2>1
<1>3. /\ SubSeq(s, done + 1, done + n) \in Seq(0..255)
      /\ Len(SubSeq(s, done + 1, done + n)) = n
      /\ \A k \in 1..n : SubSeq(s, done + 1, done + n)[k] = s[done + k]
  <2> HIDE DEF s, done
  <2> QED
    BY <1>1, <1>2, PartOfBytes
<1> QED
  BY <1>3 DEF NextBytes

(* Every write to a file that is not mixed is at its end.                  *)
LEMMA WritesAtEnd ==
  ASSUME FileAssumption, LogInv, NEW i \in Inodes, NEW n \in 1..call.left,
         WritesTo(i, n), ~closeFailed, ~mixed[i]
  PROVE  content'[i] = content[i] \o NextBytes(n)
<1>1. content[i] \in Seq(0..255) /\ NextBytes(n) \in Seq(0..255)
  BY NextBytesAre DEF LogInv, TypeOK, WritesTo
<1>2. WritePosition(desc[Fd]) = Len(content[i])
  BY DEF LogInv, AtEnd, WritesTo, WritePosition
<1>3. content'[i] = Written(content[i], Len(content[i]), NextBytes(n))
  BY <1>2 DEF WritesTo, LogInv, TypeOK
<1> QED
  BY <1>1, <1>3, WrittenAtEnd

-----------------------------------------------------------------------------
(* Steps that leave the files alone, and that open nothing for writing.    *)
LEMMA QuietKeeps ==
  ASSUME LogInv, TypeOK', DescriptorsInv', PartWritten',
         UNCHANGED << content, durable, emptied, appended, mixed >>,
         closeFailed => closeFailed',
         \A x \in DOMAIN desc' :
           desc'[x].write => x \in DOMAIN desc /\ desc'[x] = desc[x]
  PROVE  LogInv'
<1>1. NoOtherWriter'
  BY DEF LogInv, NoOtherWriter, Mixed
<1>2. AtEnd'
  BY DEF LogInv, AtEnd
<1>3. AppendsHeld'
  BY DEF LogInv, AppendsHeld
<1>4. Grown'
  BY DEF LogInv, Grown
<1>5. EmptiedUnsynced'
  BY DEF LogInv, EmptiedUnsynced
<1> QED
  BY <1>1, <1>2, <1>3, <1>4, <1>5 DEF LogInv

(* No append() is under way after a step that leaves another call or none. *)
LEMMA NoAppendNoPart ==
  ASSUME call'.op # "append"
  PROVE  PartWritten'
BY DEF PartWritten, Appending

LEMMA WriteKeeps ==
  ASSUME FileAssumption, LogInv, WriteSome, TypeOK', DescriptorsInv'
  PROVE  LogInv'
<1>1. PICK i \in Inodes, n \in 1..call.left : WritesTo(i, n)
  BY WriteSomeWrites DEF LogInv
<1> DEFINE s     == call.slice
           done  == Len(s) - call.left
           bytes == NextBytes(n)
           old   == content[i]
<1>2. /\ s \in Slices /\ s \in Seq(0..255) /\ call.left \in 1..Len(s)
      /\ call.at \in Nat
  BY <1>1, AppendCallType DEF LogInv, WritesTo
<1>3. /\ bytes \in Seq(0..255) /\ Len(bytes) = n
      /\ \A k \in 1..n : bytes[k] = s[done + k]
  BY <1>1, NextBytesAre DEF LogInv, WritesTo
<1>4. /\ old \in Seq(0..255) /\ content'[i] \in Seq(0..255)
      /\ \A j \in Inodes \ {i} : content'[j] = content[j]
  BY <1>1 DEF LogInv, TypeOK, WritesTo
<1>5. ~closeFailed /\ ~mixed[i] =>
        /\ content'[i] = old \o bytes
        /\ Len(content'[i]) = Len(old) + n
        /\ \A k \in 1..(Len(old) + n) :
             content'[i][k] = IF k <= Len(old) THEN old[k]
                              ELSE bytes[k - Len(old)]
  <2>1. ~closeFailed /\ ~mixed[i] => content'[i] = old \o bytes
    BY <1>1, WritesAtEnd
  <2>2. /\ Len(old \o bytes) = Len(old) + n
        /\ \A k \in 1..(Len(old) + n) :
             (old \o bytes)[k] = IF k <= Len(old) THEN old[k]
                                 ELSE bytes[k - Len(old)]
    <3> HIDE DEF old, bytes
    <3> QED
      BY <1>3, <1>4, ConcatBytes
  <2> QED
    BY <2>1, <2>2
<1>6. NoOtherWriter'
  BY <1>1 DEF LogInv, NoOtherWriter, Mixed, WritesTo
<1>7. AtEnd'
  <2> SUFFICES ASSUME ~closeFailed, NEW x \in DOMAIN desc,
                      desc[x].write, ~desc[x].append, ~mixed[desc[x].inode]
               PROVE  desc'[x].pos = Len(content'[desc[x].inode])
    BY <1>1 DEF AtEnd, WritesTo
  <2>1. desc[x].inode \in Inodes /\ desc[x].pos = Len(content[desc[x].inode])
    BY DEF LogInv, TypeOK, Descriptions, AtEnd
  <2>2. CASE desc[x].inode # i
    BY <1>1, <1>4, <2>1, <2>2 DEF WritesTo
  <2>3. CASE desc[x].inode = i
    <3>1. x = Fd
      BY <1>1, <2>3 DEF LogInv, NoOtherWriter, Mixed, WritesTo
    <3>2. desc'[x].pos = Len(old) + n
      BY <1>1, <2>1, <2>3, <3>1 DEF WritesTo
    <3>3. Len(content'[i]) = Len(old) + n
      BY <1>1, <1>5, <2>3 DEF WritesTo
    <3> QED
      BY <2>3, <3>2, <3>3
  <2> QED
    BY <2>2, <2>3
<1>8. ASSUME ~closeFailed, ~mixed[i]
      PROVE  /\ Len(content'[i]) = call.at + done + n
             /\ \A k \in 1..(done + n) : content'[i][call.at + k] = s[k]
  <2>1. /\ Len(old) = call.at + done
        /\ \A k \in 1..done : old[call.at + k] = s[k]
    BY <1>1, <1>8 DEF LogInv, PartWritten, WritesTo
  <2>2. done \in Nat /\ n \in Nat /\ call.at \in Nat
    BY <1>2
  <2>3. /\ Len(content'[i]) = Len(old) + n
        /\ \A k \in 1..(Len(old) + n) :
             content'[i][k] = IF k <= Len(old) THEN old[k]
                              ELSE bytes[k - Len(old)]
    BY <1>5, <1>8
  <2>4. ASSUME NEW k \in 1..(done + n)
        PROVE  content'[i][call.at + k] = s[k]
    <3> HIDE DEF done, bytes, old, s
    <3>1. CASE k <= done
      <4>1. /\ call.at + k \in 1..(Len(old) + n) /\ call.at + k <= Len(old)
            /\ k \in 1..done
        BY <2>1, <2>2, <3>1
      <4> QED
        BY <2>1, <2>3, <4>1
    <3>2. CASE ~(k <= done)
      <4>1. /\ call.at + k \in 1..(Len(old) + n)
            /\ ~(call.at + k <= Len(old))
        BY <2>1, <2>2, <3>2
      <4>2. (call.at + k) - Len(old) = k - done
        BY <2>1, <2>2
      <4>3. k - done \in 1..n /\ done + (k - done) = k
        BY <2>2, <3>2
      <4>4. content'[i][call.at + k] = bytes[k - done]
        BY <2>3, <4>1, <4>2
      <4> QED
        BY <1>3, <4>3, <4>4
    <3> QED
      BY <3>1, <3>2
  <2> QED
    BY <2>1, <2>2, <2>3, <2>4
<1>9. PartWritten'
  <2>1. CASE n = call.left
    BY <1>1, <2>1, NoAppendNoPart DEF WritesTo, Idle
  <2>2. CASE n # call.left
    <3>1. /\ call'.slot = call.slot /\ call'.slice = s /\ call'.at = call.at
          /\ call'.left = call.left - n
          /\ fd_' = fd_
      BY <1>1, <1>2, <2>2, AppendCallType
         DEF LogInv, WritesTo, AppendCalls
    <3>2. Len(s) - call'.left = done + n
      BY <1>2, <3>1
    <3>3. /\ Fd' = Fd /\ desc'[Fd].inode = i
          /\ closeFailed' = closeFailed /\ mixed' = mixed
      BY <1>1, <3>1 DEF WritesTo, Fd
    <3>4. call'.at + (Len(s) - call'.left) = call.at + done + n
      BY <1>2, <3>1
    <3> QED
      BY <1>8, <3>1, <3>2, <3>3, <3>4 DEF PartWritten
  <2> QED
    BY <2>1, <2>2
<1>10. AppendsHeld'
  <2> DEFINE e == [at |-> call.at, slice |-> s, synced |-> FALSE]
  <2> SUFFICES ASSUME ~closeFailed, NEW j \in Inodes, ~mixed[j],
                      NEW r \in appended'[j]
               PROVE  /\ Holds(content'[j], r)
                      /\ r.synced => Holds(durable[j], r)
    BY <1>1 DEF AppendsHeld, WritesTo
  <2>1. CASE r \in appended[j]
    <3>1. Holds(content[j], r) /\ (r.synced => Holds(durable[j], r))
      BY <2>1 DEF LogInv, AppendsHeld
    <3>2. CASE j # i
      BY <1>4, <3>1, <3>2
    <3>3. CASE j = i
      <4>1. r \in Entries
        BY <2>1 DEF LogInv, TypeOK
      <4>2. BeginsWith(content'[i], old)
        BY <1>3, <1>4, <1>5, <3>3, ConcatBegins
      <4> QED
        BY <1>4, <3>1, <3>3, <4>1, <4>2, HoldsLonger
    <3> QED
      BY <3>2, <3>3
  <2>2. CASE r \notin appended[j]
    <3>1. j = i /\ r = e /\ n = call.left
      BY <1>1, <2>2 DEF WritesTo, LogInv, TypeOK
    <3>2. e \in Entries /\ ~e.synced
      BY <1>2 DEF Entries
    <3>3. /\ call.at + Len(s) <= Len(content'[i])
          /\ \A k \in 1..Len(s) : content'[i][call.at + k] = s[k]
      <4>1. done + n = Len(s) /\ call.at + done + n = call.at + Len(s)
        BY <1>2, <3>1
      <4>2. Len(s) \in Nat
        BY <1>2
      <4> QED
        BY <1>2, <1>8, <3>1, <4>1, <4>2
    <3>4. Holds(content'[i], e)
      BY <1>4, <3>2, <3>3, HoldsBytes
    <3> QED
      BY <3>1, <3>2, <3>4
  <2> QED
    BY <2>1, <2>2
<1>11. Grown'
  <2> SUFFICES ASSUME ~closeFailed, NEW j \in Inodes, ~mixed[j], ~emptied[j]
               PROVE  BeginsWith(content'[j], durable[j])
    BY <1>1 DEF Grown, WritesTo
  <2>1. BeginsWith(content[j], durable[j]) /\ durable[j] \in Seq(0..255)
    BY DEF LogInv, Grown, TypeOK
  <2>2. CASE j # i
    BY <1>4, <2>1, <2>2
  <2>3. CASE j = i
    <3> HIDE DEF bytes, old
    <3>1. BeginsWith(old \o bytes, durable[j])
      BY <1>3, <1>4, <2>1, <2>3, BeginsLonger DEF old
    <3> QED
      BY <1>5, <2>3, <3>1
  <2> QED
    BY <2>2, <2>3
<1>12. EmptiedUnsynced'
  <2> DEFINE e == [at |-> call.at, slice |-> s, synced |-> FALSE]
  <2>1. \/ appended' = appended
        \/ appended' = [appended EXCEPT ![i] = appended[i] \cup {e}]
    BY <1>1 DEF WritesTo
  <2>2. emptied' = emptied /\ ~e.synced
    BY <1>1 DEF WritesTo
  <2> HIDE DEF e
  <2>3. \A j \in Inodes : appended'[j] \subseteq appended[j] \cup {e}
    BY <2>1 DEF LogInv, TypeOK
  <2> QED
    BY <2>2, <2>3 DEF LogInv, EmptiedUnsynced
<1> QED
  BY <1>6, <1>7, <1>9, <1>10, <1>11, <1>12 DEF LogInv

(* After a sync() everything that was appended is on the disk.             *)
LEMMA SyncKeeps ==
  ASSUME LogInv, NEW s \in Slots, Sync(s), TypeOK', DescriptorsInv'
  PROVE  LogInv'
<1> DEFINE i == desc[fd_[s]].inode
<1>1. /\ durable' = [durable EXCEPT ![i] = content[i]]
      /\ emptied' = [emptied EXCEPT ![i] = FALSE]
      /\ appended' = [appended EXCEPT ![i] =
                        { [r EXCEPT !.synced = TRUE] : r \in appended[i] }]
      /\ call = Idle
      /\ UNCHANGED << content, desc, fd_, call, mixed, closeFailed >>
  BY DEF Sync
<1>2. NoOtherWriter'
  BY <1>1 DEF LogInv, NoOtherWriter, Mixed
<1>3. AtEnd'
  BY <1>1 DEF LogInv, AtEnd
<1>4. PartWritten'
  BY <1>1, NoAppendNoPart DEF Idle
<1>5. AppendsHeld'
  <2> SUFFICES ASSUME ~closeFailed, NEW j \in Inodes, ~mixed[j],
                      NEW r \in appended'[j]
               PROVE  /\ Holds(content[j], r)
                      /\ r.synced => Holds(durable'[j], r)
    BY <1>1 DEF AppendsHeld
  <2>1. CASE j # i
    BY <1>1, <2>1 DEF LogInv, AppendsHeld, TypeOK
  <2>2. CASE j = i
    <3>1. durable'[j] = content[j]
      BY <1>1, <2>2 DEF LogInv, TypeOK
    <3>2. PICK old \in appended[j] : r = [old EXCEPT !.synced = TRUE]
      BY <1>1, <2>2 DEF LogInv, TypeOK
    <3>3. Holds(content[j], old)
      BY DEF LogInv, AppendsHeld
    <3>4. old \in Entries
      BY DEF LogInv, TypeOK
    <3>5. r.at = old.at /\ r.slice = old.slice
      BY <3>2, <3>4 DEF Entries
    <3> QED
      BY <3>1, <3>3, <3>5 DEF Holds
  <2> QED
    BY <2>1, <2>2
<1>6. Grown'
  <2> SUFFICES ASSUME ~closeFailed, NEW j \in Inodes, ~mixed[j], ~emptied'[j]
               PROVE  BeginsWith(content[j], durable'[j])
    BY <1>1 DEF Grown
  <2>1. CASE j # i
    BY <1>1, <2>1 DEF LogInv, Grown, TypeOK
  <2>2. CASE j = i
    <3>1. durable'[j] = content[j] /\ Len(content[j]) \in Nat
      BY <1>1, <2>2 DEF LogInv, TypeOK
    <3> QED
      BY <3>1 DEF BeginsWith
  <2> QED
    BY <2>1, <2>2
<1>7. EmptiedUnsynced'
  <2> SUFFICES ASSUME NEW j \in Inodes, emptied'[j]
               PROVE  emptied[j] /\ appended'[j] = appended[j]
    BY DEF LogInv, EmptiedUnsynced
  <2> QED
    BY <1>1 DEF LogInv, TypeOK
<1> QED
  BY <1>2, <1>3, <1>4, <1>5, <1>6, <1>7 DEF LogInv

LEMMA CrashKeeps ==
  ASSUME FileAssumption, LogInv, Crash, TypeOK', DescriptorsInv'
  PROVE  LogInv'
<1>1. /\ \A i \in Inodes : content'[i] \in Surviving(i)
      /\ durable' = content' /\ emptied' = [ i \in Inodes |-> FALSE ]
      /\ DOMAIN desc' = {} /\ call' = Idle
      /\ appended' = [ i \in Inodes |-> { r \in appended[i] : r.synced } ]
      /\ UNCHANGED << mixed, closeFailed >>
  BY DEF Crash
<1>2. NoOtherWriter'
  BY <1>1 DEF NoOtherWriter, Mixed
<1>3. AtEnd'
  BY <1>1 DEF AtEnd
<1>4. PartWritten'
  BY <1>1, NoAppendNoPart DEF Idle
<1>5. AppendsHeld'
  <2> SUFFICES ASSUME ~closeFailed, NEW i \in Inodes, ~mixed[i],
                      NEW r \in appended[i], r.synced
               PROVE  Holds(content'[i], r)
    BY <1>1 DEF AppendsHeld
  <2>1. Holds(durable[i], r) /\ ~emptied[i]
    BY DEF LogInv, AppendsHeld, EmptiedUnsynced
  <2>2. /\ r \in Entries /\ content[i] \in Seq(0..255)
        /\ durable[i] \in Seq(0..255) /\ content'[i] \in Seq(0..255)
    BY DEF LogInv, TypeOK
  <2>3. BeginsWith(content[i], durable[i])
    BY <2>1 DEF LogInv, Grown
  <2>4. BeginsWith(content'[i], durable[i])
    BY <1>1, <2>1, <2>2, <2>3, SurvivingBegins
  <2> QED
    BY <2>1, <2>2, <2>4, HoldsLonger
<1>6. Grown'
  <2>1. \A i \in Inodes : durable'[i] = content'[i] /\ Len(content'[i]) \in Nat
    BY <1>1 DEF TypeOK
  <2> QED
    BY <2>1 DEF Grown, BeginsWith
<1>7. EmptiedUnsynced'
  BY <1>1 DEF EmptiedUnsynced
<1> QED
  BY <1>2, <1>3, <1>4, <1>5, <1>6, <1>7 DEF LogInv

(* What newRWFile() and repenRWFile() do, with the inode they open.        *)
OpensOn(s, name, isNew, i, empty) ==
  /\ empty = (name \notin DOMAIN inode \/ isNew)
  /\ ~isNew \/ empty
  /\ IF empty THEN /\ content' = [content EXCEPT ![i] = << >>]
                   /\ appended' = [appended EXCEPT ![i] = {}]
                   /\ \E file \in {<< >>} \cup Surviving(i) :
                        durable' = [durable EXCEPT ![i] = file]
                   /\ \/ emptied' = [emptied EXCEPT ![i] = TRUE]
                      \/ /\ emptied' = [emptied EXCEPT ![i] = FALSE]
                         /\ durable' = [durable EXCEPT ![i] = << >>]
              ELSE UNCHANGED << content, appended, durable, emptied >>
  /\ Opened(s, Description(i, s, ~isNew, TRUE))
  /\ mixed' = [mixed EXCEPT ![i] =
                 (mixed[i] /\ ~empty) \/ Mixed(desc', i)]
  /\ call = Idle /\ call' = Idle /\ Fds \ DOMAIN desc # {}

LEMMA OpenRWOpens ==
  ASSUME TypeOK, NEW s \in Slots, NEW name \in Names, NEW isNew \in BOOLEAN,
         OpenRWFile(s, name, isNew)
  PROVE  \E i \in Inodes, empty \in BOOLEAN :
           OpensOn(s, name, isNew, i, empty)
<1> DEFINE fresh == name \notin DOMAIN inode
           empty == fresh \/ isNew
<1>1. PICK i \in IF name \in DOMAIN inode THEN {inode[name]}
                 ELSE FreshInodes :
        /\ content' = IF empty THEN [content EXCEPT ![i] = << >>]
                      ELSE content
        /\ durable' \in { [durable EXCEPT ![i] = file] :
                           file \in IF fresh THEN {<< >>}
                                   ELSE IF isNew THEN Surviving(i)
                                   ELSE {durable[i]} }
        /\ emptied' = IF empty THEN [emptied EXCEPT ![i] = ~fresh]
                      ELSE emptied
        /\ appended' = IF empty THEN [appended EXCEPT ![i] = {}]
                       ELSE appended
        /\ Opened(s, Description(i, s, ~isNew, TRUE))
        /\ mixed' = [mixed EXCEPT ![i] =
                       (@ /\ ~empty) \/ Mixed(desc', i)]
  BY DEF OpenRWFile
<1>2. i \in Inodes
  BY DEF TypeOK, FreshInodes
<1>3. call = Idle /\ call' = Idle /\ Fds \ DOMAIN desc # {}
  BY DEF OpenRWFile
<1>4. /\ empty => \E file \in {<< >>} \cup Surviving(i) :
                     durable' = [durable EXCEPT ![i] = file]
      /\ fresh => durable' = [durable EXCEPT ![i] = << >>]
      /\ ~empty => durable' = durable
  BY <1>1, <1>2 DEF TypeOK
<1>5. OpensOn(s, name, isNew, i, empty)
  BY <1>1, <1>3, <1>4 DEF OpensOn
<1> QED
  BY <1>2, <1>5

LEMMA OpenKeeps ==
  ASSUME FileAssumption, LogInv, TypeOK', DescriptorsInv',
         NEW s \in Slots, NEW name \in Names, NEW isNew \in BOOLEAN,
         OpenRWFile(s, name, isNew)
  PROVE  LogInv'
<1>1. PICK i \in Inodes, empty \in BOOLEAN :
        OpensOn(s, name, isNew, i, empty)
  BY OpenRWOpens DEF LogInv
<1> DEFINE d == Description(i, s, ~isNew, TRUE)
<1>2. /\ DOMAIN desc \subseteq Fds /\ Fds \ DOMAIN desc # {}
      /\ Opened(s, d)
  BY <1>1 DEF LogInv, TypeOK, OpensOn
<1>3. PICK fd \in Fds \ DOMAIN desc :
        /\ DOMAIN desc' \subseteq DOMAIN desc \cup {fd}
        /\ \A x \in DOMAIN desc' :
             desc'[x] = IF x = fd THEN d ELSE desc[x]
        /\ fd_' = With(fd_, s, fd)
        /\ closeFailed' \in BOOLEAN
        /\ closeFailed => closeFailed'
  <2> HIDE DEF d
  <2> QED
    BY <1>2, OpenedTable
<1>4. /\ d.inode = i /\ d.pos = 0 /\ d.append = ~isNew /\ d.write
  BY DEF Description
<1>5. /\ \A j \in Inodes \ {i} : /\ mixed'[j] = mixed[j]
                                 /\ content'[j] = content[j]
                                 /\ durable'[j] = durable[j]
                                 /\ emptied'[j] = emptied[j]
                                 /\ appended'[j] = appended[j]
      /\ mixed'[i] = ((mixed[i] /\ ~empty) \/ Mixed(desc', i))
  BY <1>1 DEF LogInv, TypeOK, OpensOn
<1>6. ~closeFailed' => fd \in DOMAIN desc'
  <2>1. s \in DOMAIN fd_' /\ fd_'[s] = fd
    BY <1>3 DEF With
  <2>2. fd # NoFd
    BY <1>3 DEF NoFd, FileAssumption
  <2> QED
    BY <2>1, <2>2 DEF DescriptorsInv, Match
<1> HIDE DEF d
<1>7. NoOtherWriter'
  <2> SUFFICES ASSUME NEW j \in Inodes, ~mixed'[j] PROVE ~Mixed(desc', j)
    BY DEF NoOtherWriter
  <2>1. CASE j = i
    BY <1>5, <2>1
  <2>2. CASE j # i
    <3>1. ~Mixed(desc, j)
      BY <1>5, <2>2 DEF LogInv, NoOtherWriter
    <3> QED
      BY <1>3, <1>4, <2>2, <3>1 DEF Mixed
  <2> QED
    BY <2>1, <2>2
<1>8. AtEnd'
  <2> SUFFICES ASSUME ~closeFailed', NEW x \in DOMAIN desc',
                      desc'[x].write, ~desc'[x].append,
                      ~mixed'[desc'[x].inode]
               PROVE  desc'[x].pos = Len(content'[desc'[x].inode])
    BY DEF AtEnd
  <2>1. CASE x = fd
    <3>1. desc'[x] = d /\ isNew
      BY <1>3, <1>4, <2>1
    <3>2. content'[i] = << >>
      BY <1>1, <3>1 DEF LogInv, TypeOK, OpensOn
    <3> QED
      BY <1>4, <3>1, <3>2
  <2>2. CASE x # fd
    <3>1. desc'[x] = desc[x] /\ x \in DOMAIN desc
      BY <1>3, <2>2
    <3>2. desc[x].inode # i
      <4>1. SUFFICES ASSUME desc[x].inode = i PROVE Mixed(desc', i)
        BY <1>5, <3>1
      <4> QED
        BY <1>3, <1>4, <1>6, <2>2, <3>1, <4>1 DEF Mixed
    <3>3. desc[x].inode \in Inodes \ {i}
      BY <3>1, <3>2 DEF LogInv, TypeOK, Descriptions
    <3> QED
      BY <1>3, <1>5, <3>1, <3>3 DEF LogInv, AtEnd
  <2> QED
    BY <2>1, <2>2
<1>9. PartWritten'
  BY <1>1, NoAppendNoPart DEF OpensOn, Idle
<1>10. AppendsHeld'
  <2> SUFFICES ASSUME ~closeFailed, NEW j \in Inodes, ~mixed'[j],
                      NEW r \in appended'[j]
               PROVE  /\ Holds(content'[j], r)
                      /\ r.synced => Holds(durable'[j], r)
    BY <1>3 DEF AppendsHeld
  <2>1. CASE j # i
    BY <1>5, <2>1 DEF LogInv, AppendsHeld
  <2>2. CASE j = i /\ empty
    BY <1>1, <2>2 DEF LogInv, TypeOK, OpensOn
  <2>3. CASE j = i /\ ~empty
    <3>1. ~mixed[j] /\ UNCHANGED << content, appended, durable >>
      BY <1>1, <1>5, <2>3 DEF OpensOn
    <3> QED
      BY <3>1 DEF LogInv, AppendsHeld
  <2> QED
    BY <2>1, <2>2, <2>3
<1>11. empty => /\ content'[i] = << >> /\ appended'[i] = {}
                /\ emptied'[i] \/ durable'[i] = << >>
  BY <1>1 DEF LogInv, TypeOK, OpensOn
<1>12. ~empty => UNCHANGED << content, appended, durable, emptied >>
  BY <1>1 DEF OpensOn
<1>13. Grown'
  <2> SUFFICES ASSUME ~closeFailed', NEW j \in Inodes,
                      ~mixed'[j], ~emptied'[j]
               PROVE  BeginsWith(content'[j], durable'[j])
    BY DEF Grown
  <2>1. CASE j # i
    BY <1>3, <1>5, <2>1 DEF LogInv, Grown
  <2>2. CASE j = i /\ empty
    BY <1>11, <2>2 DEF BeginsWith
  <2>3. CASE j = i /\ ~empty
    BY <1>3, <1>5, <1>12, <2>3 DEF LogInv, Grown
  <2> QED
    BY <2>1, <2>2, <2>3
<1>14. EmptiedUnsynced'
  <2> SUFFICES ASSUME NEW j \in Inodes, emptied'[j], NEW r \in appended'[j]
               PROVE  ~r.synced
    BY DEF EmptiedUnsynced
  <2>1. CASE j # i \/ ~empty
    BY <1>5, <1>12, <2>1 DEF LogInv, EmptiedUnsynced
  <2>2. CASE j = i /\ empty
    BY <1>11, <2>2
  <2> QED
    BY <2>1, <2>2
<1> QED
  BY <1>7, <1>8, <1>9, <1>10, <1>13, <1>14 DEF LogInv

(* Every step keeps the invariant.                                         *)
LEMMA LogKept ==
  ASSUME FileAssumption, LogInv, [Next]_vars
  PROVE  LogInv'
<1>1. TypeOK' /\ DescriptorsInv'
  BY TypesKept, DescriptorsKept DEF LogInv
<1>2. ASSUME NEW s \in Slots, NEW name \in Names, NEW isNew \in BOOLEAN,
             OpenRWFile(s, name, isNew)
      PROVE  LogInv'
  BY <1>1, <1>2, OpenKeeps
<1>3. ASSUME NEW s \in Slots, NEW name \in Names, OpenReadableFile(s, name)
      PROVE  LogInv'
  <2> DEFINE d == Description(inode[name], s, FALSE, FALSE)
  <2>1. /\ Opened(s, d) /\ Fds \ DOMAIN desc # {} /\ ~d.write
        /\ DOMAIN desc \subseteq Fds
        /\ call = Idle /\ call' = Idle
        /\ UNCHANGED << content, durable, emptied, appended, mixed >>
    BY <1>3 DEF OpenReadableFile, Description, LogInv, TypeOK
  <2> HIDE DEF d
  <2>2. PICK fd \in Fds \ DOMAIN desc :
          /\ DOMAIN desc' \subseteq DOMAIN desc \cup {fd}
          /\ \A x \in DOMAIN desc' :
               desc'[x] = IF x = fd THEN d ELSE desc[x]
          /\ fd_' = With(fd_, s, fd)
          /\ closeFailed' \in BOOLEAN
          /\ closeFailed => closeFailed'
    BY <2>1, OpenedTable
  <2>3. PartWritten'
    BY <2>1, NoAppendNoPart DEF Idle
  <2> QED
    BY <1>1, <2>1, <2>2, <2>3, QuietKeeps
<1>4. ASSUME NEW s \in Slots, Close(s) \/ Destroy(s)
      PROVE  LogInv'
  <2>1. PICK outcome \in CloseOutcomes(fd_[s], desc) :
          /\ desc' = outcome.desc
          /\ closeFailed' =
               (closeFailed \/ (~outcome.ok /\ fd_[s] \in DOMAIN desc))
    BY <1>4 DEF Close, Destroy
  <2>2. /\ DOMAIN desc' \subseteq DOMAIN desc
        /\ \A x \in DOMAIN desc' : desc'[x] = desc[x]
    BY <2>1, CloseKeepsOthers
  <2>3. /\ call = Idle /\ call' = Idle /\ (closeFailed => closeFailed')
        /\ UNCHANGED << content, durable, emptied, appended, mixed >>
    BY <1>4, <2>1 DEF Close, Destroy
  <2>4. PartWritten'
    BY <2>3, NoAppendNoPart DEF Idle
  <2> QED
    BY <1>1, <2>2, <2>3, <2>4, QuietKeeps
<1>5. ASSUME UNCHANGED << content, durable, emptied, appended, mixed, desc,
                          fd_, closeFailed >>,
             call' = call \/ call'.op # "append"
      PROVE  LogInv'
  <2>1. CASE call' = call
    <3>1. PartWritten'
      BY <1>5, <2>1 DEF LogInv, PartWritten, Appending, Fd
    <3> QED
      BY <1>1, <1>5, <3>1, QuietKeeps
  <2>2. CASE call'.op # "append"
    <3>1. PartWritten'
      BY <2>2, NoAppendNoPart
    <3> QED
      BY <1>1, <1>5, <3>1, QuietKeeps
  <2> QED
    BY <1>5, <2>1, <2>2
<1>6. ASSUME NEW name \in Names, RemoveFile(name)
      PROVE  LogInv'
  BY <1>5, <1>6 DEF RemoveFile, history
<1>7. ASSUME NEW s \in Slots, Sync(s)
      PROVE  LogInv'
  BY <1>1, <1>7, SyncKeeps
<1>8. ASSUME NEW s \in Slots, NEW slice \in Slices, AppendBegin(s, slice)
      PROVE  LogInv'
  <2>1. UNCHANGED << content, durable, emptied, appended, mixed, desc, fd_,
                     closeFailed >>
    BY <1>8 DEF AppendBegin, kernelVars, history
  <2>2. /\ call'.slot = s /\ call'.slice = slice /\ call'.left = Len(slice)
        /\ fd_[s] \in DOMAIN desc =>
             call'.at = Len(content[desc[fd_[s]].inode])
    BY <1>8 DEF AppendBegin
  <2>3. Len(slice) \in Nat
    BY DEF FileAssumption
  <2>4. PartWritten'
    <3> DEFINE i == desc[fd_[s]].inode
    <3> SUFFICES ASSUME fd_[s] \in DOMAIN desc
                 PROVE  /\ Len(content[i]) = call'.at
                                               + (Len(slice) - Len(slice))
                        /\ \A k \in 1..(Len(slice) - Len(slice)) :
                             content[i][call'.at + k] = slice[k]
      BY <2>1, <2>2 DEF PartWritten, Fd
    <3>1. i \in Inodes
      BY DEF LogInv, TypeOK, Descriptions
    <3>2. content[i] \in Seq(0..255)
      BY <3>1 DEF LogInv, TypeOK
    <3> QED
      BY <2>2, <2>3, <3>2
  <2> QED
    BY <1>1, <2>1, <2>4, QuietKeeps
<1>9. ASSUME NEW s \in Slots, NEW read \in Reads,
             ReadBegin(s, read[1], read[2])
      PROVE  LogInv'
  BY <1>5, <1>9 DEF ReadBegin, kernelVars, history
<1>10. CASE WriteSome
  BY <1>1, <1>10, WriteKeeps
<1>11. CASE ReadSome
  <2>1. call'.op = "read"
    <3>1. call.op = "read" /\ call \in AppendCalls \cup ReadCalls \cup {Idle}
      BY <1>11 DEF ReadSome, Reading, LogInv, TypeOK
    <3>2. call \in ReadCalls
      BY <3>1 DEF AppendCalls, Idle
    <3> QED
      BY <1>11, <3>2 DEF ReadSome, ReadCalls
  <2> QED
    BY <1>5, <1>11, <2>1 DEF ReadSome, kernelVars, history
<1>12. CASE ReadEnds \/ BadDescriptor \/ CallFails
  BY <1>5, <1>12 DEF ReadEnds, BadDescriptor, CallFails, CallReturnsError,
                     Idle, kernelVars, history
<1>13. CASE Interrupted \/ UNCHANGED vars
  BY <1>5, <1>13 DEF Interrupted, vars, kernelVars, history
<1>14. CASE Crash
  BY <1>1, <1>14, CrashKeeps
<1> QED
  BY <1>2, <1>3, <1>4, <1>6, <1>7, <1>8, <1>9, <1>10, <1>11, <1>12, <1>13,
     <1>14 DEF Next

LEMMA LogAlways == Spec => []LogInv
<1>1. Init => LogInv
  <2> SUFFICES ASSUME Init PROVE LogInv
    OBVIOUS
  <2>1. TypeOK
    BY InitTypes
  <2>2. DescriptorsInv
    BY DEF Init, DescriptorsInv, Shape, Match
  <2>3. NoOtherWriter /\ AtEnd
    BY DEF Init, NoOtherWriter, Mixed, AtEnd
  <2>4. PartWritten
    BY DEF Init, PartWritten, Appending, Idle
  <2>5. AppendsHeld
    BY DEF Init, AppendsHeld
  <2>6. Grown /\ EmptiedUnsynced
    BY DEF Init, Grown, BeginsWith, EmptiedUnsynced
  <2> QED
    BY <2>1, <2>2, <2>3, <2>4, <2>5, <2>6 DEF LogInv
<1>2. LogInv /\ [Next]_vars => LogInv'
  BY FileAssumption, LogKept
<1> QED
  BY <1>1, <1>2, PTL DEF Spec

(* The slice of every append() that returned OK stays in its place, whole, *)
(* through later appends, reopening, failures and, once synced, crashes.   *)
THEOREM AppendsWhole == Spec => []WholeAppends
<1>1. LogInv => WholeAppends
  BY DEF LogInv, AppendsHeld, WholeAppends
<1> QED
  BY <1>1, LogAlways, PTL

(* What was appended before a sync() that returned OK is on the disk, and  *)
(* stays there through crashes.                                            *)
THEOREM SyncedDurable == Spec => []SyncedIsDurable
<1>1. LogInv => SyncedIsDurable
  BY DEF LogInv, AppendsHeld, SyncedIsDurable
<1> QED
  BY <1>1, LogAlways, PTL

LEMMA SplitAt ==
  ASSUME NEW file \in Seq(0..255), NEW s \in Seq(0..255),
         NEW at \in Nat, NEW done \in 0..Len(s), Len(file) = at + done,
         \A k \in 1..done : file[at + k] = s[k]
  PROVE  file = SubSeq(file, 1, at) \o SubSeq(s, 1, done)
<1> DEFINE old  == SubSeq(file, 1, at)
           part == SubSeq(s, 1, done)
<1>1. /\ at \in 0..Len(file) /\ done \in Nat /\ Len(s) \in Nat
  OBVIOUS
<1>2. /\ old \in Seq(0..255) /\ Len(old) = at
      /\ \A k \in 1..at : old[k] = file[k]
  BY <1>1, FirstOfBytes
<1>3. /\ part \in Seq(0..255) /\ Len(part) = done
      /\ \A k \in 1..done : part[k] = s[k]
  BY <1>1, FirstOfBytes
<1> HIDE DEF old, part
<1>4. /\ Len(old \o part) = Len(old) + done
      /\ \A k \in 1..(Len(old) + done) :
           (old \o part)[k] = IF k <= Len(old) THEN old[k]
                              ELSE part[k - Len(old)]
  <2>1. /\ old \in Seq(0..255) /\ part \in Seq(0..255)
    BY <1>2, <1>3
  <2>2. /\ Len(old \o part) = Len(old) + Len(part)
        /\ \A k \in 1..(Len(old) + Len(part)) :
             (old \o part)[k] = IF k <= Len(old) THEN old[k]
                                ELSE part[k - Len(old)]
    BY <2>1, ConcatProperties
  <2> QED
    BY <1>3, <2>2
<1>5. ASSUME NEW k \in 1..Len(file)
      PROVE  file[k] = (old \o part)[k]
  <2>1. CASE k <= at
    <3>1. k \in 1..at /\ k \in 1..(Len(old) + done)
      BY <1>1, <1>2, <2>1
    <3> QED
      BY <1>2, <1>4, <2>1, <3>1
  <2>2. CASE ~(k <= at)
    <3>1. /\ k - at \in 1..done /\ at + (k - at) = k
          /\ k \in 1..(Len(old) + done)
      BY <1>1, <1>2, <2>2
    <3>2. (old \o part)[k] = part[k - at]
      BY <1>2, <1>4, <2>2, <3>1
    <3> QED
      BY <1>3, <3>1, <3>2
  <2> QED
    BY <2>1, <2>2
<1>6. Len(file) = Len(old \o part)
  BY <1>2, <1>4
<1>7. old \o part \in Seq(0..255)
  BY <1>2, <1>3, ConcatProperties
<1>8. file = old \o part
  BY <1>5, <1>6, <1>7, SeqEqual
<1> QED
  BY <1>8 DEF old, part

(* Behind the old end of a file, all along an append(), is the first part  *)
(* of its slice and nothing else: where it fails or power is lost, the     *)
(* file has a torn tail but no foreign bytes.                              *)
THEOREM TornPrefix == Spec => []TornIsPrefix
<1>1. LogInv => TornIsPrefix
  <2> DEFINE i    == desc[Fd].inode
             s    == call.slice
             done == Len(s) - call.left
  <2> SUFFICES ASSUME LogInv, Appending, ~closeFailed, Fd \in DOMAIN desc,
                      ~mixed[i], desc[Fd].write
               PROVE  content[i] = SubSeq(content[i], 1, call.at)
                                    \o SubSeq(s, 1, done)
    BY DEF TornIsPrefix
  <2>1. /\ Len(content[i]) = call.at + done
        /\ \A k \in 1..done : content[i][call.at + k] = s[k]
    BY DEF LogInv, PartWritten
  <2>2. s \in Seq(0..255) /\ call.left \in 1..Len(s) /\ call.at \in Nat
    BY FileAssumption, AppendCallType DEF LogInv
  <2>3. done \in 0..Len(s)
    BY <2>2
  <2>4. i \in Inodes
    BY DEF LogInv, TypeOK, Descriptions
  <2>5. content[i] \in Seq(0..255)
    BY <2>4 DEF LogInv, TypeOK
  <2> HIDE DEF i, s, done
  <2> QED
    BY <2>1, <2>2, <2>3, <2>5, SplitAt
<1> QED
  BY <1>1, LogAlways, PTL

-----------------------------------------------------------------------------
(* The implementation of AppendLog.                                        *)

Opens   == { desc[fd].inode : fd \in DOMAIN desc }
Renewed == { i \in Kept : emptied[i] }

LEMMA KeptAre ==
  /\ closeFailed => Kept = {}
  /\ ~closeFailed => Kept = { i \in Inodes : ~mixed[i] }
  /\ Kept \subseteq Inodes
BY DEF Kept

LEMMA OpensAre ==
  ASSUME TypeOK
  PROVE  Opens \subseteq Inodes
BY DEF TypeOK, Opens, Descriptions

(* A step that adds no file to those that are kept, and changes none of    *)
(* them, withdraws those that are kept no more.                            *)
LEMMA QuietWithdraws ==
  ASSUME TypeOK', Kept' \subseteq Kept,
         \A i \in Kept' : /\ content'[i] = content[i]
                          /\ durable'[i] = durable[i]
                          /\ emptied'[i] = emptied[i]
  PROVE  Log!LogNext
<1> DEFINE files == Kept \ Kept'
<1>1. files \in SUBSET Inodes
  BY KeptAre
<1>2. Opens' \subseteq Inodes
  <2>1. \A fd \in DOMAIN desc' : desc'[fd].inode \in Inodes
    BY DEF TypeOK, Descriptions
  <2> QED
    BY <2>1 DEF Opens
<1>3. Restrict(content, Kept)' =
        Restrict(Restrict(content, Kept), Kept \ files)
  BY DEF Restrict
<1>4. Restrict(durable, Kept)' =
        Restrict(Restrict(durable, Kept), Kept \ files)
  BY DEF Restrict
<1>5. /\ DOMAIN Restrict(content, Kept) = Kept
      /\ DOMAIN Restrict(durable, Kept) = Kept
  BY DEF Restrict
<1>6. Renewed' = Renewed \ files
  BY DEF Renewed
<1>7. PICK some \in SUBSET Inodes : some = files
  BY <1>1
<1>8. Log!Withdraw(some)
  BY <1>2, <1>3, <1>4, <1>5, <1>6, <1>7
     DEF Log!Withdraw, Log!Restrict, Restrict, Opens, Renewed
<1> QED
  BY <1>8 DEF Log!LogNext

(* A round of append() extends a file, by a piece of the slice.            *)
LEMMA WriteExtends ==
  ASSUME FileAssumption, LogInv, WriteSome, TypeOK'
  PROVE  Log!LogNext
<1>1. PICK i \in Inodes, n \in 1..call.left : WritesTo(i, n)
  BY WriteSomeWrites DEF LogInv
<1>2. /\ Kept' = Kept
      /\ \A j \in Inodes \ {i} : content'[j] = content[j]
      /\ durable' = durable /\ emptied' = emptied
      /\ content \in [Inodes -> Seq(0..255)]
  BY <1>1 DEF WritesTo, Kept, LogInv, TypeOK
<1>3. CASE i \notin Kept
  BY <1>2, <1>3, KeptAre, QuietWithdraws
<1>4. CASE i \in Kept
  <2> DEFINE piece == NextBytes(n)
             pieces == UNION { { SubSeq(s, m, k) : m \in 1..Len(s),
                                                   k \in 1..Len(s) } :
                                 s \in Slices }
  <2>1. ~closeFailed /\ ~mixed[i]
    BY <1>4 DEF Kept
  <2>2. content'[i] = content[i] \o piece
    BY <1>1, <2>1, WritesAtEnd
  <2>3. piece \in pieces
    <3> DEFINE s == call.slice
               m == Len(s) - call.left + 1
               k == Len(s) - call.left + n
    <3>1. s \in Slices /\ Len(s) \in Nat /\ call.left \in 1..Len(s)
      BY <1>1, AppendCallType DEF LogInv, WritesTo
    <3>2. m \in 1..Len(s) /\ k \in 1..Len(s)
      BY <3>1
    <3>3. piece = SubSeq(s, m, k)
      BY DEF NextBytes
    <3> HIDE DEF s, m, k, piece
    <3> QED
      BY <3>1, <3>2, <3>3
  <2>4. PICK p \in pieces : p = piece
    BY <2>3
  <2> HIDE DEF piece, pieces
  <2>5. Restrict(content, Kept)' =
          [Restrict(content, Kept) EXCEPT
             ![i] = Restrict(content, Kept)[i] \o p]
    BY <1>2, <1>4, <2>2, <2>4, KeptAre DEF Restrict
  <2>6. Restrict(durable, Kept)' = Restrict(durable, Kept)
    BY <1>2 DEF Restrict
  <2>7. /\ Opens' = Opens /\ i \in Opens
        /\ Renewed' = Renewed
    BY <1>1, <1>2 DEF WritesTo, Opens, Renewed
  <2>8. i \in DOMAIN Restrict(content, Kept)
    BY <1>4 DEF Restrict
  <2>9. Log!Extend(i, p)
    BY <2>5, <2>6, <2>7 DEF Log!Extend, Opens, Renewed
  <2> QED
    BY <2>8, <2>9 DEF Log!LogNext, pieces
<1> QED
  BY <1>3, <1>4

LEMMA SyncSyncs ==
  ASSUME LogInv, NEW s \in Slots, Sync(s), TypeOK'
  PROVE  Log!LogNext
<1>1. PICK i : i = desc[fd_[s]].inode
  OBVIOUS
<1>2. /\ durable' = [durable EXCEPT ![i] = content[i]]
      /\ emptied' = [emptied EXCEPT ![i] = FALSE]
      /\ fd_[s] \in DOMAIN desc
      /\ UNCHANGED << content, desc, mixed, closeFailed >>
  BY <1>1 DEF Sync
<1>3. /\ Kept' = Kept /\ durable \in [Inodes -> Seq(0..255)]
      /\ Renewed' = Renewed \ {i}
      /\ i \in Opens /\ Opens' = Opens
  BY <1>1, <1>2 DEF Kept, LogInv, TypeOK, Opens, Renewed
<1>4. CASE i \notin Kept
  BY <1>2, <1>3, <1>4, KeptAre, QuietWithdraws DEF LogInv, TypeOK
<1>5. CASE i \in Kept
  <2>1. Restrict(durable, Kept)' =
          [Restrict(durable, Kept) EXCEPT ![i] = Restrict(content, Kept)[i]]
    BY <1>2, <1>3, <1>5, KeptAre DEF Restrict
  <2>2. Restrict(content, Kept)' = Restrict(content, Kept)
    BY <1>2, <1>3 DEF Restrict
  <2>3. Log!SyncToDisk(i)
    BY <1>3, <2>1, <2>2 DEF Log!SyncToDisk, Opens, Renewed
  <2>4. i \in DOMAIN Restrict(content, Kept)
    BY <1>5 DEF Restrict
  <2> QED
    BY <2>3, <2>4 DEF Log!LogNext
<1> QED
  BY <1>4, <1>5

(* A file that begins with another one has it as a prefix.                 *)
LEMMA PrefixesAre ==
  ASSUME NEW file \in Seq(0..255), NEW first \in Seq(0..255)
  PROVE  first \in Log!Prefixes(file) <=> BeginsWith(file, first)
<1>1. ASSUME first \in Log!Prefixes(file) PROVE BeginsWith(file, first)
  <2>1. PICK n \in 0..Len(file) : first = SubSeq(file, 1, n)
    BY <1>1 DEF Log!Prefixes
  <2>2. Len(first) = n /\ \A k \in 1..n : first[k] = file[k]
    BY <2>1, FirstOfBytes
  <2> QED
    BY <2>2 DEF BeginsWith
<1>2. ASSUME BeginsWith(file, first) PROVE first \in Log!Prefixes(file)
  <2>1. PICK n \in 0..Len(file) : n = Len(first)
    BY <1>2 DEF BeginsWith
  <2>2. /\ SubSeq(file, 1, n) \in Seq(0..255)
        /\ Len(SubSeq(file, 1, n)) = Len(first)
        /\ \A k \in 1..Len(first) : SubSeq(file, 1, n)[k] = file[k]
    BY <2>1, FirstOfBytes
  <2>3. \A k \in 1..Len(first) : first[k] = SubSeq(file, 1, n)[k]
    BY <1>2, <2>2 DEF BeginsWith
  <2>4. first = SubSeq(file, 1, n)
    BY <2>2, <2>3, SeqEqual
  <2> QED
    BY <2>4 DEF Log!Prefixes
<1> QED
  BY <1>1, <1>2

(* What the disk may have of a file when power is lost is what AppendLog   *)
(* says: LeftOf is its operator Left, for one file.                        *)
LeftOf(file, first, renewed) ==
  IF renewed THEN {first} \cup Log!Prefixes(file)
  ELSE { bytes \in Log!Prefixes(file) : first \in Log!Prefixes(bytes) }

LEMMA SurvivorsAre ==
  ASSUME NEW i \in Inodes, content[i] \in Seq(0..255),
         durable[i] \in Seq(0..255), NEW file \in Surviving(i),
         ~emptied[i] => BeginsWith(content[i], durable[i])
  PROVE  file \in LeftOf(content[i], durable[i], emptied[i])
<1>1. file = durable[i] \/ file \in Log!Prefixes(content[i])
  BY SurvivingIsPrefix DEF Log!Prefixes
<1>2. CASE emptied[i]
  BY <1>1, <1>2 DEF LeftOf
<1>3. CASE ~emptied[i]
  <2>1. BeginsWith(content[i], durable[i])
    BY <1>3
  <2>2. file \in Seq(0..255) /\ BeginsWith(file, durable[i])
    BY <1>3, <2>1, SurvivingIsPrefix, SurvivingBegins
  <2>3. file \in Log!Prefixes(content[i])
    BY <1>1, <2>1, PrefixesAre
  <2>4. durable[i] \in Log!Prefixes(file)
    BY <2>2, PrefixesAre
  <2> QED
    BY <1>3, <2>3, <2>4 DEF LeftOf
<1> QED
  BY <1>2, <1>3

LEMMA LeftIs ==
  ASSUME LogInv, NEW i \in Kept, NEW file \in Surviving(i)
  PROVE  file \in Log!Left(i)
<1>1. i \in Inodes /\ ~closeFailed /\ ~mixed[i]
  BY DEF Kept
<1>2. /\ content[i] \in Seq(0..255) /\ durable[i] \in Seq(0..255)
      /\ ~emptied[i] => BeginsWith(content[i], durable[i])
  BY <1>1 DEF LogInv, TypeOK, Grown
<1>3. file \in LeftOf(content[i], durable[i], emptied[i])
  BY <1>1, <1>2, SurvivorsAre
<1>4. /\ Restrict(content, Kept)[i] = content[i]
      /\ Restrict(durable, Kept)[i] = durable[i]
      /\ i \in Renewed <=> emptied[i]
  BY DEF Restrict, Renewed
<1> QED
  BY <1>3, <1>4 DEF LeftOf, Log!Left, Renewed

(* Opening creates a file anew, if it empties one, and keeps it unless     *)
(* another one writes to it.                                               *)
LEMMA OpenCreates ==
  ASSUME FileAssumption, LogInv, TypeOK', DescriptorsInv',
         NEW s \in Slots, NEW name \in Names, NEW isNew \in BOOLEAN,
         OpenRWFile(s, name, isNew)
  PROVE  Log!LogNext
<1>1. PICK i \in Inodes, empty \in BOOLEAN :
        OpensOn(s, name, isNew, i, empty)
  BY OpenRWOpens DEF LogInv
<1> DEFINE d == Description(i, s, ~isNew, TRUE)
<1>2. /\ DOMAIN desc \subseteq Fds /\ Fds \ DOMAIN desc # {}
      /\ Opened(s, d)
  BY <1>1 DEF LogInv, TypeOK, OpensOn
<1>3. PICK fd \in Fds \ DOMAIN desc :
        /\ DOMAIN desc' \subseteq DOMAIN desc \cup {fd}
        /\ \A x \in DOMAIN desc' :
             desc'[x] = IF x = fd THEN d ELSE desc[x]
        /\ fd_' = With(fd_, s, fd)
        /\ closeFailed' \in BOOLEAN
        /\ closeFailed => closeFailed'
  <2> HIDE DEF d
  <2> QED
    BY <1>2, OpenedTable
<1>4. /\ \A j \in Inodes \ {i} : /\ mixed'[j] = mixed[j]
                                 /\ content'[j] = content[j]
                                 /\ durable'[j] = durable[j]
                                 /\ emptied'[j] = emptied[j]
      /\ mixed'[i] = ((mixed[i] /\ ~empty) \/ Mixed(desc', i))
  BY <1>1 DEF LogInv, TypeOK, OpensOn
<1>5. CASE closeFailed'
  <2>1. Kept' = {}
    BY <1>5 DEF Kept
  <2> QED
    BY <2>1, QuietWithdraws
<1>6. CASE ~closeFailed' /\ (mixed'[i] \/ ~empty)
  <2>1. /\ Kept' = { j \in Inodes : ~mixed'[j] }
        /\ Kept = { j \in Inodes : ~mixed[j] }
    BY <1>3, <1>6 DEF Kept
  <2>2. CASE mixed'[i]
    BY <1>4, <2>1, <2>2, QuietWithdraws
  <2>3. CASE ~mixed'[i] /\ ~empty
    <3>1. UNCHANGED << content, durable, emptied >>
      BY <1>1, <2>3 DEF OpensOn
    <3> QED
      BY <1>4, <2>1, <2>3, <3>1, QuietWithdraws
  <2> QED
    BY <1>6, <2>2, <2>3
<1>7. CASE ~closeFailed' /\ ~mixed'[i] /\ empty
  <2> DEFINE log  == Restrict(content, Kept)
             disk == Restrict(durable, Kept)
  <2>1. Kept' = Kept \cup {i}
    BY <1>3, <1>4, <1>7 DEF Kept
  <2>2. i \in Opens' /\ Opens' \subseteq Inodes
    <3>1. s \in DOMAIN fd_' /\ fd_'[s] = fd /\ fd # NoFd
      BY <1>3 DEF With, NoFd, FileAssumption
    <3>2. fd \in DOMAIN desc' /\ desc'[fd].inode = i
      BY <1>3, <1>7, <3>1 DEF DescriptorsInv, Match, Description
    <3>3. \A x \in DOMAIN desc' : desc'[x].inode \in Inodes
      BY DEF TypeOK, Descriptions
    <3> QED
      BY <3>2, <3>3 DEF Opens
  <2>3. /\ content'[i] = << >>
        /\ durable'[i] \in Surviving(i) \cup { << >> }
        /\ emptied'[i] \/ durable'[i] = << >>
    BY <1>1, <1>7 DEF OpensOn, LogInv, TypeOK
  <2>4. /\ DOMAIN log = Kept /\ DOMAIN log' = Kept \cup {i}
        /\ DOMAIN disk' = Kept \cup {i}
        /\ \A j \in Kept : log[j] = content[j] /\ disk[j] = durable[j]
        /\ \A j \in Kept \cup {i} : /\ log'[j] = content'[j]
                                    /\ disk'[j] = durable'[j]
    BY <2>1 DEF Restrict
  <2>5. \A j \in Kept \ {i} : log'[j] = log[j] /\ disk'[j] = disk[j]
    BY <1>4, <2>4, KeptAre
  <2>6. i \in Kept => disk'[i] \in Log!Left(i) \cup { << >> }
    BY <2>3, <2>4, LeftIs
  <2>7. /\ i \in Renewed' \/ disk'[i] = << >>
        /\ Renewed' \ {i} = Renewed \ {i}
    <3>1. i \in Renewed' <=> emptied'[i]
      BY <2>1 DEF Renewed
    <3>2. \A j \in Inodes \ {i} : j \in Renewed' <=> j \in Renewed
      BY <1>4, <2>1 DEF Renewed
    <3>3. Renewed \subseteq Inodes /\ Renewed' \subseteq Inodes
      BY <2>1, KeptAre DEF Renewed
    <3> HIDE DEF log, disk
    <3> QED
      BY <2>3, <2>4, <3>1, <3>2, <3>3
  <2>8. /\ DOMAIN log' = DOMAIN log \cup {i} /\ DOMAIN disk' = DOMAIN log'
        /\ log'[i] = << >>
        /\ i \in DOMAIN log => disk'[i] \in Log!Left(i) \cup { << >> }
        /\ \A j \in DOMAIN log \ {i} : log'[j] = log[j] /\ disk'[j] = disk[j]
    BY <2>3, <2>4, <2>5, <2>6
  <2>9. Log!Create(i)
    BY <2>2, <2>7, <2>8, Zenon DEF Log!Create, Opens, Renewed
  <2> QED
    BY <2>9 DEF Log!LogNext
<1> QED
  BY <1>3, <1>5, <1>6, <1>7

LEMMA CrashLoses ==
  ASSUME FileAssumption, LogInv, Crash, TypeOK'
  PROVE  Log!LogNext
<1> DEFINE log  == Restrict(content, Kept)
           disk == Restrict(durable, Kept)
<1>1. /\ Kept' = Kept /\ Opens' = {} /\ Renewed' = {}
      /\ durable' = content'
      /\ \A i \in Inodes : content'[i] \in Surviving(i)
  BY DEF Crash, Kept, Opens, Renewed
<1>2. /\ DOMAIN log = Kept /\ DOMAIN log' = Kept
      /\ \A i \in Kept : /\ log[i] = content[i] /\ log'[i] = content'[i]
                         /\ disk[i] = durable[i]
      /\ disk' = log'
  BY <1>1 DEF Restrict
<1>3. ASSUME NEW i \in Kept
      PROVE  log'[i] \in Log!Left(i)
  <2>1. PICK file \in Surviving(i) : file = content'[i]
    BY <1>1, KeptAre
  <2>2. file \in Log!Left(i)
    BY <2>1, LeftIs
  <2> QED
    BY <1>2, <2>1, <2>2
<1>4. Log!PowerLoss
  BY <1>1, <1>2, <1>3 DEF Log!PowerLoss, Opens, Renewed
<1> QED
  BY <1>4 DEF Log!LogNext

(* Every step of the files is a step of the log, or changes nothing of it. *)
LEMMA StepIsLog ==
  ASSUME FileAssumption, LogInv, [Next]_vars
  PROVE  [Log!LogNext]_Log!logVars
<1>1. TypeOK' /\ DescriptorsInv'
  BY LogKept DEF LogInv
<1>2. ASSUME UNCHANGED << content, durable, emptied, mixed >>,
             closeFailed => closeFailed',
             closeFailed' \in BOOLEAN
      PROVE  Log!LogNext
  <2>1. Kept' \subseteq Kept
    BY <1>2 DEF Kept
  <2> QED
    BY <1>1, <1>2, <2>1, QuietWithdraws
<1>3. ASSUME NEW s \in Slots, NEW name \in Names, NEW isNew \in BOOLEAN,
             OpenRWFile(s, name, isNew)
      PROVE  Log!LogNext
  BY <1>1, <1>3, OpenCreates
<1>4. ASSUME NEW s \in Slots, NEW name \in Names, OpenReadableFile(s, name)
      PROVE  Log!LogNext
  <2> DEFINE d == Description(inode[name], s, FALSE, FALSE)
  <2>1. /\ Opened(s, d) /\ Fds \ DOMAIN desc # {}
        /\ DOMAIN desc \subseteq Fds
        /\ UNCHANGED << content, durable, emptied, mixed >>
    BY <1>4 DEF OpenReadableFile, LogInv, TypeOK
  <2> HIDE DEF d
  <2>2. closeFailed' \in BOOLEAN /\ (closeFailed => closeFailed')
    BY <2>1, OpenedTable
  <2> QED
    BY <1>2, <2>1, <2>2
<1>5. ASSUME NEW s \in Slots, Close(s) \/ Destroy(s)
      PROVE  Log!LogNext
  BY <1>2, <1>5 DEF Close, Destroy
<1>6. ASSUME NEW s \in Slots, Sync(s)
      PROVE  Log!LogNext
  BY <1>1, <1>6, SyncSyncs
<1>7. CASE WriteSome
  BY <1>1, <1>7, WriteExtends
<1>8. CASE Crash
  BY <1>1, <1>8, CrashLoses
<1>9. CASE UNCHANGED << content, durable, emptied, desc, mixed, closeFailed >>
  BY <1>9 DEF Log!logVars, Kept, Restrict
<1>10. ASSUME NEW name \in Names, RemoveFile(name)
       PROVE  UNCHANGED << content, durable, emptied, desc, mixed,
                           closeFailed >>
  BY <1>10 DEF RemoveFile, history
<1>11. ASSUME NEW s \in Slots, NEW slice \in Slices, AppendBegin(s, slice)
       PROVE  UNCHANGED << content, durable, emptied, desc, mixed,
                           closeFailed >>
  BY <1>11 DEF AppendBegin, kernelVars, history
<1>12. ASSUME NEW s \in Slots, NEW read \in Reads,
              ReadBegin(s, read[1], read[2])
       PROVE  UNCHANGED << content, durable, emptied, desc, mixed,
                           closeFailed >>
  BY <1>12 DEF ReadBegin, kernelVars, history
<1>13. CASE ReadSome \/ ReadEnds \/ BadDescriptor \/ CallFails
            \/ Interrupted \/ UNCHANGED vars
  <2>1. UNCHANGED << content, durable, emptied, desc, mixed, closeFailed >>
    BY <1>13 DEF ReadSome, ReadEnds, BadDescriptor, CallFails,
                 CallReturnsError, Interrupted, vars, kernelVars, history
  <2> QED
    BY <1>9, <2>1
<1> QED
  BY <1>3, <1>4, <1>5, <1>6, <1>7, <1>8, <1>9, <1>10, <1>11, <1>12, <1>13
     DEF Next

(* The files of openRWFile() implement the log that only grows at its end  *)
(* and loses nothing that was synced: a program may be designed against    *)
(* AppendLog and run on PosixFile.                                         *)
THEOREM FilesImplementLog == Spec => ImplementsLog
<1>1. Init => Log!LogInit
  BY KeptAre DEF Init, Log!LogInit, Kept, Restrict
<1>2. LogInv /\ [Next]_vars => [Log!LogNext]_Log!logVars
  BY FileAssumption, StepIsLog
<1> QED
  BY <1>1, <1>2, LogAlways, PTL DEF Spec, ImplementsLog, Log!LogSpec
=============================================================================
