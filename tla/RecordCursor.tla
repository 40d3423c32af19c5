---------------------------- MODULE RecordCursor ----------------------------
(***************************************************************************)
(* What the Iterator of common/iterator.h promises over the records of one *)
(* page, without seek(): a cursor that stands on a record or past the last *)
(* one, where it is not valid and only the two seeks move it.              *)
(***************************************************************************)
EXTENDS Naturals, Sequences

CONSTANT Contents  \* the records a page may hold

VARIABLES records, \* the records of the page, in the order they were added
          opened,  \* there is an iterator
          pos,     \* 1..Len(records) + 1
          value    \* what value() returned last

cursorVars == << records, opened, pos, value >>

CursorInit == records = << >> /\ opened = FALSE /\ pos = 1 /\ value = << >>

Past == Len(records) + 1

GoTo(p) == opened /\ pos' = p /\ UNCHANGED << records, opened, value >>

Open ==
  /\ ~opened /\ opened'
  /\ records' \in Seq(Contents)
  /\ pos' = 1
  /\ UNCHANGED value

First    == GoTo(1)
Last     == GoTo(IF records = << >> THEN Past ELSE Len(records))
Forward  == pos # Past /\ GoTo(pos + 1)
Backward == pos # Past /\ GoTo(IF pos = 1 THEN Past ELSE pos - 1)

ReadValue ==
  /\ opened /\ pos # Past
  /\ value' = records[pos].value
  /\ UNCHANGED << records, opened, pos >>

CursorNext == Open \/ First \/ Last \/ Forward \/ Backward \/ ReadValue

CursorSpec == CursorInit /\ [][CursorNext]_cursorVars
=============================================================================
