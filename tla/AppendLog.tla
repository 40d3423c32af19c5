------------------------------ MODULE AppendLog ------------------------------
(***************************************************************************)
(* What a program that keeps a log may rely on: files that only grow at    *)
(* their end, of which a loss of power takes no byte that was synced.  A   *)
(* file that is created again has no such bytes until the next sync.       *)
(* PosixFile is shown to implement this for the files of its               *)
(* openRWFile().                                                           *)
(*                                                                         *)
(* A file is kept as long as log has it in its domain.  Nothing is         *)
(* promised of a file that was withdrawn until it is created again.        *)
(***************************************************************************)
EXTENDS Integers, Sequences, Functions

CONSTANTS
  Files,
  Pieces  \* what may be added to a file at a time

VARIABLES
  log,      \* the bytes of each file that is kept
  disk,     \* what is on the disk of them
  renewed,  \* the files that were created again and not synced since
  open      \* the files that are open

logVars == << log, disk, renewed, open >>

LogInit ==
  /\ log = [ f \in Files |-> << >> ]
  /\ disk = log /\ renewed = {} /\ open = {}

Prefixes(bytes) == { SubSeq(bytes, 1, n) : n \in 0..Len(bytes) }

(* What the disk may have of f when power is lost: what was synced and a   *)
(* first part of what was added since then.  Where f was created again,    *)
(* the old bytes, or a first part of all that is in f now, maybe nothing.  *)
Left(f) ==
  IF f \in renewed THEN {disk[f]} \cup Prefixes(log[f])
  ELSE { bytes \in Prefixes(log[f]) : disk[f] \in Prefixes(bytes) }

-----------------------------------------------------------------------------
OpenAndClose == open' \subseteq Files /\ UNCHANGED << log, disk, renewed >>

(* An empty file is opened in the place of f.  The old bytes, as much of   *)
(* them as the disk has, may stay on the disk until a sync.                *)
Create(f) ==
  /\ f \in open' /\ open' \subseteq Files
  /\ DOMAIN log' = DOMAIN log \cup {f} /\ DOMAIN disk' = DOMAIN log'
  /\ log'[f] = << >>
  /\ f \in DOMAIN log => disk'[f] \in Left(f) \cup { << >> }
  /\ f \in renewed' \/ disk'[f] = << >>
  /\ renewed' \ {f} = renewed \ {f}
  /\ \A g \in DOMAIN log \ {f} : log'[g] = log[g] /\ disk'[g] = disk[g]

Extend(f, piece) ==
  /\ f \in open
  /\ log' = [log EXCEPT ![f] = @ \o piece]
  /\ UNCHANGED << disk, renewed, open >>

SyncToDisk(f) ==
  /\ f \in open
  /\ disk' = [disk EXCEPT ![f] = log[f]]
  /\ renewed' = renewed \ {f}
  /\ UNCHANGED << log, open >>

PowerLoss ==
  /\ DOMAIN log' = DOMAIN log
  /\ \A f \in DOMAIN log : log'[f] \in Left(f)
  /\ disk' = log' /\ renewed' = {} /\ open' = {}

Withdraw(files) ==
  /\ open' \subseteq Files
  /\ log' = Restrict(log, DOMAIN log \ files)
  /\ disk' = Restrict(disk, DOMAIN disk \ files)
  /\ renewed' = renewed \ files

LogNext ==
  \/ OpenAndClose
  \/ \E f \in Files : Create(f)
  \/ \E f \in DOMAIN log, piece \in Pieces : Extend(f, piece)
  \/ \E f \in DOMAIN log : SyncToDisk(f)
  \/ PowerLoss
  \/ \E files \in SUBSET Files : Withdraw(files)

LogSpec == LogInit /\ [][LogNext]_logVars
=============================================================================
