------------------------------ MODULE TxnStore ------------------------------
(***************************************************************************)
(* What a volume promises its users: a store whose changes take effect     *)
(* together or not at all.  The state is the contents of the files;        *)
(* "recoverable" is the set of states a loss of power may bring back.      *)
(* While a transaction point is in progress that may be the old state or   *)
(* the new one, and only the new one once the transaction point is done.   *)
(***************************************************************************)
EXTENDS Naturals

CONSTANTS
  Files,     \* the files that may exist
  Offsets,   \* the blocks of a file
  Values,    \* what one block of a file holds
  Zero,      \* what a hole reads as
  Nil        \* no file; no state

VARIABLES
  working,       \* the contents the file system shows, Nil unless it is writeable
  recoverable,   \* the contents a loss of power may leave
  mode,          \* "down", "rw" or "ro"
  committing     \* is a transaction point about to complete?

storeVars == <<working, recoverable, mode, committing>>

FileContents == [Offsets -> Values]
States == [Files -> FileContents \cup {Nil}]

StoreTypeOK ==
  /\ recoverable \subseteq States /\ recoverable # {}
  /\ mode \in {"down", "rw", "ro"}
  /\ working \in IF mode = "rw" THEN States ELSE {working}
  /\ committing \in BOOLEAN

StoreInit ==
  /\ mode = "down"
  /\ working = Nil
  /\ recoverable = {[f \in Files |-> Nil]}
  /\ committing = FALSE

Ready == mode = "rw" /\ ~committing

\* What a call can make of the contents c of one file: create or delete it,
\* write one of its blocks, or truncate it.
Created         == [o \in Offsets |-> Zero]
Truncated(c, o) == [p \in Offsets |-> IF p >= o THEN Zero ELSE c[p]]

Changed(c) ==
  IF c = Nil THEN {Created}
  ELSE {Nil} \cup {[c EXCEPT ![o] = v] : o \in Offsets, v \in Values}
             \cup {Truncated(c, o) : o \in Offsets}

\* A call that changes a file, one step for all it changes.
Change ==
  /\ Ready
  /\ working' # working
  /\ \E f \in Files : \E c \in Changed(working[f]) :
       working' = [working EXCEPT ![f] = c]
  /\ UNCHANGED <<recoverable, mode, committing>>

\* From here on power loss may leave either state.
BeginCommit ==
  /\ Ready
  /\ committing' = TRUE
  /\ recoverable' = recoverable \cup {working}
  /\ UNCHANGED <<working, mode>>

\* The transaction point is reported done: the new state is durable.
EndCommit ==
  /\ mode = "rw" /\ committing
  /\ recoverable' = {working}
  /\ committing' = FALSE
  /\ UNCHANGED <<working, mode>>

\* An I/O error makes the store read-only until it is mounted again.  What it
\* shows by then is not specified; what is recoverable stays.
Fail ==
  /\ mode = "rw"
  /\ mode' = "ro"
  /\ working' = Nil
  /\ committing' = FALSE
  /\ UNCHANGED recoverable

Rollback ==
  /\ Ready
  /\ working' # working
  /\ working' \in recoverable
  /\ UNCHANGED <<recoverable, mode, committing>>

MountStore ==
  /\ mode = "down"
  /\ mode' = "rw"
  /\ working' \in recoverable
  /\ UNCHANGED <<recoverable, committing>>

UnmountStore ==
  /\ mode \in {"rw", "ro"} /\ ~committing
  /\ mode' = "down"
  /\ working' = Nil
  /\ UNCHANGED <<recoverable, committing>>

PowerLoss ==
  /\ mode' = "down"
  /\ working' = Nil
  /\ committing' = FALSE
  /\ \E s \in recoverable : recoverable' = {s}

StoreNext ==
  \/ Change \/ BeginCommit \/ EndCommit \/ Fail
  \/ Rollback \/ MountStore \/ UnmountStore \/ PowerLoss

StoreSpec == StoreInit /\ [][StoreNext]_storeVars
=============================================================================
