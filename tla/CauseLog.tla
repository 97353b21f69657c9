------------------------------- MODULE CauseLog -------------------------------
(***************************************************************************)
(* What the shutdown-cause log promises its readers (the host, through     *)
(* update_cause_ram(), and the flash_log console command): the causes that *)
(* were recorded, oldest first.                                            *)
(*                                                                         *)
(*  - A record adds one entry at the newest end, never past Cap entries.   *)
(*  - Entries leave only from the oldest end (the ring is full and is cut  *)
(*    back to its newest entries, or a reset loses what was being kept).   *)
(*  - A reset while an entry is being written leaves a Damaged entry at    *)
(*    the newest end; the only change an entry may ever undergo is that    *)
(*    the newest Damaged entry is marked as a rail loss (Repaired), which  *)
(*    is how the EC reports a record cut short by a power loss.            *)
(***************************************************************************)
EXTENDS Naturals, Sequences

CONSTANTS
    Ids,       \* the cause ids that may be recorded
    Cap,       \* the most entries the log holds
    Damaged,   \* an entry that is not a complete, known id
    Repaired   \* the id a damaged newest entry may be turned into

ASSUME Cap \in Nat \ {0} /\ Damaged \notin Ids /\ Repaired \in Ids

VARIABLE log

Entries == Ids \cup {Damaged}

Init == log = <<>>

Add(e) ==
    /\ Len(log) < Cap
    /\ log' = Append(log, e)

DropOldest(k) == log' = SubSeq(log, k + 1, Len(log))

Repair ==
    /\ log # <<>>
    /\ log[Len(log)] = Damaged
    /\ log' = [log EXCEPT ![Len(log)] = Repaired]

Next ==
    \/ \E e \in Entries : Add(e)
    \/ \E k \in 1..Len(log) : DropOldest(k)
    \/ Repair

Spec == Init /\ [][Next]_log

=============================================================================
