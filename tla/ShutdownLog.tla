----------------------------- MODULE ShutdownLog -----------------------------
(***************************************************************************)
(* The shutdown-cause log as its callers see it: shutdown_cause_record()   *)
(* of common/flash.c.  Recording an id whose exception bit (bit 16,        *)
(* union32bit(1, id) in the board header) is set raises                     *)
(* g_abnormal_shutdown; the id is then appended to the flash log.  How the *)
(* flash pages are laid out is left to a module of its own; here the log   *)
(* is the ghost sequence causes of the ids recorded since the power        *)
(* sequence last started a new session (left G3, or reached S0), capped    *)
(* at MaxCauses entries.                                                   *)
(***************************************************************************)
EXTENDS Naturals, Sequences

CONSTANTS MaxCauses   \* bound on the ghost log of one session

ASSUME MaxCauses \in Nat \ {0}

VARIABLES
    g_abnormal_shutdown,  \* power/rocketlake.c, read by the board shutdown hook
    causes                \* ghost: ids recorded in the current session

(* Shutdown ids recorded by the code modelled here, with their exception  *)
(* bit, as the LOG_ID_SHUTDOWN_ ids of board/pangun/board.h define it.   *)
(* 0x45, the rail loss of power/renoir.c, is defined without it.          *)
ShutdownIds == {"0x01", "0x02", "0x03", "0x06", "0x07", "0x08", "0x09",
                "0x30", "0x44", "0x45", "0x46", "0x47", "0xD0"}
AbnormalIds == ShutdownIds \ {"0x01", "0x03", "0x45"}

Cause(id) == IF Len(causes) < MaxCauses THEN Append(causes, id) ELSE causes

(* shutdown_cause_record(id), flash.c: the exception bit, then the write. *)
ShutdownCauseRecord(id) ==
    /\ g_abnormal_shutdown' = (g_abnormal_shutdown \/ id \in AbnormalIds)
    /\ causes' = Cause(id)

(* shutdown_cause_record() called for each id of the sequence ids in turn, *)
(* within one step.                                                        *)
ShutdownCauseRecords(ids) ==
    /\ g_abnormal_shutdown' =
          (g_abnormal_shutdown \/ \E i \in 1..Len(ids) : ids[i] \in AbnormalIds)
    /\ causes' = SubSeq(causes \o ids, 1,
                        IF Len(causes) + Len(ids) < MaxCauses
                        THEN Len(causes) + Len(ids) ELSE MaxCauses)

=============================================================================
