------------------------------- MODULE FlashLog -------------------------------
(***************************************************************************)
(* The shutdown-cause log in flash, common/flash.c.                        *)
(*                                                                         *)
(* The range is DATA_PAGE_NUM pages of DATA_PAGE_SIZE bytes: page 0 holds  *)
(* one full-flag byte per page (0xAA once the page is full), pages         *)
(* 1..Pages hold 8-byte entries <<log_id, log_timestamp>>.  Addresses are  *)
(* counted here in 4-byte words (CAUSE_LOG_CELL_SIZE) from                 *)
(* SHUTDOWN_RANGE_START, so an entry is two words and a page is 2 * Cells  *)
(* words.  Programming flash can only clear bits, so a write stores the    *)
(* bitwise AND of the old and the new word; an erased word is all ones.    *)
(*                                                                         *)
(* shutdown_cause_record() is split at each flash operation, since a reset *)
(* can fall between any two of them; it runs to completion before another *)
(* record starts (the tasks that record are not modelled as preempting one *)
(* another).  The two words after the range, the start of the wakeup-log   *)
(* header page, are kept because a write can stray there.                  *)
(***************************************************************************)
EXTENDS Naturals, Sequences, FiniteSetsExt, Bitwise

CONSTANTS
    Pages,   \* data pages in the range (DATA_PAGE_NUM - 1 = 31 in the code)
    Cells,   \* entries per page (DATA_PAGE_SIZE / LOG_SIZE = 16 in the code)
    Keep,    \* entries kept when the full range is erased (4 in the code)
    Ids,     \* shutdown ids that may be recorded
    Stamp,   \* a log_timestamp value (NPCX_TTC)
    FlashFails  \* whether a flash write or erase may report an error

ASSUME /\ Pages \in Nat \ {0} /\ Cells \in Nat \ {0}
       /\ Keep \in 2..Cells /\ Stamp \in Nat \ {0}
       /\ FlashFails \in BOOLEAN

VARIABLES
    mem,           \* data words of the range and the two stray words
    hdr,           \* hdr[p]: page p's full flag is 0xAA
    widx,          \* shutdown_write_index
    pc,            \* where shutdown_cause_record() is
    recId,         \* the id it is recording
    buf,           \* eFlash_Data: the entries kept across the erase
    booted,        \* HOOK_INIT has run since the last reset
    report,        \* EC_MEMMAP_SHUTDOWN_CAUSE, in words
    abnormalTimes, \* g_abnormalPowerDownTimes
    mfgMap,        \* mfg_data_map: the MFG bytes in RAM
    mfgFlash,      \* the MFG data block in flash
    syncPending,   \* mfg_data_sync_deferred is scheduled
    flashFailed    \* ghost: some flash operation has reported an error

vars == <<mem, hdr, widx, pc, recId, buf, booted, report, abnormalTimes,
          mfgMap, mfgFlash, syncPending, flashFailed>>

(* CAUSE_LOG_INVALID, 0xffffffff.  Words are kept to their low 17 bits, *)
(* the bits the shutdown ids use (exception bit 16 and the id byte): an  *)
(* id word is all ones in them only when it is erased.                    *)
ERASED == 2^17 - 1
LOG_ID_SHUTDOWN_0x08 == 65544    \* union32bit(1, 0x08)
LOG_ID_SHUTDOWN_0xFC == 65788    \* union32bit(1, 0xFC)

W == 2 * Cells                   \* words per page
DataOff == W                     \* SHUTDOWN_DATA_OFFSET
End == (Pages + 1) * W           \* SHUTDOWN_RANGE_END
NoIndex == -2                    \* shutdown_write_index = 0: below the range
MemWords == DataOff..(End + 1)
PageWords(p) == (p * W)..(p * W + W - 1)
ReportWords == 0..(2 * Keep - 1)

(* The MFG bytes the models use: MFG_ABNORMAL_POWER_DOWN_TIMES_OFFSET and *)
(* MFG_CHASSIS_INTRUSION_DATA_OFFSET.  An erased byte reads 0xFF.         *)
MfgOffsets == {"abnormal", "chassis"}
MfgErased == [o \in MfgOffsets |-> 255]

InRange(i) == DataOff <= i /\ i < End
Program(a, v) == mem[a] & v       \* flash_write of one word

(* shutdown_eflash_debug_init(): the first page whose flag is not 0xAA,   *)
(* then the first erased word in it.  With every flag set the loop ends   *)
(* at page DATA_PAGE_NUM, which is the wakeup header page after the range.*)
(* A page with no erased word leaves the index as it was.                 *)
ShutdownEflashDebugInit(i) ==
    LET open == {p \in 1..Pages : ~hdr[p]}
        stray == {a \in {End, End + 1} : mem[a] = ERASED}
    IN  IF open = {}
        THEN IF stray = {} THEN End + 2 ELSE Min(stray)
        ELSE LET free == {a \in PageWords(Min(open)) : mem[a] = ERASED}
             IN  IF free = {} THEN i ELSE Min(free)

(* The index shutdown_cause_record() goes on with after its range check. *)
CheckedIndex ==
    IF InRange(widx) THEN widx ELSE ShutdownEflashDebugInit(widx)

Init ==
    /\ mem = [a \in MemWords |-> ERASED]
    /\ hdr = [p \in 1..Pages |-> FALSE]
    /\ widx = NoIndex
    /\ pc = "idle"
    /\ recId = 0
    /\ buf = [j \in ReportWords |-> 0]
    /\ booted = FALSE
    /\ report = [j \in ReportWords |-> 0]
    /\ abnormalTimes = 0
    /\ mfgMap = [o \in MfgOffsets |-> 0]
    /\ mfgFlash = MfgErased
    /\ syncPending = FALSE
    /\ flashFailed = FALSE

(* The outcome of a flash operation that may fail: ok, or the error path. *)
Failed == FlashFails /\ flashFailed' = TRUE

(* mfg_data_init(): read the MFG block into mfg_data_map; the abnormal  *)
(* power-down count is the one kept there, or 0 (written back through     *)
(* mfg_data_write) when its byte is erased.                               *)
MfgDataInit ==
    IF mfgFlash["abnormal"] = 255
    THEN /\ abnormalTimes' = 0 /\ syncPending' = TRUE
         /\ mfgMap' = [mfgFlash EXCEPT !["abnormal"] = 0]
    ELSE /\ abnormalTimes' = mfgFlash["abnormal"] /\ UNCHANGED syncPending
         /\ mfgMap' = mfgFlash

(* HOOK_INIT after a reset: eflash_debug_init() and mfg_data_init().      *)
EflashDebugInit ==
    /\ ~booted
    /\ booted' = TRUE
    /\ widx' = ShutdownEflashDebugInit(widx)
    /\ MfgDataInit
    /\ UNCHANGED <<mem, hdr, pc, recId, buf, report, mfgFlash, flashFailed>>

(* mfg_data_sync_deferred(): erase the MFG block, then write it back.     *)
MfgDataSyncDeferred ==
    /\ syncPending /\ pc = "idle"
    /\ syncPending' = FALSE
    /\ \/ mfgFlash' = mfgMap /\ UNCHANGED flashFailed
       \/ Failed /\ UNCHANGED mfgFlash
    /\ UNCHANGED <<mem, hdr, widx, pc, recId, buf, booted, report,
                   abnormalTimes, mfgMap>>

-----------------------------------------------------------------------------
(* shutdown_cause_record(id), one flash operation per step.              *)

(* The index is out of range even after re-reading the header: return.  *)
RecordOutOfRange ==
    /\ pc = "idle" /\ booted
    /\ ~InRange(CheckedIndex)
    /\ widx' = CheckedIndex
    /\ UNCHANGED <<mem, hdr, pc, recId, buf, booted, report, abnormalTimes, mfgMap,
                   mfgFlash, syncPending, flashFailed>>

RecordAligned(id) ==
    /\ pc = "idle" /\ booted
    /\ InRange(CheckedIndex) /\ CheckedIndex % 2 = 0
    /\ widx' = CheckedIndex
    /\ pc' = "write" /\ recId' = id
    /\ UNCHANGED <<mem, hdr, buf, booted, report, abnormalTimes, mfgMap, mfgFlash,
                   syncPending, flashFailed>>

(* The index is in the middle of an entry (only its log_id word was      *)
(* written): write {0x08, 1} over that entry, whatever the outcome, and  *)
(* go on at the next entry.                                               *)
RecordAdjust(id) ==
    /\ pc = "idle" /\ booted
    /\ InRange(CheckedIndex) /\ CheckedIndex % 2 = 1
    /\ LET a == CheckedIndex - 1
       IN  \/ /\ mem' = [mem EXCEPT ![a] = Program(a, LOG_ID_SHUTDOWN_0x08),
                                    ![a + 1] = Program(a + 1, 1)]
              /\ UNCHANGED flashFailed
           \/ Failed /\ UNCHANGED mem
    /\ widx' = CheckedIndex + 1
    /\ pc' = "write" /\ recId' = id
    /\ UNCHANGED <<hdr, buf, booted, report, abnormalTimes, mfgMap, mfgFlash,
                   syncPending>>

(* Write the entry; on success advance and, at a page end, go on to the  *)
(* page's full flag.                                                      *)
RecordWrite ==
    /\ pc = "write"
    /\ \/ /\ mem' = [mem EXCEPT ![widx] = Program(widx, recId),
                                ![widx + 1] = Program(widx + 1, Stamp)]
          /\ widx' = widx + 2
          /\ pc' = IF (widx + 2) % W = 0 THEN "header" ELSE "idle"
          /\ UNCHANGED flashFailed
       \/ Failed /\ pc' = "idle" /\ UNCHANGED <<mem, widx>>
    /\ UNCHANGED <<hdr, recId, buf, booted, report, abnormalTimes, mfgMap, mfgFlash,
                   syncPending>>

(* Flag the page full (the result is not checked); at the range end go  *)
(* on to the erase.                                                       *)
RecordPageFull ==
    /\ pc = "header"
    /\ LET p == (widx - DataOff) \div W
       IN  \/ hdr' = [hdr EXCEPT ![p] = TRUE] /\ UNCHANGED flashFailed
           \/ Failed /\ UNCHANGED hdr
    /\ pc' = IF widx = End THEN "erase" ELSE "idle"
    /\ UNCHANGED <<mem, widx, recId, buf, booted, report, abnormalTimes, mfgMap,
                   mfgFlash, syncPending>>

(* Mutants of the erase: keeping the oldest Keep entries, or one more    *)
(* entry than the kept area holds.                                        *)
RecordEraseKeepsOldest ==
    /\ pc = "erase"
    /\ buf' = [j \in ReportWords |-> mem[DataOff + j]]
    /\ \/ /\ mem' = [a \in MemWords |-> IF a < End THEN ERASED ELSE mem[a]]
          /\ hdr' = [p \in 1..Pages |-> FALSE]
          /\ pc' = "rewrite"
          /\ UNCHANGED <<widx, flashFailed>>
       \/ /\ Failed
          /\ widx' = NoIndex /\ pc' = "idle"
          /\ UNCHANGED <<mem, hdr>>
    /\ UNCHANGED <<recId, booted, report, abnormalTimes, mfgMap, mfgFlash,
                   syncPending>>

RecordEraseKeepsOneMore ==
    /\ pc = "erase"
    /\ buf' = [j \in 0..(2 * Keep + 1) |-> mem[End - 2 * Keep - 2 + j]]
    /\ \/ /\ mem' = [a \in MemWords |-> IF a < End THEN ERASED ELSE mem[a]]
          /\ hdr' = [p \in 1..Pages |-> FALSE]
          /\ pc' = "rewrite"
          /\ UNCHANGED <<widx, flashFailed>>
       \/ /\ Failed
          /\ widx' = NoIndex /\ pc' = "idle"
          /\ UNCHANGED <<mem, hdr>>
    /\ UNCHANGED <<recId, booted, report, abnormalTimes, mfgMap, mfgFlash,
                   syncPending>>

(* Read the last Keep entries, erase the range (headers included).  A   *)
(* failed erase sets the index to 0.                                      *)
RecordErase ==
    /\ pc = "erase"
    /\ buf' = [j \in ReportWords |-> mem[End - 2 * Keep + j]]
    /\ \/ /\ mem' = [a \in MemWords |-> IF a < End THEN ERASED ELSE mem[a]]
          /\ hdr' = [p \in 1..Pages |-> FALSE]
          /\ pc' = "rewrite"
          /\ UNCHANGED <<widx, flashFailed>>
       \/ /\ Failed
          /\ widx' = NoIndex /\ pc' = "idle"
          /\ UNCHANGED <<mem, hdr>>
    /\ UNCHANGED <<recId, booted, report, abnormalTimes, mfgMap, mfgFlash,
                   syncPending>>

(* Write the kept entries back at the data start (result not checked).  *)
RecordRewrite ==
    /\ pc = "rewrite"
    /\ \/ /\ mem' = [a \in MemWords |->
                        IF a - DataOff \in ReportWords
                        THEN mem[a] & buf[a - DataOff] ELSE mem[a]]
          /\ UNCHANGED flashFailed
       \/ Failed /\ UNCHANGED mem
    /\ widx' = DataOff + 2 * Keep
    /\ pc' = "idle"
    /\ UNCHANGED <<hdr, recId, buf, booted, report, abnormalTimes, mfgMap, mfgFlash,
                   syncPending>>

-----------------------------------------------------------------------------
(* update_cause_ram(), on HOOK_CHIPSET_RESUME: re-read the header, copy  *)
(* the newest Keep entries (or, near the data start, the words written so *)
(* far) into the memory map, newest first, and count abnormal power-downs.*)

(* update_cause_ram_ags(): count the entries whose log_id is non-zero and *)
(* reverse that many entries from the start; none: leave the words alone. *)
UpdateCauseRamAgs(r) ==
    LET n == Cardinality({c \in 0..(Keep - 1) : r[2 * c] > 0})
    IN  IF n = 0 THEN r
        ELSE [j \in ReportWords |->
                IF j \div 2 < n THEN r[2 * (n - 1 - j \div 2) + (j % 2)] ELSE 0]

(* abnormalPowerDownTimes(): the newest cause (or the one before an EC    *)
(* reset 0xFC) is a rail loss 0x08: count it, else reset the count; the   *)
(* count goes to the MFG block through mfg_data_write().                  *)
AbnormalPowerDownTimes(r) ==
    LET low == r[0] % 256
        loss == IF low = LOG_ID_SHUTDOWN_0xFC % 256
                THEN r[2] % 256 = LOG_ID_SHUTDOWN_0x08 % 256
                ELSE low = LOG_ID_SHUTDOWN_0x08 % 256
        n == IF loss THEN (abnormalTimes + 1) % 256 ELSE 0
    IN  /\ abnormalTimes' = n
        /\ mfgMap' = [mfgMap EXCEPT !["abnormal"] = n]
        /\ syncPending' = TRUE

UpdateCauseRam ==
    /\ pc = "idle" /\ booted
    /\ LET i == ShutdownEflashDebugInit(widx)
           odd == i % 2 = 1
           curr == IF odd THEN i + 1 ELSE i
           tmp == curr - DataOff
           whole == curr > DataOff + 2 * Keep
           part == ~whole /\ 0 < tmp /\ tmp <= 2 * Keep
           read == IF whole THEN [j \in ReportWords |-> mem[curr - 2 * Keep + j]]
                   ELSE [j \in ReportWords |->
                           IF part /\ j < tmp THEN mem[DataOff + j] ELSE report[j]]
           newest == IF whole THEN 2 * Keep - 2 ELSE tmp - 2
           r == IF odd /\ (whole \/ part)
                THEN [read EXCEPT ![newest] = LOG_ID_SHUTDOWN_0x08,
                                  ![newest + 1] = 1]
                ELSE read
       IN  /\ widx' = i
           /\ report' = UpdateCauseRamAgs(r)
           /\ AbnormalPowerDownTimes(UpdateCauseRamAgs(r))
    /\ UNCHANGED <<mem, hdr, pc, recId, buf, booted, mfgFlash, flashFailed>>

-----------------------------------------------------------------------------
(* An EC reset (power loss, watchdog, reset pin) between two steps: RAM  *)
(* is lost, flash is kept.                                                *)
ResetRam ==
    /\ widx' = NoIndex /\ pc' = "idle" /\ booted' = FALSE
    /\ recId' = 0 /\ buf' = [j \in ReportWords |-> 0]
    /\ report' = [j \in ReportWords |-> 0]
    /\ abnormalTimes' = 0 /\ syncPending' = FALSE
    /\ mfgMap' = [o \in MfgOffsets |-> 0]

Reset ==
    /\ booted
    /\ ResetRam
    /\ UNCHANGED <<mem, hdr, mfgFlash, flashFailed>>

(* A reset while the entry is being programmed: its first word (log_id)  *)
(* is written, the timestamp word is still erased.                        *)
ResetMidWrite ==
    /\ pc = "write"
    /\ mem' = [mem EXCEPT ![widx] = Program(widx, recId)]
    /\ ResetRam
    /\ UNCHANGED <<hdr, mfgFlash, flashFailed>>

(* A reset inside mfg_data_sync_deferred(), after the erase of the MFG   *)
(* block and before flash_write() puts mfg_data_map back: every MFG byte *)
(* reads 0xFF at the next boot.                                           *)
ResetMidSync ==
    /\ syncPending /\ pc = "idle"
    /\ mfgFlash' = MfgErased
    /\ ResetRam
    /\ UNCHANGED <<mem, hdr, flashFailed>>

(* The EC's own steps; the records, resumes and resets are the caller's. *)
EcStep ==
    \/ EflashDebugInit
    \/ MfgDataSyncDeferred
    \/ RecordWrite
    \/ RecordPageFull
    \/ RecordErase
    \/ RecordRewrite

Record(id) == RecordOutOfRange \/ RecordAligned(id) \/ RecordAdjust(id)

Next ==
    \/ EcStep
    \/ \E id \in Ids : Record(id)
    \/ UpdateCauseRam
    \/ Reset
    \/ ResetMidWrite
    \/ ResetMidSync

Spec == Init /\ [][Next]_vars

-----------------------------------------------------------------------------
(* The log as a reader of the flash sees it, oldest first: every entry   *)
(* whose log_id word is written, a half-written or unknown one as         *)
(* DAMAGED; while the kept entries are only in RAM (between the erase  *)
(* and their rewrite), those.                                             *)
DAMAGED == -1   \* not an id

Entry(id, ts) == IF ts = ERASED \/ id \notin Ids THEN DAMAGED ELSE id

Readout ==
    LET words == IF pc = "rewrite" THEN buf ELSE mem
        first == IF pc = "rewrite" THEN 0 ELSE DataOff
        n == IF pc = "rewrite" THEN Keep ELSE Pages * Cells
        at == SelectSeq([k \in 1..n |-> first + 2 * (k - 1)],
                        LAMBDA a : words[a] # ERASED)
    IN  [k \in 1..Len(at) |-> Entry(words[at[k]], words[at[k] + 1])]

-----------------------------------------------------------------------------
(* Properties *)

TypeOK ==
    /\ mem \in [MemWords -> Nat]
    /\ hdr \in [1..Pages -> BOOLEAN]
    /\ widx \in {NoIndex} \cup (DataOff..(End + 2))
    /\ pc \in {"idle", "write", "header", "erase", "rewrite"}
    /\ recId \in Ids \cup {0}
    /\ buf \in [ReportWords -> Nat]
    /\ booted \in BOOLEAN
    /\ report \in [ReportWords -> Nat]
    /\ abnormalTimes \in 0..255
    /\ mfgMap \in [MfgOffsets -> 0..255] /\ mfgFlash \in [MfgOffsets -> 0..255]
    /\ syncPending \in BOOLEAN /\ flashFailed \in BOOLEAN

(* The flash log behaves as the log of CauseLog: through resets at any   *)
(* point of shutdown_cause_record() and half-written entries (flash      *)
(* operations themselves succeeding), entries are only ever added at the *)
(* newest end,                                                            *)
(* dropped from the oldest end (the erase that keeps the last Keep), or  *)
(* a half-written newest entry marked as a rail loss; none is reordered, *)
(* duplicated or lost from the middle.                                    *)
Abstract == INSTANCE CauseLog
    WITH log <- Readout, Cap <- Pages * Cells, Damaged <- DAMAGED,
         Repaired <- LOG_ID_SHUTDOWN_0x08

ImplementsCauseLog == Abstract!Spec

(* The newest entry in flash, as update_cause_ram() should report it: a  *)
(* half-written one as a rail loss 0x08; 0 when the log is empty.         *)
NewestStored ==
    LET at == {a \in DataOff..(End - 1) : a % 2 = 0 /\ mem[a] # ERASED}
    IN  IF at = {} THEN 0
        ELSE IF mem[Max(at) + 1] = ERASED THEN LOG_ID_SHUTDOWN_0x08
        ELSE mem[Max(at)]

(* After a resume, update_cause_ram() reports the newest recorded cause  *)
(* first in EC_MEMMAP_SHUTDOWN_CAUSE: the window of the last Keep entries *)
(* before the write index, the partial window near the data start, the   *)
(* patch for a half-written entry and the reordering of                   *)
(* update_cause_ram_ags() together put it in word 0, whenever the write  *)
(* index is usable and no flash operation has failed.                     *)
ReportNewestFirst ==
    [][UpdateCauseRam /\ InRange(widx') /\ ~flashFailed
         => report'[0] = NewestStored']_vars

(* A reset can come between any two flash operations of                  *)
(* shutdown_cause_record(); as long as no flash operation fails, the next *)
(* boot must still find a place to write (the header and the data pages   *)
(* tell eflash_debug_init() where the log ends).                          *)
LogStaysWritable ==
    (booted /\ pc = "idle" /\ ~flashFailed) => InRange(CheckedIndex)

(* shutdown_cause_record() never programs flash outside the shutdown      *)
(* range (the words after it are the wakeup log's header).                *)
WritesStayInRange ==
    mem[End] = ERASED /\ mem[End + 1] = ERASED

(* Every complete entry of the log holds an id some caller recorded: the *)
(* 0x08 written over a half-written entry after a reset reads back as     *)
(* 0x08, not as a mixture of the two ids.                                 *)
EntriesKnown ==
    \A a \in DataOff..(End - 1) :
        (a % 2 = 0 /\ mem[a] # ERASED /\ mem[a + 1] # ERASED) => mem[a] \in Ids

=============================================================================
