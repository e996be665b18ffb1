------------------------------ MODULE LogRing ------------------------------
(***************************************************************************)
(* The kernel log of kernel/log.c: a ring of the last messages, the level  *)
(* filter, and the two readers, flux_log_dump_ring and flux_log_get_entry. *)
(*                                                                         *)
(* An entry keeps its level and its message; tick, file and line are left  *)
(* out, so are the console and its colors.  The entry's sequence number is *)
(* its place in "written", which keeps every message recorded since        *)
(* flux_log_init and is not in the code.                                   *)
(***************************************************************************)
EXTENDS Integers, Sequences

CONSTANTS LogSize,   \* FLUX_LOG_RING_SIZE
          Texts,     \* the messages
          Hello,     \* the message of flux_log_init and flux_log_shutdown
          MaxLogged  \* bound on s_log_count, which is 32 bits wide

ASSUME LogAssumption == LogSize \in Nat \ {0} /\ MaxLogged \in Nat

VARIABLES logRing,   \* s_log_ring
          logHead,   \* s_log_head
          logCount,  \* s_log_count
          minLevel,  \* s_log_min_level
          written

logVars == <<logRing, logHead, logCount, minLevel, written>>

LogSlots == 0 .. LogSize - 1
ERROR == 0
INFO == 2
DEBUG == 3
LogLevels == ERROR .. DEBUG

Entry == [level : LogLevels, text : Texts \cup {Hello}]

Greeting == [level |-> INFO, text |-> Hello]

\* What a slot holds before its first message.
ClearedEntry == Greeting

\* The log before flux_log_init.
LogInit ==
    /\ logRing = [i \in LogSlots |-> ClearedEntry]
    /\ logHead = 0 /\ logCount = 0
    /\ minLevel = INFO
    /\ written = << >>

\* Variant: the head stops at the last slot.
NextHeadStops(h) == IF h = LogSize - 1 THEN h ELSE h + 1

\* Where the next message goes after slot h.
NextHead(h) == (h + 1) % LogSize

\* flux_log_record.
Record(entry) ==
    /\ logCount < MaxLogged
    /\ logRing' = [logRing EXCEPT ![logHead] = entry]
    /\ logHead' = NextHead(logHead)
    /\ logCount' = logCount + 1
    /\ written' = Append(written, entry)

\* flux_log_format, behind flux_log, flux_log_error, flux_log_warn and
\* flux_log_source; flux_log_debug does nothing in this build.
Log(level, text) ==
    /\ IF level > minLevel THEN UNCHANGED <<logRing, logHead, logCount, written>>
                           ELSE Record([level |-> level, text |-> text])
    /\ UNCHANGED minLevel

\* flux_log_set_level.
SetLevel(level) ==
    /\ minLevel' = IF level \in LogLevels THEN level ELSE minLevel
    /\ UNCHANGED <<logRing, logHead, logCount, written>>

\* flux_log_init clears the ring and records its greeting, at level INFO.
LogInitAgain ==
    /\ logRing' = [i \in LogSlots |-> ClearedEntry]
    /\ written' = IF INFO > minLevel THEN << >> ELSE << Greeting >>
    /\ logCount' = Len(written')
    /\ logHead' = IF INFO > minLevel THEN 0 ELSE NextHead(0)
    /\ UNCHANGED minLevel

LogNext ==
    \/ \E level \in LogLevels, text \in Texts : Log(level, text)
    \/ Log(INFO, Hello)
    \/ \E level \in LogLevels \cup {-1} : SetLevel(level)
    \/ LogInitAgain

LogSpec == LogInit /\ [][LogNext]_logVars

----------------------------------------------------------------------------
(* The readers *)

\* Whether the ring has been round once.
RingFull == logCount >= LogSize

\* Where flux_log_dump_ring starts.
DumpStart == IF RingFull THEN logHead ELSE 0

\* The entries flux_log_dump_ring(n) prints.
Dump(n) ==
    LET asked == IF n <= 0 \/ n > LogSize THEN LogSize ELSE n
        shown == IF RingFull THEN asked ELSE logCount
    IN  [i \in 1 .. shown |-> logRing[(DumpStart + i - 1) % LogSize]]

\* flux_log_get_entry: the slot it reads for an index below s_log_count.
EntrySlot(index) ==
    IF RingFull THEN (logHead + LogSize - 1 - index) % LogSize ELSE index

----------------------------------------------------------------------------
(* Properties *)

\* The last n messages written.
Recent(n) ==
    LET len == Len(written)
    IN  SubSeq(written, len - (IF n < len THEN n ELSE len) + 1, len)

\* However often the ring went round, was cleared or had its level changed, a
\* dump of the whole ring prints the last messages recorded, each once and in
\* order; and once the ring is full flux_log_get_entry counts back from the
\* newest (flux_log_record, flux_log_dump_ring, flux_log_get_entry).
RecentKept ==
    /\ Dump(LogSize) = Recent(LogSize)
    /\ RingFull => \A k \in LogSlots :
                       logRing[EntrySlot(k)] = written[Len(written) - k]
=============================================================================
