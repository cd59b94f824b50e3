------------------------------ MODULE HealthLog ------------------------------
(***************************************************************************)
(* The firmware's log and its uptime: firmware/src/health_log.py.  Both    *)
(* threads of the firmware, and the settings thread, write entries: each   *)
(* first takes the time from an accumulator over a wrapping tick counter,  *)
(* then appends its line to the file, which is rotated before it.  Each of *)
(* the two parts runs under _log_lock, the power may fail anywhere.        *)
(***************************************************************************)
EXTENDS Integers

CONSTANTS
    Threads,
    Nobody,      \* the lock is free
    Period,      \* the tick counter is read modulo Period
    Horizon,     \* the time a run of the model lasts
    MaxGap,      \* time between two entries: write_log() comes once a minute
    MaxBytes,    \* MAX_LOG_BYTES
    Sizes,       \* lengths of a line
    LongestLine, \* none is longer
    MaxStuck     \* bound: rotations that can neither rename nor delete the file

HealthLogAssumption ==
    /\ {Period, Horizon, MaxGap, LongestLine, MaxStuck} \subseteq Nat /\ MaxBytes \in Nat \ {0}
    /\ MaxGap < Period \div 2 /\ Sizes \subseteq 1..LongestLine
    /\ Nobody \notin Threads

VARIABLES
    time,        \* time since boot
    lastTicks,   \* _uptime_last_ticks_ms
    uptime,      \* _uptime_ms
    log, backup, \* sizes of the two files
    dropped,     \* history: an entry was deleted
    failed,      \* history: a rename failed and the file was deleted
    stuck,       \* history: how many rotations left the file as it was
    stamp,       \* each thread: an entry with its time that is not yet written, or NoEntry
    lock,        \* holder of _log_lock while it rotates or appends
    stage        \* of the holder

vars == <<time, lastTicks, uptime, log, backup, dropped, failed, stuck, stamp, lock, stage>>

NoEntry == -1

TypeOK ==
    /\ time \in 0..Horizon /\ lastTicks \in 0..(Period - 1)
    /\ uptime \in 0..Horizon
    /\ log \in Nat /\ backup \in Nat /\ stuck \in 0..MaxStuck
    /\ dropped \in BOOLEAN /\ failed \in BOOLEAN
    /\ stamp \in [Threads -> 0..Horizon \cup {NoEntry}]
    /\ lock \in Threads \cup {Nobody} /\ stage \in {"rotate", "rename", "append"}

Init ==
    /\ time = 0 /\ lastTicks = 0 /\ uptime = 0
    /\ log = 0 /\ backup = 0 /\ dropped = FALSE /\ failed = FALSE /\ stuck = 0
    /\ stamp = [t \in Threads |-> NoEntry]
    /\ lock = Nobody /\ stage = "rotate"

-----------------------------------------------------------------------------

Tick ==
    /\ time < Horizon /\ time - uptime < MaxGap
    /\ time' = time + 1
    /\ UNCHANGED <<lastTicks, uptime, log, backup, dropped, failed, stuck, stamp, lock, stage>>

\* utime.ticks_diff(): the difference of two readings, between -Period/2 and Period/2 - 1
TicksDiff(a, b) == ((a - b + Period \div 2) % Period) - Period \div 2

UptimeNow == uptime + TicksDiff(time % Period, lastTicks)

\* write_event(), collect(): _uptime_now_ms()
Stamp(t) ==
    /\ stamp[t] = NoEntry /\ lock = Nobody
    /\ uptime' = UptimeNow /\ lastTicks' = time % Period
    /\ stamp' = [stamp EXCEPT ![t] = uptime']
    /\ UNCHANGED <<time, log, backup, dropped, failed, stuck, lock, stage>>

Locks(t) ==
    /\ lock = Nobody /\ stamp[t] # NoEntry
    /\ lock' = t /\ stage' = "rotate"
    /\ UNCHANGED <<time, lastTicks, uptime, log, backup, dropped, failed, stuck, stamp>>

Full == log >= MaxBytes

RemovesLog == log' = 0 /\ backup' = backup

RemovesBackup == log' = log /\ backup' = 0

\* _rotate(): the old backup goes first; that os.remove() may fail.
RotateBegins ==
    /\ lock # Nobody /\ stage = "rotate"
    /\ IF Full THEN /\ stage' = "rename"
                    /\ \/ RemovesBackup /\ dropped' = (dropped \/ log' + backup' < log + backup)
                       \/ UNCHANGED <<log, backup, dropped>>
               ELSE stage' = "append" /\ UNCHANGED <<log, backup, dropped>>
    /\ UNCHANGED <<time, lastTicks, uptime, failed, stuck, stamp, lock>>

\* rename() replaces a backup that is still there.  When it fails the file is deleted; when that
\* fails too, nothing has happened and the line is appended all the same.
RotateEnds ==
    /\ lock # Nobody /\ stage = "rename" /\ stage' = "append"
    /\ \/ /\ log' = 0 /\ backup' = log
          /\ dropped' = (dropped \/ backup > 0) /\ UNCHANGED <<failed, stuck>>
       \/ RemovesLog /\ dropped' = TRUE /\ failed' = TRUE /\ UNCHANGED stuck
       \/ stuck < MaxStuck /\ stuck' = stuck + 1 /\ UNCHANGED <<log, backup, dropped, failed>>
    /\ UNCHANGED <<time, lastTicks, uptime, stamp, lock>>

\* A write that raises leaves the file as it is.
Append ==
    /\ lock # Nobody /\ stage = "append"
    /\ \E size \in Sizes \cup {0} : log' = log + size
    /\ stamp' = [stamp EXCEPT ![lock] = NoEntry]
    /\ lock' = Nobody /\ stage' = "rotate"
    /\ UNCHANGED <<time, lastTicks, uptime, backup, dropped, failed, stuck>>

\* The files stay as they are.
PowerCut ==
    /\ time' = 0 /\ lastTicks' = 0 /\ uptime' = 0
    /\ stamp' = [t \in Threads |-> NoEntry]
    /\ lock' = Nobody /\ stage' = "rotate"
    /\ UNCHANGED <<log, backup, dropped, failed, stuck>>

Next ==
    \/ Tick \/ RotateBegins \/ RotateEnds \/ Append \/ PowerCut
    \/ \E t \in Threads : Stamp(t) \/ Locks(t)

Spec == Init /\ [][Next]_vars

-----------------------------------------------------------------------------
(* Properties *)

\* health_log.py:59-62: the uptime is the time since boot however often the tick counter has
\* wrapped: it never differs from it by more than the time since the last entry.
UptimeTrue == uptime <= time /\ time - uptime <= MaxGap

\* Once an entry was deleted there is still a whole file of the latest entries, also when the
\* power fails in the middle of a rotation or a file cannot be removed, unless a file that could
\* not be renamed was deleted (health_log.py:103-118).
KeepsLatest == dropped /\ ~failed => log + backup >= MaxBytes

\* A file outgrows MAX_LOG_BYTES by less than one line, and by one line more for every rotation
\* that could neither rename nor delete it (health_log.py:43, 103-118).
Slack == LongestLine * (stuck + 1)
FilesBounded == log < MaxBytes + Slack /\ backup < MaxBytes + Slack

\* What the log says and keeps (health_log.py:59-118, 256-307).
LogHolds == UptimeTrue /\ KeepsLatest /\ FilesBounded
=============================================================================
