------------------------------ MODULE LogNode ------------------------------
(***************************************************************************)
(* One LogNode of log_watcher.py, polled by LogWatcher.execute: a          *)
(* WatchNode that follows a LogFile.                                       *)
(***************************************************************************)
EXTENDS LogFile, WatchNode

CONSTANT MaxKills   \* bound on kills of the process

ASSUME KillsAssumption == MaxKills \in Nat

VARIABLES
    kills,
    skipped      \* history: lines passed over when the node started

vars == <<log, fd, pos, watch, kills, skipped>>

TypeOK ==
    /\ LogTypeOK /\ kills \in 0 .. MaxKills
    /\ pc \in {"down", "asleep", "read", "send", "signal", "flushed"}
    /\ data \in Seq(Lines) /\ due \in BOOLEAN
    /\ skipped \subseteq Lines
    /\ signalled \subseteq Lines /\ refused \subseteq Lines /\ settled \subseteq Lines

Init == LogInit /\ WatchInit /\ kills = 0 /\ skipped = {}

-----------------------------------------------------------------------------
Log == LogStep /\ UNCHANGED <<fd, pos, watch, kills, skipped>>

Tick == TimePasses /\ UNCHANGED <<log, fd, pos, kills, skipped>>

\* check_data gives up for this time if the file cannot be opened.
Open ==
    /\ pc = "asleep"
    /\ SetFd
    /\ pc' = IF fd' = 0 THEN "asleep" ELSE "read"
    /\ UNCHANGED <<log, batch, outcome, kills, skipped>>

Read ==
    /\ pc = "read"
    /\ Collect(Unread) /\ PassUnread
    /\ UNCHANGED <<log, kills, skipped>>

Flush == FlushData /\ UNCHANGED <<log, fd, pos, kills, skipped>>

Stat ==
    /\ pc = "flushed"
    /\ CheckInode
    /\ pc' = "asleep"
    /\ UNCHANGED <<log, batch, outcome, kills, skipped>>

Kill ==
    /\ pc # "down" /\ kills < MaxKills
    /\ kills' = kills + 1
    /\ Forget /\ fd' = 0 /\ pos' = 0
    /\ UNCHANGED <<log, skipped>>

\* __init__
Restart ==
    /\ pc = "down"
    /\ pc' = "asleep"
    /\ SeekToEnd /\ skipped' = skipped \union PassedOver
    /\ UNCHANGED <<log, batch, outcome, kills>>

CheckData == Open \/ Read \/ Flush \/ Stat

Next == Log \/ Tick \/ CheckData \/ Kill \/ Restart

Spec == Init /\ [][Next]_vars

\* The node is polled and restarted, time passes, a renamed file is created
\* anew, and the site does not fail for ever.
FairSpec ==
    /\ Spec /\ WF_vars(CheckData) /\ WF_vars(Restart) /\ WF_vars(Tick) /\ WF_vars(Log /\ Reopen)
    /\ SF_vars(Flush /\ Upload) /\ SF_vars(Flush /\ Signal)

-----------------------------------------------------------------------------
\* A line that was read and not checkpointed is still in self.data, in order
\* and once, and no checkpointed line is collected again: failed uploads and
\* signals repeat a batch, but never split, reorder or resurrect one.
BatchExact ==
    /\ \A i, j \in 1 .. Len(data) : i < j => data[i] < data[j]
    /\ Range(data) \intersect settled = {}

Relayed == INSTANCE Relay
    WITH Items <- Lines, running <- pc # "down", written <- 1 .. lastLine,
         coming <- IF pc = "down" THEN {} ELSE ToRead,
         held <- Range(data), delivered <- signalled

\* The node is a Relay of lines: one that is collected leaves self.data only when it
\* was signalled, or its batch was refused as too large, or the process was killed,
\* and is never collected again after that, whatever is renamed and restarted.
RelaysLines == Relayed!Spec

\* A line that stays in the file that ends up under log_path is settled or was
\* passed over at a start, whatever renames, failures and kills came before; a
\* log truncated in place may hide its new lines for ever, and what is written
\* between readlines and a rename is never read.
SurvivingLinesSettled ==
    \A l \in Lines :
        <>[](truncations = 0 /\ path # 0 /\ l \in Range(text[path]))
            => <>(l \in settled \union skipped)
=============================================================================
