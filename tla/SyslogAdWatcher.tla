-------------------------- MODULE SyslogAdWatcher --------------------------
(***************************************************************************)
(* The SyslogADWatcher of syslog_ad_watcher.py and its RemoteADLogNode: a  *)
(* LogNode whose lines are put together to events, which execute() uploads *)
(* and keeps until that has succeeded.                                     *)
(*                                                                         *)
(* An event is written either as one line, or as a head line followed by   *)
(* its tail lines; it is complete when the next head line is read.  An     *)
(* entry is a sequence of lines, and is parsed to the event of its head.   *)
(***************************************************************************)
EXTENDS LogFile, FiniteSets

CONSTANTS
    Heads, OneLiners,    \* lines that begin an event; lines that are one
    Malformed,    \* entries with one of these lines do not parse
    BadDate,      \* events whose 'Received time' does not parse
    Interesting,  \* events with code 4624 and no internal SID or account
    MaxKills      \* bound on kills of the process

ASSUME ScriptAssumption ==
    /\ Heads \subseteq Lines /\ OneLiners \subseteq Lines /\ Heads \intersect OneLiners = {}
    /\ Malformed \subseteq Lines /\ BadDate \subseteq Interesting
    /\ Interesting \subseteq Heads \union OneLiners /\ MaxKills \in Nat

VARIABLES
    pc,          \* where execute() stands
    lines,       \* `data` of flush_data still to be looked at
    entry,       \* self.entry
    complete,    \* self.is_complete
    parsed,      \* self.parsed_data, entries with their lines
    signalled,   \* history: events whose upload was signalled
    refused,     \* history: events the site refused as too large
    seen,        \* history: lines read
    kills, raises

watcher == <<pc, lines, entry, complete, parsed>>
history == <<signalled, refused, seen, kills, raises>>
vars == <<log, fd, pos, watcher, history>>

Init ==
    /\ LogInit
    /\ pc = "asleep" /\ lines = <<>> /\ entry = <<>> /\ complete = FALSE /\ parsed = {}
    /\ signalled = {} /\ refused = {} /\ seen = {} /\ kills = 0 /\ raises = 0

-----------------------------------------------------------------------------
Log == LogStep /\ UNCHANGED <<fd, pos, watcher, history>>

\* check_data: a file that cannot be opened ends it, not execute().
Open ==
    /\ pc = "asleep"
    /\ SetFd
    /\ pc' = IF fd' = 0 THEN "format" ELSE "read"
    /\ UNCHANGED <<log, lines, entry, complete, parsed, history>>

Read ==
    /\ pc = "read"
    /\ lines' = Unread /\ PassUnread /\ seen' = seen \union Range(Unread)
    /\ pc' = "parse"
    /\ UNCHANGED <<log, entry, complete, parsed, signalled, refused, kills, raises>>

\* What parsing e raises; supervisord starts the watcher again.
Parses(e) == Range(e) \intersect Malformed = {}

End ==
    /\ pc' = "down" /\ fd' = 0 /\ pos' = 0
    /\ lines' = <<>> /\ entry' = <<>> /\ complete' = FALSE /\ parsed' = {}
    /\ UNCHANGED <<log, signalled, refused, seen>>

HasLine == Len(lines) > 0 /\ pc = "parse"
Line == lines[1]

OneLine ==
    /\ HasLine /\ Line \in OneLiners /\ Parses(<<Line>>)
    /\ parsed' = parsed \union {<<Line>>}
    /\ lines' = Tail(lines)
    /\ UNCHANGED <<log, fd, pos, pc, entry, complete, history>>

TailLine ==
    /\ HasLine /\ Line \notin OneLiners \union Heads
    /\ entry' = Append(entry, Line)
    /\ lines' = Tail(lines)
    /\ UNCHANGED <<log, fd, pos, pc, complete, parsed, history>>

\* Mutant: an entry of which the head was not seen is taken for an event, too.
HeadLineAlways ==
    /\ HasLine /\ Line \in Heads /\ Parses(entry)
    /\ parsed' = IF entry # <<>> THEN parsed \union {entry} ELSE parsed
    /\ entry' = <<Line>> /\ complete' = TRUE
    /\ lines' = Tail(lines)
    /\ UNCHANGED <<log, fd, pos, pc, history>>

\* Mutant: is_complete is not set.
HeadLineForgets ==
    /\ HasLine /\ Line \in Heads /\ (complete => Parses(entry))
    /\ parsed' = IF complete THEN parsed \union {entry} ELSE parsed
    /\ entry' = <<Line>> /\ complete' = FALSE
    /\ lines' = Tail(lines)
    /\ UNCHANGED <<log, fd, pos, pc, history>>

\* The current entry, if its head was seen, is parsed; a new one starts.
HeadLine ==
    /\ HasLine /\ Line \in Heads /\ (complete => Parses(entry))
    /\ parsed' = IF complete THEN parsed \union {entry} ELSE parsed
    /\ entry' = <<Line>> /\ complete' = TRUE
    /\ lines' = Tail(lines)
    /\ UNCHANGED <<log, fd, pos, pc, history>>

ParseRaises ==
    /\ HasLine
    /\ \/ Line \in OneLiners /\ ~Parses(<<Line>>)
       \/ Line \in Heads /\ complete /\ ~Parses(entry)
    /\ raises' = raises + 1
    /\ End /\ UNCHANGED kills

Parsed ==
    /\ pc = "parse" /\ lines = <<>>
    /\ pc' = "stat"
    /\ UNCHANGED <<log, fd, pos, lines, entry, complete, parsed, history>>

Stat ==
    /\ pc = "stat"
    /\ CheckInode
    /\ pc' = "format"
    /\ UNCHANGED <<log, lines, entry, complete, parsed, history>>

\* The events that are sent.
Events(S) == {e[1] : e \in S} \intersect Interesting

\* _get_formatted_events
Format ==
    /\ pc = "format" /\ Events(parsed) \intersect BadDate = {}
    /\ pc' = IF parsed = {} THEN "asleep" ELSE "send"
    /\ UNCHANGED <<log, fd, pos, lines, entry, complete, parsed, history>>

FormatRaises ==
    /\ pc = "format" /\ Events(parsed) \intersect BadDate # {}
    /\ raises' = raises + 1
    /\ End /\ UNCHANGED kills

Upload ==
    /\ pc = "send"
    /\ pc' = "signal"
    /\ UNCHANGED <<log, fd, pos, lines, entry, complete, parsed, history>>

\* 413: send_file returns None, and the events go.
UploadTooLarge ==
    /\ pc = "send"
    /\ refused' = refused \union Events(parsed)
    /\ parsed' = {} /\ pc' = "asleep"
    /\ UNCHANGED <<log, fd, pos, lines, entry, complete, signalled, seen, kills, raises>>

\* Mutant: parsed_data is emptied before the upload.
UploadFailsDrops ==
    /\ pc = "send"
    /\ parsed' = {} /\ pc' = "asleep"
    /\ UNCHANGED <<log, fd, pos, lines, entry, complete, history>>

\* The exception leaves execute(): the events wait for the next one.
UploadFails ==
    /\ pc = "send"
    /\ pc' = "asleep"
    /\ UNCHANGED <<log, fd, pos, lines, entry, complete, parsed, history>>

Signal ==
    /\ pc = "signal"
    /\ signalled' = signalled \union Events(parsed)
    /\ parsed' = {} /\ pc' = "asleep"
    /\ UNCHANGED <<log, fd, pos, lines, entry, complete, refused, seen, kills, raises>>

SignalFails ==
    /\ pc = "signal"
    /\ signalled' \in {signalled, signalled \union Events(parsed)}
    /\ pc' = "asleep"
    /\ UNCHANGED <<log, fd, pos, lines, entry, complete, parsed, refused, seen, kills, raises>>

Kill ==
    /\ pc # "down" /\ kills < MaxKills
    /\ kills' = kills + 1
    /\ End /\ UNCHANGED raises

Restart ==
    /\ pc = "down"
    /\ pc' = "asleep" /\ SeekToEnd
    /\ UNCHANGED <<log, lines, entry, complete, parsed, history>>

CheckData ==
    \/ Open \/ Read \/ OneLine \/ TailLine \/ HeadLine \/ ParseRaises \/ Parsed \/ Stat

Execute ==
    \/ CheckData \/ Format \/ FormatRaises
    \/ Upload \/ UploadTooLarge \/ UploadFails \/ Signal \/ SignalFails

Next == Log \/ Execute \/ Kill \/ Restart

Spec == Init /\ [][Next]_vars

\* The watcher is polled and restarted, a renamed file is created anew, and the
\* site does not fail for ever.
FairSpec ==
    /\ Spec /\ WF_vars(Execute) /\ WF_vars(Restart) /\ WF_vars(Log /\ Reopen)
    /\ SF_vars(Upload) /\ SF_vars(Signal)

-----------------------------------------------------------------------------
\* Lines that were not read and never will be: written to a file that was let go,
\* or before the read position of a truncated one.
Lost == (1 .. lastLine) \ (seen \union ToRead)

\* The lines of the event that begins with line h.
LinesOf(h) ==
    IF h \in OneLiners THEN {h}
    ELSE {h} \union {l \in Lines \ (Heads \union OneLiners) :
                       l > h /\ \A k \in h + 1 .. l : k \notin Heads}

\* "process the current entry (if we saw the whole thing)": every event begins
\* with its own first line and is put together from its own lines, all of them,
\* although they may be read in different polls, from different files and after a
\* restart in the middle of an entry.  Only if a line from its head to the next
\* head was lost in a rotation or truncation may it be cut short, or end with
\* lines of a later event.
EventsWhole ==
    \A e \in parsed :
        /\ e[1] \in Heads \union OneLiners
        /\ \/ Range(e) = LinesOf(e[1])
           \/ \E l \in Lost : l > e[1] /\ \A k \in Range(e) : k < l => k \in LinesOf(e[1])

\* Events of which the head has not been parsed: on disk, read, or in the entry.
ComingEvents ==
    Interesting \intersect
        (ToRead \union Range(lines) \union (IF complete THEN {entry[1]} ELSE {}))

Relayed == INSTANCE Relay
    WITH Items <- Interesting, running <- pc # "down",
         written <- Interesting \intersect 1 .. lastLine,
         coming <- IF pc = "down" THEN {} ELSE ComingEvents,
         held <- Events(parsed), delivered <- signalled

\* The watcher is a Relay of events: one that is parsed leaves parsed_data only when it
\* was signalled, or the site refused it as too large, or the process ended, and is
\* never parsed again after that; it is parsed once, however its lines are read.
RelaysEvents == Relayed!Spec

\* A readable event that stays in the log is at last signalled or refused once
\* the next head has been read, unless lines were lost or the process ended.
Sent(h) == h \in signalled \union refused
Followed(h) == h \in OneLiners \/ \E k \in Heads : h < k /\ k <= lastLine
EventsLeave ==
    \A h \in Interesting :
        <>[](path # 0 /\ h <= lastLine /\ Followed(h))
            => <>(Sent(h) \/ Lost # {} \/ kills > 0 \/ raises > 0)
=============================================================================
