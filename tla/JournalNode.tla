---------------------------- MODULE JournalNode ----------------------------
(***************************************************************************)
(* A SystemdJournalNode of log_watcher.py behind the other nodes of its    *)
(* LogWatcher, and the CommandOutputFollower of utils.py that runs         *)
(* journalctl for it: a thread puts the lines journalctl prints on a queue *)
(* which check_data empties.                                               *)
(*                                                                         *)
(* Lines of the journal are numbered.  The nodes polled before this one    *)
(* are one flag: they may have a batch to send, and sending it may raise.  *)
(***************************************************************************)
EXTENDS WatchNode, FiniteSets

CONSTANTS
    MaxLines,   \* bound: lines ever logged
    MaxEnds,    \* bound on ends of journalctl
    MaxKills    \* bound on kills of the process

ASSUME JournalAssumption == MaxLines \in Nat /\ MaxEnds \in Nat /\ MaxKills \in Nat

Lines == 1 .. MaxLines

VARIABLES
    logged,     \* the number of lines in the journal
    ahead,      \* a node before this one has a batch to send
    journalctl, \* the follower's process
    printed,    \* the last line it has printed and the thread put on the queue
    queue,      \* self.queue of the follower
    lines,      \* `data` of check_data: the lines read in this poll
    got,        \* history: lines read from a queue
    missed,     \* history: lines a new journalctl starts after, never read
    repeats,    \* history: how often a line was read that had been read before
    ends, kills

follower == <<journalctl, printed, queue>>
history == <<got, missed, repeats>>
faults == <<ends, kills>>
vars == <<watch, logged, ahead, follower, lines, history, faults>>

Init ==
    /\ WatchInit /\ logged = 0 /\ ahead = FALSE
    /\ journalctl = "starting" /\ printed = 0 /\ queue = <<>> /\ lines = <<>>
    /\ got = {} /\ missed = {} /\ repeats = 0 /\ ends = 0 /\ kills = 0

-----------------------------------------------------------------------------
(* The journal, the other nodes, time.                                     *)

Log ==
    /\ logged < MaxLines
    /\ logged' = logged + 1
    /\ UNCHANGED <<watch, ahead, follower, lines, history, faults>>

EarlierCollects ==
    /\ ~ahead /\ ahead' = TRUE
    /\ UNCHANGED <<watch, logged, follower, lines, history, faults>>

Tick == TimePasses /\ UNCHANGED <<logged, ahead, follower, lines, history, faults>>

-----------------------------------------------------------------------------
(* journalctl -f --lines=1, and the thread of the follower.                *)

\* Mutants: --lines=0, and --lines=2.
NoContext == logged
TwoLines == IF logged < 2 THEN 0 ELSE logged - 2

\* --lines=1: journalctl begins with the newest line there is.
Context == IF logged = 0 THEN 0 ELSE logged - 1

Begin ==
    /\ journalctl = "starting"
    /\ journalctl' = "running"
    /\ printed' = Context
    /\ missed' = missed \union (1 .. printed' \ got)
    /\ UNCHANGED <<watch, logged, ahead, queue, lines, got, repeats, faults>>

\* enqueue_line
Enqueue ==
    /\ journalctl = "running" /\ printed < logged
    /\ printed' = printed + 1 /\ queue' = Append(queue, printed + 1)
    /\ UNCHANGED <<watch, logged, ahead, journalctl, lines, history, faults>>

End ==
    /\ journalctl # "ended" /\ ends < MaxEnds
    /\ ends' = ends + 1 /\ journalctl' = "ended"
    /\ UNCHANGED <<watch, logged, ahead, printed, queue, lines, history, kills>>

-----------------------------------------------------------------------------
(* LogWatcher.execute and check_data.                                      *)

Poll ==
    /\ pc = "asleep"
    /\ pc' = "earlier"
    /\ UNCHANGED <<batch, outcome, logged, ahead, follower, lines, history, faults>>

EarlierDone ==
    /\ pc = "earlier"
    /\ pc' = "check" /\ ahead' = FALSE
    /\ UNCHANGED <<batch, outcome, logged, follower, lines, history, faults>>

\* A node before this one raises: its batch stays, and this node is not polled.
EarlierRaises ==
    /\ pc = "earlier" /\ ahead
    /\ pc' = "asleep"
    /\ UNCHANGED <<batch, outcome, logged, ahead, follower, lines, history, faults>>

\* _start_follower
NewFollower == journalctl' = "starting" /\ printed' = 0 /\ queue' = <<>>

\* A journalctl that has ended is replaced; what is left on its queue is dropped.
CheckProcess ==
    /\ pc = "check"
    /\ IF journalctl = "ended" THEN NewFollower ELSE UNCHANGED follower
    /\ pc' = "drain" /\ lines' = <<>>
    /\ UNCHANGED <<batch, outcome, logged, ahead, history, faults>>

TakeFromQueue ==
    /\ pc = "drain" /\ queue # <<>>
    /\ queue' = Tail(queue)
    /\ got' = got \union {Head(queue)}
    /\ repeats' = IF Head(queue) \in got THEN repeats + 1 ELSE repeats
    /\ UNCHANGED <<watch, logged, ahead, journalctl, printed, missed, faults>>

\* Mutant: a line that is taken is not kept.
ReadLineDrops == TakeFromQueue /\ UNCHANGED lines

ReadLine == TakeFromQueue /\ lines' = Append(lines, Head(queue))

\* read_line times out: the lines go to flush_data.
ReadNone ==
    /\ pc = "drain" /\ queue = <<>>
    /\ Collect(lines) /\ lines' = <<>>
    /\ UNCHANGED <<logged, ahead, follower, history, faults>>

Flush == FlushData /\ UNCHANGED <<logged, ahead, follower, lines, history, faults>>

Done ==
    /\ pc = "flushed"
    /\ pc' = "asleep"
    /\ UNCHANGED <<batch, outcome, logged, ahead, follower, lines, history, faults>>

Kill ==
    /\ pc # "down" /\ kills < MaxKills
    /\ kills' = kills + 1
    /\ Forget /\ journalctl' = "ended" /\ printed' = 0 /\ queue' = <<>> /\ lines' = <<>>
    /\ UNCHANGED <<logged, ahead, history, ends>>

\* __init__
Restart ==
    /\ pc = "down"
    /\ pc' = "asleep" /\ NewFollower
    /\ UNCHANGED <<batch, outcome, logged, ahead, lines, history, faults>>

Follower == Begin \/ Enqueue

Execute ==
    \/ Poll \/ EarlierDone \/ EarlierRaises
    \/ CheckProcess \/ ReadLine \/ ReadNone \/ Flush \/ Done

Next == Log \/ EarlierCollects \/ Tick \/ Follower \/ End \/ Execute \/ Kill \/ Restart

Spec == Init /\ [][Next]_vars

\* The process, its thread and journalctl run, time passes, and the site fails
\* for ever neither for this node nor for the nodes before it.
FairSpec ==
    /\ Spec /\ WF_vars(Execute) /\ WF_vars(Follower) /\ WF_vars(Restart) /\ WF_vars(Tick)
    /\ SF_vars(EarlierDone) /\ SF_vars(Flush /\ Upload) /\ SF_vars(Flush /\ Signal)

-----------------------------------------------------------------------------
\* A line read from the queue is kept until its batch is checkpointed, and no
\* older line is skipped but those a new journalctl started after: nothing the
\* threads and the polls do in between loses a line.
LinesAccounted ==
    /\ \A l \in got : \A m \in 1 .. l : m \in got \union missed
    /\ kills = 0 => got = settled \union Range(data) \union Range(lines)

\* --lines=1 repeats at most one line for every new journalctl.
RepeatsHaveCauses == repeats <= ends + kills

\* The line that ends the journal is at last sent, whatever ends of journalctl,
\* kills and failures of this and of other nodes come in between.
NewestLineSettles ==
    \A l \in Lines : <>[](logged = l) => <>(l \in settled)
=============================================================================
