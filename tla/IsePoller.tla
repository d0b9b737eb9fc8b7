----------------------------- MODULE IsePoller -----------------------------
(***************************************************************************)
(* ise_poller.py: every poll activates the pxGrid account, asks the nodes  *)
(* of the session service in turn for the sessions after a saved cursor    *)
(* until one has some, uploads and signals them, and then moves the cursor *)
(* to the newest.  The cursor is kept in a persistent_dict (utils.py).     *)
(*                                                                         *)
(* _pxgrid_request returns False when a request fails, and its callers use *)
(* the result as a dict: that error is not one Service.run catches, and    *)
(* the process ends.                                                       *)
(***************************************************************************)
EXTENDS Integers, Sequences, FiniteSetsExt

CONSTANTS
    Nodes,     \* the nodes of ServiceLookup, in its order
    Sessions,
    Stamp,     \* the timestamp of each session
    Back,      \* POLL_SECONDS: how far the first cursor lies back
    MaxClock,  \* bound: the clock stops here
    MaxLag,    \* a session may appear up to MaxLag after a newer one
    MaxFaults  \* bound on kills of the process and losses of its certificates

ASSUME SessionsAssumption ==
    /\ Stamp \in [Sessions -> 1 .. MaxClock] /\ Nodes # <<>>
    /\ Back \in Nat /\ MaxClock \in Nat /\ MaxLag \in Nat /\ MaxFaults \in Nat

Unset == -MaxClock - Back - 1
Cursors == {Unset} \union -Back .. MaxClock

VARIABLES
    clock,
    visible,   \* sessions the nodes return
    disk,      \* last_poll in the state file, Unset if the file is torn or missing
    last,      \* state_dict['last_poll']
    pc,
    node,      \* index of the node to ask next
    sessions,  \* the sessions of this poll
    complete,  \* the configuration in use passes _validate_configuration
    env,       \* that of the environment does
    down,      \* nodes whose requests always fail
    sent,      \* history: sessions uploaded and signalled
    twice,     \* history: sessions signalled more than once
    refused,   \* history: sessions the site answered 413 for
    late,      \* history: sessions that appeared after one not older
    passed,    \* history: sessions a new cursor has passed over
    failed,    \* history: a signal failed or the process was killed
    faults

local == <<last, pc, node, sessions>>
setup == <<complete, env, down>>
history == <<sent, twice, refused, late, passed, failed>>
vars == <<clock, visible, disk, local, setup, history, faults>>

TypeOK ==
    /\ clock \in 0 .. MaxClock /\ visible \subseteq Sessions
    /\ disk \in Cursors /\ last \in Cursors
    /\ pc \in {"down", "asleep", "query", "send", "signal", "truncate", "write"}
    /\ node \in 1 .. Len(Nodes) + 1 /\ sessions \subseteq visible
    /\ sent \subseteq visible /\ twice \subseteq sent /\ refused \subseteq visible
    /\ late \subseteq visible /\ passed \subseteq Sessions
    /\ complete \in BOOLEAN /\ env \in BOOLEAN /\ down \subseteq {Nodes[n] : n \in 1 .. Len(Nodes)}
    /\ failed \in BOOLEAN /\ faults \in 0 .. MaxFaults

Init ==
    /\ clock = 0 /\ visible = {}
    /\ disk = Unset /\ last = Unset /\ pc = "down" /\ node = 1 /\ sessions = {}
    /\ env \in BOOLEAN /\ complete = env /\ down \in SUBSET {Nodes[n] : n \in 1 .. Len(Nodes)}
    /\ sent = {} /\ twice = {} /\ refused = {} /\ late = {} /\ passed = {}
    /\ failed = FALSE /\ faults = 0

-----------------------------------------------------------------------------
(* The network: time, and sessions that start.                             *)

Tick ==
    /\ clock < MaxClock /\ clock' = clock + 1
    /\ UNCHANGED <<visible, disk, local, history, setup, faults>>

Appear(s) ==
    /\ s \notin visible /\ Stamp[s] <= clock
    /\ \A r \in visible : Stamp[r] <= Stamp[s] + MaxLag
    /\ visible' = visible \union {s}
    /\ late' = IF \E r \in visible : Stamp[r] >= Stamp[s] THEN late \union {s} ELSE late
    /\ UNCHANGED <<clock, disk, local, sent, twice, refused, passed, failed, setup, faults>>

-----------------------------------------------------------------------------
(* The process.                                                            *)

\* Mutant: the first cursor is the present, which is not saved.
StartAtPresent ==
    /\ pc = "down"
    /\ last' = IF disk = Unset THEN clock ELSE disk
    /\ pc' = "asleep"
    /\ UNCHANGED <<clock, visible, disk, node, sessions, history, setup, faults>>

\* __init__: the configuration is that of the environment; a cursor that is
\* missing starts one interval ago, and is saved.
Start ==
    /\ pc = "down"
    /\ complete' = env
    /\ IF disk # Unset
         THEN last' = disk /\ pc' = "asleep" /\ UNCHANGED passed
         ELSE /\ last' = clock - Back /\ pc' = "truncate"
              /\ passed' = passed \union {s \in Sessions : Stamp[s] <= clock - Back}
    /\ UNCHANGED <<clock, visible, disk, node, sessions, sent, twice, refused, late, failed, env, down, faults>>

Sleep == pc' = "asleep" /\ node' = 1 /\ sessions' = {}

\* _get_remote_configuration: the site's configuration is complete.  If it is not,
\* or get_data raises, execute() returns and the next poll downloads it again.
Download ==
    /\ pc = "asleep" /\ ~complete
    /\ complete' = TRUE
    /\ UNCHANGED <<clock, visible, disk, local, env, down, history, faults>>

\* What was downloaded lies in the temporary directory, where it may be removed.
CertificatesRemoved ==
    /\ pc # "down" /\ complete /\ ~env /\ faults < MaxFaults
    /\ faults' = faults + 1
    /\ complete' = FALSE
    /\ UNCHANGED <<clock, visible, disk, local, env, down, history>>

\* The configuration is complete, AccountActivate and ServiceLookup succeed;
\* if one of the first two does not, execute() returns and nothing changes.
Activate ==
    /\ pc = "asleep" /\ complete
    /\ pc' = "query" /\ node' = 1
    /\ UNCHANGED <<clock, visible, disk, last, sessions, history, setup, faults>>

\* Mutant: sessions from the cursor on.
NewFrom == {s \in visible : Stamp[s] >= last}

\* The answer to startTimestamp = last_poll + TICK_DELTA.
New == {s \in visible : Stamp[s] > last}

\* AccessSecret and getSessions; the first node with sessions ends the loop.
Query ==
    /\ pc = "query" /\ node <= Len(Nodes) /\ Nodes[node] \notin down /\ complete
    /\ sessions' = New /\ node' = node + 1
    /\ pc' = IF New = {} THEN "query" ELSE "send"
    /\ UNCHANGED <<clock, visible, disk, last, history, setup, faults>>

NoSessions ==
    /\ pc = "query" /\ node > Len(Nodes)
    /\ Sleep
    /\ UNCHANGED <<clock, visible, disk, last, history, setup, faults>>

\* ServiceLookup, AccessSecret or getSessions failed, or the certificates are gone.
QueryFails ==
    /\ pc = "query" /\ node <= Len(Nodes)
    /\ pc' = "down" /\ node' = 1 /\ sessions' = {}
    /\ UNCHANGED <<clock, visible, disk, last, history, setup, faults>>

SendFile ==
    /\ pc = "send"
    /\ pc' = "signal"
    /\ UNCHANGED <<clock, visible, disk, last, node, sessions, history, setup, faults>>

\* Mutant: the newest session of the upload is taken for a cursor one later.
MaxStampPlus(S) == 1 + Max({Stamp[s] : s \in S})

MaxStamp(S) == Max({Stamp[s] : s \in S})

\* The cursor moves: persistent_dict truncates its file, then writes it.
Save == last' = MaxStamp(sessions) /\ pc' = "truncate"

\* 413: the sessions are given up, and the cursor moves all the same.
SendFileTooLarge ==
    /\ pc = "send"
    /\ Save /\ refused' = refused \union sessions
    /\ UNCHANGED <<clock, visible, disk, node, sessions, sent, twice, late, passed, failed, setup, faults>>

SendFileFails ==
    /\ pc = "send"
    /\ Sleep
    /\ UNCHANGED <<clock, visible, disk, last, history, setup, faults>>

Told == sent' = sent \union sessions /\ twice' = twice \union (sent \intersect sessions)

SendSignal ==
    /\ pc = "signal"
    /\ Told /\ Save
    /\ UNCHANGED <<clock, visible, disk, node, sessions, refused, late, passed, failed, setup, faults>>

SendSignalFails ==
    /\ pc = "signal"
    /\ Told \/ UNCHANGED <<sent, twice>>
    /\ failed' = TRUE /\ Sleep
    /\ UNCHANGED <<clock, visible, disk, last, refused, late, passed, setup, faults>>

Truncate ==
    /\ pc = "truncate"
    /\ disk' = Unset /\ pc' = "write"
    /\ UNCHANGED <<clock, visible, last, node, sessions, history, setup, faults>>

Write ==
    /\ pc = "write"
    /\ disk' = last /\ Sleep
    /\ UNCHANGED <<clock, visible, last, history, setup, faults>>

Kill ==
    /\ pc # "down" /\ faults < MaxFaults
    /\ faults' = faults + 1 /\ failed' = TRUE
    /\ pc' = "down" /\ node' = 1 /\ sessions' = {}
    /\ UNCHANGED <<clock, visible, disk, last, sent, twice, refused, late, passed, setup>>

Execute ==
    \/ Download \/ Activate \/ Query \/ NoSessions \/ QueryFails \/ SendFile \/ SendFileTooLarge
    \/ SendFileFails \/ SendSignal \/ SendSignalFails \/ Truncate \/ Write

Next == Tick \/ (\E s \in Sessions : Appear(s)) \/ Start \/ Execute \/ Kill \/ CertificatesRemoved

Spec == Init /\ [][Next]_vars

\* The process runs and is restarted, the site has a configuration, the account is
\* good, a node that is not down answers some day, and so does the site.
FairSpec ==
    /\ Spec /\ WF_vars(Execute) /\ WF_vars(Start)
    /\ SF_vars(Query) /\ SF_vars(SendFile) /\ SF_vars(SendSignal)

-----------------------------------------------------------------------------
Settled == sent \union refused \union late \union passed

\* "Save the last poll time": the cursor in the state file never covers a session
\* that was not uploaded and signalled, refused, late, or older than a new cursor.
CursorCovered == \A s \in Sessions : Stamp[s] <= disk => s \in Settled \/ s \notin visible

\* "starting one tick after the last poll": no session is signalled twice while
\* no signal fails and the process is not killed.
NotTwice == ~failed => twice = {}

\* With the first node in order every session is at last settled, whatever becomes
\* of the others: "connecting to one of these nodes is sufficient", and the code
\* connects to the others only if the first answers.
SessionsSettle ==
    Nodes[1] \notin down => \A s \in Sessions : (s \in visible) ~> (s \in Settled)
=============================================================================
