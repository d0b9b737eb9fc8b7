----------------------- MODULE NotificationPublisher -----------------------
(***************************************************************************)
(* notification_publisher.py with the persistent_dict of utils.py: every   *)
(* poll asks the site, for each notification type, for the messages after  *)
(* a cursor, moves the cursor to the newest of them, saves all cursors to  *)
(* one JSON file and only then forwards the messages to syslog or SNMP.    *)
(*                                                                         *)
(* Saving truncates the file and then writes it; a torn file is loaded as  *)
(* an empty dict.  A process without a configured handler returns from     *)
(* execute() at once and is not modelled.                                  *)
(***************************************************************************)
EXTENDS Integers, FiniteSets, FiniteSetsExt

CONSTANTS
    Types,     \* notification types, those of MESSAGE_MAP
    Messages,  \* messages the site will ever have
    TypeOf,    \* the type of each message
    Stamp,     \* the time of each message, distinct within a type
    MaxClock,  \* bound: the clock stops here
    MaxLag,    \* a message may appear up to MaxLag after a newer one
    MaxKills   \* bound on kills of the process

ASSUME MessagesAssumption ==
    /\ TypeOf \in [Messages -> Types] /\ Stamp \in [Messages -> 1 .. MaxClock]
    /\ MaxClock \in Nat /\ MaxLag \in Nat /\ MaxKills \in Nat

Unset == -1
Cursors == [Types -> {Unset} \union 0 .. MaxClock]

VARIABLES
    clock,
    visible,    \* messages the site returns
    disk, torn, \* the state file: its cursors, unless it is torn
    state,      \* self.state
    pc,
    todo,       \* notification types still to be asked for
    type,       \* the data_type at hand
    batch,      \* messages still to be published
    since,      \* history: the first cursor of each type
    published,  \* history: how often each message was forwarded
    failed,     \* history: messages the handler raised for
    late,       \* history: messages that appeared after a newer one
    kills

site == <<clock, visible>>
file == <<disk, torn>>
history == <<since, published, failed, late>>
vars == <<site, file, state, pc, todo, type, batch, history, kills>>

TypeOK ==
    /\ clock \in 0 .. MaxClock /\ visible \subseteq Messages
    /\ disk \in Cursors /\ state \in Cursors /\ since \in Cursors /\ torn \in BOOLEAN
    /\ pc \in {"down", "asleep", "next", "truncate", "write", "get", "publish"}
    /\ todo \subseteq Types /\ type \in Types /\ batch \subseteq Messages
    /\ published \in [Messages -> Nat] /\ failed \subseteq Messages
    /\ late \subseteq Messages /\ kills \in 0 .. MaxKills

Init ==
    /\ clock = 0 /\ visible = {} /\ torn = FALSE
    /\ disk = [t \in Types |-> Unset] /\ state = disk /\ since = disk
    /\ pc = "asleep" /\ todo = {} /\ type \in Types /\ batch = {}
    /\ published = [m \in Messages |-> 0] /\ failed = {} /\ late = {} /\ kills = 0

-----------------------------------------------------------------------------
(* The site.                                                               *)

Tick ==
    /\ clock < MaxClock /\ clock' = clock + 1
    /\ UNCHANGED <<visible, file, state, pc, todo, type, batch, history, kills>>

Appear(m) ==
    /\ m \notin visible /\ Stamp[m] <= clock
    /\ \A n \in visible : TypeOf[n] = TypeOf[m] => Stamp[n] <= Stamp[m] + MaxLag
    /\ visible' = visible \union {m}
    /\ late' = IF \E n \in visible : TypeOf[n] = TypeOf[m] /\ Stamp[n] > Stamp[m]
               THEN late \union {m} ELSE late
    /\ UNCHANGED <<clock, file, state, pc, todo, type, batch, since, published, failed, kills>>

-----------------------------------------------------------------------------
(* execute().                                                              *)

Begin ==
    /\ pc = "asleep"
    /\ pc' = "next" /\ todo' = Types
    /\ UNCHANGED <<site, file, state, type, batch, history, kills>>

\* The cursor of the type, or a new one at the present time, which is saved.
NextType(t) ==
    /\ pc = "next" /\ t \in todo
    /\ todo' = todo \ {t} /\ type' = t
    /\ IF state[t] # Unset
         THEN pc' = "get" /\ UNCHANGED <<state, since>>
         ELSE /\ pc' = "truncate"
              /\ state' = [state EXCEPT ![t] = clock]
              /\ since' = IF since[t] = Unset THEN [since EXCEPT ![t] = clock] ELSE since
    /\ UNCHANGED <<site, file, batch, published, failed, late, kills>>

Finish ==
    /\ pc = "next" /\ todo = {}
    /\ pc' = "asleep"
    /\ UNCHANGED <<site, file, state, todo, type, batch, history, kills>>

\* persistent_dict._save: open(filename, 'w'), then json.dump.
TruncateState ==
    /\ pc = "truncate"
    /\ torn' = TRUE /\ pc' = "write"
    /\ UNCHANGED <<site, disk, state, todo, type, batch, history, kills>>

WriteState ==
    /\ pc = "write"
    /\ disk' = state /\ torn' = FALSE
    /\ pc' = IF batch = {} THEN "get" ELSE "publish"
    /\ UNCHANGED <<site, state, todo, type, batch, history, kills>>

\* Mutant: time__gte.
NewFrom == {m \in visible : TypeOf[m] = type /\ Stamp[m] >= state[type]}

\* The site's answer to time__gt.
New == {m \in visible : TypeOf[m] = type /\ Stamp[m] > state[type]}

\* Mutant: the newest message is taken for a cursor one later.
MaxTimePlus(S) == 1 + Max({Stamp[m] : m \in S})

MaxTime(S) == Max({Stamp[m] : m \in S})

Get ==
    /\ pc = "get"
    /\ batch' = New
    /\ IF New = {}
         THEN pc' = "next" /\ UNCHANGED state
         ELSE pc' = "truncate" /\ state' = [state EXCEPT ![type] = MaxTime(New)]
    /\ UNCHANGED <<site, file, todo, type, history, kills>>

\* Not JSON, or an error object: get_data returns None.
GetNone ==
    /\ pc = "get"
    /\ pc' = "next"
    /\ UNCHANGED <<site, file, state, todo, type, batch, history, kills>>

GetFails ==
    /\ pc = "get"
    /\ pc' = "asleep" /\ todo' = {}
    /\ UNCHANGED <<site, file, state, type, batch, history, kills>>

\* _publish: an exception of the handler is logged, and the message is gone.
Publish(m) ==
    /\ pc = "publish" /\ m \in batch
    /\ \/ published' = [published EXCEPT ![m] = @ + 1] /\ UNCHANGED failed
       \/ failed' = failed \union {m} /\ UNCHANGED published
    /\ batch' = batch \ {m}
    /\ UNCHANGED <<site, file, state, pc, todo, type, since, late, kills>>

Published ==
    /\ pc = "publish" /\ batch = {}
    /\ pc' = "next"
    /\ UNCHANGED <<site, file, state, todo, type, batch, history, kills>>

Kill ==
    /\ pc # "down" /\ kills < MaxKills
    /\ kills' = kills + 1
    /\ pc' = "down" /\ todo' = {} /\ batch' = {}
    /\ UNCHANGED <<site, file, state, type, history>>

\* persistent_dict._load: a torn file is an empty dict.
Restart ==
    /\ pc = "down"
    /\ pc' = "asleep"
    /\ state' = IF torn THEN [t \in Types |-> Unset] ELSE disk
    /\ UNCHANGED <<site, file, todo, type, batch, history, kills>>

Execute ==
    \/ Begin \/ Finish \/ TruncateState \/ WriteState \/ Get \/ GetNone \/ GetFails \/ Published
    \/ \E t \in Types : NextType(t)
    \/ \E m \in Messages : Publish(m)

Next == Tick \/ (\E m \in Messages : Appear(m)) \/ Execute \/ Kill \/ Restart

Spec == Init /\ [][Next]_vars

\* The process runs, and the site answers some day for each type.
FairSpec ==
    /\ Spec /\ WF_vars(Execute) /\ WF_vars(Restart)
    /\ \A t \in Types : SF_vars(type = t /\ Get)

-----------------------------------------------------------------------------
\* No message is forwarded twice, whatever kills, torn state files and late
\* messages there are: the cursor is on disk before the first of its messages
\* goes out, and a lost cursor restarts at the present.
NeverTwice == \A m \in Messages : published[m] <= 1

\* Messages in time for the cursor: those of a type that was asked about before,
\* newer than the first cursor, and not late.
Expected == {m \in visible \ late : since[TypeOf[m]] # Unset /\ since[TypeOf[m]] < Stamp[m]}

Handed(m) == published[m] > 0 \/ m \in failed

\* Every expected message is at last handed to the handler, or the process was
\* killed.
EveryMessageForwarded ==
    \A m \in Messages : (m \in Expected) ~> (Handed(m) \/ kills > 0)
=============================================================================
