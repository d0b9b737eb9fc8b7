------------------------- MODULE KubernetesWatcher -------------------------
(***************************************************************************)
(* The KubernetesWatcher of kubernetes_watcher.py, one in every pod of a   *)
(* daemon set: each asks the API server once an hour for the pods that     *)
(* carry the label, and the one that finds itself first uploads the list   *)
(* of all pods.                                                            *)
(*                                                                         *)
(* Pods are numbers in the order of their names.  They are listed before   *)
(* their watcher runs and after it has ended.  An hour ends when every     *)
(* running watcher has polled once; the watchers share nothing but the     *)
(* list.                                                                   *)
(***************************************************************************)
EXTENDS Integers, FiniteSets, FiniteSetsExt

CONSTANTS
    Pods,
    Access,      \* pods that have the parameters to reach the API server
    MaxChanges   \* bound on changes of the list, starts and ends of watchers

ASSUME PodsAssumption ==
    Pods \subseteq Int /\ IsFiniteSet(Pods) /\ Access \subseteq Pods /\ MaxChanges \in Nat

VARIABLES
    listed,     \* the pods the API server lists
    pc,         \* where execute() of each pod's watcher stands
    polled,     \* watchers that have polled in this hour
    winners,    \* history: watchers that won an election in this hour
    recent,     \* history: pods added to or taken from the list in this hour
    told,       \* history: watchers whose upload was signalled in this hour
    changes

cluster == <<listed, recent, changes>>
hour == <<polled, winners, told>>
vars == <<cluster, pc, hour>>

Running == {p \in Pods : pc[p] # "down"}

TypeOK ==
    /\ listed \subseteq Pods /\ Running \subseteq listed
    /\ pc \in [Pods -> {"down", "asleep", "elect", "get", "send", "signal"}]
    /\ polled \subseteq Pods /\ winners \subseteq Pods /\ told \subseteq Pods
    /\ recent \in 0 .. changes /\ changes \in 0 .. MaxChanges

Init ==
    /\ listed \in SUBSET Pods /\ pc = [p \in Pods |-> "down"]
    /\ polled = {} /\ winners = {} /\ told = {} /\ recent = 0 /\ changes = 0

Goto(p, s) == pc' = [pc EXCEPT ![p] = s]

-----------------------------------------------------------------------------
(* Pods and watchers come and go.                                          *)

ListChanges ==
    /\ changes < MaxChanges
    /\ changes' = changes + 1 /\ recent' = recent + 1
    /\ \E p \in Pods : \/ p \notin listed /\ listed' = listed \union {p}
                       \/ p \in listed \ Running /\ listed' = listed \ {p}
    /\ UNCHANGED <<pc, hour>>

Start(p) ==
    /\ p \in listed /\ pc[p] = "down"
    /\ Goto(p, "asleep") /\ polled' = polled \ {p}
    /\ UNCHANGED <<cluster, winners, told>>

Die(p) ==
    /\ pc[p] # "down" /\ changes < MaxChanges
    /\ changes' = changes + 1
    /\ Goto(p, "down")
    /\ UNCHANGED <<listed, recent, hour>>

\* Everyone polls once an hour; a poll takes less than one.
NextHour ==
    /\ Running \subseteq polled /\ \A p \in Running : pc[p] = "asleep"
    /\ polled' = {} /\ winners' = {} /\ told' = {} /\ recent' = 0
    /\ UNCHANGED <<listed, pc, changes>>

-----------------------------------------------------------------------------
(* execute().                                                              *)

Poll(p) ==
    /\ pc[p] = "asleep" /\ p \notin polled
    /\ polled' = polled \union {p}
    /\ IF p \in Access THEN Goto(p, "elect") ELSE UNCHANGED pc
    /\ UNCHANGED <<cluster, winners, told>>

\* Mutants: one of the first two; and anyone but the first.
AmongFirst(p, S) == Cardinality({q \in S : q < p}) < 2 /\ p \in S
BehindFirst(p, S) == S # {} /\ p > Min(S)

\* all_pods[0] == this_pod_name
First(p, S) == S # {} /\ Min(S) = p

\* _should_update
Elect(p) ==
    /\ pc[p] = "elect"
    /\ IF First(p, listed)
       THEN Goto(p, "get") /\ winners' = winners \union {p}
       ELSE Goto(p, "asleep") /\ UNCHANGED winners
    /\ UNCHANGED <<cluster, polled, told>>

\* _send_update: the list of all pods is streamed into a temporary file.
Get(p) ==
    /\ pc[p] = "get"
    /\ Goto(p, "send")
    /\ UNCHANGED <<cluster, hour>>

SendFile(p) ==
    /\ pc[p] = "send"
    /\ Goto(p, "signal")
    /\ UNCHANGED <<cluster, hour>>

SendSignal(p) ==
    /\ pc[p] = "signal"
    /\ Goto(p, "asleep") /\ told' = told \union {p}
    /\ UNCHANGED <<cluster, polled, winners>>

\* Any exception is logged, and so is a file that is too large: the watcher
\* waits for the next hour.
Fails(p) ==
    /\ pc[p] \in {"elect", "get", "send", "signal"}
    /\ Goto(p, "asleep")
    /\ UNCHANGED <<cluster, hour>>

Execute(p) == Poll(p) \/ Elect(p) \/ Get(p) \/ SendFile(p) \/ SendSignal(p) \/ Fails(p)

Next ==
    \/ ListChanges \/ NextHour
    \/ \E p \in Pods : Start(p) \/ Die(p) \/ Execute(p)

Spec == Init /\ [][Next]_vars

\* Hours pass, running watchers are scheduled, and neither the API server nor
\* the site fails for ever.
FairSpec ==
    /\ Spec /\ WF_vars(NextHour)
    /\ \A p \in Pods : WF_vars(Execute(p))
    /\ \A p \in Access : /\ SF_vars(Elect(p)) /\ SF_vars(Get(p))
                         /\ SF_vars(SendFile(p)) /\ SF_vars(SendSignal(p))

-----------------------------------------------------------------------------
\* "If we are the first one, we win the election": every hour has at most one
\* winner, and one more for every change of the list in that hour, although each
\* watcher reads the list at a time of its own.
OneWinner == Cardinality(winners) <= 1 + recent

\* When the list settles and the watcher of its first pod runs and can reach the
\* API server, updates are sent again and again; whoever is first but does not
\* run silences all others.
UpdatesContinue ==
    \A p \in Access :
        <>[](p \in listed /\ (\A q \in listed : p <= q) /\ pc[p] # "down") => []<>(told # {})
=============================================================================
