------------------------------ MODULE Delivery ------------------------------
(***************************************************************************)
(* What a pusher promises of the files it takes in: each one is kept until *)
(* it has been delivered (possibly more than once) or deliberately         *)
(* discarded for its age.  This is the wording of _send_archives,          *)
(* "removing what's been successfully sent", as a ledger over the files.   *)
(***************************************************************************)
CONSTANT Files

VARIABLES accepted, held, delivered, discarded

vars == <<accepted, held, delivered, discarded>>

Init == accepted = {} /\ held = {} /\ delivered = {} /\ discarded = {}

Accept(f) ==
    /\ f \notin accepted
    /\ accepted' = accepted \union {f} /\ held' = held \union {f}
    /\ UNCHANGED <<delivered, discarded>>

Deliver(S) ==
    /\ delivered' = delivered \union S
    /\ UNCHANGED <<accepted, held, discarded>>

Release(S) ==
    /\ S \subseteq delivered
    /\ held' = held \ S
    /\ UNCHANGED <<accepted, delivered, discarded>>

Discard(S) ==
    /\ discarded' = discarded \union S /\ held' = held \ S
    /\ UNCHANGED <<accepted, delivered>>

Next == \/ \E f \in Files : Accept(f)
        \/ \E S \in SUBSET held : Deliver(S) \/ Release(S) \/ Discard(S)

Spec == Init /\ [][Next]_vars
=============================================================================
