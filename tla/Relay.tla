------------------------------- MODULE Relay -------------------------------
(***************************************************************************)
(* What a watcher of a log promises of each item written there: it is met  *)
(* at most once, and then held until the site has it or has refused it.    *)
(* All that is held goes at once, and again if the answer was lost; an     *)
(* item that was let go is never held again.  What is written may be       *)
(* missed before it is met, and the end of the process loses the rest.     *)
(***************************************************************************)
CONSTANT Items

VARIABLES
    running,     \* the process runs
    written,
    coming,      \* items that will be met unless they are missed before
    held, delivered, refused

vars == <<running, written, coming, held, delivered, refused>>

Init ==
    /\ running = TRUE
    /\ written = {} /\ coming = {} /\ held = {} /\ delivered = {} /\ refused = {}

\* What is written while the process does not run, or where it will not look, is
\* not coming.
Write(x) ==
    /\ x \notin written
    /\ written' = written \union {x}
    /\ coming' = coming \/ (running /\ coming' = coming \union {x})
    /\ UNCHANGED <<running, held, delivered, refused>>

Miss(S) == coming' = coming \ S /\ UNCHANGED <<running, written, held, delivered, refused>>

Meet(S) ==
    /\ coming' = coming \ S /\ held' = held \union S
    /\ UNCHANGED <<running, written, delivered, refused>>

\* The site has everything that is held, and the watcher may not know it.
Deliver ==
    /\ delivered' = delivered \union held /\ held' \in {held, {}}
    /\ UNCHANGED <<running, written, coming, refused>>

Refuse ==
    /\ refused' = refused \union held /\ held' = {}
    /\ UNCHANGED <<running, written, coming, delivered>>

Crash ==
    /\ running' = FALSE /\ coming' = {} /\ held' = {}
    /\ UNCHANGED <<written, delivered, refused>>

Resume == running' = TRUE /\ UNCHANGED <<written, coming, held, delivered, refused>>

Next ==
    \/ \E x \in Items : Write(x)
    \/ \E S \in SUBSET coming : Miss(S) \/ Meet(S)
    \/ Deliver \/ Refuse \/ Crash \/ Resume

Spec == Init /\ [][Next]_vars
=============================================================================
