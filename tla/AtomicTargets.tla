--------------------------- MODULE AtomicTargets ----------------------------
(***************************************************************************)
(* What the raster exporter promises of its targets: "written beside the   *)
(* target then atomically renamed" (include/welllog/export/raster.hpp).    *)
(* A reader that opens a target at any moment finds no file, the file of   *)
(* before or the whole file of one writer; a writer's file appears at most *)
(* once, in a single step, and nothing but another file replaces it.       *)
(* Nothing is promised of a target any more once it is given up.           *)
(***************************************************************************)
CONSTANTS Targets, Writers, Pieces,
          Old,      \* the writer of what was there before
          None

VARIABLES target,   \* what a reader finds at each target not given up
          waiting   \* the writers whose file has not appeared

FileOf(w) == [piece \in Pieces |-> w]

vars == <<target, waiting>>

Init ==
    /\ target \in [Targets -> {None, FileOf(Old)}]
    /\ waiting = Writers

Replace(t, w) ==
    /\ w \in waiting
    /\ target' = [target EXCEPT ![t] = FileOf(w)]
    /\ waiting' = waiting \ {w}

GiveUp(t) ==
    /\ target' = [u \in DOMAIN target \ {t} |-> target[u]]
    /\ UNCHANGED waiting

\* A writer's file appears at a target that is given up.
ReplaceGivenUp(t, w) ==
    /\ t \notin DOMAIN target /\ w \in waiting
    /\ waiting' = waiting \ {w}
    /\ UNCHANGED target

Next ==
    \/ \E t \in DOMAIN target, w \in Writers : Replace(t, w)
    \/ \E t \in DOMAIN target : GiveUp(t)
    \/ \E t \in Targets, w \in Writers : ReplaceGivenUp(t, w)

Spec == Init /\ [][Next]_vars
=============================================================================
