------------------------------- MODULE Build -------------------------------
(***************************************************************************)
(* What a build of a project promises, whatever its steps: started on a   *)
(* set of sources, it ends, either failing with no binary or with a       *)
(* binary built from exactly those sources.  Once it has ended, the user  *)
(* may start it again on an edited set of sources.                        *)
(***************************************************************************)
CONSTANT Files          \* every source a project may hold

VARIABLES
    sources,            \* the sources the build was started on
    status,             \* "building", "built" or "failed"
    binary              \* the sources whose code the binary holds

vars == <<sources, status, binary>>

Init ==
    /\ sources \in SUBSET Files
    /\ status = "building"
    /\ binary = {}

Succeed ==
    /\ status = "building"
    /\ status' = "built"
    /\ binary' = sources
    /\ UNCHANGED sources

Fail ==
    /\ status = "building"
    /\ status' = "failed"
    /\ UNCHANGED <<sources, binary>>

Rebuild ==
    /\ status # "building"
    /\ sources' \in SUBSET Files
    /\ status' = "building"
    /\ binary' = {}

Next == Succeed \/ Fail \/ Rebuild

(* A build is never left running; starting another is the user's choice. *)
Spec == Init /\ [][Next]_vars /\ WF_vars(Succeed \/ Fail)

=============================================================================
