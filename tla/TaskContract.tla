---------------------------- MODULE TaskContract ----------------------------
(***************************************************************************)
(* What the factory promises about one candidate, whatever its scale or    *)
(* seam: it ends refused or shipped, it ships only after every required    *)
(* check was established, and once they are established none is withdrawn. *)
(* A proven candidate may still be lost to a crash of the factory's own    *)
(* code, but it cannot fall back to being merely open.                     *)
(***************************************************************************)

VARIABLES status,     \* "open", "proven", "shipped" or "refused"
          evidence    \* is every required check established?

vars == <<status, evidence>>

TypeOK ==
    /\ status \in {"open", "proven", "shipped", "refused"}
    /\ evidence \in BOOLEAN

Init ==
    /\ status = "open"
    /\ evidence = FALSE

\* Checks are recorded while the candidate is under way.
Examine ==
    /\ status = "open"
    /\ evidence' \in BOOLEAN
    /\ UNCHANGED status

\* The last gate passes.
Prove ==
    /\ status = "open"
    /\ status' = "proven"
    /\ evidence' = TRUE

Ship ==
    /\ status = "proven"
    /\ status' = "shipped"
    /\ UNCHANGED evidence

\* A refusal may record a last verdict: the one it refuses on.
Refuse ==
    /\ status = "open"
    /\ status' = "refused"
    /\ evidence' \in BOOLEAN

\* The factory fails on its own, with the evidence complete.
Lose ==
    /\ status = "proven"
    /\ status' = "refused"
    /\ UNCHANGED evidence

Next == Examine \/ Prove \/ Ship \/ Refuse \/ Lose

Spec == Init /\ [][Next]_vars

=============================================================================
