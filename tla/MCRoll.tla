------------------------------- MODULE MCRoll -------------------------------
(* Two jobs of different scales over one account's slots. *)
EXTENDS Roll

MCJobs == {"module", "repo"}
MCSupply == [module |-> <<"m1", "m2", "m3", "m4">>, repo |-> <<"p1", "p2">>]
MCRepositoryOf == [m1 |-> "x", m2 |-> "x", m3 |-> "y", m4 |-> "x",
                   p1 |-> "x", p2 |-> "x"]
MCScaleOf == [module |-> "module", repo |-> "repo"]

=============================================================================
