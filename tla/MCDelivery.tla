----------------------------- MODULE MCDelivery -----------------------------
(* Two exporters of one destination, over tasks that go right and wrong. *)
EXTENDS Delivery, TLC

Good == [builds |-> TRUE, separate |-> FALSE, complete |-> TRUE, answers |-> "full"]

MCSubjects == {Good, [Good EXCEPT !.separate = TRUE], [Good EXCEPT !.builds = FALSE],
               [Good EXCEPT !.complete = FALSE], [Good EXCEPT !.answers = "part"]}

Exporters == Permutations(Exporter)

=============================================================================
