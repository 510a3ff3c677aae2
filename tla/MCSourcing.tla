----------------------------- MODULE MCSourcing -----------------------------
(* Two pages, with one row that comes up on both, one that is malformed and  *)
(* one that nobody wants: two jobs on an index that ends, without a deadline, *)
(* and one on an index that does not, with a deadline.                       *)
EXTENDS Sourcing

MCPages == << <<"c", "a">>, <<"x", "b", "a">> >>

Setting(jobs, endless, timed) == [jobs |-> jobs, endless |-> endless, timed |-> timed]
MCSettings == {Setting(Jobs, FALSE, FALSE)} \union {Setting({j}, TRUE, TRUE) : j \in Jobs}
MCEnds == {Setting(Jobs, FALSE, FALSE)}
MCEndless == {Setting(Jobs, TRUE, FALSE)}

\* Without a row that comes up again.
MCApart == << <<"c", "a">>, <<"b">> >>

=============================================================================
