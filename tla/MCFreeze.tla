------------------------------- MODULE MCFreeze -------------------------------
(* Four probes in chunks of two, over three inputs: the last two are the same.  *)
EXTENDS Freeze

MCInputOf == <<"a", "b", "c", "c">>

\* Six probes, so that one chunk is more than the discards a corpus may have, and the
\* other two still hold enough to grade and to time.
MCInputOfLong == <<"a", "b", "c", "a", "b", "c">>

=============================================================================
