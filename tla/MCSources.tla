----------------------------- MODULE MCSources ------------------------------
(* Three parts, the second empty and the first longer than the ceiling,     *)
(* which falls on the end of a page, as GitHub's does; two rows of one time *)
(* lie across a page boundary.                                              *)
EXTENDS Sources

MCParts == <<7, 0, 1>>
MCStamps == <<1, 2, 3, 3, 4, 5, 6, 6>>
MCYields == [r \in Row |-> IF r[1] = 1 THEN 2 ELSE 1]

MCDefects == [r \in Row |->
    CASE r = <<1, 1>> -> {"scalar"} [] r \in {<<1, 2>>, <<1, 4>>} -> {"large"} [] r = <<3, 1>> -> {"thin"}
      [] OTHER -> {}]

=============================================================================
