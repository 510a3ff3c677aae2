----------------------------- MODULE MCPipeline -----------------------------
(* The pipeline with the checks of the call seam's battery that behave      *)
(* differently from one another, one late check, and one rewrite.           *)
EXTENDS Pipeline

MCChecks == {"ceiling", "channels-bite", "cannot-delegate"}
MCLate == {"harbor-schema-valid"}

=============================================================================
