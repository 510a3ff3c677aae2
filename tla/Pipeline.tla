------------------------------ MODULE Pipeline ------------------------------
(***************************************************************************)
(* One candidate's way through core/pipeline.py: SPECIFY, BUILD, PROBES,   *)
(* FREEZE, ADEQUACY, TIMING, EVIDENCE, EMIT, REPLAY, IN-IMAGE, ATTEST.     *)
(*                                                                         *)
(* Every stage either passes, raises an exception that its own except      *)
(* clauses classify, or refuses on what it measured.  A refusal carries a  *)
(* fault: "material" (this candidate is unsuitable) or "factory" (we       *)
(* broke).  The verdicts of the checks accumulate in a battery, some of    *)
(* them only after the task has been written to disk, where another job    *)
(* that emits a task of the same name writes too.                          *)
(***************************************************************************)
EXTENDS Integers, Sequences

CONSTANTS Checks,      \* recorded by hooks.battery, before anything is written
          Late,        \* recorded by hooks.emit, which reads what it wrote
          Delegate,    \* "cannot-delegate-to-the-reference"
          Bite,        \* "channels-bite"
          MaxRewrites  \* bound: rewrites of the task directory by another job

Replayed == "package-reproduces-itself"
InImage  == "reproduces-in-its-own-image"

AllChecks == Checks \union Late \union {Replayed, InImage}

ASSUME ChecksAssumption ==
    /\ {Delegate, Bite} \subseteq Checks
    /\ Delegate # Bite
    /\ Checks \intersect Late = {}
    /\ {Replayed, InImage} \intersect (Checks \union Late) = {}

ASSUME RewritesAssumption == MaxRewrites \in Nat

Outcomes == {"holds", "fails", "inconclusive", "not-applicable"}
Faults   == {"material", "factory"}

Stages == {"specify", "build", "probes", "freeze", "adequacy", "timing", "evidence",
           "emit", "quality", "replay", "push", "driving", "execution", "settle",
           "image", "attest", "stamp", "return"}

(***************************************************************************)
(* Exceptions.  Each class is caught by the first clause that names it or  *)
(* one of its bases.  MarkedValueError is a ValueError whose text carries  *)
(* one of the _OUR_GENERATOR_BUGS marks.                                   *)
(***************************************************************************)
Classes == {"SandboxError", "ResourcePressure", "TimeoutError", "OSError",
            "RuntimeError", "ValueError", "MarkedValueError", "SubjectFailed",
            "SubjectUnreachable", "ModelError", "TransportError", "NameError"}

Bases(class) ==
    {class} \union
    (IF class \in {"SandboxError", "ResourcePressure", "ModelError",
                   "TransportError", "SubjectFailed", "SubjectUnreachable"}
     THEN {"RuntimeError"} ELSE {}) \union
    (IF class = "TimeoutError" THEN {"OSError"} ELSE {}) \union
    (IF class = "SubjectUnreachable" THEN {"SubjectFailed"} ELSE {}) \union
    (IF class = "MarkedValueError" THEN {"ValueError"} ELSE {})

Clause(classes, fault) == [classes |-> classes, fault |-> fault]

\* Mutant of FreezeClauses: the base class first.
FreezeClausesBaseFirst ==
    << Clause({"RuntimeError"}, "material"),
       Clause({"SandboxError", "ResourcePressure", "OSError"}, "factory") >>

\* Around freeze: SandboxError and ResourcePressure are RuntimeErrors, so they come first.
FreezeClauses ==
    << Clause({"SandboxError", "ResourcePressure", "OSError"}, "factory"),
       Clause({"RuntimeError"}, "material") >>

\* The except clauses around one stage, in the order they are written.
Handlers(stage) ==
    CASE stage = "specify" ->
           << Clause({"ModelError", "TransportError"}, "factory"),
              Clause(Classes, "material") >>
      [] stage = "build" ->
           << Clause({"SandboxError", "ResourcePressure", "TimeoutError"}, "factory"),
              Clause({"RuntimeError", "OSError"}, "material") >>
      [] stage = "probes" ->
           << Clause({"SandboxError", "ResourcePressure", "OSError"}, "factory"),
              Clause({"MarkedValueError"}, "factory"),
              Clause({"ValueError"}, "material"),
              Clause({"RuntimeError"}, "material") >>
      [] stage = "freeze" -> FreezeClauses
      [] stage \in {"push", "driving"} ->
           << Clause({"OSError"}, "factory"), Clause({"RuntimeError"}, "factory") >>
      [] stage = "image" ->
           << Clause({"OSError"}, "factory") >>
      [] OTHER -> << >>

\* What build_one makes of an exception no stage caught: it compares the type's name.
Unclassified(class) == IF class = "SubjectFailed" THEN "material" ELSE "factory"

FaultOf(stage, class) ==
    LET clauses == Handlers(stage)
        catching == {i \in DOMAIN clauses :
                        clauses[i].classes \intersect Bases(class) # {}}
    IN  IF catching = {} THEN Unclassified(class)
        ELSE clauses[CHOOSE i \in catching : \A j \in catching : i <= j].fault

(***************************************************************************)
(* What the scales and the seams let out of each stage, and why.  "wire"   *)
(* is a sandbox, a gateway or a network that failed: nothing was learned   *)
(* about the candidate.                                                    *)
(***************************************************************************)
Surfaces(stage) ==
    CASE stage = "specify" ->
           {<<"wire", "ModelError">>, <<"wire", "TransportError">>,
            <<"wire", "ValueError">>, <<"wire", "NameError">>, <<"material", "ValueError">>}
      [] stage = "build" ->
           {<<"wire", "SandboxError">>, <<"wire", "ResourcePressure">>,
            <<"wire", "TimeoutError">>, <<"material", "RuntimeError">>, <<"material", "OSError">>}
      [] stage = "probes" ->
           {<<"wire", "SandboxError">>, <<"wire", "ResourcePressure">>, <<"wire", "TimeoutError">>,
            <<"wire", "ValueError">>, <<"wire", "MarkedValueError">>,
            <<"material", "ValueError">>, <<"material", "RuntimeError">>}
      [] stage = "freeze" ->
           {<<"wire", "SandboxError">>, <<"wire", "ResourcePressure">>,
            <<"wire", "TimeoutError">>, <<"material", "RuntimeError">>}
      [] stage \in {"adequacy", "evidence"} ->
           {<<"wire", "SandboxError">>, <<"wire", "SubjectUnreachable">>,
            <<"wire", "SubjectFailed">>, <<"material", "SubjectFailed">>}
      [] stage = "emit" -> {<<"ours", "OSError">>, <<"ours", "ValueError">>}
      [] stage \in {"push", "driving"} ->
           {<<"wire", "TimeoutError">>, <<"wire", "SandboxError">>, <<"material", "RuntimeError">>}
      [] stage = "image" -> {<<"wire", "TimeoutError">>, <<"wire", "ResourcePressure">>}
      [] stage = "stamp" -> {<<"ours", "ValueError">>}
      [] OTHER -> {}

-----------------------------------------------------------------------------

VARIABLES pc,         \* the stage being run
          hooks,      \* which optional gates the caller installed
          battery,    \* check -> outcome, or "unrecorded"
          raised,     \* <<cause, class>> of the exception that ended the run, or None
          outcome,    \* Pending, a refusal, Emitted or Interrupted
          tree,       \* the task directory: a version of its verifier and of the rest
          driven,     \* the tree as the replay digested it before it pushed anything
          pushed,     \* the tree as its bytes left for the sandbox that verifies them
          attested    \* "none", "sidecar" (written beside the task) or "stamped"

vars == <<pc, hooks, battery, raised, outcome, tree, driven, pushed, attested>>

None == <<"none", "none">>
Absent == [verifier |-> 0, rest |-> 0]

Pending     == [kind |-> "pending", stage |-> "none", fault |-> "none"]
Emitted     == [kind |-> "emitted", stage |-> "none", fault |-> "none"]
Interrupted == [kind |-> "interrupted", stage |-> "none", fault |-> "none"]
Refused(stage, fault) == [kind |-> "refused", stage |-> stage, fault |-> fault]

\* "remote" shares one delivered-image replay between two gates, "drive" runs its own.
Hooks == [execution : BOOLEAN, image : {"none", "drive", "remote"}]

Trees == [verifier : 0..(MaxRewrites + 1), rest : 0..(MaxRewrites + 1)]

Init ==
    /\ pc = "specify"
    /\ hooks \in Hooks
    /\ hooks.image = "remote" => hooks.execution
    /\ battery = [c \in AllChecks |-> "unrecorded"]
    /\ raised = None
    /\ outcome = Pending
    /\ tree = Absent
    /\ driven = Absent
    /\ pushed = Absent
    /\ attested = "none"

-----------------------------------------------------------------------------
(* Ways for a stage to end. *)

At(stage) == pc = stage /\ outcome = Pending

Pass(stage) == pc' = stage /\ UNCHANGED <<outcome, raised>>

Refuse(fault) == outcome' = Refused(pc, fault) /\ UNCHANGED <<pc, raised>>

\* Pass to the next stage, unless the measurement earns a fault.
Gate(fault, next) == IF fault = "none" THEN Pass(next) ELSE Refuse(fault)

Record(check, value) == battery' = [battery EXCEPT ![check] = value]

Ok(value) == value \in {"holds", "not-applicable"}

\* The stage raises; its own clauses, or build_one's, decide whose fault it was.
Raise ==
    /\ outcome = Pending
    /\ \E surface \in Surfaces(pc) :
          /\ raised' = surface
          /\ outcome' = Refused(pc, FaultOf(pc, surface[2]))
    /\ UNCHANGED <<pc, hooks, battery, tree, driven, pushed, attested>>

\* KeyboardInterrupt is the one exception build_one lets through.
Interrupt ==
    /\ outcome = Pending
    /\ outcome' = Interrupted
    /\ UNCHANGED <<pc, hooks, battery, raised, tree, driven, pushed, attested>>

-----------------------------------------------------------------------------
(* The stages that only measure. *)

\* A spec as _specify reads it: is it a Spec at all, its form, its target, its invocation.
SpecFault(isSpec, form, target, invoke) ==
    IF ~isSpec THEN "factory"
    ELSE IF form = "cross" /\ target # "other" THEN "material"
    ELSE IF form = "inplace" /\ target = "other" THEN "factory"
    ELSE IF ~invoke THEN "material" ELSE "none"

Specify ==
    /\ At("specify")
    /\ \E isSpec \in BOOLEAN, form \in {"cross", "inplace"},
          target \in {"unnamed", "same", "other"}, invoke \in BOOLEAN :
          Gate(SpecFault(isSpec, form, target, invoke), "build")
    /\ UNCHANGED <<hooks, battery, tree, driven, pushed, attested>>

Build ==
    /\ At("build")
    /\ Pass("probes")
    /\ UNCHANGED <<hooks, battery, tree, driven, pushed, attested>>

Probes ==
    /\ At("probes")
    /\ Pass("freeze")
    /\ UNCHANGED <<hooks, battery, tree, driven, pushed, attested>>

\* unusable_is_ours says the subject was never reached; thin and alike are read only when usable.
CorpusFault(report) ==
    IF report.unusable
    THEN IF report.ours THEN "factory" ELSE "material"
    ELSE IF report.thin \/ (report.alike /\ report.enforced) THEN "material" ELSE "none"

Freeze ==
    /\ At("freeze")
    /\ \E report \in [unusable : BOOLEAN, ours : BOOLEAN, thin : BOOLEAN,
                      alike : BOOLEAN, enforced : BOOLEAN] :
          Gate(CorpusFault(report), "adequacy")
    /\ UNCHANGED <<hooks, battery, tree, driven, pushed, attested>>

Adequacy ==
    /\ At("adequacy")
    /\ \E usable \in BOOLEAN : Gate(IF usable THEN "none" ELSE "material", "timing")
    /\ UNCHANGED <<hooks, battery, tree, driven, pushed, attested>>

Timing ==
    /\ At("timing")
    /\ \E measurable \in BOOLEAN : Gate(IF measurable THEN "none" ELSE "material", "evidence")
    /\ UNCHANGED <<hooks, battery, tree, driven, pushed, attested>>

-----------------------------------------------------------------------------
(* EVIDENCE, and the task written from it. *)

\* Mutant of Deferred: it waits whether or not there is anything to wait for.
DeferredRegardless(verdicts) ==
    {c \in Checks : c = Delegate /\ verdicts[c] = "inconclusive"}

\* An undecided delegation check may wait for the emitted evaluator, if there is one to wait for.
Deferred(verdicts) ==
    {c \in Checks : c = Delegate /\ verdicts[c] = "inconclusive" /\ hooks.execution}

Failures(verdicts) == {c \in Checks : ~Ok(verdicts[c])} \ Deferred(verdicts)

\* Undecided is our failing, except where undecided says the corpus cannot be perturbed.
EvidenceFault(verdicts) ==
    LET ours == {c \in Failures(verdicts) : verdicts[c] = "inconclusive" /\ c # Bite}
    IN  IF Failures(verdicts) = {} THEN "none"
        ELSE IF ours = Failures(verdicts) THEN "factory" ELSE "material"

Evidence ==
    /\ At("evidence")
    /\ \E verdicts \in [Checks -> Outcomes] :
          /\ battery' = [c \in AllChecks |-> IF c \in Checks THEN verdicts[c] ELSE battery[c]]
          /\ Gate(EvidenceFault(verdicts), "emit")
    /\ UNCHANGED <<hooks, tree, driven, pushed, attested>>

\* hooks.emit writes the directory and records the checks that read what was written.
Emit ==
    /\ At("emit")
    /\ tree' = [verifier |-> 1, rest |-> 1]
    /\ \E verdicts \in [Late -> Outcomes] :
          /\ battery' = [c \in AllChecks |-> IF c \in Late THEN verdicts[c] ELSE battery[c]]
          /\ Gate(IF \A c \in Late : Ok(verdicts[c]) THEN "none" ELSE "factory", "quality")
    /\ UNCHANGED <<hooks, driven, pushed, attested>>

Quality ==
    /\ At("quality")
    /\ \E clean \in BOOLEAN : Gate(IF clean THEN "none" ELSE "factory", "replay")
    /\ UNCHANGED <<hooks, battery, tree, driven, pushed, attested>>

\* Another job emits a task of the same name into the same destination: the
\* version it writes is none that was there before.  The rest holds task.toml,
\* which it writes without a stamp.
Rewrite ==
    /\ tree # Absent
    /\ \/ /\ tree.verifier <= MaxRewrites
          /\ tree' = [tree EXCEPT !.verifier = @ + 1]
          /\ UNCHANGED attested
       \/ /\ tree.rest <= MaxRewrites
          /\ tree' = [tree EXCEPT !.rest = @ + 1]
          /\ attested' = IF attested = "stamped" THEN "sidecar" ELSE attested
    /\ outcome = Pending
    /\ UNCHANGED <<pc, hooks, battery, raised, outcome, driven, pushed>>

-----------------------------------------------------------------------------
(* What is established on the written task. *)

\* ImageReplay takes the digest of what it is about to drive.
Replay ==
    /\ At("replay")
    /\ driven' = tree
    /\ Pass("push")
    /\ UNCHANGED <<hooks, battery, tree, pushed, attested>>

\* The bytes leave: what runs, and whose digest the report names, is the tree of this moment.
Push ==
    /\ At("push")
    /\ pushed' = tree
    /\ Pass("driving")
    /\ UNCHANGED <<hooks, battery, tree, driven, attested>>

\* ImageReplay digests the directory a second time; the other replays do not look again.
ReplayIsBound == hooks.image = "remote" => tree = driven

\* Mutant of Driven: the one digest there is, is taken when the verdict is back.
DrivenDigestsAfter ==
    /\ At("driving")
    /\ driven' = tree
    /\ \E verdict \in {"holds", "fails", "inconclusive"} :
          /\ Record(Replayed, verdict)
          /\ Gate(IF Ok(verdict) THEN "none" ELSE "factory",
                  IF hooks.execution THEN "execution" ELSE "settle")
    /\ UNCHANGED <<hooks, tree, pushed, attested>>

\* The verdict is drawn from the (passed, total) the verifier reported.
Driven ==
    /\ At("driving")
    /\ \/ /\ ReplayIsBound
          /\ \E verdict \in {"holds", "fails", "inconclusive"} :
                /\ Record(Replayed, verdict)
                /\ Gate(IF Ok(verdict) THEN "none" ELSE "factory",
                        IF hooks.execution THEN "execution" ELSE "settle")
       \/ /\ ~ReplayIsBound
          /\ Refuse("factory")
          /\ UNCHANGED battery
    /\ UNCHANGED <<hooks, tree, driven, pushed, attested>>

\* HOLDS needs the report to name the verifier bytes on disk now, and isolation demonstrated.
ExecutionHolds(isolated) == tree.verifier = pushed.verifier /\ isolated

\* The execution verdict replaces the deferred one; nothing less than HOLDS goes on.
Execution ==
    /\ At("execution")
    /\ \E isolated \in BOOLEAN :
          IF ExecutionHolds(isolated)
          THEN Record(Delegate, "holds") /\ Pass("settle")
          ELSE UNCHANGED battery /\ Refuse("factory")
    /\ UNCHANGED <<hooks, tree, driven, pushed, attested>>

BatteryOk == \A c \in AllChecks : battery[c] = "unrecorded" \/ Ok(battery[c])

\* Mutant of Settle: the in-image gate is never asked.
SettleSkipsImage ==
    /\ At("settle")
    /\ Gate(IF BatteryOk THEN "none" ELSE "factory", "attest")
    /\ UNCHANGED <<hooks, battery, tree, driven, pushed, attested>>

Settle ==
    /\ At("settle")
    /\ Gate(IF BatteryOk THEN "none" ELSE "factory",
            IF hooks.image = "none" THEN "attest" ELSE "image")
    /\ UNCHANGED <<hooks, battery, tree, driven, pushed, attested>>

\* Mutant of ImageVerdicts: the stage in-image stopped at, taken for a verdict.
ImageVerdictsUntranslated ==
    IF hooks.image = "remote" /\ tree # driven
    THEN {"changed-artifact"} ELSE {"holds", "unavailable"}

\* image_check hands back the shared replay only for the very bytes it was drawn from.
ImageVerdicts ==
    IF hooks.image = "remote"
    THEN IF tree = driven THEN {"holds"} ELSE {"inconclusive"}
    ELSE {"holds", "fails", "inconclusive"}

\* Mutant of ImagePasses: only a failure stops the task.
ImagePassesUnlessFails(verdict) == verdict # "fails"

\* Only HOLDS passes: an image nobody could ask about is not a shipped image.
ImagePasses(verdict) == verdict = "holds"

Image ==
    /\ At("image")
    /\ \E verdict \in ImageVerdicts :
          /\ Record(InImage, verdict)
          /\ Gate(IF ImagePasses(verdict) THEN "none" ELSE "factory", "attest")
    /\ UNCHANGED <<hooks, tree, driven, pushed, attested>>

\* Mutant of Attest: the task file is stamped before the sidecar is written.
AttestStampsFirst ==
    /\ At("attest")
    /\ attested' = "stamped"
    /\ Pass("stamp")
    /\ UNCHANGED <<hooks, battery, tree, driven, pushed>>

\* Bytecode is purged and the sidecar written; an OSError is logged and the task ships unattested.
Attest ==
    /\ At("attest")
    /\ \/ attested' = "sidecar" /\ Pass("stamp")
       \/ Pass("return") /\ UNCHANGED attested
    /\ UNCHANGED <<hooks, battery, tree, driven, pushed>>

\* The summary goes into task.toml, or the write fails and the task ships with its sidecar alone.
Stamp ==
    /\ At("stamp")
    /\ attested' \in {"stamped", "sidecar"}
    /\ Pass("return")
    /\ UNCHANGED <<hooks, battery, tree, driven, pushed>>

\* The path is logged and the result handed back: only now has the candidate been emitted.
Return ==
    /\ At("return")
    /\ outcome' = Emitted
    /\ UNCHANGED <<pc, hooks, battery, raised, tree, driven, pushed, attested>>

Next ==
    \/ Specify \/ Build \/ Probes \/ Freeze \/ Adequacy \/ Timing
    \/ Evidence \/ Emit \/ Quality \/ Replay \/ Push \/ Driven \/ Execution
    \/ Settle \/ Image \/ Attest \/ Stamp \/ Return
    \/ Raise \/ Interrupt \/ Rewrite

Spec == Init /\ [][Next]_vars

-----------------------------------------------------------------------------
(* Properties. *)

\* Every variable stays within its type.
TypeOK ==
    /\ pc \in Stages
    /\ hooks \in Hooks
    /\ battery \in [AllChecks -> Outcomes \union {"unrecorded"}]
    /\ raised \in {None} \union ({"wire", "material", "ours"} \X Classes)
    /\ outcome \in {Pending, Emitted, Interrupted}
                    \union {Refused(s, f) : s \in Stages, f \in Faults}
    /\ tree \in Trees
    /\ driven \in Trees
    /\ pushed \in Trees
    /\ attested \in {"none", "sidecar", "stamped"}

\* The checks a run with these hooks has to establish before it may ship.
Required == Checks \union Late \union {Replayed}
            \union (IF hooks.image = "none" THEN {} ELSE {InImage})

Established == \A c \in Required : Ok(battery[c])

\* A task is reported as emitted only when every check its hooks call for is
\* established, the ones deferred past the write included: the battery gate,
\* the late verdicts, the deferral and the in-image gate between them leave no
\* path on which an undecided or failed check ships.
EmittedIsEstablished == outcome = Emitted => Established

AfterImage     == {"attest", "stamp", "return"}
AfterExecution == {"settle", "image"} \union AfterImage
AfterReplay    == {"execution"} \union AfterExecution
AfterEmit      == {"quality", "replay", "push", "driving"} \union AfterReplay
AfterEvidence  == {"emit"} \union AfterEmit

\* What a stage has established stays established in every later one: the seam's
\* checks but for a delegation that has an evaluator to wait for and only until
\* that has run, then the late checks, the replay, and the image.
EvidenceIsKept ==
    outcome \in {Pending, Emitted} =>
        /\ pc \in AfterEvidence =>
              \A c \in Checks :
                  \/ Ok(battery[c])
                  \/ c = Delegate /\ hooks.execution /\ pc \notin AfterExecution
        /\ pc \in AfterEmit => \A c \in Late : Ok(battery[c])
        /\ pc \in AfterReplay => Ok(battery[Replayed])
        /\ pc \in AfterImage => hooks.image = "none" \/ Ok(battery[InImage])

\* The marks a task carries are earned: nothing is written beside it or into it
\* before everything its hooks call for is established, and the stamp, which
\* travels with a copy of it, is on no directory of a run that was refused, not
\* even of one the stamping itself ended.
MarksAreEarned ==
    /\ attested # "none" => Established
    /\ attested = "stamped" => outcome.kind # "refused"

\* The attestation is of an emitted task: a directory that carries the stamp is
\* one the run handed back, or is about to.
StampMeansEmitted == attested = "stamped" => outcome \in {Pending, Emitted}

\* After specification, an outage that arrives under its own name is never
\* charged to the candidate: no except clause for RuntimeError or OSError gets
\* to a SandboxError, a ResourcePressure or a TimeoutError first.
NamedOutageIsOurs ==
    /\ outcome.kind = "refused" /\ outcome.stage # "specify"
    /\ raised # None
    /\ raised[2] \in {"SandboxError", "ResourcePressure", "TimeoutError", "SubjectUnreachable"}
    => outcome.fault = "factory"

\* A shared image replay is credited for nothing but what it ran.  The digest is
\* taken before the bytes leave and compared after the verdict came back and at
\* the gate, and a rewrite may fall between any two of these: where the gate goes
\* on, the directory is the one whose bytes were verified.
ReplayEvidenceIsForTheseBytes ==
    [][pc = "image" /\ pc' = "attest" /\ hooks.image = "remote" => tree = pushed]_vars

\* The image gate asks its question "of the image the task ships": the directory
\* handed back is the one that was verified.
WhatShipsWasDriven == outcome = Emitted /\ hooks.image = "remote" => tree = pushed

\* The wire is not the material: an outage anywhere in the run is not charged to
\* the candidate.
WireIsNotTheMaterial ==
    outcome.kind = "refused" /\ raised[1] = "wire" => outcome.fault = "factory"

-----------------------------------------------------------------------------
(* The pipeline implements the task contract. *)

Status ==
    CASE outcome = Emitted           -> "shipped"
      [] outcome.kind = "refused"    -> "refused"
      [] pc \in AfterImage /\ outcome.kind \in {"pending", "interrupted"} -> "proven"
      [] OTHER                       -> "open"

Contract == INSTANCE TaskContract WITH status <- Status, evidence <- Established

\* Whatever the hooks, the run ends as the contract allows: proven before it is
\* shipped, and never open again once proven.
ImplementsContract == Contract!Spec

=============================================================================
