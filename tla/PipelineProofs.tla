--------------------------- MODULE PipelineProofs ---------------------------
(***************************************************************************)
(* What TLAPS proves about one candidate's run, for every set of checks,   *)
(* every combination of optional gates and every bound on the rewrites of  *)
(* the task directory.                                                     *)
(***************************************************************************)
EXTENDS Pipeline, TLAPS

-----------------------------------------------------------------------------
(* Faults. *)

\* No stage has more than four clauses, and each charges one of the two faults.
LEMMA HandlersShape ==
    ASSUME NEW stage \in Stages
    PROVE  /\ DOMAIN Handlers(stage) \subseteq {1, 2, 3, 4}
           /\ \A i \in DOMAIN Handlers(stage) : Handlers(stage)[i].fault \in Faults
BY DEF Handlers, FreezeClauses, Clause, Faults, Stages

\* A fault is one of the clauses', or the one charged when none applies.
LEMMA SomeClauseDecides ==
    ASSUME NEW stage \in Stages, NEW class
    PROVE  \/ FaultOf(stage, class) = Unclassified(class)
           \/ \E i \in DOMAIN Handlers(stage) : FaultOf(stage, class) = Handlers(stage)[i].fault
<1> DEFINE clauses == Handlers(stage)
           catching == {i \in DOMAIN clauses : clauses[i].classes \intersect Bases(class) # {}}
<1>1. CASE catching = {}
  BY <1>1 DEF FaultOf
<1>2. CASE catching # {}
  <2>1. \E i \in catching : \A j \in catching : i <= j
    BY <1>2, HandlersShape
  <2>2. (CHOOSE i \in catching : \A j \in catching : i <= j) \in DOMAIN clauses
    BY <2>1
  <2> QED
    BY <2>2, <1>2 DEF FaultOf
<1> QED
  BY <1>1, <1>2

\* Whatever a stage lets out, one of the two faults is charged.
LEMMA FaultOfType ==
    ASSUME NEW stage \in Stages, NEW class
    PROVE  FaultOf(stage, class) \in Faults
BY SomeClauseDecides, HandlersShape DEF Unclassified, Faults

\* The first clause that applies decides.
LEMMA FirstClauseDecides ==
    ASSUME NEW stage, NEW class,
           1 \in DOMAIN Handlers(stage),
           DOMAIN Handlers(stage) \subseteq Nat \ {0},
           Handlers(stage)[1].classes \intersect Bases(class) # {}
    PROVE  FaultOf(stage, class) = Handlers(stage)[1].fault
<1> DEFINE clauses == Handlers(stage)
           catching == {i \in DOMAIN clauses : clauses[i].classes \intersect Bases(class) # {}}
<1>1. 1 \in catching /\ \A j \in catching : 1 <= j
  OBVIOUS
<1>2. \A i \in catching : (\A j \in catching : i <= j) => i = 1
  BY <1>1
<1>3. (CHOOSE i \in catching : \A j \in catching : i <= j) = 1
  BY <1>1, <1>2
<1> QED
  BY <1>1, <1>3 DEF FaultOf

NamedOutages == {"SandboxError", "ResourcePressure", "TimeoutError", "SubjectUnreachable"}

\* An outage under its own name is charged to us wherever it can come out but specify.
LEMMA NamedOutageFault ==
    ASSUME NEW stage \in Stages \ {"specify"}, NEW surface \in Surfaces(stage),
           surface[2] \in NamedOutages
    PROVE  FaultOf(stage, surface[2]) = "factory"
<1> DEFINE class == surface[2]
<1>1. CASE stage \in {"build", "probes", "freeze"}
  <2>1. /\ 1 \in DOMAIN Handlers(stage)
        /\ DOMAIN Handlers(stage) \subseteq Nat \ {0}
        /\ Handlers(stage)[1].fault = "factory"
    BY <1>1 DEF Handlers, FreezeClauses, Clause
  <2>2. class \in {"SandboxError", "ResourcePressure", "TimeoutError"}
    BY <1>1 DEF Surfaces, NamedOutages
  <2>3. Handlers(stage)[1].classes \intersect Bases(class) # {}
    BY <1>1, <2>2 DEF Handlers, FreezeClauses, Clause, Bases
  <2> QED
    BY <2>1, <2>3, FirstClauseDecides
<1>2. CASE stage \in {"push", "driving", "image"}
  <2>1. \A i \in DOMAIN Handlers(stage) : Handlers(stage)[i].fault = "factory"
    BY <1>2 DEF Handlers, Clause
  <2>2. DOMAIN Handlers(stage) \subseteq {1, 2}
    BY <1>2 DEF Handlers, Clause
  <2>3. Unclassified(class) = "factory"
    BY DEF Unclassified, NamedOutages
  <2> QED
    BY <2>1, <2>2, <2>3, SomeClauseDecides
<1>3. CASE stage \notin {"build", "probes", "freeze", "push", "driving", "image"}
  <2>1. Handlers(stage) = << >>
    BY <1>3 DEF Handlers
  <2>2. Unclassified(class) = "factory"
    BY DEF Unclassified, NamedOutages
  <2> QED
    BY <2>1, <2>2, SomeClauseDecides
<1> QED
  BY <1>1, <1>2, <1>3

-----------------------------------------------------------------------------
(* Types. *)

USE ChecksAssumption, RewritesAssumption

\* Both ways for a stage to end keep the types of what they touch.
LEMMA EndingType ==
    ASSUME TypeOK, NEW fault \in Faults \union {"none"}, NEW next \in Stages, Gate(fault, next)
    PROVE  /\ pc' \in Stages
           /\ raised' = raised
           /\ outcome' \in {outcome} \union {Refused(s, f) : s \in Stages, f \in Faults}
BY DEF TypeOK, Gate, Pass, Refuse, Faults

\* Recording a verdict keeps the battery's type.
LEMMA RecordType ==
    ASSUME battery \in [AllChecks -> Outcomes \union {"unrecorded"}],
           NEW check, NEW value \in Outcomes, Record(check, value)
    PROVE  battery' \in [AllChecks -> Outcomes \union {"unrecorded"}]
BY DEF Record

\* Every variable stays within its type, whatever the checks, the hooks and the
\* number of rewrites.
THEOREM TypeCorrect == Spec => []TypeOK
<1>1. Init => TypeOK
  BY DEF Init, TypeOK, Stages, Trees, Absent, AllChecks
<1>2. TypeOK /\ [Next]_vars => TypeOK'
  <2> SUFFICES ASSUME TypeOK, [Next]_vars PROVE TypeOK'
    OBVIOUS
  <2>0. {"build", "probes", "freeze", "adequacy", "timing", "evidence", "emit", "quality", "replay",
         "push", "driving", "execution", "settle", "image", "attest", "stamp", "return"} \subseteq Stages
    BY DEF Stages
  <2>1. CASE Specify
    <3>1. \A s, f, t, i : SpecFault(s, f, t, i) \in Faults \union {"none"}
      BY DEF SpecFault, Faults
    <3> QED
      BY <2>0, <2>1, <3>1, EndingType DEF Specify, TypeOK
  <2>2. CASE Build \/ Probes
    BY <2>0, <2>2 DEF Build, Probes, Pass, TypeOK
  <2>3. CASE Freeze
    <3>1. \A r : CorpusFault(r) \in Faults \union {"none"}
      BY DEF CorpusFault, Faults
    <3> QED
      BY <2>0, <2>3, <3>1, EndingType DEF Freeze, TypeOK
  <2>4. CASE Adequacy \/ Timing \/ Quality \/ Settle
    BY <2>0, <2>4, EndingType DEF Adequacy, Timing, Quality, Settle, TypeOK, Faults
  <2>5. CASE Evidence
    <3>1. \A v : EvidenceFault(v) \in Faults \union {"none"}
      BY DEF EvidenceFault, Faults
    <3>2. PICK v \in [Checks -> Outcomes] :
            /\ battery' = [c \in AllChecks |-> IF c \in Checks THEN v[c] ELSE battery[c]]
            /\ Gate(EvidenceFault(v), "emit")
      BY <2>5 DEF Evidence
    <3>3. battery' \in [AllChecks -> Outcomes \union {"unrecorded"}]
      BY <3>2 DEF TypeOK
    <3> QED
      BY <2>0, <2>5, <3>1, <3>2, <3>3, EndingType DEF Evidence, TypeOK
  <2>6. CASE Emit
    <3>1. PICK v \in [Late -> Outcomes] :
            /\ battery' = [c \in AllChecks |-> IF c \in Late THEN v[c] ELSE battery[c]]
            /\ Gate(IF \A c \in Late : Ok(v[c]) THEN "none" ELSE "factory", "quality")
      BY <2>6 DEF Emit
    <3>2. battery' \in [AllChecks -> Outcomes \union {"unrecorded"}]
      BY <3>1 DEF TypeOK
    <3>3. tree' \in Trees
      BY <2>6 DEF Emit, Trees
    <3> QED
      BY <2>0, <2>6, <3>1, <3>2, <3>3, EndingType DEF Emit, TypeOK, Faults
  <2>7. CASE Replay \/ Push
    BY <2>0, <2>7 DEF Replay, Push, Pass, TypeOK
  <2>8. CASE Driven
    BY <2>0, <2>8, EndingType DEF Driven, Record, Refuse, TypeOK, Faults, Outcomes
  <2>9. CASE Execution
    BY <2>0, <2>9 DEF Execution, Record, Refuse, Pass, TypeOK, Faults, Outcomes
  <2>10. CASE Image
    <3>1. ImageVerdicts \subseteq Outcomes
      BY DEF ImageVerdicts, Outcomes
    <3>2. PICK v \in Outcomes :
            /\ Record(InImage, v)
            /\ Gate(IF ImagePasses(v) THEN "none" ELSE "factory", "attest")
      BY <2>10, <3>1 DEF Image
    <3>3. battery' \in [AllChecks -> Outcomes \union {"unrecorded"}]
      BY <3>2, RecordType DEF TypeOK
    <3>4. /\ pc' \in Stages
          /\ raised' = raised
          /\ outcome' \in {outcome} \union {Refused(s, f) : s \in Stages, f \in Faults}
      BY <2>0, <3>2, EndingType DEF Faults
    <3> QED
      BY <2>10, <3>3, <3>4 DEF Image, TypeOK
  <2>11. CASE Attest \/ Stamp \/ Return
    BY <2>0, <2>11 DEF Attest, Stamp, Return, Pass, TypeOK
  <2>12. CASE Raise
    <3>1. PICK surface \in Surfaces(pc) :
            raised' = surface /\ outcome' = Refused(pc, FaultOf(pc, surface[2]))
      BY <2>12 DEF Raise
    <3>2. surface \in {"wire", "material", "ours"} \X Classes
      BY <3>1 DEF Surfaces, Classes
    <3>3. FaultOf(pc, surface[2]) \in Faults
      BY FaultOfType DEF TypeOK
    <3> QED
      BY <2>12, <3>1, <3>2, <3>3 DEF Raise, TypeOK
  <2>13. CASE Interrupt
    BY <2>13 DEF Interrupt, TypeOK
  <2>14. CASE Rewrite
    <3>1. tree' \in Trees
      BY <2>14 DEF Rewrite, Trees, TypeOK
    <3> QED
      BY <2>14, <3>1 DEF Rewrite, TypeOK
  <2>15. CASE UNCHANGED vars
    BY <2>15 DEF vars, TypeOK
  <2> QED
    BY <2>1, <2>2, <2>3, <2>4, <2>5, <2>6, <2>7, <2>8, <2>9, <2>10, <2>11, <2>12, <2>13,
       <2>14, <2>15 DEF Next
<1> QED
  BY <1>1, <1>2, PTL DEF Spec

-----------------------------------------------------------------------------
(* Evidence. *)

Unfinished == outcome' \in {Pending, Emitted}

\* A gate the run survives was passed: the fault was none and the next stage is entered.
LEMMA GateSurvived ==
    ASSUME NEW fault, NEW next, Gate(fault, next), Unfinished
    PROVE  fault = "none" /\ pc' = next /\ outcome' = outcome /\ raised' = raised
BY DEF Gate, Pass, Refuse, Unfinished, Refused, Pending, Emitted

\* No refusal is survived.
LEMMA RefusalIsFinal ==
    ASSUME NEW fault, NEW stage, outcome' = Refused(stage, fault)
    PROVE  ~Unfinished
BY DEF Unfinished, Refused, Pending, Emitted

\* A run only ships from its last stages.
EmittedAtTheEnd == outcome = Emitted => pc \in AfterImage

EvidenceInv == TypeOK /\ EvidenceIsKept /\ EmittedAtTheEnd

\* The strengthened invariant: every step that the run survives adds to what is
\* established and withdraws nothing.
LEMMA EvidenceInductive == EvidenceInv /\ TypeOK' /\ [Next]_vars => EvidenceInv'
<1> SUFFICES ASSUME TypeOK, EvidenceIsKept, EmittedAtTheEnd, TypeOK', [Next]_vars
             PROVE  EvidenceIsKept' /\ EmittedAtTheEnd'
  BY DEF EvidenceInv
<1> USE DEF AfterEvidence, AfterEmit, AfterReplay, AfterExecution, AfterImage
<1>0. /\ Pending # Emitted /\ Interrupted \notin {Pending, Emitted}
      /\ battery \in [AllChecks -> Outcomes \union {"unrecorded"}]
  BY DEF Pending, Emitted, Interrupted, TypeOK
<1>1. ~Unfinished => EvidenceIsKept' /\ EmittedAtTheEnd'
  BY <1>0 DEF Unfinished, EvidenceIsKept, EmittedAtTheEnd
<1> SUFFICES ASSUME Unfinished PROVE EvidenceIsKept' /\ EmittedAtTheEnd'
  BY <1>1
<1>2. CASE Specify \/ Freeze \/ Adequacy \/ Timing
  BY <1>0, <1>2, GateSurvived
     DEF Specify, Freeze, Adequacy, Timing, At, EvidenceIsKept, EmittedAtTheEnd
<1>3. CASE Build \/ Probes
  BY <1>0, <1>3 DEF Build, Probes, At, Pass, EvidenceIsKept, EmittedAtTheEnd
<1>4. CASE Evidence
  <2>1. PICK v \in [Checks -> Outcomes] :
          /\ battery' = [c \in AllChecks |-> IF c \in Checks THEN v[c] ELSE battery[c]]
          /\ Gate(EvidenceFault(v), "emit")
    BY <1>4 DEF Evidence
  <2>2. EvidenceFault(v) = "none" /\ pc' = "emit" /\ outcome' = Pending /\ UNCHANGED hooks
    BY <1>4, <2>1, GateSurvived DEF Evidence, At
  <2>3. \A c \in Checks : Ok(v[c]) \/ (c = Delegate /\ hooks.execution)
    BY <2>2 DEF EvidenceFault, Failures, Deferred
  <2>4. \A c \in Checks : battery'[c] = v[c]
    BY <2>1 DEF AllChecks
  <2> QED
    BY <1>0, <2>2, <2>3, <2>4 DEF EvidenceIsKept, EmittedAtTheEnd, Ok
<1>5. CASE Emit
  <2>1. PICK v \in [Late -> Outcomes] :
          /\ battery' = [c \in AllChecks |-> IF c \in Late THEN v[c] ELSE battery[c]]
          /\ Gate(IF \A c \in Late : Ok(v[c]) THEN "none" ELSE "factory", "quality")
    BY <1>5 DEF Emit
  <2>2. /\ \A c \in Late : Ok(v[c])
        /\ pc' = "quality" /\ outcome' = Pending /\ UNCHANGED hooks
    BY <1>5, <2>1, GateSurvived DEF Emit, At
  <2>3. /\ \A c \in Late : battery'[c] = v[c]
        /\ \A c \in Checks : battery'[c] = battery[c]
    BY <2>1 DEF AllChecks
  <2> QED
    BY <1>0, <1>5, <2>2, <2>3 DEF Emit, At, EvidenceIsKept, EmittedAtTheEnd, Ok
<1>6. CASE Quality
  BY <1>0, <1>6, GateSurvived DEF Quality, At, EvidenceIsKept, EmittedAtTheEnd
<1>7. CASE Replay \/ Push
  BY <1>0, <1>7 DEF Replay, Push, At, Pass, EvidenceIsKept, EmittedAtTheEnd
<1>8. CASE Driven
  <2>1. PICK v \in {"holds", "fails", "inconclusive"} :
          /\ battery' = [battery EXCEPT ![Replayed] = v]
          /\ Gate(IF Ok(v) THEN "none" ELSE "factory", IF hooks.execution THEN "execution" ELSE "settle")
    BY <1>8, RefusalIsFinal DEF Driven, Record, Refuse
  <2>2. /\ Ok(v) /\ pc' = (IF hooks.execution THEN "execution" ELSE "settle")
        /\ outcome' = Pending /\ UNCHANGED hooks
    BY <1>8, <2>1, GateSurvived DEF Driven, At
  <2>3. /\ battery'[Replayed] = v
        /\ \A c \in Checks \union Late : battery'[c] = battery[c]
    BY <1>0, <2>1 DEF AllChecks
  <2> QED
    BY <1>0, <1>8, <2>2, <2>3 DEF Driven, At, EvidenceIsKept, EmittedAtTheEnd, Ok
<1>9. CASE Execution
  <2>1. /\ battery' = [battery EXCEPT ![Delegate] = "holds"]
        /\ pc' = "settle" /\ outcome' = Pending /\ UNCHANGED hooks /\ pc = "execution"
    BY <1>9, RefusalIsFinal DEF Execution, At, Record, Refuse, Pass
  <2>2. /\ battery'[Delegate] = "holds"
        /\ \A c \in AllChecks \ {Delegate} : battery'[c] = battery[c]
    BY <1>0, <2>1 DEF AllChecks
  <2>3. /\ Delegate \notin Late /\ Delegate # Replayed /\ Replayed \in AllChecks
        /\ Checks \subseteq AllChecks /\ Late \subseteq AllChecks
    BY DEF AllChecks
  <2> QED
    BY <1>0, <1>9, <2>1, <2>2, <2>3 DEF Execution, At, EvidenceIsKept, EmittedAtTheEnd, Ok
<1>10. CASE Settle
  BY <1>0, <1>10, GateSurvived DEF Settle, At, EvidenceIsKept, EmittedAtTheEnd
<1>11. CASE Image
  <2>1. PICK v \in ImageVerdicts :
          /\ battery' = [battery EXCEPT ![InImage] = v]
          /\ Gate(IF ImagePasses(v) THEN "none" ELSE "factory", "attest")
    BY <1>11 DEF Image, Record
  <2>2. v = "holds" /\ pc' = "attest" /\ outcome' = Pending /\ UNCHANGED hooks /\ pc = "image"
    BY <1>11, <2>1, GateSurvived DEF Image, At, ImagePasses
  <2>3. /\ battery'[InImage] = "holds"
        /\ \A c \in Checks \union Late \union {Replayed} : battery'[c] = battery[c]
    BY <1>0, <2>1, <2>2 DEF AllChecks, Replayed, InImage
  <2> QED
    BY <1>0, <1>11, <2>2, <2>3 DEF Image, At, EvidenceIsKept, EmittedAtTheEnd, Ok
<1>12. CASE Attest \/ Stamp \/ Return
  BY <1>0, <1>12 DEF Attest, Stamp, Return, At, Pass, EvidenceIsKept, EmittedAtTheEnd
<1>13. CASE Raise
  BY <1>13, RefusalIsFinal DEF Raise
<1>14. CASE Interrupt
  BY <1>0, <1>14 DEF Interrupt, Unfinished
<1>15. CASE Rewrite
  BY <1>0, <1>15 DEF Rewrite, EvidenceIsKept, EmittedAtTheEnd
<1>16. CASE UNCHANGED vars
  BY <1>16 DEF vars, EvidenceIsKept, EmittedAtTheEnd
<1> QED
  BY <1>2, <1>3, <1>4, <1>5, <1>6, <1>7, <1>8, <1>9, <1>10, <1>11, <1>12, <1>13, <1>14,
     <1>15, <1>16 DEF Next

LEMMA EvidenceInvariant == Spec => []EvidenceInv
<1>1. Init => EvidenceInv
  <2>1. Init => TypeOK
    BY DEF Init, TypeOK, Stages, Trees, Absent, AllChecks
  <2> QED
    BY <2>1 DEF Init, EvidenceInv, EvidenceIsKept, EmittedAtTheEnd, Pending, Emitted,
                AfterEvidence, AfterEmit, AfterReplay, AfterExecution, AfterImage
<1> QED
  BY <1>1, EvidenceInductive, TypeCorrect, PTL DEF Spec

\* What a stage has established stays established in every later one.
THEOREM EvidenceStaysKept == Spec => []EvidenceIsKept
<1>1. EvidenceInv => EvidenceIsKept
  BY DEF EvidenceInv
<1> QED
  BY <1>1, EvidenceInvariant, PTL

\* At the end of a run that has survived, everything its hooks call for is there.
LEMMA KeptAtTheEnd ==
    ASSUME EvidenceInv, outcome \in {Pending, Emitted}, pc \in AfterImage
    PROVE  Established
BY DEF EvidenceInv, EvidenceIsKept, Established, Required,
       AfterEvidence, AfterEmit, AfterReplay, AfterExecution, AfterImage

\* A task is reported as emitted only when every check its hooks call for is
\* established, whatever the checks are.
THEOREM OnlyEstablishedIsEmitted == Spec => []EmittedIsEstablished
<1>1. EvidenceInv => EmittedIsEstablished
  <2> SUFFICES ASSUME EvidenceInv, outcome = Emitted PROVE Established
    BY DEF EmittedIsEstablished
  <2> QED
    BY KeptAtTheEnd DEF EvidenceInv, EmittedAtTheEnd
<1> QED
  BY <1>1, EvidenceInvariant, PTL

\* What the marks on a task presuppose of the stage the run is in.
MarksFollowTheGates ==
    /\ attested # "none" => pc \in AfterImage /\ Established
    /\ attested = "stamped" => pc = "return" /\ outcome.kind # "refused"

\* Nothing lets an exception out once the stamp is written, and nothing is
\* withdrawn from the battery behind the last gate.
LEMMA MarksInductive ==
    EvidenceInv /\ MarksFollowTheGates /\ [Next]_vars => MarksFollowTheGates'
<1> SUFFICES ASSUME EvidenceInv, MarksFollowTheGates, [Next]_vars PROVE MarksFollowTheGates'
  OBVIOUS
<1> USE DEF AfterImage, MarksFollowTheGates
<1>1. UNCHANGED <<battery, hooks>> => UNCHANGED Established
  BY DEF Established, Required
<1>2. CASE UNCHANGED vars
  BY <1>1, <1>2 DEF vars
<1>3. CASE Attest
  <2>1. Established
    BY <1>3, KeptAtTheEnd DEF Attest, At
  <2>2. attested = "none" \/ attested = "sidecar"
    BY <1>3 DEF Attest, At, EvidenceInv, TypeOK
  <2> QED
    BY <1>1, <1>3, <2>1, <2>2 DEF Attest, At, Pass
<1>4. CASE Stamp
  <2>1. Established
    BY <1>4, KeptAtTheEnd DEF Stamp, At
  <2> QED
    BY <1>1, <1>4, <2>1 DEF Stamp, At, Pass, Pending
<1>5. CASE Return
  BY <1>1, <1>5 DEF Return, At, Emitted
<1>6. CASE Rewrite
  BY <1>1, <1>6 DEF Rewrite
<1>7. CASE Interrupt
  BY <1>1, <1>7 DEF Interrupt, Interrupted
<1>8. CASE Raise
  <2>1. pc # "return"
    BY <1>8 DEF Raise, Surfaces
  <2> QED
    BY <1>1, <1>8, <2>1 DEF Raise
<1>9. CASE Next /\ ~Attest /\ ~Stamp /\ ~Return /\ ~Rewrite /\ ~Interrupt /\ ~Raise
  <2>1. pc \notin AfterImage /\ UNCHANGED attested
    BY <1>9 DEF Next, At, Specify, Build, Probes, Freeze, Adequacy, Timing, Evidence, Emit,
                Quality, Replay, Push, Driven, Execution, Settle, Image
  <2> QED
    BY <2>1
<1> QED
  BY <1>2, <1>3, <1>4, <1>5, <1>6, <1>7, <1>8, <1>9

\* Whatever the checks and the hooks: no mark is on a task that has not earned
\* it, and no stamp on one that was refused.
THEOREM MarksAreAlwaysEarned == Spec => []MarksAreEarned
<1>1. Init => MarksFollowTheGates
  BY DEF Init, MarksFollowTheGates
<1>2. MarksFollowTheGates => MarksAreEarned
  BY DEF MarksFollowTheGates, MarksAreEarned
<1> QED
  BY <1>1, <1>2, MarksInductive, EvidenceInvariant, PTL DEF Spec

\* The run has not failed yet, or it failed with the exception that `raised` names.
NotRaisedYet == outcome = Pending => raised = None

\* An outage that arrives under its own name after specification is never charged
\* to the candidate.
THEOREM NamedOutagesAreOurs == Spec => []NamedOutageIsOurs
<1> DEFINE Inv == NotRaisedYet /\ NamedOutageIsOurs
<1>1. Init => Inv
  BY DEF Init, NotRaisedYet, NamedOutageIsOurs, Pending
<1>2. TypeOK /\ Inv /\ [Next]_vars => Inv'
  <2> SUFFICES ASSUME TypeOK, NotRaisedYet, NamedOutageIsOurs, [Next]_vars PROVE Inv'
    OBVIOUS
  <2>1. CASE UNCHANGED vars
    BY <2>1 DEF vars, NotRaisedYet, NamedOutageIsOurs
  <2>2. CASE Raise
    <3>1. PICK surface \in Surfaces(pc) :
            raised' = surface /\ outcome' = Refused(pc, FaultOf(pc, surface[2])) /\ pc' = pc
      BY <2>2 DEF Raise
    <3>2. outcome'.stage # "specify" /\ surface[2] \in NamedOutages => outcome'.fault = "factory"
      BY <3>1, NamedOutageFault DEF Refused, TypeOK
    <3> QED
      BY <3>1, <3>2 DEF NotRaisedYet, NamedOutageIsOurs, NamedOutages, Refused, Pending
  <2>3. CASE Next /\ ~Raise
    <3>1. outcome = Pending /\ UNCHANGED raised
      BY <2>3 DEF Next, At, Gate, Pass, Refuse, Specify, Build, Probes, Freeze, Adequacy, Timing,
                  Evidence, Emit, Quality, Replay, Push, Driven, Execution, Settle, Image, Attest,
                  Stamp, Return, Interrupt, Rewrite
    <3> QED
      BY <3>1 DEF NotRaisedYet, NamedOutageIsOurs
  <2> QED
    BY <2>1, <2>2, <2>3
<1> QED
  BY <1>1, <1>2, TypeCorrect, PTL DEF Spec, NamedOutageIsOurs

-----------------------------------------------------------------------------
(* The bytes that ship. *)

\* One version of the task is no older than another.
NoOlder(a, b) == a.verifier <= b.verifier /\ a.rest <= b.rest

Pushed == AfterReplay \union {"driving"}

\* The digest, the push and the directory follow each other in time; once the
\* second digest has agreed with the first, nothing can lie between them.
Chronology ==
    outcome = Pending =>
        /\ pc \in Pushed \union {"push"} => NoOlder(driven, tree)
        /\ pc \in Pushed => NoOlder(driven, pushed) /\ NoOlder(pushed, tree)
        /\ pc \in AfterReplay /\ hooks.image = "remote" => pushed = driven

\* Two versions of which neither is older are one.
LEMMA SameVersion ==
    ASSUME NEW a \in Trees, NEW b \in Trees, NoOlder(a, b), NoOlder(b, a)
    PROVE  a = b
<1>1. a.verifier = b.verifier /\ a.rest = b.rest
  BY DEF Trees, NoOlder
<1> QED
  BY <1>1 DEF Trees

LEMMA ChronologyInductive == TypeOK /\ Chronology /\ [Next]_vars => Chronology'
<1> SUFFICES ASSUME TypeOK, Chronology, [Next]_vars, outcome' = Pending PROVE Chronology'
  BY DEF Chronology
<1> USE DEF Pushed, AfterReplay, AfterExecution, AfterImage
<1>0. tree \in Trees /\ driven \in Trees /\ pushed \in Trees
  BY DEF TypeOK
<1>1. CASE UNCHANGED vars
  BY <1>1 DEF vars, Chronology, NoOlder
<1>2. CASE Replay
  BY <1>0, <1>2 DEF Replay, At, Pass, Chronology, NoOlder, Trees
<1>3. CASE Push
  BY <1>0, <1>3 DEF Push, At, Pass, Chronology, NoOlder, Trees
<1>4. CASE Driven
  <2>1. ReplayIsBound /\ UNCHANGED <<hooks, tree, driven, pushed>> /\ pc = "driving" /\ outcome = Pending
    BY <1>4 DEF Driven, At, Refuse, Refused, Pending
  <2>2. NoOlder(driven, pushed) /\ NoOlder(pushed, tree) /\ NoOlder(driven, tree)
    BY <2>1 DEF Chronology
  <2>3. hooks.image = "remote" => pushed = driven
    BY <1>0, <2>1, <2>2, SameVersion DEF ReplayIsBound
  <2> QED
    BY <2>1, <2>2, <2>3 DEF Chronology, NoOlder
<1>5. CASE Rewrite
  <2>1. /\ tree' = [tree EXCEPT !.verifier = @ + 1] \/ tree' = [tree EXCEPT !.rest = @ + 1]
        /\ UNCHANGED <<pc, hooks, driven, pushed>> /\ outcome = Pending
    BY <1>5 DEF Rewrite
  <2>2. NoOlder(tree, tree')
    BY <1>0, <2>1 DEF NoOlder, Trees
  <2>3. ASSUME NEW t \in Trees, NoOlder(t, tree) PROVE NoOlder(t, tree')
    BY <1>0, <2>1, <2>3 DEF NoOlder, Trees
  <2> QED
    BY <1>0, <2>1, <2>3 DEF Chronology, NoOlder
<1>6. CASE Next /\ ~Replay /\ ~Push /\ ~Driven /\ ~Rewrite /\ ~Raise /\ ~Interrupt
  <2>1. outcome = Pending /\ UNCHANGED <<hooks, driven, pushed>>
    BY <1>6 DEF Next, At, Specify, Build, Probes, Freeze, Adequacy, Timing, Evidence, Emit,
                Quality, Execution, Settle, Image, Attest, Stamp, Return
  <2>2. \/ pc' \notin Pushed \union {"push"}
        \/ pc \in AfterReplay /\ pc' \in AfterReplay /\ UNCHANGED tree
    BY <1>6, <2>1 DEF Next, At, Gate, Pass, Refuse, Specify, Build, Probes, Freeze, Adequacy, Timing,
                Evidence, Emit, Quality, Execution, Settle, Image, Attest, Stamp, Return
  <2> QED
    BY <2>1, <2>2 DEF Chronology, NoOlder
<1>7. CASE Raise \/ Interrupt
  BY <1>7 DEF Raise, Interrupt, Refused, Interrupted, Pending
<1> QED
  BY <1>1, <1>2, <1>3, <1>4, <1>5, <1>6, <1>7 DEF Next

\* However the rewrites fall between the digests, the push and the gates: where
\* the in-image gate goes on, the directory holds the bytes that were verified.
THEOREM EvidenceIsForTheseBytes == Spec => ReplayEvidenceIsForTheseBytes
<1> DEFINE Bound == pc = "image" /\ pc' = "attest" /\ hooks.image = "remote" => tree = pushed
<1>1. Init => Chronology
  BY DEF Init, Chronology, Pushed, AfterReplay, AfterExecution, AfterImage
<1>2. TypeOK /\ Chronology /\ [Next]_vars => [Bound]_vars
  <2> SUFFICES ASSUME TypeOK, Chronology, Next, pc = "image", pc' = "attest", hooks.image = "remote"
               PROVE  tree = pushed
    OBVIOUS
  <2>1. Image
    BY DEF Next, At, Specify, Build, Probes, Freeze, Adequacy, Timing, Evidence, Emit,
           Quality, Replay, Push, Driven, Execution, Settle, Attest, Stamp, Return,
           Raise, Interrupt, Rewrite
  <2>2. tree = driven
    <3> SUFFICES ASSUME tree # driven PROVE FALSE
      OBVIOUS
    <3>1. Refuse("factory")
      BY <2>1 DEF Image, ImageVerdicts, ImagePasses, Gate
    <3> QED
      BY <3>1 DEF Refuse
  <2>3. pushed = driven
    BY <2>1 DEF Image, At, Chronology, AfterReplay, AfterExecution
  <2> QED
    BY <2>2, <2>3
<1>3. Spec => [](TypeOK /\ Chronology)
  BY <1>1, ChronologyInductive, TypeCorrect, PTL DEF Spec
<1> QED
  BY <1>2, <1>3, PTL DEF Spec, ReplayEvidenceIsForTheseBytes

-----------------------------------------------------------------------------
(* The task contract. *)

\* A run that is still going is open until its last gate and proven from there on.
LEMMA StatusWhilePending ==
    ASSUME outcome = Pending
    PROVE  Status = IF pc \in AfterImage THEN "proven" ELSE "open"
BY DEF Status, Pending, Emitted, AfterImage

LEMMA StatusWhenSettled ==
    /\ outcome = Emitted => Status = "shipped"
    /\ outcome.kind = "refused" => Status = "refused"
    /\ outcome = Interrupted => Status = IF pc \in AfterImage THEN "proven" ELSE "open"
BY DEF Status, Pending, Emitted, Interrupted, AfterImage

\* The contract's view of a step that ends in a refusal or an interruption.
LEMMA AbandonedIsAllowed ==
    ASSUME EvidenceInv, outcome = Pending, pc' = pc, UNCHANGED hooks,
           pc \in AfterImage => UNCHANGED battery,
           \/ outcome'.kind = "refused"
           \/ outcome' = Interrupted /\ UNCHANGED battery
    PROVE  [Contract!Next]_<<Status, Established>>
<1>0. Established \in BOOLEAN /\ Established' \in BOOLEAN
  BY DEF Established
<1>1. UNCHANGED battery => UNCHANGED Established
  BY DEF Established, Required
<1>2. Status = IF pc \in AfterImage THEN "proven" ELSE "open"
  BY StatusWhilePending
<1>3. CASE outcome' = Interrupted /\ UNCHANGED battery
  <2>1. Status' = Status
    BY <1>2, <1>3 DEF Status, Emitted, Interrupted, AfterImage
  <2> QED
    BY <2>1, <1>1, <1>3
<1>4. CASE outcome'.kind = "refused"
  <2>1. Status' = "refused"
    BY <1>4 DEF Status, Emitted
  <2>2. CASE pc \in AfterImage
    <3>1. Contract!Lose
      BY <2>1, <2>2, <1>1, <1>2 DEF Contract!Lose
    <3> QED
      BY <3>1 DEF Contract!Next
  <2>3. CASE pc \notin AfterImage
    <3>1. Contract!Refuse
      BY <2>1, <2>3, <1>0, <1>2 DEF Contract!Refuse
    <3> QED
      BY <3>1 DEF Contract!Next
  <2> QED
    BY <2>2, <2>3
<1> QED
  BY <1>3, <1>4

\* A stage of the run before its last two either goes on or refuses.
LEMMA StageIsAllowed ==
    ASSUME EvidenceInv, EvidenceInv', outcome = Pending, UNCHANGED hooks, pc \notin AfterImage,
           \/ outcome' = Pending
           \/ outcome'.kind = "refused" /\ pc' = pc
    PROVE  [Contract!Next]_<<Status, Established>>
<1>0. Established \in BOOLEAN /\ Established' \in BOOLEAN
  BY DEF Established
<1>1. Status = "open"
  BY StatusWhilePending
<1>2. CASE outcome'.kind = "refused" /\ pc' = pc
  BY <1>2, AbandonedIsAllowed
<1>3. CASE outcome' = Pending /\ pc' \notin AfterImage
  <2>1. Status' = "open"
    BY <1>3 DEF Status, Pending, Emitted, AfterImage
  <2>2. Contract!Examine
    BY <2>1, <1>0, <1>1 DEF Contract!Examine
  <2> QED
    BY <2>2 DEF Contract!Next
<1>4. CASE outcome' = Pending /\ pc' \in AfterImage
  <2>1. Status' = "proven"
    BY <1>4 DEF Status, Pending, Emitted, AfterImage
  <2>2. Established' = TRUE
    BY <1>4, <1>0 DEF EvidenceInv, EvidenceIsKept, Established, Required,
       AfterEvidence, AfterEmit, AfterReplay, AfterExecution, AfterImage
  <2>3. Contract!Prove
    BY <2>1, <2>2, <1>1 DEF Contract!Prove
  <2> QED
    BY <2>3 DEF Contract!Next
<1> QED
  BY <1>2, <1>3, <1>4

\* Whatever the checks and the hooks, the run implements the contract: proven
\* before it is shipped, and never open again once proven.
THEOREM ContractIsImplemented == Spec => ImplementsContract
<1>1. Init => Contract!Init
  <2> SUFFICES ASSUME Init PROVE Contract!Init
    OBVIOUS
  <2>1. Status = "open"
    BY DEF Init, Status, Pending, Emitted, AfterImage
  <2>2. battery[Delegate] = "unrecorded" /\ Delegate \in Required
    BY DEF Init, AllChecks, Required
  <2>3. Established = FALSE
    BY <2>2 DEF Established, Ok
  <2> QED
    BY <2>1, <2>3 DEF Contract!Init
<1>2. EvidenceInv /\ EvidenceInv' /\ [Next]_vars => [Contract!Next]_<<Status, Established>>
  <2> SUFFICES ASSUME EvidenceInv, EvidenceInv', [Next]_vars
               PROVE  [Contract!Next]_<<Status, Established>>
    OBVIOUS
  <2>1. CASE UNCHANGED vars
    BY <2>1 DEF vars, Status, Established, Required
  <2>2. CASE Raise \/ Interrupt
    BY <2>2, AbandonedIsAllowed DEF Raise, Interrupt, Refused
  <2>3. CASE Rewrite
    BY <2>3 DEF Rewrite, Status, Established, Required
  <2>4. CASE Attest \/ Stamp
    <3>1. outcome = Pending /\ outcome' = Pending /\ pc \in AfterImage /\ pc' \in AfterImage
      BY <2>4 DEF Attest, Stamp, At, Pass, AfterImage
    <3>2. UNCHANGED Established
      BY <2>4 DEF Attest, Stamp, Established, Required
    <3> QED
      BY <3>1, <3>2, StatusWhilePending DEF Status, Pending, Emitted
  <2>5. CASE Return
    <3>1. Contract!Ship
      BY <2>5 DEF Return, At, Status, Established, Required, Contract!Ship, Pending, Emitted, AfterImage
    <3> QED
      BY <3>1 DEF Contract!Next
  <2>6. CASE Next /\ ~Raise /\ ~Interrupt /\ ~Rewrite /\ ~Attest /\ ~Stamp /\ ~Return
    <3>1. outcome = Pending /\ pc \notin AfterImage /\ UNCHANGED hooks
      BY <2>6 DEF Next, At, AfterImage, Specify, Build, Probes, Freeze, Adequacy, Timing, Evidence,
                  Emit, Quality, Replay, Push, Driven, Execution, Settle, Image
    <3>2. outcome' = Pending \/ (outcome'.kind = "refused" /\ pc' = pc)
      BY <2>6, <3>1 DEF Next, Gate, Pass, Refuse, Refused, Specify, Build, Probes, Freeze, Adequacy,
                  Timing, Evidence, Emit, Quality, Replay, Push, Driven, Execution, Settle, Image
    <3> QED
      BY <3>1, <3>2, StageIsAllowed
  <2> QED
    BY <2>1, <2>2, <2>3, <2>4, <2>5, <2>6
<1> QED
  BY <1>1, <1>2, EvidenceInvariant, PTL DEF Spec, ImplementsContract, Contract!Spec, Contract!vars

=============================================================================
