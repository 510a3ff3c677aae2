---------------------------- MODULE FreezeProofs ----------------------------
(***************************************************************************)
(* What TLAPS proves about the call seam, for every list of probes, every  *)
(* behaviour of the subject and its mutants, and every number of runs,     *)
(* chunk size, holdout and discard limit.                                  *)
(***************************************************************************)
EXTENDS Freeze, FiniteSetTheorems, TLAPS

USE KindsAssumption, BoundsAssumption, ProbesAssumption

AllProbes == [p \in Probes |-> p]

\* The probes are numbered, and each has an input.
LEMMA ProbesAreNumbered ==
    /\ Probes = 1..Len(InputOf)
    /\ Len(InputOf) \in Nat
    /\ \A p \in Probes : InputOf[p] \in Inputs
BY DEF Probes, Inputs

-----------------------------------------------------------------------------
(* What a conversation may say. *)

\* An answer with a value, said by a process that is still running, is one the subject
\* gives for that input when it is asked alone.
LEMMA SaidIsSingle ==
    ASSUME NEW kind \in AllKinds, ~Ends(kind), NEW coin \in Values
    PROVE  Says(kind, coin) \in Single(kind, 1)
BY DEF Says, Single, Ends, AllKinds, Values, Answer

\* What a batch shows in one place: the fate of the chunk, or the subject.
LEMMA BatchedAnswer ==
    ASSUME NEW behaviour, NEW asked, NEW firstId, NEW fate, NEW coin, NEW i \in DOMAIN asked,
           i \in Nat \ {0},
           fate[ChunkOf(i)] \in {"sent", "lost", "late"}
    PROVE  LET answer == Batched(behaviour, asked, firstId, fate, coin)[i]
               kind == behaviour[InputOf[asked[i]]]
           IN  \/ answer \in {Answer("late"), Answer("outage"), Answer("crash"),
                              Silence(firstId + i - 1)}
               \/ ~Ends(kind) /\ answer = Says(kind, coin)
BY DEF Batched

\* A value that an answer carries is the subject's own.
LEMMA SingleValues ==
    ASSUME NEW kind \in AllKinds, NEW answer \in Single(kind, 1), answer[1] \in Values
    PROVE  answer \in {Answer(value) : value \in Values}
BY DEF Single, Answer, Silence, Values, AllKinds

-----------------------------------------------------------------------------
(* The freeze. *)

\* One run adds one answer to each probe's: a disturbance of the wire, the end of a
\* process, or what the subject says.
LEMMA RunAnswers ==
    ASSUME own \in [Inputs -> Kinds], RunBatched \/ RunSingly,
           NEW p \in Probes, NEW answer \in observed'[p],
           observed \in [Probes -> SUBSET Answers]
    PROVE  \/ answer \in observed[p]
           \/ answer \in {Answer("late"), Answer("outage"), Answer("crash"), Silence(p)}
           \/ \E coin \in Values : ~Ends(own[InputOf[p]]) /\ answer = Says(own[InputOf[p]], coin)
<1>1. CASE RunBatched
  <2>1. PICK fate \in Fates(AllProbes), coin \in Values :
          observed' = [q \in Probes |->
                         observed[q] \union {Batched(own, AllProbes, FirstId, fate, coin)[q]}]
    BY <1>1 DEF RunBatched, AllProbes
  <2>2. fate[ChunkOf(p)] \in {"sent", "lost", "late"}
    BY DEF Fates, AllProbes
  <2>3. p \in DOMAIN AllProbes /\ AllProbes[p] = p /\ p \in Nat \ {0}
    BY ProbesAreNumbered DEF AllProbes
  <2>4. 1 + p - 1 = p
    BY <2>3
  <2>5. answer \in observed[p] \/ answer = Batched(own, AllProbes, FirstId, fate, coin)[p]
    BY <2>1
  <2> QED
    BY <2>2, <2>3, <2>4, <2>5, BatchedAnswer DEF FirstId
<1>2. CASE RunSingly
  <2>1. CASE \E q \in Probes : Ends(own[InputOf[q]])
    BY <1>2, <2>1 DEF RunSingly
  <2>2. CASE ~(\E q \in Probes : Ends(own[InputOf[q]]))
    BY <1>2, <2>2 DEF RunSingly
  <2> QED
    BY <2>1, <2>2
<1> QED
  BY <1>1, <1>2

\* Each of these is an answer.
LEMMA AnswersType ==
    ASSUME NEW p \in Probes, NEW kind \in AllKinds, NEW coin \in Values
    PROVE  /\ {Answer("late"), Answer("outage"), Answer("crash"), Silence(p)} \subseteq Answers
           /\ ~Ends(kind) => Says(kind, coin) \in Answers
<1>1. p \in 1..(Runs * Len(InputOf))
  <2>1. \A r \in Nat \ {0}, n \in Nat : n <= r * n
    OBVIOUS
  <2> QED
    BY <2>1, ProbesAreNumbered
<1>2. {Answer("late"), Answer("outage"), Answer("crash"), Silence(p)} \subseteq Answers
  BY <1>1 DEF Answers
<1>3. ~Ends(kind) => Says(kind, coin) \in Answers
  BY DEF Answers, Says, Ends, AllKinds, Values
<1> QED
  BY <1>2, <1>3

\* What survives to be held out is frozen, answered, and no more than that.
LEMMA DistilType ==
    /\ Distil.graded \subseteq Probes
    /\ Distil.timed \subseteq Kept \intersect Answered
    /\ DOMAIN Distil.frozen = Kept
    /\ \A p \in Kept : Distil.frozen[p] = TheAnswer(p)
    /\ Kept \subseteq Probes
BY DEF Distil, Holdout, Kept

\* The answer of a probe that was kept is the only one it was seen to give.
LEMMA KeptAnswer ==
    ASSUME NEW p \in Kept, IsFiniteSet(observed[p])
    PROVE  observed[p] = {TheAnswer(p)}
<1>1. Cardinality(observed[p]) = 1
  BY DEF Kept
<1>2. PICK answer : observed[p] = {answer}
  BY <1>1, FS_Singleton
<1> QED
  BY <1>2 DEF TheAnswer

-----------------------------------------------------------------------------
(* Types. *)

\* The initial states are well typed.
LEMMA InitType == Init => TypeOK
  <1>1. DOMAIN NoCorpus.frozen = {} /\ NoCorpus.graded = {} /\ NoCorpus.timed = {}
    BY DEF NoCorpus
  <1>2. 0 \in 0..Runs /\ 0 \in 0..MutationAttempts
    OBVIOUS
  <1> QED
    BY <1>1, <1>2 DEF Init, TypeOK

\* Every variable stays within its type, for every list of probes and every bound.
THEOREM TypeCorrect == Spec => []TypeOK
<1>1. Init => TypeOK
  BY InitType
<1>2. TypeOK /\ [Next]_vars => TypeOK'
  <2> SUFFICES ASSUME TypeOK, [Next]_vars PROVE TypeOK'
    OBVIOUS
  <2> USE DEF TypeOK
  <2>1. CASE RunBatched \/ RunSingly
    <3>1. observed' \in [Probes -> SUBSET Answers]
      <4>1. DOMAIN observed' = Probes /\ observed' = [p \in Probes |-> observed'[p]]
        BY <2>1 DEF RunBatched, RunSingly
      <4>2. ASSUME NEW p \in Probes, NEW answer \in observed'[p] PROVE answer \in Answers
        <5>1. own[InputOf[p]] \in AllKinds
          BY ProbesAreNumbered
        <5>2. /\ {Answer("late"), Answer("outage"), Answer("crash"), Silence(p)} \subseteq Answers
              /\ \A coin \in Values :
                    ~Ends(own[InputOf[p]]) => Says(own[InputOf[p]], coin) \in Answers
          BY <5>1, AnswersType, "u" \in Values DEF Values
        <5>3. \/ answer \in observed[p]
              \/ answer \in {Answer("late"), Answer("outage"), Answer("crash"), Silence(p)}
              \/ \E coin \in Values :
                    ~Ends(own[InputOf[p]]) /\ answer = Says(own[InputOf[p]], coin)
          BY <2>1, <4>2, RunAnswers
        <5> QED
          BY <5>2, <5>3
      <4> QED
        BY <4>1, <4>2
    <3>2. run' \in 0..Runs /\ phase' \in {"freeze", "distill", "ended"}
      BY <2>1 DEF RunBatched, RunSingly, Asking, End
    <3>3. disturbed' \in BOOLEAN
      BY <2>1 DEF RunBatched, RunSingly
    <3>4. outcome' \in {outcome, "unusable"}
      BY <2>1 DEF RunBatched, RunSingly, End
    <3> QED
      BY <2>1, <3>1, <3>2, <3>3, <3>4 DEF RunBatched, RunSingly, Freezing, checks
  <2>2. CASE Unreachable \/ OutOfTime
    BY <2>2 DEF Unreachable, OutOfTime, Freezing, End, checks
  <2>3. CASE Distill
    <3>1. CASE Usable(Distil)
      <4>1. \A p \in Kept : TheAnswer(p) \in Answers
        <5> SUFFICES ASSUME NEW p \in Kept PROVE TheAnswer(p) \in Answers
          OBVIOUS
        <5>1. Cardinality(observed[p]) = 1
          BY DEF Kept
        <5>2. observed[p] # {}
          <6>1. Cardinality({}) # 1
            BY FS_EmptySet
          <6> QED
            BY <5>1, <6>1
        <5> QED
          BY <5>2 DEF TheAnswer, Kept
      <4>2. corpus' = Distil /\ phase' = "ceiling" /\ outcome' = outcome
        BY <2>3, <3>1 DEF Distill
      <4>3. /\ corpus'.graded \subseteq Probes /\ corpus'.timed \subseteq Probes
            /\ \A p \in DOMAIN corpus'.frozen : corpus'.frozen[p] \in Answers
        BY <4>1, <4>2, DistilType
      <4> QED
        BY <2>3, <4>2, <4>3 DEF Distill, checks
    <3>2. CASE ~Usable(Distil)
      BY <2>3, <3>2 DEF Distill, End, checks
    <3> QED
      BY <3>1, <3>2
  <2>4. CASE Ceiling
    BY <2>4 DEF Ceiling, Conclude, Checking
  <2>5. CASE CeilingRaises \/ PerturbRaises
    BY <2>5 DEF CeilingRaises, PerturbRaises, Checking, End, checks
  <2>6. CASE Perturb
    <3>1. attempt' \in {attempt, attempt + 1} /\ attempt < MutationAttempts
      BY <2>6 DEF Perturb, AnotherMutant
    <3>2. bite' \in {bite, "holds"} /\ moved' \in BOOLEAN
      BY <2>6 DEF Perturb
    <3>3. phase' \in {phase, "ended"} /\ outcome' \in {outcome, "passed", "refused"}
      BY <2>6 DEF Perturb, End
    <3> QED
      BY <2>6, <3>1, <3>2, <3>3 DEF Perturb, Checking
  <2>7. CASE Inert
    BY <2>7 DEF Inert, Checking, End
  <2>8. CASE UNCHANGED vars
    BY <2>8 DEF vars
  <2> QED
    BY <2>1, <2>2, <2>3, <2>4, <2>5, <2>6, <2>7, <2>8 DEF Next, Ended
<1> QED
  BY <1>1, <1>2, PTL DEF Spec

-----------------------------------------------------------------------------
(* What is timed. *)

\* However long the freeze goes on, an answer with a value is one the subject gives
\* for that input by itself: neither a batch nor the wire ever makes one up.
ValuesAreSaid ==
    \A p \in Probes :
        /\ IsFiniteSet(observed[p])
        /\ \A answer \in observed[p] :
              answer[1] \in Values => answer \in Single(own[InputOf[p]], 1)

TimingInv == TypeOK /\ ValuesAreSaid /\ TimedAreAnswers

\* A step that leaves the subject, its observations and the corpus alone keeps it.
LEMMA TimingUndisturbed ==
    ASSUME TimingInv, UNCHANGED <<served, own, observed, corpus>>
    PROVE  ValuesAreSaid' /\ TimedAreAnswers'
BY DEF TimingInv, ValuesAreSaid, TimedAreAnswers, Single

LEMMA TimingInductive == TimingInv /\ TypeOK' /\ [Next]_vars => TimingInv'
<1> SUFFICES ASSUME TimingInv, TypeOK', [Next]_vars
             PROVE  ValuesAreSaid' /\ TimedAreAnswers'
  BY DEF TimingInv
<1>1. CASE RunBatched \/ RunSingly
  <2>1. /\ UNCHANGED <<served, own, corpus>>
        /\ observed \in [Probes -> SUBSET Answers]
        /\ own \in [Inputs -> Kinds]
    BY <1>1 DEF RunBatched, RunSingly, Freezing, TimingInv, TypeOK
  <2>2. TimedAreAnswers'
    BY <2>1 DEF TimingInv, TimedAreAnswers, Single
  <2>3. ASSUME NEW p \in Probes PROVE IsFiniteSet(observed'[p])
    <3>1. \E more : observed'[p] = observed[p] \union {more} \/ observed'[p] = observed[p]
      BY <1>1, <2>1 DEF RunBatched, RunSingly
    <3>2. PICK more : observed'[p] = observed[p] \union {more} \/ observed'[p] = observed[p]
      BY <3>1
    <3>3. IsFiniteSet(observed[p])
      BY DEF TimingInv, ValuesAreSaid
    <3>4. IsFiniteSet(observed[p] \union {more})
      BY <3>3, FS_AddElement
    <3> QED
      BY <3>2, <3>3, <3>4
  <2>4. ASSUME NEW p \in Probes, NEW answer \in observed'[p], answer[1] \in Values
        PROVE  answer \in Single(own[InputOf[p]], 1)
    <3>1. own[InputOf[p]] \in AllKinds
      BY <2>1, ProbesAreNumbered
    <3>2. \/ answer \in observed[p]
          \/ answer \in {Answer("late"), Answer("outage"), Answer("crash"), Silence(p)}
          \/ \E coin \in Values :
                ~Ends(own[InputOf[p]]) /\ answer = Says(own[InputOf[p]], coin)
      BY <1>1, <2>1, <2>4, RunAnswers
    <3>3. answer \notin {Answer("late"), Answer("outage"), Answer("crash"), Silence(p)}
      BY <2>4 DEF Answer, Silence, Values
    <3> QED
      BY <2>4, <3>1, <3>2, <3>3, SaidIsSingle DEF TimingInv, ValuesAreSaid
  <2>5. ValuesAreSaid'
    BY <2>1, <2>3, <2>4 DEF ValuesAreSaid, Single
  <2> QED
    BY <2>2, <2>5
<1>2. CASE Distill
  <2>1. UNCHANGED <<served, own, observed>>
    BY <1>2 DEF Distill
  <2>2. ValuesAreSaid'
    BY <2>1 DEF TimingInv, ValuesAreSaid, Single
  <2>3. CASE corpus' = Distil
    <3>0. SUFFICES ASSUME NEW p \in Kept \intersect Answered
                   PROVE  TheAnswer(p) \in {Answer(value) : value \in Values}
                                           \intersect Single(own[InputOf[p]], 1)
      <4>1. TimedAreAnswers'
        BY <2>1, <2>3, <3>0, DistilType DEF TimedAreAnswers, Single
      <4> QED
        BY <2>2, <4>1
    <3>1. p \in Probes /\ own[InputOf[p]] \in AllKinds
      BY ProbesAreNumbered DEF Kept, TimingInv, TypeOK
    <3>2. observed[p] = {TheAnswer(p)}
      BY <3>1, KeptAnswer DEF TimingInv, ValuesAreSaid
    <3>3. TheAnswer(p)[1] \in Values
      BY <3>2 DEF Answered
    <3>4. TheAnswer(p) \in Single(own[InputOf[p]], 1)
      BY <3>1, <3>2, <3>3 DEF TimingInv, ValuesAreSaid
    <3> QED
      BY <3>1, <3>3, <3>4, SingleValues
  <2>4. CASE corpus' = corpus
    BY <2>1, <2>4, TimingUndisturbed
  <2> QED
    BY <1>2, <2>2, <2>3, <2>4 DEF Distill
<1>3. CASE Unreachable \/ OutOfTime
  BY <1>3, TimingUndisturbed DEF Unreachable, OutOfTime, Freezing
<1>4. CASE Ceiling \/ CeilingRaises \/ Perturb \/ PerturbRaises \/ Inert
  BY <1>4, TimingUndisturbed
     DEF Ceiling, CeilingRaises, Perturb, PerturbRaises, Inert, Conclude, Checking
<1>5. CASE UNCHANGED vars
  BY <1>5, TimingUndisturbed DEF vars
<1> QED
  BY <1>1, <1>2, <1>3, <1>4, <1>5 DEF Next, Ended

\* A timed probe, which nothing asks about again, was frozen as a value that the
\* subject returns for its input, whatever the wire did meanwhile.
THEOREM TimedProbesAreAnswers == Spec => []TimedAreAnswers
<1>1. Init => TimingInv
  BY InitType, FS_EmptySet DEF Init, NoCorpus, ValuesAreSaid, TimedAreAnswers, TimingInv
<1>2. TimingInv => TimedAreAnswers
  BY DEF TimingInv
<1> QED
  BY <1>1, <1>2, TimingInductive, TypeCorrect, PTL DEF Spec

-----------------------------------------------------------------------------
(* What is graded. *)

\* Only a corpus that E1 found the reference to reproduce goes on to pass.
CeilingInv ==
    /\ ceiling = "holds" => phase \in {"bite", "ended"} /\ Reproduces
    /\ outcome = "passed" => ceiling = "holds"

LEMMA CeilingInductive == CeilingInv /\ [Next]_vars => CeilingInv'
<1> SUFFICES ASSUME CeilingInv, [Next]_vars PROVE CeilingInv'
  OBVIOUS
<1> USE DEF CeilingInv
<1>1. CASE RunBatched \/ RunSingly \/ Unreachable \/ OutOfTime
  <2>1. ceiling # "holds" /\ outcome # "passed"
    BY <1>1 DEF RunBatched, RunSingly, Unreachable, OutOfTime, Asking
  <2>2. ceiling' = ceiling /\ outcome' \in {outcome, "unusable", "unreachable", "timeout"}
    BY <1>1 DEF RunBatched, RunSingly, Unreachable, OutOfTime, Freezing, checks, End
  <2> QED
    BY <2>1, <2>2
<1>2. CASE Distill
  <2>1. ceiling # "holds" /\ outcome # "passed"
    BY <1>2 DEF Distill
  <2>2. ceiling' = ceiling /\ outcome' \in {outcome, "unusable"}
    BY <1>2 DEF Distill, checks, End
  <2> QED
    BY <2>1, <2>2
<1>3. CASE Ceiling
  <2>1. outcome # "passed" /\ outcome' = outcome /\ phase' = "bite"
    BY <1>3 DEF Ceiling, Conclude
  <2>2. UNCHANGED <<served, own, corpus>>
    BY <1>3 DEF Ceiling, Conclude, Checking
  <2>3. ceiling' = "holds" => Reproduces
    BY <1>3 DEF Ceiling, Conclude
  <2> QED
    BY <2>1, <2>2, <2>3 DEF Reproduces, Single
<1>4. CASE CeilingRaises
  BY <1>4 DEF CeilingRaises, checks, End
<1>5. CASE Perturb \/ PerturbRaises \/ Inert
  <2>1. UNCHANGED <<served, own, corpus, ceiling>> /\ phase = "bite"
    BY <1>5 DEF Perturb, PerturbRaises, Inert, Checking, AnotherMutant, checks
  <2>2. phase' \in {"bite", "ended"}
    BY <1>5, <2>1 DEF Perturb, PerturbRaises, Inert, End
  <2>3. outcome' = "passed" => outcome = "passed" \/ ceiling = "holds"
    BY <1>5 DEF Perturb, PerturbRaises, Inert, End
  <2> QED
    BY <2>1, <2>2, <2>3 DEF Reproduces, Single
<1>6. CASE UNCHANGED vars
  BY <1>6 DEF vars, Reproduces, Single
<1> QED
  BY <1>1, <1>2, <1>3, <1>4, <1>5, <1>6 DEF Next, Ended

\* Though a freeze may record an outage or a neighbour's crash, no such answer is in
\* a corpus that passed: what is graded is what the subject says.
THEOREM GradedAnswersAreTheSubjects == Spec => []GradedIsWhatTheSubjectSays
<1>1. Init => CeilingInv
  BY DEF Init, CeilingInv
<1>2. CeilingInv => GradedIsWhatTheSubjectSays
  BY DEF CeilingInv, GradedIsWhatTheSubjectSays, Reproduces
<1> QED
  BY <1>1, <1>2, CeilingInductive, PTL DEF Spec

-----------------------------------------------------------------------------
(* What is kept. *)

RepeatsItself == \A p \in Probes : own[InputOf[p]] # "flaky"

NothingLost == [chunk \in {ChunkOf(i) : i \in Probes} |-> "sent"]

\* What a subject that repeats itself shows in every run over a wire that holds.
Steady(p) ==
    IF served = "remote"
    THEN Batched(own, AllProbes, FirstId, NothingLost, "u")[p]
    ELSE Answer(own[InputOf[p]])

\* The coin of a run does not matter to it, nor does the run: its ids restart.
LEMMA SteadyRun ==
    ASSUME RunBatched \/ RunSingly, RepeatsItself, disturbed' = FALSE, NEW p \in Probes,
           observed \in [Probes -> SUBSET Answers]
    PROVE  \/ run' = run + 1 /\ observed'[p] = observed[p] \union {Steady(p)}
           \/ phase' = "ended"
<1>1. CASE RunBatched
  <2>1. PICK fate \in Fates(AllProbes), coin \in Values :
          /\ observed' = [q \in Probes |->
                            observed[q] \union {Batched(own, AllProbes, FirstId, fate, coin)[q]}]
          /\ disturbed' = (disturbed \/ ~AllSent(fate))
    BY <1>1 DEF RunBatched, AllProbes
  <2>2. fate = NothingLost
    <3>1. DOMAIN AllProbes = Probes
      BY DEF AllProbes
    <3>2. fate \in [{ChunkOf(i) : i \in Probes} -> {"sent", "lost", "late"}]
      BY <3>1 DEF Fates
    <3>3. AllSent(fate)
      BY <2>1
    <3> QED
      BY <3>2, <3>3 DEF AllSent, NothingLost
  <2>3. own[InputOf[AllProbes[p]]] # "flaky" /\ p \in DOMAIN AllProbes
    BY DEF RepeatsItself, AllProbes
  <2>4. Batched(own, AllProbes, FirstId, NothingLost, coin)[p]
          = Batched(own, AllProbes, FirstId, NothingLost, "u")[p]
    BY <2>3 DEF Batched, Says
  <2>5. served = "remote" /\ run' = run + 1
    BY <1>1 DEF RunBatched
  <2> QED
    BY <2>1, <2>2, <2>4, <2>5 DEF Steady
<1>2. CASE RunSingly
  <2>1. served # "remote"
    BY <1>2 DEF RunSingly
  <2>2. CASE \E q \in Probes : Ends(own[InputOf[q]])
    BY <1>2, <2>2 DEF RunSingly, End
  <2>3. CASE ~(\E q \in Probes : Ends(own[InputOf[q]]))
    BY <1>2, <2>1, <2>3 DEF RunSingly, Steady, Says, RepeatsItself
  <2> QED
    BY <2>2, <2>3
<1> QED
  BY <1>1, <1>2

SteadyInv ==
    /\ TypeOK
    /\ phase = "distill" => run # 0
    /\ ~disturbed /\ RepeatsItself /\ phase \in {"freeze", "distill"} =>
          \A p \in Probes : observed[p] = IF run = 0 THEN {} ELSE {Steady(p)}

LEMMA SteadyInductive == SteadyInv /\ TypeOK' /\ [Next]_vars => SteadyInv'
<1> SUFFICES ASSUME SteadyInv, TypeOK', [Next]_vars PROVE SteadyInv'
  OBVIOUS
<1>1. CASE RunBatched \/ RunSingly
  <2>1. UNCHANGED <<served, own>> /\ phase = "freeze"
    BY <1>1 DEF RunBatched, RunSingly, Freezing, Asking
  <2>2. run \in Nat /\ observed \in [Probes -> SUBSET Answers] /\ disturbed \in BOOLEAN
    BY DEF SteadyInv, TypeOK
  <2>3. run' = run + 1 \/ phase' = "ended"
    BY <1>1 DEF RunBatched, RunSingly, End
  <2>4. disturbed' = FALSE => ~disturbed
    BY <1>1, <2>2 DEF RunBatched, RunSingly
  <2>5. ASSUME ~disturbed', RepeatsItself', phase' # "ended", NEW p \in Probes
        PROVE  observed'[p] = {Steady(p)'} /\ run' # 0
    <3>1. RepeatsItself /\ Steady(p)' = Steady(p)
      BY <2>1, <2>5 DEF RepeatsItself, Steady, Batched, FirstId, Says
    <3>2. disturbed' = FALSE
      BY <2>5 DEF TypeOK
    <3>3. observed'[p] = observed[p] \union {Steady(p)}
      BY <1>1, <2>2, <2>5, <3>1, <3>2, SteadyRun
    <3>4. observed[p] \subseteq {Steady(p)}
      BY <2>1, <2>4, <3>1, <3>2 DEF SteadyInv
    <3> QED
      BY <2>2, <2>3, <2>5, <3>1, <3>3, <3>4
  <2>6. phase' = "distill" => run' # 0
    BY <2>2, <2>3
  <2> QED
    BY <2>2, <2>3, <2>5, <2>6 DEF SteadyInv
<1>2. CASE Distill \/ Unreachable \/ OutOfTime
  BY <1>2 DEF Distill, Unreachable, OutOfTime, End, SteadyInv
<1>3. CASE Ceiling \/ CeilingRaises \/ Perturb \/ PerturbRaises \/ Inert
  <2>1. phase' \in {"bite", "ended"}
    BY <1>3 DEF Ceiling, CeilingRaises, Perturb, PerturbRaises, Inert, Conclude, End, AnotherMutant
  <2> QED
    BY <2>1 DEF SteadyInv
<1>4. CASE UNCHANGED vars
  <2>1. UNCHANGED <<served, own, phase, run, observed, disturbed>>
    BY <1>4 DEF vars
  <2>2. RepeatsItself' = RepeatsItself
    BY <2>1 DEF RepeatsItself
  <2>3. \A p \in Probes : Steady(p)' = Steady(p)
    BY <2>1 DEF Steady, Batched, FirstId, Says
  <2> QED
    BY <2>1, <2>2, <2>3 DEF SteadyInv
<1> QED
  BY <1>1, <1>2, <1>3, <1>4 DEF Next, Ended

\* Over a wire that held, a subject that repeats itself loses none of its probes, for
\* any number of runs and any chunk size.
THEOREM DeterministicProbesAreKept == Spec => []DeterministicIsKept
<1>1. Init => SteadyInv
  BY InitType DEF Init, SteadyInv
<1>2. SteadyInv => DeterministicIsKept
  <2> SUFFICES ASSUME SteadyInv, phase = "distill", ~disturbed, RepeatsItself,
                      NEW p \in Probes
               PROVE  p \in Kept
    BY DEF DeterministicIsKept, Lost, RepeatsItself
  <2>1. observed[p] = {Steady(p)}
    BY DEF SteadyInv
  <2> QED
    BY <2>1, FS_Singleton DEF Kept
<1> QED
  BY <1>1, <1>2, SteadyInductive, TypeCorrect, PTL DEF Spec

=============================================================================
