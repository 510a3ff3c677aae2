----------------------------- MODULE BatchProofs -----------------------------
(***************************************************************************)
(* What TLAPS proves about a batch, for every number of candidates, every  *)
(* max_concurrent and every number of restarts.                            *)
(***************************************************************************)
EXTENDS Batch, FiniteSetTheorems, TLAPS

USE CountAssumption, LimitsAssumption, RestartsAssumption

\* The candidates that hold a permit.
Inner == InState(Inside \union {"returned"})

LEMMA InnerIsFinite == IsFiniteSet(Inner) /\ Cardinality(Inner) \in Nat
<1>1. IsFiniteSet(Candidates)
  BY FS_Interval DEF Candidates
<1>2. Inner \in SUBSET Candidates
  BY DEF Inner, InState
<1> QED
  BY <1>1, <1>2, FS_Subset, FS_CardinalityType

\* Nothing changes in the set of holders when a task goes from one state inside to another,
\* or from one outside to another.
LEMMA SameHolders ==
    ASSUME task \in [Candidates -> States], NEW c \in Candidates, NEW next \in States, Go(c, next),
           task[c] \in Inside \union {"returned"} <=> next \in Inside \union {"returned"}
    PROVE  Inner' = Inner
BY DEF Inner, InState, Go

LEMMA OneMoreHolder ==
    ASSUME task \in [Candidates -> States], NEW c \in Candidates, Go(c, "locate"),
           task[c] = "queued"
    PROVE  Cardinality(Inner') = Cardinality(Inner) + 1
<1>1. Inner' = Inner \union {c} /\ c \notin Inner
  BY DEF Inner, InState, Go, Inside
<1> QED
  BY <1>1, InnerIsFinite, FS_AddElement

LEMMA OneHolderLess ==
    ASSUME task \in [Candidates -> States], NEW c \in Candidates, Go(c, "recorded"),
           task[c] = "returned"
    PROVE  /\ Cardinality(Inner') = Cardinality(Inner) - 1
           /\ Cardinality(Inner) # 0
<1>1. Inner' = Inner \ {c} /\ c \in Inner
  BY DEF Inner, InState, Go, Inside
<1>2. Cardinality(Inner) # 0
  BY <1>1, InnerIsFinite, FS_EmptySet
<1> QED
  BY <1>1, <1>2, InnerIsFinite, FS_RemoveElement

\* No candidate holds a permit of a batch that has just been started.
LEMMA NoHolders ==
    ASSUME \A c \in Candidates : task[c] = "new"
    PROVE  Cardinality(Inner) = 0
<1>1. Inner = {}
  BY DEF Inner, InState, Inside
<1> QED
  BY <1>1, FS_EmptySet

-----------------------------------------------------------------------------
(* Types and permits: neither can be shown without the other, since it is   *)
(* the sum that keeps the semaphore within its limit.                       *)

\* A task that build_one has left has the outcome it left with.
VerdictIsGiven ==
    \A c \in Candidates : task[c] \in {"returned", "recorded"} => verdict[c] \in Outcomes

PermitInv == TypeOK /\ PermitsAddUp /\ VerdictIsGiven

LEMMA InitPermits == Init => PermitInv
<1> SUFFICES ASSUME Init PROVE PermitInv
  OBVIOUS
<1>1. TypeOK
  <2>1. limit \in Nat /\ permits \in 0..limit /\ restarts \in 0..MaxRestarts
    BY DEF Init
  <2>2. file \subseteq Candidates \X Outcomes
    BY DEF Init
  <2> QED
    BY <2>1, <2>2 DEF Init, TypeOK, States, Outcomes, Owners, Nobody
<1>2. Cardinality(Inner) = 0
  BY NoHolders DEF Init
<1> QED
  BY <1>1, <1>2 DEF Init, PermitInv, PermitsAddUp, VerdictIsGiven, Inner, TypeOK

LEMMA PermitsInductive == PermitInv /\ [Next]_vars => PermitInv'
<1> SUFFICES ASSUME PermitInv, [Next]_vars PROVE PermitInv'
  OBVIOUS
<1> USE DEF PermitInv, VerdictIsGiven
<1>0. /\ TypeOK /\ limit \in Nat /\ permits \in Nat
      /\ permits + Cardinality(Inner) = limit /\ Cardinality(Inner) \in Nat
      /\ task \in [Candidates -> States]
      /\ PermitsAddUp' <=> permits' + Cardinality(Inner') = limit'
  BY InnerIsFinite DEF PermitsAddUp, TypeOK, Inner
<1>1. ASSUME NEW c \in Candidates, Begin(c) PROVE PermitInv'
  <2>1. Inner' = Inner
    BY <1>0, <1>1, SameHolders DEF Begin, Go, Inside, States, Ended
  <2> QED
    BY <1>0, <1>1, <2>1 DEF Begin, Go, scale, TypeOK, States, Ended
<1>2. ASSUME NEW c \in Candidates, Acquire(c) PROVE PermitInv'
  <2>1. CASE Proceeds
    <3>1. Cardinality(Inner') = Cardinality(Inner) + 1
      BY <1>0, <1>2, <2>1, OneMoreHolder DEF Acquire
    <3>2. permits' + Cardinality(Inner') = limit' /\ permits' \in 0..limit'
      BY <1>0, <1>2, <2>1, <3>1 DEF Acquire
    <3> QED
      BY <1>0, <1>2, <2>1, <3>2 DEF Acquire, Go, scale, TypeOK, States, Going, Inside
  <2>2. CASE ~Proceeds
    <3>1. Inner' = Inner
      BY <1>0, <1>2, <2>2, SameHolders DEF Acquire, Inside, States, Ended
    <3> QED
      BY <1>0, <1>2, <2>2, <3>1 DEF Acquire, Go, scale, TypeOK, States, Ended
  <2> QED
    BY <2>1, <2>2
<1>3. ASSUME NEW c \in Candidates, Record(c) PROVE PermitInv'
  <2>1. Cardinality(Inner') = Cardinality(Inner) - 1 /\ Cardinality(Inner) # 0
    BY <1>0, <1>3, OneHolderLess DEF Record
  <2>2. permits' + Cardinality(Inner') = limit' /\ permits' \in 0..limit'
    BY <1>0, <1>3, <2>1 DEF Record, Released
  <2> QED
    BY <1>0, <1>3, <2>2 DEF Record, Go, scale, TypeOK, States, Going
<1>4. ASSUME NEW c \in Candidates, Checkpoint(c) PROVE PermitInv'
  <2>1. Inner' = Inner
    BY <1>0, <1>4, SameHolders DEF Checkpoint, Inside, States, Ended
  <2>2. file' \subseteq Candidates \X Outcomes
    <3>1. verdict[c] \in Outcomes /\ file \subseteq Candidates \X Outcomes
      BY <1>0, <1>4 DEF Checkpoint, TypeOK
    <3> QED
      BY <1>4, <3>1 DEF Checkpoint
  <2> QED
    BY <1>0, <1>4, <2>1, <2>2 DEF Checkpoint, Go, scale, TypeOK, States, Ended
<1>5. CASE Interrupt
  <2>1. Inner' = Inner
    BY <1>5 DEF Interrupt, Inner, InState
  <2> QED
    BY <1>0, <1>5, <2>1 DEF Interrupt, scale, TypeOK
<1>6. CASE Restart
  <2>1. Cardinality(Inner') = 0
    <3>1. Inner' = {}
      BY <1>6 DEF Restart, Inner, InState, Inside
    <3> QED
      BY <3>1, FS_EmptySet
  <2>2. Completed \subseteq Candidates
    BY <1>0 DEF Completed, TypeOK
  <2>3. limit' \in Nat /\ permits' \in 0..limit' /\ restarts' \in 0..MaxRestarts
    BY <1>0, <1>6 DEF Restart, TypeOK
  <2>4. file' \subseteq Candidates \X Outcomes
    BY <1>0, <1>6 DEF Restart, TypeOK
  <2>5. permits' + Cardinality(Inner') = limit'
    <3>1. permits' = limit'
      BY <1>6 DEF Restart
    <3>2. limit' \in Nat
      BY <2>3
    <3>3. \A n \in Nat : n + 0 = n
      OBVIOUS
    <3> QED
      BY <2>1, <3>1, <3>2, <3>3
  <2> QED
    BY <1>0, <1>6, <2>2, <2>3, <2>4, <2>5 DEF Restart, TypeOK, States, Owners, Outcomes, Nobody
<1>7. ASSUME NEW c \in Candidates, Locate(c) \/ Forget(c) \/ Describe(c) \/ Build(c) \/ Probe(c)
                                   \/ Observe(c)
      PROVE  PermitInv'
  <2>1. PICK next \in Inside : Go(c, next) /\ task[c] \in Inside /\ InThread
    BY <1>7 DEF Locate, Forget, Describe, Build, Probe, Observe, Inside
  <2>2. Inner' = Inner
    BY <1>0, <2>1, SameHolders DEF States, Going
  <2>3. {material', built', noted'} \subseteq Owners
    BY <1>0, <1>7 DEF Locate, Forget, Describe, Build, Probe, Observe, TypeOK, scale, Owners, Nobody,
                      Forgotten, Observed
  <2>4. spec' \in [Candidates -> Owners] /\ parts' \in [Candidates -> SUBSET Owners]
    BY <1>0, <1>7 DEF Locate, Forget, Describe, Build, Probe, Observe, TypeOK, Observed
  <2>5. VerdictIsGiven'
    BY <1>0, <2>1 DEF InThread, Go, Inside
  <2> QED
    BY <1>0, <2>1, <2>2, <2>3, <2>4, <2>5 DEF InThread, Go, TypeOK, States, Going
<1>8. ASSUME NEW c \in Candidates, Emit(c) \/ Refuse(c) PROVE PermitInv'
  <2>1. PICK outcome \in Outcomes : Return(c, outcome) /\ task[c] \in Inside
    BY <1>8 DEF Emit, Refuse, Outcomes, Inside
  <2>2. Inner' = Inner
    BY <1>0, <2>1, SameHolders DEF Return, States, Going
  <2>3. parts' \in [Candidates -> SUBSET Owners]
    BY <1>0, <1>8 DEF Emit, Refuse, TypeOK
  <2>4. UNCHANGED <<scale, permits, limit, stop, skipped, file, restarts>>
    BY <1>8 DEF Emit, Refuse
  <2> QED
    BY <1>0, <2>1, <2>2, <2>3, <2>4 DEF Return, Go, scale, TypeOK, States, Going, Owners, Nobody
<1>9. CASE UNCHANGED vars
  <2>1. Inner' = Inner
    BY <1>9 DEF vars, Inner, InState
  <2> QED
    BY <1>0, <1>9, <2>1 DEF vars, TypeOK
<1> QED
  BY <1>1, <1>2, <1>3, <1>4, <1>5, <1>6, <1>7, <1>8, <1>9 DEF Next, Step

\* Every variable stays within its type, the semaphore's value within its limit.
THEOREM TypeCorrect == Spec => []TypeOK
<1>1. PermitInv => TypeOK
  BY DEF PermitInv
<1> QED
  BY <1>1, InitPermits, PermitsInductive, PTL DEF Spec

\* Every way out of build_one gives its permit back, once: what is left and who is inside
\* add up to max_concurrent.
THEOREM PermitsAlwaysAddUp == Spec => []PermitsAddUp
<1>1. PermitInv => PermitsAddUp
  BY DEF PermitInv
<1> QED
  BY <1>1, InitPermits, PermitsInductive, PTL DEF Spec

-----------------------------------------------------------------------------
(* The checkpoint. *)

Settled(c) == <<c, "emitted">> \in file \/ <<c, "material">> \in file

\* Could this candidate still be built in this run of the batch?
Ahead(c) ==
    \/ task[c] \in {"queued"} \union Going
    \/ task[c] = "new" /\ c \notin skipped

\* What could still be built is not settled: skipped holds whatever was settled when the batch
\* was started, and only its own Checkpoint, its last step, settles a candidate afterwards.
CheckpointInv ==
    /\ PermitInv
    /\ \A c \in Candidates : Ahead(c) => ~Settled(c)

LEMMA InitCheckpoint == Init => CheckpointInv
<1> SUFFICES ASSUME Init PROVE CheckpointInv
  OBVIOUS
<1> QED
  BY InitPermits DEF Init, CheckpointInv, Settled

LEMMA CheckpointInductive == CheckpointInv /\ [Next]_vars => CheckpointInv'
<1> SUFFICES ASSUME CheckpointInv, [Next]_vars PROVE CheckpointInv'
  OBVIOUS
<1>0. PermitInv' /\ TypeOK /\ task \in [Candidates -> States]
  BY PermitsInductive DEF CheckpointInv, PermitInv, TypeOK
<1>1. ASSUME NEW c \in Candidates, Checkpoint(c) PROVE CheckpointInv'
  <2>1. ASSUME NEW d \in Candidates, Ahead(d)' PROVE ~Settled(d)'
    <3>1. d # c
      BY <1>0, <1>1, <2>1 DEF Checkpoint, Go, Ahead, Going, Inside
    <3>2. Ahead(d)
      BY <1>0, <1>1, <2>1, <3>1 DEF Checkpoint, Go, Ahead
    <3> QED
      BY <1>1, <3>1, <3>2 DEF Checkpoint, CheckpointInv, Settled
  <2> QED
    BY <1>0, <2>1 DEF CheckpointInv
<1>2. CASE Restart
  <2>1. skipped' = Completed /\ file' = file
    BY <1>2 DEF Restart
  <2>2. \A c \in Candidates : c \in Completed <=> Settled(c)
    BY <1>0 DEF Completed, Settled, TypeOK
  <2>4. ASSUME NEW c \in Candidates, Ahead(c)' PROVE ~Settled(c)'
    <3>1. c \notin skipped'
      BY <1>2, <2>4 DEF Restart, Ahead, Going, Inside
    <3> QED
      BY <2>1, <2>2, <3>1 DEF Settled
  <2> QED
    BY <1>0, <2>4 DEF CheckpointInv
<1>3. ASSUME UNCHANGED <<file, skipped>>,
             \A d \in Candidates : Ahead(d)' => Ahead(d)
      PROVE  CheckpointInv'
  BY <1>0, <1>3 DEF CheckpointInv, Settled
<1>4. ASSUME NEW c \in Candidates, NEW next \in States, Go(c, next), Ahead(c),
             UNCHANGED <<file, skipped>>
      PROVE  CheckpointInv'
  <2>1. \A d \in Candidates : Ahead(d)' => Ahead(d)
    BY <1>0, <1>4 DEF Go, Ahead
  <2> QED
    BY <1>3, <1>4, <2>1
<1>5. ASSUME NEW c \in Candidates, Begin(c) \/ Acquire(c) PROVE CheckpointInv'
  BY <1>4, <1>5 DEF Begin, Acquire, Ahead, States, Going, Inside, Ended
<1>6. ASSUME NEW c \in Candidates,
             Locate(c) \/ Forget(c) \/ Describe(c) \/ Build(c) \/ Probe(c) \/ Observe(c)
      PROVE  CheckpointInv'
  BY <1>4, <1>6 DEF Locate, Forget, Describe, Build, Probe, Observe, InThread, Ahead, States,
                    Going, Inside
<1>7. ASSUME NEW c \in Candidates, Emit(c) \/ Refuse(c) \/ Record(c) PROVE CheckpointInv'
  BY <1>4, <1>7 DEF Emit, Refuse, Return, Record, Ahead, States, Going, Inside
<1>8. CASE Interrupt \/ UNCHANGED vars
  <2>1. UNCHANGED <<task, file, skipped>>
    BY <1>8 DEF Interrupt, vars
  <2> QED
    BY <1>3, <2>1 DEF Ahead
<1> QED
  BY <1>1, <1>2, <1>5, <1>6, <1>7, <1>8 DEF Next, Step

\* The only way into the pipeline is through the semaphore.
LEMMA OnlyAcquireEnters ==
    ASSUME TypeOK, [Next]_vars, NEW c \in Candidates,
           \/ task[c] \notin Going /\ task'[c] \in Going
           \/ task[c] \notin Inside /\ task'[c] \in Inside
    PROVE  Acquire(c) /\ Proceeds
<1>0. task \in [Candidates -> States]
  BY DEF TypeOK
<1>1. ASSUME NEW d \in Candidates, NEW next \in States, Go(d, next), d # c \/ next \notin Going
      PROVE  FALSE
  BY <1>0, <1>1 DEF Go, Going
<1>2. ~Restart /\ ~Interrupt /\ ~UNCHANGED vars
  BY DEF Restart, Interrupt, vars, Going, Inside
<1>3. PICK d \in Candidates : Step(d)
  BY <1>2 DEF Next
<1>4. ASSUME NEW next \in States, Go(d, next), task[d] \in Going,
             task[d] \in Inside \/ next \notin Inside
      PROVE  FALSE
  BY <1>0, <1>1, <1>4 DEF Go
<1>5. ~Begin(d)
  BY <1>1 DEF Begin, States, Going, Inside, Ended
<1>6. /\ ~Locate(d) /\ ~Forget(d) /\ ~Describe(d) /\ ~Build(d) /\ ~Probe(d) /\ ~Observe(d)
      /\ ~Emit(d) /\ ~Refuse(d) /\ ~Record(d) /\ ~Checkpoint(d)
  BY <1>4 DEF Locate, Forget, Describe, Build, Probe, Observe, Emit, Refuse, Return, Record,
              Checkpoint, States, Going, Inside, Ended
<1>7. Acquire(d)
  BY <1>3, <1>5, <1>6 DEF Step
<1> QED
  BY <1>1, <1>7 DEF Acquire, States, Going, Inside, Ended

\* What the checkpoint settled is not done again.
THEOREM SettledIsNeverRepeated == Spec => SettledIsNotRepeated
<1> DEFINE Repeats(c) == task[c] \notin Going /\ task'[c] \in Going
<1>1. CheckpointInv /\ [Next]_vars =>
         [\A c \in Candidates :
             Repeats(c) => <<c, "emitted">> \notin file /\ <<c, "material">> \notin file]_vars
  <2> SUFFICES ASSUME CheckpointInv, [Next]_vars, NEW c \in Candidates, Repeats(c)
               PROVE  ~Settled(c)
    BY DEF Settled
  <2>1. TypeOK
    BY DEF CheckpointInv, PermitInv
  <2>2. Acquire(c)
    BY <2>1, OnlyAcquireEnters
  <2> QED
    BY <2>2 DEF CheckpointInv, Acquire, Ahead
<1> QED
  BY <1>1, InitCheckpoint, CheckpointInductive, PTL DEF Spec, SettledIsNotRepeated

\* After an interrupt nothing new gets into the pipeline.
THEOREM StopsMeanStop == Spec => StopMeansStop
<1>1. PermitInv /\ [Next]_vars => [stop => InState(Inside)' \subseteq InState(Inside)]_vars
  <2> SUFFICES ASSUME PermitInv, [Next]_vars, stop, NEW c \in Candidates, task'[c] \in Inside
               PROVE  task[c] \in Inside
    BY DEF InState
  <2> QED
    BY OnlyAcquireEnters DEF PermitInv, Proceeds
<1> QED
  BY <1>1, InitPermits, PermitsInductive, PTL DEF Spec, StopMeansStop

-----------------------------------------------------------------------------
(* One candidate at a time. *)

\* What the scale and the task know, stage by stage, while nobody else uses the scale.
Own(c) ==
    /\ verdict[c] # "none" => task[c] \in {"returned", "recorded"}
    /\ task[c] \in {"new", "queued", "locate", "forget", "describe", "build", "probe"} => parts[c] = {}
    /\ task[c] \in Inside \ {"locate"} => material = c
    /\ task[c] \in {"describe", "build"} => built = Nobody
    /\ task[c] \in {"probe", "observe", "emit"} => built = c
    /\ task[c] \in {"build", "probe", "observe", "emit"} => spec[c] = c
    /\ task[c] = "observe" => noted = c
    /\ task[c] \in {"observe", "emit"} => parts[c] = {c}
    /\ verdict[c] = "emitted" => parts[c] = {c}

OwnInv == PermitInv /\ (limit = 1 => \A c \in Candidates : Own(c))

\* One permit, one holder.
LEMMA OneHolder ==
    ASSUME PermitInv, limit = 1, NEW c \in Inner, NEW d \in Inner
    PROVE  c = d
<1> SUFFICES ASSUME c # d PROVE FALSE
  OBVIOUS
<1>1. Cardinality(Inner) <= 1
  <2>1. permits \in Nat /\ permits + Cardinality(Inner) = 1
    BY DEF PermitInv, PermitsAddUp, TypeOK, Inner
  <2> QED
    BY <2>1, InnerIsFinite
<1>2. Cardinality(Inner \ {c}) = Cardinality(Inner) - 1 /\ IsFiniteSet(Inner \ {c})
  BY InnerIsFinite, FS_RemoveElement
<1>3. Cardinality(Inner \ {c}) # 0
  BY <1>2, FS_EmptySet
<1>4. Cardinality(Inner \ {c}) \in Nat
  BY <1>2, FS_CardinalityType
<1> QED
  BY <1>1, <1>2, <1>3, <1>4, InnerIsFinite

LEMMA InitOwn == Init => OwnInv
<1> SUFFICES ASSUME Init PROVE OwnInv
  OBVIOUS
<1> QED
  BY InitPermits DEF Init, OwnInv, Own, Inside

\* The candidate that is inside keeps its own; the others keep theirs, for they are not inside.
LEMMA OwnInductive == OwnInv /\ [Next]_vars => OwnInv'
<1> SUFFICES ASSUME OwnInv, [Next]_vars, limit' = 1 PROVE \A d \in Candidates : Own(d)'
  BY PermitsInductive DEF OwnInv
<1>0. /\ PermitInv /\ TypeOK /\ Nobody \notin Candidates
      /\ task \in [Candidates -> States]
      /\ spec \in [Candidates -> Owners]
      /\ parts \in [Candidates -> SUBSET Owners]
      /\ verdict \in [Candidates -> Outcomes \union {"none"}]
  BY DEF OwnInv, PermitInv, TypeOK, Candidates, Nobody
<1>1. CASE Restart
  BY <1>1 DEF Restart, Own, Inside
<1>2. CASE UNCHANGED vars \/ Interrupt
  BY <1>2 DEF vars, Interrupt, OwnInv, Own, scale
<1>3. ASSUME NEW c \in Candidates, Step(c) PROVE \A d \in Candidates : Own(d)'
  <2>0. limit = 1 /\ \A d \in Candidates : Own(d)
    BY <1>3 DEF OwnInv, Step, Begin, Acquire, Locate, Forget, Describe, Build, Probe, Observe, Emit,
                Refuse, Record, Checkpoint, InThread
  <2>1. ASSUME NEW d \in Candidates, d # c PROVE Own(d)'
    <3>1. UNCHANGED <<task[d], spec[d], parts[d], verdict[d]>>
      BY <1>0, <1>3, <2>1
         DEF Step, Begin, Acquire, Locate, Forget, Describe, Build, Probe, Observe, Emit,
             Refuse, Return, Record, Checkpoint, InThread, Go
    <3>2. CASE task[c] \in Inside
      <4>1. task[d] \notin Inside
        BY <1>0, <2>0, <2>1, <3>2, OneHolder DEF Inner, InState
      <4> QED
        BY <2>0, <3>1, <4>1 DEF Own, Inside
    <3>3. CASE task[c] \notin Inside
      <4>1. UNCHANGED scale
        BY <1>3, <3>3 DEF Step, Begin, Acquire, Locate, Forget, Describe, Build, Probe, Observe, Emit,
                          Refuse, Record, Checkpoint, Inside, scale
      <4> QED
        BY <2>0, <3>1, <4>1 DEF Own, scale
    <3> QED
      BY <3>2, <3>3
  <2>2. Own(c)'
    <3> USE <1>0, <2>0 DEF Own, Go
    <3>1. CASE Begin(c)
      BY <3>1 DEF Begin, Inside, scale
    <3>2. CASE Acquire(c)
      BY <3>2 DEF Acquire, Inside, scale
    <3>3. CASE Locate(c)
      BY <3>3 DEF Locate, InThread, Inside
    <3>4. CASE Forget(c)
      BY <3>4 DEF Forget, Forgotten, InThread, Inside
    <3>5. CASE Describe(c)
      BY <3>5 DEF Describe, InThread, Inside, scale
    <3>6. CASE Build(c)
      BY <3>6 DEF Build, Observed, InThread, Inside
    <3>7. CASE Probe(c)
      BY <3>7 DEF Probe, InThread, Inside
    <3>8. CASE Observe(c)
      BY <3>8 DEF Observe, Observed, InThread, Inside
    <3>9. CASE Emit(c)
      BY <3>9 DEF Emit, Return, Inside, scale
    <3>10. CASE Refuse(c)
      BY <3>10 DEF Refuse, Return, Inside, scale
    <3>11. CASE Record(c)
      BY <3>11 DEF Record, Inside, scale
    <3>12. CASE Checkpoint(c)
      BY <3>12 DEF Checkpoint, Inside, scale
    <3> QED
      BY <1>3, <3>1, <3>2, <3>3, <3>4, <3>5, <3>6, <3>7, <3>8, <3>9, <3>10, <3>11, <3>12 DEF Step
  <2> QED
    BY <2>1, <2>2
<1> QED
  BY <1>1, <1>2, <1>3 DEF Next

\* Built one at a time, every task is made of its own candidate and nobody else's.
THEOREM OneAtATimeIsItsOwnAlways == Spec => []OneAtATimeIsItsOwn
<1>1. OwnInv => OneAtATimeIsItsOwn
  BY DEF OwnInv, Own, OneAtATimeIsItsOwn
<1> QED
  BY <1>1, InitOwn, OwnInductive, PTL DEF Spec

=============================================================================
