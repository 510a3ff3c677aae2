-------------------------------- MODULE Freeze --------------------------------
(***************************************************************************)
(* The call seam of one candidate: the probes are put to the reference     *)
(* several times over, what it repeats is frozen, some of that is held out *)
(* for timing, and two checks of the battery then question what was        *)
(* frozen: E1 asks the reference again, E3 asks a mutant of it.            *)
(*                                                                         *)
(* A remote subject is asked in batches.  A batch runs in one process, and *)
(* what is lost with it - a sandbox, an upload, a deadline - is written    *)
(* down as the answer, in the same form as an answer of the subject.  A    *)
(* local subject is one process that is asked probe by probe.              *)
(***************************************************************************)
EXTENDS Integers, Sequences, FiniteSets

CONSTANTS InputOf,           \* the inputs of the drawn probes, in order
          Kinds,             \* the ways in which the subject may meet an input
          MutantKinds,       \* the same, of its mutants
          Runs,              \* freeze_runs
          ChunkSize,         \* requests in one batch
          TimedCount,        \* probes wanted for timing
          DiscardInverse,    \* 1 / MAX_DISCARD_FRACTION
          MutationAttempts

Values == {"u", "v"}

\* "flaky" answers either value; "exits" ends its process quietly, "crashes" with a status.
AllKinds == Values \union {"refusal", "flaky", "exits", "crashes"}

ASSUME KindsAssumption == Kinds \subseteq AllKinds /\ MutantKinds \subseteq AllKinds
ASSUME BoundsAssumption ==
    {Runs, ChunkSize, TimedCount, DiscardInverse, MutationAttempts} \subseteq Nat \ {0}

Probes == DOMAIN InputOf
Inputs == {InputOf[p] : p \in Probes}

ASSUME ProbesAssumption == InputOf \in Seq(Inputs) /\ InputOf # << >>

\* An Observation, by what its digest tells apart; a missing reply names the request it was for.
Answer(what) == <<what, 0>>
Silence(id)  == <<"silence", id>>
Answers == {Answer(what) : what \in Values \union {"refusal", "crash", "outage", "late"}}
           \union {Silence(p) : p \in 1..(Runs * Len(InputOf))}

VARIABLES served,    \* "remote" or "local"
          own,       \* how the subject meets each input
          phase,     \* "freeze", "distill", "ceiling", "bite" or "ended"
          run,       \* freeze runs completed
          observed,  \* probe -> the answers seen, over the runs
          corpus,    \* [graded, timed: sets of probes; frozen: probe -> answer]
          ceiling,   \* E1's verdict
          attempt,   \* mutants tried
          bite,      \* E3's verdict
          outcome,   \* "pending", "passed", or what ended it
          disturbed, \* ghost: did the wire fail, or a deadline pass, while freezing?
          moved      \* ghost: did the mutant E3 concluded from differ at all?

vars == <<served, own, phase, run, observed, corpus, ceiling, attempt, bite, outcome,
          disturbed, moved>>
checks == <<ceiling, attempt, bite, moved>>

NoCorpus == [graded |-> {}, timed |-> {}, frozen |-> << >>]

Init ==
    /\ served \in {"remote", "local"}
    /\ own \in [Inputs -> Kinds]
    /\ phase = "freeze"
    /\ run = 0
    /\ observed = [p \in Probes |-> {}]
    /\ corpus = NoCorpus
    /\ ceiling = "none" /\ attempt = 0 /\ bite = "none"
    /\ outcome = "pending"
    /\ disturbed = FALSE /\ moved = FALSE

End(how) == phase' = "ended" /\ outcome' = how

-----------------------------------------------------------------------------
(* The conversation. *)

Ends(kind) == kind \in {"exits", "crashes"}

\* What a process still running says to one request; a flaky one follows the run's coin.
Says(kind, coin) == Answer(IF kind = "flaky" THEN coin ELSE kind)

\* The request whose chunk this is, counted from zero.
ChunkOf(i) == (i - 1) \div ChunkSize
First(i) == ChunkOf(i) * ChunkSize + 1

\* call_many: asked is a sequence of probes.  fate says of each chunk whether it was sent, lost
\* or, the call's deadline being past, never sent.  A process that ends takes the rest of its
\* chunk with it; one that failed before printing anything is an error of the whole chunk.
Batched(behaviour, asked, firstId, fate, coin) ==
    LET kind(i) == behaviour[InputOf[asked[i]]]
        gone(i) == \E h \in 1..i : ChunkOf(h) = ChunkOf(i) /\ Ends(kind(h))
    IN  [i \in DOMAIN asked |->
            CASE fate[ChunkOf(i)] = "late"     -> Answer("late")
              [] fate[ChunkOf(i)] = "lost"     -> Answer("outage")
              [] fate[ChunkOf(i)] = "sent" /\ kind(First(i)) = "crashes" -> Answer("crash")
              [] fate[ChunkOf(i)] = "sent" /\ kind(First(i)) # "crashes" ->
                    IF gone(i) THEN Silence(firstId + i - 1) ELSE Says(kind(i), coin)]

\* The deadline is counted from the call, so the first chunk is in time; once past it stays past.
Fates(asked) ==
    LET chunks == {ChunkOf(i) : i \in DOMAIN asked}
    IN  {fate \in [chunks -> {"sent", "lost", "late"}] :
            \A a, b \in chunks : fate[a] = "late" => a # 0 /\ (a < b => fate[b] = "late")}

AllSent(fate) == \A chunk \in DOMAIN fate : fate[chunk] = "sent"

\* One request in a process of its own, or nothing: the exception then leaves the conversation.
Single(kind, id) ==
    CASE kind = "flaky"   -> {Answer(value) : value \in Values}
      [] kind = "exits"   -> IF served = "remote" THEN {Silence(id)} ELSE {}
      [] kind = "crashes" -> {}
      [] OTHER            -> {Answer(kind)}

\* The probes of a set, in order, and the place of one of them.
InOrder(set) == SelectSeq([p \in Probes |-> p], LAMBDA p : p \in set)
Place(p, set) == Cardinality({q \in set : q <= p})

-----------------------------------------------------------------------------
(* FREEZE. *)

Asking == phase = "freeze" /\ run < Runs

Freezing == UNCHANGED <<served, own, corpus, checks>>

\* Mutant of FirstId: one RemoteSubject serves every run, and goes on counting.
FirstIdKeepsCounting == run * Len(InputOf) + 1

\* Every run has a RemoteSubject of its own, which numbers its requests from one.
FirstId == 1

\* One run over a remote subject: whatever is lost is recorded in place of an answer.
RunBatched ==
    /\ Asking /\ served = "remote"
    /\ LET asked == [p \in Probes |-> p]
       IN  \E fate \in Fates(asked), coin \in Values :
              LET answers == Batched(own, asked, FirstId, fate, coin)
              IN  /\ observed' = [p \in Probes |-> observed[p] \union {answers[p]}]
                  /\ disturbed' = (disturbed \/ ~AllSent(fate))
    /\ run' = run + 1
    /\ phase' = IF run' = Runs THEN "distill" ELSE phase
    /\ UNCHANGED outcome
    /\ Freezing

\* One run over a local subject, which must survive it.
RunSingly ==
    /\ Asking /\ served = "local"
    /\ IF \E p \in Probes : Ends(own[InputOf[p]])
       THEN End("unusable") /\ UNCHANGED <<run, observed>>
       ELSE /\ \E coin \in Values :
                  observed' = [p \in Probes |->
                                 observed[p] \union {Says(own[InputOf[p]], coin)}]
            /\ run' = run + 1
            /\ phase' = IF run' = Runs THEN "distill" ELSE phase
            /\ UNCHANGED outcome
    /\ UNCHANGED disturbed
    /\ Freezing

\* The subject could not be staged: nothing was learned, and the corpus says that is ours.
Unreachable ==
    /\ Asking /\ served = "remote"
    /\ End("unreachable")
    /\ UNCHANGED <<run, observed, disturbed>>
    /\ Freezing

\* The freeze budget is spent: looked at before a run, and between the probes of a local one.
OutOfTime ==
    /\ Asking
    /\ End("timeout")
    /\ UNCHANGED <<run, observed, disturbed>>
    /\ Freezing

Kept == {p \in Probes : Cardinality(observed[p]) = 1}
Lost == Probes \ Kept
Answered == {p \in Probes : \E answer \in observed[p] : answer[1] \in Values}

\* Mutant of Holdout: the tail is taken blindly.
HoldoutTakesTheTail ==
    {p \in Kept : Cardinality({q \in Kept : q >= p}) <= TimedCount /\ Cardinality(Kept) > TimedCount}

\* The last of the answered probes that were kept, but for one that is left to be graded.
Holdout ==
    LET usable == Kept \intersect Answered
        last(p) == Cardinality({q \in usable : q >= p})
    IN  {p \in usable : last(p) <= TimedCount /\ last(p) <= Cardinality(usable) - 1}

TheAnswer(p) == CHOOSE answer \in observed[p] : TRUE

Distil ==
    [graded |-> Kept \ Holdout, timed |-> Holdout, frozen |-> [p \in Kept |-> TheAnswer(p)]]

\* Some answer survived to be graded, the graded ones are not all alike, and enough were kept.
Usable(distilled) ==
    /\ distilled.graded \intersect Answered # {}
    /\ Cardinality({distilled.frozen[p] : p \in distilled.graded}) >= 2
    /\ Cardinality(Lost) * DiscardInverse <= Cardinality(Probes)

Distill ==
    /\ phase = "distill"
    /\ IF Usable(Distil)
       THEN corpus' = Distil /\ phase' = "ceiling" /\ UNCHANGED outcome
       ELSE End("unusable") /\ UNCHANGED corpus
    /\ UNCHANGED <<served, own, run, observed, checks, disturbed>>

-----------------------------------------------------------------------------
(* EVIDENCE. *)

Checking == UNCHANGED <<served, own, run, observed, corpus, disturbed>>

\* Mutant of Reproduces: E1 asks in batches, as the freeze did.
ReproducesBatched ==
    LET asked == InOrder(corpus.graded)
    IN  \E coin \in Values :
           LET answers == Batched(own, asked, 1, [c \in {ChunkOf(i) : i \in DOMAIN asked} |-> "sent"],
                                  coin)
           IN  \A i \in DOMAIN asked : answers[i] = corpus.frozen[asked[i]]

\* Asked again, one process per request, the reference may answer as it was frozen.
Reproduces ==
    \A p \in corpus.graded :
        corpus.frozen[p] \in Single(own[InputOf[p]], Place(p, corpus.graded))

\* Asked again, it may answer otherwise.
Differs ==
    \E p \in corpus.graded :
        Single(own[InputOf[p]], Place(p, corpus.graded)) \ {corpus.frozen[p]} # {}

Conclude(verdict) ==
    /\ ceiling' = verdict
    /\ phase' = "bite"
    /\ UNCHANGED <<attempt, bite, moved, outcome>>
    /\ Checking

Ceiling ==
    /\ phase = "ceiling"
    /\ \/ Reproduces /\ Conclude("holds")
       \/ Differs /\ Conclude("fails")

\* A request that gets no process to answer it ends the battery: SubjectFailed.
CeilingRaises ==
    /\ phase = "ceiling"
    /\ \/ served = "remote"
       \/ \E p \in corpus.graded : Single(own[InputOf[p]], 1) = {}
    /\ End("subject-failed")
    /\ UNCHANGED checks
    /\ Checking

\* What a mutant is seen to answer.
Shown(behaviour, asked) ==
    IF served = "remote"
    THEN {Batched(behaviour, asked, 1, fate, coin) : fate \in Fates(asked), coin \in Values}
    ELSE {[i \in DOMAIN asked |-> Says(behaviour[InputOf[asked[i]]], coin)] : coin \in Values}

\* Mutant of AnotherMutant: one attempt too many.
AnotherMutantInclusive == phase = "bite" /\ attempt <= MutationAttempts

AnotherMutant == phase = "bite" /\ attempt < MutationAttempts

\* One attempt: any graded answer that is not the frozen one is a divergence, and is caught.
\* A mutant that does not build is the reference itself.
Perturb ==
    /\ AnotherMutant
    /\ LET asked == InOrder(corpus.graded)
       IN  \E mutant \in [Inputs -> MutantKinds] \union {own} :
              /\ served = "local" => \A p \in corpus.graded : ~Ends(mutant[InputOf[p]])
              /\ \E answers \in Shown(mutant, asked) :
                    IF \E i \in DOMAIN asked : answers[i] # corpus.frozen[asked[i]]
                    THEN /\ bite' = "holds"
                         /\ moved' = \E p \in corpus.graded : mutant[InputOf[p]] # own[InputOf[p]]
                         /\ UNCHANGED attempt
                         /\ End(IF ceiling = "holds" THEN "passed" ELSE "refused")
                    ELSE /\ attempt' = attempt + 1
                         /\ UNCHANGED <<bite, moved, phase, outcome>>
    /\ UNCHANGED ceiling
    /\ Checking

\* A mutant that could not be staged, or a local one that died: the battery ends.
PerturbRaises ==
    /\ AnotherMutant
    /\ End("subject-failed")
    /\ UNCHANGED checks
    /\ Checking

\* Nothing this crude could make it differ.
Inert ==
    /\ phase = "bite" /\ attempt = MutationAttempts
    /\ bite' = "inconclusive"
    /\ End("refused")
    /\ UNCHANGED <<ceiling, attempt, moved>>
    /\ Checking

Ended == phase = "ended" /\ UNCHANGED vars

Next ==
    \/ RunBatched \/ RunSingly \/ Unreachable \/ OutOfTime \/ Distill
    \/ Ceiling \/ CeilingRaises \/ Perturb \/ PerturbRaises \/ Inert \/ Ended

Spec == Init /\ [][Next]_vars

-----------------------------------------------------------------------------
(* Properties. *)

\* Every variable stays within its type.
TypeOK ==
    /\ served \in {"remote", "local"}
    /\ own \in [Inputs -> Kinds]
    /\ phase \in {"freeze", "distill", "ceiling", "bite", "ended"}
    /\ run \in 0..Runs
    /\ observed \in [Probes -> SUBSET Answers]
    /\ corpus.graded \subseteq Probes /\ corpus.timed \subseteq Probes
    /\ \A p \in DOMAIN corpus.frozen : corpus.frozen[p] \in Answers
    /\ ceiling \in {"none", "holds", "fails"}
    /\ attempt \in 0..MutationAttempts
    /\ bite \in {"none", "holds", "inconclusive"}
    /\ outcome \in {"pending", "unusable", "unreachable", "timeout", "subject-failed",
                     "refused", "passed"}
    /\ {disturbed, moved} \subseteq BOOLEAN

\* What is graded is what the subject says.  The freeze records an outage, a missed
\* deadline or a neighbour's crash as an answer, and over several runs these agree
\* as well as any answer does; yet none of them is in a corpus that passed.
GradedIsWhatTheSubjectSays ==
    outcome = "passed" =>
        \A p \in corpus.graded :
            corpus.frozen[p] \in Single(own[InputOf[p]], Place(p, corpus.graded))

\* The timing workload is never asked again, and still consists of answers: a timed
\* probe was frozen as a value the subject returns for its input, never as a refusal,
\* an outage or the fate of the batch it travelled in.
TimedAreAnswers ==
    \A p \in corpus.timed :
        corpus.frozen[p] \in {Answer(value) : value \in Values} \intersect
                             Single(own[InputOf[p]], 1)

\* A probe is discarded only for a reason: over a wire that held, a subject that
\* repeats itself loses none of its probes, the ones whose process died included.
DeterministicIsKept ==
    phase = "distill" /\ ~disturbed /\ (\A p \in Probes : own[InputOf[p]] # "flaky")
        => Lost = {}

\* E3 concludes from the mutant: where it holds, the subject that was served behaves
\* differently from the reference on a graded probe.
BiteIsTheMutants == bite = "holds" => moved

\* The timed inputs are new to a submission at the moment it is timed: none of them
\* is graded as well.
HoldoutIsNew ==
    \A p \in corpus.timed, q \in corpus.graded : InputOf[p] # InputOf[q]

\* What ended a freeze that asked everything was the number of its discards: some answer
\* is left to be graded and the graded ones are not all alike, so no other gate refused it.
RefusedForItsDiscards ==
    /\ outcome = "unusable" /\ run = Runs
    /\ Distil.graded \intersect Answered # {}
    /\ Cardinality({Distil.frozen[p] : p \in Distil.graded}) >= 2
    /\ Cardinality(Lost) * DiscardInverse > Cardinality(Probes)

\* An expired sandbox is not a material failure: a remote corpus that no deadline cut short
\* is refused for its discards only because the subject does not repeat itself.
DiscardsAreTheSubjects ==
    /\ served = "remote"
    /\ RefusedForItsDiscards
    /\ \A p \in Probes : Answer("late") \notin observed[p]
    => \E p \in Probes : own[InputOf[p]] = "flaky"

=============================================================================
