------------------------------ MODULE RepoProofs ------------------------------
(***************************************************************************)
(* What full marks are worth, what a workload does with its input and what *)
(* is held out for timing, for any repositories and submissions, any       *)
(* number of runs of the freeze, and any intervals of a timing.            *)
(***************************************************************************)
EXTENDS Repo, FiniteSetTheorems, SequenceTheorems, WellFoundedInduction, TLAPS

-----------------------------------------------------------------------------
(* The freeze of a channel.                                                *)

\* Runs of one scenario, and what they froze to.
Repeats == [1..Runs -> Behaviour]

\* A run answers every point it was frozen into.
LEMMA RunsMatchTheirFreeze ==
    ASSUME NEW runs \in [1..Runs -> Lines], NEW k \in 1..Runs, FreezeStream(runs).graded
    PROVE  Matches(FreezeStream(runs), runs[k])
<1> DEFINE masked == {i \in DOMAIN runs[1] : \E n \in DOMAIN runs : runs[n][i] # runs[1][i]}
<1> USE DEF Lines
<1>1. 1 \in 1..Runs /\ DOMAIN runs = 1..Runs
  BY RunsAssumption
<1>2. \A n \in 1..Runs : Len(runs[n]) = Len(runs[1]) /\ DOMAIN runs[n] = DOMAIN runs[1]
  <2>1. \A n \in 1..Runs : Len(runs[n]) = Len(runs[1])
    BY <1>1 DEF FreezeStream, Ungraded
  <2> QED
    BY <1>1, <2>1
<1>3. FreezeStream(runs).masked = masked /\ FreezeStream(runs).lines = Held(runs[1], masked)
  BY DEF FreezeStream, Ungraded
<1>4. Held(runs[k], masked) = Held(runs[1], masked)
  <2>1. \A i \in DOMAIN runs[1] : i \notin masked => runs[k][i] = runs[1][i]
    BY <1>1
  <2> QED
    BY <1>2, <2>1 DEF Held
<1>5. Len(Held(runs[1], masked)) = Len(runs[k])
  <2>1. DOMAIN Held(runs[1], masked) = 1..Len(runs[1]) /\ Len(runs[1]) \in Nat
    BY <1>1 DEF Held
  <2>2. Held(runs[1], masked) \in Seq(Line \union {Hole})
    BY <1>1 DEF Held
  <2>3. \A m, n \in Nat : 1..m = 1..n => m = n
    OBVIOUS
  <2>4. /\ Len(Held(runs[1], masked)) \in Nat
        /\ DOMAIN Held(runs[1], masked) = 1..Len(Held(runs[1], masked))
    BY <2>2, LenProperties
  <2>5. Len(Held(runs[1], masked)) = Len(runs[1])
    BY <2>1, <2>3, <2>4
  <2> QED
    BY <1>2, <2>5
<1> QED
  BY <1>3, <1>4, <1>5 DEF Matches

\* What answers a point agrees with every run of the freeze where the runs agree.
LEMMA MatchingIsAgreeing ==
    ASSUME NEW runs \in [1..Runs -> Lines], FreezeStream(runs).graded,
           NEW stream, Matches(FreezeStream(runs), stream)
    PROVE  Agrees(runs, stream)
<1> DEFINE masked == {i \in DOMAIN runs[1] : \E n \in DOMAIN runs : runs[n][i] # runs[1][i]}
           lines == FreezeStream(runs).lines
<1> USE DEF Lines
<1>1. 1 \in 1..Runs /\ DOMAIN runs = 1..Runs
  BY RunsAssumption
<1>2. FreezeStream(runs).masked = masked /\ lines = Held(runs[1], masked)
  BY DEF FreezeStream, Ungraded
<1>3. \A k \in 1..Runs : Len(stream) = Len(runs[k])
  BY RunsMatchTheirFreeze DEF Matches
<1>4. Held(stream, masked) = Held(runs[1], masked)
  BY <1>2 DEF Matches
<1>5. DOMAIN stream = DOMAIN runs[1]
  BY <1>4 DEF Held
<1>6. \A i \in DOMAIN stream : i \notin masked => stream[i] = runs[1][i]
  BY <1>4, <1>5 DEF Held
<1>7. ASSUME NEW k \in 1..Runs, NEW i \in DOMAIN stream
      PROVE  stream[i] = runs[k][i] \/ \E n \in DOMAIN runs : runs[n][i] # runs[k][i]
  <2>1. CASE i \notin masked
    BY <1>1, <1>5, <1>6, <2>1
  <2>2. CASE i \in masked
    BY <1>1, <2>2
  <2> QED
    BY <2>1, <2>2
<1> QED
  BY <1>1, <1>3, <1>7 DEF Agrees

-----------------------------------------------------------------------------
(* Scoring.                                                                *)

\* Full marks are every point of every scenario.
LEMMA FullMeansEveryPoint ==
    ASSUME NEW graded, IsFiniteSet(DOMAIN graded), NEW answers, Full(graded, answers)
    PROVE  \A s \in DOMAIN graded : \A c \in Points(graded[s]) : c \in Passed(graded[s], answers[s])
<1> DEFINE places == (DOMAIN graded) \X Channels
           all == {p \in places : p[2] \in Points(graded[p[1]])}
           had == {p \in places : p[2] \in Passed(graded[p[1]], answers[p[1]])}
<1>1. IsFiniteSet(Channels)
  <2>1. Channels = (({"exit"} \union {"stdout"}) \union {"stderr"}) \union {"tree"}
    BY DEF Channels
  <2>2. \A x : IsFiniteSet({x})
    BY FS_Singleton
  <2>3. IsFiniteSet({"exit"} \union {"stdout"})
    BY <2>2, FS_Union
  <2>4. IsFiniteSet(({"exit"} \union {"stdout"}) \union {"stderr"})
    BY <2>2, <2>3, FS_Union
  <2> QED
    BY <2>1, <2>2, <2>4, FS_Union
<1>2. IsFiniteSet(all)
  <2>1. IsFiniteSet(places)
    BY <1>1, FS_Product
  <2> QED
    BY <2>1, FS_Subset
<1>3. had \subseteq all
  BY DEF Passed
<1>4. Cardinality(had) = Cardinality(all)
  BY DEF Full, Score
<1>5. had = all
  BY <1>2, <1>3, <1>4, FS_Subset
<1> QED
  <2> SUFFICES ASSUME NEW s \in DOMAIN graded, NEW c \in Points(graded[s])
               PROVE  c \in Passed(graded[s], answers[s])
    OBVIOUS
  <2>1. <<s, c>> \in all
    BY DEF Points
  <2> QED
    BY <1>5, <2>1

LEMMA LeastNumber ==
    ASSUME NEW S \in SUBSET Nat, S # {}
    PROVE  \E x \in S : \A y \in S : x <= y
<1> DEFINE R == OpToRel(<, Nat)
<1>1. IsWellFoundedOn(R, Nat)
  BY NatLessThanWellFounded, Zenon
<1>2. R = {pair \in Nat \X Nat : pair[1] < pair[2]}
  BY Zenon DEF OpToRel
<1> HIDE DEF R
<1>3. PICK x \in S : \A y \in S : ~ (<<y, x>> \in R)
  BY <1>1, WFMin
<1>4. \A y \in S : ~(y < x)
  BY <1>2, <1>3
<1> QED
  BY <1>4

\* The worst of the shapes decides, so that a gain is one on each of them.
LEMMA GainOnEveryShape ==
    ASSUME NEW S, NEW spans \in [S -> Spans], Speedup(spans) > 100, NEW s \in S
    PROVE  spans[s].lower > 100
<1> DEFINE found == {Established(spans[x]) : x \in S}
<1>1. \A x \in S : Established(spans[x]) \in Nat
  BY SpansAssumption DEF Established
<1>2. \E x \in found : \A y \in found : x <= y
  <2>1. found \in SUBSET Nat /\ found # {}
    BY <1>1
  <2> HIDE DEF found
  <2> QED
    BY <2>1, LeastNumber
<1>3. Speedup(spans) \in found /\ \A y \in found : Speedup(spans) <= y
  <2>1. Speedup(spans) = CHOOSE x \in found : \A y \in found : x <= y
    BY DEF Speedup
  <2> HIDE DEF found
  <2> QED
    BY <1>2, <2>1
<1>4. Established(spans[s]) > 100
  <2>1. Speedup(spans) <= Established(spans[s]) /\ Speedup(spans) \in Nat
    BY <1>1, <1>3
  <2> QED
    BY <1>1, <2>1
<1>5. CASE spans[s].lower > spans[s].noise
  BY <1>4, <1>5 DEF Established
<1>6. CASE ~(spans[s].lower > spans[s].noise)
  <2>1. spans[s].upper \in Nat /\ spans[s].noise \in Nat /\ spans[s].noise >= 100
    BY SpansAssumption
  <2>2. spans[s].upper > 100 /\ spans[s].upper * spans[s].noise < 10000
    BY <1>4, <1>6 DEF Established
  <2>3. \A m, n \in Nat : m > 100 /\ n >= 100 => m * n >= 10000
    OBVIOUS
  <2> QED
    BY <2>1, <2>2, <2>3
<1> QED
  BY <1>5, <1>6

-----------------------------------------------------------------------------
(* The invariant: what is graded is what the runs froze to.                *)

FromRuns(f) == DOMAIN f \subseteq DOMAIN recorded /\ \A s \in DOMAIN f : f[s] = FreezeStep(recorded[s])

Drawn ==
    /\ project \in Projects
    /\ accepted \subseteq Scenario /\ errors \subseteq Scenario /\ controls \subseteq Scenario
    /\ selected \subseteq Scenario

Recorded ==
    /\ DOMAIN recorded \subseteq Scenario
    /\ \A s \in DOMAIN recorded : recorded[s] \in Repeats
    /\ FromRuns(frozen) /\ FromRuns(corpus.graded) /\ FromRuns(task.graded)

\* Nothing was graded before the end.
Judged == stage = "graded" \/ verdict = Untried

MarksAreTheReferences ==
    verdict.reward \in {"gain", "even", "loss"} =>
        \A s \in DOMAIN task.graded, c \in Channels :
            task.graded[s][c].graded =>
                Agrees([k \in 1..Runs |-> recorded[s][k][c]], verdict.answers[s][c])

GainsAreEverywhere ==
    verdict.reward = "gain" => \A s \in DOMAIN verdict.spans : verdict.spans[s].lower > 100

GradingInv == Drawn /\ Recorded /\ Judged /\ MarksAreTheReferences /\ GainsAreEverywhere

LEMMA NothingHasNoDomain == DOMAIN << >> = {}
OBVIOUS

LEMMA GradingStart == Init => GradingInv
<1> SUFFICES ASSUME Init PROVE GradingInv
  OBVIOUS
<1> USE DEF Init, Unusable, Untried
<1>1. Drawn
  BY DEF Drawn
<1>2. Recorded
  <2>1. recorded = << >> /\ frozen = << >> /\ corpus.graded = << >> /\ task.graded = << >>
    BY DEF Init
  <2> QED
    BY <2>1, NothingHasNoDomain DEF Recorded, FromRuns
<1>3. Judged /\ MarksAreTheReferences /\ GainsAreEverywhere
  BY DEF Judged, MarksAreTheReferences, GainsAreEverywhere
<1> QED
  BY <1>1, <1>2, <1>3 DEF GradingInv

\* A step that records nothing and grades nothing, and takes what it takes from the repository.
LEMMA QuietStep ==
    ASSUME GradingInv, UNCHANGED <<project, recorded, frozen, task, verdict>>,
           stage # "graded", Drawn', corpus'.graded = corpus.graded \/ FromRuns(corpus'.graded)
    PROVE  GradingInv'
<1>1. Recorded'
  BY DEF GradingInv, Recorded, FromRuns
<1>2. Judged' /\ verdict' = Untried
  BY DEF GradingInv, Judged
<1>3. MarksAreTheReferences' /\ GainsAreEverywhere'
  BY <1>2 DEF MarksAreTheReferences, GainsAreEverywhere, Untried
<1> QED
  BY <1>1, <1>2, <1>3 DEF GradingInv

\* A corpus grades what was frozen, some of it, or nothing.
LEMMA DistilledFromRuns ==
    ASSUME FromRuns(frozen), NEW drawn, NEW known, NEW some
    PROVE  FromRuns(Distil(drawn, known, frozen, some).graded)
<1>1. FromRuns(<< >>)
  BY DEF FromRuns
<1>2. \A S : FromRuns(Only(frozen, S))
  BY DEF FromRuns, Only
<1>3. \/ Distil(drawn, known, frozen, some).graded = << >>
      \/ Distil(drawn, known, frozen, some).graded = frozen
      \/ \E S : Distil(drawn, known, frozen, some).graded = Only(frozen, S)
  BY DEF Distil, Unusable
<1> QED
  BY <1>1, <1>2, <1>3

\* A run of the freeze is one of what the program may leave behind.
LEMMA OneLine ==
    ASSUME NEW S, NEW line \in S
    PROVE  <<line>> \in Seq(S)
OBVIOUS

LEMMA ChannelsAreLines ==
    ASSUME NEW seen \in Behaviour, NEW c \in Channels
    PROVE  seen[c] \in Lines
BY DEF Behaviour, Channels, Lines

LEMMA DoesBehave ==
    ASSUME project \in Projects, NEW s \in Scenario
    PROVE  Does(s, "given") \subseteq Behaviour
<1>1. NotFound \in Behaviour /\ [NotFound EXCEPT !.exit = <<"1">>] \in Behaviour
  <2>1. << >> \in Lines
    BY EmptySeq DEF Lines
  <2>2. <<"1">> \in Lines /\ <<"127">> \in Lines /\ <<"not found">> \in Lines
    BY LineAssumption, OneLine DEF Lines
  <2> QED
    BY <2>1, <2>2 DEF NotFound, Behaviour
<1>2. project.does[s]["given"] \subseteq Behaviour
  BY ProjectsAssumption
<1> QED
  BY <1>1, <1>2 DEF Does

LEMMA ObservedBehaves ==
    ASSUME project \in Projects, NEW s \in Scenario
    PROVE  Observed(s) \subseteq Behaviour
<1>1. << >> \in Lines
  BY EmptySeq DEF Lines
<1>2. <<"-1">> \in Lines /\ <<"[timed out]">> \in Lines /\ <<"given">> \in Lines
  BY LineAssumption, OneLine DEF Lines
<1>3. Stopped(s) \in Behaviour
  BY <1>1, <1>2 DEF Stopped, TimedOut, Behaviour
<1> QED
  BY <1>3, DoesBehave DEF Observed

LEMMA FreezeOneKeeps ==
    ASSUME GradingInv, FreezeOne
    PROVE  GradingInv'
<1> DEFINE s == CHOOSE x \in Unfrozen : TRUE
<1>1. s \in selected \ DOMAIN recorded /\ stage = "freeze" /\ UNCHANGED stage
  BY DEF FreezeOne, Unfrozen
<1>2. s \in Scenario /\ project \in Projects
  BY <1>1 DEF GradingInv, Drawn
<1> HIDE DEF s
<1>3. PICK runs \in [1..Runs -> Observed(s)] :
          /\ recorded' = With(recorded, s, runs)
          /\ frozen' = With(frozen, s, FreezeStep(runs)) \/ UNCHANGED frozen
  BY DEF FreezeOne, s
<1>4. runs \in Repeats
  BY <1>2, ObservedBehaves DEF Repeats
<1>5. /\ DOMAIN recorded' = DOMAIN recorded \union {s} /\ recorded'[s] = runs
      /\ \A t \in DOMAIN recorded : recorded'[t] = recorded[t]
  BY <1>1, <1>3 DEF With
<1>6. UNCHANGED <<project, accepted, errors, controls, selected, corpus, task, verdict>>
  BY DEF FreezeOne, chosen, sifting
<1>7. ASSUME NEW f, FromRuns(f) PROVE DOMAIN f \subseteq DOMAIN recorded' /\ \A t \in DOMAIN f : f[t] = FreezeStep(recorded'[t])
  BY <1>5, <1>7 DEF FromRuns
<1>8. Recorded'
  <2>1. DOMAIN recorded' \subseteq Scenario /\ \A t \in DOMAIN recorded' : recorded'[t] \in Repeats
    BY <1>2, <1>4, <1>5 DEF GradingInv, Recorded
  <2>2. FromRuns(corpus.graded)' /\ FromRuns(task.graded)'
    BY <1>6, <1>7 DEF GradingInv, Recorded, FromRuns
  <2>3. FromRuns(frozen)'
    <3>1. CASE UNCHANGED frozen
      BY <1>7, <3>1 DEF GradingInv, Recorded, FromRuns
    <3>2. CASE frozen' = With(frozen, s, FreezeStep(runs))
      BY <1>5, <3>2 DEF GradingInv, Recorded, FromRuns, With
    <3> QED
      BY <1>3, <3>1, <3>2
  <2> QED
    BY <2>1, <2>2, <2>3 DEF Recorded
<1>9. verdict' = Untried
  BY <1>1, <1>6 DEF GradingInv, Judged
<1> QED
  BY <1>6, <1>8, <1>9 DEF GradingInv, Drawn, Judged, MarksAreTheReferences, GainsAreEverywhere, Untried

\* Every submission answers every scenario that was frozen.
LEMMA SubmissionsAnswerAll ==
    ASSUME NEW answers \in Submitted
    PROVE  DOMAIN answers = Frozen
BY DEF Submitted, ReferenceAnswers

LEMMA RewardTakesFullMarks ==
    ASSUME NEW correct \in BOOLEAN, NEW timed \in BOOLEAN, NEW spans, NEW fits \in BOOLEAN,
           Reward(correct, timed, spans, fits) \in {"gain", "even", "loss"}
    PROVE  correct
BY DEF Reward

LEMMA GainIsSpeedup ==
    ASSUME NEW correct, NEW timed, NEW spans, NEW fits,
           Reward(correct, timed, spans, fits) = "gain"
    PROVE  Speedup(spans) > 100
BY DEF Reward

\* The verifier gives no more than half for less than every graded point.
LEMMA VerifyKeeps ==
    ASSUME GradingInv, Verify
    PROVE  GradingInv'
<1>1. UNCHANGED <<project, accepted, errors, controls, selected, recorded, frozen, corpus, task>>
      /\ stage' = "graded"
  BY DEF Verify, Go, chosen, sifting, froze
<1>2a. PICK answers \in Submitted, fits \in BOOLEAN : \E spans :
          /\ verdict' = Evaluate(answers, spans, fits)
          /\ Full(task.graded, Only(answers, DOMAIN task.graded)) => spans \in [DOMAIN task.timed -> Spans]
  BY DEF Verify
<1>2. PICK spans :
          /\ verdict' = Evaluate(answers, spans, fits)
          /\ Full(task.graded, Only(answers, DOMAIN task.graded)) => spans \in [DOMAIN task.timed -> Spans]
  BY <1>2a
<1>3. DOMAIN task.graded \subseteq Scenario /\ IsFiniteSet(DOMAIN task.graded)
  BY ScriptAssumption, FS_Subset DEF GradingInv, Recorded, FromRuns
<1> DEFINE mine == Only(answers, DOMAIN task.graded)
           timed == \A s \in DOMAIN task.timed : Passed(task.timed[s], answers[s]) = Points(task.timed[s])
<1>4. verdict'.answers = answers /\ verdict'.spans = spans
      /\ verdict'.reward = Reward(Full(task.graded, mine), timed, spans, fits)
  BY <1>2 DEF Evaluate
<1>5. verdict'.reward \in {"gain", "even", "loss"} => Full(task.graded, mine)
  <2>1. Full(task.graded, mine) \in BOOLEAN /\ timed \in BOOLEAN
    BY DEF Full
  <2> QED
    BY <1>4, <2>1, RewardTakesFullMarks
<1>6. ASSUME verdict'.reward \in {"gain", "even", "loss"},
             NEW s \in DOMAIN task.graded, NEW c \in Channels, task.graded[s][c].graded
      PROVE  Agrees([k \in 1..Runs |-> recorded[s][k][c]], answers[s][c])
  <2> DEFINE runs == [k \in 1..Runs |-> recorded[s][k][c]]
  <2>1. s \in DOMAIN recorded /\ recorded[s] \in Repeats /\ task.graded[s] = FreezeStep(recorded[s])
    BY DEF GradingInv, Recorded, FromRuns
  <2>2. runs \in [1..Runs -> Lines] /\ FreezeStep(recorded[s])[c] = FreezeStream(runs)
    BY <2>1, ChannelsAreLines DEF Repeats, FreezeStep
  <2>3. c \in Passed(task.graded[s], mine[s])
    BY <1>3, <1>5, <1>6, FullMeansEveryPoint DEF Points
  <2>4. mine[s] = answers[s]
    BY SubmissionsAnswerAll DEF Only, Frozen
  <2>5. Matches(FreezeStream(runs), answers[s][c])
    BY <2>1, <2>2, <2>3, <2>4 DEF Passed
  <2> HIDE DEF runs
  <2>6. FreezeStream(runs).graded
    BY <1>6, <2>1, <2>2
  <2>7. Agrees(runs, answers[s][c])
    BY <2>2, <2>5, <2>6, MatchingIsAgreeing
  <2> QED
    BY <2>7 DEF runs
<1>7. ASSUME verdict'.reward = "gain", NEW s \in DOMAIN spans PROVE spans[s].lower > 100
  <2>1. spans \in [DOMAIN task.timed -> Spans]
    BY <1>2, <1>5, <1>7
  <2>2. Speedup(spans) > 100
    BY <1>4, <1>7, GainIsSpeedup
  <2> QED
    BY <1>7, <2>1, <2>2, GainOnEveryShape
<1>8. Drawn' /\ Recorded' /\ Judged'
  BY <1>1 DEF GradingInv, Drawn, Recorded, Judged, FromRuns
<1>9. MarksAreTheReferences'
  BY <1>1, <1>4, <1>6 DEF MarksAreTheReferences
<1>10. GainsAreEverywhere'
  BY <1>4, <1>7 DEF GainsAreEverywhere
<1> QED
  BY <1>8, <1>9, <1>10 DEF GradingInv

-----------------------------------------------------------------------------
(* Every step.                                                             *)

LEMMA GradingStep ==
    ASSUME GradingInv, Next
    PROVE  GradingInv'
<1> USE DEF Refuse, Go, chosen, sifting, froze
<1>1. CASE Find
  BY <1>1, QuietStep DEF Find, GradingInv, Drawn
<1>2. CASE Specify
  BY <1>2, QuietStep DEF Specify, GradingInv, Drawn
<1>3. CASE Build
  BY <1>3, QuietStep DEF Build, GradingInv, Drawn
<1>4. CASE Probes
  BY <1>4, QuietStep DEF Probes, GradingInv, Drawn
<1>5. CASE SelectStep
  <2>1. PICK s \in Scenario : PassOver(s) \/ TryOnce(s) \/ TryPairs(s) \/ Invalid(s)
    BY <1>5 DEF SelectStep
  <2>2. /\ accepted' \in {accepted, accepted \union {s}} /\ errors' \in {errors, errors \union {s}}
        /\ controls' \in {controls, controls \union {s}}
    BY <2>1 DEF PassOver, TryOnce, TryPairs, Invalid
  <2>3. stage = "select" /\ UNCHANGED <<project, selected, recorded, frozen, corpus, task, verdict>>
    BY <1>5, <2>1 DEF SelectStep, PassOver, TryOnce, TryPairs, Invalid, Trial
  <2>4. Drawn'
    BY <2>2, <2>3 DEF GradingInv, Drawn
  <2> QED
    BY <2>3, <2>4, QuietStep
<1>6. CASE Selected
  <2>1. /\ stage = "select"
        /\ UNCHANGED <<project, accepted, errors, controls, recorded, frozen, corpus, task, verdict>>
    BY <1>6 DEF Selected
  <2>2. selected' \subseteq accepted \union errors \union controls \union selected
    BY <1>6 DEF Selected
  <2> QED
    BY <2>1, <2>2, QuietStep DEF GradingInv, Drawn
<1>7. CASE FreezeOne
  BY <1>7, FreezeOneKeeps
<1>8. CASE FreezeFails
  BY <1>8, QuietStep DEF FreezeFails, GradingInv, Drawn
<1>9. CASE Settle
  <2>1. FromRuns(corpus'.graded)
    BY <1>9, DistilledFromRuns DEF Settle, GradingInv, Recorded
  <2>2. stage = "freeze" /\ Drawn' /\ UNCHANGED <<project, recorded, frozen, task, verdict>>
    BY <1>9 DEF Settle, GradingInv, Drawn
  <2> QED
    BY <2>1, <2>2, QuietStep
<1>10. CASE Adequacy
  BY <1>10, QuietStep DEF Adequacy, GradingInv, Drawn
<1>11. CASE Repair
  BY <1>11, QuietStep DEF Repair, GradingInv, Drawn
<1>12. CASE Evidence
  BY <1>12, QuietStep DEF Evidence, GradingInv, Drawn
<1>13. CASE Write
  <2>1. stage = "write" /\ task'.graded = corpus.graded /\ UNCHANGED <<chosen, sifting, froze, corpus, verdict>>
    BY <1>13 DEF Write
  <2>2. Drawn' /\ Recorded'
    BY <2>1 DEF GradingInv, Drawn, Recorded, FromRuns
  <2>3. verdict' = Untried
    BY <2>1 DEF GradingInv, Judged
  <2> QED
    BY <2>2, <2>3 DEF GradingInv, Judged, MarksAreTheReferences, GainsAreEverywhere, Untried
<1>14. CASE Replay
  BY <1>14, QuietStep DEF Replay, GradingInv, Drawn
<1>15. CASE Verify
  BY <1>15, VerifyKeeps
<1> QED
  BY <1>1, <1>2, <1>3, <1>4, <1>5, <1>6, <1>7, <1>8, <1>9, <1>10, <1>11, <1>12, <1>13, <1>14, <1>15
     DEF Next

LEMMA GradingInductive == GradingInv /\ [Next]_vars => GradingInv'
<1>1. ASSUME GradingInv, UNCHANGED vars PROVE GradingInv'
  BY <1>1 DEF vars, chosen, sifting, froze, GradingInv, Drawn, Recorded, FromRuns, Judged,
              MarksAreTheReferences, GainsAreEverywhere
<1> QED
  BY <1>1, GradingStep

LEMMA GradingGivesMarks == GradingInv => FullMarksMeanTheReference
<1> SUFFICES ASSUME GradingInv PROVE FullMarksMeanTheReference
  OBVIOUS
<1>1. ASSUME NEW s \in DOMAIN corpus.graded, NEW k \in 1..Runs
      PROVE  Passed(corpus.graded[s], recorded[s][k]) = Points(corpus.graded[s])
  <2>1. recorded[s] \in Repeats /\ corpus.graded[s] = FreezeStep(recorded[s])
    BY DEF GradingInv, Recorded, FromRuns
  <2>2. ASSUME NEW c \in Points(corpus.graded[s]) PROVE Matches(corpus.graded[s][c], recorded[s][k][c])
    <3> DEFINE runs == [n \in 1..Runs |-> recorded[s][n][c]]
    <3>1. c \in Channels /\ corpus.graded[s][c].graded
      BY DEF Points
    <3>2. runs \in [1..Runs -> Lines] /\ corpus.graded[s][c] = FreezeStream(runs)
      BY <2>1, <3>1, ChannelsAreLines DEF Repeats, FreezeStep
    <3>3. runs[k] = recorded[s][k][c]
      OBVIOUS
    <3> HIDE DEF runs
    <3> QED
      BY <3>1, <3>2, <3>3, RunsMatchTheirFreeze
  <2> QED
    BY <2>2 DEF Passed
<1> QED
  BY <1>1 DEF GradingInv, MarksAreTheReferences, GainsAreEverywhere, FullMarksMeanTheReference

\* Whatever the repository does and whatever is submitted: more than half the score is given only
\* to a submission that agreed, on every graded channel, with every run of the freeze wherever
\* the runs agree; a gain only if one was established on every workload; and no run of the freeze
\* would lose a point (src/frf/observe/process/observation.py:83-175, src/frf/core/timing.py:150-161,
\* the verifier in src/frf/scales/repo.py:2358-2391).
THEOREM FullMarksAlwaysMeanTheReference == Spec => []FullMarksMeanTheReference
BY GradingStart, GradingInductive, GradingGivesMarks, PTL DEF Spec

-----------------------------------------------------------------------------
(* What is held out for timing.                                            *)

Preferred(s, t, picked, known) == Better(s, t, picked, known) /\ ~Better(t, s, picked, known)

LEMMA WorthIsNumber ==
    ASSUME NEW s, NEW picked, NEW known
    PROVE  Worth(s, picked, known) \in 0..3
BY DEF Worth

LEMMA BytesIsNumber ==
    ASSUME NEW s \in Scenario, NEW known
    PROVE  Bytes(s, known) \in Nat
BY ScriptAssumption DEF Bytes

\* Of any workloads one comes first: the one that fewest are preferred to.
LEMMA SomeoneComesFirst ==
    ASSUME NEW S \in SUBSET Scenario, S # {}, NEW picked, NEW known
    PROVE  \E s \in S : \A t \in S : Better(s, t, picked, known)
<1> DEFINE Sooner(s) == {t \in S : Preferred(t, s, picked, known)}
           sizes == {Cardinality(Sooner(s)) : s \in S}
<1>1. IsFiniteSet(S)
  BY ScriptAssumption, FS_Subset
<1>2. \A s \in S : IsFiniteSet(Sooner(s)) /\ Cardinality(Sooner(s)) \in Nat
  BY <1>1, FS_Subset, FS_CardinalityType
<1>3. PICK s \in S : \A t \in S : Cardinality(Sooner(s)) <= Cardinality(Sooner(t))
  <2>1. sizes \in SUBSET Nat /\ sizes # {}
    BY <1>2
  <2>2. PICK n \in sizes : \A m \in sizes : n <= m
    <3> HIDE DEF sizes
    <3> QED
      BY <2>1, LeastNumber
  <2> QED
    BY <2>2
<1>4. ASSUME NEW t \in S PROVE Better(s, t, picked, known)
  <2>1. \A x \in S : Worth(x, picked, known) \in 0..3 /\ Bytes(x, known) \in Nat
    BY WorthIsNumber, BytesIsNumber
  <2>2. CASE Better(t, s, picked, known) /\ ~Better(s, t, picked, known)
    <3>1. Sooner(t) \subseteq Sooner(s)
      BY <2>1, <2>2 DEF Preferred, Better
    <3>2. t \in Sooner(s) /\ t \notin Sooner(t)
      BY <2>2 DEF Preferred
    <3>3. Cardinality(Sooner(t)) # Cardinality(Sooner(s)) /\ Cardinality(Sooner(t)) <= Cardinality(Sooner(s))
      <4> HIDE DEF Sooner
      <4> QED
        BY <1>2, <3>1, <3>2, FS_Subset
    <3> HIDE DEF Sooner
    <3> QED
      BY <1>2, <1>3, <3>3
  <2>3. Better(s, t, picked, known) \/ Better(t, s, picked, known)
    BY <2>1 DEF Better
  <2> QED
    BY <2>2, <2>3
<1> QED
  BY <1>4

\* Of every family that is timed there is one that is not.
Companioned(working, picked) ==
    /\ picked \subseteq working
    /\ \A s \in picked : \E t \in working \ picked : Family(t) = Family(s)

LEMMA HoldOutLeavesCompany ==
    ASSUME NEW working \in SUBSET Scenario, NEW known, NEW had, Companioned(working, had)
    PROVE  Companioned(working, HoldOut(working, known, had))
<1> DEFINE spare == Spare(working, had)
           s == CHOOSE x \in spare : \A y \in spare : Better(x, y, had, known)
<1>1. CASE spare = {}
  BY <1>1 DEF HoldOut
<1>2. CASE spare # {}
  <2>1. HoldOut(working, known, had) = had \union {s}
    BY <1>2 DEF HoldOut
  <2>2. s \in spare
    <3>1. spare \in SUBSET Scenario
      BY DEF Spare
    <3> HIDE DEF spare
    <3>2. \E x \in spare : \A y \in spare : Better(x, y, had, known)
      BY <1>2, <3>1, SomeoneComesFirst
    <3> QED
      BY <3>2
  <2> DEFINE all == {t \in working : Family(t) = Family(s)}
             out == {t \in had : Family(t) = Family(s)}
  <2>3. s \in working \ had /\ Cardinality(all) - Cardinality(out) > 1
    BY <2>2 DEF Spare
  <2> HIDE DEF s
  <2>4. had \subseteq working /\ IsFiniteSet(all) /\ IsFiniteSet(out)
    BY ScriptAssumption, FS_Subset DEF Companioned
  <2>5. PICK t \in all : t \notin out \union {s}
    <3>1. CASE all \subseteq out \union {s}
      <4>1. Cardinality(out \union {s}) = Cardinality(out) + 1 /\ IsFiniteSet(out \union {s})
        BY <2>3, <2>4, FS_AddElement
      <4>2. Cardinality(all) <= Cardinality(out) + 1
        BY <3>1, <4>1, FS_Subset
      <4>3. Cardinality(all) \in Nat /\ Cardinality(out) \in Nat
        BY <2>4, FS_CardinalityType
      <4> QED
        BY <2>3, <4>2, <4>3
    <3> QED
      BY <3>1
  <2>6. ASSUME NEW u \in had \union {s}
        PROVE  \E v \in working \ (had \union {s}) : Family(v) = Family(u)
    <3>1. CASE Family(u) = Family(s)
      BY <2>5, <3>1
    <3>2. CASE Family(u) # Family(s)
      BY <2>6, <3>2 DEF Companioned
    <3> QED
      BY <3>1, <3>2
  <2> QED
    BY <2>1, <2>3, <2>4, <2>6 DEF Companioned
<1> QED
  BY <1>1, <1>2

\* Up to three are held out, one after another.
LEMMA PickedOneByOne ==
    ASSUME NEW working, NEW known
    PROVE  LET room == Cardinality(working) - 1
               one == IF 1 > room THEN {} ELSE HoldOut(working, known, {})
               two == IF 2 > room THEN one ELSE HoldOut(working, known, one)
           IN  PickTimed(working, known, 3) = IF 3 > room THEN two ELSE HoldOut(working, known, two)
<1> DEFINE room == Cardinality(working) - 1
           one == IF 1 > room THEN {} ELSE HoldOut(working, known, {})
           two == IF 2 > room THEN one ELSE HoldOut(working, known, one)
           three == IF 3 > room THEN two ELSE HoldOut(working, known, two)
           Def(f, k) == IF k = 0 THEN {}
                        ELSE IF k > room THEN f[k - 1] ELSE HoldOut(working, known, f[k - 1])
           Picked == CHOOSE f : f = [k \in 0..3 |-> Def(f, k)]
           by == [k \in 0..3 |-> IF k = 0 THEN {} ELSE IF k = 1 THEN one ELSE IF k = 2 THEN two ELSE three]
<1>1. PickTimed(working, known, 3) = Picked[3]
  BY DEF PickTimed
<1>2. by = [k \in 0..3 |-> Def(by, k)]
  <2>1. by[0] = {} /\ by[1] = one /\ by[2] = two /\ by[3] = three
    OBVIOUS
  <2>2. ASSUME NEW k \in 0..3 PROVE by[k] = Def(by, k)
    <3>1. k = 0 \/ k = 1 \/ k = 2 \/ k = 3
      OBVIOUS
    <3> HIDE DEF by
    <3> QED
      BY <2>1, <3>1
  <2> QED
    BY <2>2
<1>3. Picked = [k \in 0..3 |-> Def(Picked, k)]
  <2> HIDE DEF by, Def
  <2> QED
    BY <1>2
<1> HIDE DEF Picked
<1>4. Picked[0] = {} /\ Picked[1] = one /\ Picked[2] = two /\ Picked[3] = three
  <2>1. Picked[0] = Def(Picked, 0) /\ Picked[1] = Def(Picked, 1)
        /\ Picked[2] = Def(Picked, 2) /\ Picked[3] = Def(Picked, 3)
    <3> HIDE DEF Def
    <3> QED
      BY <1>3
  <2>2. Picked[0] = {}
    BY <2>1
  <2>3. Picked[1] = one
    BY <2>1, <2>2
  <2>4. Picked[2] = two
    BY <2>1, <2>3
  <2> QED
    BY <2>1, <2>2, <2>3, <2>4
<1> QED
  BY <1>1, <1>4

LEMMA TimedHaveCompany ==
    ASSUME NEW working \in SUBSET Scenario, NEW known
    PROVE  Companioned(working, PickTimed(working, known, 3))
<1> DEFINE room == Cardinality(working) - 1
           one == IF 1 > room THEN {} ELSE HoldOut(working, known, {})
           two == IF 2 > room THEN one ELSE HoldOut(working, known, one)
<1>1. Companioned(working, {})
  BY DEF Companioned
<1>2. Companioned(working, one)
  BY <1>1, HoldOutLeavesCompany
<1>3. Companioned(working, two)
  <2> HIDE DEF one
  <2> QED
    BY <1>2, HoldOutLeavesCompany
<1>4. Companioned(working, IF 3 > room THEN two ELSE HoldOut(working, known, two))
  <2> HIDE DEF two
  <2> QED
    BY <1>3, HoldOutLeavesCompany
<1> QED
  BY <1>4, PickedOneByOne

-----------------------------------------------------------------------------
(* The invariant: workloads touch their input, and what is timed is held   *)
(* out of what is graded.                                                  *)

Touched == project.reads \union project.writes \union project.random

Unobserved == stage \in {"find", "specify", "build"}
Selecting == Unobserved \/ stage \in {"probes", "select"}
Unsettled == Selecting \/ stage = "freeze"

\* Nothing is run before there is something to run, nothing frozen before it is selected, and
\* no corpus is usable before its freeze has ended.
InOrder ==
    /\ Unobserved => accepted = {} /\ errors = {}
    /\ Selecting => DOMAIN recorded = {}
    /\ Unsettled => ~corpus.usable /\ DOMAIN corpus.timed = {}

\* What selection established.
Sifted ==
    /\ accepted \subseteq Touched
    /\ \A s \in errors : s \in project.random \/ \A seen \in Does(s, "given") : seen.exit # Zero
    /\ \A s \in controls : Script[s].kind = "control"
    /\ selected \subseteq accepted \union errors \union controls

\* Each run of the freeze is something the program may leave behind.
Run ==
    /\ DOMAIN recorded \subseteq selected
    /\ \A s \in DOMAIN recorded : recorded[s] \in [1..Runs -> Observed(s)]
    /\ FromRuns(corpus.timed)

TimedTouched == DOMAIN corpus.timed \subseteq Touched

InputInv == InOrder /\ Sifted /\ Run /\ TimedTouched /\ HeldOutWorkloads

LEMMA InputStart == Init => InputInv
<1> SUFFICES ASSUME Init PROVE InputInv
  OBVIOUS
<1>1. recorded = << >> /\ corpus = Unusable("") /\ accepted = {} /\ errors = {} /\ controls = {} /\ selected = {}
  BY DEF Init
<1>2. ~corpus.usable /\ DOMAIN corpus.timed = {} /\ DOMAIN recorded = {}
  BY <1>1, NothingHasNoDomain DEF Unusable
<1> QED
  BY <1>1, <1>2 DEF InputInv, InOrder, Sifted, Run, TimedTouched, HeldOutWorkloads, FromRuns

\* A step that leaves the selection, the runs and the corpus alone.
LEMMA InputQuietStep ==
    ASSUME InputInv,
           UNCHANGED <<project, present, accepted, errors, controls, selected, recorded, corpus>>,
           Unobserved' => Unobserved, Selecting' => Selecting, Unsettled' => Unsettled
    PROVE  InputInv'
<1>1. InOrder'
  BY DEF InputInv, InOrder
<1>2. Sifted' /\ Run' /\ TimedTouched'
  BY DEF InputInv, Sifted, Run, TimedTouched, Touched, Observed, Does, FromRuns
<1>3. HeldOutWorkloads'
  BY DEF InputInv, HeldOutWorkloads
<1> QED
  BY <1>1, <1>2, <1>3 DEF InputInv

\* What is not the same from run to run is told apart; everything else does one thing.
LEMMA OneBehaviour ==
    ASSUME project \in Projects, NEW s \in Scenario, s \notin project.random,
           NEW seen \in Does(s, "given"), NEW again \in Does(s, "given")
    PROVE  seen = again
<1>1. Does(s, "given") = {NotFound} \/ Does(s, "given") = {[NotFound EXCEPT !.exit = <<"1">>]}
      \/ Does(s, "given") = project.does[s]["given"]
  BY DEF Does
<1>2. seen \in project.does[s]["given"] /\ again \in project.does[s]["given"] => seen = again
  BY InputsAssumption
<1> QED
  BY <1>1, <1>2

\* An input that is left alone makes no difference to the signature of a run.
LEMMA LeftAloneLooksTheSame ==
    ASSUME NEW s \in Scenario, NEW seen \in Behaviour, NEW changed, LeftAlone(s, seen, changed)
    PROVE  Signature(s, seen, "given") = Signature(s, changed, "changed")
<1>1. CASE Script[s].kind # "path"
  BY <1>1 DEF LeftAlone, Signature
<1>2. CASE Script[s].kind = "path"
  <2> DEFINE was == [i \in DOMAIN seen.tree |->
                IF seen.tree[i] = "given" THEN "unchanged-input" ELSE seen.tree[i]]
             is == [i \in DOMAIN changed.tree |->
                IF changed.tree[i] = "changed" THEN "unchanged-input" ELSE changed.tree[i]]
  <2>1. /\ changed = [seen EXCEPT !.tree = [i \in DOMAIN seen.tree |->
                          IF seen.tree[i] = "given" THEN "changed" ELSE seen.tree[i]]]
        /\ \A i \in DOMAIN seen.tree : seen.tree[i] # "changed"
    BY <1>2 DEF LeftAlone
  <2>2. changed.tree = [i \in DOMAIN seen.tree |->
                          IF seen.tree[i] = "given" THEN "changed" ELSE seen.tree[i]]
    BY <2>1 DEF Behaviour
  <2>3. was = is
    BY <2>1, <2>2
  <2>4. Signature(s, seen, "given") = [seen EXCEPT !.tree = was]
        /\ Signature(s, changed, "changed") = [changed EXCEPT !.tree = is]
    BY <1>2 DEF Signature
  <2> HIDE DEF was, is
  <2>5. [changed EXCEPT !.tree = is] = [seen EXCEPT !.tree = is]
    BY <2>1 DEF Behaviour
  <2> QED
    BY <2>3, <2>4, <2>5
<1> QED
  BY <1>1, <1>2

\* A run that succeeds comes from the program itself.
LEMMA SuccessIsTheProgram ==
    ASSUME NEW s, NEW seen \in Does(s, "given"), seen.exit = Zero
    PROVE  \A input : Does(s, input) = project.does[s][input]
<1>1. NotFound.exit[1] = "127" /\ [NotFound EXCEPT !.exit = <<"1">>].exit[1] = "1" /\ Zero[1] = "0"
  BY DEF NotFound, Zero
<1>2. seen # NotFound /\ seen # [NotFound EXCEPT !.exit = <<"1">>]
  BY <1>1
<1> QED
  BY <1>2 DEF Does

LEMMA SelectKeepsInput ==
    ASSUME GradingInv, InputInv, SelectStep
    PROVE  InputInv'
<1>1. PICK s \in Scenario : PassOver(s) \/ TryOnce(s) \/ TryPairs(s) \/ Invalid(s)
  BY DEF SelectStep
<1>2. /\ stage = "select"
      /\ UNCHANGED <<project, backend, cross, stage, present, selected, recorded, frozen, corpus, task>>
  BY <1>1 DEF SelectStep, PassOver, TryOnce, TryPairs, Invalid, Trial, chosen, froze
<1>3. project \in Projects
  BY DEF GradingInv, Drawn
<1>4. accepted' \subseteq Touched
  <2>1. CASE UNCHANGED accepted
    BY <2>1 DEF InputInv, Sifted
  <2>2. CASE TryPairs(s) /\ accepted' = accepted \union {s} /\ s \notin Touched
    <3>1. PICK seen \in Does(s, "given"), changed \in Does(s, "changed") :
             seen.exit = Zero /\ (accepted' # accepted => Signature(s, seen, "given") # Signature(s, changed, "changed"))
      BY <2>2 DEF TryPairs
    <3>2. Perturbable(s)
      BY <2>2 DEF TryPairs
    <3>3. seen \in project.does[s]["given"] /\ changed \in project.does[s]["changed"]
      BY <3>1, SuccessIsTheProgram
    <3>4. s \notin project.random /\ s \notin project.reads \union project.writes
      BY <2>2 DEF Touched
    <3>5. LeftAlone(s, seen, changed) /\ seen \in Behaviour
      BY <1>3, <3>2, <3>3, <3>4, InputsAssumption, ProjectsAssumption
    <3> QED
      BY <2>1, <3>1, <3>5, LeftAloneLooksTheSame
  <2>3. CASE accepted' = accepted \union {s} /\ s \in Touched
    BY <2>3 DEF InputInv, Sifted
  <2>4. UNCHANGED accepted \/ (TryPairs(s) /\ accepted' = accepted \union {s})
    BY <1>1 DEF PassOver, TryOnce, TryPairs, Invalid
  <2> QED
    BY <2>1, <2>2, <2>3, <2>4
<1>5. ASSUME NEW t \in errors'
      PROVE  t \in project.random \/ \A seen \in Does(t, "given") : seen.exit # Zero
  <2>1. CASE t \in errors
    BY <2>1 DEF InputInv, Sifted
  <2>2. CASE t \notin errors
    <3>1. t = s /\ TryOnce(s)
      BY <1>1, <1>5, <2>2 DEF PassOver, TryOnce, TryPairs, Invalid
    <3>2. PICK seen \in Does(s, "given") \union {TimedOut} : ~Incomplete(seen) /\ seen.exit # Zero
      BY <1>5, <2>2, <3>1 DEF TryOnce
    <3>3. seen \in Does(s, "given")
      <4>1. TimedOut.exit = <<"-1">>
        BY DEF TimedOut
      <4>2. seen # TimedOut
        BY <3>2, <4>1 DEF Incomplete
      <4> QED
        BY <4>2
    <3> QED
      BY <1>3, <3>1, <3>2, <3>3, OneBehaviour
  <2> QED
    BY <2>1, <2>2
<1>6. \A t \in controls' : Script[t].kind = "control"
  <2>1. controls' = controls \/ (controls' = controls \union {s} /\ Script[s].kind = "control")
    BY <1>1 DEF PassOver, TryOnce, TryPairs, Invalid
  <2> QED
    BY <2>1 DEF InputInv, Sifted
<1>7. accepted \subseteq accepted' /\ errors \subseteq errors' /\ controls \subseteq controls'
  BY <1>1 DEF PassOver, TryOnce, TryPairs, Invalid
<1>8. Sifted'
  BY <1>2, <1>4, <1>5, <1>6, <1>7 DEF InputInv, Sifted, Touched, Does
<1>9. InOrder' /\ Run' /\ TimedTouched'
  BY <1>2 DEF InputInv, InOrder, Unobserved, Selecting, Unsettled, Run, TimedTouched, Touched, Observed, Does, FromRuns
<1>10. HeldOutWorkloads'
  BY <1>2 DEF InputInv, InOrder, Unsettled, Selecting, HeldOutWorkloads
<1> QED
  BY <1>8, <1>9, <1>10 DEF InputInv

LEMMA FreezeKeepsInput ==
    ASSUME GradingInv, InputInv, FreezeOne
    PROVE  InputInv'
<1> DEFINE s == CHOOSE x \in Unfrozen : TRUE
<1>1. s \in selected \ DOMAIN recorded /\ stage = "freeze" /\ UNCHANGED stage
  BY DEF FreezeOne, Unfrozen
<1> HIDE DEF s
<1>2. PICK runs \in [1..Runs -> Observed(s)] : recorded' = With(recorded, s, runs)
  BY DEF FreezeOne, s
<1>3. /\ DOMAIN recorded' = DOMAIN recorded \union {s} /\ recorded'[s] = runs
      /\ \A t \in DOMAIN recorded : recorded'[t] = recorded[t]
  BY <1>1, <1>2 DEF With
<1>4. UNCHANGED <<project, present, accepted, errors, controls, selected, corpus>>
  BY DEF FreezeOne, chosen, sifting
<1>5. InOrder' /\ ~corpus'.usable /\ DOMAIN corpus'.timed = {}
  BY <1>1, <1>4 DEF InputInv, InOrder, Unobserved, Selecting, Unsettled
<1>6. Sifted' /\ TimedTouched'
  BY <1>4 DEF InputInv, Sifted, TimedTouched, Touched, Does
<1>7. Run'
  <2>1. ASSUME NEW t \in DOMAIN recorded' PROVE recorded'[t] \in [1..Runs -> Observed(t)]
    BY <1>2, <1>3 DEF InputInv, Run
  <2>2. DOMAIN recorded' \subseteq selected
    BY <1>1, <1>3 DEF InputInv, Run
  <2> QED
    BY <1>4, <1>5, <2>1, <2>2 DEF Run, FromRuns, Observed, Does
<1>8. HeldOutWorkloads'
  BY <1>5 DEF HeldOutWorkloads
<1> QED
  BY <1>5, <1>6, <1>7, <1>8 DEF InputInv

\* An exit code that is graded, with no line of it held out, is that of every run.
LEMMA FrozenSuccessIsEveryRuns ==
    ASSUME NEW runs \in Repeats, NEW k \in 1..Runs,
           FreezeStep(runs).exit.graded, FreezeStep(runs).exit.lines = Zero
    PROVE  runs[k].exit = Zero
<1> DEFINE exits == [n \in 1..Runs |-> runs[n].exit]
           masked == {i \in DOMAIN exits[1] : \E n \in DOMAIN exits : exits[n][i] # exits[1][i]}
<1>1. FreezeStep(runs).exit = FreezeStream(exits)
  BY DEF FreezeStep, Channels, Repeats
<1>2. exits \in [1..Runs -> Lines] /\ 1 \in 1..Runs
  BY RunsAssumption DEF Repeats, Behaviour
<1> HIDE DEF exits
<1>3. FreezeStream(exits).graded /\ FreezeStream(exits).lines = Zero
  BY <1>1
<1>4. /\ \A n \in 1..Runs : Len(exits[n]) = Len(exits[1])
      /\ Held(exits[1], masked) = Zero
  BY <1>2, <1>3 DEF FreezeStream, Ungraded
<1>5. DOMAIN exits[1] = {1} /\ Held(exits[1], masked)[1] = "0"
  <2>1. DOMAIN Held(exits[1], masked) = DOMAIN exits[1]
    BY DEF Held
  <2> QED
    BY <1>4, <2>1 DEF Zero
<1>6. 1 \notin masked /\ exits[1][1] = "0"
  BY <1>5 DEF Held, Hole
<1>7. exits[k][1] = "0" /\ DOMAIN exits[k] = {1}
  <2>1. exits[k][1] = exits[1][1]
    BY <1>2, <1>5, <1>6
  <2>2. DOMAIN exits[k] = DOMAIN exits[1]
    BY <1>2, <1>4 DEF Lines
  <2> QED
    BY <1>5, <1>6, <2>1, <2>2
<1>8. exits[k] = Zero
  <2>1. exits[k] \in Seq(Line) /\ Zero = [i \in {1} |-> "0"]
    BY <1>2 DEF Lines, Zero
  <2>2. exits[k] = [i \in {1} |-> exits[k][i]]
    BY <1>7, <2>1
  <2> QED
    BY <1>7, <2>1, <2>2
<1> QED
  BY <1>8 DEF exits

\* Everything about the corpus a freeze ends in that the two properties ask for.
LEMMA SettleKeepsInput ==
    ASSUME GradingInv, InputInv, Settle
    PROVE  InputInv'
<1> DEFINE working == Eligible(frozen)
           timed == PickTimed(working, accepted, 3)
<1>1. corpus' = Distil(selected, accepted, frozen, ran)
      /\ UNCHANGED <<project, present, accepted, errors, controls, selected, recorded, frozen>>
      /\ stage' \in {"adequacy", "refused"}
  BY DEF Settle, Go, Refuse, chosen, sifting, froze
<1>2. FromRuns(frozen) /\ DOMAIN frozen \subseteq Scenario
  BY DEF GradingInv, Recorded, FromRuns
<1>3. Companioned(working, timed)
  <2>1. working \in SUBSET Scenario
    BY <1>2 DEF Eligible
  <2> HIDE DEF working
  <2> QED
    BY <2>1, TimedHaveCompany
<1>4. working \subseteq DOMAIN frozen
  BY DEF Eligible
<1>5. \A s \in working : \A k \in 1..Runs : recorded[s][k].exit = Zero
  <2> SUFFICES ASSUME NEW s \in working, NEW k \in 1..Runs PROVE recorded[s][k].exit = Zero
    OBVIOUS
  <2>1. frozen[s] = FreezeStep(recorded[s]) /\ recorded[s] \in Repeats
    BY <1>2, <1>4 DEF GradingInv, Recorded, FromRuns
  <2>2. frozen[s].exit.graded /\ frozen[s].exit.lines = Zero
    BY DEF Eligible
  <2> QED
    BY <2>1, <2>2, FrozenSuccessIsEveryRuns
<1>6. \A s \in working : s \in accepted \union errors
  <2> SUFFICES ASSUME NEW s \in working PROVE s \in accepted \union errors
    OBVIOUS
  <2>1. s \in accepted \union errors \union controls
    BY <1>2, <1>4 DEF FromRuns, InputInv, Run, Sifted
  <2>2. Script[s].kind # "control"
    BY DEF Eligible, Timeable
  <2> QED
    BY <2>1, <2>2 DEF InputInv, Sifted
<1>7. working \subseteq Touched
  <2> SUFFICES ASSUME NEW s \in working, s \notin accepted PROVE s \in project.random
    BY DEF InputInv, Sifted, Touched
  <2>1. recorded[s][1].exit = Zero /\ recorded[s][1] \in Observed(s)
    <3>1. s \in DOMAIN recorded /\ 1 \in 1..Runs
      BY <1>2, <1>4, RunsAssumption DEF FromRuns
    <3> QED
      BY <1>5, <3>1 DEF InputInv, Run
  <2>2. Stopped(s).exit[1] = "-1" /\ Zero[1] = "0"
    BY DEF Stopped, TimedOut, Zero
  <2>3. recorded[s][1] \in Does(s, "given")
    BY <2>1, <2>2 DEF Observed
  <2> QED
    BY <1>6, <2>1, <2>3 DEF InputInv, Sifted
<1> HIDE DEF working, timed
<1>8. \/ DOMAIN corpus'.timed = {} /\ ~corpus'.usable
      \/ /\ timed # {}
         /\ corpus'.timed = Only(frozen, timed) /\ corpus'.graded = Only(frozen, DOMAIN frozen \ timed)
  <2> DEFINE all == Distil(selected, accepted, frozen, ran)
  <2>1. \/ all \in {Unusable("never found"), Unusable("did no work"), Unusable("only error paths graded")}
        \/ all = [Unusable("nothing to time") EXCEPT !.graded = frozen]
        \/ /\ timed # {}
           /\ \E usable : all = [usable |-> usable, why |-> "", timed |-> Only(frozen, timed),
                                 graded |-> Only(frozen, DOMAIN frozen \ timed)]
    BY Zenon DEF Distil, timed, working
  <2>2. ASSUME NEW reason
        PROVE  /\ Unusable(reason).timed = << >> /\ ~Unusable(reason).usable
               /\ [Unusable(reason) EXCEPT !.graded = frozen].timed = << >>
               /\ ~[Unusable(reason) EXCEPT !.graded = frozen].usable
    BY DEF Unusable
  <2>3. corpus' = all
    BY <1>1
  <2> HIDE DEF all
  <2>4. CASE \/ all \in {Unusable("never found"), Unusable("did no work"), Unusable("only error paths graded")}
             \/ all = [Unusable("nothing to time") EXCEPT !.graded = frozen]
    <3>1. all.timed = << >> /\ ~all.usable
      BY <2>2, <2>4
    <3> QED
      BY <2>3, <3>1, NothingHasNoDomain
  <2>5. ASSUME timed # {}, NEW usable,
               all = [usable |-> usable, why |-> "", timed |-> Only(frozen, timed),
                      graded |-> Only(frozen, DOMAIN frozen \ timed)]
        PROVE  corpus'.timed = Only(frozen, timed) /\ corpus'.graded = Only(frozen, DOMAIN frozen \ timed)
    BY <2>3, <2>5
  <2> QED
    BY <2>1, <2>4, <2>5, Zenon
<1>9. timed \subseteq working /\ \A S : DOMAIN Only(frozen, S) = DOMAIN frozen \cap S
  BY <1>3 DEF Companioned, Only
<1>10. DOMAIN corpus'.timed \subseteq working
  BY <1>8, <1>9
<1>11. FromRuns(corpus.timed)'
  <2>1. CASE DOMAIN corpus'.timed = {}
    BY <2>1 DEF FromRuns
  <2>2. CASE corpus'.timed = Only(frozen, timed)
    BY <1>1, <1>2, <2>2 DEF FromRuns, Only
  <2> QED
    BY <1>8, <2>1, <2>2
<1>12. HeldOutWorkloads'
  <2> SUFFICES ASSUME corpus'.usable PROVE HeldOutWorkloads'
    BY DEF HeldOutWorkloads
  <2>1. DOMAIN corpus'.timed = timed /\ timed # {} /\ DOMAIN corpus'.graded = DOMAIN frozen \ timed
    BY <1>4, <1>8, <1>9
  <2>2. ASSUME NEW s \in timed PROVE \E t \in DOMAIN frozen \ timed : t \in working /\ Family(t) = Family(s)
    BY <1>3, <1>4 DEF Companioned
  <2> QED
    BY <1>1, <1>5, <1>6, <1>9, <2>1, <2>2 DEF HeldOutWorkloads
<1>13. InOrder' /\ Sifted' /\ Run' /\ TimedTouched'
  BY <1>1, <1>7, <1>10, <1>11
     DEF InputInv, InOrder, Unobserved, Selecting, Unsettled, Sifted, Run, TimedTouched, Touched,
         Observed, Does
<1> QED
  BY <1>12, <1>13 DEF InputInv

LEMMA InputStep ==
    ASSUME GradingInv, InputInv, Next
    PROVE  InputInv'
<1> USE DEF Refuse, Go, chosen, sifting, froze, Unobserved, Selecting, Unsettled
<1>1. CASE Find
  BY <1>1, InputQuietStep DEF Find
<1>2. CASE Specify
  BY <1>2, InputQuietStep DEF Specify
<1>3. CASE Build
  <2>1. /\ UNCHANGED <<project, accepted, errors, controls, selected, recorded, corpus>>
        /\ stage = "build" /\ stage' \in {"probes", "refused"}
    BY <1>3 DEF Build
  <2>2. accepted = {} /\ errors = {} /\ DOMAIN recorded = {} /\ ~corpus.usable /\ DOMAIN corpus.timed = {}
    BY <2>1 DEF InputInv, InOrder
  <2>3. InOrder' /\ Sifted' /\ Run' /\ TimedTouched'
    BY <2>1, <2>2 DEF InputInv, InOrder, Sifted, Run, TimedTouched, FromRuns
  <2>4. HeldOutWorkloads'
    BY <2>1, <2>2 DEF HeldOutWorkloads
  <2> QED
    BY <2>3, <2>4 DEF InputInv
<1>4. CASE Probes
  BY <1>4, InputQuietStep DEF Probes
<1>5. CASE SelectStep
  BY <1>5, SelectKeepsInput
<1>6. CASE Selected
  <2>1. /\ UNCHANGED <<project, present, accepted, errors, controls, recorded, corpus>>
        /\ stage = "select" /\ stage' \in {"freeze", "refused"}
    BY <1>6 DEF Selected
  <2>2. selected' \subseteq accepted \union errors \union controls
    BY <1>6 DEF Selected, InputInv, Sifted
  <2>3. DOMAIN recorded = {} /\ ~corpus.usable /\ DOMAIN corpus.timed = {}
    BY <2>1 DEF InputInv, InOrder
  <2>4. InOrder' /\ Sifted' /\ Run' /\ TimedTouched'
    BY <2>1, <2>2, <2>3 DEF InputInv, InOrder, Sifted, Run, TimedTouched, Touched, FromRuns, Does
  <2>5. HeldOutWorkloads'
    BY <2>1, <2>3 DEF HeldOutWorkloads
  <2> QED
    BY <2>4, <2>5 DEF InputInv
<1>7. CASE FreezeOne
  BY <1>7, FreezeKeepsInput
<1>8. CASE FreezeFails
  BY <1>8, InputQuietStep DEF FreezeFails
<1>9. CASE Settle
  BY <1>9, SettleKeepsInput
<1>10. CASE Adequacy
  BY <1>10, InputQuietStep DEF Adequacy
<1>11. CASE Repair
  BY <1>11, InputQuietStep DEF Repair
<1>12. CASE Evidence
  BY <1>12, InputQuietStep DEF Evidence
<1>13. CASE Write
  BY <1>13, InputQuietStep DEF Write
<1>14. CASE Replay
  BY <1>14, InputQuietStep DEF Replay
<1>15. CASE Verify
  BY <1>15, InputQuietStep DEF Verify
<1> QED
  BY <1>1, <1>2, <1>3, <1>4, <1>5, <1>6, <1>7, <1>8, <1>9, <1>10, <1>11, <1>12, <1>13, <1>14, <1>15
     DEF Next

LEMMA InputInductive == GradingInv /\ InputInv /\ [Next]_vars => InputInv'
<1>1. ASSUME InputInv, UNCHANGED vars PROVE InputInv'
  <2>1. UNCHANGED <<project, present, accepted, errors, controls, selected, recorded, corpus, stage>>
    BY <1>1 DEF vars, chosen, sifting, froze
  <2> QED
    BY <1>1, <2>1, InputQuietStep DEF Unobserved, Selecting, Unsettled
<1> QED
  BY <1>1, InputStep

LEMMA InputGivesWorkloads == InputInv => IgnoredInputIsNoWorkload
BY DEF InputInv, Sifted, TimedTouched, Touched, IgnoredInputIsNoWorkload

\* Whatever a program does, a scenario whose input it leaves alone is neither accepted as a
\* workload nor held out for timing, unless what it does changes from run to run
\* (src/frf/observe/process/sensitivity.py:28-157, src/frf/observe/process/workload.py:66-79).
THEOREM IgnoredInputIsNeverAWorkload == Spec => []IgnoredInputIsNoWorkload
BY GradingStart, GradingInductive, InputStart, InputInductive, InputGivesWorkloads, PTL DEF Spec

\* Of every usable corpus: something is timed, none of it is graded, all of it succeeded in every
\* run of the freeze, and each of its families has a workload left that is graded and succeeded
\* as often (src/frf/observe/process/stages.py:225-318).
THEOREM WorkloadsAreHeldOut == Spec => []HeldOutWorkloads
<1>1. InputInv => HeldOutWorkloads
  BY DEF InputInv
<1> QED
  BY <1>1, GradingStart, GradingInductive, InputStart, InputInductive, PTL DEF Spec

=============================================================================
