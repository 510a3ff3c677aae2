------------------------------ MODULE CallScales ------------------------------
(***************************************************************************)
(* src/frf/scales/package.py, module.py and kernel.py: workers that turn   *)
(* candidates into tasks one after the other, each with a scale of its     *)
(* own, all asking one model gateway and writing into one directory.       *)
(*                                                                         *)
(* A candidate is located, and a package without a probe generator asks    *)
(* for one; it is named, built, its probes are drawn and audited, frozen,  *)
(* a mutant is tried, the task is written, described, and replayed.  The   *)
(* freeze and the battery are modules of their own: here they ask only     *)
(* what depends on how the subject is served.                              *)
(***************************************************************************)
EXTENDS Serving, Clients

CONSTANTS Candidates,   \* name -> the subject, as Serving describes it, and:
                        \*   stem, title, drawn ("given" a generator, or to be asked for),
                        \*   drawings (what its generator prints), shapeless (it may print no lists at all),
          \*   lacks (detail not there)
          Batches,      \* what the workers are given: [queue |-> .., supplied |-> .., remote |-> ..]
          Titles,       \* names the model may propose
          Endings,      \* words of a name that only say what is asked
          Battery,      \* the cases a short corpus is topped up with: [args, label]
          Floor,        \* distinct probes a corpus needs
          ProbeCount,   \* probes a corpus is drawn with, and no more
          Coverage,     \* distinct probes an operation needs
          MinOps,       \* operations a contract needs
          Sampled       \* what a schema is sampled to

ASSUME FloorAssumption ==
    /\ Floor \in Nat /\ Coverage \in Nat /\ MinOps \in Nat
    /\ ProbeCount \in Nat /\ ProbeCount >= Floor
ASSUME BatchAssumption ==
    \A b \in Batches : b.remote \in BOOLEAN /\ b.supplied \in BOOLEAN
                       /\ b.queue \in [Jobs -> Seq(DOMAIN Candidates)]

\* What a tree declares, what a generator prints and the arguments of a case are lists.
ASSUME CandidatesAssumption ==
    \A c \in DOMAIN Candidates :
        /\ Candidates[c].declares \in Seq(Range(Candidates[c].declares))
        /\ \A d \in Candidates[c].drawings :
              /\ d = [probes |-> d.probes, labels |-> d.labels, labelled |-> d.labelled]
              /\ d.probes \in Seq(Range(d.probes)) /\ d.labels \in Seq(Range(d.labels))
ASSUME BatteryAssumption ==
    /\ Battery \in Seq(Range(Battery))
    /\ \A k \in DOMAIN Battery : Battery[k].args \in Seq(Range(Battery[k].args))

None == "none"
NoDrawing == [probes |-> << >>, labels |-> << >>, labelled |-> "none"]

VARIABLES batch,       \* the batch chosen
          queue,       \* job -> what is left of its candidates
          at,          \* job -> the stage of the one in hand
          material,    \* job -> what its scale located last
          built,       \* job -> [of, ready]: the scale's cached observer
          name,        \* job -> the words of the task's name
          tried,       \* job -> failures of a question that may be asked twice
          drawing,     \* job -> what its generator printed
          corpus,      \* job -> what will be frozen
          bite,        \* job -> what the comparison with the mutant saw
          ended,       \* job -> what became of its candidates, in order
          tasks        \* words of a name -> what stands in that directory

hand == <<material, built, name, tried, drawing, corpus, bite>>
vars == <<clients, batch, queue, at, hand, ended, tasks>>

NoObserver == [of |-> None, ready |-> FALSE]

Init ==
    /\ ClientsInit
    /\ batch \in Batches /\ queue = batch.queue
    /\ at = [j \in Jobs |-> "find"]
    /\ material = [j \in Jobs |-> None] /\ built = [j \in Jobs |-> NoObserver]
    /\ name = [j \in Jobs |-> << >>] /\ tried = [j \in Jobs |-> << >>]
    /\ drawing = [j \in Jobs |-> NoDrawing] /\ corpus = [j \in Jobs |-> << >>]
    /\ bite = [j \in Jobs |-> "not seen"] /\ ended = [j \in Jobs |-> << >>]
    /\ tasks = [n \in {} |-> None]

InHand(j) == Head(queue[j])
Discovery(given) ==
    [field \in DOMAIN given \union {"surface"} |->
        IF field = "surface" THEN Discovered(given) ELSE given[field]]
Subjects == [c \in DOMAIN Candidates |-> Discovery(Candidates[c])]
Subject(c) == Subjects[c]

Go(j, stage) == at' = [at EXCEPT ![j] = stage] /\ UNCHANGED <<queue, ended>>

\* A candidate leaves with its outcome, and the next one is taken; the scale keeps what it holds.
End(j, how, whose) ==
    /\ ended' = [ended EXCEPT ![j] = Append(@, [of |-> InHand(j), how |-> how, whose |-> whose])]
    /\ queue' = [queue EXCEPT ![j] = Tail(@)]
    /\ at' = [at EXCEPT ![j] = "find"]

Refuse(j, how, whose) == End(j, how, whose) /\ UNCHANGED tasks

Silent == UNCHANGED clients
Asks(j) == Ask(j) /\ UNCHANGED <<free, turn>>
Noted(j) == call' = [call EXCEPT ![j] = Quiet] /\ UNCHANGED <<free, turn>>

-----------------------------------------------------------------------------
(* find, specify.                                                          *)

\* A kernel takes an array; the walk skips what does not, a candidate handed in is not walked.
Numeric(c) == c.scale = "kernel" => Carries(Function(c).kinds)

Find(j) ==
    /\ at[j] = "find" /\ queue[j] # << >>
    /\ IF ~batch.supplied /\ ~Numeric(Subject(InHand(j)))
       THEN Refuse(j, "skipped", "nobody") /\ Silent /\ UNCHANGED <<batch, hand>>
       ELSE Go(j, "specify") /\ Silent /\ UNCHANGED <<batch, hand, tasks>>

\* What the index must have said, and what the candidate must be.
Locatable(c) ==
    /\ c.lacks = {}
    /\ IF c.scale = "package" THEN c.surface # << >> ELSE Numeric(c)

\* Mutant of Cached: the observer survives the candidate it was made for.
CachedForever(j) == built[j]

\* A new candidate means a new subject, so the cached observer is stale.
Cached(j) == NoObserver

Fresh(j, c) ==
    /\ material' = [material EXCEPT ![j] = c]
    /\ built' = [built EXCEPT ![j] = Cached(j)]
    /\ tried' = [tried EXCEPT ![j] = << >>]
    /\ name' = [name EXCEPT ![j] = << >>] /\ drawing' = [drawing EXCEPT ![j] = NoDrawing]
    /\ corpus' = [corpus EXCEPT ![j] = << >>] /\ bite' = [bite EXCEPT ![j] = "not seen"]

\* With its generator at hand, the contract decides; then the material is the scale's.
Located(j) ==
    LET c == InHand(j)
    IN  IF Subject(c).scale = "package" /\ ~Contracted(Subject(c), MinOps)
        THEN Refuse(j, "could not specify", "material") /\ UNCHANGED hand
        ELSE Fresh(j, c) /\ Go(j, "name") /\ UNCHANGED tasks

Specify(j) ==
    LET c == Subject(InHand(j))
    IN  /\ at[j] = "specify" /\ UNCHANGED batch
        /\ \/ ~Locatable(c) /\ Refuse(j, "could not specify", "material") /\ Silent /\ UNCHANGED hand
           \/ /\ Locatable(c) /\ c.scale = "package" /\ ~c.given
              /\ Asks(j) /\ Go(j, "generator") /\ UNCHANGED <<hand, tasks>>
           \/ Locatable(c) /\ (c.scale = "package" => c.given) /\ Located(j) /\ Silent

\* Code that does not define the generator is the model's failure, like no answer; whatever else
\* went wrong in the question is charged to the candidate.
Generator(j) ==
    /\ at[j] = "generator" /\ call[j].at = "answered" /\ Noted(j) /\ UNCHANGED batch
    /\ \/ Heard(j, "good") /\ Located(j)
       \/ /\ ~Heard(j, "good") /\ UNCHANGED hand
          /\ Refuse(j, "could not specify", IF Heard(j, "broken") THEN "material" ELSE "factory")

-----------------------------------------------------------------------------
(* The name.                                                               *)

Begins(words, with) == Len(with) <= Len(words) /\ SubSeq(words, 1, Len(with)) = with

\* The repository leads; one trailing word that says what is asked is dropped for the suffix.
Led(stem, words) == IF Begins(words, stem) THEN words ELSE stem \o words
Suffixed(words) == IF Len(words) > 1 /\ Last(words) \in Endings THEN Front(words) ELSE words

\* The stem, and where one repository yields many tasks the symbol; nobody is asked.
Anchor(c) == IF c.scale = "package" THEN c.stem ELSE c.stem \o <<Function(c).name>>

Anchored(c) == c.scale # "package" \/ ~c.described

Called(j, words) ==
    /\ name' = [name EXCEPT ![j] = words] /\ tried' = [tried EXCEPT ![j] = << >>]
    /\ UNCHANGED <<material, built, drawing, corpus, bite>>

\* Two attempts, then the stem.
NameIt(j) ==
    LET c == Subject(material[j])
    IN  /\ at[j] = "name" /\ UNCHANGED <<batch, tasks>>
        /\ \/ Anchored(c) /\ Called(j, Anchor(c)) /\ Go(j, "build") /\ Silent
           \/ /\ ~Anchored(c) /\ call[j].at = "idle" /\ Asks(j)
              /\ UNCHANGED <<hand, queue, at, ended>>
           \/ /\ ~Anchored(c) /\ Heard(j, "good") /\ Noted(j) /\ Go(j, "build")
              /\ \E words \in Titles : Called(j, Suffixed(Led(c.stem, words)))
           \/ /\ ~Anchored(c) /\ call[j].at = "answered" /\ ~Heard(j, "good") /\ Noted(j)
              /\ IF tried[j] = << >>
                 THEN /\ tried' = [tried EXCEPT ![j] = <<"name">>]
                      /\ UNCHANGED <<material, built, name, drawing, corpus, bite, queue, at, ended>>
                 ELSE Called(j, Anchor(c)) /\ Go(j, "build")

-----------------------------------------------------------------------------
(* build.                                                                  *)

\* The scale's observer: the cached one, or one of what was located.
Observed(j) == IF built[j].of = None THEN material[j] ELSE built[j].of

\* A package is compiled and installed in a sandbox or not at all; what an install says is not asked.
Sandboxed(c) == c.scale = "package" /\ (Compiled(c) \/ Installs(c))

Build(j) ==
    LET c == Subject(Observed(j))
        observer == [of |-> Observed(j), ready |-> TRUE]
    IN  /\ at[j] = "build" /\ Silent /\ UNCHANGED <<batch, material, name, tried, drawing, corpus, bite>>
        /\ \/ /\ ~Generates(c) \/ (Sandboxed(c) /\ ~batch.remote) \/ ~Builds(c)
              /\ Refuse(j, "reference will not build", "material")
              /\ built' = [built EXCEPT ![j] = [observer EXCEPT !.ready = FALSE]]
           \/ /\ batch.remote /\ Generates(c) /\ Compiled(c)
              /\ Refuse(j, "build execution unavailable", "factory")
              /\ built' = [built EXCEPT ![j] = [observer EXCEPT !.ready = FALSE]]
           \/ /\ Generates(c) /\ Builds(c) /\ (Sandboxed(c) => batch.remote)
              /\ built' = [built EXCEPT ![j] = observer]
              /\ Go(j, "probes") /\ UNCHANGED tasks

-----------------------------------------------------------------------------
(* The corpus of a package.                                                *)

Names(c) == [i \in DOMAIN c.surface |-> c.surface[i].name]

\* Probes are the same when they are written the same; repeats say nothing new.
Distinct(probes) == Range(probes)
Starts(probe, op) == probe # << >> /\ probe[1] = op
CountOf(probes, op) == Cardinality({p \in Distinct(probes) : Starts(p, op)})

\* Mutant of Number: what was offered is counted, repeats included.
NumberOffered(probes) == Len(probes)

\* How many probes there are to be judged.
Number(probes) == Cardinality(Distinct(probes))

\* The number the rescue looks at, and its mutant.
ShortRaw(c, probes) ==
    Len(probes) < Floor \/ \E i \in DOMAIN Names(c) : CountOf(probes, Names(c)[i]) < Coverage
Short(c, probes) ==
    \/ Cardinality(Distinct(probes)) < Floor
    \/ \E i \in DOMAIN Names(c) : CountOf(probes, Names(c)[i]) < Coverage

\* A case of the battery for an operation, its label, and the floor it is offered for.
Case(op, k, floor) ==
    [op |-> op, floor |-> floor, probe |-> <<op>> \o Battery[k].args, label |-> Battery[k].label]

\* A case is offered while its floor is not reached, and counts only when it is new.
Wanted(drawn, case) ==
    IF case.floor = "operation" THEN CountOf(drawn.probes, case.op) < Coverage
                                ELSE Cardinality(Distinct(drawn.probes)) < Floor

Offer(drawn, case) ==
    IF Wanted(drawn, case) /\ case.probe \notin Range(drawn.probes)
    THEN [probes |-> Append(drawn.probes, case.probe), labels |-> Append(drawn.labels, case.label)]
    ELSE drawn

OfferAll(drawn, cases) ==
    LET Upto[n \in 0..Len(cases)] == IF n = 0 THEN drawn ELSE Offer(Upto[n - 1], cases[n])
    IN  Upto[Len(cases)]

\* Every operation first, operation by operation; then the total, case by case.
Covering(c) ==
    LET ops == Names(c)
    IN  [n \in 1..(Len(ops) * Len(Battery)) |->
            Case(ops[((n - 1) \div Len(Battery)) + 1], ((n - 1) % Len(Battery)) + 1, "operation")]

Filling(c) ==
    LET ops == Names(c)
    IN  [n \in 1..(Len(ops) * Len(Battery)) |->
            Case(ops[((n - 1) % Len(ops)) + 1], ((n - 1) \div Len(ops)) + 1, "total")]

\* Without labels every probe drawn counts as valid; the battery brings its own.
Labelled(d) ==
    [probes |-> d.probes,
     labels |-> IF d.labelled = "list" THEN d.labels ELSE [i \in DOMAIN d.probes |-> "valid"]]

ToppedUp(c, d) ==
    LET whole == OfferAll(OfferAll(Labelled(d), Covering(c)), Filling(c))
    IN  IF Short(c, d.probes)
        THEN [probes |-> whole.probes, labels |-> whole.labels, labelled |-> "list"] ELSE d

Classes == {"valid", "error", "boundary"}

\* What may be wrong with a corpus, and what the audit finds first.
Wrong(c, d) ==
    [unknown |-> \E i \in DOMAIN d.probes :
                     \A k \in DOMAIN Names(c) : ~Starts(d.probes[i], Names(c)[k]),
     few |-> Number(d.probes) < Floor,
     thin |-> \E k \in DOMAIN Names(c) : CountOf(d.probes, Names(c)[k]) < Coverage,
     misaligned |-> d.labelled = "number" \/ (d.labelled = "list" /\ Len(d.labels) # Len(d.probes)),
     classes |-> d.labelled = "list" /\ Range(d.labels) # Classes]

Complaints == <<"unknown", "few", "thin", "misaligned", "classes">>

Audited(c, d) ==
    LET found == {i \in DOMAIN Complaints : Wrong(c, d)[Complaints[i]]}
    IN  IF found = {} THEN "clear" ELSE Complaints[CHOOSE i \in found : \A k \in found : i <= k]

\* The distinct probes, in the order they were first offered.
Kept(probes) ==
    LET Upto[n \in 0..Len(probes)] ==
            IF n = 0 THEN << >>
            ELSE IF probes[n] \in Range(Upto[n - 1]) THEN Upto[n - 1]
            ELSE Append(Upto[n - 1], probes[n])
    IN  Upto[Len(probes)]

\* What the source hands to the freeze: the first so many of the distinct probes.
Source(probes) ==
    SubSeq(probes, 1, IF Len(probes) < ProbeCount THEN Len(probes) ELSE ProbeCount)

\* A label the model likes better than ours is taken for ours.
Read(d) ==
    [d EXCEPT !.labels = [i \in DOMAIN @ |-> IF @[i] = "invalid" THEN "error" ELSE @[i]]]

\* What becomes of each thing a candidate's generator may print.  Labels that are no list cannot be
\* extended: an exception nobody expected.
Judged(c, d) ==
    IF Short(c, d.probes) /\ d.labelled = "number" THEN [why |-> "unclassified", keeps |-> << >>]
    ELSE LET whole == ToppedUp(c, d) IN [why |-> Audited(c, whole), keeps |-> Kept(whole.probes)]

Drawings(c) == {Read(d) : d \in Candidates[c].drawings}

Judgements ==
    [c \in DOMAIN Candidates |-> [d \in Drawings(c) |-> Judged(Subject(c), d)]]

\* A generator prints probes, or fails of its own bug, or of anything else; out of reach is a
\* failure like any other.
Failing == {"own bug", "other"}

Drawn(j, d) == drawing' = [drawing EXCEPT ![j] = d] /\ Go(j, "audit") /\ UNCHANGED tasks

\* What was printed is no list of argument lists: nobody is asked to repair it.
Misshapen(j) ==
    /\ Subject(material[j]).shapeless
    /\ Refuse(j, "no list of argument lists", "material") /\ UNCHANGED drawing

Draw(j) ==
    LET c == Subject(material[j])
    IN  /\ at[j] = "probes" /\ UNCHANGED <<batch, material, built, name, bite>>
        /\ \/ /\ c.scale # "package" /\ Silent /\ UNCHANGED <<tasks, tried, drawing>>
              /\ corpus' = [corpus EXCEPT ![j] = Sampled[material[j]]] /\ Go(j, "freeze")
           \/ /\ c.scale = "package" /\ Silent /\ UNCHANGED <<tried, corpus>>
              /\ (\E d \in Drawings(material[j]) : Drawn(j, d)) \/ Misshapen(j)
           \/ /\ c.scale = "package" /\ Asks(j) /\ Go(j, "repair") /\ UNCHANGED <<tasks, drawing, corpus>>
              /\ \E why \in Failing : tried' = [tried EXCEPT ![j] = <<why>>]

\* Whose fault it is is read from the text of both failures.
Repair(j) ==
    LET Fault(second) == IF "own bug" \in {tried[j][1], second} \/ second = "no answer"
                         THEN "factory" ELSE "material"
        Lost(second) == Refuse(j, "no probes could be drawn", Fault(second)) /\ UNCHANGED drawing
    IN  /\ at[j] = "repair" /\ call[j].at = "answered" /\ Noted(j)
        /\ UNCHANGED <<batch, material, built, name, tried, corpus, bite>>
        /\ \/ Heard(j, "good") /\ ((\E d \in Drawings(material[j]) : Drawn(j, d)) \/ Misshapen(j))
           \/ Heard(j, "good") /\ (\E why \in Failing : Lost(why))
           \/ ~Heard(j, "good") /\ Lost(call[j].said)

Audit(j) ==
    LET judged == Judgements[material[j]][drawing[j]]
    IN  /\ at[j] = "audit" /\ Silent /\ UNCHANGED <<batch, material, built, name, tried, drawing, bite>>
        /\ \/ /\ judged.why # "clear" /\ UNCHANGED corpus
              /\ Refuse(j, judged.why, IF judged.why = "unclassified" THEN "factory" ELSE "material")
           \/ /\ judged.why = "clear" /\ Go(j, "freeze") /\ UNCHANGED tasks
              /\ corpus' = [corpus EXCEPT ![j] = Source(judged.keeps)]

-----------------------------------------------------------------------------
(* What the freeze, the battery and the delivery ask of how it is served.  *)

\* A subject that answers nothing has nothing measured about it.
Freeze(j) ==
    LET c == Subject(built[j].of)
        answered == {i \in DOMAIN corpus[j] : Answers(c, corpus[j][i])}
    IN  /\ at[j] = "freeze" /\ Silent /\ UNCHANGED <<batch, hand>>
        /\ \/ batch.remote /\ Refuse(j, "freeze unavailable", "factory")
           \/ answered = {} /\ Refuse(j, "refused every probe", "material")
           \/ answered # {} /\ Go(j, "bite") /\ UNCHANGED tasks

\* What the comparison with the mutant sees: another answer, no answer, or the same one.
Seen(c) ==
    CASE MutantServes(c) = "mutant" -> "wrong answer"
      [] MutantServes(c) = "nothing" -> "no answer"
      [] MutantServes(c) = "reference" -> "same answer"

Bite(j) ==
    LET seen == Seen(Subject(built[j].of))
    IN  /\ at[j] = "bite" /\ Silent /\ UNCHANGED <<batch, material, built, name, tried, drawing, corpus>>
        /\ bite' = [bite EXCEPT ![j] = seen]
        /\ IF seen = "same answer" THEN Refuse(j, "inconclusive", "material")
           ELSE Go(j, "emit") /\ UNCHANGED tasks

\* The directory is the name: what stood there is written over.
Emit(j) ==
    /\ at[j] = "emit" /\ Asks(j) /\ Go(j, "describe") /\ UNCHANGED batch
    /\ LET task == [of |-> material[j], from |-> built[j].of, text |-> "none"]
       IN  tasks' = [n \in DOMAIN tasks \union {name[j]} |-> IF n = name[j] THEN task ELSE tasks[n]]
    /\ tried' = [tried EXCEPT ![j] = << >>]
    /\ UNCHANGED <<material, built, name, drawing, corpus, bite>>

Written(j, text) ==
    /\ tasks' = [tasks EXCEPT ![name[j]].text = text]
    /\ Go(j, "replay") /\ UNCHANGED hand

\* An empty answer and a failure the client names fall back to the template at once; only a
\* failure it does not name is asked about again.
Describe(j) ==
    /\ at[j] = "describe" /\ UNCHANGED batch
    /\ \/ Heard(j, "good") /\ Noted(j) /\ Written(j, "model")
       \/ /\ call[j].said \in {"bad", "refused", "no answer"} /\ call[j].at = "answered"
          /\ Noted(j) /\ Written(j, "template")
       \/ /\ Heard(j, "broken") /\ tried[j] = << >> /\ Asks(j)
          /\ tried' = [tried EXCEPT ![j] = <<"describe">>]
          /\ UNCHANGED <<material, built, name, drawing, corpus, bite, queue, at, ended, tasks>>
       \/ Heard(j, "broken") /\ tried[j] # << >> /\ Noted(j) /\ Written(j, "template")

\* The delivered layout is driven, whoever wrote it last.
Replay(j) ==
    /\ at[j] = "replay" /\ Silent /\ UNCHANGED <<batch, hand, tasks>>
    /\ IF DeliveredServes(Subject(tasks[name[j]].of))
       THEN End(j, "emitted", "nobody") \/ (batch.remote /\ End(j, "replay unavailable", "factory"))
       ELSE End(j, "does not reproduce itself", "factory")

Asked(j) == Wait(j) /\ UNCHANGED <<batch, queue, at, hand, ended, tasks>>

Work(j) ==
    \/ Find(j) \/ Specify(j) \/ Generator(j) \/ NameIt(j) \/ Build(j) \/ Draw(j) \/ Repair(j)
    \/ Audit(j) \/ Freeze(j) \/ Bite(j) \/ Emit(j) \/ Describe(j) \/ Replay(j) \/ Asked(j)

Next == \E j \in Jobs : Work(j)

\* Every worker is a thread that goes on.  Each asks a bounded number of questions, so that waking
\* the waiters of a lock in any order is enough.
Fairness == \A j \in Jobs : WF_vars(Work(j))

Spec == Init /\ [][Next]_vars /\ Fairness

-----------------------------------------------------------------------------

TypeOK ==
    /\ batch \in Batches /\ free \in 0..Slots /\ turn \in Jobs \union {Nobody}
    /\ at \in [Jobs -> {"find", "specify", "generator", "name", "build", "probes", "repair", "audit",
                        "freeze", "bite", "emit", "describe", "replay"}]
    /\ material \in [Jobs -> DOMAIN Candidates \union {None}]
    /\ \A j \in Jobs : built[j].of \in DOMAIN Candidates \union {None} /\ Len(queue[j]) <= Len(batch.queue[j])

Past(j) == at[j] \in {"freeze", "bite", "emit", "describe", "replay"}

\* However the probes came together (the generator, its repair, the battery), what is frozen for a
\* package repeats nothing, reaches the floor and names operations only; and unless the source had
\* to cut it, it asks every operation more than once (src/frf/scales/package.py:655-702, the pairing
\* at 461-473, and ProbeSource at 73-78).
CorpusClearsTheFloors ==
    \A j \in Jobs : Past(j) /\ Subject(material[j]).scale = "package" =>
        LET names == Range(Names(Subject(material[j])))
        IN  /\ Len(corpus[j]) = Cardinality(Range(corpus[j])) /\ Len(corpus[j]) >= Floor
            /\ Len(corpus[j]) < ProbeCount => \A op \in names : CountOf(corpus[j], op) >= Coverage
            /\ \A i \in DOMAIN corpus[j] : \E op \in names : Starts(corpus[j][i], op)

\* "Two distinct probes are the minimum evidence that its behavior, rather than just its dispatch
\* wrapper, is being graded": every operation of a package that is graded has them
\* (src/frf/scales/package.py:690-692).
EveryOperationIsAskedTwice ==
    \A j \in Jobs : Past(j) /\ Subject(material[j]).scale = "package" =>
        \A op \in Range(Names(Subject(material[j]))) : CountOf(corpus[j], op) >= Coverage

Cases(ops) == {<<pair[1]>> \o Battery[pair[2]].args : pair \in ops \X DOMAIN Battery}

\* A package is refused for too few probes only when the whole battery would not have made them
\* enough: "the rescue and the condemnation have to be reading the same number"
\* (src/frf/scales/package.py:391-396).
RescueReadsTheAuditsNumber ==
    \A j \in Jobs : at[j] = "find" /\ ended[j] # << >> =>
        LET c == Subject(material[j])
            drawn == Range(drawing[j].probes)
        IN  /\ Last(ended[j]).how = "few" =>
                   Cardinality(drawn \union Cases(Range(Names(c)))) < Floor
            /\ Last(ended[j]).how = "thin" =>
                   \E op \in Range(Names(c)) :
                       Cardinality({p \in drawn : Starts(p, op)} \union Cases({op})) < Coverage

\* A task in the directory describes the candidate whose subject was built and frozen for it,
\* although the scale outlives its candidates and caches an observer between the stages
\* (src/frf/scales/package.py:313-317, module.py:401-405).
DeliveredIsWhatWasObserved == \A n \in DOMAIN tasks : tasks[n].of = tasks[n].from

\* Every candidate of every worker comes to an end, though all of them wait for the same gate, and
\* whoever has the turn sleeps with it (src/frf/core/rate_limiter.py:84-101).
EveryCandidateIsSettled == <>(\A j \in Jobs : queue[j] = << >>)

\* The tasks that were emitted are all there: "uniqueness is structural, not hoped for" and no
\* directory overwrites another (src/frf/core/statement.py:816-819).
UniquenessIsStructural ==
    \A j \in Jobs : \A k \in DOMAIN ended[j] :
        ended[j][k].how = "emitted" => \E n \in DOMAIN tasks : tasks[n].of = ended[j][k].of

\* A mutant answers: it is "always a loadable program in the subject's own language that returns
\* the wrong answer" (src/frf/observe/call/dispatch.py:20-23).
MutantIsServed == \A j \in Jobs : bite[j] # "no answer"

=============================================================================
