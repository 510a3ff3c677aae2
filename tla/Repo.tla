-------------------------------- MODULE Repo --------------------------------
(***************************************************************************)
(* src/frf/scales/repo.py: one repository on its way to a task.  It is     *)
(* found, checked out, its entry point is read from what it declares, it   *)
(* is built where it will be observed, its documented commands become      *)
(* scenarios, the ones that depend on their input become workloads, the    *)
(* workloads are frozen, some are held out for timing, and the verifier    *)
(* shipped with the task grades submissions against the rest.              *)
(***************************************************************************)
EXTENDS Process

CONSTANTS Projects,      \* the repositories, each with what it declares and does
          Backends,      \* where the program runs: "remote", "local-process"
          Foreign,       \* what a submission other than the reference may leave behind
          Spans,         \* intervals a timing may establish
          Runs,          \* runs of a freeze
          HarvestLimit,  \* HARVEST_SCENARIOS
          PerFamily      \* workloads accepted of one family

ASSUME RunsAssumption == Runs \in Nat \ {0}

ASSUME ProjectsAssumption ==
    \A p \in Projects : \A s \in Scenario : p.does[s]["given"] \subseteq Behaviour

\* A program that leaves its input alone does with another what it does with this one: the file
\* it was given is listed as it is, and its standard input goes nowhere.
LeftAlone(s, seen, changed) ==
    IF Script[s].kind = "path"
    THEN /\ changed = [seen EXCEPT !.tree = [i \in DOMAIN seen.tree |->
                          IF seen.tree[i] = "given" THEN "changed" ELSE seen.tree[i]]]
         /\ \A i \in DOMAIN seen.tree : seen.tree[i] # "changed"
    ELSE changed = seen

\* What no code is told: which scenarios read their input, which write over the file they are
\* given, and which are not the same from run to run.  The others leave it alone.
ASSUME InputsAssumption ==
    \A p \in Projects : \A s \in Scenario \ p.random :
        /\ \A seen, again \in p.does[s]["given"] : seen = again
        /\ s \notin p.reads \union p.writes /\ Perturbable(s) =>
              \A seen \in p.does[s]["given"], changed \in p.does[s]["changed"] :
                  LeftAlone(s, seen, changed)

\* In percent; the noise of a measurement is at least that of an exact one.
ASSUME SpansAssumption ==
    \A span \in Spans : span.lower \in Nat /\ span.upper \in Nat /\ span.noise \in Nat \ 0..99

(***************************************************************************)
(* The entry point: the first declaration, in this order, that the tree    *)
(* makes.  build says whether the project's own build runs; form how the   *)
(* program is named: by a file, by an interpreter, or by a command.        *)
(***************************************************************************)
By(by, build, form) == [by |-> by, build |-> build, form |-> form]

Explicit == <<By("Dockerfile", FALSE, "command"), By("pyproject.toml", TRUE, "command"),
              By("package.json bin", TRUE, "interpreter"), By("package.json bin name", TRUE, "command"),
              By("package.json start", TRUE, "interpreter"), By("main.py", FALSE, "interpreter")>>

Compiled == <<By("go.mod", TRUE, "file"), By("Cargo.toml", TRUE, "file"),
              By("setup.py", TRUE, "command"), By("cmd/*/main.go", TRUE, "file"),
              By("Cargo.toml bin", TRUE, "file"), By("Cargo.toml member", TRUE, "file"),
              By("src/bin", TRUE, "file")>>

Managed == <<By("pom.xml", TRUE, "interpreter"), By("build.gradle", TRUE, "interpreter"),
             By("gemspec", FALSE, "interpreter"), By("CMakeLists.txt", TRUE, "file"),
             By("workflow", TRUE, "interpreter"), By("Justfile", FALSE, "interpreter"),
             By("Taskfile", FALSE, "interpreter"), By("devcontainer", FALSE, "interpreter"),
             By("Makefile", FALSE, "interpreter")>>

Order == Explicit \o Compiled \o Managed

\* A step of a CI workflow is an entry point when it starts something and tests nothing.
Starts(words) == "entry" \in words /\ words \cap {"network", "test"} = {}

\* What names the program it ships, what a build system's manifest names, what a task runner runs.
Shipped(project) == project.declares \cap {"Dockerfile", "pyproject.toml"}

Manifested(project) ==
    project.declares \cap {"setup.py", "Cargo.toml", "Cargo.toml bin", "Cargo.toml member", "pom.xml",
                           "build.gradle", "gemspec", "CMakeLists.txt", "Makefile"}

Tasked(project) == project.declares \cap {"Justfile", "Taskfile", "devcontainer"}

\* The rest is there as a file or it is not.
Declared(project) ==
    UNION {Shipped(project), Manifested(project), Tasked(project),
           project.declares \cap {"package.json bin", "package.json bin name", "package.json start",
                                  "main.py", "go.mod", "cmd/*/main.go", "src/bin"},
           IF \E words \in project.steps : Starts(words) THEN {"workflow"} ELSE {}}

Entries(project) == {k \in DOMAIN Order : Order[k].by \in Declared(project)}
Entry(project) == Order[CHOOSE k \in Entries(project) : \A j \in Entries(project) : k <= j]

(***************************************************************************)
(* Documented commands.  A line is where it stands, what it calls and      *)
(* whether it could run as it stands; shows lists the scenarios it becomes *)
(* with its own input first and with siblings of it after.                 *)
(***************************************************************************)
\* Prose outside a fence and configuration outside a run step are not commands.
Spoken == {"script", "fence", "run step", "recipe"}

\* The subject itself, by our name for it, its own, or behind an interpreter; an installer
\* that names it does not run it.
Calls(line) == line.calls \in {"invocation", "declared name", "wrapped"}

\* Without a shell and without a blank to fill in.
Runnable(line) == ~line.shell /\ ~line.template

Lifted(line) == line.room \in Spoken /\ Calls(line) /\ Runnable(line)

\* The line's own input first, then its siblings in the same directory.
Bound(line, rank) == line.shows[rank]

\* Every command's own shape before anybody's siblings, up to the limit.
Harvested(project) ==
    LET lifted == {k \in DOMAIN project.lines : Lifted(project.lines[k])}
        places == {p \in lifted \X (1..Cardinality(Scenario)) :
                       p[2] <= Len(project.lines[p[1]].shows)}
        At(place) == Bound(project.lines[place[1]], place[2])
        Sooner(a, b) == a[2] < b[2] \/ (a[2] = b[2] /\ a[1] < b[1])
        first == {p \in places : \A q \in places : At(q) = At(p) => ~Sooner(q, p)}
    IN  {At(p) : p \in {q \in first : Cardinality({r \in first : Sooner(r, q)}) < HarvestLimit}}

-----------------------------------------------------------------------------

VARIABLES project, backend, cross,  \* what is being made, and where
          stage, why,               \* where it stands, and why it ended there
          present,                  \* what the build left to observe
          offered,                  \* scenarios not looked at yet
          attempts, accepted, errors, controls,
          selected,                 \* the workloads, error paths and controls drawn
          recorded, frozen, ran,    \* runs of the freeze, and what they froze to
          corpus,
          relevant, proposed,       \* of the repair: dark regions worth it, and probes asked for
          isolated,                 \* the wrapper was in force when the program ran
          task,                     \* what was written
          verdict                   \* of a submission

chosen == <<project, backend, cross>>
sifting == <<offered, attempts, accepted, errors, controls>>
froze == <<selected, recorded, frozen, ran>>
repairs == <<relevant, proposed>>
vars == <<chosen, stage, why, present, sifting, froze, corpus, repairs, isolated, task, verdict>>

Untried == [reward |-> "none", correct |-> FALSE, answers |-> << >>, spans |-> << >>]

Init ==
    /\ project \in Projects /\ backend \in Backends /\ cross \in BOOLEAN
    /\ stage = "find" /\ why = "" /\ present = "unbuilt"
    /\ offered = {} /\ attempts = [f \in Families(Scenario) |-> 0]
    /\ accepted = {} /\ errors = {} /\ controls = {}
    /\ selected = {} /\ recorded = << >> /\ frozen = << >> /\ ran = FALSE
    /\ corpus = Unusable("") /\ relevant = {} /\ proposed = FALSE
    /\ isolated = FALSE /\ verdict = Untried
    /\ task = [graded |-> << >>, timed |-> << >>, isolated |-> FALSE]

Refuse(reason) == stage' = "refused" /\ why' = reason
Go(next) == stage' = next /\ UNCHANGED why

\* keep: too large, unpinned, or known to declare no command; an unanswered question keeps it.
Find ==
    /\ stage = "find"
    /\ \/ project.flaws \cap {"large", "unpinned"} # {} /\ Refuse("not kept")
       \/ "library" \in project.flaws /\ Refuse("declares no command")
       \/ project.flaws \cap {"large", "unpinned"} = {} /\ Go("specify")
    /\ UNCHANGED <<chosen, present, sifting, froze, corpus, repairs, isolated, task, verdict>>

\* The clone may fail unless the material came with it, and somebody must say how it is invoked.
CheckedOut == project.invoked \/ Entries(project) # {}

\* What the survey of the tree says of it: a subject has a shape, a workload and a build.
Subject == project.flaws \cap {"shapeless", "no workload", "typos"} = {}

\* Nothing is specified that could not be invoked, fed or read.
Specify ==
    /\ stage = "specify"
    /\ \/ ~project.invoked /\ Refuse("clone failed")
       \/ ~CheckedOut /\ Refuse("no entry point")
       \/ CheckedOut /\ ~Subject /\ Refuse("not a subject")
       \/ CheckedOut /\ Subject /\ Go("build")
    /\ UNCHANGED <<chosen, present, sifting, froze, corpus, repairs, isolated, task, verdict>>

Form == IF project.invoked THEN "file" ELSE Entry(project).form
Builds == project.invoked \/ Entry(project).build

\* A command is looked for on PATH, then where toolchains leave what they build.
Located == project.leaves \in {"path", "output"}

\* The project's own build, where it will be observed.  A command nobody can find afterwards
\* is refused in a sandbox; a file is not looked for, and an interpreter is always there.
Build ==
    /\ stage = "build"
    /\ \/ Builds /\ ~project.compiles /\ Refuse("did not build") /\ UNCHANGED present
       \/ /\ Builds => project.compiles
          /\ IF Form = "command" /\ ~Located /\ backend = "remote"
             THEN Refuse("no entry point afterwards") /\ UNCHANGED present
             ELSE /\ Go("probes")
                  /\ present' = IF Located THEN "there"
                              ELSE IF Form = "interpreter" THEN "no script" ELSE "no file"
    /\ UNCHANGED <<chosen, sifting, froze, corpus, repairs, isolated, task, verdict>>

\* What the program may leave behind, run on a scenario as given or with its input changed.
Does(s, input) ==
    CASE present = "no file" -> {NotFound}
      [] present = "no script" -> {[NotFound EXCEPT !.exit = <<"1">>]}
      [] OTHER -> project.does[s][input]

\* Stopped at its limit before it wrote anything: what it was given is still there.
Stopped(s) == [TimedOut EXCEPT !.tree = IF Script[s].kind = "path" THEN <<"given">> ELSE << >>]

\* What a run is observed to leave behind, under the limit of the freeze and of the verifier.
Observed(s) == Does(s, "given") \union (IF s \in project.slow THEN {Stopped(s)} ELSE {})

\* The control cases: help, version, nothing at all, and a flag that does not exist.
Asked == {s \in Scenario : Script[s].kind \in {"control", "bare"}}

\* Files of the tree fed to the program one by one, and the control cases, kept if it started.
Discovered == {s \in project.guesses \union Asked : \E seen \in Does(s, "given") : seen # NotFound}

\* Scenarios that came with the material, else documented commands, else guesses; and the
\* control cases.
Probes ==
    LET found == IF project.supplied # {} THEN project.supplied
                 ELSE IF Harvested(project) # {} THEN Harvested(project) ELSE Discovered
    IN  /\ stage = "probes"
        /\ IF found = {} THEN Refuse("no workload") /\ UNCHANGED offered
           ELSE Go("select") /\ offered' = found \union Asked
        /\ UNCHANGED <<chosen, present, attempts, accepted, errors, controls, froze, corpus,
                       repairs, isolated, task, verdict>>

-----------------------------------------------------------------------------
(* select_workloads: each scenario is run, and run with its input changed. *)

\* Controls first, then the families tried least.
Ahead(s, t) ==
    \/ Script[s].kind = "control" /\ Script[t].kind # "control"
    \/ /\ (Script[s].kind = "control") = (Script[t].kind = "control")
       /\ attempts[Family(s)] <= attempts[Family(t)]

Following(s) == s \in offered /\ \A t \in offered : Ahead(s, t)

Enough(s) ==
    \/ Cardinality({t \in accepted : Family(t) = Family(s)}) >= PerFamily
    \/ Cardinality(accepted) >= 48

\* It fails because there is no terminal, not because of its input.
Interactive(seen) == seen.stderr = <<"not a terminal">>

Trial(s) ==
    /\ stage = "select" /\ Following(s)
    /\ offered' = offered \ {s}

\* Nothing was observed of the scenario, or it ran into its limit: an attempt, and no more.
Incomplete(seen) == seen.exit \in {<<"-1">>, <<"127">>}

Counted(s) == attempts' = [attempts EXCEPT ![Family(s)] = @ + 1]

PassOver(s) ==
    /\ Trial(s)
    /\ Script[s].kind # "control" /\ Enough(s)
    /\ UNCHANGED <<attempts, accepted, errors, controls>>

\* One run settles it, under a limit of its own that any may meet: a control, an error, or a
\* success whose input cannot be taken away.
TryOnce(s) ==
    /\ Trial(s) /\ Counted(s)
    /\ Script[s].kind = "control" \/ ~Enough(s)
    /\ \E seen \in Does(s, "given") \union {TimedOut} :
          \/ Incomplete(seen) /\ UNCHANGED <<accepted, errors, controls>>
          \/ /\ ~Incomplete(seen) /\ Script[s].kind = "control"
             /\ controls' = (IF Cardinality(controls) < 4 THEN controls \union {s} ELSE controls)
             /\ UNCHANGED <<accepted, errors>>
          \/ /\ ~Incomplete(seen) /\ Script[s].kind # "control" /\ seen.exit # Zero
             /\ errors' = (IF ~Interactive(seen) /\ Cardinality(errors) < 8 THEN errors \union {s} ELSE errors)
             /\ UNCHANGED <<accepted, controls>>
          \/ /\ seen.exit = Zero /\ Script[s].kind # "control" /\ ~Perturbable(s)
             /\ UNCHANGED <<accepted, errors, controls>>

\* Run as given and changed, and both again: the two pairs must agree and the two must differ.
TryPairs(s) ==
    /\ Trial(s) /\ Counted(s)
    /\ Perturbable(s) /\ ~Enough(s)
    /\ \E seen, again \in Does(s, "given"), changed, changedAgain \in Does(s, "changed") :
          LET was == Signature(s, seen, "given")
              is == Signature(s, changed, "changed")
          IN  /\ seen.exit = Zero /\ ~Incomplete(changed)
              /\ accepted' = (IF /\ was # is
                                 /\ Signature(s, again, "given") = was
                                 /\ Signature(s, changedAgain, "changed") = is
                              THEN accepted \union {s} ELSE accepted)
    /\ UNCHANGED <<errors, controls>>

\* The family's own validator rejects the input.
Invalid(s) ==
    /\ Trial(s) /\ Counted(s)
    /\ Script[s].kind = "path" /\ ~Enough(s)
    /\ UNCHANGED <<accepted, errors, controls>>

SelectStep ==
    /\ \E s \in Scenario : PassOver(s) \/ TryOnce(s) \/ TryPairs(s) \/ Invalid(s)
    /\ isolated' = (backend = "remote" /\ project.restrictable)
    /\ UNCHANGED <<chosen, stage, why, present, froze, corpus, repairs, task, verdict>>

\* Everything was tried, or the budget is spent; error paths may not dominate.
Selected ==
    /\ stage = "select"
    /\ \E some \in SUBSET errors :
          /\ LET room == Cardinality(accepted) \div 4 IN
                Cardinality(some) = (IF Cardinality(errors) < room THEN Cardinality(errors) ELSE room)
          /\ IF Cardinality(accepted) < 2 THEN Refuse("no sensitive workload") /\ UNCHANGED selected
             ELSE Go("freeze") /\ selected' = accepted \union some \union controls
    /\ UNCHANGED <<chosen, present, sifting, recorded, frozen, ran, corpus, repairs, isolated, task, verdict>>

-----------------------------------------------------------------------------
(* freeze, adequacy, evidence.                                             *)

With(f, x, value) == [y \in DOMAIN f \union {x} |-> IF y = x THEN value ELSE f[y]]

Unfrozen == selected \ DOMAIN recorded

\* A scenario whose every run said not found is dropped; another is kept if anything repeated.
FreezeOne ==
    LET s == CHOOSE x \in Unfrozen : TRUE IN
    /\ stage = "freeze" /\ Unfrozen # {}
    /\ \E runs \in [1..Runs -> Observed(s)] :
          LET step == FreezeStep(runs)
              found == \E k \in 1..Runs : runs[k].exit # <<"127">>
          IN  /\ recorded' = With(recorded, s, runs)
              /\ ran' = (ran \/ found)
              /\ frozen' = (IF found /\ Points(step) # {} THEN With(frozen, s, step) ELSE frozen)
    /\ UNCHANGED <<chosen, stage, why, present, sifting, selected, corpus, repairs, isolated, task, verdict>>

\* The driver fails, a report is incomplete, or the freeze has had its time.
FreezeFails ==
    /\ stage = "freeze"
    /\ Refuse("freeze")
    /\ UNCHANGED <<chosen, present, sifting, froze, corpus, repairs, isolated, task, verdict>>

Settle ==
    /\ stage = "freeze" /\ Unfrozen = {}
    /\ corpus' = Distil(selected, accepted, frozen, ran)
    /\ IF corpus'.usable THEN Go("adequacy") ELSE Refuse("unusable")
    /\ UNCHANGED <<chosen, present, sifting, froze, repairs, isolated, task, verdict>>

\* More than three quarters of the points are there for a submission that does nothing.
FloorFails ==
    \E kind \in DOMAIN Trivial :
        LET score == Score(corpus.graded, [s \in DOMAIN corpus.graded |-> Trivial[kind]])
        IN  4 * score.passed > 3 * score.total

\* The reach is measured for a language that has a backend; dark regions are the code that
\* did not run, and the model says which of them the contract promises.
Adequacy ==
    /\ stage = "adequacy"
    /\ \E short \in IF project.covered THEN BOOLEAN ELSE {FALSE} :
          IF ~short /\ ~FloorFails THEN Go("evidence") /\ UNCHANGED relevant
          ELSE /\ \E dark \in SUBSET (IF project.covered THEN {"contractual", "internal"} ELSE {}) :
                     relevant' = dark \ {"internal"}
               /\ IF relevant' = {} THEN Refuse("inadequate") ELSE Go("repair")
    /\ UNCHANGED <<chosen, present, sifting, froze, corpus, proposed, isolated, task, verdict>>

\* Formatting the probes there are already wants corpus.inputs, which a corpus of this seam
\* does not have: the exception ends the repair before anything is proposed.
Repair ==
    /\ stage = "repair"
    /\ Refuse("inadequate")
    /\ UNCHANGED <<chosen, present, sifting, froze, corpus, repairs, isolated, task, verdict>>

\* Answers the reference may give to every graded scenario.
ReferenceAnswers(S) == {a \in [S -> UNION {Observed(s) : s \in S}] : \A s \in S : a[s] \in Observed(s)}

Full(graded, answers) ==
    LET score == Score(graded, answers) IN score.total > 0 /\ score.passed = score.total

NothingTrivialIsFull ==
    \A kind \in DOMAIN Trivial :
        ~Full(corpus.graded, [s \in DOMAIN corpus.graded |-> Trivial[kind]])

SomeChannelBites(answers) == \E c \in Channels : Bites(corpus.graded, answers, c)

\* Source inspection has nothing to say of a whole program; the wrapper must have been in force.
Sealed == isolated

\* ceiling, floor, channels-bite, points-are-about-the-subject, cannot-delegate.
Evidence ==
    /\ stage = "evidence"
    /\ \E answers \in ReferenceAnswers(DOMAIN corpus.graded) :
          IF /\ Full(corpus.graded, answers)
             /\ NothingTrivialIsFull
             /\ SomeChannelBites(answers)
             /\ Touching(corpus.graded)
             /\ Sealed
          THEN Go("write") ELSE Refuse("evidence")
    /\ UNCHANGED <<chosen, present, sifting, froze, corpus, repairs, isolated, task, verdict>>

\* The task holds what is graded and what is timed, each with its expectations, and whether
\* the observations were made under the wrapper.
Write ==
    /\ stage = "write" /\ Go("replay")
    /\ task' = [graded |-> corpus.graded, timed |-> corpus.timed, isolated |-> isolated]
    /\ UNCHANGED <<chosen, present, sifting, froze, corpus, repairs, isolated, verdict>>

-----------------------------------------------------------------------------
(* The shipped verifier.                                                   *)

Reward(correct, timed, spans, fits) ==
    IF cross /\ ~fits THEN "none"
    ELSE IF ~correct THEN "part"
    ELSE IF ~timed THEN "none"
    ELSE IF Speedup(spans) > 100 THEN "gain"
    ELSE IF Speedup(spans) = 100 THEN "even" ELSE "loss"

\* What one evaluation says of these answers: a submission without every graded point is not
\* timed, timing that fails or differs from the frozen behaviour scores nothing, and of a
\* target-language submission the execution policy must have held throughout.
Evaluate(answers, spans, fits) ==
    LET correct == Full(task.graded, Only(answers, DOMAIN task.graded))
        timed == \A s \in DOMAIN task.timed :
                    Passed(task.timed[s], answers[s]) = Points(task.timed[s])
    IN  [correct |-> correct /\ fits, answers |-> answers, spans |-> spans,
         reward |-> Reward(correct, timed, spans, fits)]

Frozen == DOMAIN task.graded \union DOMAIN task.timed

\* drive: the task's own verifier on its own reference; without full marks and a usable
\* measurement there is no task.
Replay ==
    /\ stage = "replay"
    /\ \E answers \in ReferenceAnswers(Frozen), usable \in BOOLEAN :
          LET report == Evaluate(answers, [s \in DOMAIN task.timed |-> CHOOSE x \in Spans : TRUE], TRUE)
          IN  IF report.correct /\ report.reward # "none" /\ usable
              THEN Go("shipped") ELSE Refuse("replay")
    /\ UNCHANGED <<chosen, present, sifting, froze, corpus, repairs, isolated, task, verdict>>

\* Submissions: the reference, or the reference with something else on one scenario.
Submitted ==
    LET reference == ReferenceAnswers(Frozen)
    IN  reference \union {[a EXCEPT ![s] = other] : a \in reference, s \in Frozen, other \in Foreign}

\* A submission, the reference among them, is graded; nothing of the task is rewritten,
\* and one evaluation says nothing of the next.
Verify ==
    /\ stage = "shipped" /\ Go("graded")
    /\ \E answers \in Submitted, fits \in IF cross THEN BOOLEAN ELSE {TRUE} :
          \E spans \in IF Full(task.graded, Only(answers, DOMAIN task.graded))
                       THEN [DOMAIN task.timed -> Spans]
                       ELSE {[s \in DOMAIN task.timed |-> CHOOSE x \in Spans : TRUE]} :
             verdict' = Evaluate(answers, spans, fits)
    /\ UNCHANGED <<chosen, present, sifting, froze, corpus, repairs, isolated, task>>

Next ==
    \/ Find \/ Specify \/ Build \/ Probes \/ SelectStep \/ Selected
    \/ FreezeOne \/ FreezeFails \/ Settle \/ Adequacy \/ Repair \/ Evidence \/ Write \/ Replay
    \/ Verify

Spec == Init /\ [][Next]_vars

-----------------------------------------------------------------------------
(* Properties. *)

\* A workload is a command that touches its input: a program that leaves the file it
\* was given alone, or ignores its standard input, is neither selected nor timed on
\* it, unless what it does is not the same from run to run.
IgnoredInputIsNoWorkload ==
    accepted \union DOMAIN corpus.timed \subseteq project.reads \union project.writes \union project.random

\* What is timed was never graded, was tried as a workload, succeeded on every run of
\* the freeze, and is not the last workload of its family: another stays to be graded,
\* and with it something that shows the program working.
HeldOutWorkloads ==
    corpus.usable =>
        /\ DOMAIN corpus.timed # {}
        /\ \A s \in DOMAIN corpus.timed :
              /\ s \notin DOMAIN corpus.graded
              /\ s \in accepted \union errors
              /\ \A k \in 1..Runs : recorded[s][k].exit = Zero
              /\ \E t \in DOMAIN corpus.graded :
                    Family(t) = Family(s) /\ \A k \in 1..Runs : recorded[t][k].exit = Zero

\* The workloads are the scenarios whose input was seen to matter; error paths are there
\* to be graded.  The freeze does not ask which was which, and a scenario that failed
\* when it was selected and never again is timed.
TimedWasSensitive == corpus.usable => DOMAIN corpus.timed \subseteq accepted

\* A file that was only written, and holds what the repository already holds, is not
\* evidence that it was read.
SensitiveMeansRead == accepted \subseteq project.reads \union project.random

\* What two runs of the reference agree on, line by line, with the same number of lines.
Agrees(runs, stream) ==
    \A k \in DOMAIN runs :
        /\ Len(stream) = Len(runs[k])
        /\ \A i \in DOMAIN stream : stream[i] = runs[k][i] \/ \E j \in DOMAIN runs : runs[j][i] # runs[k][i]

\* Full marks mean the reference's behaviour: a submission that earns more than
\* half the score agreed with every run of the freeze on every line those runs
\* agree on, and had as many lines; a gain was established on every workload; and
\* what the reference did in a run of the freeze is never marked down.
FullMarksMeanTheReference ==
    /\ verdict.reward \in {"gain", "even", "loss"} =>
          \A s \in DOMAIN task.graded, c \in Channels :
              task.graded[s][c].graded =>
                  Agrees([k \in 1..Runs |-> recorded[s][k][c]], verdict.answers[s][c])
    /\ verdict.reward = "gain" => \A s \in DOMAIN verdict.spans : verdict.spans[s].lower > 100
    /\ corpus.usable =>
          \A s \in DOMAIN corpus.graded, k \in 1..Runs :
              Passed(corpus.graded[s], recorded[s][k]) = Points(corpus.graded[s])

\* A corpus that reaches too little is improved by proposing scenarios for the
\* dark regions that matter.
RepairProposes == stage = "refused" /\ relevant # {} => proposed

=============================================================================
