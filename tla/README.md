# A verification development for frontier-refactor-factory

The factory turns public source code into refactoring tasks.  A *candidate* (a
function, a package, a repository) is sourced from an index, taken through
eight stages by `pipeline.build_one`, and either shipped as a task directory or
refused with a fault that says whose it is.  Nothing of this is hard to test
one call at a time.  What is hard is the whole: evidence that is deferred and
has to be established later, exceptions that are charged by the order of the
clauses that catch them, rolls of threads around a small number of sandboxes, a
walk whose cursor is saved while its rows are still being handed out, a batch
that is interrupted and resumed, and a freeze that writes outages down in the
same form as answers, an index that is walked by numbers it does not have, an image
that is driven in one sandbox and delivered from another.  These modules are
about that.

## 1. The system

| part (source) | state | operations | interacts with |
|---|---|---|---|
| pipeline (`core/pipeline.py`, `core/evidence.py`, `observe/replay.py`) | the stage, the battery of verdicts, the task directory and its hashes | specify, build, probes, freeze, adequacy, timing, evidence, emit, quality, replay, execution evidence, in-image gate, purge, attestation, stamp | the scale and its seam (calls that return or raise), the sandboxes, the task directory on disk |
| rolls (`automation.py`, `core/diversity.py`) | per job: candidates seen, attempts, reports; per scale: the repository counter; per process: the E2B slots | find, wave, accept, submit, acquire, set up, build, release, join, report | sourcing, factories, sandboxes |
| sourcing (`core/sourcing.py`) | per job: the walk and its generator; the memory file (seen identities and a cursor per index) | load, walk, fetch with retries, skip, yield, remember, save | the indexes, the file system |
| asynchronous batches (`factory.py`, `core/checkpoint.py`) | tasks, semaphore, executor, stop flag, checkpoint file | begin, acquire, build, release, record, interrupt, restart | the pipeline, one scale shared by all candidates |
| call scales (`scales/package.py`, `module.py`, `kernel.py`, `core/statement.py`) | the material of the candidate under way, the cached observer, the corpus, the name | specify, generator, name, build, draw, repair, top up, audit, emit, describe | sandboxes, the model, the task directory |
| repo scale (`scales/repo.py`) and its verifier | entry point, workloads, frozen scenarios, the task it writes | checkout, entry point, build, harvest, select, freeze, evidence, write, verify | process seam, coverage, the model |
| call seam (`observe/call/*.py`) | a subject process, its request ids, the observations per probe, the corpus | stage, ask, call, call_many, freeze, pick_timed, battery, perturb, emit, replay | sandboxes |
| dispatch, bridge, shims (`observe/call/dispatch.py`, `bridge.py`, `package.py`, `source/package_adapters.py`) | none | read a surface, write an entry, bind a function, reconcile, make a mutant | what is built and served |
| process seam (`observe/process/*.py`) | scenarios, expectations with masks, what is graded and timed | select workloads, freeze, hold out, score, perturb | sandboxes |
| indexes and miners (`source/*.py`) | positions per page number, rows bought and not used, checkouts, functions found | page, segment, widen, clone, retire | registries, code search, git |
| images and export (`observe/images.py`, `in_image.py`, `replay.py`) | the sandbox of a drive, the lock file, the destination | digest, push, build, replay, inventory, save, commit, roll back | docker in a sandbox, the task directory |
| sandboxes (`core/sandbox.py`, `core/containers.py`, `core/resources.py`, `core/scratch.py`) | open sandboxes, scratch trees | open with retries, push, run, pull, close | E2B, docker |
| network (`source/http.py`, `source/tokens.py`) | last call, token limits | get, json | registries |
| model client (`core/model.py`, `core/rate_limiter.py`) | the gate's slots and its spacing lock, usage counters | ask, retries within a clock, a retry without a temperature | the gateway |
| adequacy, timing, scoring | measurements, intervals | assess, repair, measure, score | the seams |
| isolation (`observe/isolated.py`), coverage, audits | confined processes | run, audit | docker in a sandbox |
| text and reports (ledger, contract, cli, config, scripts) | files | render, append, read | — |

The hard behaviours, and the properties that make each part correct, are listed
one by one under `hazards` in `PROJECT.json`.  In a sentence each:

* **pipeline** — what is emitted was established, the image gate credits only bytes
  that were driven, and what failed because of us is charged to us.
* **rolls** — bounds hold across waves of parallel candidates, slots come back,
  one bad candidate does not end a job, and a roll finishes.
* **sourcing** — nothing that is remembered is served again, and what the cursor
  leaves behind unread is left for a reason that can be named.
* **batches** — a restart repeats nothing settled, an interrupt starts nothing new, and
  permits come back.
* **seams** — what is graded is what the subject says, and full marks are the
  reference's behaviour.
* **scales** — a task is of the candidate that was observed for it, and its
  corpus is as large as the source's own cut allows it to claim.
* **indexes** — an empty page means that the index is exhausted but for what was given
  up or lost in a known way, and no row is bought twice.
* **delivery** — whoever finds a delivery finds one export, whole, built from bytes
  that were digested before they left and were unchanged after the verdict.
* **sandboxes and network** — deadlines compose, retries do not repeat effects.

## 2. Modules

`X.tla` is a component; `MCX.tla` gives its structured constants values for TLC;
the `MCX*.cfg` files are the runs.  A definition that begins with the name of
another and says in its comment *Mutant of ...* is a plausible bug in that
definition; each property is shown to notice one.

| module | what it models | how its state and steps correspond to the code |
|---|---|---|
| `TaskContract` | what `build_one` promises whoever calls it | abstract: open, proven, shipped or refused |
| `Pipeline` | one candidate in `build_one` | `pc` is the place in `_run`; `battery` the `Battery`; `tree`, `driven` and `pushed` stand for the bytes of the directory, of what the replay drove and of what left for the image; `attested` is how far the record and the stamp have come; `raised` what last left a hook; one action per stage, and `Raise` for the except clauses, with a table of them per stage in their order |
| `PipelineProofs` | theorems about `Pipeline` | section 5 |
| `Roll` | `automation.run` in roll mode, for several jobs at once | `phase` is the place in the loop; `state` the life of each candidate from sourced to settled; `free` and `leaked` the semaphore; `count` the diversity policy |
| `RollProofs` | theorems about `Roll` | section 5 |
| `Sourcing` | `walk` over numbered pages and the memory file | `phase` per job, the page being drained and its rows, the loaded `Memory` per job, whether its deadline has passed, and `file`, which may be torn by a crash while it is written; `setting` says who walks, whether the index has an end and whether there is a deadline |
| `SourcingProofs` | theorems about `Sourcing` and `Sources` | section 5 |
| `Batch` | `Factory.build_async` with its checkpoint, over one shared scale | one status per candidate, the semaphore's permits, the SIGINT flag, the checkpoint's rows, and the scale's `_material` and `_built` |
| `BatchProofs` | theorems about `Batch` | section 5 |
| `Freeze` | the call seam: `freeze`, `_pick_timed`, E1 and E3 | `observed` is the dictionary of observations per probe, by what a digest tells apart; `corpus` the graded and timed probes with the frozen answers; a remote conversation is a function of what the subject does with each input and of the fate of each chunk |
| `FreezeProofs` | theorems about `Freeze` | section 5 |
| `Indexes` | `page(n)` of eleven kinds of index: GitHub code search in segments, chains and quota chains of it, the registries | pure: an answer is rows and what the instance remembers; one operator per index, from its arithmetic of pages, positions and ceilings |
| `Sources` | one walk over an index or a miner (`function_miner.py`, `github_package.py`) | `n` is the number asked next, `memo` what the instance remembers, `faults` failed or short pages; of a miner the `buffer` of rows bought, the `batch` of those taken off it together, the checkouts (none, in part, whole), what was found and what was `lost`; a restart loses the instance and keeps the number, a walk begun again keeps the instance |
| `Process` | observations, expectations with masks, workloads, holdout, grading, bite, the speed of a submission | pure: a channel is a sequence of lines, an expectation what the runs repeat, position by position |
| `Repo` | `scales/repo.py` for one repository, from the tree's declarations to the verifier that ships | `stage` is the place; `offered`, `accepted`, `errors`, `controls` the selection; `recorded` the runs of the freeze, `frozen` what they froze to; `task` what is written and `verdict` one evaluation of a submission |
| `RepoProofs` | theorems about `Repo` | section 5 |
| `Remote` | `core/containers.py`: one sandbox behind a wire that times out | a sandbox is known by what commands leave in it; a command that is not answered is sent once more while the first has not begun, has ended or still runs |
| `Delivery` | `export` and `drive`, by several exporters over one directory | `pc` per exporter, its sandbox, the `record` of its drive, its lock file (`path` and `inodes`: the lock is the file's, not the name's), the digest it names the delivery by, taken after the check, what it has linked; `files` is the destination |
| `DeliveryProofs` | theorems about `Delivery` | section 5 |
| `Serving` | adapters, dispatchers, bridges and shims in eleven languages | pure: a subject is what its tree declares; the surface found, what the entry reaches, what is bound, what the mutant and the delivered layout serve |
| `Clients` | the model client behind the gate | per question: waiting for a slot, for its turn, sleeping with the turn, asking; its clock and its attempts |
| `CallScales` | the package, module and kernel scales: workers that take their candidates one after the other | `at` is the stage; `material` and `built` the two fields a scale keeps between candidates; `corpus`, `name`, `ended`, and `tasks`, the directory |
| `CallScalesProofs` | theorems about `CallScales` | section 5 |

`Pipeline` is composed with `TaskContract` by `INSTANCE TaskContract WITH status
<- Status, evidence <- Established`: the contract is a property of the run and a
theorem.  `Roll` and `Batch` use of a candidate what the contract says of it (it
ends refused or emitted) and not its stages.  `Freeze` is the inside of two of
the pipeline's steps, freeze and evidence, whose outcomes are inputs there.
`Sources` EXTENDS `Indexes`, `Repo` EXTENDS `Process` and `Delivery` EXTENDS
`Remote`: the pure part of each is a module of its own.  `CallScales` EXTENDS
`Serving` and `Clients`: each worker's candidate is served by the first and asks
through the second, and all workers wait at one gate.  `Sources` is what is
behind a page in `Sourcing`; `Delivery` is what the pipeline's image gate asks.

### What the models leave out

* Data: identities, inputs, answers, verdict details and files are members of
  small sets.  Text generation, logging and reports are left out.
* `Pipeline`: the directory may be rewritten only by another build of the same
  candidate.  That really happens: only the candidates of single-candidate runs
  get a directory of their own, and the same candidate in two jobs, a direct
  build and `build_async` share one.  `MaxRewrites` bounds it.
* `Roll`: the growth of the request after an unproductive find is left out,
  because `find` never repeats what it served; `find` is assumed to return.
  How often the set-up of a candidate raises is bounded by `SetUpFailures`.  A
  candidate whose run finds no headroom on the host (`resources.require_headroom`) raises
  before it wants a slot (`Admitted`); the roll's own question before its loop is left out.
* `Sourcing`: a page is a list of rows that is there or fails; how an index comes
  by it, and how a row widens into several candidates, is `Sources`.  An index answers
  the numbers after its last page alike, with nothing or, without an end, with that page
  again; those numbers are counted as one.  The bounds of
  three attempts per page and three errors in a row are two in the runs.
* `Sources`: what a row holds is a set of defects; which of them a miner meets is an
  input.  No more rows of one publication time than a page of the Go module index holds
  (`TimesAssumption`): past such a time its cursor would not move.  A clone that was cut
  off holds any part of what the repository holds, from nothing on.  `Retry-After`, tokens
  and politeness are not modelled: a request is answered or fails.  The retries of a page
  are in `Sourcing`.
* `Freeze`: numeric policies (a comparison with tolerance) are left out, as is
  the older contract of an observer without attempts; a flaky subject follows
  one coin per run; two outages write
  down the same text; the last fallback of `_pick_timed`, for a corpus without a
  single answer, is unreachable because such a corpus is refused before it.
* `Repo`: every scenario has one step.  What the program does on a scenario is a set of
  behaviours of each repository, given and with its input changed, and the repository says
  which inputs the program reads, which it writes and what varies from run to run
  (`InputsAssumption` is what that means of the behaviours: neither read nor written, a
  file is listed as it was given and nothing else differs); the survey of the tree,
  coverage, the image and the statistics behind an interval are inputs. Digests are the
  lines they are of.  A run that is stopped at its limit has written nothing yet: what a
  local run had printed by then is left out.  A submission is the reference, or the
  reference with something else on one scenario.
* `Delivery`: `prepare_task` and `verify_offline`, and what an audit reads in a layer, are
  left out.  The digests of the environment and of the tests are taken in the same step as
  that of the task, and one stands for all.  A task is whether it builds, whether it has a
  verifier image of its own, whether its inventory is complete, and what the replay says.
* `CallScales`: the freeze and the battery are `Freeze`; here they ask only what
  depends on how the subject is served.  Probes are an operation and a case, a
  name is a list of words.
* `Clients`: fallback models, token accounting and `configure()` in the middle of
  a run are left out; the clock counts waits.
* `Serving`: of a declaration, what the adapters and bridges tell apart.

## 3. Runs

| run | instance | shows | states |
|---|---|---|---|
| `pipeline` | one candidate, two checks (one that may be deferred, one that may be inconclusive), one late check, every combination of optional hooks, one rewrite | the five invariants below, the binding of evidence to bytes, and the contract | 38 thousand |
| `roll` | a job of the module scale with four candidates (three in one repository, one in another) and a job of the repository scale with two candidates of one repository; two workers per job, two slots, target 2 of at most 3 attempts, cap 2, one failing set-up | bounds, cap, slots, reasons to stop, termination | 106 thousand |
| `roll_leak` | one slot | a violation | |
| `sourcing` | an index of two pages that share a row, one row malformed and one unwanted, a budget of two candidates, one crash: two jobs with one memory file where the index ends, and one job with a deadline where it does not | cursor, no repetition, termination | 691 thousand |
| `batch` | two candidates, one or two permits, an interrupt at any point, two restarts | checkpoint, permits, interrupt, termination | 70 thousand |
| `batch_shared` | two permits | a violation | |
| `freeze` | four probes over three inputs, two runs, chunks of two, every assignment of six behaviours to the inputs, every fate of every chunk, two mutants | what is graded and timed, what is kept | 26 thousand |
| `freeze_outage` | the same, six probes in three chunks | a violation | |
| `sources` | twelve indexes and two miners over eight rows in three parts, the second empty and the first one longer than the ceiling of six, which falls on the end of a page as GitHub's does; pages of three, rows taken two at a time, two failures, one restart with or without the saved number or a walk begun again | exhaustion, no row bought twice, no position past the ceiling, everything reached | 156 thousand |
| `repo` | eighteen repositories, each with one way to go right or wrong, eight scenarios, two runs of the freeze, two backends, every submission that differs from the reference on one scenario | workloads, holdout, full marks | 124 thousand |
| `delivery` | two exporters and three exports of five tasks, one failure of the wire, one rewrite, one crash | one export, driven as delivered | 2.2 million |
| `package` | two workers in ten batches of seventeen candidates, everything a gateway may do, a floor of seven, a source that stops at eight and a battery of three cases | corpus, rescue, observer, termination | 249 thousand |

Why the bounds are enough.  *Pipeline* has no unbounded part but the rewrites: one is what
it takes to separate the bytes that were driven from the bytes that ship, and the theorems
hold for any number.  *Roll* needs two jobs to contend for slots, a wave smaller than the
supply, and a target that a wave can reach or overshoot. *Sourcing* needs a page that
fails before one that does not, a generator closed in the middle of a page, a row that two
pages share, and two writers of the file; without an end one job is enough, since what is
asked there is of one walk.  *Batch* needs two candidates for the shared scale and two
restarts so that the second finds rows that the first run and the first restart wrote.
*Freeze* needs a chunk boundary with a probe on each side in the same chunk and in the
next, two runs to disagree, and two probes with the same input.  *Sources* needs a segment
that ends in the middle of a page, on a full page at the ceiling and with no rows, a page
of one part that is followed by an empty part, and rows of one publication time on both
sides of a page; two failures are a page that fails and a next one that does too.  A miner
needs a row beside the one that raises, and a clone cut off by the restart.  *Repo* needs
a family with two workloads and one with one, a program that varies by one line, one that
ignores its input, one that writes over it, one that is slow, and a submission wrong where
the reference varies and where it does not. *Delivery* needs a second exporter that opens
the lock file of the first before and after it is removed, and a third export that finds
what a crash left; one failure of the wire is enough for each command to run twice, and
the theorems hold for any number.  *Package* needs the two fields of a scale to survive a
candidate that was located, built or refused, both workers at the gate, and a floor that
the battery alone misses by one and with one more probe reaches; the cut, one probe above
it, falls on the last operation of a drawing.

Deadlock is checked in `roll` and the `freeze` runs; where a
cfg says `CHECK_DEADLOCK FALSE` a build, a batch, all walks, an evaluation, the
exports or all candidates are over and the system really stops, or (`roll_leak`)
being stuck is the question.

### Properties

* `EmittedIsEstablished`: emitted means that every check the hooks call for is
  established, across deferral, late checks and the image gate.
* `EvidenceIsKept`: what a stage established stays so in every later one.
* `MarksAreEarned`: whatever ends the run, the record and the stamp are only on a task
  for which everything was established, and no refused run leaves a stamp.
* `NamedOutageIsOurs`: after specification, an outage under its own exception
  class is charged to the factory.
* `ReplayEvidenceIsForTheseBytes`: the run goes on from the image gate only with the
  directory that left for the image, though it may be rewritten before the push, while the
  image is driven and before the answer is looked at.  `ImplementsContract`: see section 2.
* `RollStaysInBounds`, `CapHolds`, `SlotsAreAccountedFor`,
  `StopsOnlyForAReason`, `RollsFinish`: a roll emits at most its target,
  attempts at most its limit, takes at most the cap from a repository; a slot is
  free, held by one candidate or known to be lost; it reports only when it has
  its target, used its attempts or emptied its supply; and it does report.
* `CursorAccountsForPages`: each row of a page behind a cursor, in a memory or in the
  file, was considered or is about to be, was left by a walk that stopped on its page, or
  is of a page whose fetch was given up.  The last two are disagreements with the text
  (section 6).
* `NeverServedTwice`; `WalksEnd`: a walk ends if the index has an end or the walk a
  deadline.
* `PermitsAddUp`, `SettledIsNotRepeated`, `StopMeansStop`, `OneAtATimeIsItsOwn`,
  `BatchEnds`: see section 5.
* `GradedIsWhatTheSubjectSays`: though a freeze may record an outage or a
  neighbour's crash as an answer, no such answer is in a corpus that passed.
* `TimedAreAnswers`: the held-out probes, which nothing asks about again, are
  values the subject returns.
* `DeterministicIsKept`: over a wire that held, a subject that repeats itself
  loses no probe.
* `SourcesTypeOK`: beyond types, a search is never asked for a position past its
  ceiling, nor for a segment it does not have.
* `EmptyMeansExhausted`: an empty page is served only when every row the index can
  reach was served, given up for a reason the walk records, or lost by a miner in one of
  three ways: in hand when another row raised, of a page of functions that was given up,
  or in a clone that was cut off; across restarts that lose what the instance knew of
  page numbers.
* `NothingIsBoughtTwice`: no page of an instance repeats a row of an earlier one.
* `WalkReachesAll`: a walk that goes on asking comes to everything, whatever it then loses.
* `IgnoredInputIsNoWorkload`: a command that neither reads nor writes its input, and does
  the same each time, is neither selected as a workload nor timed; being timed has a
  path of its own, since scenarios kept as error paths may be (section 6).
* `HeldOutWorkloads`: what is timed was tried by the selection, was never graded,
  succeeded in each run, and
  leaves another workload of its family, that worked, to be graded.
* `FullMarksMeanTheReference`: more than half the score is given only to what
  agreed with every run of the freeze on every line on which the runs agree; a
  gain only when there was one on every workload; the runs themselves lose nothing.
* `MetadataIsOneExport`: whoever finds the metadata finds all files it speaks of,
  from one export, whatever the others do and wherever an exporter died.
* `DeliveredWasDriven`: a delivery was built from the bytes that were digested before
  they left and were still there after the last cleanup, earned full marks in that image,
  and left nothing behind in its sandbox, though commands may have run twice.  The name it
  is delivered under is taken later, and is never of an older task; that it may be of a
  newer one is in section 6.
* `CorpusClearsTheFloors`, `RescueReadsTheAuditsNumber`: what is frozen for a
  package is distinct, enough, and about its operations, each of which it asks more than
  once unless the source cut the list; and nothing is refused as too little that the
  battery could have made enough.
* `DeliveredIsWhatWasObserved`: the observer cached by a scale is never that of
  an earlier candidate.
* `EveryCandidateIsSettled`: all workers come to an end, whatever the gateway
  does, though the one with the turn sleeps with the lock.

## 4. Fairness

Safety runs need none.  Five runs check liveness:

* `Roll` assumes weak fairness of each step of a job's thread, of the beginning
  of some waiting candidate of a job (a slot that stays free goes to a waiting
  worker, nobody says to which), and of each step of a candidate under way.  A
  build is assumed to end: every call inside has a deadline.  Nothing is assumed
  of failures, which are choices inside these steps.
* `Sourcing` assumes weak fairness of each walk under way: its thread goes on and
  its consumer asks for the next candidate or closes the generator; and of its clock,
  where a deadline is set.  Nobody has
  to begin a walk, failing fetches are never assumed to stop, and the crash is
  not fair.
* `Batch` assumes weak fairness of the steps of each candidate's task: the event
  loop runs what is ready and the executor's threads go on.  Nothing is assumed
  of interrupts and restarts.
* `Sources` assumes weak fairness of the walk: every request has a deadline, so a
  page is answered or refused in the end.  Failures are bounded by `MaxFaults`, which
  is what makes reaching everything a question of positions and not of luck.
* `CallScales` assumes weak fairness of each worker: it is a thread that goes on.  Waking
  the waiters of a lock in any order is enough, because each worker asks a bounded
  number of questions.

## 5. Proofs

`PipelineProofs` proves with TLAPS, for every set of checks and late checks and
every number of rewrites, from `ChecksAssumption` and `RewritesAssumption` alone:

| theorem | property |
|---|---|
| `TypeCorrect` | `TypeOK` |
| `EvidenceStaysKept` | `EvidenceIsKept` |
| `OnlyEstablishedIsEmitted` | `EmittedIsEstablished` |
| `MarksAreAlwaysEarned` | `MarksAreEarned` |
| `NamedOutagesAreOurs` | `NamedOutageIsOurs` |
| `EvidenceIsForTheseBytes` | `ReplayEvidenceIsForTheseBytes` |
| `ContractIsImplemented` | `ImplementsContract` |

The argument.  `EmittedIsEstablished` is not inductive: it says nothing until
the last step and would have to be guessed there.  What is inductive is the
account of what is established *so far*, stage by stage, `EvidenceIsKept`, with
the one exception the code makes (the delegation check, until the evaluator
has run) and with the fact that only a run past its last gate is emitted
(`EmittedAtTheEnd`).  `EvidenceInv` is the conjunction of the two with `TypeOK`;
`EvidenceInductive` has a step per action; a gate that the run survives was
passed (`GateSurvived`).  The rest follows: at the end everything required is
there (`KeptAtTheEnd`), so emission implies `Established`, and the refinement
maps each stage to `Examine`, `Prove`, `Ship`, `Refuse`, `Lose` or a stutter.
Attribution rests on lemmas about the tables of except clauses
(`FirstClauseDecides`, `NamedOutageFault`).  `MarksAreAlwaysEarned` uses that the two marks
are made behind the last gate (`MarksFollowTheGates`), where `EvidenceIsKept` says that
everything required is there.  `EvidenceIsForTheseBytes` needs that versions of the
directory only grow, so that what was driven was read no later than what left for the image,
and that no later than now (`Chronology`): the gate compares the directory with what was
driven, and what lies between two equal versions is the same version.

`FreezeProofs` proves, for every list of probes, every set of behaviours and
every number of runs, chunk size, holdout and attempts, from `KindsAssumption`,
`BoundsAssumption` and `ProbesAssumption`:

| theorem | property |
|---|---|
| `TypeCorrect` | `TypeOK` |
| `TimedProbesAreAnswers` | `TimedAreAnswers` |
| `GradedAnswersAreTheSubjects` | `GradedIsWhatTheSubjectSays` |
| `DeterministicProbesAreKept` | `DeterministicIsKept` |

The argument, in three invariants.  `TimingInv`: a batch and a wire lose answers
or write failures down as answers, but make up no value, so a value that was
observed is one the subject returns (`ValuesAreSaid`); the holdout takes only
probes with a value.  `CeilingInv`: a corpus changes no more once it is distilled
and E1 held only if each graded answer is one that a process of its own gives;
the step that passes is the one where E1 held.  `SteadyInv`: each run numbers its
requests from one and asks them in the same order, so that for a subject that is
not flaky the answers of a run are the same function of the probe in every run
(`SteadyRun`), the silence after a process that ended included; one answer per
probe means that none is discarded.

`RollProofs` proves, for all jobs, supplies, slots and bounds, from
`SupplyAssumption` and `BoundsAssumption` (what jobs are offered is disjoint and
holds no candidate twice; no bound is zero; neither the target nor a request is
above the limit of attempts):

| theorem | property |
|---|---|
| `TypeCorrect` | `TypeOK` |
| `SlotsAreAlwaysAccountedFor` | `SlotsAreAccountedFor` |
| `RollsStayInBounds` | `RollStaysInBounds` |
| `RollsStopForAReason` | `StopsOnlyForAReason` |
| `CapAlwaysHolds` | `CapHolds` |

The argument, in four invariants; the last three each add to the first.
`SupplyInv`: what a job still has to consider is the end of what it was served,
and every candidate under way was taken from it, so a wave takes a candidate
once.  `SlotsInv` adds the account of the slots.  `BoundsInv`: not the
emissions but those and the candidates *under way* stay within the target, and
those and the attempts within the limit; that is what the size of a wave
respects and what is inductive.  `CapInv`: the counter of a repository is the
number of candidates taken from it, so the test before the counter is raised
bounds the set.

`SourcingProofs` proves, for any index, any number of jobs, crashes, attempts
and errors, with an end or without, from `PagesAssumption`, `SettingsAssumption` and
`BoundsAssumption`:

| theorem | property |
|---|---|
| `TypeCorrect` | `TypeOK` |
| `NothingIsServedTwice` | `NeverServedTwice` |
| `CursorsAccountForPages` | `CursorAccountsForPages` |

and, for any parts, times, page sizes, ceiling, bounds of failures and restarts, from
`IndexAssumption` and `SourcesAssumption` (`TimesAssumption` is not used):

| theorem | property |
|---|---|
| `SourcesAreTyped` | `SourcesTypeOK` |
| `EmptyAlwaysMeansExhausted` | `EmptyMeansExhausted` |
| `NothingIsEverBoughtTwice` | `NothingIsBoughtTwice` |

The argument for walks.  `TypeInv` says that a walk with a page in hand is past the first
and within the index.  `RememberInv`: what a walk handed out is in its memory
before it is asked again, so a row that passes the test is new.  `CursorInv` is
needed because the cursor moves when a page is *fetched*, before its rows are
looked at: each page behind a cursor, in a memory or in the file, was given up or has
every row accounted for (`Covered`), and a row stays accounted for because a walk lets go
of it only by considering it or by leaving it behind (`OnlyMore` and what follows it).

The argument for indexes.  `EmptyMeansExhausted` speaks of the end; what is inductive is
`SourcesInv`, that what lies *behind the place at hand* was served, waived or is in a
miner's hands: in its buffer, in the rows taken off it, or lost (`Held`).  There are three
kinds of place.  A registry's is a page number: rows are ranked onto 1..|Row|
(`EveryPlaceIsTaken`, by the pigeonhole), pages cut the ranks into slices, and the last
page served reaches everything (`InSlices`).  That of the Go module index is a time: its
cursor rises through the times (`CursorSays`), so a walk over a stream with rows is never
told that it is empty (`InTimes`).  That of a search or a chain is a recorded position:
looking for a page skips only parts without rows (`LandingSkipsNothing`), a short page is
the last of its part (`ShortWindowsAreLast`), so going on from one loses nothing
(`GoingOnLosesNothing`); a number that failed is answered from the furthest position
known, which is the one that failed, and a restart answers from the start (`Recalls`,
`InParts`).  `NothingIsBoughtTwice` follows step by step (`BoughtOnce`), because what this
instance served lies behind the place too, and what a page brings does not.

`BatchProofs` proves, for any number of candidates, permits and restarts, from
`CountAssumption`, `LimitsAssumption` and `RestartsAssumption`:

| theorem | property |
|---|---|
| `TypeCorrect` | `TypeOK` |
| `PermitsAlwaysAddUp` | `PermitsAddUp` |
| `SettledIsNeverRepeated` | `SettledIsNotRepeated` |
| `StopsMeanStop` | `StopMeansStop` |
| `OneAtATimeIsItsOwnAlways` | `OneAtATimeIsItsOwn` |

The argument.  `PermitInv`: the permits left and the candidates inside add up to
the limit.  `CheckpointInv`: nothing that could still be built in this run has a
settled row, which holds because a run reads the checkpoint before it begins and
each candidate writes only its own rows.  `OwnInv`: with one permit only one
candidate is inside (`OneHolder`, from `PermitInv`), so what the scale holds is
that candidate's, stage by stage; without the limit the same sentence is
the violation of `batch_shared`.

`DeliveryProofs` proves, for any tasks and any number of exporters, exports,
failures of the wire, rewrites and crashes, from `DeliveryAssumption`:

| theorem | property |
|---|---|
| `WholeDelivery` | `MetadataIsOneExport` |
| `DrivenDelivery` | `DeliveredWasDriven` |

The argument, in two invariants over `TypeCorrect`.  `WholeInv`: exports are
numbered and no two exporters have one number (`Numbered`); what an exporter
inside the commit has linked is its own and everything before its place
(`Partial`); nobody inside has the number of what is delivered (`Foreign`), so
that rolling back never takes a file of a finished export.  The lock is not
part of the argument: it is the file's, and a file that was removed can be held by
two.  What keeps exports apart is that a link fails where a name exists.
`DriveInv`: what an exporter holds is sound for its place.  Nothing in the sandbox is
older than the digest that was taken before the push, and what names the delivery is no
older either; after each command the
world is one that the command leads to, sent once or twice (`SentStays`: a
command however often sent only goes where its effect goes); and while the verdict
is good, the image is of the digest, the marks are full and what was saved is the image
that was driven.  Every committed file is then good for its export.

`RepoProofs` proves, for any repositories and submissions, any number of runs and any
intervals, from `ScriptAssumption`, `LineAssumption`, `RunsAssumption`,
`ProjectsAssumption` (what a program leaves behind is lines), `InputsAssumption` (what it
means to leave an input alone, section 2) and `SpansAssumption` (noise is never below that
of an exact measurement, `core/timing.py:149`):

| theorem | property |
|---|---|
| `FullMarksAlwaysMeanTheReference` | `FullMarksMeanTheReference` |
| `IgnoredInputIsNeverAWorkload` | `IgnoredInputIsNoWorkload` |
| `WorkloadsAreHeldOut` | `HeldOutWorkloads` |

The argument.  `GradingInv`: what is frozen, what a corpus grades and what a task
ships are each the freeze of the recorded runs (`FromRuns`), and a record once made
does not change, because the freeze takes what it has not recorded; nothing was
judged before the end.  A channel that matches its freeze agrees with the runs
(`MatchingIsAgreeing`), and each run matches (`RunsMatchTheirFreeze`).  Full marks
are every point because a subset of a finite set with as many elements is the
set (`FullMeansEveryPoint`); the worst shape decides, so a gain is one on each
(`GainOnEveryShape`).

`InputInv`, which needs `GradingInv`, is about the way in.  A selected workload showed two
signatures, so its program touched the input or varies (`Sifted`); an error path failed in
whatever it can do, unless it varies; the freeze records only what was selected and only
what the program does (`Run`).  So a scenario that succeeds in every run of the freeze,
which is what timing asks for, was either accepted or varies (`TimedTouched`), though the
freeze never looks at the selection.  What is held out leaves a sibling because each
round of the holdout takes a scenario only from a family that keeps another one.

`CallScalesProofs` proves, for any workers, candidates, batches, floors, battery and
gateway, from `FloorAssumption`, `BatchAssumption`, `CandidatesAssumption` and
`BatteryAssumption` (floors are numbers, that of probes not above what the source draws;
queues, declarations, drawings and cases are lists):

| theorem | property |
|---|---|
| `DeliveredIsAlwaysWhatWasObserved` | `DeliveredIsWhatWasObserved` |
| `CorpusAlwaysClearsTheFloors` | `CorpusClearsTheFloors` |
| `RescueAlwaysReadsTheAuditsNumber` | `RescueReadsTheAuditsNumber` |

The argument.  The first rests on no assumption.  The property speaks of the directory,
and what is inductive is the pair of fields a scale keeps: between locating and building
the cached observer is of nothing or of what was located, from the build on it is of that
(`OfTheLocated`).  A refusal leaves both as they are, and the next candidate clears the
observer when it is located.

The other two are lemmas about the operators and a short invariant (`CorpusInv`). Keeping
the distinct probes keeps them all, each once (`KeptSays`).  Offering a list of cases adds
only cases, never takes a probe away, and afterwards every case is there unless its floor
was reached (`OfferAllSays`); the two passes offer every case to every operation
(`CoveringIsAll`, `FillingIsAll`), so a drawing that was topped up is at its floors or
holds the whole battery (`ToppedUpSays`), and what the audit says is about the same
numbers (`AuditedSays`).  The first probes of a list that clears the floor, as many as the
source draws, still repeat nothing and reach the floor; what each operation is asked is
kept only of a list that was not cut.  The invariant carries this from the audit to the
end of each candidate, refused or not (`InOrder`).

These folds are recursive functions over 0..n, and the library's induction theorems cannot
be used with the provers at hand (they take an operator as a parameter).  The lemmas on
them use the well-founded definition of a function instead and argue by the *least*
number at which a statement fails, which is first-order.

Only model-checked: liveness (`RollsFinish`, `WalksEnd`, `BatchEnds`,
`WalkReachesAll`, `EveryCandidateIsSettled`), since fairness and ENABLED are out of the
prover's reach.  Every safety property of a passing run, invariant or action
property, is proved.  Only proved: the type invariants of `Roll` and `Delivery`, which the
proofs rest on and no run repeats.

## 6. Where code and text disagree

Three runs end in a violation; each checks one sentence of the repository.

| run | sentence | what the code does |
|---|---|---|
| `roll_leak` | automation.py:365-368, the roll moves on | a slot is lost when the set-up of a candidate raises; when all are lost it waits for ever |
| `batch_shared` | stages.py:474 and module.py:407-409, the scale is cleared for each candidate | concurrent candidates of `build_async` clear and read one scale |
| `freeze_outage` | runner.py:342, an expired sandbox is not a material failure | the answers of a lost chunk disagree with the other runs; the discards are charged to the material |

Seventeen more sentences are stated as properties with a cfg that violates them,
kept beside the runs; `tlc -config <cfg> <module>` shows the behaviour.  A cfg that holds
several stops at the first that it finds violated; leave the one to look at.

| cfg, property | sentence | what the code does |
|---|---|---|
| `MCPipelineQuoted`, `WireIsNotTheMaterial` | pipeline.py:416, the wire is not the material | a scale's checkout re-raises every failure as `ValueError`, the material's class |
| `MCPipelineQuoted`, `StampMeansEmitted` | attestation.py:1, what was established about one emitted task | pipeline.py:493 stamps, 499 logs and 501 returns: a run interrupted in between leaves a stamped directory that nobody was handed |
| `MCPipelineQuoted`, `WhatShipsWasDriven` | pipeline.py:440, the same question, asked of the image the task ships | nothing looks at the directory between the gate and the return: what another build of the same candidate writes there then is handed back |
| `MCSourcingQuoted`, `FailedPageIsNotRetired` | sourcing.py:370-373, the segment stays unread rather than retired | the cursor passes the failed page |
| `MCSourcingQuoted`, `UnyieldedStaysAvailable` | tests/test_sourcing.py:473-474, material the walk read but never yielded stays available to the next roll | it is not remembered as seen, but the cursor is past its page (sourcing.py:315-317): the next walk begins after it |
| `MCSourcingEndless`, `StreamHasAnEnd` | golang.py:82 and 101, walked off the end of the stream; the stream has an end | the cursor is a time that is asked for inclusively, so the last row comes again for ever; with every row seen the loop of sourcing.py:297 never yields, and the deadline is off unless it is set |
| `MCSourcesSpilt`, `MinersLoseNothing` | source/__init__.py:10, empty means exhausted and nothing else does | four rows are taken off the buffer before one is widened (function_miner.py:274, github_package.py:76): one that raises takes the others with it; a page of functions given up passes over what was found (299-300); a clone that was cut off is read as the repository (396, 140) |
| `MCFreezeQuoted`, `BiteIsTheMutants` | evidence.py:137, the perturbed reference provably differed | an answer lost on the wire counts as a difference, and as caught |
| `MCFreezeQuoted`, `HoldoutIsNew` | stages.py:126, the timed inputs are new | the holdout is by probe; two probes may carry one input |
| `MCRepoQuoted`, `RepairProposes` | process/stages.py:324-325, a corpus that reaches too little is repaired | `adequacy._format_existing_probes` (363-372) reads `corpus.inputs`, which a corpus of the process seam does not have: the repair ends before it asks |
| `MCRepoQuoted`, `SensitiveMeansRead` | tests/test_process_sensitivity.py:1, input-dependence checks distinguish actual processing from unchanged fixture bytes | sensitivity.py:34-36 reads a file that holds the bytes of its run as untouched: a program that writes over its argument, unread, what the repository holds there is *unchanged* in one run and *changed* in the other, and passes for sensitive |
| `MCRepoQuoted`, `TimedWasSensitive` | sensitivity.py:78-79, input-sensitive successful execution is kept, plus error cases; repo.py:1773 | an error path is what failed once; one that succeeds in every run of the freeze may be timed, and nobody saw its input matter |
| `MCCallScalesQuoted`, `MutantIsServed` | dispatch.py:20-23, a mutant is a loadable program with the wrong answer | package.py:218 discards the build of the mutant, and a Go mutant imports `fmt` without using it: nothing answers, and no answer counts as caught |
| `MCCallScalesQuoted`, `UniquenessIsStructural` | statement.py:816-819, uniqueness is structural | stages.py:425 writes over the directory of another candidate with the same name |
| `MCCallScalesQuoted`, `EveryOperationIsAskedTwice` | package.py:690-692, two distinct probes are the minimum evidence that the behaviour of an operation is graded | the audit counts the whole list; the source draws its first 200 (package.py:73-78, stages.py:129), and the last operations may keep one probe or none |
| `MCDeliveryQuoted`, `BuildWireIsInconclusive` | in_image.py:184-185 and 283, what could not be asked is no verdict, and the wire is not the material | a build whose last attempt fails on the network is a failure of the task |
| `MCDeliveryQuoted`, `NamedIsDriven` | images.py:188, task changed after verified image export | the digests that are delivered are taken from the directory after that check (190-193): a write in between names bytes that were never driven |

Met while modelling, and told by no property:

* `QuotaChain` computes a page's link from a number of links that changes when one is
  retired: numbers that were not asked yet are answered from elsewhere, so it may
  skip pages and repeat them.  `EmptyMeansExhausted`, `NothingIsBoughtTwice` and
  `WalkReachesAll` except it by name.
* package.py:548-551 asks a second time after a `ValueError` that the validated generator
  never raises (it raises `ModelError`): the second question is dead code.
* The Ruby dispatcher looks a top-level method up in the class named "", against
  dispatch.py:435-445.
* statement.py:473-475 promises two attempts at a description; a failure the client
  names falls back to the template at the first.
* function_miner.py:391 says *pinned, always*; repo.py:2040 and 2050 clone the
  head of the branch with `--depth=1`.
* Labels of a generator that are no list are extended as one: a `TypeError` that
  nobody charges to anybody.
* process/stages.py:128-132 looks at the deadline of a freeze after the batched runs
  were made.

## 7. Plan

In order.

1. `Deadlines` — the budgets of a freeze, of `call_many`, of one command with its
   re-run, against the lifetime of the sandbox.  Abstract specification: a stage
   either answers or fails before its sandbox expires.
2. `Repo` with scenarios of several steps, whose steps share a directory; the
   graded unit is then the step and the dropped unit the scenario.
3. `Tokens` — the token pool and the HTTP client: a token reported exhausted
   between being handed out and being used, and a wait that outlives its caller.
4. `Isolated` — the confined server and its bounded pipes.
5. One walk of `Sourcing` over an index of `Sources`: the refinement of its pages.
6. Proofs: the lemmas that liveness rests on and that need no fairness (a measure that
   each step of a walk, a roll or a batch lowers), and a type invariant of `Repo`,
   of the offers to a model in `Clients` and of `CallScales`.

### Not modelled

The registry parsers, statement wording, shims and generated sources are text
processing: `Serving` and `Indexes` have their decisions, not their syntax.
Coverage, public scans, integrity and the survey of facts read files and report;
timing and scoring are statistics over real measurements; their results are
inputs.  The command line, configuration, credentials, progress and scripts hold
no state beyond their arguments.  Isolation and the audits run programs whose
behaviour is the kernel's and docker's.
