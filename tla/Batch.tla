-------------------------------- MODULE Batch --------------------------------
(***************************************************************************)
(* Factory.build_async: the candidates of one batch, as tasks of one event *)
(* loop, at most max_concurrent of them inside build_one on threads of the *)
(* pool.  All of them go through ONE scale object, which remembers the     *)
(* candidate it last specified.  Outcomes are appended to a checkpoint     *)
(* file, and a batch started over the same file skips what it settled.     *)
(***************************************************************************)
EXTENDS Integers, FiniteSets

CONSTANTS Count,          \* the candidates are 1..Count, in the order of `capped`
          Limits,         \* the values of max_concurrent a caller may choose
          MaxRestarts     \* bound on how often the batch is started again

Candidates == 1..Count

ASSUME CountAssumption == Count \in Nat
ASSUME LimitsAssumption == Limits \subseteq Nat \ {0}
ASSUME RestartsAssumption == MaxRestarts \in Nat

VARIABLES task,      \* candidate -> where its task stands
          spec,      \* candidate -> whose material the Spec it goes by describes
          parts,     \* candidate -> whose material its task is made of so far
          verdict,   \* candidate -> the outcome build_one returned
          material,  \* scale._material: the candidate it was located for
          built,     \* scale._built: the candidate whose material the cached observer holds
          noted,     \* scale._spec: the candidate it describes
          limit,     \* max_concurrent
          permits,   \* the semaphore's value
          stop,      \* stop_event
          skipped,   \* already_done
          file,      \* the checkpoint: a set of (identity, outcome) records
          restarts

scale == <<material, built, noted>>
vars == <<task, spec, parts, verdict, material, built, noted, limit, permits, stop,
          skipped, file, restarts>>

Nobody == 0
Outcomes == {"emitted", "material", "factory"}

\* The stages of build_one between which another thread may use the scale.
Inside == {"locate", "forget", "describe", "build", "probe", "observe", "emit"}
Going  == Inside \union {"returned", "recorded"}
Ended  == {"done", "stopped"}
States == {"new", "queued"} \union Going \union Ended

Init ==
    /\ task = [c \in Candidates |-> "new"]
    /\ spec = [c \in Candidates |-> Nobody]
    /\ parts = [c \in Candidates |-> {}]
    /\ verdict = [c \in Candidates |-> "none"]
    /\ material = Nobody /\ built = Nobody /\ noted = Nobody
    /\ limit \in Limits
    /\ permits = limit
    /\ stop = FALSE
    /\ skipped = {}
    /\ file = {}
    /\ restarts = 0

InState(set) == {c \in Candidates : task[c] \in set}

Go(c, next) == task' = [task EXCEPT ![c] = next]

-----------------------------------------------------------------------------
(* The event loop. *)

\* The task starts, unless the batch was stopped or the checkpoint settled it.
Begin(c) ==
    /\ task[c] = "new" /\ c \notin skipped
    /\ Go(c, IF stop THEN "stopped" ELSE "queued")
    /\ UNCHANGED <<spec, parts, verdict, scale, permits, limit, stop, skipped, file, restarts>>

\* Mutant of Proceeds: only the task's first line looks at the stop event.
ProceedsRegardless == TRUE

\* The stop event is looked at again once the semaphore lets the task in.
Proceeds == ~stop

\* Mutant of Acquire: the early return stands before the try, and keeps the permit.
AcquireStopsHolding(c) ==
    /\ task[c] = "queued" /\ permits > 0
    /\ \A d \in 1..(c - 1) : task[d] # "queued"
    /\ Go(c, IF Proceeds THEN "locate" ELSE "stopped")
    /\ permits' = permits - 1
    /\ UNCHANGED <<spec, parts, verdict, scale, limit, stop, skipped, file, restarts>>

\* The semaphore wakes its waiters in the order they came.
Acquire(c) ==
    /\ task[c] = "queued" /\ permits > 0
    /\ \A d \in 1..(c - 1) : task[d] # "queued"
    /\ IF Proceeds
       THEN Go(c, "locate") /\ permits' = permits - 1
       ELSE Go(c, "stopped") /\ UNCHANGED permits
    /\ UNCHANGED <<spec, parts, verdict, scale, limit, stop, skipped, file, restarts>>

\* Mutant of Released: the exception clause releases, and so does the finally block.
ReleasedTwice == permits + 2

\* Mutant of Released: there is no finally block.
ReleasedNever == permits

\* The finally block.
Released == permits + 1

\* The pool's future completes, and the outcome joins the result under result_lock.
Record(c) ==
    /\ task[c] = "returned"
    /\ permits' = Released
    /\ Go(c, "recorded")
    /\ UNCHANGED <<spec, parts, verdict, scale, limit, stop, skipped, file, restarts>>

\* The record is written beside the file and renamed over it, or that fails and is logged;
\* with the task over, what only it knew is forgotten.
Checkpoint(c) ==
    /\ task[c] = "recorded"
    /\ file' \in {file, file \union {<<c, verdict[c]>>}}
    /\ Go(c, "done")
    /\ parts' = [parts EXCEPT ![c] = {}]
    /\ verdict' = [verdict EXCEPT ![c] = "none"]
    /\ UNCHANGED <<spec, scale, permits, limit, stop, skipped, restarts>>

\* SIGINT.
Interrupt ==
    /\ ~stop
    /\ stop' = TRUE
    /\ UNCHANGED <<task, spec, parts, verdict, scale, limit, permits, skipped, file, restarts>>

-----------------------------------------------------------------------------
(* build_one, on a thread of the pool. *)

\* Keeps everything but the task, its parts, its spec, and the scale.
InThread == UNCHANGED <<verdict, permits, limit, stop, skipped, file, restarts>>

\* specify() begins with self._material = self._locate(candidate).
Locate(c) ==
    /\ task[c] = "locate"
    /\ material' = c
    /\ Go(c, "forget")
    /\ UNCHANGED <<spec, parts, built, noted>>
    /\ InThread

\* Mutant of Forgotten: the observer outlives the candidate it was built for.
Kept == built

\* A new candidate means a new subject: the cached observer is dropped.
Forgotten == Nobody

Forget(c) ==
    /\ task[c] = "forget"
    /\ built' = Forgotten
    /\ Go(c, "describe")
    /\ UNCHANGED <<spec, parts, material, noted>>
    /\ InThread

\* The Spec is made from self._material, read back.
Describe(c) ==
    /\ task[c] = "describe"
    /\ spec' = [spec EXCEPT ![c] = material]
    /\ Go(c, "build")
    /\ UNCHANGED <<parts, scale>>
    /\ InThread

\* observe(): the cached observer, or a new one over self._material.
Observed == IF built = Nobody THEN material ELSE built

Build(c) ==
    /\ task[c] = "build"
    /\ built' = Observed
    /\ Go(c, "probe")
    /\ UNCHANGED <<spec, parts, material, noted>>
    /\ InThread

\* probes() draws on self._material and leaves the spec on the scale.
Probe(c) ==
    /\ task[c] = "probe"
    /\ parts' = [parts EXCEPT ![c] = @ \union {material}]
    /\ noted' = spec[c]
    /\ Go(c, "observe")
    /\ UNCHANGED <<spec, material, built>>
    /\ InThread

\* The spec is read back off the scale and the corpus frozen through observe().
Observe(c) ==
    /\ task[c] = "observe"
    /\ spec' = [spec EXCEPT ![c] = noted]
    /\ built' = Observed
    /\ parts' = [parts EXCEPT ![c] = @ \union {Observed}]
    /\ Go(c, "emit")
    /\ UNCHANGED <<material, noted>>
    /\ InThread

Return(c, outcome) ==
    /\ Go(c, "returned")
    /\ verdict' = [verdict EXCEPT ![c] = outcome]
    /\ spec' = [spec EXCEPT ![c] = Nobody]

\* The writer reads self._material when the task is written, and the spec names it.
Emit(c) ==
    /\ task[c] = "emit"
    /\ parts' = [parts EXCEPT ![c] = @ \union {material, spec[c]}]
    /\ Return(c, "emitted")
    /\ UNCHANGED <<scale, permits, limit, stop, skipped, file, restarts>>

\* Any stage may refuse, on either's account.
Refuse(c) ==
    /\ task[c] \in Inside
    /\ \E fault \in {"material", "factory"} : Return(c, fault)
    /\ parts' = [parts EXCEPT ![c] = {}]
    /\ UNCHANGED <<scale, permits, limit, stop, skipped, file, restarts>>

-----------------------------------------------------------------------------

\* Mutant of Completed: only what shipped.
CompletedEmitted == {record[1] : record \in {r \in file : r[2] = "emitted"}}

\* load_completed: a refusal that was our fault is not a reason to skip the candidate.
Completed == {record[1] : record \in {r \in file : r[2] \in {"emitted", "material"}}}

\* The process ends, by itself or not, and the batch is started over the same file.
Restart ==
    /\ restarts < MaxRestarts
    /\ restarts' = restarts + 1
    /\ skipped' = Completed
    /\ task' = [c \in Candidates |-> "new"]
    /\ spec' = [c \in Candidates |-> Nobody]
    /\ parts' = [c \in Candidates |-> {}]
    /\ verdict' = [c \in Candidates |-> "none"]
    /\ material' = Nobody /\ built' = Nobody /\ noted' = Nobody
    /\ limit' \in Limits
    /\ permits' = limit'
    /\ stop' = FALSE
    /\ UNCHANGED file

Step(c) ==
    \/ Begin(c) \/ Acquire(c) \/ Locate(c) \/ Forget(c) \/ Describe(c) \/ Build(c) \/ Probe(c)
    \/ Observe(c) \/ Emit(c) \/ Refuse(c) \/ Record(c) \/ Checkpoint(c)

Next ==
    \/ \E c \in Candidates : Step(c)
    \/ Interrupt
    \/ Restart

\* The loop schedules its tasks and the pool its threads.
Fairness == \A c \in Candidates : WF_vars(Step(c))

Spec == Init /\ [][Next]_vars /\ Fairness

-----------------------------------------------------------------------------
(* Properties. *)

Owners == Candidates \union {Nobody}

\* Every variable stays within its type.
TypeOK ==
    /\ task \in [Candidates -> States]
    /\ spec \in [Candidates -> Owners]
    /\ parts \in [Candidates -> SUBSET Owners]
    /\ verdict \in [Candidates -> Outcomes \union {"none"}]
    /\ {material, built, noted} \subseteq Owners
    /\ limit \in Limits
    /\ permits \in 0..limit
    /\ stop \in BOOLEAN
    /\ skipped \subseteq Candidates
    /\ file \subseteq Candidates \X Outcomes
    /\ restarts \in 0..MaxRestarts

\* The semaphore keeps its promise, with every way out of build_one counted: the
\* permits left and the candidates inside always add up to max_concurrent.
PermitsAddUp == permits + Cardinality(InState(Inside \union {"returned"})) = limit

\* Work that the checkpoint settled is never done again, across any number of restarts.
SettledIsNotRepeated ==
    [][\A c \in Candidates :
          task[c] \notin Going /\ task'[c] \in Going =>
              <<c, "emitted">> \notin file /\ <<c, "material">> \notin file]_vars

\* After SIGINT nothing new gets into the pipeline.
StopMeansStop ==
    [][stop => InState(Inside)' \subseteq InState(Inside)]_vars

\* What was in flight finishes: stopped or not, every task comes to its end.
BatchEnds ==
    \A c \in Candidates : task[c] = "queued" ~> task[c] \in Ended \union {"new"}

\* With one candidate at a time, each yields a task made of its own material and
\* nobody else's, whoever came before it in the batch.
OneAtATimeIsItsOwn ==
    limit = 1 => \A c \in Candidates : verdict[c] = "emitted" => parts[c] = {c}

\* No task of a batch describes material it was not built from.
TaskDescribesItsCandidate ==
    \A c \in Candidates : verdict[c] = "emitted" => parts[c] = {c}

=============================================================================
