-------------------------------- MODULE Roll --------------------------------
(***************************************************************************)
(* automation.run in roll mode: a job keeps sourcing candidates and trying *)
(* them, a wave at a time, until it has emitted its target, used up its    *)
(* attempts, or been told the supply is short.  The jobs of a batch run on *)
(* threads of their own; the candidates of a wave run on a pool of workers *)
(* per job; every candidate holds one of the account's sandbox slots while *)
(* it runs; the jobs of one scale share one diversity policy.              *)
(***************************************************************************)
EXTENDS Integers, Sequences, FiniteSets

CONSTANTS Jobs,
          Supply,        \* job -> sequence of the candidates its index would list
          Repositories,
          RepositoryOf,  \* candidate -> repository_key of its identity
          Scales,
          ScaleOf,       \* job -> scale
          Target, AttemptLimit, Ask, Workers, Slots, Cap,
          SetUpFailures  \* bound: how often the steps between the factory and the build raise

Listed(j) == {Supply[j][i] : i \in DOMAIN Supply[j]}
Candidates == UNION {Listed(j) : j \in Jobs}

ASSUME SupplyAssumption ==
    /\ \A j \in Jobs : Supply[j] \in Seq(Candidates)
    /\ \A j, k \in Jobs : \A a \in DOMAIN Supply[j], b \in DOMAIN Supply[k] :
          Supply[j][a] = Supply[k][b] => j = k /\ a = b
    /\ RepositoryOf \in [Candidates -> Repositories]
    /\ ScaleOf \in [Jobs -> Scales]

ASSUME BoundsAssumption ==
    /\ {Target, AttemptLimit, Ask, Workers, Slots, Cap} \subseteq Nat \ {0}
    /\ Target <= AttemptLimit /\ Ask <= AttemptLimit
    /\ SetUpFailures \in Nat

VARIABLES phase,      \* per job: "find", "fill", "accept", "wave" or "done"
          served,     \* per job: how many candidates find() has handed out so far
          batch,      \* per job: the candidates of this find() not yet considered
          attempted,  \* per job: `attempted`
          short,      \* per job: did the last find() come back empty-handed?
          state,      \* per candidate
          count,      \* per scale and repository: the policy's counter
          free,       \* sandbox slots nobody holds
          leaked      \* slots nobody will ever give back

vars == <<phase, served, batch, attempted, short, state, count, free, leaked>>

Running   == {"waiting", "opening", "setup", "building"}
Holding   == {"opening", "setup", "building"}
\* "refused" is either fault, or emitted and then withdrawn by the Harbor review;
\* "lost" raised out of run() and leaves no report.
Reported  == {"emitted", "refused"}
Settled   == Reported \union {"lost"}
States    == {"unsourced", "sourced", "dropped", "capped", "queued"} \union Running \union Settled

InState(j, set) == {c \in Listed(j) : state[c] \in set}
Emitted(j) == Cardinality(InState(j, {"emitted"}))

\* The slots left and the jobs' loops start empty.
Init ==
    /\ phase = [j \in Jobs |-> "find"]
    /\ served = [j \in Jobs |-> 0]
    /\ batch = [j \in Jobs |-> << >>]
    /\ attempted = [j \in Jobs |-> 0]
    /\ short = [j \in Jobs |-> FALSE]
    /\ state = [c \in Candidates |-> "unsourced"]
    /\ count = [s \in Scales |-> [r \in Repositories |-> 0]]
    /\ free = Slots
    /\ leaked = 0

-----------------------------------------------------------------------------
(* The job's loop. *)

WantsMore(j) == Emitted(j) < Target /\ attempted[j] < AttemptLimit

\* A find() yields at most what it was asked for: less when the walk stops early.
Yield(j) == {n \in 0..Ask : served[j] + n <= Len(Supply[j])}

\* An empty find() ends the roll: the walk never repeats itself, so nothing else would come.
Find(j) ==
    /\ phase[j] = "find"
    /\ WantsMore(j)
    /\ \E n \in Yield(j) :
          LET found == SubSeq(Supply[j], served[j] + 1, served[j] + n)
          IN  /\ served' = [served EXCEPT ![j] = @ + n]
              /\ batch' = [batch EXCEPT ![j] = found]
              /\ state' = [c \in Candidates |->
                             IF \E i \in DOMAIN found : found[i] = c THEN "sourced" ELSE state[c]]
              /\ short' = [short EXCEPT ![j] = (n = 0)]
              /\ phase' = [phase EXCEPT ![j] = IF n = 0 THEN "done" ELSE "fill"]
    /\ UNCHANGED <<attempted, count, free, leaked>>

Finish(j) ==
    /\ phase[j] = "find"
    /\ ~WantsMore(j)
    /\ phase' = [phase EXCEPT ![j] = "done"]
    /\ UNCHANGED <<served, batch, attempted, short, state, count, free, leaked>>

\* Mutant of Room: the wave is filled up to the attempts left.
RoomIgnoringTarget(j) == AttemptLimit - attempted[j]

\* One candidate emits at most one task, so a wave never asks for more than is still wanted.
Room(j) ==
    LET remaining == Target - Emitted(j)
        room == AttemptLimit - attempted[j]
    IN  IF remaining <= room THEN remaining ELSE room

Wave(j) == InState(j, {"queued"} \union Running)

\* The candidates find() handed out and the wave has no room for are gone: walk remembers them.
CloseWave(j) ==
    /\ phase[j] = "fill"
    /\ batch[j] = << >> \/ Cardinality(Wave(j)) >= Room(j)
    /\ state' = [c \in Candidates |->
                   IF \E i \in DOMAIN batch[j] : batch[j][i] = c THEN "dropped" ELSE state[c]]
    /\ batch' = [batch EXCEPT ![j] = << >>]
    /\ attempted' = [attempted EXCEPT ![j] = @ + Cardinality(Wave(j))]
    /\ phase' = [phase EXCEPT ![j] = IF Wave(j) = {} THEN "find" ELSE "wave"]
    /\ UNCHANGED <<served, short, count, free, leaked>>

\* Mutant of BelowCap: one too many.
BelowCapInclusive(j, c) == count[ScaleOf[j]][RepositoryOf[c]] <= Cap

\* DiversityPolicy.accept reads the counter first and increments it afterwards, under no lock.
BelowCap(j, c) == count[ScaleOf[j]][RepositoryOf[c]] < Cap

Consider(j) ==
    /\ phase[j] = "fill"
    /\ batch[j] # << >>
    /\ Cardinality(Wave(j)) < Room(j)
    /\ IF BelowCap(j, Head(batch[j]))
       THEN /\ phase' = [phase EXCEPT ![j] = "accept"]
            /\ UNCHANGED <<batch, state>>
       ELSE /\ state' = [state EXCEPT ![Head(batch[j])] = "capped"]
            /\ batch' = [batch EXCEPT ![j] = Tail(@)]
            /\ UNCHANGED phase
    /\ UNCHANGED <<served, attempted, short, count, free, leaked>>

Accept(j) ==
    /\ phase[j] = "accept"
    /\ count' = [count EXCEPT ![ScaleOf[j]][RepositoryOf[Head(batch[j])]] = @ + 1]
    /\ state' = [state EXCEPT ![Head(batch[j])] = "queued"]
    /\ batch' = [batch EXCEPT ![j] = Tail(@)]
    /\ phase' = [phase EXCEPT ![j] = "fill"]
    /\ UNCHANGED <<served, attempted, short, free, leaked>>

\* Mutant of AfterWave: an exception out of future.result() ends the roll.
AfterWaveUnguarded(j) == IF InState(j, {"lost"}) = {} THEN "find" ELSE "done"

\* Whatever became of its candidates, the roll goes back for more.
AfterWave(j) == "find"

\* as_completed has yielded every future of the wave.
JoinWave(j) ==
    /\ phase[j] = "wave"
    /\ Wave(j) = {}
    /\ phase' = [phase EXCEPT ![j] = AfterWave(j)]
    /\ UNCHANGED <<served, batch, attempted, short, state, count, free, leaked>>

-----------------------------------------------------------------------------
(* One candidate's run(), on a worker of its job's pool. *)

Become(c, next) == state' = [state EXCEPT ![c] = next]

KeepJobs == UNCHANGED <<phase, served, batch, attempted, short, count>>

KeepSlots == UNCHANGED <<free, leaked>>

\* run() asks for the host's headroom first, and without it raises before it wants a slot.
Admitted == {"waiting", "lost"}

\* The pool starts its work in the order it was submitted, once the wave is complete.
Start(j, c) ==
    /\ phase[j] = "wave"
    /\ state[c] = "queued"
    /\ Cardinality(InState(j, Running)) < Workers
    /\ \A a, b \in DOMAIN Supply[j] :
          Supply[j][b] = c /\ a < b => state[Supply[j][a]] # "queued"
    /\ \E next \in Admitted : Become(c, next)
    /\ KeepSlots
    /\ KeepJobs

Acquire(c) ==
    /\ state[c] = "waiting"
    /\ free > 0
    /\ free' = free - 1
    /\ Become(c, "opening")
    /\ UNCHANGED leaked
    /\ KeepJobs

\* Mutant of OpenFails: the guard around Factory(...) forgets the slot.
OpenFailsKeepingSlot(c) ==
    /\ state[c] = "opening"
    /\ KeepSlots
    /\ Become(c, "lost")
    /\ KeepJobs

\* Factory(...) raises: the slot is handed back and the exception goes on to the roll.
OpenFails(c) ==
    /\ state[c] = "opening"
    /\ free' = free + 1
    /\ Become(c, "lost")
    /\ UNCHANGED leaked
    /\ KeepJobs

Open(c) ==
    /\ state[c] = "opening"
    /\ Become(c, "setup")
    /\ KeepSlots
    /\ KeepJobs

\* The index, the workspace, the sandbox, the scale and the seam are made.
SetUp(c) ==
    /\ state[c] = "setup"
    /\ Become(c, "building")
    /\ KeepSlots
    /\ KeepJobs

\* One of them raises.  No try is open: nothing gives the slot back.
SetUpFails(c) ==
    /\ state[c] = "setup"
    /\ leaked < SetUpFailures
    /\ leaked' = leaked + 1
    /\ Become(c, "lost")
    /\ UNCHANGED free
    /\ KeepJobs

\* Mutant of Close: the slot is released on the way out of a normal return only.
CloseOnReturn(c, end) ==
    /\ Become(c, end)
    /\ free' = IF end = "lost" THEN free ELSE free + 1
    /\ UNCHANGED leaked

\* The finally block.
Close(c, end) ==
    /\ Become(c, end)
    /\ free' = free + 1
    /\ UNCHANGED leaked

\* The build, the Harbor review and the ledger: a report, or an exception from one of them.
Build(c) ==
    /\ state[c] = "building"
    /\ \E end \in Settled : Close(c, end)
    /\ KeepJobs

-----------------------------------------------------------------------------

JobStep(j) == Find(j) \/ Finish(j) \/ CloseWave(j) \/ Consider(j) \/ Accept(j) \/ JoinWave(j)

CandidateStep(c) ==
    \/ Acquire(c) \/ Open(c) \/ OpenFails(c) \/ SetUp(c) \/ SetUpFails(c) \/ Build(c)

AllDone == (\A j \in Jobs : phase[j] = "done") /\ UNCHANGED vars

Next ==
    \/ \E j \in Jobs : JobStep(j) \/ \E c \in Listed(j) : Start(j, c)
    \/ \E c \in Candidates : CandidateStep(c)
    \/ AllDone

\* Threads are scheduled; a slot that stays free goes to a worker that stays waiting.
Fairness ==
    /\ \A j \in Jobs : WF_vars(JobStep(j)) /\ WF_vars(\E c \in Listed(j) : Start(j, c))
    /\ \A c \in Candidates : WF_vars(CandidateStep(c))

Spec == Init /\ [][Next]_vars /\ Fairness

-----------------------------------------------------------------------------
(* Properties. *)

\* Every variable stays within its type.
TypeOK ==
    /\ phase \in [Jobs -> {"find", "fill", "accept", "wave", "done"}]
    /\ served \in [Jobs -> Nat]
    /\ batch \in [Jobs -> Seq(Candidates)]
    /\ attempted \in [Jobs -> Nat]
    /\ short \in [Jobs -> BOOLEAN]
    /\ state \in [Candidates -> States]
    /\ count \in [Scales -> [Repositories -> Nat]]
    /\ free \in 0..Slots
    /\ leaked \in Nat

\* A roll never emits more tasks than it was asked for, however many candidates
\* of a wave finish together, and never tries more than its attempt limit.
RollStaysInBounds ==
    \A j \in Jobs : Emitted(j) <= Target /\ attempted[j] <= AttemptLimit

\* Does no other job roll this job's scale?
Alone(j) == \A k \in Jobs : ScaleOf[k] = ScaleOf[j] => k = j

\* The repository cap holds for a scale only one job is rolling: the candidates
\* of one repository that were ever let into a wave are at most Cap.
CapHolds ==
    \A j \in Jobs, r \in Repositories : Alone(j) =>
        Cardinality({c \in InState(j, {"queued"} \union Running \union Settled) :
                        RepositoryOf[c] = r}) <= Cap

\* Every slot is free, held by a candidate that is running, or was lost by a
\* set-up that raised: no other exit from a run loses one, none returns one twice.
SlotsAreAccountedFor ==
    free + leaked + Cardinality({c \in Candidates : state[c] \in Holding}) = Slots

\* One candidate does not end the job: a roll stops because it met its target,
\* spent its attempts or was handed nothing more, never because a candidate
\* raised out of its run.
StopsOnlyForAReason ==
    \A j \in Jobs : phase[j] = "done" =>
        short[j] \/ Emitted(j) >= Target \/ attempted[j] >= AttemptLimit

\* The roll moves on: every job ends.
RollsFinish == \A j \in Jobs : <>(phase[j] = "done")

=============================================================================
