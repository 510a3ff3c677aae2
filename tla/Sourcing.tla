------------------------------ MODULE Sourcing ------------------------------
(***************************************************************************)
(* core/sourcing.py: jobs walk an enumerable index page by page, each with *)
(* a Memory of its own (what it has seen, and the page it has reached),    *)
(* all of them loaded from and saved to the one file FRF_SOURCING_MEMORY   *)
(* names.  A walk is a generator: it is suspended at every candidate it    *)
(* yields, and it saves its memory on every way out.  The process that     *)
(* runs the jobs can die between any two steps.                            *)
(***************************************************************************)
EXTENDS Integers, Sequences, FiniteSets, Functions

CONSTANTS Jobs,
          Pages,       \* what the index answers: a sequence of pages, each a sequence of rows
          Settings,    \* who walks what, and how: [jobs |-> those that run; endless |-> the last
                       \*   page is answered for ever, as by the Go module index; timed |->
                       \*   FRF_SOURCING_MAX_SECONDS is set]
          Invalid,     \* rows without an identity, a scale or a source
          Unwanted,    \* candidates the language filter or `keep` turns away
          Budget,      \* what one find() asks for
          Attempts,    \* fetches of one page before it is given up
          MaxConsecutiveErrors,  \* pages given up in a row before the walk is
          MaxCrashes   \* bound on process deaths

Rows == UNION {Range(Pages[p]) : p \in DOMAIN Pages}

ASSUME PagesAssumption ==
    /\ Pages \in Seq(Seq(Rows))
    /\ \A p \in DOMAIN Pages : Pages[p] # << >>
    /\ Invalid \subseteq Rows /\ Unwanted \subseteq Rows

ASSUME SettingsAssumption ==
    /\ Settings \subseteq [jobs : SUBSET Jobs, endless : BOOLEAN, timed : BOOLEAN]
    /\ \A setting \in Settings : setting.endless => Pages # << >>

ASSUME BoundsAssumption ==
    /\ {Budget, Attempts, MaxConsecutiveErrors} \subseteq Nat \ {0}
    /\ MaxCrashes \in Nat

VARIABLES setting,   \* which of the settings this is
          phase,     \* per job: where its walk stands
          memory,    \* per job: [seen, reached] of the Memory object it holds
          page,      \* per job: the page the walk is about to fetch; the numbers after the last
                     \*   page are answered alike, and counted as one
          resume,    \* per job: index.resume_page
          attempt,   \* per job: fetches of this page that failed so far
          errors,    \* per job: consecutive_errors
          rows,      \* per job: the rows of the current page not yet considered
          produced,  \* per job: candidates this walk has yielded
          late,      \* per job: the deadline of this walk has passed
          file,      \* the memory file, or Torn
          crashes,
          handed,    \* ghost, per job: what its file and its process know to be spent
          passed,    \* ghost: rows some walk has considered
          failed,    \* ghost: pages of the index that some walk gave up on
          left       \* ghost: rows of a page some walk stopped in the middle of

walkVars == <<page, attempt, errors, rows, produced, late>>
ghosts == <<handed, passed, failed, left>>
vars == <<setting, phase, memory, page, resume, attempt, errors, rows, produced, late, file, crashes,
          handed, passed, failed, left>>

Phases == {"down", "broken", "idle", "fetch", "rows", "yielded", "save", "saving"}

\* json.load of a file that was truncated and never rewritten, or written over another's text.
Torn == [seen |-> Rows, reached |-> Len(Pages) + 1]
Blank == [seen |-> {}, reached |-> 0]
Memories == [seen : SUBSET Rows, reached : 0..Len(Pages)]

Init ==
    /\ setting \in Settings
    /\ phase = [j \in Jobs |-> "down"]
    /\ memory = [j \in Jobs |-> Blank]
    /\ page = [j \in Jobs |-> 0]
    /\ resume = [j \in Jobs |-> 0]
    /\ attempt = [j \in Jobs |-> 0]
    /\ errors = [j \in Jobs |-> 0]
    /\ rows = [j \in Jobs |-> << >>]
    /\ produced = [j \in Jobs |-> 0]
    /\ late = [j \in Jobs |-> FALSE]
    /\ file = Blank
    /\ crashes = 0
    /\ handed = [j \in Jobs |-> {}]
    /\ passed = {} /\ failed = {} /\ left = {}

Go(j, next) == phase' = [phase EXCEPT ![j] = next]

\* Mutant of Larger: the two cursors are added up.
Added(a, b) == a + b

Larger(a, b) == IF a >= b THEN a ELSE b

-----------------------------------------------------------------------------

\* The first find() of a job: batch_memory loads the file, or a torn one raises.
Load(j) ==
    /\ phase[j] = "down" /\ j \in setting.jobs
    /\ IF file = Torn
       THEN Go(j, "broken") /\ UNCHANGED <<memory, handed>>
       ELSE /\ Go(j, "idle")
            /\ memory' = [memory EXCEPT ![j] = file]
            /\ handed' = [handed EXCEPT ![j] = file.seen]
    /\ UNCHANGED <<setting, resume, walkVars, file, crashes, passed, failed, left>>

\* The cursor of this process or the one of earlier processes, whichever is further along.
FirstPage(j) == Larger(resume[j], memory[j].reached)

Begin(j) ==
    /\ phase[j] = "idle"
    /\ page' = [page EXCEPT ![j] = FirstPage(j)]
    /\ Go(j, "fetch")
    /\ UNCHANGED <<setting, memory, resume, attempt, errors, rows, produced, late, file, crashes, ghosts>>

UnderWay(j) == phase[j] \in {"fetch", "rows", "yielded"}

\* Time passes, where a deadline was set.
Late(j) ==
    /\ setting.timed /\ UnderWay(j) /\ ~late[j]
    /\ late' = [late EXCEPT ![j] = TRUE]
    /\ UNCHANGED <<setting, phase, memory, resume, page, attempt, errors, rows, produced, file, crashes,
                   ghosts>>

\* The deadline is looked at before a page is asked for, and not again while it is.
Fetching(j) == phase[j] = "fetch" /\ (late[j] => attempt[j] > 0)

\* Mutant of Following: `page += 1` is forgotten.
FollowingItself(p) == p

\* Mutant of Following: `page += 1` stands in two places.
FollowingTwice(p) == p + 2

Following(p) == IF p < Len(Pages) THEN p + 1 ELSE p

\* What the index answers to a number: after its last page nothing, or the last page again.
PageOf(p) ==
    IF p < Len(Pages) THEN Pages[p + 1] ELSE IF setting.endless THEN Pages[Len(Pages)] ELSE << >>

\* Memory.reached and index.resume_page move past the page before its rows are looked at.
FetchPage(j) ==
    /\ Fetching(j) /\ PageOf(page[j]) # << >>
    /\ rows' = [rows EXCEPT ![j] = PageOf(page[j])]
    /\ page' = [page EXCEPT ![j] = Following(@)]
    /\ memory' = [memory EXCEPT ![j].reached = Larger(Following(page[j]), @)]
    /\ resume' = [resume EXCEPT ![j] = Following(page[j])]
    /\ errors' = [errors EXCEPT ![j] = 0]
    /\ attempt' = [attempt EXCEPT ![j] = 0]
    /\ Go(j, "rows")
    /\ UNCHANGED <<setting, produced, late, file, crashes, ghosts>>

\* A rate limit or a transport failure is waited out, three times.
RetryFetch(j) ==
    /\ Fetching(j)
    /\ attempt[j] + 1 < Attempts
    /\ attempt' = [attempt EXCEPT ![j] = @ + 1]
    /\ UNCHANGED <<setting, phase, memory, page, resume, errors, rows, produced, late, file, crashes,
                   ghosts>>

\* The retries are spent, or the error is not retryable: the walk goes on to the next page.
SkipPage(j) ==
    /\ Fetching(j)
    /\ errors' = [errors EXCEPT ![j] = @ + 1]
    /\ attempt' = [attempt EXCEPT ![j] = 0]
    /\ failed' = failed \union ({page[j]} \cap 0..(Len(Pages) - 1))
    /\ IF errors[j] + 1 >= MaxConsecutiveErrors
       THEN Go(j, "save") /\ UNCHANGED page
       ELSE page' = [page EXCEPT ![j] = Following(@)] /\ UNCHANGED phase
    /\ UNCHANGED <<setting, memory, resume, rows, produced, late, file, crashes, handed, passed, left>>

\* The index is exhausted.
Exhausted(j) ==
    /\ Fetching(j) /\ PageOf(page[j]) = << >>
    /\ Go(j, "save")
    /\ UNCHANGED <<setting, memory, resume, walkVars, file, crashes, ghosts>>

\* The sourcing deadline has passed.
StopAtDeadline(j) ==
    /\ phase[j] = "fetch" /\ late[j] /\ attempt[j] = 0
    /\ Go(j, "save")
    /\ UNCHANGED <<setting, memory, resume, walkVars, file, crashes, ghosts>>

\* Mutant of Remembers: a candidate is remembered once the consumer comes back for the next.
RemembersUnlessLast(j, c) == produced[j] + 1 < Budget

Remembers(j, c) == TRUE

\* One row: skipped if malformed or seen, remembered, filtered, yielded.
TakeRow(j) ==
    LET c == Head(rows[j])
        fresh == c \notin Invalid /\ c \notin memory[j].seen
        yields == fresh /\ c \notin Unwanted
    IN  /\ phase[j] = "rows" /\ rows[j] # << >>
        /\ rows' = [rows EXCEPT ![j] = Tail(@)]
        /\ passed' = passed \union {c}
        /\ memory' = [memory EXCEPT ![j].seen =
                        IF fresh /\ Remembers(j, c) THEN @ \union {c} ELSE @]
        /\ IF yields
           THEN /\ produced' = [produced EXCEPT ![j] = @ + 1]
                /\ handed' = [handed EXCEPT ![j] = @ \union {c}]
                /\ Go(j, "yielded")
           ELSE UNCHANGED <<produced, handed, phase>>
        /\ UNCHANGED <<setting, page, resume, attempt, errors, late, file, crashes, failed, left>>

PageDone(j) ==
    /\ phase[j] = "rows" /\ rows[j] = << >>
    /\ Go(j, "fetch")
    /\ UNCHANGED <<setting, memory, resume, walkVars, file, crashes, ghosts>>

\* The consumer asks for the next candidate.
Resume(j) ==
    /\ phase[j] = "yielded"
    /\ produced[j] < Budget
    /\ Go(j, "rows")
    /\ UNCHANGED <<setting, memory, resume, walkVars, file, crashes, ghosts>>

\* The budget is spent, or the consumer closes the generator; the rest of the page is left.
LeavePage(j) ==
    /\ phase[j] = "yielded"
    /\ Go(j, "save")
    /\ left' = left \union Range(rows[j])
    /\ rows' = [rows EXCEPT ![j] = << >>]
    /\ UNCHANGED <<setting, memory, resume, page, attempt, errors, produced, late, file, crashes, handed,
                   passed, failed>>

\* Memory.save opens the file for writing, which empties it, and then writes all of it.
OpenFile(j) ==
    /\ phase[j] = "save"
    /\ file' = Torn
    /\ Go(j, "saving")
    /\ UNCHANGED <<setting, memory, resume, walkVars, crashes, ghosts>>

\* Over the text another job wrote meanwhile, the result is this one's or neither's.  The walk is
\* over, and what it counted goes with it.
WriteFile(j) ==
    /\ phase[j] = "saving"
    /\ file' \in {memory[j]} \union (IF file = Torn THEN {} ELSE {Torn})
    /\ Go(j, "idle")
    /\ page' = [page EXCEPT ![j] = 0] /\ attempt' = [attempt EXCEPT ![j] = 0]
    /\ errors' = [errors EXCEPT ![j] = 0] /\ produced' = [produced EXCEPT ![j] = 0]
    /\ late' = [late EXCEPT ![j] = FALSE]
    /\ UNCHANGED <<setting, memory, resume, rows, crashes, ghosts>>

\* The process dies and is started again: every job of it loses its memory.
Crash ==
    /\ crashes < MaxCrashes
    /\ crashes' = crashes + 1
    /\ phase' = [j \in Jobs |-> "down"]
    /\ memory' = [j \in Jobs |-> Blank] /\ resume' = [j \in Jobs |-> 0]
    /\ rows' = [j \in Jobs |-> << >>]
    /\ page' = [j \in Jobs |-> 0] /\ attempt' = [j \in Jobs |-> 0]
    /\ errors' = [j \in Jobs |-> 0] /\ produced' = [j \in Jobs |-> 0]
    /\ late' = [j \in Jobs |-> FALSE]
    /\ handed' = [j \in Jobs |-> {}]
    /\ left' = left \union UNION {Range(rows[j]) : j \in Jobs}
    /\ UNCHANGED <<setting, file, passed, failed>>

Step(j) ==
    \/ Load(j) \/ FetchPage(j) \/ RetryFetch(j) \/ SkipPage(j) \/ Exhausted(j) \/ StopAtDeadline(j)
    \/ TakeRow(j) \/ PageDone(j) \/ Resume(j) \/ LeavePage(j) \/ OpenFile(j) \/ WriteFile(j)

Next ==
    \/ \E j \in Jobs : Step(j) \/ Begin(j) \/ Late(j)
    \/ Crash

\* Fetches return, consumers come back or close, disks write, clocks go on; nobody has to begin a walk.
Fairness == \A j \in Jobs : WF_vars(Step(j)) /\ WF_vars(Late(j))

Spec == Init /\ [][Next]_vars /\ Fairness

-----------------------------------------------------------------------------
(* Properties. *)

\* Every variable stays within its type.
TypeOK ==
    /\ setting \in Settings
    /\ phase \in [Jobs -> Phases]
    /\ memory \in [Jobs -> Memories]
    /\ page \in [Jobs -> 0..Len(Pages)]
    /\ resume \in [Jobs -> 0..Len(Pages)]
    /\ attempt \in [Jobs -> 0..(Attempts - 1)]
    /\ errors \in [Jobs -> 0..MaxConsecutiveErrors]
    /\ rows \in [Jobs -> Seq(Rows)]
    /\ produced \in [Jobs -> 0..Budget]
    /\ late \in [Jobs -> BOOLEAN]
    /\ file \in Memories \union {Torn}
    /\ crashes \in 0..MaxCrashes
    /\ handed \in [Jobs -> SUBSET Rows]
    /\ passed \subseteq Rows
    /\ failed \subseteq 0..(Len(Pages) - 1)
    /\ left \subseteq Rows

\* A later walk does not rediscover what an earlier one produced: no job is
\* handed a candidate that this process already handed it, or that the file it
\* was started from records as spent, however many times find() is called.
NeverServedTwice ==
    [][\A j \in Jobs : produced'[j] = produced[j] + 1 => handed'[j] # handed[j]]_vars

\* A row is accounted for when a walk has considered it, has it on its page and will, or stopped
\* before it came to it.
Accounted(row) == row \in passed \union left \/ \E j \in Jobs : row \in Range(rows[j])

\* The cursor only leaves behind what is accounted for: of a page before the cursor of any job, or of
\* the file, every row was considered or is about to be, but for a page whose fetch was given up, and
\* for the rows that were left of the one page a walk stopped on or died on
\* (src/frf/core/sourcing.py:296-349).
CursorAccountsForPages ==
    \A p \in 0..(Len(Pages) - 1) :
        (\E j \in Jobs : p < memory[j].reached) \/ (file # Torn /\ p < file.reached)
        => p \in failed \/ \A i \in DOMAIN Pages[p + 1] : Accounted(Pages[p + 1][i])

\* "Material the walk read but never yielded stays available to the next roll": the rows that were
\* left of a page are on some page the next walk of a job still comes to
\* (tests/test_sourcing.py:473-474).
UnyieldedStaysAvailable ==
    \A j \in Jobs : phase[j] = "idle" =>
        \A row \in left \ passed :
            \E p \in FirstPage(j)..Len(Pages) : row \in Range(PageOf(p))

\* Every walk that begins comes to an end, whatever fails and however its consumer goes on, if the
\* index has an end or the walk a deadline; an index that answers its last page for ever is walked for
\* ever without one (src/frf/core/sourcing.py:296-315).
WalksEnd ==
    \A j \in Jobs :
        phase[j] = "fetch" /\ (setting.endless => setting.timed) ~> phase[j] \in {"idle", "down"}

\* "Walked off the end of the stream: genuinely exhausted" and "the stream has an end": every walk
\* comes to an end, with or without a deadline (src/frf/source/golang.py:82, 101).
StreamHasAnEnd == \A j \in Jobs : phase[j] = "fetch" ~> phase[j] \in {"idle", "down"}

\* A page that could not be fetched stays unread rather than retired: the cursor
\* does not move past it.
FailedPageIsNotRetired ==
    \A j \in Jobs, p \in failed : phase[j] = "idle" =>
        \/ FirstPage(j) <= p
        \/ Range(Pages[p + 1]) \subseteq passed

=============================================================================
