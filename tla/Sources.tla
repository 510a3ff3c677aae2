------------------------------- MODULE Sources -------------------------------
(***************************************************************************)
(* A walk over one index of src/frf/source, with everything that can go    *)
(* wrong between the two: pages that fail and are given up, answers of     *)
(* another shape, rows that are gone when they are looked up, the process  *)
(* started again.  Of kinds "mined" and "packaged" are GitHubFunctions and *)
(* GitHubPackages, indexes of functions and of packages over a search of   *)
(* repositories: what they fetch they keep in a buffer, clone into a       *)
(* workspace that outlives the process, and widen.  The names of the       *)
(* specification carry the module's, as proofs take it with Sourcing.      *)
(***************************************************************************)
EXTENDS Indexes

Miners == {"mined", "packaged"}

CONSTANTS Walked,     \* the kinds of index that are walked
          AtOnce,     \* WIDEN_AT_ONCE, INSPECT_AT_ONCE: the rows a miner takes off its buffer at a time
          Defects,    \* what keeps each row, when it is a repository, from contributing
          Yields,     \* the functions drawn from each row that contributes
          Kernel,     \* whether the miner is the kernel scale's
          MaxPages,   \* bound on the page number
          MaxFaults,  \* bound on failures, odd answers and lost rows
          MaxStarts   \* bound on restarts, of the process and of the walk

ASSUME SourcesAssumption ==
    /\ Walked \subseteq Kinds \union Miners
    /\ Defects \in [Row -> SUBSET {"large", "unpinned", "unread", "untyped", "undrawn", "scalar",
                                  "rootless", "thin"}]
    /\ Yields \in [Row -> Nat \ {0}]
    /\ AtOnce \in Nat \ {0}
    /\ Kernel \in BOOLEAN
    /\ {MaxPages, MaxFaults, MaxStarts} \subseteq Nat

VARIABLES kind, memo,  \* the index, and what this instance remembers
          n,           \* the number the walk asks for next
          got,         \* the rows of the last page
          now,         \* the rows this instance has served
          served,      \* the rows any instance has served, drawn from or found to hold nothing
          waived,      \* ghost: rows lost for a reason the walk records
          misread,     \* ghost: an answer of another shape has come in
          faults, starts, done,
          lost,        \* ghost: mined: rows lost with another's failure, or with a clone cut off
          buffer,      \* mined: rows bought with a search and not taken off yet
          batch,       \* mined: rows taken off together, and not widened yet
          exhausted,   \* mined: the search has answered with an empty page
          expanded,    \* mined: the repository of each function this instance has found
          sourcePage,  \* mined: the page of the search, which is the saved cursor
          seen,        \* mined: repositories a walk has yielded functions of
          tree,        \* mined: the checkouts on disk
          cloning      \* mined: the repository being cloned, or none

plain == <<kind, memo, n, got, now, misread, done>>
mine == <<lost, buffer, batch, exhausted, expanded, sourcePage, seen, tree, cloning>>
sourcesVars == <<plain, served, waived, faults, starts, mine>>

Inner(k) == IF k \in Miners THEN "github" ELSE k

SourcesInit ==
    /\ kind \in Walked
    /\ memo = Unwalked(Inner(kind))
    /\ n = 0 /\ got = {} /\ now = {} /\ served = {} /\ waived = {}
    /\ misread = FALSE /\ faults = 0 /\ starts = 0 /\ done = FALSE
    /\ lost = {} /\ buffer = {} /\ batch = {} /\ exhausted = FALSE
    /\ expanded = << >> /\ sourcePage = 0 /\ seen = {}
    /\ tree = [r \in Row |-> "none"] /\ cloning = NoRow

Asking == ~done /\ n < MaxPages
Fault == faults < MaxFaults /\ faults' = faults + 1

\* The rows a numbered page would have had: what the walk leaves unread by going on.
Unread(k, m) ==
    CASE k \in {"github", "chain", "quota"} -> {}
      [] k = "golang" -> GoModulesPage(m).rows
      [] k = "rubygems" -> Listed(m * NativePage + 1, (m + 1) * NativePage)
      [] OTHER -> Sliced(m)

\* all_or_nothing: rows that are gone are dropped, and a page that loses every row raises.
Kept(rows) == IF kind \in Hydrated THEN (SUBSET rows) \ {{}} ELSE {rows}

\* One page is served: the rows that are left of it.
ServePage(body) ==
    LET answer == Page(kind, memo, n, body)
    IN  /\ kind \notin Miners /\ Asking
        /\ body = "odd" => ~Insists(kind)
        /\ NoRow \notin answer.rows
        /\ \E kept \in IF answer.rows = {} THEN {{}} ELSE Kept(answer.rows) :
              /\ got' = kept
              /\ IF kept = answer.rows /\ body = "fit" THEN UNCHANGED faults ELSE Fault
              /\ now' = now \union kept
              /\ served' = served \union kept
              /\ waived' = waived \union (answer.rows \ kept)
                    \union (IF kind = "rubygems" /\ answer.rows # {}
                            THEN Unread(kind, n) \ answer.rows ELSE {})
        /\ memo' = answer.memo
        /\ misread' = (misread \/ body = "odd")
        /\ done' = (answer.rows = {})
        /\ n' = n + 1
        /\ UNCHANGED <<kind, starts, mine>>

\* The transport fails, the limits hold, the body is refused or every row of it is gone:
\* an exception, and in the end the walk asks for the next number.
FailPage ==
    /\ kind \notin Miners /\ Asking
    /\ IF kind = "hackage" /\ memo = "garbage" THEN UNCHANGED faults ELSE Fault
    /\ waived' = waived \union Unread(kind, n)
    /\ memo' \in AfterFailure(kind, memo, n)
    /\ n' = n + 1
    /\ got' = {}
    /\ UNCHANGED <<kind, now, served, misread, starts, done, mine>>

-----------------------------------------------------------------------------

Mining == kind \in Miners /\ Asking /\ cloning = NoRow

\* The page of functions is not full yet; it is looked at when no row is in hand.
Wanting == Mining /\ batch = {} /\ ~exhausted /\ Len(expanded) < (n + 1) * Size
Dry == Wanting /\ buffer = {} /\ sourcePage < MaxPages

\* The repositories of the functions in list that a page numbered m or later has, and those of
\* the page numbered m: list[start:start + size].
Pending(list, m) == {list[k] : k \in {i \in DOMAIN list : i > m * Size}}
Slot(list, m) == {list[k] : k \in {i \in DOMAIN list : i > m * Size /\ i <= (m + 1) * Size}}

\* The walk goes on to the next number: what the page would have had is passed over.
GiveUp ==
    /\ Fault
    /\ n' = n + 1
    /\ UNCHANGED <<kind, memo, got, now, misread, done, starts, served, exhausted, expanded, sourcePage,
                   seen, tree, cloning>>
PassedOver == Pending(expanded, n) \ Pending(expanded, n + 1)

\* The buffer is dry: one page of the search, counted before a row of it is looked at.
FetchRows ==
    LET answer == Page("github", memo, sourcePage, "fit")
    IN  /\ Dry
        /\ buffer' = answer.rows
        /\ memo' = answer.memo
        /\ sourcePage' = sourcePage + 1
        /\ now' = now \union answer.rows
        /\ got' = answer.rows
        /\ exhausted' = (answer.rows = {})
        /\ UNCHANGED <<kind, n, done, served, waived, misread, faults, starts, lost, batch, expanded,
                       seen, tree, cloning>>

\* The search fails: the exception travels, and the page of functions is given up.
FailRows ==
    /\ Dry /\ GiveUp
    /\ lost' = lost \union PassedOver
    /\ UNCHANGED <<waived, buffer, batch>>

\* A few rows are taken off the buffer together, before the first of them is looked at.
TakeRows ==
    /\ Wanting /\ buffer # {}
    /\ batch' = {r \in buffer : Cardinality({s \in buffer : Before(s, r)}) < AtOnce}
    /\ buffer' = buffer \ batch'
    /\ UNCHANGED <<plain, served, waived, faults, starts, lost, exhausted, expanded, sourcePage, seen,
                   tree, cloning>>

NextRow == CHOOSE r \in batch : \A s \in batch : s = r \/ Before(r, s)

\* Refused before anything is cloned: too large, or with no commit to write down.
Unclonable(r) == Defects[r] \cap {"large", "unpinned"} # {}

\* GitHubFunctions._widen: no reader for the language, nothing typed, nothing worth probing,
\* and for the kernel scale, nothing over an array.
Functions(r) ==
    IF \/ Defects[r] \cap {"unread", "untyped", "undrawn"} # {}
       \/ Kernel /\ "scalar" \in Defects[r]
    THEN 0 ELSE Yields[r]

\* _find_package_root: some directory of the checkout is laid out as a package.
Rooted(r) == "rootless" \notin Defects[r]

\* GitHubPackages._inspect: one package, unless it has no root or too small a surface.
Packages(r) == IF Rooted(r) /\ Defects[r] \cap {"unread", "thin"} = {} THEN 1 ELSE 0

Drawn(r) ==
    IF Unclonable(r) THEN 0 ELSE IF kind = "mined" THEN Functions(r) ELSE Packages(r)

\* Functions are drawn from r, as many as drawn, and join what this instance has found; r is
\* lost if it has more and none of those come where the walk still looks.
Widen(r, drawn) ==
    /\ batch' = batch \ {r}
    /\ expanded' = expanded \o [k \in 1..drawn |-> r]
    /\ served' = served \union (IF Drawn(r) = 0 THEN {r} ELSE {})
    /\ lost' = lost \union ({r} \ (served' \union Pending(expanded', n)))

\* A repository that functions were drawn from before is not mined again; packages do not ask.
Skipped(r) == kind = "mined" /\ r \in seen

SkipRow ==
    /\ Mining /\ batch # {}
    /\ Skipped(NextRow)
    /\ batch' = batch \ {NextRow}
    /\ UNCHANGED <<plain, served, waived, faults, starts, lost, buffer, exhausted, expanded, sourcePage,
                   seen, tree, cloning>>

\* A room with a .git in it is taken for the checkout, and if the clone was cut off it holds
\* anything from nothing on; otherwise a clone begins by making one.
MineRow ==
    /\ Mining /\ batch # {}
    /\ ~Skipped(NextRow)
    /\ \/ /\ Unclonable(NextRow) \/ tree[NextRow] = "whole"
          /\ Widen(NextRow, Drawn(NextRow))
          /\ UNCHANGED <<tree, cloning>>
       \/ /\ ~Unclonable(NextRow) /\ tree[NextRow] = "part"
          /\ \E drawn \in 0..Drawn(NextRow) : Widen(NextRow, drawn)
          /\ UNCHANGED <<tree, cloning>>
       \/ /\ ~Unclonable(NextRow) /\ tree[NextRow] = "none"
          /\ tree' = [tree EXCEPT ![NextRow] = "part"]
          /\ cloning' = NextRow
          /\ UNCHANGED <<batch, expanded, served, lost>>
    /\ UNCHANGED <<plain, waived, faults, starts, buffer, exhausted, sourcePage, seen>>

\* The room cannot be made, or a reader raises: the exception ends the page with the rows in hand.
RaiseRow ==
    /\ Mining /\ batch # {}
    /\ ~Skipped(NextRow) /\ ~Unclonable(NextRow)
    /\ GiveUp
    /\ waived' = waived \union {NextRow}
    /\ lost' = lost \union (batch \ {NextRow}) \union PassedOver
    /\ batch' = {}
    /\ UNCHANGED buffer

\* The checkout is complete; the row is taken again, and now found.
CloneDone ==
    /\ cloning # NoRow
    /\ tree' = [tree EXCEPT ![cloning] = "whole"]
    /\ cloning' = NoRow
    /\ UNCHANGED <<plain, served, waived, faults, starts, lost, buffer, batch, exhausted, expanded,
                   sourcePage, seen>>

\* The clone fails: the room is removed and the repository contributes nothing.
CloneFails ==
    /\ cloning # NoRow /\ Fault
    /\ tree' = [tree EXCEPT ![cloning] = "none"]
    /\ batch' = batch \ {cloning}
    /\ waived' = waived \union {cloning}
    /\ cloning' = NoRow
    /\ UNCHANGED <<plain, served, starts, lost, buffer, exhausted, expanded, sourcePage, seen>>

\* The page of functions is full, or as full as it gets: the walk yields it and remembers what
\* it yields.  One that has nothing ends the walk.
ServeFunctions ==
    /\ Mining /\ batch = {}
    /\ exhausted \/ Len(expanded) >= (n + 1) * Size
    /\ IF Pending(expanded, n) = {}
       THEN done' = TRUE /\ UNCHANGED <<n, served, seen>>
       ELSE /\ served' = served \union Slot(expanded, n)
            /\ seen' = seen \union Slot(expanded, n)
            /\ n' = n + 1
            /\ UNCHANGED done
    /\ UNCHANGED <<kind, memo, got, now, waived, misread, faults, starts, lost, buffer, batch, exhausted,
                   expanded, sourcePage, tree, cloning>>

\* The walk has been left and is begun again over the same index: a page number of functions
\* is not resumed (resumable_pages), so what this instance found is gone through from the start.
WalkAgain ==
    /\ Mining /\ batch = {}
    /\ starts < MaxStarts
    /\ starts' = starts + 1
    /\ n' = 0
    /\ lost' = lost \ Pending(expanded, 0)
    /\ UNCHANGED <<kind, memo, got, now, served, waived, misread, faults, done, buffer, batch, exhausted,
                   expanded, sourcePage, seen, tree, cloning>>

-----------------------------------------------------------------------------

\* The process is started again, with the numbers and the memory it saved, if it saved them.
\* A clone it was at is cut off, before there was a .git in the room or after.
Restart(saved) ==
    /\ starts < MaxStarts /\ ~done
    /\ starts' = starts + 1
    /\ memo' = Unwalked(Inner(kind))
    /\ n' = IF saved /\ kind \notin Miners THEN n ELSE 0
    /\ sourcePage' = IF saved THEN sourcePage ELSE 0
    /\ seen' = IF saved THEN seen ELSE {}
    /\ got' = {} /\ now' = {}
    /\ buffer' = {} /\ batch' = {} /\ exhausted' = FALSE /\ expanded' = << >> /\ cloning' = NoRow
    /\ tree' \in {tree} \union {[tree EXCEPT ![r] = "none"] : r \in {cloning} \ {NoRow}}
    /\ UNCHANGED <<kind, served, waived, lost, misread, faults, done>>

Walk ==
    \/ \E body \in {"fit", "odd"} : ServePage(body)
    \/ FailPage
    \/ FetchRows \/ FailRows \/ TakeRows \/ SkipRow \/ MineRow \/ RaiseRow
    \/ CloneDone \/ CloneFails \/ ServeFunctions

SourcesNext == Walk \/ WalkAgain \/ \E saved \in BOOLEAN : Restart(saved)

\* A page is answered or refused in the end: every request has a deadline.
SourcesSpec == SourcesInit /\ [][SourcesNext]_sourcesVars /\ WF_sourcesVars(Walk)

-----------------------------------------------------------------------------
(* Properties. *)

\* Every variable stays within its type; a position GitHub is asked for is of a
\* segment, and one the search serves.
SourcesTypeOK ==
    /\ kind \in Walked
    /\ Inner(kind) = "github" =>
          \A k \in DOMAIN memo : /\ memo[k][1] \in 1..(Len(Parts) + 1)
                                 /\ memo[k][2] * Size < Ceiling
    /\ {got, now, served, waived, lost, buffer, batch, seen} \subseteq SUBSET Row
    /\ n \in 0..MaxPages /\ sourcePage \in 0..MaxPages
    /\ faults \in 0..MaxFaults /\ starts \in 0..MaxStarts
    /\ done \in BOOLEAN /\ misread \in BOOLEAN /\ exhausted \in BOOLEAN
    /\ expanded \in Seq(Row)
    /\ tree \in [Row -> {"none", "part", "whole"}]
    /\ cloning \in Row \union {NoRow}

\* Empty means exhausted, and nothing else does: when a walk is told so, every
\* row the index can reach has been served, by this process or an earlier one, or
\* was given up for a reason the walk records (its page failed, or it was gone);
\* of GitHub and of a chain, no page that failed is among them.  Excepted are an
\* answer of another shape, where the index does not insist on one, the rows
\* RubyGems is not asked for, the quota chain, and of a miner what it loses:
\* the rows it has in hand when one of them raises, the functions of a page that
\* is given up, and a repository read from a clone that was cut off.
EmptyMeansExhausted ==
    done /\ kind # "quota" /\ ~misread => Reachable(Inner(kind)) \subseteq served \union waived \union lost

\* Empty means exhausted of the miners too (source/__init__.py): they lose no row without a
\* record.  TLC refutes it.
MinersLoseNothing ==
    done /\ kind \in Miners => Reachable(Inner(kind)) \subseteq served \union waived

\* No request buys what an earlier one of the same instance bought: positions are
\* remembered where they cannot be computed.  The windows of the Go module index
\* overlap in the rows of one time, and the quota chain asks for a page as often
\* as the turn is long.
NothingIsBoughtTwice ==
    [][got' # got => \A r \in got' \cap now :
          \/ kind = "quota"
          \/ kind = "golang" /\ \A s \in got' : Stamps[Rank(r)] <= Stamps[Rank(s)]]_sourcesVars

\* Whatever fails on the way, a walk that goes on asking reaches everything the index has, or
\* of a miner, has had it in hand and lost it.
WalkReachesAll ==
    <>(\/ Reachable(Inner(kind)) \subseteq served \union waived \union lost
       \/ misread \/ kind = "quota")

=============================================================================
