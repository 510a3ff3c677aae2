--------------------------- MODULE SourcingProofs ---------------------------
(***************************************************************************)
(* What TLAPS proves about walks, for every number of jobs that share a    *)
(* memory file, every index, every budget and every number of retries,     *)
(* failures and process deaths; and, from "What an index has" on, about    *)
(* the indexes they walk over, for every number and length of parts, every *)
(* page size and ceiling, and whatever fails, is lost or starts again.     *)
(***************************************************************************)
EXTENDS Sourcing, Sources, SequenceTheorems, FiniteSetTheorems, WellFoundedInduction, TLAPS

\* The pages are numbered, and hold rows.
LEMMA PagesAreNumbered ==
    /\ Len(Pages) \in Nat
    /\ DOMAIN Pages = 1..Len(Pages)
    /\ \A p \in 1..Len(Pages) : Pages[p] \in Seq(Rows)
    /\ {Budget, Attempts, MaxConsecutiveErrors} \subseteq Nat \ {0}
    /\ MaxCrashes \in Nat
<1>1. Pages \in Seq(Seq(Rows))
  BY PagesAssumption
<1>2. Len(Pages) \in Nat /\ DOMAIN Pages = 1..Len(Pages)
  BY <1>1, LenProperties
<1>3. \A p \in 1..Len(Pages) : Pages[p] \in Seq(Rows)
  BY <1>1, ElementOfSeq
<1> QED
  BY <1>2, <1>3, BoundsAssumption

\* What the index answers is a list of rows, and the numbers stay within its pages.
LEMMA AnswersAreRows ==
    ASSUME setting \in Settings, NEW p \in 0..Len(Pages)
    PROVE  /\ PageOf(p) \in Seq(Rows) /\ (p < Len(Pages) => PageOf(p) = Pages[p + 1])
           /\ Following(p) \in 0..Len(Pages) /\ Following(p) \in {p, p + 1}
           /\ \A q \in 0..(Len(Pages) - 1) : q < Following(p) => q < p \/ q = p
<1>1. CASE p < Len(Pages)
  <2>1. p + 1 \in 1..Len(Pages)
    BY <1>1, PagesAreNumbered
  <2> QED
    BY <1>1, <2>1, PagesAreNumbered DEF PageOf, Following
<1>2. CASE ~(p < Len(Pages))
  <2>1. setting.endless => Len(Pages) \in 1..Len(Pages)
    <3>1. setting.endless => Pages # << >>
      BY SettingsAssumption
    <3> QED
      BY <3>1, PagesAreNumbered, PagesAssumption, EmptySeq
  <2> QED
    BY <1>2, <2>1, PagesAreNumbered, EmptySeq DEF PageOf, Following
<1> QED
  BY <1>1, <1>2

\* The row at the head of a list, and what is left of it.
LEMMA HeadRow ==
    ASSUME NEW list \in Seq(Rows), list # << >>
    PROVE  /\ Head(list) \in Rows
           /\ Tail(list) \in Seq(Rows)
           /\ \A i \in DOMAIN list :
                 list[i] = Head(list) \/ \E h \in DOMAIN Tail(list) : Tail(list)[h] = list[i]
<1>1. /\ Head(list) \in Rows /\ Tail(list) \in Seq(Rows)
      /\ Len(Tail(list)) = Len(list) - 1
      /\ \A i \in 1..Len(Tail(list)) : Tail(list)[i] = list[i + 1]
  BY HeadTailProperties
<1>2. /\ DOMAIN list = 1..Len(list) /\ Len(list) \in Nat \ {0}
      /\ DOMAIN Tail(list) = 1..Len(Tail(list))
  BY <1>1, LenProperties, EmptySeq
<1>3. Head(list) = list[1]
  OBVIOUS
<1>4. ASSUME NEW i \in DOMAIN list, i # 1
      PROVE  \E h \in DOMAIN Tail(list) : Tail(list)[h] = list[i]
  <2>1. i - 1 \in 1..Len(Tail(list)) /\ (i - 1) + 1 = i
    BY <1>1, <1>2, <1>4
  <2>2. Tail(list)[i - 1] = list[i]
    BY <1>1, <2>1
  <2> QED
    BY <1>2, <2>1, <2>2
<1> QED
  BY <1>1, <1>3, <1>4

LEMMA RangeOfList ==
    ASSUME NEW X, NEW list \in Seq(X)
    PROVE  Range(list) \subseteq X
BY DEF Range

-----------------------------------------------------------------------------
(* Types. *)

\* What the counters of a walk leave room for, and when it has rows.
Walking(j) ==
    /\ phase[j] \in {"fetch", "rows", "yielded"} => errors[j] < MaxConsecutiveErrors
    /\ phase[j] \in {"fetch", "rows"} => produced[j] < Budget
    /\ phase[j] \in {"idle", "down"} => errors[j] = 0 /\ produced[j] = 0
    /\ rows[j] # << >> => phase[j] \in {"rows", "yielded"}

TypeInv == TypeOK /\ \A j \in Jobs : Walking(j)

\* Nothing else moves.
Others(j) ==
    \A k \in Jobs \ {j} : /\ phase'[k] = phase[k] /\ errors'[k] = errors[k]
                          /\ produced'[k] = produced[k] /\ rows'[k] = rows[k]

LEMMA OthersWalk ==
    ASSUME TypeInv, NEW j \in Jobs, Others(j), Walking(j)', TypeOK'
    PROVE  TypeInv'
BY DEF TypeInv, Others, Walking

LEMMA InitTypes == Init => TypeInv
<1> SUFFICES ASSUME Init PROVE TypeInv
  OBVIOUS
<1>1. << >> \in Seq(Rows) /\ Blank \in Memories
  BY PagesAreNumbered, EmptySeq DEF Blank, Memories
<1>2. /\ 0 \in 0..Len(Pages) /\ 0 \in 0..(Attempts - 1) /\ 0 \in 0..MaxConsecutiveErrors
      /\ 0 \in 0..Budget /\ 0 \in 0..MaxCrashes
  BY PagesAreNumbered
<1>3. TypeOK
  BY <1>1, <1>2 DEF Init, TypeOK, Phases
<1>4. \A j \in Jobs : Walking(j)
  BY DEF Init, Walking
<1> QED
  BY <1>3, <1>4 DEF TypeInv

\* One step of one walk: the rest keep theirs.
LEMMA WalkTypes ==
    ASSUME TypeInv, NEW j \in Jobs, Step(j) \/ Begin(j) \/ Late(j)
    PROVE  TypeInv'
<1>0. /\ TypeOK /\ Walking(j) /\ setting \in Settings
      /\ memory[j] \in Memories /\ memory[j].reached \in 0..Len(Pages) /\ memory[j].seen \subseteq Rows
      /\ page[j] \in 0..Len(Pages) /\ resume[j] \in 0..Len(Pages)
      /\ errors[j] \in 0..MaxConsecutiveErrors /\ attempt[j] \in 0..(Attempts - 1)
      /\ produced[j] \in 0..Budget /\ rows[j] \in Seq(Rows) /\ handed[j] \subseteq Rows
  BY DEF TypeInv, TypeOK, Memories
<1>a. /\ Len(Pages) \in Nat /\ Budget \in Nat \ {0} /\ Attempts \in Nat \ {0}
      /\ MaxConsecutiveErrors \in Nat \ {0} /\ << >> \in Seq(Rows)
      /\ 0 \in 0..MaxConsecutiveErrors /\ 0 \in 0..(Attempts - 1) /\ 0 \in 0..Budget /\ 0 \in 0..Len(Pages)
  BY PagesAreNumbered, EmptySeq
<1>1. CASE Load(j)
  <2>1. file # Torn => file \in Memories /\ file.seen \subseteq Rows
    BY <1>0 DEF TypeOK, Memories
  <2>2. /\ phase' \in [Jobs -> Phases] /\ memory' \in [Jobs -> Memories]
        /\ handed' \in [Jobs -> SUBSET Rows]
    <3>1. CASE file = Torn
      BY <1>0, <1>1, <3>1 DEF Load, Go, TypeOK, Phases
    <3>2. CASE file # Torn
      BY <1>0, <1>1, <2>1, <3>2 DEF Load, Go, TypeOK, Phases
    <3> QED
      BY <3>1, <3>2
  <2>3. TypeOK'
    BY <1>0, <1>1, <2>2 DEF Load, walkVars, TypeOK
  <2>4. Others(j)
    BY <1>0, <1>1 DEF Load, Go, walkVars, TypeOK, Others
  <2>5. phase[j] = "down" /\ rows'[j] = rows[j] /\ errors'[j] = errors[j] /\ produced'[j] = produced[j]
    BY <1>1 DEF Load, walkVars
  <2>6. errors[j] = 0 /\ produced[j] = 0
    BY <1>0, <2>5 DEF Walking
  <2>7. phase'[j] \in {"idle", "broken"}
    BY <1>0, <1>1 DEF Load, Go, TypeOK
  <2>8. Walking(j)'
    BY <1>0, <2>5, <2>6, <2>7 DEF Walking
  <2> QED
    BY <2>3, <2>4, <2>8, OthersWalk
<1>2. CASE Begin(j)
  <2>1. FirstPage(j) \in 0..Len(Pages)
    BY <1>0 DEF FirstPage, Larger
  <2>2. TypeOK'
    BY <1>0, <1>2, <2>1 DEF Begin, Go, TypeOK, Phases, ghosts
  <2>3. Others(j) /\ Walking(j)'
    BY <1>0, <1>2, <1>a DEF Begin, Go, TypeOK, Walking, Others
  <2> QED
    BY <2>2, <2>3, OthersWalk
<1>3. CASE FetchPage(j)
  <2>1. Following(page[j]) \in 0..Len(Pages) /\ PageOf(page[j]) \in Seq(Rows)
    BY <1>0, AnswersAreRows
  <2>2. Larger(Following(page[j]), memory[j].reached) \in 0..Len(Pages)
    BY <1>0, <2>1 DEF Larger
  <2>3. [memory[j] EXCEPT !.reached = Larger(Following(page[j]), memory[j].reached)] \in Memories
    BY <1>0, <2>2 DEF Memories
  <2>4. memory' \in [Jobs -> Memories]
    BY <1>0, <1>3, <2>3 DEF FetchPage, TypeOK
  <2>5. /\ phase' = [phase EXCEPT ![j] = "rows"] /\ rows' = [rows EXCEPT ![j] = PageOf(page[j])]
        /\ page' = [page EXCEPT ![j] = Following(page[j])]
        /\ resume' = [resume EXCEPT ![j] = Following(page[j])]
        /\ errors' = [errors EXCEPT ![j] = 0] /\ attempt' = [attempt EXCEPT ![j] = 0]
        /\ UNCHANGED <<setting, produced, late, file, crashes, handed, passed, failed, left>>
    BY <1>3 DEF FetchPage, Go, ghosts
  <2>6. TypeOK'
    BY <1>0, <1>a, <2>1, <2>4, <2>5 DEF TypeOK, Phases
  <2>7. Others(j) /\ Walking(j)'
    BY <1>0, <1>3, <1>a, <2>5 DEF FetchPage, Fetching, TypeOK, Walking, Others
  <2> QED
    BY <2>6, <2>7, OthersWalk
<1>4. CASE RetryFetch(j)
  <2>1. attempt[j] + 1 \in 0..(Attempts - 1)
    BY <1>0, <1>4, <1>a DEF RetryFetch
  <2>2. TypeOK'
    BY <1>0, <1>4, <2>1 DEF RetryFetch, TypeOK, ghosts
  <2>3. Others(j) /\ Walking(j)'
    BY <1>0, <1>4 DEF RetryFetch, Walking, Others
  <2> QED
    BY <2>2, <2>3, OthersWalk
<1>5. CASE SkipPage(j)
  <2>1. /\ Following(page[j]) \in 0..Len(Pages) /\ errors[j] + 1 \in 0..MaxConsecutiveErrors
        /\ rows[j] = << >> /\ produced[j] < Budget
    <3>1. phase[j] = "fetch"
      BY <1>5 DEF SkipPage, Fetching
    <3>2. page[j] \in 0..Len(Pages) /\ setting \in Settings /\ Walking(j)
          /\ errors[j] \in 0..MaxConsecutiveErrors
      BY <1>0
    <3>3. Following(page[j]) \in 0..Len(Pages)
      BY <3>2, AnswersAreRows
    <3>4. rows[j] = << >> /\ produced[j] < Budget /\ errors[j] < MaxConsecutiveErrors
      BY <3>1, <3>2 DEF Walking
    <3>5. errors[j] + 1 \in 0..MaxConsecutiveErrors
      BY <1>a, <3>2, <3>4
    <3> QED
      BY <3>3, <3>4, <3>5
  <2>2. TypeOK'
    <3>1. page' \in [Jobs -> 0..Len(Pages)] /\ phase' \in [Jobs -> Phases]
      BY <1>0, <1>5, <2>1 DEF SkipPage, Go, TypeOK, Phases
    <3>2. failed' \subseteq 0..(Len(Pages) - 1)
      BY <1>0, <1>5 DEF SkipPage, TypeOK
    <3> QED
      BY <1>0, <1>5, <1>a, <2>1, <3>1, <3>2 DEF SkipPage, TypeOK
  <2>3. Others(j) /\ Walking(j)'
    BY <1>0, <1>5, <1>a, <2>1 DEF SkipPage, Fetching, Go, TypeOK, Walking, Others
  <2> QED
    BY <2>2, <2>3, OthersWalk
<1>6. CASE TakeRow(j)
  <2> DEFINE c == Head(rows[j])
  <2>1. c \in Rows /\ Tail(rows[j]) \in Seq(Rows) /\ phase[j] = "rows"
    BY <1>0, <1>6, HeadRow DEF TakeRow
  <2>2. produced[j] + 1 \in 0..Budget
    BY <1>0, <1>6, <1>a, <2>1 DEF Walking
  <2>3. memory' \in [Jobs -> Memories]
    <3>1. PICK known \in SUBSET Rows : memory' = [memory EXCEPT ![j].seen = known]
      BY <1>0, <1>6, <2>1 DEF TakeRow
    <3>2. [memory[j] EXCEPT !.seen = known] \in Memories
      BY <1>0 DEF Memories
    <3> QED
      BY <1>0, <3>1, <3>2 DEF TypeOK
  <2>4. passed' \subseteq Rows /\ rows' \in [Jobs -> Seq(Rows)]
    BY <1>0, <1>6, <2>1 DEF TakeRow, TypeOK
  <2>5. /\ produced' \in [Jobs -> 0..Budget] /\ handed' \in [Jobs -> SUBSET Rows]
        /\ phase' \in [Jobs -> Phases]
    <3>1. CASE UNCHANGED <<produced, handed, phase>>
      BY <1>0, <3>1 DEF TypeOK
    <3>2. CASE /\ produced' = [produced EXCEPT ![j] = @ + 1]
               /\ handed' = [handed EXCEPT ![j] = @ \union {c}]
               /\ Go(j, "yielded")
      <4>1. produced' \in [Jobs -> 0..Budget]
        BY <1>0, <2>2, <3>2 DEF TypeOK
      <4>2. handed' \in [Jobs -> SUBSET Rows]
        BY <1>0, <2>1, <3>2 DEF TypeOK
      <4>3. phase' \in [Jobs -> Phases]
        BY <1>0, <3>2 DEF TypeOK, Go, Phases
      <4> QED
        BY <4>1, <4>2, <4>3
    <3> QED
      BY <1>6, <3>1, <3>2 DEF TakeRow
  <2>6. TypeOK'
    BY <1>0, <1>6, <2>3, <2>4, <2>5 DEF TakeRow, TypeOK
  <2>7. Others(j)
    BY <1>0, <1>6 DEF TakeRow, Go, TypeOK, Others
  <2>8. Walking(j)'
    BY <1>0, <1>6, <2>1 DEF TakeRow, Go, TypeOK, Walking
  <2> QED
    BY <2>6, <2>7, <2>8, OthersWalk
<1>7. CASE Exhausted(j) \/ StopAtDeadline(j) \/ PageDone(j) \/ Resume(j)
  <2>1. TypeOK'
    BY <1>0, <1>7 DEF Exhausted, StopAtDeadline, PageDone, Resume, Go, TypeOK, Phases, walkVars, ghosts
  <2>2. Others(j) /\ Walking(j)'
    BY <1>0, <1>7 DEF Exhausted, StopAtDeadline, Fetching, PageDone, Resume, Go, TypeOK, walkVars, Walking,
                      Others
  <2> QED
    BY <2>1, <2>2, OthersWalk
<1>8. CASE LeavePage(j)
  <2>1. Range(rows[j]) \subseteq Rows
    BY <1>0, RangeOfList
  <2>2. TypeOK'
    BY <1>0, <1>8, <1>a, <2>1 DEF LeavePage, Go, TypeOK, Phases
  <2>3. Others(j) /\ Walking(j)'
    BY <1>0, <1>8 DEF LeavePage, Go, TypeOK, Walking, Others
  <2> QED
    BY <2>2, <2>3, OthersWalk
<1>9. CASE OpenFile(j)
  <2>1. TypeOK'
    BY <1>0, <1>9 DEF OpenFile, Go, TypeOK, Phases, walkVars, ghosts
  <2>2. Others(j) /\ Walking(j)'
    BY <1>0, <1>9 DEF OpenFile, Go, TypeOK, walkVars, Walking, Others
  <2> QED
    BY <2>1, <2>2, OthersWalk
<1>10. CASE WriteFile(j)
  <2>1. file' \in Memories \union {Torn}
    BY <1>0, <1>10 DEF WriteFile
  <2>2. TypeOK'
    BY <1>0, <1>10, <1>a, <2>1 DEF WriteFile, Go, TypeOK, Phases, ghosts
  <2>3. Others(j) /\ Walking(j)'
    BY <1>0, <1>10 DEF WriteFile, Go, TypeOK, Walking, Others
  <2> QED
    BY <2>2, <2>3, OthersWalk
<1>11. CASE Late(j)
  <2>1. TypeOK'
    BY <1>0, <1>11 DEF Late, TypeOK, ghosts
  <2>2. Others(j) /\ Walking(j)'
    BY <1>0, <1>11 DEF Late, Walking, Others
  <2> QED
    BY <2>1, <2>2, OthersWalk
<1> QED
  BY <1>1, <1>2, <1>3, <1>4, <1>5, <1>6, <1>7, <1>8, <1>9, <1>10, <1>11 DEF Step

LEMMA TypesInductive == TypeInv /\ [Next]_vars => TypeInv'
<1> SUFFICES ASSUME TypeInv, [Next]_vars PROVE TypeInv'
  OBVIOUS
<1>1. ASSUME NEW j \in Jobs, Step(j) \/ Begin(j) \/ Late(j) PROVE TypeInv'
  BY <1>1, WalkTypes
<1>2. CASE Crash
  <2>1. /\ << >> \in Seq(Rows) /\ Blank \in Memories /\ 0 \in 0..Len(Pages) /\ 0 \in 0..(Attempts - 1)
        /\ 0 \in 0..MaxConsecutiveErrors /\ 0 \in 0..Budget
    BY PagesAreNumbered, EmptySeq DEF Blank, Memories
  <2>2. \A j \in Jobs : Range(rows[j]) \subseteq Rows
    BY RangeOfList DEF TypeInv, TypeOK
  <2>3. left' \subseteq Rows
    BY <1>2, <2>2 DEF Crash, TypeInv, TypeOK
  <2>4. crashes' \in 0..MaxCrashes
    BY <1>2, PagesAreNumbered DEF Crash, TypeInv, TypeOK
  <2>5. TypeOK'
    BY <1>2, <2>1, <2>3, <2>4 DEF Crash, TypeInv, TypeOK, Phases
  <2>6. ASSUME NEW j \in Jobs PROVE Walking(j)'
    BY <1>2 DEF Crash, Walking
  <2> QED
    BY <2>5, <2>6 DEF TypeInv
<1>3. CASE UNCHANGED vars
  BY <1>3 DEF vars, TypeInv, TypeOK, Walking
<1> QED
  BY <1>1, <1>2, <1>3 DEF Next

\* Every variable stays within its type.
THEOREM TypeCorrect == Spec => []TypeOK
<1>1. TypeInv => TypeOK
  BY DEF TypeInv
<1> QED
  BY <1>1, InitTypes, TypesInductive, PTL DEF Spec

-----------------------------------------------------------------------------
(* What a job is handed. *)

\* A memory that is in use holds whatever its job was handed.
Remembered(j) == phase[j] \notin {"down", "broken"} => handed[j] \subseteq memory[j].seen

RememberInv == TypeInv /\ \A j \in Jobs : Remembered(j)

LEMMA InitRemembered == Init => RememberInv
BY InitTypes DEF Init, RememberInv, Remembered

LEMMA RememberInductive == RememberInv /\ [Next]_vars => RememberInv'
<1> SUFFICES ASSUME RememberInv, [Next]_vars, NEW k \in Jobs PROVE Remembered(k)'
  BY TypesInductive DEF RememberInv
<1>0. TypeOK /\ Remembered(k) /\ memory \in [Jobs -> Memories]
  BY DEF RememberInv, TypeInv, TypeOK
<1>1. ASSUME NEW j \in Jobs, Load(j) PROVE Remembered(k)'
  BY <1>0, <1>1 DEF Load, Go, TypeOK, Remembered
<1>2. ASSUME NEW j \in Jobs, FetchPage(j) PROVE Remembered(k)'
  <2>1. memory'[k].seen = memory[k].seen
    BY <1>0, <1>2 DEF FetchPage, Memories
  <2> QED
    BY <1>0, <1>2, <2>1 DEF FetchPage, Fetching, Go, ghosts, TypeOK, Remembered
<1>3. ASSUME NEW j \in Jobs, TakeRow(j) PROVE Remembered(k)'
  <2> DEFINE c == Head(rows[j])
             fresh == c \notin Invalid /\ c \notin memory[j].seen
  <2>1. /\ memory'[k].seen = IF k = j /\ fresh THEN memory[k].seen \union {c} ELSE memory[k].seen
        /\ handed'[k] = handed[k] \/ (k = j /\ fresh /\ handed'[k] = handed[k] \union {c})
    BY <1>0, <1>3 DEF TakeRow, Remembers, TypeOK, Memories
  <2>2. phase'[k] \notin {"down", "broken"} => phase[k] \notin {"down", "broken"}
    BY <1>0, <1>3 DEF TakeRow, Go, TypeOK
  <2> QED
    BY <1>0, <2>1, <2>2 DEF Remembered
<1>4. ASSUME NEW j \in Jobs,
             \/ Begin(j) \/ RetryFetch(j) \/ SkipPage(j) \/ Exhausted(j) \/ StopAtDeadline(j)
             \/ PageDone(j) \/ Late(j) \/ Resume(j) \/ LeavePage(j) \/ OpenFile(j) \/ WriteFile(j)
      PROVE  Remembered(k)'
  <2>1. UNCHANGED <<memory, handed>>
    BY <1>4 DEF Begin, RetryFetch, SkipPage, Exhausted, StopAtDeadline, PageDone, Late, Resume, LeavePage,
                OpenFile, WriteFile, ghosts
  <2>2. phase'[k] \notin {"down", "broken"} => phase[k] \notin {"down", "broken"}
    BY <1>0, <1>4 DEF Begin, RetryFetch, Fetching, SkipPage, Exhausted, StopAtDeadline, PageDone, Late,
                      Resume, LeavePage, OpenFile, WriteFile, Go, TypeOK
  <2> QED
    BY <1>0, <2>1, <2>2 DEF Remembered
<1>5. CASE Crash \/ UNCHANGED vars
  BY <1>0, <1>5 DEF Crash, vars, Remembered
<1> QED
  BY <1>1, <1>2, <1>3, <1>4, <1>5 DEF Next, Step

\* No walk hands its job what the job was handed before, or what its file had as spent.
THEOREM NothingIsServedTwice == Spec => NeverServedTwice
<1>1. RememberInv /\ [Next]_vars =>
        [\A j \in Jobs : produced'[j] = produced[j] + 1 => handed'[j] # handed[j]]_vars
  <2> SUFFICES ASSUME RememberInv, [Next]_vars, NEW j \in Jobs, produced'[j] = produced[j] + 1
               PROVE  handed'[j] # handed[j]
    OBVIOUS
  <2>0. TypeOK /\ produced[j] \in Nat /\ Remembered(j)
    BY DEF RememberInv, TypeInv, TypeOK
  <2>1. produced'[j] # produced[j] /\ produced'[j] # 0
    BY <2>0
  <2>2. PICK k \in Jobs : TakeRow(k)
    BY <2>0, <2>1
       DEF Next, Step, Load, Begin, FetchPage, RetryFetch, SkipPage, Exhausted, StopAtDeadline, PageDone,
           Late, Resume, LeavePage, OpenFile, WriteFile, Crash, walkVars, vars, TypeOK
  <2>3. k = j
    BY <2>0, <2>1, <2>2 DEF TakeRow, TypeOK
  <2>4. /\ Head(rows[j]) \notin memory[j].seen /\ phase[j] = "rows"
        /\ handed'[j] = handed[j] \union {Head(rows[j])}
    BY <2>0, <2>1, <2>2, <2>3 DEF TakeRow, TypeOK
  <2> QED
    BY <2>0, <2>4 DEF Remembered
<1> QED
  BY <1>1, InitRemembered, RememberInductive, PTL DEF Spec, NeverServedTwice

-----------------------------------------------------------------------------
(* What a cursor leaves behind. *)

\* The pages that some cursor, in memory, on the index, on disk or of a walk, has gone past.
Behind(p) ==
    \/ \E j \in Jobs : \/ p < memory[j].reached
                       \/ p < resume[j]
                       \/ UnderWay(j) /\ p < page[j]
    \/ file # Torn /\ p < file.reached

Covered(p) == p \in failed \/ \A i \in DOMAIN Pages[p + 1] : Accounted(Pages[p + 1][i])

CursorInv ==
    /\ TypeInv
    /\ \A p \in 0..(Len(Pages) - 1) : Behind(p) => Covered(p)

LEMMA InitCursor == Init => CursorInv
<1> SUFFICES ASSUME Init PROVE CursorInv
  OBVIOUS
<1>1. ASSUME NEW p \in 0..(Len(Pages) - 1) PROVE ~Behind(p)
  BY PagesAreNumbered DEF Init, Behind, UnderWay, Blank
<1> QED
  BY <1>1, InitTypes DEF CursorInv

\* What was considered or left stays so.
LEMMA OnlyMore ==
    ASSUME [Next]_vars
    PROVE  passed \subseteq passed' /\ failed \subseteq failed' /\ left \subseteq left'
BY DEF Next, Step, Load, Begin, FetchPage, RetryFetch, SkipPage, Exhausted, StopAtDeadline, TakeRow,
       PageDone, Late, Resume, LeavePage, OpenFile, WriteFile, Crash, walkVars, ghosts, vars

\* A row on the page of a walk stays there, is considered, or is left.
LEMMA StaysAccounted ==
    ASSUME CursorInv, [Next]_vars, NEW row, Accounted(row)
    PROVE  Accounted(row)'
<1>0. /\ TypeOK /\ \A k \in Jobs : Walking(k) /\ rows[k] \in Seq(Rows)
      /\ passed \subseteq passed' /\ left \subseteq left'
  BY OnlyMore DEF CursorInv, TypeInv, TypeOK
<1>1. CASE row \in passed \union left
  BY <1>0, <1>1 DEF Accounted
<1>2. CASE \E k \in Jobs : row \in Range(rows[k])
  <2>1. PICK k \in Jobs : row \in Range(rows[k])
    BY <1>2
  <2>2. rows[k] # << >> /\ phase[k] \in {"rows", "yielded"}
    BY <1>0, <2>1 DEF Walking, Range
  <2>3. CASE TakeRow(k)
    <3>1. rows'[k] = Tail(rows[k]) /\ passed' = passed \union {Head(rows[k])}
      BY <1>0, <2>3 DEF TakeRow, TypeOK
    <3>2. row = Head(rows[k]) \/ row \in Range(Tail(rows[k]))
      BY <1>0, <2>1, <2>2, HeadRow DEF Range
    <3> QED
      BY <3>1, <3>2 DEF Accounted
  <2>4. CASE LeavePage(k)
    BY <2>1, <2>4 DEF LeavePage, Accounted
  <2>5. CASE Crash
    BY <2>1, <2>5 DEF Crash, Accounted
  <2>6. CASE \/ \E j \in Jobs \ {k} : Step(j) \/ Begin(j) \/ Late(j)
             \/ Resume(k) \/ Late(k) \/ UNCHANGED vars
    <3>1. rows'[k] = rows[k]
      <4>1. CASE \E j \in Jobs \ {k} : Step(j) \/ Begin(j) \/ Late(j)
        BY <1>0, <4>1
           DEF Step, Load, Begin, FetchPage, RetryFetch, SkipPage, Exhausted, StopAtDeadline, TakeRow,
               PageDone, Late, Resume, LeavePage, OpenFile, WriteFile, walkVars, TypeOK
      <4>2. CASE Resume(k) \/ Late(k) \/ UNCHANGED vars
        BY <4>2 DEF Resume, Late, walkVars, vars
      <4> QED
        BY <2>6, <4>1, <4>2
    <3> QED
      BY <2>1, <3>1 DEF Accounted
  <2>7. ~Begin(k) /\ (Step(k) => LeavePage(k) \/ TakeRow(k) \/ Resume(k))
    BY <2>2 DEF Begin, Step, Load, FetchPage, RetryFetch, SkipPage, Exhausted, StopAtDeadline, Fetching,
                PageDone, OpenFile, WriteFile
  <2> QED
    BY <2>3, <2>4, <2>5, <2>6, <2>7 DEF Next
<1> QED
  BY <1>1, <1>2 DEF Accounted

LEMMA StaysCovered ==
    ASSUME CursorInv, [Next]_vars, NEW p, Covered(p)
    PROVE  Covered(p)'
BY StaysAccounted, OnlyMore DEF Covered

\* A cursor moves past a page that is covered, or whose rows its walk has just been given.
LEMMA MovesPastCovered ==
    ASSUME CursorInv, [Next]_vars, NEW p \in 0..(Len(Pages) - 1), Behind(p)'
    PROVE  Behind(p) \/ Covered(p)'
<1>0. /\ TypeOK /\ p \in Nat /\ memory \in [Jobs -> Memories] /\ page \in [Jobs -> 0..Len(Pages)]
      /\ setting \in Settings
  BY PagesAreNumbered DEF CursorInv, TypeInv, TypeOK
<1>1. ASSUME NEW j \in Jobs, Load(j) PROVE Behind(p)
  BY <1>0, <1>1 DEF Load, Go, walkVars, Behind, UnderWay, TypeOK
<1>2. ASSUME NEW j \in Jobs, Begin(j) PROVE Behind(p)
  BY <1>0, <1>2 DEF Begin, FirstPage, Larger, Go, Behind, UnderWay, TypeOK
<1>3. ASSUME NEW j \in Jobs, FetchPage(j) PROVE Behind(p) \/ Covered(p)'
  <2>1. /\ phase[j] = "fetch" /\ page'[j] = Following(page[j])
        /\ resume'[j] = Following(page[j]) /\ rows'[j] = PageOf(page[j])
        /\ memory'[j].reached = Larger(Following(page[j]), memory[j].reached)
        /\ file' = file
        /\ \A k \in Jobs \ {j} : /\ memory'[k] = memory[k] /\ resume'[k] = resume[k]
                               /\ phase'[k] = phase[k] /\ page'[k] = page[k]
    BY <1>0, <1>3 DEF FetchPage, Fetching, Go, Memories, TypeOK
  <2>2. CASE p = page[j]
    <3>1. rows'[j] = Pages[p + 1]
      <4>1. p < Len(Pages) /\ p \in 0..Len(Pages)
        BY PagesAreNumbered
      <4>2. PageOf(p) = Pages[p + 1]
        BY <1>0, <4>1, AnswersAreRows
      <4> QED
        BY <2>1, <2>2, <4>2
    <3> QED
      BY <3>1 DEF Covered, Accounted, Range
  <2>3. CASE p # page[j]
    <3>1. p < Following(page[j]) => p < page[j]
      BY <1>0, <2>3, AnswersAreRows
    <3>2. p < memory'[j].reached => p < page[j] \/ p < memory[j].reached
      BY <2>1, <3>1 DEF Larger
    <3> QED
      BY <2>1, <3>1, <3>2 DEF Behind, UnderWay
  <2> QED
    BY <2>2, <2>3
<1>4. ASSUME NEW j \in Jobs, SkipPage(j) PROVE Behind(p) \/ Covered(p)'
  <2>1. /\ phase[j] = "fetch" /\ page'[j] \in {page[j], Following(page[j])}
        /\ failed' = failed \union ({page[j]} \cap 0..(Len(Pages) - 1))
        /\ UNCHANGED <<memory, resume, file>>
        /\ \A k \in Jobs \ {j} : phase'[k] = phase[k] /\ page'[k] = page[k]
    BY <1>0, <1>4 DEF SkipPage, Fetching, Go, TypeOK
  <2>2. CASE p = page[j]
    BY <2>1, <2>2 DEF Covered
  <2>3. CASE p # page[j]
    <3>1. p < page'[j] => p < page[j]
      BY <1>0, <2>1, <2>3, AnswersAreRows
    <3> QED
      BY <2>1, <3>1 DEF Behind, UnderWay
  <2> QED
    BY <2>2, <2>3
<1>5. ASSUME NEW j \in Jobs, TakeRow(j) PROVE Behind(p)
  <2>1. \A k \in Jobs : memory'[k].reached = memory[k].reached
    BY <1>0, <1>5 DEF TakeRow, Memories
  <2>2. \A k \in Jobs : UnderWay(k)' => UnderWay(k)
    BY <1>0, <1>5 DEF TakeRow, Go, TypeOK, UnderWay
  <2>3. UNCHANGED <<page, resume, file>>
    BY <1>5 DEF TakeRow
  <2> QED
    BY <2>1, <2>2, <2>3 DEF Behind
<1>6. ASSUME NEW j \in Jobs,
             \/ RetryFetch(j) \/ Exhausted(j) \/ StopAtDeadline(j) \/ PageDone(j) \/ Resume(j)
             \/ LeavePage(j) \/ OpenFile(j) \/ Late(j)
      PROVE  Behind(p)
  <2>1. \A k \in Jobs : UnderWay(k)' => UnderWay(k)
    BY <1>0, <1>6 DEF RetryFetch, Exhausted, StopAtDeadline, Fetching, PageDone, Resume, LeavePage,
                      OpenFile, Late, Go, TypeOK, UnderWay
  <2>2. UNCHANGED <<memory, resume, page>> /\ file' \in {file, Torn}
    BY <1>6 DEF RetryFetch, Exhausted, StopAtDeadline, PageDone, Resume, LeavePage, OpenFile, Late, walkVars
  <2> QED
    BY <2>1, <2>2 DEF Behind
<1>7. ASSUME NEW j \in Jobs, WriteFile(j) PROVE Behind(p)
  <2>1. \A k \in Jobs : UnderWay(k)' => UnderWay(k) /\ page'[k] = page[k]
    BY <1>0, <1>7 DEF WriteFile, Go, TypeOK, UnderWay
  <2>2. UNCHANGED <<memory, resume>> /\ file' \in {memory[j], Torn}
    BY <1>7 DEF WriteFile
  <2> QED
    BY <2>1, <2>2 DEF Behind
<1>8. CASE Crash
  <2>1. \A k \in Jobs : memory'[k].reached = 0 /\ page'[k] = 0 /\ resume'[k] = 0
    BY <1>8 DEF Crash, Blank
  <2>2. UNCHANGED file
    BY <1>8 DEF Crash
  <2>3. ~(p < 0)
    BY <1>0
  <2> QED
    BY <2>1, <2>2, <2>3 DEF Behind
<1>9. CASE UNCHANGED vars
  BY <1>9 DEF vars, Behind, UnderWay
<1> QED
  BY <1>1, <1>2, <1>3, <1>4, <1>5, <1>6, <1>7, <1>8, <1>9 DEF Next, Step

LEMMA CursorInductive == CursorInv /\ [Next]_vars => CursorInv'
<1> SUFFICES ASSUME CursorInv, [Next]_vars PROVE CursorInv'
  OBVIOUS
<1>1. TypeInv'
  BY TypesInductive DEF CursorInv
<1>2. ASSUME NEW p \in 0..(Len(Pages) - 1), Behind(p)' PROVE Covered(p)'
  <2>1. CASE Behind(p)
    BY <2>1, StaysCovered DEF CursorInv
  <2>2. CASE ~Behind(p)
    BY <1>2, <2>2, MovesPastCovered
  <2> QED
    BY <2>1, <2>2
<1> QED
  BY <1>1, <1>2 DEF CursorInv

\* No row is left behind a cursor that nobody looked at or will, but on a page whose fetch was given
\* up, and on the page a walk stopped or died on (src/frf/core/sourcing.py:296-349).
THEOREM CursorsAccountForPages == Spec => []CursorAccountsForPages
<1>1. CursorInv => CursorAccountsForPages
  BY DEF CursorInv, Behind, Covered, CursorAccountsForPages
<1> QED
  BY <1>1, InitCursor, CursorInductive, PTL DEF Spec

-----------------------------------------------------------------------------
(* What an index has, as a list.                                           *)

\* A set of numbers has a least one.
LEMMA LeastNumber ==
    ASSUME NEW S \in SUBSET Nat, S # {}
    PROVE  \E x \in S : \A y \in S : x <= y
<1> DEFINE R == OpToRel(<, Nat)
<1>1. IsWellFoundedOn(R, Nat)
  BY NatLessThanWellFounded, Zenon
<1>2. R = {pair \in Nat \X Nat : pair[1] < pair[2]}
  BY Zenon DEF OpToRel
<1> HIDE DEF R
<1>3. PICK x \in S : \A y \in S : ~ (<<y, x>> \in R)
  BY <1>1, WFMin
<1>4. \A y \in S : ~(y < x)
  BY <1>2, <1>3
<1> QED
  BY <1>4

\* A bounded set of numbers has a greatest one.
LEMMA GreatestNumber ==
    ASSUME NEW S \in SUBSET Nat, S # {}, NEW top \in Nat, \A x \in S : x <= top
    PROVE  \E x \in S : \A y \in S : x >= y
<1> DEFINE Gaps == {top - x : x \in S}
<1>1. Gaps \in SUBSET Nat /\ Gaps # {}
  <2>1. \A x \in S : top - x \in Nat
    OBVIOUS
  <2> QED
    BY <2>1
<1>2. PICK g \in Gaps : \A h \in Gaps : g <= h
  <2> HIDE DEF Gaps
  <2> QED
    BY <1>1, LeastNumber
<1>3. PICK x \in S : g = top - x
  BY <1>2
<1>4. ASSUME NEW y \in S PROVE x >= y
  <2>1. top - y \in Gaps
    OBVIOUS
  <2>2. g <= top - y
    BY <1>2, <2>1
  <2> QED
    BY <1>3, <2>2
<1> QED
  BY <1>4

\* What holds at the start and is passed on holds up to the end.
LEMMA CountingUp ==
    ASSUME NEW L \in Nat, NEW S, 0 \in S, \A k \in 1..L : k - 1 \in S => k \in S
    PROVE  \A k \in 0..L : k \in S
<1> DEFINE missing == (0..L) \ S
<1> SUFFICES ASSUME missing # {} PROVE FALSE
  OBVIOUS
<1>1. PICK x \in missing : \A y \in missing : x <= y
  <2>1. missing \in SUBSET Nat
    OBVIOUS
  <2> HIDE DEF missing
  <2> QED
    BY <2>1, LeastNumber
<1>2. x \in 1..L /\ x - 1 \in 0..L
  BY <1>1
<1> QED
  BY <1>1, <1>2

\* The parts of an index are numbered, and so are the rows of each.
LEMMA PartsAreNumbered ==
    /\ Len(Parts) \in Nat \ {0} /\ Segments = 1..Len(Parts)
    /\ \A p \in Segments : Parts[p] \in Nat /\ Parts[p] <= Ceiling + 1
    /\ {Size, Ceiling, MaxPage, NativePage, Quota} \subseteq Nat \ {0}
BY IndexAssumption DEF Segments

\* A row is a part and a place in it.
LEMMA RowsAre ==
    ASSUME NEW r
    PROVE  r \in Row <=> /\ r \in Segments \X (Nat \ {0})
                         /\ r[2] <= Parts[r[1]]
<1>1. ASSUME r \in Row PROVE r \in Segments \X (Nat \ {0}) /\ r[2] <= Parts[r[1]]
  <2>1. PICK p \in Segments : \E i \in 1..Parts[p] : r = <<p, i>>
    BY <1>1 DEF Row
  <2>2. PICK i \in 1..Parts[p] : r = <<p, i>>
    BY <2>1
  <2> QED
    BY <2>2, PartsAreNumbered
<1>2. ASSUME r \in Segments \X (Nat \ {0}), r[2] <= Parts[r[1]] PROVE r \in Row
  <2>1. PICK p \in Segments, i \in Nat \ {0} : r = <<p, i>>
    BY <1>2
  <2>2. i \in 1..Parts[p] /\ i \in 1..(Ceiling + 1)
    BY <1>2, <2>1, PartsAreNumbered
  <2>3. r \in {<<q, j>> : q \in Segments, j \in 1..Ceiling + 1}
    BY <2>1, <2>2
  <2>4. r \in {<<p, j>> : j \in 1..Parts[p]}
    BY <2>1, <2>2
  <2> QED
    BY <2>3, <2>4 DEF Row
<1> QED
  BY <1>1, <1>2

\* There are finitely many rows.
LEMMA RowsAreFinite == IsFiniteSet(Row) /\ Cardinality(Row) \in Nat
<1>1. IsFiniteSet(1..Len(Parts)) /\ IsFiniteSet(1..(Ceiling + 1))
  BY PartsAreNumbered, FS_Interval
<1>2. IsFiniteSet((1..Len(Parts)) \X (1..(Ceiling + 1)))
  BY <1>1, FS_Product
<1>3. Row \in SUBSET ((1..Len(Parts)) \X (1..(Ceiling + 1)))
  BY RowsAre, PartsAreNumbered
<1>4. IsFiniteSet(Row)
  BY <1>2, <1>3, FS_Subset
<1> QED
  BY <1>4, FS_CardinalityType

\* Of two rows one comes first.
LEMMA RowsAreOrdered ==
    ASSUME NEW r \in Row, NEW s \in Row
    PROVE  /\ ~Before(r, r)
           /\ r = s \/ Before(r, s) \/ Before(s, r)
           /\ \A q \in Row : Before(q, r) /\ Before(r, s) => Before(q, s)
<1>1. \A q \in Row : q = <<q[1], q[2]>> /\ q[1] \in Nat /\ q[2] \in Nat
  BY RowsAre, PartsAreNumbered
<1> QED
  BY <1>1 DEF Before

\* The place of a row in the list: a number of its own, and in the order of the rows.
LEMMA RankSays ==
    /\ \A r \in Row : Rank(r) \in 1..Cardinality(Row)
    /\ \A r, s \in Row : Before(r, s) => Rank(r) < Rank(s)
    /\ \A r, s \in Row : Rank(r) = Rank(s) => r = s
<1> DEFINE Earlier(r) == {s \in Row : Before(s, r)}
<1>1. ASSUME NEW r \in Row
      PROVE  /\ IsFiniteSet(Earlier(r)) /\ Cardinality(Earlier(r)) \in Nat
             /\ Rank(r) = Cardinality(Earlier(r)) + 1
  <2>1. Earlier(r) \in SUBSET Row
    OBVIOUS
  <2>2. IsFiniteSet(Earlier(r))
    BY <2>1, RowsAreFinite, FS_Subset
  <2>3. Cardinality(Earlier(r)) \in Nat
    BY <2>2, FS_CardinalityType
  <2> QED
    BY <2>2, <2>3 DEF Rank
<1>2. ASSUME NEW r \in Row PROVE Rank(r) \in 1..Cardinality(Row)
  <2>1. Earlier(r) \in SUBSET (Row \ {r})
    BY RowsAreOrdered
  <2>2. IsFiniteSet(Row \ {r}) /\ Cardinality(Row \ {r}) = Cardinality(Row) - 1
    BY RowsAreFinite, FS_RemoveElement
  <2>3. Cardinality(Earlier(r)) <= Cardinality(Row \ {r})
    BY <2>1, <2>2, FS_Subset
  <2> QED
    BY <1>1, <2>2, <2>3, RowsAreFinite
<1>3. ASSUME NEW r \in Row, NEW s \in Row, Before(r, s) PROVE Rank(r) < Rank(s)
  <2>1. Earlier(r) \union {r} \in SUBSET Earlier(s)
    BY <1>3, RowsAreOrdered
  <2>2. r \notin Earlier(r)
    BY RowsAreOrdered
  <2>3. Cardinality(Earlier(r) \union {r}) = Cardinality(Earlier(r)) + 1
    BY <1>1, <2>2, FS_AddElement
  <2>4. Cardinality(Earlier(r) \union {r}) <= Cardinality(Earlier(s))
    BY <1>1, <2>1, FS_Subset
  <2> QED
    BY <1>1, <2>3, <2>4
<1>4. ASSUME NEW r \in Row, NEW s \in Row, Rank(r) = Rank(s) PROVE r = s
  BY <1>2, <1>3, <1>4, RowsAreOrdered
<1> QED
  BY <1>2, <1>3, <1>4

\* No place of the list is free.
LEMMA EveryPlaceIsTaken == \A k \in 1..Cardinality(Row) : \E r \in Row : Rank(r) = k
<1> DEFINE f == [r \in Row |-> Rank(r)]
           T == 1..Cardinality(Row)
<1>1. f \in Injection(Row, T)
  BY RankSays DEF Injection, IsInjective
<1>2. IsFiniteSet(T) /\ Cardinality(T) = Cardinality(Row)
  BY RowsAreFinite, FS_Interval
<1>3. f \in Surjection(Row, T)
  <2> HIDE DEF f, T
  <2> QED
    BY <1>1, <1>2, FS_Injection
<1> QED
  BY <1>3 DEF Surjection

\* A page of the list that is empty lies behind the last row.
LEMMA AnEmptySliceIsTheLast ==
    ASSUME NEW from \in Nat, NEW width \in Nat \ {0}, Listed(from + 1, from + width) = {}
    PROVE  Row \subseteq Listed(1, from)
<1> SUFFICES ASSUME NEW r \in Row, ~(Rank(r) \in 1..from) PROVE FALSE
  BY DEF Listed
<1>1. Rank(r) \in 1..Cardinality(Row) /\ Cardinality(Row) \in Nat
  BY RankSays, RowsAreFinite
<1>2. from + 1 \in 1..Cardinality(Row)
  BY <1>1
<1>3. PICK s \in Row : Rank(s) = from + 1
  BY <1>2, EveryPlaceIsTaken
<1>4. s \in Listed(from + 1, from + width)
  BY <1>3 DEF Listed
<1> QED
  BY <1>4

\* One page after another.
LEMMA SlicesAdjoin ==
    ASSUME NEW from \in Nat, NEW width \in Nat
    PROVE  /\ Listed(1, from + width) = Listed(1, from) \union Listed(from + 1, from + width)
           /\ Listed(1, from) \cap Listed(from + 1, from + width) = {}
<1>1. \A r \in Row : Rank(r) \in Nat /\ Rank(r) > 0
  BY RankSays, RowsAreFinite
<1> QED
  BY <1>1 DEF Listed

\* Before the first place there is nothing.
LEMMA NothingListedYet == Listed(1, 0) = {}
BY DEF Listed

\* The rows of any set have a first.
LEMMA FirstOfRows ==
    ASSUME NEW S \in SUBSET Row, S # {}
    PROVE  \E r \in S : \A s \in S : s = r \/ Before(r, s)
<1> DEFINE places == {Rank(r) : r \in S}
<1>1. places \in SUBSET Nat /\ places # {}
  BY RankSays, RowsAreFinite
<1>2. PICK k \in places : \A l \in places : k <= l
  <2> HIDE DEF places
  <2> QED
    BY <1>1, LeastNumber
<1>3. PICK r \in S : k = Rank(r)
  BY <1>2
<1>4. ASSUME NEW s \in S, s # r PROVE Before(r, s)
  <2>1. Rank(r) <= Rank(s)
    BY <1>2, <1>3
  <2>2. Rank(r) \in Nat /\ Rank(s) \in Nat
    BY RankSays, RowsAreFinite
  <2> QED
    BY <1>4, <2>1, <2>2, RankSays, RowsAreOrdered
<1> QED
  BY <1>4

-----------------------------------------------------------------------------
(* Indexes of parts: the page is looked up where the last one ended.       *)

Partwise == {"github", "chain"}

\* What the index of kind k has that can be paged to, and what of it lies before a position.
Within(k) == IF k = "github" THEN {r \in Row : r[2] <= Ceiling} ELSE Row
Found(k, p, o) == IF k = "github" THEN Searched(p, o) ELSE Window(p, o)
Mark(o) == o * Size
Preceding(k, at) == {r \in Within(k) : r[1] < at[1] \/ (r[1] = at[1] /\ r[2] <= Mark(at[2]))}
Positions == (1..(Len(Parts) + 1)) \X Nat

\* Where a window begins, as a number.
LEMMA Offsets ==
    /\ \A o \in Nat : Mark(o) \in Nat /\ Mark(o + 1) = Mark(o) + Size
    /\ Mark(0) = 0 /\ Size \in Nat \ {0}
<1>1. Size \in Nat \ {0}
  BY PartsAreNumbered
<1>2. \A o, z \in Nat : o * z \in Nat /\ (o + 1) * z = o * z + z /\ 0 * z = 0
  OBVIOUS
<1> QED
  BY <1>1, <1>2 DEF Mark

\* What a position is made of.
LEMMA PositionsAre ==
    ASSUME NEW at \in Positions
    PROVE  /\ at = <<at[1], at[2]>> /\ at[1] \in 1..(Len(Parts) + 1)
           /\ at[2] \in Nat /\ Mark(at[2]) \in Nat
<1>1. at = <<at[1], at[2]>> /\ at[1] \in 1..(Len(Parts) + 1) /\ at[2] \in Nat
  BY DEF Positions
<1> QED
  BY <1>1, Offsets

\* What can be paged to is of the index.
LEMMA WithinAreRows ==
    ASSUME NEW k, NEW r \in Within(k)
    PROVE  /\ r \in Row /\ (k = "github" => r[2] <= Ceiling)
           /\ r[1] \in Segments /\ r[1] \in Nat /\ r[2] \in Nat /\ r[2] > 0
<1>1. r \in Row /\ (k = "github" => r[2] <= Ceiling)
  BY DEF Within
<1> QED
  BY <1>1, RowsAre, PartsAreNumbered

\* A window holds the rows of its part between two marks.
LEMMA FoundSays ==
    ASSUME NEW k \in Partwise, NEW p, NEW o \in Nat
    PROVE  /\ Found(k, p, o) \subseteq Within(k)
           /\ \A r \in Within(k) : r \in Found(k, p, o) <=>
                 r[1] = p /\ r[2] > Mark(o) /\ r[2] <= Mark(o) + Size
<1>1. \A r \in Row : r[2] \in Nat
  BY RowsAre
<1>2. Window(p, o) = {r \in Row : r[1] = p /\ r[2] \in (Mark(o) + 1)..Mark(o + 1)}
  BY DEF Window, Mark
<1>3. \A r \in Row : r \in Window(p, o) <=> r[1] = p /\ r[2] > Mark(o) /\ r[2] <= Mark(o) + Size
  BY <1>1, <1>2, Offsets
<1> QED
  BY <1>2, <1>3 DEF Found, Searched, Within, Partwise

\* A row is reached through the rows before it in its part.
LEMMA RowsBelow ==
    ASSUME NEW k \in Partwise, NEW r \in Within(k), NEW i \in 1..r[2]
    PROVE  <<r[1], i>> \in Within(k)
<1>1. r \in Row /\ (k = "github" => r[2] <= Ceiling)
  BY DEF Within, Partwise
<1>2. /\ r[1] \in Segments /\ r[2] \in Nat /\ r[2] <= Parts[r[1]]
      /\ Parts[r[1]] \in Nat
  BY <1>1, RowsAre, PartsAreNumbered
<1>3. <<r[1], i>> \in Row
  <2>1. i \in Nat \ {0} /\ i <= Parts[r[1]]
    BY <1>2
  <2> QED
    BY <1>2, <2>1, RowsAre
<1> QED
  BY <1>1, <1>2, <1>3, PartsAreNumbered DEF Within

\* Where there is a row further on in a part, the window at hand has one.
LEMMA NothingSkipped ==
    ASSUME NEW k \in Partwise, NEW r \in Within(k), NEW o \in Nat, r[2] > Mark(o)
    PROVE  Found(k, r[1], o) # {}
<1>1. r[2] \in Nat /\ Mark(o) \in Nat /\ Size \in Nat \ {0}
  BY WithinAreRows, Offsets
<1>2. Mark(o) + 1 \in 1..r[2]
  BY <1>1
<1>3. <<r[1], Mark(o) + 1>> \in Within(k)
  BY <1>2, RowsBelow
<1>4. <<r[1], Mark(o) + 1>> \in Found(k, r[1], o)
  BY <1>1, <1>3, FoundSays
<1> QED
  BY <1>4

Land(k, at) == IF k = "github" THEN Landing(Searched, at) ELSE Landing(Window, at)

LandingSays(k, at, land) ==
    /\ land \in Positions
    /\ Preceding(k, land) = Preceding(k, at)
    /\ IF land = End THEN Within(k) \subseteq Preceding(k, at) ELSE Found(k, land[1], land[2]) # {}

\* The next position with rows skips none, and there is none only at the end.
LEMMA LandingSkipsNothing ==
    ASSUME NEW k \in Partwise, NEW at \in Positions
    PROVE  LandingSays(k, at, Land(k, at))
<1> DEFINE later == {p \in Segments : p > at[1] /\ Found(k, p, 0) # {}}
<1>1. Land(k, at) = IF at[1] \in Segments /\ Found(k, at[1], at[2]) # {} THEN at
                    ELSE IF later # {} THEN <<Least(later), 0>> ELSE End
  BY DEF Land, Landing, Found, Partwise
<1>2. /\ at = <<at[1], at[2]>> /\ at[1] \in Nat \ {0} /\ at[2] \in Nat /\ at[1] <= Len(Parts) + 1
      /\ Mark(at[2]) \in Nat /\ Mark(0) = 0
  BY Offsets, PartsAreNumbered, PositionsAre
<1>3. \A r \in Within(k) : /\ r[1] \in Segments /\ r[1] \in Nat /\ r[2] \in Nat /\ r[2] > 0
                           /\ Found(k, r[1], 0) # {}
  <2>1. \A r \in Within(k) : r[1] \in Segments /\ r[1] \in Nat /\ r[2] \in Nat /\ r[2] > 0
    BY WithinAreRows
  <2> QED
    BY <2>1, <1>2, NothingSkipped
<1>4. CASE at[1] \in Segments /\ Found(k, at[1], at[2]) # {}
  BY <1>1, <1>2, <1>4, PartsAreNumbered DEF LandingSays, End
<1>5. CASE ~(at[1] \in Segments /\ Found(k, at[1], at[2]) # {})
  <2>1. \A r \in Within(k) : r[1] = at[1] => r[2] <= Mark(at[2])
    BY <1>2, <1>3, <1>5, NothingSkipped
  <2>2. \A r \in Within(k) : r[1] > at[1] => r[1] \in later
    BY <1>3
  <2>3. CASE later # {}
    <3>1. later \in SUBSET Nat
      BY PartsAreNumbered
    <3>2. \E l \in later : \A q \in later : l <= q
      <4> HIDE DEF later
      <4> QED
        BY <2>3, <3>1, LeastNumber
    <3>3. Least(later) \in later /\ \A q \in later : Least(later) <= q
      <4> HIDE DEF later
      <4> QED
        BY <3>2, Zenon DEF Least
    <3>4. Least(later) \in Segments /\ Least(later) > at[1] /\ Found(k, Least(later), 0) # {}
      BY <3>3
    <3> DEFINE land == <<Least(later), 0>>
    <3>5. Land(k, at) = land
      BY <1>1, <1>5, <2>3
    <3> HIDE DEF later
    <3>a. /\ Least(later) \in 1..Len(Parts) /\ Len(Parts) \in Nat
          /\ land[1] = Least(later) /\ land[2] = 0
      BY <3>4, PartsAreNumbered
    <3>b. land \in Positions /\ land # End
      BY <3>a DEF Positions, End
    <3>6. ASSUME NEW r \in Within(k)
          PROVE  r \in Preceding(k, land) <=> r \in Preceding(k, at)
      <4>1. r \in Preceding(k, land) <=> r[1] < Least(later)
        BY <1>2, <1>3, <3>a DEF Preceding
      <4>2. r \in Preceding(k, at) <=> r[1] <= at[1]
        BY <1>2, <1>3, <2>1 DEF Preceding
      <4>3. r[1] \in Nat /\ Least(later) \in Nat
        BY <1>3, <3>4, PartsAreNumbered
      <4> QED
        BY <1>2, <2>2, <3>3, <3>4, <4>1, <4>2, <4>3
    <3>7. Preceding(k, land) = Preceding(k, at)
      BY <3>6 DEF Preceding
    <3>8. Found(k, land[1], land[2]) # {}
      BY <3>4, <3>a
    <3> HIDE DEF land
    <3> QED
      BY <3>5, <3>b, <3>7, <3>8 DEF LandingSays
  <2>4. CASE later = {}
    <3>1. Land(k, at) = End
      BY <1>1, <1>5, <2>4
    <3>2. Within(k) \subseteq Preceding(k, at)
      BY <1>2, <1>3, <2>1, <2>2, <2>4 DEF Preceding
    <3>3. Within(k) \subseteq Preceding(k, End)
      BY <1>3, PartsAreNumbered DEF Preceding, End
    <3>4. End \in Positions
      BY PartsAreNumbered DEF End, Positions
    <3> QED
      BY <3>1, <3>2, <3>3, <3>4 DEF LandingSays, Preceding
  <2> QED
    BY <2>3, <2>4
<1> QED
  BY <1>4, <1>5

\* A window that is not full is the last of its part.
LEMMA ShortWindowsAreLast ==
    ASSUME NEW k \in Partwise, NEW r \in Within(k), NEW o \in Nat, r[2] > Mark(o) + Size
    PROVE  Cardinality(Found(k, r[1], o)) >= Size
<1> DEFINE f == [i \in 1..Size |-> <<r[1], Mark(o) + i>>]
           T == Found(k, r[1], o)
<1>1. r[2] \in Nat /\ Mark(o) \in Nat /\ Size \in Nat
  BY WithinAreRows, Offsets
<1>2. ASSUME NEW i \in 1..Size PROVE <<r[1], Mark(o) + i>> \in T
  <2>1. Mark(o) + i \in 1..r[2]
    BY <1>1
  <2>2. <<r[1], Mark(o) + i>> \in Within(k)
    BY <2>1, RowsBelow
  <2> QED
    BY <1>1, <2>2, FoundSays
<1>3. IsFiniteSet(T)
  <2>1. T \in SUBSET Row
    BY FoundSays DEF Within
  <2> QED
    BY <2>1, RowsAreFinite, FS_Subset
<1>4. f \in Injection(1..Size, T)
  <2>1. \A i, j \in 1..Size : f[i] = f[j] => i = j
    BY <1>1
  <2>2. f \in [1..Size -> T]
    BY <1>2
  <2> QED
    BY <2>1, <2>2 DEF Injection, IsInjective
<1>5. Cardinality(1..Size) = Size
  BY <1>1, FS_Interval, PartsAreNumbered
<1>6. Cardinality(1..Size) <= Cardinality(T)
  <2> HIDE DEF f, T
  <2> QED
    BY <1>3, <1>4, FS_Injection
<1> QED
  BY <1>5, <1>6

On(k, land) ==
    IF land = End THEN End
    ELSE IF k = "github" THEN After(land, Cardinality(Found(k, land[1], land[2])))
    ELSE <<land[1], land[2] + 1>>

Bought(k, land) == IF land = End THEN {} ELSE Found(k, land[1], land[2])

\* The next page begins where the rows of this one end.
LEMMA GoingOnLosesNothing ==
    ASSUME NEW k \in Partwise, NEW at \in Positions, NEW land, LandingSays(k, at, land)
    PROVE  /\ On(k, land) \in Positions
           /\ Preceding(k, On(k, land)) = Preceding(k, at) \union Bought(k, land)
           /\ Preceding(k, at) \cap Bought(k, land) = {}
           /\ Bought(k, land) = {} => Within(k) \subseteq Preceding(k, at)
<1> USE DEF LandingSays
<1>1. CASE land = End
  BY <1>1, PartsAreNumbered DEF On, Bought, Positions, End
<1>2. CASE land # End
  <2> DEFINE p == land[1]
             o == land[2]
  <2>1. /\ p \in Nat \ {0} /\ o \in Nat /\ Mark(o) \in Nat /\ Size \in Nat \ {0}
        /\ Mark(o + 1) = Mark(o) + Size /\ Mark(0) = 0
    BY Offsets, PartsAreNumbered, PositionsAre
  <2>2. p \in Segments
    <3>1. PICK r \in Within(k) : r[1] = p
      BY <1>2, <2>1, FoundSays
    <3> QED
      BY <3>1, RowsAre DEF Within
  <2>3. \A r \in Within(k) : r[1] \in Nat /\ r[2] \in Nat /\ r[2] > 0
    BY WithinAreRows
  <2>4. Bought(k, land) = Found(k, p, o) /\ Found(k, p, o) # {}
    BY <1>2 DEF Bought
  <2>5. Preceding(k, at) \cap Found(k, p, o) = {}
    BY <2>1, <2>3, FoundSays DEF Preceding
  <2>6. CASE On(k, land) = <<p, o + 1>>
    <3>1. On(k, land) \in Positions
      BY <2>1, <2>2, <2>6, PartsAreNumbered DEF Positions
    <3>2. ASSUME NEW r \in Within(k)
          PROVE  r \in Preceding(k, <<p, o + 1>>) <=> r \in Preceding(k, land) \/ r \in Found(k, p, o)
      BY <2>1, <2>3, FoundSays DEF Preceding
    <3>3. Preceding(k, <<p, o + 1>>) = Preceding(k, land) \union Found(k, p, o)
      BY <3>2, FoundSays, <2>1 DEF Preceding
    <3> QED
      BY <2>4, <2>5, <2>6, <3>1, <3>3
  <2>7. CASE k = "github" /\ On(k, land) = <<p + 1, 0>>
             /\ (Cardinality(Found(k, p, o)) < Size \/ Mark(o + 1) >= Ceiling)
    <3>1. On(k, land) \in Positions
      BY <2>1, <2>2, <2>7, PartsAreNumbered DEF Positions
    <3>2. ASSUME NEW r \in Within(k), r[1] = p PROVE r[2] <= Mark(o) + Size
      <4>1. CASE Mark(o + 1) >= Ceiling
        BY <2>1, <2>3, <2>7, <4>1, PartsAreNumbered DEF Within
      <4>2. CASE Cardinality(Found(k, p, o)) < Size
        <5>1. Cardinality(Found(k, p, o)) \in Nat
          <6>1. Found(k, p, o) \in SUBSET Row
            BY <2>1, FoundSays DEF Within
          <6> QED
            BY <6>1, RowsAreFinite, FS_Subset, FS_CardinalityType
        <5> QED
          BY <2>1, <2>3, <3>2, <4>2, <5>1, ShortWindowsAreLast
      <4> QED
        BY <2>7, <4>1, <4>2
    <3>3. ASSUME NEW r \in Within(k)
          PROVE  r \in Preceding(k, <<p + 1, 0>>) <=> r \in Preceding(k, land) \/ r \in Found(k, p, o)
      BY <2>1, <2>3, <3>2, FoundSays DEF Preceding
    <3>4. Preceding(k, <<p + 1, 0>>) = Preceding(k, land) \union Found(k, p, o)
      BY <3>3, FoundSays, <2>1 DEF Preceding
    <3> QED
      BY <2>4, <2>5, <2>7, <3>1, <3>4
  <2> QED
    BY <1>2, <2>6, <2>7 DEF On, After, Mark
<1> QED
  BY <1>1, <1>2

\* What an instance remembers of its walk: where some of the pages up to the one at hand begin.
Recalls(was, num) ==
    /\ DOMAIN was \subseteq 0..num /\ 0 \in DOMAIN was
    /\ \A k \in DOMAIN was : was[k] \in Positions

Here(was) == was[Most(DOMAIN was)]

\* The page asked for begins where the furthest page that is known does.
LEMMA TheFurthestIsKnown ==
    ASSUME NEW num \in Nat, NEW was, Recalls(was, num)
    PROVE  /\ Most(DOMAIN was) \in DOMAIN was
           /\ \A k \in DOMAIN was : Most(DOMAIN was) >= k
           /\ PositionOf(was, num) = Here(was) /\ Here(was) \in Positions
<1>1. DOMAIN was \in SUBSET Nat /\ DOMAIN was # {} /\ \A k \in DOMAIN was : k <= num
  BY DEF Recalls
<1>2. \E x \in DOMAIN was : \A y \in DOMAIN was : x >= y
  BY <1>1, GreatestNumber
<1>3. Most(DOMAIN was) \in DOMAIN was /\ \A k \in DOMAIN was : Most(DOMAIN was) >= k
  BY <1>2, Zenon DEF Most
<1>4. CASE num \in DOMAIN was
  <2>1. Most(DOMAIN was) = num
    BY <1>1, <1>3, <1>4
  <2> QED
    BY <1>3, <1>4, <2>1 DEF PositionOf, Here, Recalls
<1>5. CASE num \notin DOMAIN was
  <2>1. num > Most(DOMAIN was)
    BY <1>1, <1>3, <1>5
  <2> QED
    BY <1>3, <1>5, <2>1 DEF PositionOf, Here, Recalls
<1> QED
  BY <1>4, <1>5

\* What is recorded is the furthest from then on.
LEMMA RecordingSays ==
    ASSUME NEW num \in Nat, NEW was, Recalls(was, num), NEW next \in Positions
    PROVE  /\ Recalls(Recording(was, num, next), num + 1)
           /\ Here(Recording(was, num, next)) = next
<1> DEFINE new == Recording(was, num, next)
<1>1. /\ DOMAIN new = DOMAIN was \union {num + 1}
      /\ new[num + 1] = next
      /\ \A k \in DOMAIN was : k # num + 1 => new[k] = was[k]
  BY DEF Recording
<1>2. Recalls(new, num + 1)
  BY <1>1 DEF Recalls
<1> HIDE DEF new
<1>3. /\ Most(DOMAIN new) \in DOMAIN new /\ Most(DOMAIN new) >= num + 1
      /\ DOMAIN new \subseteq 0..(num + 1)
  BY <1>1, <1>2, TheFurthestIsKnown DEF Recalls
<1>4. Most(DOMAIN new) = num + 1
  BY <1>3
<1>5. Here(new) = next
  BY <1>1, <1>4 DEF Here
<1> QED
  BY <1>2, <1>5 DEF new

PartPage(k, was, num) == IF k = "github" THEN GitHubPage(was, num) ELSE ChainPage(was, num)

PageContinues(k, was, num, rs, new) ==
    /\ Recalls(new, num + 1)
    /\ Preceding(k, Here(new)) = Preceding(k, Here(was)) \union rs
    /\ Preceding(k, Here(was)) \cap rs = {}
    /\ rs = {} => Within(k) \subseteq Preceding(k, Here(was))

\* A page of such an index holds what comes next, none of what came before, and an empty one
\* means that nothing comes.
LEMMA PartPageSays ==
    ASSUME NEW k \in Partwise, NEW num \in Nat, NEW was, Recalls(was, num)
    PROVE  PageContinues(k, was, num, PartPage(k, was, num).rows, PartPage(k, was, num).memo)
<1> DEFINE at == Here(was)
           land == Land(k, at)
<1>1. at \in Positions /\ PositionOf(was, num) = at
  BY TheFurthestIsKnown
<1>2. LandingSays(k, at, land)
  BY <1>1, LandingSkipsNothing
<1>3. PartPage(k, was, num) = Answer(Bought(k, land), Recording(was, num, On(k, land)))
  <2>1. CASE k = "github"
    BY <1>1, <2>1 DEF PartPage, GitHubPage, Bought, On, Land, Found
  <2>2. CASE k = "chain"
    BY <1>1, <2>2 DEF PartPage, ChainPage, Bought, On, Land, Found
  <2> QED
    BY <2>1, <2>2 DEF Partwise
<1>4. /\ PartPage(k, was, num).rows = Bought(k, land)
      /\ PartPage(k, was, num).memo = Recording(was, num, On(k, land))
  BY <1>3 DEF Answer
<1> HIDE DEF land
<1>5. /\ On(k, land) \in Positions
      /\ Preceding(k, On(k, land)) = Preceding(k, at) \union Bought(k, land)
      /\ Preceding(k, at) \cap Bought(k, land) = {}
      /\ Bought(k, land) = {} => Within(k) \subseteq Preceding(k, at)
  BY <1>1, <1>2, GoingOnLosesNothing
<1>6. /\ Recalls(Recording(was, num, On(k, land)), num + 1)
      /\ Here(Recording(was, num, On(k, land))) = On(k, land)
  BY <1>5, RecordingSays
<1> QED
  BY <1>4, <1>5, <1>6 DEF PageContinues

\* An instance begins in front of everything.
LEMMA StartSays ==
    ASSUME NEW num \in Nat
    PROVE  Recalls(Start, num) /\ \A k : Preceding(k, Here(Start)) = {}
<1>1. DOMAIN Start = {0} /\ Start[0] = <<1, 0>> /\ <<1, 0>> \in Positions
  BY PartsAreNumbered DEF Start, Positions
<1>2. Recalls(Start, num)
  BY <1>1 DEF Recalls
<1>3. Here(Start) = <<1, 0>>
  BY <1>1, <1>2, TheFurthestIsKnown DEF Here
<1>4. ASSUME NEW k, NEW r \in Within(k) PROVE r \notin Preceding(k, <<1, 0>>)
  <2>1. r[1] \in Segments /\ r[1] \in Nat /\ r[2] \in Nat /\ r[2] > 0 /\ Mark(0) = 0
    BY WithinAreRows, Offsets
  <2> QED
    BY <2>1, PartsAreNumbered DEF Preceding
<1> QED
  BY <1>2, <1>3, <1>4 DEF Preceding

-----------------------------------------------------------------------------
(* The Go module index.                                                    *)

\* A function can be followed for ever.
Upto(f, begin, G, L) == f[0] = begin /\ \A k \in 1..L : f[k] = G[f[k - 1]]

Followed(X, begin, G) == begin \in X /\ G \in [X -> X]

Follows(f, X, begin, G) ==
    f \in [Nat -> X] /\ f[0] = begin /\ \A k \in Nat \ {0} : f[k] = G[f[k - 1]]

\* Such a function exists.
LEMMA Iterating ==
    ASSUME NEW X, NEW begin, NEW G, Followed(X, begin, G)
    PROVE  \E f : Follows(f, X, begin, G)
<1> USE DEF Followed
<1> DEFINE S == {k \in Nat : \E f \in [0..k -> X] : Upto(f, begin, G, k)}
<1>1. 0 \in S
  <2> DEFINE f == [k \in 0..0 |-> begin]
  <2>1. f \in [0..0 -> X] /\ f[0] = begin
    OBVIOUS
  <2> HIDE DEF f
  <2>2. Upto(f, begin, G, 0)
    BY <2>1 DEF Upto
  <2> QED
    BY <2>1, <2>2
<1>2. ASSUME NEW k \in Nat \ {0}, k - 1 \in S PROVE k \in S
  <2>1. PICK f \in [0..(k - 1) -> X] : Upto(f, begin, G, k - 1)
    BY <1>2
  <2> DEFINE g == [i \in 0..k |-> IF i = k THEN G[f[k - 1]] ELSE f[i]]
  <2>2. g \in [0..k -> X]
    <3>1. f[k - 1] \in X
      BY <2>1
    <3> QED
      BY <2>1, <3>1
  <2>3. g[0] = begin
    BY <2>1 DEF Upto
  <2>4. ASSUME NEW i \in 1..k PROVE g[i] = G[g[i - 1]]
    <3>1. i - 1 \in 0..(k - 1) /\ g[i - 1] = f[i - 1]
      OBVIOUS
    <3> QED
      BY <2>1, <3>1 DEF Upto
  <2> HIDE DEF g
  <2>5. Upto(g, begin, G, k)
    BY <2>3, <2>4 DEF Upto
  <2> QED
    BY <2>2, <2>5
<1>3. ASSUME NEW k \in Nat PROVE k \in S
  <2>1. \A i \in 1..k : i - 1 \in S => i \in S
    BY <1>2
  <2> HIDE DEF S
  <2> QED
    BY <1>1, <2>1, CountingUp
<1> DEFINE walk == [k \in Nat |-> CHOOSE f \in [0..k -> X] : Upto(f, begin, G, k)]
           h == [k \in Nat |-> walk[k][k]]
<1>4. ASSUME NEW k \in Nat PROVE walk[k] \in [0..k -> X] /\ Upto(walk[k], begin, G, k)
  <2>1. \E f \in [0..k -> X] : Upto(f, begin, G, k)
    BY <1>3
  <2>2. walk[k] = CHOOSE f \in [0..k -> X] : Upto(f, begin, G, k)
    OBVIOUS
  <2> HIDE DEF walk
  <2> QED
    BY <2>1, <2>2, Zenon
<1> HIDE DEF walk
<1>5. ASSUME NEW k \in Nat \ {0} PROVE walk[k][k - 1] = walk[k - 1][k - 1]
  <2> DEFINE Same == {i \in Nat : walk[k][i] = walk[k - 1][i]}
  <2>1. 0 \in Same
    BY <1>4 DEF Upto
  <2>2. \A i \in 1..(k - 1) : i - 1 \in Same => i \in Same
    <3>1. \A i \in 1..(k - 1) : /\ walk[k][i] = G[walk[k][i - 1]]
                               /\ walk[k - 1][i] = G[walk[k - 1][i - 1]]
      BY <1>4 DEF Upto
    <3> QED
      BY <3>1
  <2>3. \A i \in 0..(k - 1) : i \in Same
    <3> HIDE DEF Same
    <3> QED
      BY <2>1, <2>2, CountingUp
  <2> QED
    BY <2>3
<1>6. h \in [Nat -> X]
  BY <1>4
<1>7. h[0] = begin
  BY <1>4 DEF Upto
<1>8. ASSUME NEW k \in Nat \ {0} PROVE h[k] = G[h[k - 1]]
  BY <1>4, <1>5 DEF Upto
<1> QED
  BY <1>6, <1>7, <1>8 DEF Follows

\* The rows are stamped in their order.
Time(r) == Stamps[Rank(r)]

\* Every row has a time, every time a row, and they rise together.
LEMMA StampsRise ==
    /\ \A i, j \in 1..Len(Stamps) : i <= j => Stamps[i] <= Stamps[j]
    /\ \A r \in Row : /\ Rank(r) \in 1..Len(Stamps) /\ Time(r) \in Times
                      /\ Time(r) <= Stamps[Len(Stamps)]
    /\ \A t \in Times : t \in Nat /\ \E r \in Row : Time(r) = t
<1>1. /\ Stamps \in Seq(Nat) /\ Len(Stamps) = Cardinality(Row) /\ Len(Stamps) \in Nat
      /\ DOMAIN Stamps = 1..Len(Stamps)
      /\ \A k \in 2..Len(Stamps) : Stamps[k - 1] <= Stamps[k]
  BY IndexAssumption
<1>2. \A i \in 1..Len(Stamps) : Stamps[i] \in Nat
  BY <1>1
<1>3. ASSUME NEW i \in 1..Len(Stamps), NEW j \in 1..Len(Stamps), i <= j
      PROVE  Stamps[i] <= Stamps[j]
  <2> DEFINE S == {d \in Nat : i + d <= Len(Stamps) => Stamps[i] <= Stamps[i + d]}
  <2>1. 0 \in S
    BY <1>2
  <2>2. ASSUME NEW d \in 1..(j - i), d - 1 \in S PROVE d \in S
    <3>1. /\ i + d \in 2..Len(Stamps) /\ i + (d - 1) \in 1..Len(Stamps)
          /\ i + (d - 1) = (i + d) - 1
      BY <1>1
    <3>2. Stamps[i] <= Stamps[i + (d - 1)] /\ Stamps[i + (d - 1)] <= Stamps[i + d]
      BY <1>1, <2>2, <3>1
    <3> QED
      BY <1>2, <3>1, <3>2
  <2>3. \A d \in 0..(j - i) : d \in S
    <3> HIDE DEF S
    <3>1. j - i \in Nat
      BY <1>3
    <3> QED
      BY <2>1, <2>2, <3>1, CountingUp
  <2>4. j - i \in S /\ i + (j - i) = j
    BY <1>3, <2>3
  <2> QED
    BY <1>1, <2>4
<1>4. ASSUME NEW r \in Row
      PROVE  /\ Rank(r) \in 1..Len(Stamps) /\ Time(r) \in Times
             /\ Time(r) <= Stamps[Len(Stamps)]
  <2>1. Rank(r) \in 1..Len(Stamps)
    BY <1>1, RankSays
  <2>2. Len(Stamps) \in 1..Len(Stamps) /\ Rank(r) <= Len(Stamps)
    BY <1>1, <2>1
  <2> QED
    BY <1>1, <1>3, <2>1, <2>2 DEF Time, Times
<1>5. ASSUME NEW t \in Times PROVE t \in Nat /\ \E r \in Row : Time(r) = t
  <2>1. PICK k \in 1..Len(Stamps) : t = Stamps[k]
    BY <1>1 DEF Times
  <2>2. PICK r \in Row : Rank(r) = k
    BY <1>1, <2>1, EveryPlaceIsTaken
  <2> QED
    BY <1>2, <2>1, <2>2 DEF Time
<1> QED
  BY <1>3, <1>4, <1>5

\* What is asked for by a time begins with it, and is not empty.
LEMMA SinceSays ==
    ASSUME NEW t \in Times
    PROVE  /\ Since(t) \subseteq Row /\ Since(t) # {}
           /\ \A r \in Since(t) : Time(r) \in Nat /\ Time(r) >= t
<1> DEFINE from == {r \in Row : Stamps[Rank(r)] >= t}
           Ahead(r) == {s \in from : Before(s, r)}
<1>1. Since(t) = {r \in from : Cardinality(Ahead(r)) < Size}
  BY DEF Since
<1>2. from \in SUBSET Row /\ from # {}
  BY StampsRise DEF Time
<1>3. PICK r \in from : \A s \in from : s = r \/ Before(r, s)
  <2> HIDE DEF from
  <2> QED
    BY <1>2, FirstOfRows
<1>4. Ahead(r) = {}
  BY <1>2, <1>3, RowsAreOrdered
<1>5. Cardinality(Ahead(r)) = 0
  BY <1>4, FS_EmptySet
<1>6. r \in Since(t)
  BY <1>1, <1>3, <1>5, PartsAreNumbered
<1>7. \A s \in Since(t) : s \in Row /\ Stamps[Rank(s)] >= t
  BY <1>1
<1> QED
  BY <1>6, <1>7, StampsRise DEF Time

\* The last time of a page is one of the index, and no earlier than where the page begins.
LEMMA LastStampSays ==
    ASSUME NEW t \in Times
    PROVE  /\ LastStamp[t] \in Times /\ LastStamp[t] >= t
           /\ \A r \in Since(t) : Time(r) <= LastStamp[t]
<1> DEFINE T == {Stamps[Rank(r)] : r \in Since(t)}
<1>1. T \in SUBSET Nat /\ T # {} /\ T \subseteq Times /\ \A x \in T : x >= t
  BY SinceSays, StampsRise DEF Time
<1>2. Stamps[Len(Stamps)] \in Nat /\ \A x \in T : x <= Stamps[Len(Stamps)]
  <2>1. \A r \in Since(t) : r \in Row /\ Time(r) <= Stamps[Len(Stamps)]
    BY SinceSays, StampsRise
  <2>2. Len(Stamps) \in 1..Len(Stamps) /\ Stamps \in Seq(Nat)
    <3>1. PICK r \in Row : Rank(r) \in 1..Len(Stamps)
      BY StampsRise
    <3> QED
      BY <3>1, IndexAssumption
  <2> QED
    BY <2>1, <2>2 DEF Time
<1>3. LastStamp[t] = Most(T)
  BY DEF LastStamp
<1>4. \A r \in Since(t) : Time(r) \in T
  BY DEF Time
<1> HIDE DEF T
<1>5. \E x \in T : \A y \in T : x >= y
  BY <1>1, <1>2, GreatestNumber
<1>6. Most(T) \in T /\ \A y \in T : Most(T) >= y
  BY <1>5, Zenon DEF Most
<1>7. \A r \in Since(t) : Time(r) \in Nat /\ Most(T) \in Nat /\ Time(r) <= Most(T)
  BY <1>1, <1>4, <1>6
<1> QED
  BY <1>1, <1>3, <1>6, <1>7

\* Each page begins at the last time of the one before.
LEMMA CursorSays ==
    ASSUME Row # {}
    PROVE  \A k \in Nat : Cursor[k] \in Times /\ Cursor[k + 1] = LastStamp[Cursor[k]]
<1>1. Stamps[1] \in Times
  <2>1. PICK r \in Row : Rank(r) \in 1..Len(Stamps)
    BY StampsRise
  <2>2. DOMAIN Stamps = 1..Len(Stamps) /\ Len(Stamps) \in Nat
    BY IndexAssumption
  <2> QED
    BY <2>1, <2>2 DEF Times
<1>2. LastStamp \in [Times -> Times]
  <2>1. \A t \in Times : LastStamp[t] \in Times
    BY LastStampSays
  <2>2. LastStamp = [t \in Times |-> LastStamp[t]]
    BY DEF LastStamp
  <2> QED
    BY <2>1, <2>2
<1>3. PICK f : Follows(f, Times, Stamps[1], LastStamp)
  BY <1>1, <1>2, Iterating DEF Followed
<1>4. f = [k \in Nat |-> IF k = 0 THEN Stamps[1] ELSE LastStamp[f[k - 1]]]
  BY <1>3 DEF Follows
<1>5. Cursor = CHOOSE g : g = [k \in Nat |-> IF k = 0 THEN Stamps[1] ELSE LastStamp[g[k - 1]]]
  BY DEF Cursor
<1>6. Cursor = [k \in Nat |-> IF k = 0 THEN Stamps[1] ELSE LastStamp[Cursor[k - 1]]]
  BY <1>4, <1>5
<1> DEFINE S == {k \in Nat : Cursor[k] \in Times}
<1>7. Cursor[0] = Stamps[1] /\ \A k \in Nat \ {0} : Cursor[k] = LastStamp[Cursor[k - 1]]
  BY <1>6
<1>8. 0 \in S /\ \A k \in Nat \ {0} : k - 1 \in S => k \in S
  BY <1>1, <1>2, <1>7
<1>9. ASSUME NEW k \in Nat PROVE k \in S
  <2>1. \A i \in 1..k : i - 1 \in S => i \in S
    BY <1>8
  <2> HIDE DEF S
  <2> QED
    BY <1>8, <2>1, CountingUp
<1>10. ASSUME NEW k \in Nat PROVE Cursor[k + 1] = LastStamp[Cursor[k]]
  <2>1. k + 1 \in Nat \ {0} /\ (k + 1) - 1 = k
    OBVIOUS
  <2> QED
    BY <1>7, <2>1
<1> QED
  BY <1>9, <1>10

-----------------------------------------------------------------------------
(* The registries: a page is a slice of the list.                          *)

Turn(k) == IF k = "rubygems" THEN NativePage ELSE Size
Reached(k, num) == num * Turn(k)
Slice(k, num) == Listed(Reached(k, num) + 1, Reached(k, num) + Turn(k))

\* Pages of one length lie end to end.
LEMMA TurnsAdd ==
    ASSUME NEW k
    PROVE  /\ Turn(k) \in Nat \ {0} /\ Reached(k, 0) = 0
           /\ \A num \in Nat : /\ Reached(k, num) \in Nat
                               /\ Reached(k, num + 1) = Reached(k, num) + Turn(k)
           /\ \A num, num2 \in Nat : num <= num2 => Reached(k, num) <= Reached(k, num2)
<1>1. Turn(k) \in Nat \ {0}
  BY PartsAreNumbered DEF Turn
<1>2. \A z, num \in Nat : num * z \in Nat /\ (num + 1) * z = num * z + z /\ 0 * z = 0
  OBVIOUS
<1>3. ASSUME NEW z \in Nat, NEW a \in Nat, NEW b \in Nat, a <= b PROVE a * z <= b * z
  <2>1. PICK d \in Nat : b = a + d
    BY <1>3
  <2>2. (a + d) * z = a * z + d * z /\ d * z \in Nat /\ a * z \in Nat
    OBVIOUS
  <2> QED
    BY <2>1, <2>2
<1> QED
  BY <1>1, <1>2, <1>3 DEF Reached

\* What a page of a registry holds: nothing of another slice, and of its own all that it is
\* asked for; where it holds nothing, nothing is left.
LEMMA RegistryPageSays ==
    ASSUME NEW k \in Registries, NEW was, NEW num \in Nat, NEW body \in {"fit", "odd"},
           NoRow \notin Page(k, was, num, body).rows
    PROVE  /\ Unread(k, num) = Slice(k, num)
           /\ Page(k, was, num, body).rows \subseteq Slice(k, num)
           /\ body = "fit" /\ (k = "opam" => was # "empty") =>
                 /\ k = "opam" => Page(k, was, num, body).memo # "empty"
                 /\ \/ k # "rubygems" /\ Page(k, was, num, body).rows = Slice(k, num)
                    \/ k = "rubygems" /\ Page(k, was, num, body).rows # {}
                    \/ Reachable(k) \subseteq Listed(1, Reached(k, num))
<1> DEFINE answer == Page(k, was, num, body)
<1>1. /\ Reached(k, num) \in Nat /\ Turn(k) \in Nat \ {0}
      /\ Reached(k, num + 1) = Reached(k, num) + Turn(k)
  BY TurnsAdd
<1>2. k # "rubygems" => Sliced(num) = Slice(k, num)
  BY <1>1 DEF Sliced, Slice, Reached, Turn
<1>3. Unread(k, num) = Slice(k, num)
  <2>1. CASE k = "rubygems"
    BY <1>1, <2>1 DEF Unread, Slice, Reached, Turn
  <2>2. CASE k # "rubygems"
    BY <1>2, <2>2 DEF Unread, Registries
  <2> QED
    BY <2>1, <2>2
<1>4. CASE k \in {"pypi", "hackage", "npm", "maven"}
  <2>1. k \notin {"rubygems", "opam", "github", "chain", "quota", "golang", "crates", "hex"}
    BY <1>4
  <2>2. answer.rows = Slice(k, num)
    BY <1>2, <1>4, <2>1 DEF Page, Answer, PyPIPage, HackagePage, NpmPage, MavenPage
  <2> QED
    BY <1>3, <2>1, <2>2
<1>5. CASE k = "opam"
  <2>1. answer = OpamPage(was, num, body)
    BY <1>5 DEF Page
  <2> DEFINE after == IF was # "none" THEN was ELSE IF body = "odd" THEN "empty" ELSE "taken"
  <2>2. answer.rows = (IF after = "empty" THEN {} ELSE Slice(k, num)) /\ answer.memo = after
    BY <1>2, <1>5, <2>1 DEF OpamPage, Answer
  <2> QED
    BY <1>3, <1>5, <2>2
<1>6. CASE k = "hex"
  <2>1. answer = HexPage(num, body)
    BY <1>6 DEF Page
  <2>2. answer.rows = IF body = "odd" THEN {} ELSE Slice(k, num)
    BY <1>2, <1>6, <2>1 DEF HexPage, Answer
  <2> QED
    BY <1>3, <1>6, <2>2
<1>7. CASE k = "crates"
  <2>1. answer = CratesPage(num)
    BY <1>7 DEF Page
  <2>2. answer.rows = IF num + 1 > MaxPage THEN {} ELSE Slice(k, num)
    BY <1>2, <1>7, <2>1 DEF CratesPage, Answer
  <2>3. Reachable(k) = Listed(1, Reached(k, MaxPage))
    BY <1>7 DEF Reachable, Reached, Turn
  <2>4. ASSUME num + 1 > MaxPage PROVE Reachable(k) \subseteq Listed(1, Reached(k, num))
    <3>1. Reached(k, MaxPage) <= Reached(k, num) /\ Reached(k, MaxPage) \in Nat
      <4>1. MaxPage \in Nat /\ MaxPage <= num
        BY <2>4, PartsAreNumbered
      <4> QED
        BY <4>1, TurnsAdd
    <3>2. \A r \in Row : Rank(r) \in Nat
      BY RankSays, RowsAreFinite
    <3> QED
      BY <1>1, <2>3, <3>1, <3>2 DEF Listed
  <2> QED
    BY <1>3, <1>7, <2>2, <2>4
<1>8. CASE k = "rubygems"
  <2>1. answer = RubyGemsPage(num)
    BY <1>8 DEF Page
  <2> DEFINE asked == IF Size < NativePage THEN Size ELSE NativePage
  <2>2. answer.rows = Listed(Reached(k, num) + 1, Reached(k, num) + asked)
    BY <1>8, <2>1 DEF RubyGemsPage, Answer, Reached, Turn
  <2>3. asked \in Nat \ {0} /\ asked <= Turn(k)
    BY <1>8, PartsAreNumbered DEF Turn
  <2> HIDE DEF asked, answer
  <2>4. answer.rows \subseteq Slice(k, num)
    <3>1. \A r \in Row : Rank(r) \in Nat
      BY RankSays, RowsAreFinite
    <3> QED
      BY <1>1, <2>2, <2>3, <3>1 DEF Listed, Slice
  <2>5. ASSUME answer.rows = {} PROVE Reachable(k) \subseteq Listed(1, Reached(k, num))
    <3>1. Row \subseteq Listed(1, Reached(k, num))
      BY <1>1, <2>2, <2>3, <2>5, AnEmptySliceIsTheLast
    <3> QED
      BY <1>8, <3>1 DEF Reachable
  <2> QED
    BY <1>3, <1>8, <2>4, <2>5 DEF answer
<1> QED
  BY <1>4, <1>5, <1>6, <1>7, <1>8 DEF Registries

\* A slice that is empty leaves nothing to be reached.
LEMMA NothingLeft ==
    ASSUME NEW k \in Registries, NEW num \in Nat, Slice(k, num) = {}
    PROVE  Reachable(k) \subseteq Listed(1, Reached(k, num))
<1>1. Row \subseteq Listed(1, Reached(k, num))
  BY TurnsAdd, AnEmptySliceIsTheLast DEF Slice
<1>2. Reachable(k) \subseteq Row
  BY DEF Reachable, Listed, Registries
<1> QED
  BY <1>1, <1>2

-----------------------------------------------------------------------------
(* What every walk keeps to.                                               *)

Had == served \union waived \union lost
Number == IF kind \in Miners THEN sourcePage ELSE n

\* What a miner has bought and not served yet.
InHand == buffer \union batch \union Pending(expanded, n)
Held == Had \union InHand

\* What the miners hold is of the index, and what they have seen has been served.
Mined ==
    /\ buffer \subseteq Row /\ batch \subseteq Row
    /\ seen \subseteq served /\ expanded \in Seq(Row)
    /\ kind \notin Miners => buffer = {} /\ batch = {} /\ expanded = << >> /\ cloning = NoRow
    /\ exhausted => kind \in Miners /\ buffer = {}

\* A search that is exhausted has been bought whole.
Depleted == exhausted => Within("github") \subseteq Held

\* A registry has been read up to the number that is asked for next.
InSlices ==
    kind \in Registries =>
        /\ now \subseteq Listed(1, Reached(kind, n))
        /\ ~misread => /\ Listed(1, Reached(kind, n)) \cap Reachable(kind) \subseteq Had
                       /\ kind = "opam" => memo # "empty"

\* The Go module index has been read up to the cursor.
InTimes ==
    kind = "golang" =>
        /\ now \subseteq Row
        /\ Row # {} => ~done /\ \A r \in now : Time(r) <= Cursor[n]

\* An index of parts, or what a miner searches, has been read up to the position at hand.
InParts ==
    Inner(kind) \in Partwise =>
        /\ Recalls(memo, Number)
        /\ Preceding(Inner(kind), Here(memo)) \subseteq Held
        /\ now \subseteq Preceding(Inner(kind), Here(memo))

SourcesInv ==
    /\ kind \in Kinds \union Miners /\ n \in Nat /\ sourcePage \in Nat
    /\ Mined /\ Depleted /\ InSlices /\ InTimes /\ InParts /\ EmptyMeansExhausted

\* What a step may buy.
BoughtOnce ==
    got' # got => \A r \in got' \cap now :
        \/ kind = "quota"
        \/ kind = "golang" /\ \A s \in got' : Stamps[Rank(r)] <= Stamps[Rank(s)]

\* The kinds of index, and what each searches.
LEMMA KindsAre ==
    /\ kind \in Registries => Inner(kind) = kind /\ kind \notin Partwise /\ kind \notin Miners
                              /\ kind # "golang" /\ kind # "quota"
    /\ kind \in Miners => Inner(kind) = "github" /\ "github" \in Partwise
                          /\ kind \notin Registries /\ kind # "golang" /\ kind # "quota"
    /\ kind \in Partwise => Inner(kind) = kind /\ kind \notin Registries /\ kind \notin Miners
                            /\ kind # "golang" /\ kind # "quota"
    /\ kind \in {"golang", "quota"} => Inner(kind) \notin Partwise /\ kind \notin Registries
                                       /\ kind \notin Miners /\ Inner(kind) = kind
    /\ kind \in Kinds \union Miners =>
          kind \in Registries \union Miners \union Partwise \union {"golang", "quota"}
BY DEF Registries, Miners, Partwise, Inner, Kinds

\* What walking can reach can be paged to.
LEMMA ReachableIsWithin == \A k \in Partwise : Reachable(k) \subseteq Within(k)
BY DEF Reachable, Within, Partwise, Searched

\* What is found after a place is on the page of that number or found after the next, and what
\* is added to a list hides nothing.
LEMMA PendingSays ==
    ASSUME NEW list \in Seq(Row), NEW m \in Nat
    PROVE  /\ Pending(list, m) \subseteq Row /\ Slot(list, m) \subseteq Row
           /\ Pending(list, m) \subseteq Slot(list, m) \union Pending(list, m + 1)
           /\ Pending(list, m) \subseteq Pending(list, 0)
           /\ Len(list) >= (m + 1) * Size => Pending(list, m) # {}
           /\ \A more \in Seq(Row) : Pending(list, m) \subseteq Pending(list \o more, m)
<1>1. /\ Mark(m) \in Nat /\ Mark(m + 1) = Mark(m) + Size /\ Mark(0) = 0 /\ Size \in Nat \ {0}
  BY Offsets
<1>2. /\ Pending(list, m) = {list[k] : k \in {i \in DOMAIN list : i > Mark(m)}}
      /\ Pending(list, 0) = {list[k] : k \in {i \in DOMAIN list : i > Mark(0)}}
      /\ Pending(list, m + 1) = {list[k] : k \in {i \in DOMAIN list : i > Mark(m + 1)}}
      /\ Slot(list, m) = {list[k] : k \in {i \in DOMAIN list : i > Mark(m) /\ i <= Mark(m + 1)}}
  BY DEF Pending, Slot, Mark
<1>3. DOMAIN list = 1..Len(list) /\ Len(list) \in Nat /\ \A i \in 1..Len(list) : list[i] \in Row
  BY LenProperties, ElementOfSeq
<1>4. Pending(list, m) \subseteq Row /\ Slot(list, m) \subseteq Row
  BY <1>2, <1>3
<1>5. Pending(list, m) \subseteq Slot(list, m) \union Pending(list, m + 1)
  BY <1>1, <1>2, <1>3
<1>6. Pending(list, m) \subseteq Pending(list, 0)
  BY <1>1, <1>2, <1>3
<1>7. ASSUME Len(list) >= (m + 1) * Size PROVE Pending(list, m) # {}
  <2>1. Len(list) >= Mark(m + 1)
    BY <1>7 DEF Mark
  <2>2. Len(list) \in {i \in DOMAIN list : i > Mark(m)}
    BY <1>1, <1>3, <2>1
  <2> QED
    BY <1>2, <2>2
<1>8. ASSUME NEW more \in Seq(Row) PROVE Pending(list, m) \subseteq Pending(list \o more, m)
  <2>1. DOMAIN (list \o more) = 1..Len(list \o more) /\ Len(list \o more) = Len(list) + Len(more)
        /\ Len(more) \in Nat /\ \A i \in 1..Len(list) : (list \o more)[i] = list[i]
    BY ConcatProperties, LenProperties
  <2>2. Pending(list \o more, m) = {(list \o more)[k] : k \in {i \in DOMAIN (list \o more) : i > Mark(m)}}
    BY DEF Pending, Mark
  <2> QED
    BY <1>2, <1>3, <2>1, <2>2
<1> QED
  BY <1>4, <1>5, <1>6, <1>7, <1>8

\* Where nothing is mined, nothing is in hand.
LEMMA EmptyHanded == Mined /\ kind \notin Miners => InHand = {}
BY DEF Mined, InHand, Pending

\* A walk starts with nothing read.
LEMMA TheWalkStartsInOrder == SourcesInit => SourcesInv
<1> SUFFICES ASSUME SourcesInit PROVE SourcesInv
  OBVIOUS
<1>1. /\ kind \in Kinds \union Miners /\ n = 0 /\ sourcePage = 0
      /\ memo = Unwalked(Inner(kind)) /\ now = {} /\ done = FALSE
      /\ buffer = {} /\ batch = {} /\ seen = {} /\ expanded = << >> /\ cloning = NoRow
      /\ exhausted = FALSE
  BY SourcesAssumption DEF SourcesInit
<1>2. Mined /\ Depleted
  BY <1>1, EmptySeq DEF Mined, Depleted
<1>3. InSlices
  BY <1>1, KindsAre, TurnsAdd, NothingListedYet DEF InSlices, Unwalked
<1>4. InTimes
  BY <1>1 DEF InTimes
<1>5. InParts
  <2>1. Inner(kind) \in Partwise => memo = Start
    BY <1>1 DEF Unwalked, Partwise
  <2> QED
    BY <1>1, <2>1, StartSays DEF InParts, Number
<1> QED
  BY <1>1, <1>2, <1>3, <1>4, <1>5 DEF SourcesInv, EmptyMeansExhausted

\* What serving a page does, whatever index it is a page of.
LEMMA PageIsServed ==
    ASSUME NEW body \in {"fit", "odd"}, ServePage(body), n \in Nat
    PROVE  LET answer == Page(kind, memo, n, body) IN
           /\ kind \notin Miners /\ (body = "odd" => ~Insists(kind)) /\ ~done
           /\ NoRow \notin answer.rows
           /\ got' \subseteq answer.rows /\ now' = now \union got'
           /\ served \subseteq served' /\ Had' = Had \union answer.rows \union
                 (IF kind = "rubygems" /\ answer.rows # {} THEN Unread(kind, n) ELSE {})
           /\ memo' = answer.memo /\ misread' = (misread \/ body = "odd")
           /\ done' = (answer.rows = {}) /\ n' = n + 1
           /\ kind' = kind /\ UNCHANGED mine
<1> DEFINE answer == Page(kind, memo, n, body)
<1>1. /\ kind \notin Miners /\ (body = "odd" => ~Insists(kind)) /\ ~done
      /\ NoRow \notin answer.rows
      /\ memo' = answer.memo /\ misread' = (misread \/ body = "odd")
      /\ done' = (answer.rows = {}) /\ n' = n + 1
      /\ kind' = kind /\ UNCHANGED mine
  BY Zenon DEF ServePage, Asking
<1>2. PICK kept \in (IF answer.rows = {} THEN {{}} ELSE Kept(answer.rows)) :
         /\ got' = kept /\ now' = now \union kept /\ served' = served \union kept
         /\ waived' = waived \union (answer.rows \ kept)
               \union (IF kind = "rubygems" /\ answer.rows # {}
                       THEN Unread(kind, n) \ answer.rows ELSE {})
  BY Zenon DEF ServePage
<1> HIDE DEF answer
<1>3. kept \subseteq answer.rows
  BY <1>2 DEF Kept
<1>4. Had' = Had \union answer.rows \union
                 (IF kind = "rubygems" /\ answer.rows # {} THEN Unread(kind, n) ELSE {})
  BY <1>1, <1>2, <1>3 DEF Had, mine
<1> QED
  BY <1>1, <1>2, <1>3, <1>4 DEF answer

\* The part of what a walk keeps to that does not depend on its kind.
LEMMA MinedStays ==
    ASSUME Mined, kind \notin Miners, UNCHANGED <<kind, mine>>, served \subseteq served'
    PROVE  Mined' /\ Depleted'
<1>1. UNCHANGED <<kind, buffer, batch, exhausted, seen, expanded, cloning>>
  BY DEF mine
<1> QED
  BY <1>1 DEF Mined, Depleted

\* A page that is served: one case for each family of indexes.
LEMMA ServingKeeps ==
    ASSUME SourcesInv, NEW body \in {"fit", "odd"}, ServePage(body)
    PROVE  SourcesInv' /\ BoughtOnce
<1> DEFINE answer == Page(kind, memo, n, body)
<1>1. /\ kind \in Kinds \union Miners /\ n \in Nat /\ sourcePage \in Nat
      /\ Mined /\ InSlices /\ InTimes /\ InParts /\ EmptyMeansExhausted
  BY DEF SourcesInv
<1>2. /\ kind \notin Miners /\ (body = "odd" => ~Insists(kind)) /\ ~done
      /\ NoRow \notin answer.rows
      /\ got' \subseteq answer.rows /\ now' = now \union got'
      /\ served \subseteq served'
      /\ memo' = answer.memo
      /\ done' = (answer.rows = {}) /\ n' = n + 1
      /\ kind' = kind /\ UNCHANGED mine
  BY <1>1, PageIsServed
<1>3. /\ misread' = (misread \/ body = "odd")
      /\ Had' = Had \union answer.rows \union
                 (IF kind = "rubygems" /\ answer.rows # {} THEN Unread(kind, n) ELSE {})
  BY <1>1, PageIsServed
<1>4. Mined' /\ Depleted'
  BY <1>1, <1>2, MinedStays
<1>5. kind' \in Kinds \union Miners /\ n' \in Nat /\ sourcePage' \in Nat
  BY <1>1, <1>2 DEF mine
<1>6. CASE kind \in Registries
  <2> DEFINE slice == Slice(kind, n)
             sofar == Listed(1, Reached(kind, n))
  <2>1. /\ Unread(kind, n) = slice /\ answer.rows \subseteq slice
        /\ body = "fit" /\ (kind = "opam" => memo # "empty") =>
              /\ kind = "opam" => answer.memo # "empty"
              /\ \/ kind # "rubygems" /\ answer.rows = slice
                 \/ kind = "rubygems" /\ answer.rows # {}
                 \/ Reachable(kind) \subseteq sofar
    BY <1>1, <1>2, <1>6, RegistryPageSays
  <2>2. /\ Listed(1, Reached(kind, n + 1)) = sofar \union slice
        /\ sofar \cap slice = {}
    <3>1. /\ Reached(kind, n) \in Nat /\ Turn(kind) \in Nat
          /\ Reached(kind, n + 1) = Reached(kind, n) + Turn(kind)
      BY <1>1, TurnsAdd
    <3> QED
      BY <3>1, SlicesAdjoin DEF Slice
  <2>3. slice = {} => Reachable(kind) \subseteq sofar
    BY <1>1, <1>6, NothingLeft
  <2> HIDE DEF answer, slice, sofar
  <2>4. now \subseteq sofar
    BY <1>1, <1>6 DEF InSlices, sofar
  <2>5. now' \subseteq sofar \union slice
    BY <1>2, <2>1, <2>4
  <2>6. ASSUME ~misread'
        PROVE  /\ body = "fit" /\ ~misread
               /\ (sofar \union slice) \cap Reachable(kind) \subseteq Had'
               /\ kind = "opam" => memo' # "empty"
               /\ done' => Reachable(kind) \subseteq Had'
    <3>1. body = "fit" /\ ~misread
      BY <1>3, <2>6
    <3>2. sofar \cap Reachable(kind) \subseteq Had /\ (kind = "opam" => memo # "empty")
      BY <1>1, <1>6, <3>1 DEF InSlices, sofar
    <3>3. /\ kind = "opam" => memo' # "empty"
          /\ \/ kind # "rubygems" /\ answer.rows = slice
             \/ kind = "rubygems" /\ answer.rows # {}
             \/ Reachable(kind) \subseteq sofar
      BY <1>2, <2>1, <3>1, <3>2
    <3>4. Had \subseteq Had' /\ answer.rows \subseteq Had'
      BY <1>3
    <3>5. kind = "rubygems" /\ answer.rows # {} => slice \subseteq Had'
      BY <1>3, <2>1
    <3>6. (sofar \union slice) \cap Reachable(kind) \subseteq Had'
      BY <3>2, <3>3, <3>4, <3>5
    <3>7. done' => Reachable(kind) \subseteq Had'
      BY <1>2, <2>3, <3>2, <3>3, <3>4
    <3> QED
      BY <3>1, <3>3, <3>6, <3>7
  <2>7. InSlices'
    <3>1. Listed(1, Reached(kind, n))' = sofar \union slice /\ Reachable(kind)' = Reachable(kind)
      BY <1>2, <2>2
    <3> QED
      BY <1>2, <2>5, <2>6, <3>1 DEF InSlices
  <2>8. EmptyMeansExhausted'
    <3>1. Inner(kind)' = kind /\ (served \union waived \union lost)' = Had'
      BY <1>2, <1>6, KindsAre DEF Had
    <3> QED
      BY <1>2, <2>6, <3>1 DEF EmptyMeansExhausted
  <2>9. InTimes' /\ InParts'
    <3>1. kind' # "golang" /\ Inner(kind)' \notin Partwise
      BY <1>2, <1>6, KindsAre
    <3> QED
      BY <3>1 DEF InTimes, InParts
  <2>10. BoughtOnce
    BY <1>2, <2>1, <2>2, <2>4 DEF BoughtOnce
  <2> QED
    BY <1>4, <1>5, <2>7, <2>8, <2>9, <2>10 DEF SourcesInv
<1>7. CASE kind = "golang"
  <2>1. answer.rows = Since(Cursor[n])
    BY <1>7 DEF Page, GoModulesPage, Answer
  <2>2. answer.rows \subseteq Row
    BY <2>1 DEF Since
  <2> HIDE DEF answer
  <2>3. now \subseteq Row /\ (Row # {} => ~done /\ \A r \in now : Time(r) <= Cursor[n])
    BY <1>1, <1>7 DEF InTimes
  <2>4. ASSUME Row # {}
        PROVE  /\ answer.rows # {}
               /\ \A r \in answer.rows : /\ Time(r) \in Nat /\ Time(r) >= Cursor[n]
                                         /\ Time(r) <= Cursor[n + 1]
               /\ Cursor[n] \in Nat /\ Cursor[n + 1] \in Nat /\ Cursor[n] <= Cursor[n + 1]
    <3>1. Cursor[n] \in Times /\ Cursor[n + 1] = LastStamp[Cursor[n]]
      BY <1>1, <2>4, CursorSays
    <3>2. Cursor[n + 1] \in Times /\ Cursor[n] \in Nat /\ Cursor[n + 1] \in Nat
          /\ Cursor[n] <= Cursor[n + 1]
      BY <3>1, LastStampSays, StampsRise
    <3> QED
      BY <2>1, <3>1, <3>2, SinceSays, LastStampSays
  <2>5. now' \subseteq Row
    BY <1>2, <2>2, <2>3
  <2>6. Row # {} => ~done'
    BY <1>2, <2>4
  <2>7. ASSUME Row # {} PROVE \A r \in now' : Time(r) <= Cursor[n + 1]
    <3>1. \A r \in Row : Time(r) \in Nat
      BY StampsRise
    <3> QED
      BY <1>2, <2>3, <2>4, <2>7, <3>1
  <2>8. InTimes'
    BY <1>2, <2>5, <2>6, <2>7 DEF InTimes, Time
  <2>9. EmptyMeansExhausted'
    <3>1. Inner(kind)' = "golang"
      BY <1>2, <1>7, KindsAre
    <3>2. Reachable("golang") = Row
      BY DEF Reachable
    <3> QED
      BY <2>6, <3>1, <3>2 DEF EmptyMeansExhausted
  <2>10. InSlices' /\ InParts'
    <3>1. kind' \notin Registries /\ Inner(kind)' \notin Partwise
      BY <1>2, <1>7, KindsAre
    <3> QED
      BY <3>1 DEF InSlices, InParts
  <2>11. BoughtOnce
    <3>1. \A r \in Row : Time(r) \in Nat
      BY StampsRise
    <3>2. \A r \in got' \cap now : \A s \in got' : Time(r) <= Time(s)
      BY <1>2, <2>2, <2>3, <2>4, <3>1
    <3> QED
      BY <1>7, <3>2 DEF BoughtOnce, Time
  <2> QED
    BY <1>4, <1>5, <2>8, <2>9, <2>10, <2>11 DEF SourcesInv
<1>8. CASE kind \in Partwise
  <2>1. Inner(kind) = kind /\ kind \notin Registries /\ kind \notin Miners /\ kind # "golang"
    BY <1>8, KindsAre
  <2>2. answer = PartPage(kind, memo, n)
    BY <1>8 DEF Page, PartPage, Partwise
  <2>3. /\ Recalls(memo, n) /\ Preceding(kind, Here(memo)) \subseteq Held
        /\ now \subseteq Preceding(kind, Here(memo))
    BY <1>1, <1>8, <2>1 DEF InParts, Number
  <2>4. PageContinues(kind, memo, n, answer.rows, answer.memo)
    BY <1>1, <1>8, <2>2, <2>3, PartPageSays
  <2> HIDE DEF answer
  <2>5. Held = Had /\ Held' = Had'
    BY <1>1, <1>2, <1>4, <2>1, EmptyHanded DEF Held, Mined, InHand, Pending
  <2>6. Had \subseteq Had' /\ answer.rows \subseteq Had'
    BY <1>3
  <2>7. /\ Recalls(memo', n') /\ Preceding(kind, Here(memo')) \subseteq Had'
        /\ now' \subseteq Preceding(kind, Here(memo'))
        /\ done' => Within(kind) \subseteq Had'
        /\ got' \cap now = {}
    BY <1>2, <2>3, <2>4, <2>5, <2>6 DEF PageContinues
  <2>8. InParts'
    <3>1. Inner(kind)' = kind /\ Number' = n'
      BY <1>2, <2>1 DEF Number
    <3>2. /\ Preceding(Inner(kind), Here(memo))' = Preceding(kind, Here(memo'))
          /\ Recalls(memo, Number)' <=> Recalls(memo', n')
      BY <1>2, <3>1, <2>1 DEF Preceding, Here, Recalls, Within
    <3> QED
      BY <2>5, <2>7, <3>2 DEF InParts
  <2>9. EmptyMeansExhausted'
    <3>1. Reachable(Inner(kind))' = Reachable(kind) /\ (served \union waived \union lost)' = Had'
      BY <1>2, <2>1 DEF Had
    <3> QED
      BY <1>8, <2>7, <3>1, ReachableIsWithin DEF EmptyMeansExhausted
  <2>10. InSlices' /\ InTimes'
    BY <1>2, <2>1 DEF InSlices, InTimes
  <2>11. BoughtOnce
    BY <2>7 DEF BoughtOnce
  <2> QED
    BY <1>4, <1>5, <2>8, <2>9, <2>10, <2>11 DEF SourcesInv
<1>9. CASE kind = "quota"
  <2>1. kind' = "quota" /\ Inner(kind)' \notin Partwise /\ kind' \notin Registries
    BY <1>2, <1>9, KindsAre
  <2>2. InSlices' /\ InTimes' /\ InParts' /\ EmptyMeansExhausted'
    BY <2>1 DEF InSlices, InTimes, InParts, EmptyMeansExhausted
  <2> QED
    BY <1>4, <1>5, <1>9, <2>2 DEF SourcesInv, BoughtOnce
<1> QED
  BY <1>1, <1>2, <1>6, <1>7, <1>8, <1>9, KindsAre

\* A page that fails is given up: the next number is asked for.
LEMMA FailingKeeps ==
    ASSUME SourcesInv, FailPage
    PROVE  SourcesInv' /\ BoughtOnce
<1>1. /\ kind \in Kinds \union Miners /\ n \in Nat /\ sourcePage \in Nat
      /\ Mined /\ InSlices /\ InTimes /\ InParts /\ EmptyMeansExhausted
  BY DEF SourcesInv
<1>2. /\ kind \notin Miners /\ ~done /\ done' = done
      /\ waived' = waived \union Unread(kind, n) /\ served' = served
      /\ memo' \in AfterFailure(kind, memo, n)
      /\ n' = n + 1 /\ got' = {} /\ now' = now /\ misread' = misread
      /\ kind' = kind /\ UNCHANGED mine
  BY Zenon DEF FailPage, Asking
<1>3. Mined' /\ Depleted'
  BY <1>1, <1>2, MinedStays
<1>4. kind' \in Kinds \union Miners /\ n' \in Nat /\ sourcePage' \in Nat
  BY <1>1, <1>2 DEF mine
<1>5. BoughtOnce
  BY <1>2 DEF BoughtOnce
<1>6. EmptyMeansExhausted' /\ Had' = Had \union Unread(kind, n)
  BY <1>2 DEF EmptyMeansExhausted, Had, mine
<1>7. CASE kind \in Registries
  <2>1. Unread(kind, n) = Slice(kind, n)
    <3>1. /\ Reached(kind, n) \in Nat /\ Reached(kind, n + 1) = Reached(kind, n) + Turn(kind)
      BY <1>1, TurnsAdd
    <3>2. CASE kind = "rubygems"
      BY <3>1, <3>2 DEF Unread, Slice, Reached, Turn
    <3>3. CASE kind # "rubygems"
      <4>1. Unread(kind, n) = Sliced(n)
        BY <1>7, <3>3 DEF Unread, Registries
      <4> QED
        BY <3>1, <3>3, <4>1 DEF Sliced, Slice, Reached, Turn
    <3> QED
      BY <3>2, <3>3
  <2>2. Listed(1, Reached(kind, n + 1)) = Listed(1, Reached(kind, n)) \union Slice(kind, n)
    <3>1. /\ Reached(kind, n) \in Nat /\ Turn(kind) \in Nat
          /\ Reached(kind, n + 1) = Reached(kind, n) + Turn(kind)
      BY <1>1, TurnsAdd
    <3> QED
      BY <3>1, SlicesAdjoin DEF Slice
  <2>3. kind = "opam" /\ memo # "empty" => memo' # "empty"
    BY <1>2 DEF AfterFailure
  <2>4. InSlices'
    <3>1. /\ now' \subseteq Listed(1, Reached(kind, n + 1))
          /\ ~misread => /\ Listed(1, Reached(kind, n + 1)) \cap Reachable(kind) \subseteq Had'
                         /\ kind = "opam" => memo' # "empty"
      BY <1>1, <1>2, <1>6, <1>7, <2>1, <2>2, <2>3 DEF InSlices
    <3>2. Listed(1, Reached(kind, n))' = Listed(1, Reached(kind, n + 1))
          /\ Reachable(kind)' = Reachable(kind)
      BY <1>2
    <3> QED
      BY <1>2, <3>1, <3>2 DEF InSlices
  <2>5. InTimes' /\ InParts'
    <3>1. kind' # "golang" /\ Inner(kind)' \notin Partwise
      BY <1>2, <1>7, KindsAre
    <3> QED
      BY <3>1 DEF InTimes, InParts
  <2> QED
    BY <1>3, <1>4, <1>5, <1>6, <2>4, <2>5 DEF SourcesInv
<1>8. CASE kind = "golang"
  <2>1. now \subseteq Row /\ (Row # {} => ~done /\ \A r \in now : Time(r) <= Cursor[n])
    BY <1>1, <1>8 DEF InTimes
  <2>2. ASSUME Row # {} PROVE \A r \in now : Time(r) <= Cursor[n + 1]
    <3>1. Cursor[n] \in Times /\ Cursor[n + 1] = LastStamp[Cursor[n]]
      BY <1>1, <2>2, CursorSays
    <3>2. Cursor[n + 1] \in Times /\ Cursor[n] \in Nat /\ Cursor[n + 1] \in Nat
          /\ Cursor[n] <= Cursor[n + 1]
      BY <3>1, LastStampSays, StampsRise
    <3>3. \A r \in Row : Time(r) \in Nat
      BY StampsRise
    <3> QED
      BY <2>1, <2>2, <3>2, <3>3
  <2>3. InTimes'
    BY <1>2, <2>1, <2>2 DEF InTimes, Time
  <2>4. InSlices' /\ InParts'
    <3>1. kind' \notin Registries /\ Inner(kind)' \notin Partwise
      BY <1>2, <1>8, KindsAre
    <3> QED
      BY <3>1 DEF InSlices, InParts
  <2> QED
    BY <1>3, <1>4, <1>5, <1>6, <2>3, <2>4 DEF SourcesInv
<1>9. CASE kind \in Partwise
  <2>1. Inner(kind) = kind /\ kind \notin Registries /\ kind \notin Miners /\ kind # "golang"
    BY <1>9, KindsAre
  <2>2. memo' = memo
    BY <1>2, <1>9 DEF AfterFailure, Partwise
  <2>3. Recalls(memo, n + 1)
    BY <1>1, <1>9, <2>1 DEF InParts, Number, Recalls
  <2>4. Held \subseteq Held'
    <3>1. Held = Had /\ Held' = Had'
      BY <1>1, <1>2, <1>3, <2>1, EmptyHanded DEF Held, Mined, InHand, Pending
    <3> QED
      BY <1>6, <3>1
  <2>5. InParts'
    <3>1. Number' = n + 1 /\ Inner(kind)' = Inner(kind)
      BY <1>2, <2>1 DEF Number
    <3>2. Preceding(Inner(kind), Here(memo))' = Preceding(Inner(kind), Here(memo))
      BY <1>2, <2>2, <3>1 DEF Preceding, Here, Within
    <3> QED
      BY <1>1, <1>2, <2>2, <2>3, <2>4, <3>1, <3>2 DEF InParts, Recalls
  <2>6. InSlices' /\ InTimes'
    BY <1>2, <2>1 DEF InSlices, InTimes
  <2> QED
    BY <1>3, <1>4, <1>5, <1>6, <2>5, <2>6 DEF SourcesInv
<1>10. CASE kind = "quota"
  <2>1. kind' = "quota" /\ Inner(kind)' \notin Partwise /\ kind' \notin Registries
    BY <1>2, <1>10, KindsAre
  <2>2. InSlices' /\ InTimes' /\ InParts'
    BY <2>1 DEF InSlices, InTimes, InParts
  <2> QED
    BY <1>3, <1>4, <1>5, <1>6, <2>2 DEF SourcesInv
<1> QED
  BY <1>1, <1>2, <1>7, <1>8, <1>9, <1>10, KindsAre

-----------------------------------------------------------------------------
(* The miners.                                                             *)

\* A miner's step that buys nothing keeps hold of what it had, if only as lost.
LEMMA MiningKeeps ==
    ASSUME SourcesInv, kind \in Miners, Mined', n' \in Nat, Held \subseteq Held',
           UNCHANGED <<kind, memo, now, misread, done, sourcePage, exhausted>>,
           ~done \/ Had \subseteq Had'
    PROVE  SourcesInv'
<1>1. /\ kind \in Kinds \union Miners /\ n \in Nat /\ sourcePage \in Nat
      /\ Depleted /\ InParts /\ EmptyMeansExhausted
  BY DEF SourcesInv
<1>2. /\ Inner(kind) = "github" /\ Inner(kind)' = "github" /\ "github" \in Partwise
      /\ kind' \notin Registries /\ kind' # "golang"
  BY KindsAre
<1>3. InSlices' /\ InTimes'
  BY <1>2 DEF InSlices, InTimes
<1>4. InParts'
  <2>1. Recalls(memo, Number)' <=> Recalls(memo, Number)
    BY DEF Number, Recalls
  <2>2. Preceding(Inner(kind), Here(memo))' = Preceding(Inner(kind), Here(memo))
    BY <1>2 DEF Preceding, Here, Within
  <2> QED
    BY <1>1, <1>2, <2>1, <2>2 DEF InParts
<1>5. EmptyMeansExhausted' /\ Depleted'
  <2>1. Within("github")' = Within("github")
    BY DEF Within
  <2> QED
    BY <1>1, <2>1 DEF EmptyMeansExhausted, Had, Depleted
<1> QED
  BY <1>1, <1>3, <1>4, <1>5 DEF SourcesInv

\* The search is read page by page, as any index of parts.
LEMMA FetchingKeeps ==
    ASSUME SourcesInv, FetchRows
    PROVE  SourcesInv' /\ BoughtOnce
<1> DEFINE answer == Page("github", memo, sourcePage, "fit")
<1>1. /\ kind \in Kinds \union Miners /\ n \in Nat /\ sourcePage \in Nat
      /\ Mined /\ InParts /\ EmptyMeansExhausted
  BY DEF SourcesInv
<1>2. /\ kind \in Miners /\ buffer = {} /\ ~done
      /\ buffer' = answer.rows /\ memo' = answer.memo /\ sourcePage' = sourcePage + 1
      /\ now' = now \union answer.rows /\ got' = answer.rows /\ exhausted' = (answer.rows = {})
      /\ UNCHANGED <<kind, n, done, served, waived, lost, misread, batch, seen, expanded>>
  BY Zenon DEF FetchRows, Dry, Wanting, Mining, Asking
<1>3. /\ Inner(kind) = "github" /\ Inner(kind)' = "github" /\ "github" \in Partwise
      /\ kind' \notin Registries /\ kind' # "golang"
  BY <1>2, KindsAre
<1>4. Recalls(memo, sourcePage)
  BY <1>1, <1>2, <1>3 DEF InParts, Number
<1>5. answer = PartPage("github", memo, sourcePage)
  BY DEF Page, PartPage
<1>6. PageContinues("github", memo, sourcePage, answer.rows, answer.memo)
  BY <1>1, <1>3, <1>4, <1>5, PartPageSays
<1> HIDE DEF answer
<1>7. /\ Preceding("github", Here(memo)) \subseteq Held /\ now \subseteq Preceding("github", Here(memo))
  BY <1>1, <1>2, <1>3 DEF InParts
<1>8. Held' = Held \union answer.rows
  BY <1>2 DEF Held, Had, InHand
<1>9. /\ Recalls(memo', sourcePage + 1)
      /\ Preceding("github", Here(memo')) \subseteq Held'
      /\ now' \subseteq Preceding("github", Here(memo'))
      /\ exhausted' => Within("github") \subseteq Held'
      /\ answer.rows \cap now = {}
  BY <1>2, <1>6, <1>7, <1>8 DEF PageContinues
<1>10. InParts' /\ Depleted'
  <2>1. Number' = sourcePage + 1
    BY <1>2 DEF Number
  <2>2. Preceding(Inner(kind), Here(memo))' = Preceding("github", Here(memo'))
    BY <1>3 DEF Preceding, Here, Within
  <2>3. Recalls(memo, Number)' <=> Recalls(memo', sourcePage + 1)
    BY <2>1 DEF Recalls
  <2>4. Within("github")' = Within("github")
    BY DEF Within
  <2> QED
    BY <1>9, <2>2, <2>3, <2>4 DEF InParts, Depleted
<1>11. EmptyMeansExhausted'
  BY <1>2 DEF EmptyMeansExhausted
<1>12. Mined'
  <2>1. answer.rows \subseteq Row
    BY <1>6 DEF PageContinues, Preceding, Within
  <2> QED
    BY <1>1, <1>2, <2>1 DEF Mined
<1>13. InSlices' /\ InTimes'
  BY <1>3 DEF InSlices, InTimes
<1>14. BoughtOnce
  BY <1>2, <1>9 DEF BoughtOnce
<1>15. kind' \in Kinds \union Miners /\ n' \in Nat /\ sourcePage' \in Nat
  BY <1>1, <1>2
<1> QED
  BY <1>10, <1>11, <1>12, <1>13, <1>14, <1>15 DEF SourcesInv

\* What a repository gives is a number.
LEMMA DrawnIsANumber == \A r \in Row : Drawn(r) \in Nat
<1>1. \A r \in Row : Yields[r] \in Nat
  BY SourcesAssumption
<1> QED
  BY <1>1 DEF Drawn, Functions, Packages

\* The row that is looked at is one of those in hand.
LEMMA NextRowIsHeld ==
    ASSUME batch \subseteq Row, batch # {}
    PROVE  NextRow \in batch
<1>1. \E r \in batch : \A s \in batch : s = r \/ Before(r, s)
  BY FirstOfRows
<1> QED
  BY <1>1, Zenon DEF NextRow

\* What is given up with a page is written down as lost.
LEMMA GivingUpKeeps ==
    ASSUME SourcesInv, kind \in Miners, ~done, GiveUp,
           lost \union PassedOver \subseteq lost', waived \subseteq waived',
           buffer' = buffer, batch' \subseteq batch, batch \subseteq batch' \union waived' \union lost'
    PROVE  SourcesInv' /\ got' = got
<1>1. n \in Nat /\ Mined
  BY DEF SourcesInv
<1>2. /\ n' = n + 1
      /\ UNCHANGED <<kind, memo, got, now, misread, done, served, exhausted, expanded, sourcePage,
                     seen, cloning>>
  BY DEF GiveUp
<1>3. Pending(expanded, n) \subseteq lost' \union Pending(expanded', n')
  BY <1>2 DEF PassedOver
<1>4. Held \subseteq Held'
  BY <1>2, <1>3 DEF Held, Had, InHand
<1>5. Mined'
  BY <1>1, <1>2 DEF Mined
<1>6. n' \in Nat
  BY <1>1, <1>2
<1> QED
  BY <1>2, <1>4, <1>5, <1>6, MiningKeeps

\* What is drawn from a repository is found later, or the repository is served or lost.
LEMMA WideningKeeps ==
    ASSUME SourcesInv, kind \in Miners, ~done, NEW r \in batch, NEW drawn \in Nat, Widen(r, drawn),
           UNCHANGED <<plain, waived, buffer, exhausted, sourcePage, seen, cloning>>
    PROVE  SourcesInv'
<1>1. n \in Nat /\ Mined /\ r \in Row
  BY DEF SourcesInv, Mined
<1>2. UNCHANGED <<kind, memo, n, got, now, misread, done>>
  BY DEF plain
<1>3. /\ batch' = batch \ {r} /\ expanded' = expanded \o [k \in 1..drawn |-> r]
      /\ served \subseteq served' /\ lost \subseteq lost'
      /\ r \in served' \union lost' \union Pending(expanded', n)
  BY DEF Widen
<1>4. [k \in 1..drawn |-> r] \in Seq(Row)
  BY <1>1
<1>5. expanded' \in Seq(Row) /\ Pending(expanded, n) \subseteq Pending(expanded', n)
  BY <1>1, <1>3, <1>4, ConcatProperties, PendingSays DEF Mined
<1>6. Mined'
  BY <1>1, <1>2, <1>3, <1>5 DEF Mined
<1>7. Held \subseteq Held' /\ n' \in Nat
  BY <1>1, <1>2, <1>3, <1>5 DEF Held, Had, InHand
<1> QED
  BY <1>2, <1>6, <1>7, MiningKeeps

\* What a miner lets go of it has served, waived or lost.
LEMMA MinersKeep ==
    ASSUME SourcesInv,
           \/ FailRows \/ TakeRows \/ SkipRow \/ MineRow \/ RaiseRow \/ CloneDone \/ CloneFails
           \/ ServeFunctions \/ WalkAgain
    PROVE  SourcesInv' /\ (got' = got)
<1>1. n \in Nat /\ Mined /\ Depleted
  BY DEF SourcesInv
<1>2. CASE FailRows
  <2>1. /\ kind \in Miners /\ ~done /\ GiveUp /\ lost' = lost \union PassedOver
        /\ UNCHANGED <<waived, buffer, batch>>
    BY <1>2, Zenon DEF FailRows, Dry, Wanting, Mining, Asking
  <2> QED
    BY <2>1, GivingUpKeeps
<1>3. CASE TakeRows
  <2>1. /\ kind \in Miners /\ batch = {} /\ batch' \subseteq buffer /\ buffer' = buffer \ batch'
        /\ UNCHANGED <<plain, served, waived, lost, exhausted, expanded, sourcePage, seen, cloning>>
    BY <1>3 DEF TakeRows, Wanting, Mining
  <2>2. UNCHANGED <<kind, memo, n, got, now, misread, done>>
    BY <2>1 DEF plain
  <2>3. Mined' /\ Held \subseteq Held' /\ Had \subseteq Had'
    BY <1>1, <2>1, <2>2 DEF Mined, Held, Had, InHand
  <2> QED
    BY <1>1, <2>1, <2>2, <2>3, MiningKeeps
<1>4. CASE SkipRow
  <2>1. /\ kind \in Miners /\ NextRow \in seen /\ batch' = batch \ {NextRow}
        /\ UNCHANGED <<plain, served, waived, lost, buffer, exhausted, expanded, sourcePage, seen,
                       cloning>>
    BY <1>4, Zenon DEF SkipRow, Mining, Skipped
  <2>2. UNCHANGED <<kind, memo, n, got, now, misread, done>>
    BY <2>1 DEF plain
  <2>3. Mined' /\ Held \subseteq Held' /\ Had \subseteq Had'
    BY <1>1, <2>1, <2>2 DEF Mined, Held, Had, InHand
  <2> QED
    BY <1>1, <2>1, <2>2, <2>3, MiningKeeps
<1>5. CASE MineRow
  <2>1. /\ kind \in Miners /\ ~done /\ batch # {}
        /\ UNCHANGED <<plain, waived, buffer, exhausted, sourcePage, seen>>
        /\ \/ Widen(NextRow, Drawn(NextRow)) /\ UNCHANGED <<tree, cloning>>
           \/ (\E drawn \in 0..Drawn(NextRow) : Widen(NextRow, drawn)) /\ UNCHANGED <<tree, cloning>>
           \/ UNCHANGED <<batch, expanded, served, lost>>
    BY <1>5, Zenon DEF MineRow, Mining, Asking
  <2>2. UNCHANGED <<kind, memo, n, got, now, misread, done>>
    BY <2>1 DEF plain
  <2>3. NextRow \in batch /\ Drawn(NextRow) \in Nat
    BY <1>1, <2>1, NextRowIsHeld, DrawnIsANumber DEF Mined
  <2>4. CASE UNCHANGED <<batch, expanded, served, lost>>
    <3>1. Mined' /\ Held \subseteq Held' /\ Had \subseteq Had'
      BY <1>1, <2>1, <2>2, <2>4 DEF Mined, Held, Had, InHand
    <3> QED
      BY <1>1, <2>1, <2>2, <3>1, MiningKeeps
  <2>5. ASSUME NEW drawn \in Nat, Widen(NextRow, drawn), UNCHANGED <<tree, cloning>>
        PROVE  SourcesInv'
    BY <2>1, <2>3, <2>5, WideningKeeps
  <2>6. 0..Drawn(NextRow) \subseteq Nat
    BY <2>3
  <2> QED
    BY <2>1, <2>2, <2>3, <2>4, <2>5, <2>6
<1>6. CASE RaiseRow
  <2>1. /\ kind \in Miners /\ ~done /\ GiveUp /\ waived' = waived \union {NextRow}
        /\ lost' = lost \union (batch \ {NextRow}) \union PassedOver /\ batch' = {} /\ buffer' = buffer
    BY <1>6, Zenon DEF RaiseRow, Mining, Asking
  <2> QED
    BY <2>1, GivingUpKeeps
<1>7. CASE CloneDone
  <2>1. /\ cloning # NoRow /\ cloning' = NoRow
        /\ UNCHANGED <<plain, served, waived, lost, buffer, batch, exhausted, expanded, sourcePage,
                       seen>>
    BY <1>7, Zenon DEF CloneDone
  <2>2. UNCHANGED <<kind, memo, n, got, now, misread, done>>
    BY <2>1 DEF plain
  <2>3. kind \in Miners /\ Mined' /\ Held \subseteq Held' /\ Had \subseteq Had'
    BY <1>1, <2>1, <2>2 DEF Mined, Held, Had, InHand
  <2> QED
    BY <1>1, <2>1, <2>2, <2>3, MiningKeeps
<1>8. CASE CloneFails
  <2>1. /\ cloning # NoRow /\ cloning' = NoRow
        /\ batch' = batch \ {cloning} /\ waived' = waived \union {cloning}
        /\ UNCHANGED <<plain, served, lost, buffer, exhausted, expanded, sourcePage, seen>>
    BY <1>8, Zenon DEF CloneFails
  <2>2. UNCHANGED <<kind, memo, n, got, now, misread, done>>
    BY <2>1 DEF plain
  <2>3. kind \in Miners /\ Mined' /\ Held \subseteq Held' /\ Had \subseteq Had'
    BY <1>1, <2>1, <2>2 DEF Mined, Held, Had, InHand
  <2> QED
    BY <1>1, <2>1, <2>2, <2>3, MiningKeeps
<1>9. CASE ServeFunctions
  <2> DEFINE slot == Slot(expanded, n)
  <2>1. /\ kind \in Miners /\ ~done /\ batch = {} /\ (exhausted \/ Len(expanded) >= (n + 1) * Size)
        /\ UNCHANGED <<kind, memo, got, now, waived, misread, lost, buffer, batch, exhausted, expanded,
                       sourcePage, cloning>>
    BY <1>9, Zenon DEF ServeFunctions, Mining, Asking
  <2>2. \/ Pending(expanded, n) = {} /\ done' = TRUE /\ UNCHANGED <<n, served, seen>>
        \/ /\ served' = served \union slot /\ seen' = seen \union slot
           /\ n' = n + 1 /\ done' = done
    BY <1>9, Zenon DEF ServeFunctions
  <2>3. /\ Pending(expanded, n) \subseteq slot \union Pending(expanded, n + 1)
        /\ Len(expanded) >= (n + 1) * Size => Pending(expanded, n) # {}
    BY <1>1, PendingSays DEF Mined
  <2> HIDE DEF slot
  <2>4. CASE Pending(expanded, n) = {} /\ done' = TRUE /\ UNCHANGED <<n, served, seen>>
    <3>1. exhausted /\ buffer = {}
      BY <1>1, <2>1, <2>3, <2>4 DEF Mined
    <3>2. Held = Had /\ Within("github") \subseteq Held
      BY <1>1, <2>1, <2>4, <3>1 DEF Depleted, Held, InHand
    <3>3. /\ Inner(kind) = "github" /\ Inner(kind)' = "github" /\ "github" \in Partwise
          /\ kind' \notin Registries /\ kind' # "golang"
      BY <2>1, KindsAre
    <3>4. EmptyMeansExhausted'
      <4>1. Reachable(Inner(kind))' = Reachable("github") /\ (served \union waived \union lost)' = Had
        BY <2>1, <2>4, <3>3 DEF Had
      <4> QED
        BY <3>2, <3>3, <4>1, ReachableIsWithin DEF EmptyMeansExhausted
    <3>5. InSlices' /\ InTimes'
      BY <3>3 DEF InSlices, InTimes
    <3>6. InParts' /\ Depleted'
      <4>1. Number' = Number /\ Held' = Held
        BY <2>1, <2>4 DEF Number, Held, Had, InHand
      <4>2. /\ Recalls(memo, Number)' <=> Recalls(memo, Number)
            /\ Preceding(Inner(kind), Here(memo))' = Preceding(Inner(kind), Here(memo))
            /\ Within("github")' = Within("github")
        BY <2>1, <3>3, <4>1 DEF Recalls, Preceding, Here, Within
      <4> QED
        BY <2>1, <4>1, <4>2 DEF SourcesInv, InParts, Depleted
    <3>7. Mined' /\ kind' \in Kinds \union Miners /\ n' \in Nat /\ sourcePage' \in Nat
      BY <2>1, <2>4 DEF SourcesInv, Mined
    <3> QED
      BY <2>1, <3>4, <3>5, <3>6, <3>7 DEF SourcesInv
  <2>5. CASE /\ served' = served \union slot /\ seen' = seen \union slot
             /\ n' = n + 1 /\ done' = done
    <3>1. Held \subseteq Held' /\ Had \subseteq Had'
      BY <2>1, <2>3, <2>5 DEF Held, Had, InHand
    <3>2. Mined' /\ n' \in Nat
      BY <1>1, <2>1, <2>5 DEF Mined
    <3> QED
      BY <2>1, <2>5, <3>1, <3>2, MiningKeeps
  <2> QED
    BY <2>2, <2>4, <2>5
<1>10. CASE WalkAgain
  <2>1. /\ kind \in Miners /\ ~done /\ n' = 0 /\ lost' = lost \ Pending(expanded, 0)
        /\ UNCHANGED <<kind, memo, got, now, served, waived, misread, done, buffer, batch, exhausted,
                       expanded, sourcePage, seen, cloning>>
    BY <1>10, Zenon DEF WalkAgain, Mining, Asking
  <2>2. Pending(expanded, n) \subseteq Pending(expanded, 0)
    BY <1>1, PendingSays DEF Mined
  <2>3. Mined' /\ Held \subseteq Held' /\ n' \in Nat
    BY <1>1, <2>1, <2>2 DEF Mined, Held, Had, InHand
  <2> QED
    BY <2>1, <2>3, MiningKeeps
<1> QED
  BY <1>2, <1>3, <1>4, <1>5, <1>6, <1>7, <1>8, <1>9, <1>10

-----------------------------------------------------------------------------

\* A process that is started again stands at the start of whatever it does not compute.
LEMMA RestartingKeeps ==
    ASSUME SourcesInv, NEW saved \in BOOLEAN, Restart(saved)
    PROVE  SourcesInv' /\ BoughtOnce
<1>1. /\ kind \in Kinds \union Miners /\ n \in Nat /\ sourcePage \in Nat
      /\ Mined /\ InSlices /\ InTimes /\ InParts
  BY DEF SourcesInv
<1>2. /\ ~done /\ done' = done /\ memo' = Unwalked(Inner(kind))
      /\ (n' = n \/ n' = 0) /\ (sourcePage' = sourcePage \/ sourcePage' = 0)
      /\ (seen' = seen \/ seen' = {})
      /\ got' = {} /\ now' = {} /\ buffer' = {} /\ batch' = {} /\ exhausted' = FALSE
      /\ expanded' = << >> /\ cloning' = NoRow
      /\ UNCHANGED <<kind, served, waived, lost, misread>>
  BY DEF Restart
<1>3. kind' \in Kinds \union Miners /\ n' \in Nat /\ sourcePage' \in Nat
  BY <1>1, <1>2
<1>4. Mined' /\ Depleted'
  BY <1>1, <1>2, EmptySeq DEF Mined, Depleted
<1>5. EmptyMeansExhausted' /\ BoughtOnce /\ Had' = Had
  BY <1>2 DEF EmptyMeansExhausted, BoughtOnce, Had
<1>6. InSlices'
  <2>1. CASE kind \in Registries
    <3>1. Listed(1, Reached(kind, n')) \subseteq Listed(1, Reached(kind, n))
      BY <1>1, <1>2, TurnsAdd, NothingListedYet
    <3>2. kind = "opam" => memo' # "empty"
      BY <1>2, <2>1, KindsAre DEF Unwalked
    <3>3. /\ now' \subseteq Listed(1, Reached(kind, n'))
          /\ ~misread => /\ Listed(1, Reached(kind, n')) \cap Reachable(kind) \subseteq Had'
                         /\ kind = "opam" => memo' # "empty"
      BY <1>1, <1>2, <1>5, <2>1, <3>1, <3>2 DEF InSlices
    <3>4. Listed(1, Reached(kind, n))' = Listed(1, Reached(kind, n'))
          /\ Reachable(kind)' = Reachable(kind)
      BY <1>2
    <3> QED
      BY <1>2, <3>3, <3>4 DEF InSlices
  <2>2. CASE kind \notin Registries
    BY <1>2, <2>2 DEF InSlices
  <2> QED
    BY <2>1, <2>2
<1>7. InTimes'
  BY <1>2 DEF InTimes
<1>8. InParts'
  <2>1. CASE Inner(kind) \in Partwise
    <3>1. memo' = Start
      BY <1>2, <2>1 DEF Unwalked, Partwise
    <3>2. Number' \in Nat /\ Inner(kind)' = Inner(kind)
      BY <1>2, <1>3 DEF Number
    <3>3. Recalls(memo', Number') /\ \A k : Preceding(k, Here(memo')) = {}
      BY <3>1, <3>2, StartSays
    <3>4. /\ Recalls(memo, Number)' <=> Recalls(memo', Number')
          /\ Preceding(Inner(kind), Here(memo))' = Preceding(Inner(kind), Here(memo'))
      BY <3>2 DEF Recalls, Preceding, Here, Within
    <3> QED
      BY <1>2, <3>3, <3>4 DEF InParts
  <2>2. CASE Inner(kind) \notin Partwise
    BY <1>2, <2>2 DEF InParts
  <2> QED
    BY <2>1, <2>2
<1> QED
  BY <1>3, <1>4, <1>5, <1>6, <1>7, <1>8 DEF SourcesInv

\* A step that changes nothing.
LEMMA StandingStillKeeps ==
    ASSUME SourcesInv, UNCHANGED sourcesVars
    PROVE  SourcesInv'
<1>1. UNCHANGED <<kind, memo, n, got, now, misread, done, served, waived, lost, buffer, batch,
                  exhausted, expanded, sourcePage, seen, cloning>>
  BY DEF sourcesVars, plain, mine
<1>2. kind' \in Kinds \union Miners /\ n' \in Nat /\ sourcePage' \in Nat
  BY <1>1 DEF SourcesInv
<1>3. Mined' /\ Held' = Held
  BY <1>1 DEF SourcesInv, Mined, Held, Had, InHand
<1>4. InSlices'
  BY <1>1 DEF SourcesInv, InSlices, Had
<1>5. InTimes'
  BY <1>1 DEF SourcesInv, InTimes, Time
<1>6. InParts'
  <2>1. Number' = Number /\ Inner(kind)' = Inner(kind)
    BY <1>1 DEF Number
  <2>2. /\ Recalls(memo, Number)' <=> Recalls(memo, Number)
        /\ Preceding(Inner(kind), Here(memo))' = Preceding(Inner(kind), Here(memo))
    BY <1>1, <2>1 DEF Recalls, Preceding, Here, Within
  <2> QED
    BY <1>1, <1>3, <2>1, <2>2 DEF SourcesInv, InParts
<1>7. EmptyMeansExhausted' /\ Depleted'
  BY <1>1, <1>3 DEF SourcesInv, EmptyMeansExhausted, Depleted, Within
<1> QED
  BY <1>2, <1>3, <1>4, <1>5, <1>6, <1>7 DEF SourcesInv

\* Every step keeps what holds, and buys nothing twice.
LEMMA SourcesStep ==
    ASSUME SourcesInv, [SourcesNext]_sourcesVars
    PROVE  SourcesInv' /\ [BoughtOnce]_sourcesVars
<1>1. CASE UNCHANGED sourcesVars
  BY <1>1, StandingStillKeeps
<1>2. CASE \E body \in {"fit", "odd"} : ServePage(body)
  BY <1>2, ServingKeeps
<1>3. CASE FailPage
  BY <1>3, FailingKeeps
<1>4. CASE FetchRows
  BY <1>4, FetchingKeeps
<1>5. CASE \/ FailRows \/ TakeRows \/ SkipRow \/ MineRow \/ RaiseRow \/ CloneDone \/ CloneFails
           \/ ServeFunctions \/ WalkAgain
  BY <1>5, MinersKeep DEF BoughtOnce
<1>6. CASE \E saved \in BOOLEAN : Restart(saved)
  BY <1>6, RestartingKeeps
<1> QED
  BY <1>1, <1>2, <1>3, <1>4, <1>5, <1>6 DEF SourcesNext, Walk

-----------------------------------------------------------------------------
(* Types.                                                                  *)

\* The search is only asked for positions that it serves.
OnlyServed(was) == \A k \in DOMAIN was : was[k] \in Positions /\ Mark(was[k][2]) < Ceiling

\* A position that is recorded of the search is one that it serves.
LEMMA PagesStayServed ==
    ASSUME NEW num \in Nat, NEW was, Recalls(was, num), OnlyServed(was)
    PROVE  OnlyServed(GitHubPage(was, num).memo)
<1> DEFINE at == Here(was)
           land == Land("github", at)
           next == On("github", land)
<1>1. at \in Positions /\ PositionOf(was, num) = at /\ Mark(at[2]) < Ceiling
  BY TheFurthestIsKnown DEF OnlyServed, Here
<1>2. LandingSays("github", at, land)
  BY <1>1, LandingSkipsNothing DEF Partwise
<1>3. GitHubPage(was, num).memo = Recording(was, num, next)
  BY <1>1 DEF GitHubPage, Answer, On, Land, Found
<1>4. next \in Positions
  BY <1>1, <1>2, GoingOnLosesNothing DEF Partwise
<1>5. Mark(0) < Ceiling /\ Mark(0) = 0
  BY Offsets, PartsAreNumbered
<1> HIDE DEF land
<1>6. Mark(next[2]) < Ceiling
  <2>1. CASE next[2] = 0
    BY <1>5, <2>1
  <2>2. CASE next[2] # 0
    <3>1. land # End /\ next = After(land, Cardinality(Found("github", land[1], land[2])))
      BY <2>2 DEF On, End
    <3>2. next = <<land[1], land[2] + 1>> /\ ~(Mark(land[2] + 1) >= Ceiling)
      BY <2>2, <3>1 DEF After, Mark
    <3>3. land[2] \in Nat /\ Mark(land[2] + 1) \in Nat
      <4>1. land[2] \in Nat
        BY <1>2 DEF LandingSays, Positions
      <4> QED
        BY <4>1, Offsets
    <3>4. Mark(next[2]) = Mark(land[2] + 1)
      BY <3>2
    <3> QED
      BY <3>2, <3>3, <3>4, PartsAreNumbered
  <2> QED
    BY <2>1, <2>2
<1> HIDE DEF next
<1> QED
  BY <1>3, <1>4, <1>6 DEF OnlyServed, Recording

\* A page has rows of the index, and so has what is given up.
LEMMA PagesAreOfRows ==
    ASSUME SourcesInv, kind \notin Miners, NEW body \in {"fit", "odd"},
           NoRow \notin Page(kind, memo, n, body).rows
    PROVE  Page(kind, memo, n, body).rows \subseteq Row
<1>1. n \in Nat /\ kind \in Kinds \union Miners /\ InParts
  BY DEF SourcesInv
<1>2. CASE kind \in Registries
  <2>1. Page(kind, memo, n, body).rows \subseteq Slice(kind, n)
    BY <1>1, <1>2, RegistryPageSays
  <2> QED
    BY <2>1 DEF Slice, Listed
<1>3. CASE kind = "golang"
  BY <1>3 DEF Page, GoModulesPage, Answer, Since
<1>4. CASE kind = "quota"
  <2>1. Page(kind, memo, n, body) = QuotaChainPage(memo, n)
    BY <1>4 DEF Page
  <2>2. \A p, o : Window(p, o) \subseteq Row
    BY DEF Window
  <2>3. \/ QuotaChainPage(memo, n).rows = {}
        \/ \E p, o : QuotaChainPage(memo, n).rows = Window(p, o)
    BY DEF QuotaChainPage, Answer
  <2> QED
    BY <2>1, <2>2, <2>3
<1>5. CASE kind \in Partwise
  <2>1. Page(kind, memo, n, body) = PartPage(kind, memo, n)
    BY <1>5 DEF Page, PartPage, Partwise
  <2>2. Recalls(memo, n)
    BY <1>1, <1>5, KindsAre DEF InParts, Number
  <2>3. PageContinues(kind, memo, n, PartPage(kind, memo, n).rows, PartPage(kind, memo, n).memo)
    BY <1>1, <1>5, <2>2, PartPageSays
  <2> QED
    BY <2>1, <2>3 DEF PageContinues, Preceding, Within
<1> QED
  BY <1>1, <1>2, <1>3, <1>4, <1>5, KindsAre

\* What is given up is of the index.
LEMMA UnreadAreRows == \A k, num : Unread(k, num) \subseteq Row
BY DEF Unread, GoModulesPage, Answer, Since, Listed, Sliced

\* The parts of the type invariant.
RowsTyped == {got, now, served, waived, lost, buffer, batch, seen} \subseteq SUBSET Row
CountsTyped ==
    /\ n \in 0..MaxPages /\ sourcePage \in 0..MaxPages
    /\ faults \in 0..MaxFaults /\ starts \in 0..MaxStarts
    /\ done \in BOOLEAN /\ misread \in BOOLEAN /\ exhausted \in BOOLEAN
MineTyped ==
    /\ expanded \in Seq(Row)
    /\ tree \in [Row -> {"none", "part", "whole"}]
    /\ cloning \in Row \union {NoRow}
PlacesTyped == kind \in Walked /\ (Inner(kind) = "github" => OnlyServed(memo))

\* The type invariant, taken apart.
LEMMA TypesApart ==
    SourcesInv => (SourcesTypeOK <=> RowsTyped /\ CountsTyped /\ MineTyped /\ PlacesTyped)
<1> SUFFICES ASSUME SourcesInv
             PROVE  SourcesTypeOK <=> RowsTyped /\ CountsTyped /\ MineTyped /\ PlacesTyped
  OBVIOUS
<1>1. Inner(kind) = "github" => \A k \in DOMAIN memo : memo[k] \in Positions
  BY DEF SourcesInv, InParts, Recalls, Partwise
<1>2. ASSUME NEW at \in Positions PROVE at[1] \in 1..(Len(Parts) + 1)
  BY PositionsAre
<1>3. Inner(kind) = "github" =>
        (OnlyServed(memo) <=> \A k \in DOMAIN memo : /\ memo[k][1] \in 1..(Len(Parts) + 1)
                                                     /\ memo[k][2] * Size < Ceiling)
  BY <1>1, <1>2 DEF OnlyServed, Mark
<1> QED
  BY <1>3 DEF SourcesTypeOK, RowsTyped, CountsTyped, MineTyped, PlacesTyped

\* The bounds are numbers.
LEMMA BoundsAre == {MaxPages, MaxFaults, MaxStarts} \subseteq Nat
BY SourcesAssumption

\* The first position is served.
LEMMA StartIsServed == OnlyServed(Start)
<1>1. DOMAIN Start = {0} /\ Start[0] = <<1, 0>> /\ <<1, 0>> \in Positions
  BY PartsAreNumbered DEF Start, Positions
<1>2. Mark(0) < Ceiling
  BY Offsets, PartsAreNumbered
<1> QED
  BY <1>1, <1>2 DEF OnlyServed

\* A fault is counted.
LEMMA FaultsAreBounded == faults \in 0..MaxFaults /\ Fault => faults' \in 0..MaxFaults
BY BoundsAre DEF Fault

\* The types at the start.
LEMMA InitIsTyped == SourcesInit => RowsTyped /\ CountsTyped /\ MineTyped /\ PlacesTyped
<1> SUFFICES ASSUME SourcesInit
             PROVE  RowsTyped /\ CountsTyped /\ MineTyped /\ PlacesTyped
  OBVIOUS
<1>1. RowsTyped
  BY DEF SourcesInit, RowsTyped
<1>2. CountsTyped
  <2>1. 0 \in 0..MaxPages /\ 0 \in 0..MaxFaults /\ 0 \in 0..MaxStarts
    BY BoundsAre
  <2>2. /\ n = 0 /\ sourcePage = 0 /\ faults = 0 /\ starts = 0
        /\ done \in BOOLEAN /\ misread \in BOOLEAN /\ exhausted \in BOOLEAN
    BY Zenon DEF SourcesInit
  <2> QED
    BY <2>1, <2>2, Zenon DEF CountsTyped
<1>3. MineTyped
  BY EmptySeq DEF SourcesInit, MineTyped
<1>4. PlacesTyped
  <2>1. Inner(kind) = "github" => memo = Start
    BY DEF SourcesInit, Unwalked
  <2> QED
    BY <2>1, StartIsServed DEF SourcesInit, PlacesTyped
<1> QED
  BY <1>1, <1>2, <1>3, <1>4

\* The types after a step of the walk.
LEMMA WalkStaysTyped ==
    ASSUME SourcesInv, RowsTyped, CountsTyped, MineTyped, PlacesTyped, Walk
    PROVE  RowsTyped' /\ CountsTyped' /\ MineTyped' /\ PlacesTyped'
<1>1. n \in Nat /\ sourcePage \in Nat /\ kind \in Kinds \union Miners /\ InParts /\ Mined
  BY DEF SourcesInv
<1>2. ASSUME NEW body \in {"fit", "odd"}, ServePage(body)
      PROVE  RowsTyped' /\ CountsTyped' /\ MineTyped' /\ PlacesTyped'
  <2> DEFINE answer == Page(kind, memo, n, body)
  <2>1. /\ kind \notin Miners /\ n < MaxPages /\ NoRow \notin answer.rows
        /\ memo' = answer.memo /\ misread' = (misread \/ body = "odd")
        /\ done' = (answer.rows = {}) /\ n' = n + 1
        /\ kind' = kind /\ starts' = starts /\ UNCHANGED mine
    BY <1>2, Zenon DEF ServePage, Asking
  <2>2. answer.rows \subseteq Row
    BY <1>2, <2>1, PagesAreOfRows
  <2>3. got' \subseteq answer.rows /\ now' = now \union got'
    BY <1>1, <1>2, PageIsServed
  <2>4. served' \subseteq Row /\ waived' \subseteq Row /\ (faults' = faults \/ Fault)
    <3>1. PICK kept \in (IF answer.rows = {} THEN {{}} ELSE Kept(answer.rows)) :
             /\ faults' = faults \/ Fault
             /\ served' = served \union kept
             /\ waived' = waived \union (answer.rows \ kept)
                   \union (IF kind = "rubygems" /\ answer.rows # {}
                           THEN Unread(kind, n) \ answer.rows ELSE {})
      BY <1>2, Zenon DEF ServePage
    <3> HIDE DEF answer
    <3>2. kept \subseteq answer.rows
      BY <3>1 DEF Kept
    <3> QED
      BY <2>2, <3>1, <3>2, UnreadAreRows DEF RowsTyped
  <2>5. kind = "github" => OnlyServed(memo')
    <3>1. ASSUME kind = "github" PROVE OnlyServed(memo')
      <4>1. Recalls(memo, n) /\ OnlyServed(memo)
        BY <1>1, <2>1, <3>1 DEF InParts, Number, Partwise, Inner, PlacesTyped, Miners
      <4>2. answer = GitHubPage(memo, n)
        BY <3>1 DEF Page
      <4> QED
        BY <1>1, <2>1, <4>1, <4>2, PagesStayServed
    <3> QED
      BY <3>1
  <2> HIDE DEF answer
  <2>6. RowsTyped'
    BY <2>1, <2>2, <2>3, <2>4 DEF RowsTyped, mine
  <2>7. CountsTyped'
    <3>1. (done' \in BOOLEAN) /\ (misread' \in BOOLEAN)
      BY <2>1
    <3>2. n' \in 0..MaxPages /\ faults' \in 0..MaxFaults
      BY <1>1, <2>1, <2>4, BoundsAre, FaultsAreBounded DEF CountsTyped
    <3> QED
      BY <2>1, <3>1, <3>2 DEF CountsTyped, mine
  <2>8. MineTyped' /\ PlacesTyped'
    BY <2>1, <2>5 DEF MineTyped, PlacesTyped, mine, Inner
  <2> QED
    BY <2>6, <2>7, <2>8
<1>3. CASE FailPage
  <2>1. /\ kind \notin Miners /\ n < MaxPages /\ (faults' = faults \/ Fault)
        /\ waived' = waived \union Unread(kind, n)
        /\ memo' \in AfterFailure(kind, memo, n) /\ n' = n + 1 /\ got' = {}
        /\ UNCHANGED <<kind, now, served, misread, starts, done, mine>>
    BY <1>3, Zenon DEF FailPage, Asking
  <2>2. RowsTyped'
    BY <2>1, UnreadAreRows DEF RowsTyped, mine
  <2>3. CountsTyped'
    BY <1>1, <2>1, BoundsAre, FaultsAreBounded DEF CountsTyped, mine
  <2>4. MineTyped' /\ PlacesTyped'
    <3>1. Inner(kind) = "github" => memo' = memo
      BY <2>1 DEF AfterFailure, Inner
    <3> QED
      BY <2>1, <3>1 DEF MineTyped, PlacesTyped, mine, Inner
  <2> QED
    BY <2>2, <2>3, <2>4
<1>4. CASE FetchRows
  <2> DEFINE answer == Page("github", memo, sourcePage, "fit")
  <2>1. /\ kind \in Miners /\ sourcePage < MaxPages
        /\ buffer' = answer.rows /\ memo' = answer.memo /\ sourcePage' = sourcePage + 1
        /\ now' = now \union answer.rows /\ got' = answer.rows /\ exhausted' = (answer.rows = {})
        /\ UNCHANGED <<kind, n, done, served, waived, lost, misread, faults, starts, batch, seen,
                       expanded, tree, cloning>>
    BY <1>4, Zenon DEF FetchRows, Dry, Wanting, Mining
  <2>2. Recalls(memo, sourcePage) /\ OnlyServed(memo)
    BY <1>1, <2>1, KindsAre DEF InParts, Number, PlacesTyped
  <2>3. answer = GitHubPage(memo, sourcePage) /\ answer = PartPage("github", memo, sourcePage)
    BY DEF Page, PartPage
  <2>4. OnlyServed(answer.memo)
    BY <1>1, <2>2, <2>3, PagesStayServed
  <2>5. answer.rows \subseteq Row
    <3>1. PageContinues("github", memo, sourcePage, answer.rows, answer.memo)
      BY <1>1, <2>2, <2>3, PartPageSays DEF Partwise
    <3> QED
      BY <3>1 DEF PageContinues, Preceding, Within
  <2> HIDE DEF answer
  <2>6. RowsTyped'
    BY <2>1, <2>5 DEF RowsTyped
  <2>7. CountsTyped'
    BY <1>1, <2>1, BoundsAre DEF CountsTyped
  <2>8. MineTyped' /\ PlacesTyped'
    BY <2>1, <2>4 DEF MineTyped, PlacesTyped, Inner
  <2> QED
    BY <2>6, <2>7, <2>8
<1>5. ASSUME GiveUp, n < MaxPages, waived' \subseteq waived \union batch,
             lost' \subseteq lost \union batch \union Pending(expanded, n), buffer' = buffer, batch' \subseteq batch
      PROVE  RowsTyped' /\ CountsTyped' /\ MineTyped' /\ PlacesTyped'
  <2>1. /\ Fault /\ n' = n + 1
        /\ UNCHANGED <<kind, memo, got, now, misread, done, starts, served, exhausted, expanded,
                       sourcePage, seen, tree, cloning>>
    BY <1>5 DEF GiveUp
  <2>2. Pending(expanded, n) \subseteq Row
    BY <1>1, PendingSays DEF Mined
  <2>3. RowsTyped'
    BY <1>1, <1>5, <2>1, <2>2 DEF RowsTyped, Mined
  <2>4. MineTyped' /\ PlacesTyped'
    BY <2>1 DEF MineTyped, PlacesTyped, Inner, OnlyServed
  <2>5. CountsTyped'
    BY <1>1, <1>5, <2>1, BoundsAre, FaultsAreBounded DEF CountsTyped
  <2> QED
    BY <2>3, <2>4, <2>5
<1>6. CASE FailRows
  <2>1. /\ n < MaxPages /\ GiveUp /\ lost' = lost \union PassedOver
        /\ UNCHANGED <<waived, buffer, batch>>
    BY <1>6, Zenon DEF FailRows, Dry, Wanting, Mining, Asking
  <2> QED
    BY <1>5, <2>1 DEF PassedOver
<1>7. CASE RaiseRow
  <2>1. /\ n < MaxPages /\ GiveUp /\ waived' = waived \union {NextRow} /\ batch # {}
        /\ lost' = lost \union (batch \ {NextRow}) \union PassedOver /\ batch' = {} /\ buffer' = buffer
    BY <1>7, Zenon DEF RaiseRow, Mining, Asking
  <2>2. NextRow \in batch
    BY <1>1, <2>1, NextRowIsHeld DEF Mined
  <2> QED
    BY <1>5, <2>1, <2>2 DEF PassedOver
<1>8. CASE TakeRows
  <2>1. /\ batch' \subseteq buffer /\ buffer' = buffer \ batch'
        /\ UNCHANGED <<plain, served, waived, faults, starts, lost, exhausted, expanded, sourcePage,
                       seen, tree, cloning>>
    BY <1>8 DEF TakeRows
  <2> QED
    BY <2>1 DEF plain, RowsTyped, CountsTyped, MineTyped, PlacesTyped, Inner, OnlyServed
<1>9. CASE SkipRow
  <2>1. /\ batch' = batch \ {NextRow}
        /\ UNCHANGED <<plain, served, waived, faults, starts, lost, buffer, exhausted, expanded,
                       sourcePage, seen, tree, cloning>>
    BY <1>9, Zenon DEF SkipRow
  <2> QED
    BY <2>1 DEF plain, RowsTyped, CountsTyped, MineTyped, PlacesTyped, Inner, OnlyServed
<1>10. CASE MineRow
  <2> DEFINE r == NextRow
  <2>1. /\ batch # {} /\ UNCHANGED <<plain, waived, faults, starts, buffer, exhausted, sourcePage, seen>>
        /\ \/ Widen(r, Drawn(r)) /\ UNCHANGED <<tree, cloning>>
           \/ (\E drawn \in 0..Drawn(r) : Widen(r, drawn)) /\ UNCHANGED <<tree, cloning>>
           \/ /\ tree' = [tree EXCEPT ![r] = "part"] /\ cloning' = r
              /\ UNCHANGED <<batch, expanded, served, lost>>
    BY <1>10, Zenon DEF MineRow
  <2>2. r \in Row /\ Drawn(r) \in Nat /\ 0..Drawn(r) \subseteq Nat
    BY <1>1, <2>1, NextRowIsHeld, DrawnIsANumber DEF Mined
  <2>3. CountsTyped' /\ PlacesTyped'
    BY <2>1 DEF plain, CountsTyped, PlacesTyped, Inner, OnlyServed
  <2> HIDE DEF r
  <2>4. ASSUME NEW drawn \in Nat, Widen(r, drawn), UNCHANGED <<tree, cloning>>
        PROVE  RowsTyped' /\ MineTyped'
    <3>1. /\ batch' = batch \ {r} /\ served' \subseteq served \union {r} /\ lost' \subseteq lost \union {r}
          /\ expanded' = expanded \o [k \in 1..drawn |-> r]
      BY <2>4 DEF Widen
    <3>2. [k \in 1..drawn |-> r] \in Seq(Row)
      BY <2>2
    <3>3. expanded' \in Seq(Row)
      BY <3>1, <3>2, ConcatProperties DEF MineTyped
    <3> QED
      BY <2>1, <2>2, <2>4, <3>1, <3>3 DEF plain, RowsTyped, MineTyped
  <2>5. CASE /\ tree' = [tree EXCEPT ![r] = "part"] /\ cloning' = r
             /\ UNCHANGED <<batch, expanded, served, lost>>
    <3>1. UNCHANGED <<got, now, waived, buffer, seen, batch, expanded, served, lost>>
      BY <2>1, <2>5 DEF plain
    <3>2. MineTyped'
      BY <2>2, <2>5, <3>1 DEF MineTyped
    <3> QED
      BY <2>3, <3>1, <3>2 DEF RowsTyped
  <2>6. RowsTyped' /\ MineTyped'
    <3>1. CASE Widen(r, Drawn(r)) /\ UNCHANGED <<tree, cloning>>
      BY <2>2, <2>4, <3>1
    <3>2. ASSUME NEW drawn \in 0..Drawn(r), Widen(r, drawn), UNCHANGED <<tree, cloning>>
          PROVE  RowsTyped' /\ MineTyped'
      BY <2>2, <2>4, <3>2
    <3>3. CASE /\ tree' = [tree EXCEPT ![r] = "part"] /\ cloning' = r
               /\ UNCHANGED <<batch, expanded, served, lost>>
      BY <2>5, <3>3
    <3> QED
      BY <2>1, <3>1, <3>2, <3>3
  <2> QED
    BY <2>3, <2>6
<1>11. CASE CloneDone
  <2>1. /\ tree' = [tree EXCEPT ![cloning] = "whole"] /\ cloning' = NoRow
        /\ UNCHANGED <<plain, served, waived, faults, starts, lost, buffer, batch, exhausted, expanded,
                       sourcePage, seen>>
    BY <1>11, Zenon DEF CloneDone
  <2>2. RowsTyped' /\ CountsTyped' /\ PlacesTyped'
    BY <2>1 DEF plain, RowsTyped, CountsTyped, PlacesTyped, Inner, OnlyServed
  <2>3. MineTyped'
    BY <2>1 DEF MineTyped
  <2> QED
    BY <2>2, <2>3
<1>12. CASE CloneFails
  <2>1. /\ cloning # NoRow /\ Fault /\ tree' = [tree EXCEPT ![cloning] = "none"]
        /\ cloning' = NoRow
        /\ batch' = batch \ {cloning} /\ waived' = waived \union {cloning}
        /\ UNCHANGED <<plain, served, starts, lost, buffer, exhausted, expanded, sourcePage, seen>>
    BY <1>12, Zenon DEF CloneFails
  <2>2. RowsTyped'
    <3>1. cloning \in Row
      BY <2>1 DEF MineTyped
    <3> QED
      BY <2>1, <3>1 DEF RowsTyped, plain
  <2>3. CountsTyped'
    BY <2>1, FaultsAreBounded DEF CountsTyped, plain
  <2>4. MineTyped' /\ PlacesTyped'
    BY <2>1 DEF MineTyped, PlacesTyped, plain, Inner, OnlyServed
  <2> QED
    BY <2>2, <2>3, <2>4
<1>13. CASE ServeFunctions
  <2>1. /\ n < MaxPages
        /\ \/ done' = TRUE /\ UNCHANGED <<n, served, seen>>
           \/ /\ served' = served \union Slot(expanded, n) /\ seen' = seen \union Slot(expanded, n)
              /\ n' = n + 1 /\ done' = done
        /\ UNCHANGED <<kind, memo, got, now, waived, misread, faults, starts, lost, buffer, batch,
                       exhausted, expanded, sourcePage, tree, cloning>>
    BY <1>13, Zenon DEF ServeFunctions, Mining, Asking
  <2>2. Slot(expanded, n) \subseteq Row
    BY <1>1, PendingSays DEF Mined
  <2>3. RowsTyped'
    BY <2>1, <2>2 DEF RowsTyped
  <2>4. CountsTyped'
    <3>1. n' \in 0..MaxPages
      BY <1>1, <2>1, BoundsAre DEF CountsTyped
    <3>2. done' \in BOOLEAN
      BY <2>1, Zenon DEF CountsTyped
    <3> QED
      BY <2>1, <3>1, <3>2 DEF CountsTyped
  <2>5. MineTyped' /\ PlacesTyped'
    BY <2>1 DEF MineTyped, PlacesTyped, Inner, OnlyServed
  <2> QED
    BY <2>3, <2>4, <2>5
<1> QED
  BY <1>2, <1>3, <1>4, <1>6, <1>7, <1>8, <1>9, <1>10, <1>11, <1>12, <1>13 DEF Walk

\* The types after the walk is begun again.
LEMMA WalkAgainStaysTyped ==
    ASSUME RowsTyped, CountsTyped, MineTyped, PlacesTyped, WalkAgain
    PROVE  RowsTyped' /\ CountsTyped' /\ MineTyped' /\ PlacesTyped'
<1>1. /\ starts < MaxStarts /\ starts' = starts + 1 /\ n' = 0 /\ lost' \subseteq lost
      /\ UNCHANGED <<kind, memo, got, now, served, waived, misread, faults, done, buffer, batch,
                     exhausted, expanded, sourcePage, seen, tree, cloning>>
  BY DEF WalkAgain
<1>2. RowsTyped' /\ MineTyped' /\ PlacesTyped'
  BY <1>1 DEF RowsTyped, MineTyped, PlacesTyped, Inner, OnlyServed
<1>3. CountsTyped'
  BY <1>1, BoundsAre DEF CountsTyped
<1> QED
  BY <1>2, <1>3

\* The types after a restart.
LEMMA RestartStaysTyped ==
    ASSUME RowsTyped, CountsTyped, MineTyped, PlacesTyped, NEW saved \in BOOLEAN, Restart(saved)
    PROVE  RowsTyped' /\ CountsTyped' /\ MineTyped' /\ PlacesTyped'
<1>1. /\ starts < MaxStarts /\ starts' = starts + 1 /\ memo' = Unwalked(Inner(kind))
      /\ (n' = n \/ n' = 0) /\ (sourcePage' = sourcePage \/ sourcePage' = 0)
      /\ (seen' = seen \/ seen' = {})
      /\ got' = {} /\ now' = {} /\ buffer' = {} /\ batch' = {} /\ exhausted' = FALSE
      /\ expanded' = << >> /\ cloning' = NoRow
      /\ tree' \in {tree} \union {[tree EXCEPT ![r] = "none"] : r \in {cloning} \ {NoRow}}
      /\ UNCHANGED <<kind, served, waived, lost, misread, faults, done>>
  BY DEF Restart
<1>2. RowsTyped'
  BY <1>1 DEF RowsTyped
<1>3. CountsTyped'
  <2>1. n' \in 0..MaxPages /\ sourcePage' \in 0..MaxPages /\ starts' \in 0..MaxStarts
    BY <1>1, BoundsAre DEF CountsTyped
  <2>2. done' \in BOOLEAN /\ misread' \in BOOLEAN /\ exhausted' \in BOOLEAN /\ faults' \in 0..MaxFaults
    BY <1>1, Zenon DEF CountsTyped
  <2> QED
    BY <2>1, <2>2, Zenon DEF CountsTyped
<1>4. MineTyped'
  BY <1>1, EmptySeq DEF MineTyped
<1>5. PlacesTyped'
  <2>1. Inner(kind) = "github" => memo' = Start
    BY <1>1 DEF Unwalked
  <2> QED
    BY <1>1, <2>1, StartIsServed DEF PlacesTyped, Inner
<1> QED
  BY <1>2, <1>3, <1>4, <1>5

\* The types after any step.
LEMMA StepIsTyped ==
    ASSUME SourcesInv, SourcesTypeOK, [SourcesNext]_sourcesVars
    PROVE  SourcesTypeOK'
<1>1. RowsTyped /\ CountsTyped /\ MineTyped /\ PlacesTyped
  BY TypesApart
<1>2. CASE Walk
  <2>1. RowsTyped' /\ CountsTyped' /\ MineTyped' /\ PlacesTyped'
    BY <1>1, <1>2, WalkStaysTyped
  <2> QED
    BY <2>1, SourcesStep, TypesApart, PTL
<1>3. CASE \E saved \in BOOLEAN : Restart(saved)
  <2>1. RowsTyped' /\ CountsTyped' /\ MineTyped' /\ PlacesTyped'
    BY <1>1, <1>3, RestartStaysTyped
  <2> QED
    BY <2>1, SourcesStep, TypesApart, PTL
<1>4. CASE WalkAgain
  <2>1. RowsTyped' /\ CountsTyped' /\ MineTyped' /\ PlacesTyped'
    BY <1>1, <1>4, WalkAgainStaysTyped
  <2> QED
    BY <2>1, SourcesStep, TypesApart, PTL
<1>5. CASE UNCHANGED sourcesVars
  BY <1>5 DEF sourcesVars, plain, mine, SourcesTypeOK, Inner
<1> QED
  BY <1>2, <1>3, <1>4, <1>5 DEF SourcesNext

-----------------------------------------------------------------------------
(* The theorems.                                                           *)

\* Every variable of a walk over an index stays within its type, and the search of GitHub is
\* never asked for a position past what it serves.
THEOREM SourcesAreTyped == SourcesSpec => []SourcesTypeOK
<1>1. SourcesInit => SourcesInv /\ SourcesTypeOK
  BY TheWalkStartsInOrder, InitIsTyped, TypesApart
<1>2. SourcesInv /\ SourcesTypeOK /\ [SourcesNext]_sourcesVars => (SourcesInv /\ SourcesTypeOK)'
  BY SourcesStep, StepIsTyped
<1> QED
  BY <1>1, <1>2, PTL DEF SourcesSpec

\* An index that answers with an empty page has nothing left: whatever failed, was cut off or was
\* forgotten on the way, every row that can be reached has been served or given up, or was lost
\* by a miner that had it in hand.
THEOREM EmptyAlwaysMeansExhausted == SourcesSpec => []EmptyMeansExhausted
<1>1. SourcesInit => SourcesInv
  BY TheWalkStartsInOrder
<1>2. SourcesInv /\ [SourcesNext]_sourcesVars => SourcesInv'
  BY SourcesStep
<1>3. SourcesInv => EmptyMeansExhausted
  BY DEF SourcesInv
<1> QED
  BY <1>1, <1>2, <1>3, PTL DEF SourcesSpec

\* No request of an instance buys what an earlier one bought, apart from the rows of one time
\* in the Go module index, and from the quota chain.
THEOREM NothingIsEverBoughtTwice == SourcesSpec => NothingIsBoughtTwice
<1>1. SourcesInit => SourcesInv
  BY TheWalkStartsInOrder
<1>2. SourcesInv /\ [SourcesNext]_sourcesVars => SourcesInv' /\ [BoughtOnce]_sourcesVars
  BY SourcesStep
<1>3. NothingIsBoughtTwice <=> [][BoughtOnce]_sourcesVars
  BY DEF NothingIsBoughtTwice, BoughtOnce
<1> QED
  BY <1>1, <1>2, <1>3, PTL DEF SourcesSpec

=============================================================================
