------------------------------- MODULE Indexes -------------------------------
(***************************************************************************)
(* src/frf/source: the enumerable indexes.  Each answers page(n): rows, or *)
(* an empty page, which the walk over it takes to mean that everything has *)
(* been served, or an exception, which it does not.  The caller asks for   *)
(* the numbers in order, goes on to the next number when one has failed,   *)
(* and keeps its number when the process is started again, while the index *)
(* instance starts from nothing.                                           *)
(***************************************************************************)
EXTENDS Integers, Sequences, FiniteSets

CONSTANTS Parts,      \* rows of each star segment (GitHub) or link (chains), in walking order
          Stamps,     \* publication times of the same rows, in order (the Go module index)
          Size,       \* rows asked of one page
          Ceiling,    \* the rows of one search that can be paged to (RESULT_CEILING)
          MaxPage,    \* the last page crates.io serves (MAX_PAGE)
          NativePage, \* rows of a RubyGems page, whatever size is asked
          Quota       \* pages of a link per turn of a quota chain

Segments == DOMAIN Parts
NoRow == <<0, 0>>
Row == {<<p, i>> : p \in Segments, i \in 1..Ceiling + 1} \cap
       UNION {{<<p, i>> : i \in 1..Parts[p]} : p \in Segments}

\* The same rows as one list, for the indexes that have no parts.
Before(r, s) == r[1] < s[1] \/ (r[1] = s[1] /\ r[2] < s[2])
Rank(r) == Cardinality({s \in Row : Before(s, r)}) + 1
Listed(from, to) == {r \in Row : Rank(r) \in from..to}

ASSUME IndexAssumption ==
    /\ Parts \in Seq(Nat) /\ Len(Parts) > 0
    /\ \A p \in Segments : Parts[p] <= Ceiling + 1
    /\ {Size, Ceiling, MaxPage, NativePage, Quota} \subseteq Nat \ {0}
    /\ Stamps \in Seq(Nat) /\ Len(Stamps) = Cardinality(Row)
    /\ \A k \in 2..Len(Stamps) : Stamps[k - 1] <= Stamps[k]

Least(S) == CHOOSE x \in S : \A y \in S : x <= y
Most(S) == CHOOSE x \in S : \A y \in S : x >= y

\* The Go module index is only walked past a time that fewer rows share than a page has.
ASSUME TimesAssumption ==
    \A t \in {Stamps[k] : k \in DOMAIN Stamps} :
        Cardinality({k \in DOMAIN Stamps : Stamps[k] = t}) < Size

\* What an instance answers and what it remembers afterwards.
Answer(rows, memo) == [rows |-> rows, memo |-> memo]

(***************************************************************************)
(* Where a recorded page begins: <<part, offset>>.                         *)
(***************************************************************************)
Start == [n \in {0} |-> <<1, 0>>]
End == <<Len(Parts) + 1, 0>>

\* Mutant of PositionOf: the segment is computed from the page number.
PositionByDivision(memo, n) ==
    LET perPart == (Ceiling + Size - 1) \div Size
    IN  IF n \div perPart + 1 > Len(Parts) THEN End ELSE <<n \div perPart + 1, n % perPart>>

\* A number nobody has walked to is the furthest position known, an earlier one the start.
PositionOf(memo, n) ==
    LET furthest == Most(DOMAIN memo)
    IN  CASE n \in DOMAIN memo -> memo[n]
          [] n > furthest -> memo[furthest]
          [] OTHER -> <<1, 0>>

Window(p, o) == {r \in Row : r[1] = p /\ r[2] \in (o * Size + 1)..((o + 1) * Size)}

\* GitHub serves no result past the ceiling.
Searched(p, o) == {r \in Window(p, o) : r[2] <= Ceiling}

\* The position itself if it has rows, else the start of the next part that has any.
Landing(Rows(_, _), at) ==
    LET later == {p \in Segments : p > at[1] /\ Rows(p, 0) # {}}
    IN  IF at[1] \in Segments /\ Rows(at[1], at[2]) # {} THEN at
        ELSE IF later # {} THEN <<Least(later), 0>> ELSE End

\* Mutant of After: a segment ends with a short page only.
AfterShortPage(at, got) ==
    IF got < Size THEN <<at[1] + 1, 0>> ELSE <<at[1], at[2] + 1>>

\* A short page, or one that reaches the ceiling, ends its segment.
After(at, got) ==
    IF got < Size \/ (at[2] + 1) * Size >= Ceiling
    THEN <<at[1] + 1, 0>> ELSE <<at[1], at[2] + 1>>

\* What is remembered of a walk is where each of its pages begins.
Recording(memo, n, next) ==
    [k \in DOMAIN memo \union {n + 1} |-> IF k = n + 1 THEN next ELSE memo[k]]

GitHubPage(memo, n) ==
    LET at == Landing(Searched, PositionOf(memo, n))
        rows == IF at = End THEN {} ELSE Searched(at[1], at[2])
        next == IF at = End THEN End ELSE After(at, Cardinality(rows))
    IN  Answer(rows, Recording(memo, n, next))

ChainPage(memo, n) ==
    LET at == Landing(Window, PositionOf(memo, n))
        rows == IF at = End THEN {} ELSE Window(at[1], at[2])
        next == IF at = End THEN End ELSE <<at[1], at[2] + 1>>
    IN  Answer(rows, Recording(memo, n, next))

\* A spent link is retired and its number passed on to the next, Len(Parts) + 1 times at most.
QuotaChainPage(retired, n) ==
    LET Slot(k) == ((k \div Quota) % Len(Parts)) + 1
        Page(k) == Window(Slot(k), k \div (Quota * Len(Parts)))
        tried == n..(n + Len(Parts))
        \* the links found spent by number k of this call
        Spent(k) == retired \union {Slot(j) : j \in {i \in n..(k - 1) :
                        Slot(i) \notin retired /\ Page(i) = {}}}
        serving == {k \in tried : Slot(k) \notin Spent(k) /\ Page(k) # {}}
    IN  IF serving = {} THEN Answer({}, Spent(n + Len(Parts) + 1))
        ELSE LET k == Least(serving) IN Answer(Page(k), Spent(k))

(***************************************************************************)
(* The registries.  body is what the wire brought: "fit" the shape that is *)
(* documented, "odd" a success that has another.                           *)
(***************************************************************************)
Sliced(n) == Listed(n * Size + 1, (n + 1) * Size)

\* A snapshot of the name list is taken at the first call; a page is a slice of it.
PyPIPage(names, n) == Answer(Sliced(n), "taken")

\* Lines are names, whatever they say; a page of which no name resolves raises.
HackagePage(names, n) == Answer(IF names = "garbage" THEN {NoRow} ELSE Sliced(n), "taken")

\* A tree that is not a list becomes an empty snapshot, kept for the life of the instance.
OpamPage(names, n, body) ==
    LET now == IF names # "none" THEN names ELSE IF body = "odd" THEN "empty" ELSE "taken"
    IN  Answer(IF now = "empty" THEN {} ELSE Sliced(n), now)

\* Served by offset or by number.
NpmPage(n) == Answer(Sliced(n), "none")

MavenPage(n) == Answer(Sliced(n), "none")

\* Past the last page the endpoint serves, an empty page without asking.
CratesPage(n) == Answer(IF n + 1 > MaxPage THEN {} ELSE Sliced(n), "none")

\* An unreadable payload is an empty page.
HexPage(n, body) == Answer(IF body = "odd" THEN {} ELSE Sliced(n), "none")

\* The endpoint's page has NativePage rows, whatever size is asked; the rest is cut off.
RubyGemsPage(n) ==
    LET cut == IF Size < NativePage THEN Size ELSE NativePage
    IN  Answer(Listed(n * NativePage + 1, n * NativePage + cut), "none")

(***************************************************************************)
(* The Go module index: a cursor is a time, and its window is inclusive.   *)
(***************************************************************************)
Times == {Stamps[k] : k \in DOMAIN Stamps}

Since(t) ==
    LET from == {r \in Row : Stamps[Rank(r)] >= t}
    IN  {r \in from : Cardinality({s \in from : Before(s, r)}) < Size}

\* Mutant of LastStamp: the cursor is the time of the first row of the page.
FirstStamp == [t \in Times |-> Least({Stamps[Rank(r)] : r \in Since(t)})]

LastStamp == [t \in Times |-> Most({Stamps[Rank(r)] : r \in Since(t)})]

\* Page k + 1 starts at the last time of page k.  What has been learned by walking is kept, and
\* is what walking again would learn.
Cursor[k \in Nat] == IF k = 0 THEN Stamps[1] ELSE LastStamp[Cursor[k - 1]]

GoModulesPage(n) == Answer(Since(Cursor[n]), "none")

-----------------------------------------------------------------------------

Registries == {"pypi", "hackage", "opam", "npm", "maven", "crates", "hex", "rubygems"}
Kinds == Registries \union {"github", "chain", "quota", "golang"}

Unwalked(kind) ==
    CASE kind \in {"github", "chain"} -> Start
      [] kind = "quota" -> {}
      [] OTHER -> "none"

\* Most clients insist on the envelope: another shape is an exception, not a page.
Insists(kind) == kind \notin {"opam", "hex"}

Page(kind, memo, n, body) ==
    CASE kind = "github" -> GitHubPage(memo, n)
      [] kind = "chain" -> ChainPage(memo, n)
      [] kind = "quota" -> QuotaChainPage(memo, n)
      [] kind = "golang" -> GoModulesPage(n)
      [] kind = "pypi" -> PyPIPage(memo, n)
      [] kind = "hackage" -> HackagePage(memo, n)
      [] kind = "opam" -> OpamPage(memo, n, body)
      [] kind = "npm" -> NpmPage(n)
      [] kind = "maven" -> MavenPage(n)
      [] kind = "crates" -> CratesPage(n)
      [] kind = "hex" -> HexPage(n, body)
      [] kind = "rubygems" -> RubyGemsPage(n)

\* What an instance may remember after an exception: a snapshot it had taken by then.
AfterFailure(kind, memo, n) ==
    CASE kind \in {"pypi", "opam"} -> {memo, "taken"}
      [] kind = "hackage" /\ memo = "none" -> {"none", "taken", "garbage"}
      [] OTHER -> {memo}

\* What walking the index can reach at all.
Reachable(kind) ==
    CASE kind = "github" -> {r \in Row : \E o \in 0..Ceiling : r \in Searched(r[1], o)}
      [] kind = "crates" -> Listed(1, MaxPage * Size)
      [] OTHER -> Row

\* Indexes whose rows are looked up one by one, where a row that is gone is dropped.
Hydrated == {"pypi", "hackage", "opam", "npm", "golang"}

=============================================================================
