--------------------------- MODULE CallScalesProofs ---------------------------
(***************************************************************************)
(* What stands in the directory of a task, what its corpus is and what a   *)
(* refusal of one means, for any number of workers, any candidates, any    *)
(* batches of them, any floors and battery, and whatever the gateway does. *)
(***************************************************************************)
EXTENDS CallScales, FiniteSetTheorems, SequenceTheorems, WellFoundedInduction, TLAPS

\* Where the scale has located its candidate, and where it has built it.
BuiltAt == {"probes", "repair", "audit", "freeze", "bite", "emit", "describe", "replay"}
LocatedAt == {"name", "build"}

\* The cached observer is of nothing or of what was located; once built, of that.
OfTheLocated(j) ==
    /\ at[j] \in LocatedAt => built[j].of \in {None, material[j]}
    /\ at[j] \in BuiltAt => built[j].of = material[j]

\* Every task was written with its own subject.
WrittenAsObserved ==
    \A n \in DOMAIN tasks : \E c, text : tasks[n] = [of |-> c, from |-> c, text |-> text]

ObservedInv ==
    /\ DOMAIN at = Jobs /\ DOMAIN built = Jobs /\ DOMAIN material = Jobs
    /\ \A j \in Jobs : OfTheLocated(j)
    /\ WrittenAsObserved

\* It is enough to look at the worker that moves.
LEMMA MoveKeeps ==
    ASSUME ObservedInv, NEW j \in Jobs, NEW stage, NEW c, NEW observer,
           at' = [at EXCEPT ![j] = stage] \/ (UNCHANGED at /\ stage = at[j]),
           material' = [material EXCEPT ![j] = c] \/ (UNCHANGED material /\ c = material[j]),
           built' = [built EXCEPT ![j] = observer] \/ (UNCHANGED built /\ observer = built[j]),
           stage \in LocatedAt => observer.of \in {None, c},
           stage \in BuiltAt => observer.of = c,
           WrittenAsObserved'
    PROVE  ObservedInv'
<1>1. DOMAIN at' = Jobs /\ DOMAIN built' = Jobs /\ DOMAIN material' = Jobs
  BY DEF ObservedInv
<1>2. at'[j] = stage /\ material'[j] = c /\ built'[j] = observer
  BY DEF ObservedInv
<1>3. \A k \in Jobs \ {j} : at'[k] = at[k] /\ material'[k] = material[k] /\ built'[k] = built[k]
  BY DEF ObservedInv
<1>4. ASSUME NEW k \in Jobs PROVE OfTheLocated(k)'
  <2>1. CASE k = j
    BY <1>2, <2>1 DEF OfTheLocated
  <2>2. CASE k # j
    BY <1>3, <2>2 DEF OfTheLocated, ObservedInv
  <2> QED
    BY <2>1, <2>2
<1> QED
  BY <1>1, <1>4 DEF ObservedInv

\* A step between two stages that leaves what is held alone and writes nothing.
LEMMA StageKeeps ==
    ASSUME ObservedInv, NEW j \in Jobs, UNCHANGED <<material, built, tasks>>, NEW stage,
           at' = [at EXCEPT ![j] = stage] \/ (UNCHANGED at /\ stage = at[j]),
           stage \in LocatedAt => at[j] \in LocatedAt \union BuiltAt,
           stage \in BuiltAt => at[j] \in BuiltAt
    PROVE  ObservedInv'
<1>1. WrittenAsObserved'
  BY DEF ObservedInv, WrittenAsObserved
<1>2. OfTheLocated(j)
  BY DEF ObservedInv
<1>3. stage \in LocatedAt => built[j].of \in {None, material[j]}
  BY <1>2 DEF OfTheLocated
<1>4. stage \in BuiltAt => built[j].of = material[j]
  BY <1>2 DEF OfTheLocated
<1> QED
  BY <1>1, <1>3, <1>4, MoveKeeps

\* A candidate that leaves takes nothing with it.
LEMMA EndKeeps ==
    ASSUME ObservedInv, NEW j \in Jobs, UNCHANGED tasks, NEW how, NEW whose, End(j, how, whose),
           NEW observer, built' = [built EXCEPT ![j] = observer] \/ (UNCHANGED built /\ observer = built[j]),
           UNCHANGED material
    PROVE  ObservedInv'
<1>1. WrittenAsObserved'
  BY DEF ObservedInv, WrittenAsObserved
<1>2. at' = [at EXCEPT ![j] = "find"]
  BY DEF End
<1>3. "find" \notin LocatedAt /\ "find" \notin BuiltAt
  BY DEF LocatedAt, BuiltAt
<1>4. UNCHANGED material /\ material[j] = material[j]
  OBVIOUS
<1> QED
  BY <1>1, <1>2, <1>3, <1>4, MoveKeeps

LEMMA LocatedKeeps ==
    ASSUME ObservedInv, NEW j \in Jobs, Located(j)
    PROVE  ObservedInv'
<1>1. CASE \E how, whose : Refuse(j, how, whose) /\ UNCHANGED hand
  BY <1>1, EndKeeps DEF Refuse, hand
<1>2. CASE Fresh(j, InHand(j)) /\ Go(j, "name") /\ UNCHANGED tasks
  <2>1. WrittenAsObserved'
    BY <1>2 DEF ObservedInv, WrittenAsObserved
  <2>2. material' = [material EXCEPT ![j] = InHand(j)] /\ built' = [built EXCEPT ![j] = NoObserver]
    BY <1>2 DEF Fresh, Cached
  <2>3. at' = [at EXCEPT ![j] = "name"] /\ NoObserver.of = None
    BY <1>2 DEF Go, NoObserver
  <2> QED
    BY <2>1, <2>2, <2>3, MoveKeeps DEF BuiltAt
<1> QED
  BY <1>1, <1>2 DEF Located

\* Whatever was cached, what is built is of the located candidate.
LEMMA BuildKeeps ==
    ASSUME ObservedInv, NEW j \in Jobs, Build(j)
    PROVE  ObservedInv'
<1> DEFINE observer == [of |-> Observed(j), ready |-> TRUE]
           failed == [observer EXCEPT !.ready = FALSE]
<1>1. at[j] = "build" /\ UNCHANGED material
  BY DEF Build
<1>2. CASE built' = [built EXCEPT ![j] = failed] /\ \E how, whose : Refuse(j, how, whose)
  BY <1>1, <1>2, EndKeeps DEF Refuse
<1>3. CASE built' = [built EXCEPT ![j] = observer] /\ Go(j, "probes") /\ UNCHANGED tasks
  <2>1. built[j].of \in {None, material[j]}
    BY <1>1 DEF ObservedInv, OfTheLocated, LocatedAt
  <2>2. observer.of = material[j]
    BY <2>1 DEF Observed
  <2>3. WrittenAsObserved'
    BY <1>3 DEF ObservedInv, WrittenAsObserved
  <2>4. at' = [at EXCEPT ![j] = "probes"]
    BY <1>3 DEF Go
  <2> QED
    BY <1>1, <1>3, <2>2, <2>3, <2>4, MoveKeeps DEF LocatedAt
<1> QED
  BY <1>2, <1>3 DEF Build

\* The task that is written is of the candidate that was located and built.
LEMMA EmitKeeps ==
    ASSUME ObservedInv, NEW j \in Jobs, Emit(j)
    PROVE  ObservedInv'
<1> DEFINE task == [of |-> material[j], from |-> built[j].of, text |-> "none"]
<1>1. /\ at[j] = "emit" /\ at' = [at EXCEPT ![j] = "describe"] /\ UNCHANGED <<material, built>>
      /\ tasks' = [n \in DOMAIN tasks \union {name[j]} |-> IF n = name[j] THEN task ELSE tasks[n]]
  BY DEF Emit, Go
<1>2. built[j].of = material[j]
  BY <1>1 DEF ObservedInv, OfTheLocated, BuiltAt
<1>3. ASSUME NEW n \in DOMAIN tasks' PROVE \E c, text : tasks'[n] = [of |-> c, from |-> c, text |-> text]
  <2>1. DOMAIN tasks' = {name[j]} \union DOMAIN tasks
        /\ tasks'[n] = IF n = name[j] THEN task ELSE tasks[n]
    BY <1>1, <1>3
  <2>2. CASE n = name[j]
    BY <1>2, <2>1, <2>2
  <2>3. CASE n # name[j]
    BY <2>1, <2>3 DEF ObservedInv, WrittenAsObserved
  <2> QED
    BY <2>2, <2>3
<1> QED
  BY <1>1, <1>2, <1>3, MoveKeeps DEF WrittenAsObserved, LocatedAt

\* A description touches nothing else.
LEMMA WrittenKeeps ==
    ASSUME ObservedInv, NEW j \in Jobs, NEW text, at[j] = "describe", Written(j, text)
    PROVE  ObservedInv'
<1>1. /\ at' = [at EXCEPT ![j] = "replay"] /\ UNCHANGED <<material, built>>
      /\ tasks' = [tasks EXCEPT ![name[j]].text = text]
  BY DEF Written, Go, hand
<1>2. ASSUME NEW n \in DOMAIN tasks' PROVE \E c, t : tasks'[n] = [of |-> c, from |-> c, text |-> t]
  <2>1. n \in DOMAIN tasks
    BY <1>1
  <2>2. PICK c, t : tasks[n] = [of |-> c, from |-> c, text |-> t]
    BY <2>1 DEF ObservedInv, WrittenAsObserved
  <2>3. tasks'[n] = IF n = name[j] THEN [tasks[n] EXCEPT !.text = text] ELSE tasks[n]
    BY <1>1, <2>1
  <2>4. [tasks[n] EXCEPT !.text = text] = [of |-> c, from |-> c, text |-> text]
    BY <2>2
  <2> QED
    BY <2>2, <2>3, <2>4
<1>3. built[j].of = material[j]
  BY DEF ObservedInv, OfTheLocated, BuiltAt
<1> QED
  BY <1>1, <1>2, <1>3, MoveKeeps DEF WrittenAsObserved, LocatedAt

\* A worker that takes, draws, audits, freezes or bites, or that leaves, keeps what it holds.
LEMMA KeepsOrEnds ==
    ASSUME ObservedInv, NEW j \in Jobs, UNCHANGED <<material, built, tasks>>,
           \/ \E how, whose : End(j, how, whose)
           \/ UNCHANGED at
           \/ \E stage : Go(j, stage) /\ (stage \in LocatedAt \union BuiltAt => at[j] \in BuiltAt)
                       /\ stage \notin LocatedAt
           \/ at[j] = "name" /\ Go(j, "build")
           \/ \E stage : Go(j, stage) /\ stage \notin LocatedAt \union BuiltAt
    PROVE  ObservedInv'
<1>1. CASE \E how, whose : End(j, how, whose)
  BY <1>1, EndKeeps
<1>2. CASE UNCHANGED at
  BY <1>2 DEF ObservedInv, OfTheLocated, WrittenAsObserved
<1>3. ASSUME NEW stage, Go(j, stage), stage \in LocatedAt => at[j] \in LocatedAt \union BuiltAt,
             stage \in BuiltAt => at[j] \in BuiltAt
      PROVE  ObservedInv'
  <2>1. at' = [at EXCEPT ![j] = stage]
    BY <1>3 DEF Go
  <2> QED
    BY <1>3, <2>1, StageKeeps
<1>4. CASE at[j] = "name" /\ Go(j, "build")
  BY <1>3, <1>4 DEF LocatedAt, BuiltAt
<1> QED
  BY <1>1, <1>2, <1>3, <1>4

LEMMA ObservedStart == Init => ObservedInv
BY DEF Init, ObservedInv, OfTheLocated, WrittenAsObserved, LocatedAt, BuiltAt

LEMMA ObservedStep ==
    ASSUME ObservedInv, NEW j \in Jobs, Work(j)
    PROVE  ObservedInv'
<1>1. CASE Find(j)
  BY <1>1, KeepsOrEnds DEF Find, Refuse, hand, LocatedAt, BuiltAt
<1>2. CASE Specify(j)
  <2>1. CASE Located(j)
    BY <2>1, LocatedKeeps
  <2>2. CASE UNCHANGED hand /\ \E how, whose : Refuse(j, how, whose)
    BY <2>2, KeepsOrEnds DEF Refuse, hand
  <2>3. CASE UNCHANGED <<hand, tasks>> /\ Go(j, "generator")
    BY <2>3, KeepsOrEnds DEF hand, LocatedAt, BuiltAt
  <2> QED
    BY <1>2, <2>1, <2>2, <2>3 DEF Specify
<1>3. CASE Generator(j)
  <2>1. CASE Located(j)
    BY <2>1, LocatedKeeps
  <2>2. CASE UNCHANGED hand /\ \E how, whose : Refuse(j, how, whose)
    BY <2>2, KeepsOrEnds DEF Refuse, hand
  <2> QED
    BY <1>3, <2>1, <2>2 DEF Generator
<1>4. CASE NameIt(j)
  <2>1. UNCHANGED <<material, built, tasks>>
    BY <1>4 DEF NameIt, Called, hand
  <2>2. UNCHANGED at \/ (at[j] = "name" /\ Go(j, "build"))
    BY <1>4 DEF NameIt
  <2> QED
    BY <2>1, <2>2, KeepsOrEnds
<1>5. CASE Build(j)
  BY <1>5, BuildKeeps
<1>6. CASE Draw(j)
  <2>1. at[j] \in BuiltAt /\ UNCHANGED <<material, built, tasks>>
    BY <1>6 DEF Draw, Drawn, Misshapen, Refuse, BuiltAt
  <2>2. (\E stage : Go(j, stage) /\ stage \notin LocatedAt) \/ \E how, whose : Refuse(j, how, whose)
    <3>1. Go(j, "freeze") \/ Go(j, "audit") \/ Go(j, "repair") \/ \E how, whose : Refuse(j, how, whose)
      BY <1>6, Zenon DEF Draw, Drawn, Misshapen
    <3> QED
      BY <3>1 DEF LocatedAt
  <2> QED
    BY <2>1, <2>2, KeepsOrEnds DEF Refuse
<1>7. CASE Repair(j)
  <2>1. at[j] \in BuiltAt /\ UNCHANGED <<material, built, tasks>>
    BY <1>7 DEF Repair, Drawn, Misshapen, Refuse, BuiltAt
  <2>2. Go(j, "audit") \/ \E how, whose : Refuse(j, how, whose)
    BY <1>7, Zenon DEF Repair, Drawn, Misshapen
  <2>3. "audit" \notin LocatedAt
    BY DEF LocatedAt
  <2> QED
    BY <2>1, <2>2, <2>3, KeepsOrEnds DEF Refuse
<1>8. CASE Audit(j)
  <2>1. at[j] \in BuiltAt /\ UNCHANGED <<material, built, tasks>>
    BY <1>8 DEF Audit, Refuse, BuiltAt
  <2>2. \/ \E stage : Go(j, stage) /\ stage \notin LocatedAt
        \/ \E how, whose : End(j, how, whose)
    <3>1. Go(j, "freeze") \/ \E how, whose : End(j, how, whose)
      BY <1>8, Zenon DEF Audit, Refuse
    <3> QED
      BY <3>1 DEF LocatedAt
  <2> QED
    BY <2>1, <2>2, KeepsOrEnds
<1>9. CASE Freeze(j)
  <2>1. at[j] \in BuiltAt /\ UNCHANGED <<material, built, tasks>>
    BY <1>9 DEF Freeze, Refuse, hand, BuiltAt
  <2>2. Go(j, "bite") \/ \E how, whose : Refuse(j, how, whose)
    BY <1>9, Zenon DEF Freeze
  <2>3. "bite" \notin LocatedAt
    BY DEF LocatedAt
  <2> QED
    BY <2>1, <2>2, <2>3, KeepsOrEnds DEF Refuse
<1>10. CASE Bite(j)
  <2>1. at[j] \in BuiltAt /\ UNCHANGED <<material, built, tasks>>
    BY <1>10 DEF Bite, Refuse, BuiltAt
  <2>2. Go(j, "emit") \/ \E how, whose : Refuse(j, how, whose)
    BY <1>10, Zenon DEF Bite
  <2>3. "emit" \notin LocatedAt
    BY DEF LocatedAt
  <2> QED
    BY <2>1, <2>2, <2>3, KeepsOrEnds DEF Refuse
<1>11. CASE Emit(j)
  BY <1>11, EmitKeeps
<1>12. CASE Describe(j)
  <2>1. at[j] = "describe"
    BY <1>12 DEF Describe
  <2>2. (\E text : Written(j, text)) \/ UNCHANGED <<material, built, tasks, at>>
    BY <1>12 DEF Describe
  <2>3. CASE \E text : Written(j, text)
    BY <2>1, <2>3, WrittenKeeps
  <2>4. CASE UNCHANGED <<material, built, tasks, at>>
    BY <2>4, KeepsOrEnds
  <2> QED
    BY <2>2, <2>3, <2>4
<1>13. CASE Replay(j)
  BY <1>13, KeepsOrEnds DEF Replay, hand
<1>14. CASE Asked(j)
  BY <1>14, KeepsOrEnds DEF Asked, hand
<1> QED
  BY <1>1, <1>2, <1>3, <1>4, <1>5, <1>6, <1>7, <1>8, <1>9, <1>10, <1>11, <1>12, <1>13, <1>14
     DEF Work

LEMMA ObservedInductive == ObservedInv /\ [Next]_vars => ObservedInv'
<1>1. ASSUME ObservedInv, Next PROVE ObservedInv'
  BY <1>1, ObservedStep DEF Next
<1>2. ASSUME ObservedInv, UNCHANGED vars PROVE ObservedInv'
  BY <1>2 DEF vars, hand, ObservedInv, OfTheLocated, WrittenAsObserved
<1> QED
  BY <1>1, <1>2

\* Whatever a worker located, built, refused or failed at before, the task it writes is of the
\* candidate whose subject was observed for it: the cached observer never outlives its candidate
\* (src/frf/scales/package.py:313-317, module.py:401-405).
THEOREM DeliveredIsAlwaysWhatWasObserved == Spec => []DeliveredIsWhatWasObserved
<1>1. ObservedInv => DeliveredIsWhatWasObserved
  <2> SUFFICES ASSUME ObservedInv, NEW n \in DOMAIN tasks
               PROVE  tasks[n].of = tasks[n].from
    BY DEF DeliveredIsWhatWasObserved
  <2>1. PICK c, text : tasks[n] = [of |-> c, from |-> c, text |-> text]
    BY DEF ObservedInv, WrittenAsObserved
  <2> QED
    BY <2>1
<1> QED
  BY <1>1, ObservedStart, ObservedInductive, PTL DEF Spec

-----------------------------------------------------------------------------
(* Counting up, and functions defined by it.                               *)

LEMMA LeastNumber ==
    ASSUME NEW S \in SUBSET Nat, S # {}
    PROVE  \E x \in S : \A y \in S : x <= y
<1> DEFINE R == OpToRel(<, Nat)
<1>1. IsWellFoundedOn(R, Nat)
  BY NatLessThanWellFounded, Zenon
<1>2. R = {pair \in Nat \X Nat : pair[1] < pair[2]}
  BY Zenon DEF OpToRel
<1> HIDE DEF R
<1>3. PICK x \in S : \A y \in S : ~ (<<y, x>> \in R)
  BY <1>1, WFMin
<1>4. \A y \in S : ~(y < x)
  BY <1>2, <1>3
<1> QED
  BY <1>4

\* What holds at the start and is passed on holds up to the end.
LEMMA CountingUp ==
    ASSUME NEW L \in Nat, NEW S, 0 \in S, \A n \in 1..L : n - 1 \in S => n \in S
    PROVE  \A n \in 0..L : n \in S
<1> DEFINE missing == (0..L) \ S
<1> SUFFICES ASSUME missing # {} PROVE FALSE
  OBVIOUS
<1>1. PICK x \in missing : \A y \in missing : x <= y
  <2>1. missing \in SUBSET Nat
    OBVIOUS
  <2> HIDE DEF missing
  <2> QED
    BY <2>1, LeastNumber
<1>2. x \in 1..L /\ x - 1 \in 0..L
  BY <1>1
<1> QED
  BY <1>1, <1>2

\* A function that is told where to begin and how to go on.
GoesOn(L, X, begin, G) == L \in Nat /\ begin \in X /\ G \in [(1..L) \X X -> X]

Follow(f, L, X, begin, G) ==
    f \in [0..L -> X] /\ f[0] = begin /\ \A n \in 1..L : f[n] = G[<<n, f[n - 1]>>]

LEMMA GoingOn ==
    ASSUME NEW L, NEW X, NEW begin, NEW G, GoesOn(L, X, begin, G)
    PROVE  \E f : Follow(f, L, X, begin, G)
<1> USE DEF GoesOn
<1> DEFINE Follows(f, n) == f[0] = begin /\ \A m \in 1..n : f[m] = G[<<m, f[m - 1]>>]
           S == {n \in 0..L : \E f \in [0..n -> X] : Follows(f, n)}
<1>1. 0 \in S
  <2> DEFINE f == [m \in 0..0 |-> begin]
  <2>1. f \in [0..0 -> X] /\ f[0] = begin
    OBVIOUS
  <2> HIDE DEF f
  <2>2. Follows(f, 0)
    BY <2>1
  <2> QED
    BY <2>1, <2>2
<1>2. ASSUME NEW n \in 1..L, n - 1 \in S PROVE n \in S
  <2>1. PICK f \in [0..(n - 1) -> X] : Follows(f, n - 1)
    BY <1>2
  <2> DEFINE g == [m \in 0..n |-> IF m = n THEN G[<<n, f[n - 1]>>] ELSE f[m]]
  <2>2. g \in [0..n -> X]
    <3>1. f[n - 1] \in X /\ <<n, f[n - 1]>> \in (1..L) \X X
      BY <2>1
    <3> QED
      BY <2>1, <3>1
  <2>3. g[0] = begin
    BY <2>1
  <2>4. ASSUME NEW m \in 1..n PROVE g[m] = G[<<m, g[m - 1]>>]
    <3>1. m - 1 \in 0..(n - 1) /\ g[m - 1] = f[m - 1]
      OBVIOUS
    <3>2. CASE m = n
      <4>1. g[m] = G[<<n, f[n - 1]>>]
        BY <3>2
      <4> QED
        BY <3>1, <3>2, <4>1
    <3>3. CASE m # n
      <4>1. g[m] = f[m] /\ m \in 1..(n - 1)
        BY <3>3
      <4> QED
        BY <2>1, <3>1, <4>1
    <3> QED
      BY <3>2, <3>3
  <2> HIDE DEF g
  <2> QED
    BY <2>2, <2>3, <2>4
<1> HIDE DEF S
<1>3. L \in S
  BY <1>1, <1>2, CountingUp
<1> QED
  BY <1>3 DEF S, Follow

LEMMA AppendSays ==
    ASSUME NEW X, NEW s \in Seq(X), NEW x \in X
    PROVE  /\ Append(s, x) \in Seq(X) /\ Len(Append(s, x)) = Len(s) + 1
           /\ Range(Append(s, x)) = Range(s) \union {x}
           /\ Append(s, x)[Len(s) + 1] = x
<1>1. /\ Append(s, x) \in Seq(X) /\ Len(Append(s, x)) = Len(s) + 1
      /\ \A i \in 1..Len(s) : Append(s, x)[i] = s[i]
      /\ Append(s, x)[Len(s) + 1] = x
  BY AppendProperties
<1>2. DOMAIN s = 1..Len(s) /\ DOMAIN Append(s, x) = 1..(Len(s) + 1) /\ Len(s) \in Nat
  BY <1>1
<1> QED
  BY <1>1, <1>2 DEF Range

\* A list reaches everything on it.
LEMMA ListsCover ==
    ASSUME NEW X, NEW s \in Seq(X)
    PROVE  s \in Surjection(1..Len(s), Range(s)) /\ Len(s) \in Nat
BY DEF Range, Surjection

\* There are finitely many things on a list.
LEMMA ListsAreFinite ==
    ASSUME NEW X, NEW s \in Seq(X)
    PROVE  IsFiniteSet(Range(s)) /\ Cardinality(Range(s)) \in Nat
<1>1. s \in Surjection(1..Len(s), Range(s)) /\ Len(s) \in Nat
  BY ListsCover
<1>2. IsFiniteSet(Range(s))
  BY <1>1, FS_NatSurjection DEF ExistsSurjection
<1> QED
  BY <1>2, FS_CardinalityType

-----------------------------------------------------------------------------
(* The distinct probes, and the battery.                                   *)

\* The next distinct probe.
Next1(probes, n, kept) ==
    IF probes[n] \in Range(kept) THEN kept ELSE Append(kept, probes[n])

LEMMA KeptGoesOn ==
    ASSUME NEW X, NEW probes \in Seq(X)
    PROVE  \E f : /\ Kept(probes) = f[Len(probes)]
                 /\ f = [n \in 0..Len(probes) |-> IF n = 0 THEN << >> ELSE Next1(probes, n, f[n - 1])]
<1> DEFINE L == Len(probes)
           S == Seq(X)
           G == [pair \in (1..L) \X S |-> Next1(probes, pair[1], pair[2])]
           Upto == CHOOSE f : f = [n \in 0..L |-> IF n = 0 THEN << >> ELSE Next1(probes, n, f[n - 1])]
<1>1. L \in Nat /\ DOMAIN probes = 1..L /\ << >> \in S
  OBVIOUS
<1>2. \A n \in 1..L : \A kept \in S : Next1(probes, n, kept) \in S
  BY <1>1, AppendSays DEF Next1
<1>3. G \in [(1..L) \X S -> S]
  BY <1>2
<1>4. Kept(probes) = Upto[L]
  BY DEF Kept, Next1
<1> HIDE DEF L, S
<1>5. \A n \in 1..L : \A kept \in S : G[<<n, kept>>] = Next1(probes, n, kept)
  OBVIOUS
<1> HIDE DEF G
<1>6. PICK f : Follow(f, L, S, << >>, G)
  BY <1>1, <1>3, GoingOn DEF GoesOn
<1>7. \A n \in 1..L : f[n - 1] \in S
  BY <1>1, <1>6 DEF Follow
<1>8. \A n \in 0..L : f[n] = IF n = 0 THEN << >> ELSE Next1(probes, n, f[n - 1])
  BY <1>1, <1>5, <1>6, <1>7 DEF Follow
<1>9. f = [n \in 0..L |-> IF n = 0 THEN << >> ELSE Next1(probes, n, f[n - 1])]
  BY <1>6, <1>8 DEF Follow
<1>10. Upto = [n \in 0..L |-> IF n = 0 THEN << >> ELSE Next1(probes, n, Upto[n - 1])]
  BY <1>9
<1> QED
  BY <1>4, <1>10 DEF L

LEMMA KeptSays ==
    ASSUME NEW X, NEW probes \in Seq(X)
    PROVE  /\ Kept(probes) \in Seq(X) /\ Range(Kept(probes)) = Range(probes)
           /\ Len(Kept(probes)) = Cardinality(Range(Kept(probes)))
<1> DEFINE L == Len(probes)
<1>1. L \in Nat /\ DOMAIN probes = 1..L
  OBVIOUS
<1>2. PICK f : /\ Kept(probes) = f[L]
               /\ f = [n \in 0..L |-> IF n = 0 THEN << >> ELSE Next1(probes, n, f[n - 1])]
  BY KeptGoesOn
<1> DEFINE Good(n) == /\ f[n] \in Seq(X) /\ Range(f[n]) = {probes[i] : i \in 1..n}
                      /\ Len(f[n]) = Cardinality(Range(f[n]))
           S == {n \in 0..L : Good(n)}
<1> HIDE DEF L
<1>3. f[0] = << >> /\ \A n \in 1..L : f[n] = Next1(probes, n, f[n - 1])
  <2>1. 0 \in 0..L /\ \A n \in 1..L : n \in 0..L /\ n # 0
    BY <1>1
  <2> QED
    BY <1>2, <2>1
<1>4. Good(0)
  <2>1. Range(<< >>) = {} /\ Len(<< >>) = 0 /\ Cardinality({}) = 0 /\ << >> \in Seq(X)
    BY FS_EmptySet DEF Range
  <2>2. {probes[i] : i \in 1..0} = {}
    OBVIOUS
  <2> QED
    BY <1>3, <2>1, <2>2
<1>5. ASSUME NEW n \in 1..L, Good(n - 1) PROVE Good(n)
  <2>1. f[n] = Next1(probes, n, f[n - 1]) /\ probes[n] \in X
    BY <1>1, <1>3
  <2>2. {probes[i] : i \in 1..n} = {probes[i] : i \in 1..(n - 1)} \union {probes[n]}
    BY <1>1
  <2>3. CASE probes[n] \in Range(f[n - 1])
    <3>1. f[n] = f[n - 1]
      BY <2>1, <2>3 DEF Next1
    <3>2. {probes[i] : i \in 1..n} = {probes[i] : i \in 1..(n - 1)}
      BY <1>5, <2>2, <2>3
    <3> QED
      BY <1>5, <3>1, <3>2
  <2>4. CASE probes[n] \notin Range(f[n - 1])
    <3>1. f[n] = Append(f[n - 1], probes[n])
      BY <2>1, <2>4 DEF Next1
    <3>2. /\ f[n] \in Seq(X) /\ Len(f[n]) = Len(f[n - 1]) + 1
          /\ Range(f[n]) = Range(f[n - 1]) \union {probes[n]}
      BY <1>5, <2>1, <3>1, AppendSays
    <3>3. IsFiniteSet(Range(f[n - 1]))
      BY <1>5, ListsAreFinite
    <3>4. Cardinality(Range(f[n])) = Cardinality(Range(f[n - 1])) + 1
      BY <2>4, <3>2, <3>3, FS_AddElement
    <3> QED
      BY <1>5, <2>2, <3>2, <3>4
  <2> QED
    BY <2>3, <2>4
<1> HIDE DEF Good
<1>6. 0 \in S /\ \A n \in 1..L : n - 1 \in S => n \in S
  BY <1>1, <1>4, <1>5
<1>7. \A n \in 0..L : n \in S
  <2> HIDE DEF S
  <2> QED
    BY <1>1, <1>6, CountingUp
<1>8. Good(L)
  BY <1>1, <1>7
<1>9. Range(probes) = {probes[i] : i \in 1..L}
  BY <1>1 DEF Range
<1> QED
  BY <1>2, <1>8, <1>9 DEF Good

\* What is drawn, probe by probe, with their labels.
Draft(P, Q) == [probes : Seq(P), labels : Seq(Q)]

\* Every case has a probe and a label to append.
Offers(cases, P, Q) ==
    Len(cases) \in Nat /\ \A n \in 1..Len(cases) : cases[n].probe \in P /\ cases[n].label \in Q

\* The source hands on a beginning of the list: all of it, or as many as a corpus is drawn with.
LEMMA SourceSays ==
    ASSUME NEW X, NEW probes \in Seq(X), Len(probes) = Cardinality(Range(probes))
    PROVE  LET drawn == Source(probes)
           IN  /\ drawn \in Seq(X) /\ Range(drawn) \subseteq Range(probes)
               /\ Len(drawn) = Cardinality(Range(drawn))
               /\ Len(drawn) = Len(probes) \/ Len(drawn) = ProbeCount
               /\ Len(drawn) < ProbeCount => drawn = probes
<1> DEFINE n == IF Len(probes) < ProbeCount THEN Len(probes) ELSE ProbeCount
           drawn == [i \in 1..n |-> probes[i]]
<1>1. Len(probes) \in Nat /\ DOMAIN probes = 1..Len(probes)
  OBVIOUS
<1>2. n \in Nat /\ n <= Len(probes) /\ (n = Len(probes) \/ n = ProbeCount)
  BY <1>1, FloorAssumption
<1>3. n < ProbeCount => n = Len(probes)
  BY <1>1, FloorAssumption
<1> HIDE DEF n
<1>4. Source(probes) = drawn
  <2>1. Source(probes) = SubSeq(probes, 1, n)
    BY Zenon DEF Source, n
  <2>2. SubSeq(probes, 1, n) = [i \in 1..n |-> probes[i]]
    BY <1>1, <1>2
  <2> QED
    BY <2>1, <2>2
<1>5. drawn \in Seq(X) /\ Len(drawn) = n /\ DOMAIN drawn = 1..n
  BY <1>1, <1>2
<1>6. probes \in Injection(1..Len(probes), Range(probes))
  <2>1. probes \in Surjection(1..Len(probes), Range(probes))
    BY ListsCover
  <2>2. IsFiniteSet(1..Len(probes)) /\ Cardinality(1..Len(probes)) = Len(probes)
    BY <1>1, FS_Interval
  <2> QED
    BY <2>1, <2>2, FS_SurjSameCardinalityImpliesInj
<1>7. Cardinality(Range(drawn)) = n
  <2>1. \A i, k \in 1..n : drawn[i] = drawn[k] => i = k
    <3>1. \A i \in 1..n : i \in 1..Len(probes) /\ drawn[i] = probes[i]
      BY <1>1, <1>2
    <3> QED
      BY <1>6, <3>1 DEF Injection, IsInjective
  <2>2. drawn \in Bijection(1..n, Range(drawn))
    <3>1. drawn \in Surjection(1..n, Range(drawn))
      BY <1>5 DEF Surjection, Range
    <3> HIDE DEF drawn
    <3> QED
      BY <2>1, <3>1 DEF Bijection, Injection, Surjection, IsInjective
  <2> QED
    BY <1>2, <2>2, FS_CountingElements DEF ExistsBijection
<1>8. Range(drawn) \subseteq Range(probes)
  <2>1. \A i \in 1..n : i \in DOMAIN probes /\ drawn[i] = probes[i]
    BY <1>1, <1>2
  <2> QED
    BY <1>5, <2>1 DEF Range
<1>9. n < ProbeCount => drawn = probes
  BY <1>1, <1>3
<1> QED
  BY <1>2, <1>4, <1>5, <1>7, <1>8, <1>9


LEMMA OfferSays ==
    ASSUME NEW P, NEW Q, NEW drawn \in Draft(P, Q), NEW case, case.probe \in P, case.label \in Q
    PROVE  /\ Offer(drawn, case) \in Draft(P, Q)
           /\ Range(drawn.probes) \subseteq Range(Offer(drawn, case).probes)
           /\ Wanted(drawn, case) => case.probe \in Range(Offer(drawn, case).probes)
<1>1. drawn.probes \in Seq(P) /\ drawn.labels \in Seq(Q)
  BY DEF Draft
<1>2. Append(drawn.probes, case.probe) \in Seq(P)
      /\ Range(Append(drawn.probes, case.probe)) = Range(drawn.probes) \union {case.probe}
  BY <1>1, AppendSays
<1>3. Append(drawn.labels, case.label) \in Seq(Q)
  BY <1>1, AppendSays
<1> QED
  BY <1>2, <1>3 DEF Offer, Draft

\* A floor that more probes do not reach was not reached by fewer.
LEMMA WantedBefore ==
    ASSUME NEW P, NEW Q, NEW drawn \in Draft(P, Q), NEW more \in Draft(P, Q),
           Range(drawn.probes) \subseteq Range(more.probes), NEW case, Wanted(more, case)
    PROVE  Wanted(drawn, case)
<1>1. IsFiniteSet(Range(more.probes)) /\ IsFiniteSet(Range(drawn.probes))
  BY ListsAreFinite DEF Draft
<1>2. CASE case.floor = "operation"
  <2> DEFINE A == {p \in Range(drawn.probes) : Starts(p, case.op)}
             B == {p \in Range(more.probes) : Starts(p, case.op)}
  <2>1. A \subseteq B /\ IsFiniteSet(B) /\ IsFiniteSet(A)
    BY <1>1, FS_Subset
  <2>2. Cardinality(A) <= Cardinality(B) /\ Cardinality(A) \in Nat /\ Cardinality(B) \in Nat
    BY <2>1, FS_Subset, FS_CardinalityType
  <2> QED
    BY <1>2, <2>2, FloorAssumption DEF Wanted, CountOf, Distinct
<1>3. CASE case.floor # "operation"
  <2>1. /\ Cardinality(Range(drawn.probes)) <= Cardinality(Range(more.probes))
        /\ Cardinality(Range(drawn.probes)) \in Nat /\ Cardinality(Range(more.probes)) \in Nat
    BY <1>1, FS_Subset, FS_CardinalityType
  <2> QED
    BY <1>3, <2>1, FloorAssumption DEF Wanted, Distinct
<1> QED
  BY <1>2, <1>3

LEMMA OfferingGoesOn ==
    ASSUME NEW P, NEW Q, NEW drawn \in Draft(P, Q), NEW cases, Offers(cases, P, Q)
    PROVE  \E f : /\ OfferAll(drawn, cases) = f[Len(cases)]
                 /\ f = [n \in 0..Len(cases) |-> IF n = 0 THEN drawn ELSE Offer(f[n - 1], cases[n])]
<1> DEFINE L == Len(cases)
           S == Draft(P, Q)
           G == [pair \in (1..L) \X S |-> Offer(pair[2], cases[pair[1]])]
           Upto == CHOOSE f : f = [n \in 0..L |-> IF n = 0 THEN drawn ELSE Offer(f[n - 1], cases[n])]
<1>1. L \in Nat /\ drawn \in S
  BY DEF Offers
<1>2. \A n \in 1..L : \A had \in S : Offer(had, cases[n]) \in S
  BY OfferSays DEF Offers
<1>3. G \in [(1..L) \X S -> S]
  BY <1>2
<1>4. OfferAll(drawn, cases) = Upto[L]
  BY DEF OfferAll
<1> HIDE DEF L, S
<1>5. \A n \in 1..L : \A had \in S : G[<<n, had>>] = Offer(had, cases[n])
  OBVIOUS
<1> HIDE DEF G
<1>6. PICK f : Follow(f, L, S, drawn, G)
  BY <1>1, <1>3, GoingOn DEF GoesOn
<1>7. \A n \in 1..L : f[n - 1] \in S
  BY <1>1, <1>6 DEF Follow
<1>8. ASSUME NEW n \in 0..L PROVE f[n] = IF n = 0 THEN drawn ELSE Offer(f[n - 1], cases[n])
  <2>1. CASE n = 0
    BY <1>6, <2>1 DEF Follow
  <2>2. CASE n \in 1..L
    BY <1>5, <1>6, <1>7, <2>2 DEF Follow
  <2> QED
    BY <1>1, <2>1, <2>2
<1>9. f = [n \in 0..L |-> IF n = 0 THEN drawn ELSE Offer(f[n - 1], cases[n])]
  BY <1>6, <1>8 DEF Follow
<1>10. Upto = [n \in 0..L |-> IF n = 0 THEN drawn ELSE Offer(Upto[n - 1], cases[n])]
  BY <1>9
<1> QED
  BY <1>4, <1>10 DEF L

\* Nothing drawn is lost, and a floor that is still not reached has had all its cases.
LEMMA OfferAllSays ==
    ASSUME NEW P, NEW Q, NEW drawn \in Draft(P, Q), NEW cases, Offers(cases, P, Q)
    PROVE  /\ OfferAll(drawn, cases) \in Draft(P, Q)
           /\ Range(drawn.probes) \subseteq Range(OfferAll(drawn, cases).probes)
           /\ \A n \in 1..Len(cases) :
                 Wanted(OfferAll(drawn, cases), cases[n]) =>
                     cases[n].probe \in Range(OfferAll(drawn, cases).probes)
<1> DEFINE L == Len(cases)
<1>1. L \in Nat
  BY DEF Offers
<1>2. PICK f : /\ OfferAll(drawn, cases) = f[L]
               /\ f = [n \in 0..L |-> IF n = 0 THEN drawn ELSE Offer(f[n - 1], cases[n])]
  BY OfferingGoesOn
<1> DEFINE Good(n) == /\ f[n] \in Draft(P, Q) /\ Range(drawn.probes) \subseteq Range(f[n].probes)
                      /\ \A m \in 1..n : Wanted(f[n], cases[m]) => cases[m].probe \in Range(f[n].probes)
           S == {n \in 0..L : Good(n)}
<1>3. f[0] = drawn /\ \A n \in 1..L : f[n] = Offer(f[n - 1], cases[n])
  <2> HIDE DEF L
  <2>1. 0 \in 0..L /\ \A n \in 1..L : n \in 0..L /\ n # 0
    BY <1>1
  <2> QED
    BY <1>2, <2>1
<1>4. Good(0)
  BY <1>3
<1>5. ASSUME NEW n \in 1..L, Good(n - 1) PROVE Good(n)
  <2>1. f[n] = Offer(f[n - 1], cases[n]) /\ cases[n].probe \in P /\ cases[n].label \in Q
    BY <1>3 DEF Offers
  <2>2. /\ f[n] \in Draft(P, Q) /\ Range(f[n - 1].probes) \subseteq Range(f[n].probes)
        /\ Wanted(f[n - 1], cases[n]) => cases[n].probe \in Range(f[n].probes)
    BY <1>5, <2>1, OfferSays
  <2>3. \A m \in 1..n : Wanted(f[n], cases[m]) => Wanted(f[n - 1], cases[m])
    BY <1>5, <2>2, WantedBefore
  <2>4. ASSUME NEW m \in 1..n, Wanted(f[n], cases[m]) PROVE cases[m].probe \in Range(f[n].probes)
    <3>1. CASE m = n
      BY <2>2, <2>3, <2>4, <3>1
    <3>2. CASE m # n
      <4>1. m \in 1..(n - 1)
        BY <3>2
      <4> QED
        BY <1>5, <2>2, <2>3, <2>4, <4>1
    <3> QED
      BY <3>1, <3>2
  <2> QED
    BY <1>5, <2>2, <2>4
<1> HIDE DEF Good, L
<1>6. 0 \in S /\ \A n \in 1..L : n - 1 \in S => n \in S
  BY <1>1, <1>4, <1>5
<1>7. \A n \in 0..L : n \in S
  <2> HIDE DEF S
  <2> QED
    BY <1>1, <1>6, CountingUp
<1>8. Good(L)
  BY <1>1, <1>7
<1> QED
  BY <1>2, <1>8 DEF Good, L

LEMMA QuotientSays ==
    ASSUME NEW b \in Int, b > 0, NEW q \in Nat, NEW r \in 0..(b - 1)
    PROVE  ((b * q) + r) \div b = q
OBVIOUS

LEMMA RemainderSays ==
    ASSUME NEW b \in Int, b > 0, NEW q \in Nat, NEW r \in 0..(b - 1)
    PROVE  ((b * q) + r) % b = r
OBVIOUS

\* The row and the column of a place, in rows of equal length.
RowOf(n, b) == ((n - 1) \div b) + 1
ColumnOf(n, b) == ((n - 1) % b) + 1

\* Rows of equal length, numbered through: every row and column has its place.
LEMMA Numbered ==
    ASSUME NEW b \in Nat \ {0}, NEW rows \in Nat, NEW i \in 1..rows, NEW k \in 1..b
    PROVE  \E n \in 1..(rows * b) : RowOf(n, b) = i /\ ColumnOf(n, b) = k
<1> DEFINE place == (b * (i - 1)) + (k - 1)
<1>1. place + 1 \in 1..(rows * b)
  <2>1. b * (i - 1) \in Nat /\ b * (i - 1) + b <= b * rows
    <3>1. b * (i - 1) + b = b * i
      OBVIOUS
    <3>2. b * i <= b * rows
      OBVIOUS
    <3>3. b * (i - 1) >= 0
      OBVIOUS
    <3> QED
      BY <3>1, <3>2, <3>3
  <2>2. b * rows = rows * b
    OBVIOUS
  <2> HIDE DEF place
  <2>3. place = (b * (i - 1)) + (k - 1)
    BY DEF place
  <2> QED
    BY <2>1, <2>2, <2>3
<1>2. place \div b = i - 1
  BY QuotientSays
<1>3. place % b = k - 1
  BY RemainderSays
<1> HIDE DEF place
<1>4. (place + 1) - 1 = place
  BY DEF place
<1> QED
  BY <1>1, <1>2, <1>3, <1>4 DEF RowOf, ColumnOf

Numbering(rows, b) ==
    \A i \in 1..rows, k \in 1..b : \E n \in 1..(rows * b) : RowOf(n, b) = i /\ ColumnOf(n, b) = k

LEMMA NumberedThrough ==
    ASSUME NEW b \in Nat, NEW rows \in Nat
    PROVE  Numbering(rows, b)
<1> SUFFICES ASSUME NEW i \in 1..rows, NEW k \in 1..b
             PROVE  \E n \in 1..(rows * b) : RowOf(n, b) = i /\ ColumnOf(n, b) = k
  BY DEF Numbering
<1>1. b \in Nat \ {0}
  OBVIOUS
<1> QED
  BY <1>1, Numbered

LEMMA PlacesAreInTheRows ==
    ASSUME NEW b \in Nat, NEW rows \in Nat, NEW n \in 1..(rows * b)
    PROVE  RowOf(n, b) \in 1..rows /\ ColumnOf(n, b) \in 1..b
<1>1. b > 0
  <2>1. CASE b = 0
    <3>1. rows * b = 0
      BY <2>1
    <3> QED
      BY <3>1
  <2> QED
    BY <2>1
<1> DEFINE m == n - 1
           q == m \div b
           r == m % b
<1>2. m \in Nat /\ m < b * rows
  <2>1. rows * b = b * rows
    OBVIOUS
  <2> QED
    BY <2>1
<1> HIDE DEF m
<1>3. q \in Nat /\ r \in 0..(b - 1) /\ m = (b * q) + r
  BY <1>1, <1>2
<1> HIDE DEF q, r
<1>4. q < rows
  <2>1. CASE q >= rows
    <3>1. b * q >= b * rows
      BY <1>1, <1>3, <2>1
    <3> QED
      BY <1>2, <1>3, <3>1
  <2> QED
    BY <1>3, <2>1
<1>5. q + 1 \in 1..rows /\ r + 1 \in 1..b
  BY <1>3, <1>4
<1> QED
  BY <1>5 DEF m, q, r, RowOf, ColumnOf

\* The operations of a candidate are a list.
LEMMA OperationsAreListed ==
    ASSUME NEW c \in DOMAIN Candidates
    PROVE  Len(Names(Subject(c))) \in Nat
           /\ DOMAIN Names(Subject(c)) = 1..Len(Names(Subject(c)))
<1> DEFINE given == Candidates[c]
           shown == {k \in DOMAIN given.declares : Shown(given.language, given.declares[k])}
           first == {k \in shown : FirstOfItsName(given.declares, shown, k)}
           ops == Names(Subject(c))
<1>1. Subject(c).surface = Discovered(given)
  BY DEF Subject, Subjects, Discovery
<1>2. DOMAIN Discovered(given) = 1..Cardinality(first)
  BY DEF Discovered
<1>3. IsFiniteSet(first)
  <2>1. DOMAIN given.declares = 1..Len(given.declares) /\ Len(given.declares) \in Nat
    BY CandidatesAssumption
  <2>2. IsFiniteSet(DOMAIN given.declares)
    BY <2>1, FS_Interval
  <2>3. first \subseteq DOMAIN given.declares
    OBVIOUS
  <2> QED
    BY <2>2, <2>3, FS_Subset
<1>4. Cardinality(first) \in Nat
  BY <1>3, FS_CardinalityType
<1>5. DOMAIN ops = 1..Cardinality(first)
  BY <1>1, <1>2 DEF Names
<1> HIDE DEF ops, first
<1>6. Len(ops) = Cardinality(first)
  BY <1>4, <1>5
<1> QED
  BY <1>4, <1>5, <1>6 DEF ops

\* What a corpus can be made of: what was drawn, and the battery for every operation.
Pool(c, d) == Range(d.probes) \union Cases(Range(Names(Subject(c))))
Marks(d) == Range(d.labels) \union {"valid"} \union {Battery[k].label : k \in DOMAIN Battery}

LEMMA CasesAreInThePool ==
    ASSUME NEW c \in DOMAIN Candidates, NEW d, NEW i \in 1..Len(Names(Subject(c))),
           NEW k \in 1..Len(Battery), NEW floor
    PROVE  Case(Names(Subject(c))[i], k, floor).probe \in Pool(c, d)
           /\ Case(Names(Subject(c))[i], k, floor).label \in Marks(d)
<1> DEFINE ops == Names(Subject(c))
           pair == <<ops[i], k>>
<1>1. DOMAIN ops = 1..Len(ops)
  BY OperationsAreListed
<1>2. DOMAIN Battery = 1..Len(Battery)
  BY BatteryAssumption
<1> HIDE DEF ops
<1>3. ops[i] \in Range(ops)
  BY <1>1 DEF Range, ops
<1>4. pair \in Range(ops) \X DOMAIN Battery /\ pair[1] = ops[i] /\ pair[2] = k
  BY <1>2, <1>3
<1>5. <<ops[i]>> \o Battery[k].args \in Cases(Range(ops))
  BY <1>4 DEF Cases
<1> QED
  BY <1>2, <1>5 DEF Case, Pool, Marks, ops

\* A list of cases has one for every operation and every entry of the battery, and nothing else.
AllCases(c, cases, floor) ==
    /\ Len(cases) \in Nat
    /\ \A n \in 1..Len(cases) :
          \E i \in 1..Len(Names(Subject(c))), k \in 1..Len(Battery) :
             cases[n] = Case(Names(Subject(c))[i], k, floor)
    /\ \A i \in 1..Len(Names(Subject(c))), k \in 1..Len(Battery) :
          \E n \in 1..Len(cases) : cases[n] = Case(Names(Subject(c))[i], k, floor)

LEMMA CoveringIsAll ==
    ASSUME NEW c \in DOMAIN Candidates
    PROVE  AllCases(c, Covering(Subject(c)), "operation")
<1> DEFINE ops == Names(Subject(c))
           b == Len(Battery)
<1>1. Len(ops) \in Nat /\ b \in Nat
  BY OperationsAreListed, BatteryAssumption
<1>2. Covering(Subject(c)) = [n \in 1..(Len(ops) * b) |-> Case(ops[RowOf(n, b)], ColumnOf(n, b), "operation")]
  BY DEF Covering, RowOf, ColumnOf
<1>3. Len(Covering(Subject(c))) = Len(ops) * b /\ Len(ops) * b \in Nat
  <2>1. Len(ops) * b \in Nat
    BY <1>1
  <2> HIDE DEF ops, b
  <2> QED
    BY <1>2, <2>1
<1>4. \A n \in 1..(Len(ops) * b) : RowOf(n, b) \in 1..Len(ops) /\ ColumnOf(n, b) \in 1..b
  BY <1>1, PlacesAreInTheRows
<1>5. ASSUME NEW i \in 1..Len(ops), NEW k \in 1..b
      PROVE  \E n \in 1..(Len(ops) * b) : RowOf(n, b) = i /\ ColumnOf(n, b) = k
  <2> HIDE DEF b, ops
  <2>1. Numbering(Len(ops), b)
    BY <1>1, NumberedThrough
  <2> QED
    BY <2>1 DEF Numbering
<1> HIDE DEF b
<1> QED
  BY <1>2, <1>3, <1>4, <1>5 DEF AllCases, b

LEMMA FillingIsAll ==
    ASSUME NEW c \in DOMAIN Candidates
    PROVE  AllCases(c, Filling(Subject(c)), "total")
<1> DEFINE ops == Names(Subject(c))
           m == Len(ops)
           b == Len(Battery)
<1>1. m \in Nat /\ b \in Nat
  BY OperationsAreListed, BatteryAssumption
<1>2. Filling(Subject(c)) = [n \in 1..(m * b) |-> Case(ops[ColumnOf(n, m)], RowOf(n, m), "total")]
  BY DEF Filling, RowOf, ColumnOf
<1>3. Len(Filling(Subject(c))) = m * b /\ m * b \in Nat /\ m * b = b * m
  <2>1. m * b \in Nat /\ m * b = b * m
    BY <1>1
  <2> HIDE DEF ops, m, b
  <2> QED
    BY <1>2, <2>1
<1>4. \A n \in 1..(m * b) : RowOf(n, m) \in 1..b /\ ColumnOf(n, m) \in 1..m
  <2> HIDE DEF m, b
  <2> QED
    BY <1>1, <1>3, PlacesAreInTheRows
<1>5. ASSUME NEW i \in 1..m, NEW k \in 1..b
      PROVE  \E n \in 1..(m * b) : RowOf(n, m) = k /\ ColumnOf(n, m) = i
  <2> HIDE DEF b, m
  <2>1. Numbering(b, m)
    BY <1>1, NumberedThrough
  <2> QED
    BY <1>3, <2>1 DEF Numbering
<1>6. Len(Names(Subject(c))) = m /\ Len(Battery) = b
  OBVIOUS
<1> HIDE DEF m, b
<1> QED
  BY <1>2, <1>3, <1>4, <1>5, <1>6 DEF AllCases

LEMMA AllCasesAreOffers ==
    ASSUME NEW c \in DOMAIN Candidates, NEW d, NEW cases, NEW floor, AllCases(c, cases, floor)
    PROVE  Offers(cases, Pool(c, d), Marks(d))
<1>1. Len(cases) \in Nat
  BY DEF AllCases
<1>2. ASSUME NEW n \in 1..Len(cases)
      PROVE  cases[n].probe \in Pool(c, d) /\ cases[n].label \in Marks(d)
  <2>1. PICK i \in 1..Len(Names(Subject(c))), k \in 1..Len(Battery) :
            cases[n] = Case(Names(Subject(c))[i], k, floor)
    BY DEF AllCases
  <2> QED
    BY <2>1, CasesAreInThePool
<1> QED
  BY <1>1, <1>2 DEF Offers

-----------------------------------------------------------------------------
(* The corpus of a package, judged.                                        *)

LEMMA DrawingsAreLists ==
    ASSUME NEW c \in DOMAIN Candidates, NEW d \in Drawings(c)
    PROVE  d.probes \in Seq(Range(d.probes)) /\ d.labels \in Seq(Range(d.labels))
<1>1. PICK given \in Candidates[c].drawings : d = Read(given)
  BY DEF Drawings
<1>2. /\ given = [probes |-> given.probes, labels |-> given.labels, labelled |-> given.labelled]
      /\ given.probes \in Seq(Range(given.probes)) /\ given.labels \in Seq(Range(given.labels))
  BY CandidatesAssumption
<1> DEFINE labels == [i \in DOMAIN given.labels |->
                        IF given.labels[i] = "invalid" THEN "error" ELSE given.labels[i]]
<1>3. d = [probes |-> given.probes, labels |-> labels, labelled |-> given.labelled]
  BY <1>1, <1>2 DEF Read
<1>4. DOMAIN given.labels = 1..Len(given.labels) /\ Len(given.labels) \in Nat
  BY <1>2
<1>5. labels \in Seq(Range(labels))
  <2>1. DOMAIN labels = 1..Len(given.labels) /\ \A i \in DOMAIN labels : labels[i] \in Range(labels)
    BY <1>4 DEF Range
  <2>2. labels = [i \in 1..Len(given.labels) |-> labels[i]]
    BY <1>4
  <2> HIDE DEF labels
  <2> QED
    BY <1>4, <2>1, <2>2
<1> HIDE DEF labels
<1> QED
  BY <1>2, <1>3, <1>5

LEMMA LabelledIsADraft ==
    ASSUME NEW c \in DOMAIN Candidates, NEW d \in Drawings(c)
    PROVE  Labelled(d) \in Draft(Pool(c, d), Marks(d)) /\ Labelled(d).probes = d.probes
<1>1. d.probes \in Seq(Range(d.probes)) /\ d.labels \in Seq(Range(d.labels))
  BY DrawingsAreLists
<1>2. d.probes \in Seq(Pool(c, d))
  BY <1>1 DEF Pool
<1>3. d.labels \in Seq(Marks(d))
  BY <1>1 DEF Marks
<1>4. [i \in DOMAIN d.probes |-> "valid"] \in Seq(Marks(d))
  <2>1. DOMAIN d.probes = 1..Len(d.probes) /\ Len(d.probes) \in Nat /\ "valid" \in Marks(d)
    BY <1>1 DEF Marks
  <2> QED
    BY <2>1
<1> QED
  BY <1>2, <1>3, <1>4 DEF Labelled, Draft

\* What was drawn stays, and what is still short has had the whole battery.
LEMMA ToppedUpSays ==
    ASSUME NEW c \in DOMAIN Candidates, NEW d \in Drawings(c)
    PROVE  LET probes == ToppedUp(Subject(c), d).probes
               ops == Names(Subject(c))
           IN  /\ probes \in Seq(Pool(c, d)) /\ Range(d.probes) \subseteq Range(probes)
               /\ ~Short(Subject(c), d.probes) => probes = d.probes
               /\ Short(Subject(c), d.probes) =>
                     \A i \in 1..Len(ops), k \in 1..Len(Battery) :
                        CountOf(probes, ops[i]) < Coverage \/ Cardinality(Distinct(probes)) < Floor =>
                            <<ops[i]>> \o Battery[k].args \in Range(probes)
<1> DEFINE P == Pool(c, d)
           Q == Marks(d)
           ops == Names(Subject(c))
           covered == OfferAll(Labelled(d), Covering(Subject(c)))
           whole == OfferAll(covered, Filling(Subject(c)))
<1>1. Labelled(d) \in Draft(P, Q) /\ Labelled(d).probes = d.probes
  BY LabelledIsADraft
<1>2. /\ AllCases(c, Covering(Subject(c)), "operation") /\ Offers(Covering(Subject(c)), P, Q)
      /\ AllCases(c, Filling(Subject(c)), "total") /\ Offers(Filling(Subject(c)), P, Q)
  BY CoveringIsAll, FillingIsAll, AllCasesAreOffers
<1>3. /\ covered \in Draft(P, Q) /\ Range(d.probes) \subseteq Range(covered.probes)
      /\ \A n \in 1..Len(Covering(Subject(c))) :
            Wanted(covered, Covering(Subject(c))[n]) =>
                Covering(Subject(c))[n].probe \in Range(covered.probes)
  BY <1>1, <1>2, OfferAllSays
<1>4. /\ whole \in Draft(P, Q) /\ Range(covered.probes) \subseteq Range(whole.probes)
      /\ \A n \in 1..Len(Filling(Subject(c))) :
            Wanted(whole, Filling(Subject(c))[n]) =>
                Filling(Subject(c))[n].probe \in Range(whole.probes)
  BY <1>2, <1>3, OfferAllSays
<1> HIDE DEF covered, whole, P, Q
<1>5. ASSUME NEW i \in 1..Len(ops), NEW k \in 1..Len(Battery), CountOf(whole.probes, ops[i]) < Coverage
      PROVE  <<ops[i]>> \o Battery[k].args \in Range(whole.probes)
  <2>1. PICK n \in 1..Len(Covering(Subject(c))) :
            Covering(Subject(c))[n] = Case(ops[i], k, "operation")
    BY <1>2 DEF AllCases
  <2>2. Wanted(whole, Case(ops[i], k, "operation"))
    BY <1>5 DEF Wanted, Case
  <2>3. Wanted(covered, Case(ops[i], k, "operation"))
    BY <1>3, <1>4, <2>2, WantedBefore
  <2>4. Case(ops[i], k, "operation").probe \in Range(whole.probes)
    BY <1>3, <1>4, <2>1, <2>3
  <2> QED
    BY <2>4 DEF Case
<1>6. ASSUME NEW i \in 1..Len(ops), NEW k \in 1..Len(Battery), Cardinality(Distinct(whole.probes)) < Floor
      PROVE  <<ops[i]>> \o Battery[k].args \in Range(whole.probes)
  <2>1. PICK n \in 1..Len(Filling(Subject(c))) : Filling(Subject(c))[n] = Case(ops[i], k, "total")
    BY <1>2 DEF AllCases
  <2>2. Wanted(whole, Case(ops[i], k, "total"))
    BY <1>6 DEF Wanted, Case
  <2>3. Case(ops[i], k, "total").probe \in Range(whole.probes)
    BY <1>4, <2>1, <2>2
  <2> QED
    BY <2>3 DEF Case
<1>7. ToppedUp(Subject(c), d).probes = IF Short(Subject(c), d.probes) THEN whole.probes ELSE d.probes
  BY Zenon DEF ToppedUp, whole, covered
<1>8. whole.probes \in Seq(P) /\ d.probes \in Seq(P) /\ Range(d.probes) \subseteq Range(whole.probes)
  BY <1>1, <1>3, <1>4 DEF Draft
<1> HIDE DEF ops
<1>9. CASE Short(Subject(c), d.probes)
  BY <1>5, <1>6, <1>7, <1>8, <1>9 DEF P, ops
<1>10. CASE ~Short(Subject(c), d.probes)
  BY <1>7, <1>8, <1>10 DEF P
<1> QED
  BY <1>9, <1>10

LEMMA ComplaintsAre ==
    /\ DOMAIN Complaints = 1..5 /\ \A i \in 1..5 : Complaints[i] # "clear"
    /\ Complaints[1] = "unknown" /\ Complaints[2] = "few" /\ Complaints[3] = "thin"
<1>1. DOMAIN Complaints = 1..5 /\ \A i \in 1..5 : Complaints[i] # "clear"
  BY DEF Complaints
<1>2. Complaints[1] = "unknown" /\ Complaints[2] = "few" /\ Complaints[3] = "thin"
  BY DEF Complaints
<1> QED
  BY <1>1, <1>2

\* What is found wrong is wrong, and nothing found is nothing wrong.
LEMMA AuditedSays ==
    ASSUME NEW c, NEW d
    PROVE  /\ Audited(c, d) \in {"clear", "unknown", "few", "thin", "misaligned", "classes"}
           /\ Audited(c, d) = "clear" => \A i \in DOMAIN Complaints : ~Wrong(c, d)[Complaints[i]]
           /\ Audited(c, d) = "few" => Wrong(c, d).few
           /\ Audited(c, d) = "thin" => Wrong(c, d).thin
<1> DEFINE found == {i \in DOMAIN Complaints : Wrong(c, d)[Complaints[i]]}
           says == Audited(c, d)
<1>0. DOMAIN Complaints = 1..5
  BY ComplaintsAre
<1>1. \A i \in 1..5 : Complaints[i] # "clear"
  BY ComplaintsAre
<1>2. CASE found = {}
  <2>1. Audited(c, d) = "clear"
    BY <1>2 DEF Audited
  <2> QED
    BY <1>2, <2>1
<1>3. CASE found # {}
  <2>1. \E x \in found : \A k \in found : x <= k
    <3>1. found \subseteq DOMAIN Complaints
      OBVIOUS
    <3> HIDE DEF found
    <3>2. found \subseteq 1..5
      BY <1>0, <3>1
    <3>3. found \in SUBSET Nat
      BY <3>2
    <3> QED
      BY <1>3, <3>3, LeastNumber
  <2>2. \E i \in found : Audited(c, d) = Complaints[i]
    <3> DEFINE first == CHOOSE i \in found : \A k \in found : i <= k
    <3>1. first \in found
      <4> HIDE DEF found
      <4> QED
        BY <2>1
    <3>2. Audited(c, d) = Complaints[first]
      BY <1>3, Zenon DEF Audited
    <3> QED
      BY <3>1, <3>2
  <2>3. PICK i \in found : says = Complaints[i]
    BY <2>2
  <2>4. Wrong(c, d)[says] /\ says # "clear"
    BY <1>0, <1>1, <2>3
  <2>5. says \in {"unknown", "few", "thin", "misaligned", "classes"}
    BY <1>0, <1>1, <2>3 DEF Complaints
  <2> HIDE DEF says
  <2>6. (says = "few" => Wrong(c, d).few) /\ (says = "thin" => Wrong(c, d).thin)
    BY <2>4
  <2> QED
    BY <2>4, <2>5, <2>6 DEF says
<1> QED
  BY <1>2, <1>3

\* What clears the floors, and what explains a refusal: the formulas of the two properties.
Cleared(c, probes) ==
    LET names == Range(Names(Subject(c)))
    IN  /\ Len(probes) = Cardinality(Range(probes)) /\ Len(probes) >= Floor
        /\ Len(probes) < ProbeCount => \A op \in names : CountOf(probes, op) >= Coverage
        /\ \A i \in DOMAIN probes : \E op \in names : Starts(probes[i], op)

FewEvenSo(c, d) == Cardinality(Range(d.probes) \union Cases(Range(Names(Subject(c))))) < Floor

ThinEvenSo(c, d) ==
    \E op \in Range(Names(Subject(c))) :
        Cardinality({p \in Range(d.probes) : Starts(p, op)} \union Cases({op})) < Coverage

LEMMA JudgedIs ==
    ASSUME NEW c, NEW d
    PROVE  \/ Judged(c, d).why = "unclassified"
           \/ /\ Judged(c, d).why = Audited(c, ToppedUp(c, d))
              /\ Judged(c, d).keeps = Kept(ToppedUp(c, d).probes)
BY DEF Judged

\* The verdict on a candidate's drawing, and what it would freeze.
Why(c, d) == Judged(Subject(c), d).why
Keeps(c, d) == Judged(Subject(c), d).keeps

LEMMA JudgedClears ==
    ASSUME NEW c \in DOMAIN Candidates, NEW d \in Drawings(c),
           Why(c, d) = "clear"
    PROVE  Cleared(c, Source(Keeps(c, d)))
<1> DEFINE whole == ToppedUp(Subject(c), d)
           probes == whole.probes
           ops == Names(Subject(c))
           keeps == Kept(probes)
           drawn == Source(keeps)
<1>1. Audited(Subject(c), whole) = "clear" /\ Keeps(c, d) = keeps
  BY JudgedIs DEF Why, Keeps
<1>3. \A i \in DOMAIN Complaints : ~Wrong(Subject(c), whole)[Complaints[i]]
  BY <1>1, AuditedSays
<1> HIDE DEF whole, keeps, ops
<1>4. ~Wrong(Subject(c), whole).unknown /\ ~Wrong(Subject(c), whole).few /\ ~Wrong(Subject(c), whole).thin
  <2>1. 1 \in DOMAIN Complaints /\ 2 \in DOMAIN Complaints /\ 3 \in DOMAIN Complaints
    BY ComplaintsAre
  <2>2. /\ ~Wrong(Subject(c), whole)[Complaints[1]] /\ ~Wrong(Subject(c), whole)[Complaints[2]]
        /\ ~Wrong(Subject(c), whole)[Complaints[3]]
    BY <1>3, <2>1, Zenon
  <2> QED
    BY <2>2, ComplaintsAre, Zenon
<1>5. probes \in Seq(Pool(c, d))
  BY ToppedUpSays DEF whole
<1>6. /\ keeps \in Seq(Pool(c, d)) /\ Range(keeps) = Range(probes)
      /\ Len(keeps) = Cardinality(Range(keeps))
  BY <1>5, KeptSays DEF keeps
<1>7. Cardinality(Range(keeps)) \in Nat
  BY <1>6, ListsAreFinite
<1>8. /\ \A i \in DOMAIN probes : \E k \in DOMAIN ops : Starts(probes[i], ops[k])
      /\ ~(Cardinality(Range(probes)) < Floor)
      /\ \A k \in DOMAIN ops : ~(CountOf(probes, ops[k]) < Coverage)
  BY <1>4 DEF Wrong, Number, Distinct, ops
<1>9. Len(keeps) >= Floor
  <2>1. ~(Cardinality(Range(keeps)) < Floor)
    BY <1>6, <1>8
  <2>2. Cardinality(Range(keeps)) >= Floor
    BY <1>7, <2>1, FloorAssumption
  <2> QED
    BY <1>6, <2>2
<1>10. ASSUME NEW op \in Range(ops) PROVE CountOf(keeps, op) >= Coverage
  <2>1. CountOf(keeps, op) = CountOf(probes, op)
    BY <1>6 DEF CountOf, Distinct
  <2>2. CountOf(keeps, op) \in Nat
    <3>1. IsFiniteSet(Range(keeps))
      BY <1>6, ListsAreFinite
    <3>2. IsFiniteSet({p \in Range(keeps) : Starts(p, op)})
      BY <3>1, FS_Subset
    <3> QED
      BY <3>2, FS_CardinalityType DEF CountOf, Distinct
  <2>3. ~(CountOf(keeps, op) < Coverage)
    BY <1>8, <2>1 DEF Range
  <2> QED
    BY <2>2, <2>3, FloorAssumption
<1>11. ASSUME NEW i \in DOMAIN keeps PROVE \E op \in Range(ops) : Starts(keeps[i], op)
  <2>1. keeps[i] \in Range(probes)
    BY <1>6 DEF Range
  <2> QED
    BY <1>8, <2>1 DEF Range
<1> HIDE DEF keeps
<1>12. /\ drawn \in Seq(Pool(c, d)) /\ Range(drawn) \subseteq Range(keeps)
       /\ Len(drawn) = Cardinality(Range(drawn))
       /\ Len(drawn) = Len(keeps) \/ Len(drawn) = ProbeCount
       /\ Len(drawn) < ProbeCount => drawn = keeps
  BY <1>6, SourceSays
<1>13. Len(drawn) >= Floor
  BY <1>9, <1>12, FloorAssumption
<1>14. ASSUME NEW i \in DOMAIN drawn PROVE \E op \in Range(ops) : Starts(drawn[i], op)
  <2>1. PICK k \in DOMAIN keeps : drawn[i] = keeps[k]
    BY <1>12 DEF Range
  <2> QED
    BY <1>11, <2>1
<1> QED
  BY <1>1, <1>10, <1>12, <1>13, <1>14 DEF Cleared, ops

\* A list of the battery for one operation, or for all.
LEMMA CasesAreFinite ==
    ASSUME NEW ops, NEW drawn, NEW probes, NEW X, probes \in Seq(X), drawn \subseteq Range(probes),
           \A op \in ops, k \in 1..Len(Battery) : <<op>> \o Battery[k].args \in Range(probes)
    PROVE  drawn \union Cases(ops) \subseteq Range(probes)
<1>1. DOMAIN Battery = 1..Len(Battery)
  BY BatteryAssumption
<1>2. ASSUME NEW p \in Cases(ops) PROVE p \in Range(probes)
  <2>1. PICK pair \in ops \X DOMAIN Battery : p = <<pair[1]>> \o Battery[pair[2]].args
    BY DEF Cases
  <2>2. pair[1] \in ops /\ pair[2] \in 1..Len(Battery)
    BY <1>1
  <2> QED
    BY <2>1, <2>2
<1> QED
  BY <1>2

LEMMA JudgedShort ==
    ASSUME NEW c \in DOMAIN Candidates, NEW d \in Drawings(c)
    PROVE  /\ Why(c, d) = "few" => FewEvenSo(c, d)
           /\ Why(c, d) = "thin" => ThinEvenSo(c, d)
<1> DEFINE whole == ToppedUp(Subject(c), d)
           probes == whole.probes
           ops == Names(Subject(c))
<1>1. Why(c, d) \in {"unclassified", Audited(Subject(c), whole)}
  BY JudgedIs DEF Why
<1>2. /\ probes \in Seq(Pool(c, d)) /\ Range(d.probes) \subseteq Range(probes)
      /\ ~Short(Subject(c), d.probes) => probes = d.probes
      /\ Short(Subject(c), d.probes) =>
            \A i \in 1..Len(ops), k \in 1..Len(Battery) :
               CountOf(probes, ops[i]) < Coverage \/ Cardinality(Distinct(probes)) < Floor =>
                   <<ops[i]>> \o Battery[k].args \in Range(probes)
  BY ToppedUpSays
<1>3. DOMAIN ops = 1..Len(ops) /\ Len(ops) \in Nat
  BY OperationsAreListed
<1>4. IsFiniteSet(Range(probes)) /\ Cardinality(Range(probes)) \in Nat
  BY <1>2, ListsAreFinite
<1> HIDE DEF whole, ops
<1>5. ASSUME Why(c, d) = "few" PROVE FewEvenSo(c, d)
  <2>1. Cardinality(Range(probes)) < Floor
    <3>1. Wrong(Subject(c), whole).few
      BY <1>1, <1>5, AuditedSays
    <3> QED
      BY <3>1 DEF Wrong, Number, Distinct
  <2>2. Short(Subject(c), d.probes)
    BY <1>2, <2>1 DEF Short, Distinct
  <2>3. \A op \in Range(ops), k \in 1..Len(Battery) : <<op>> \o Battery[k].args \in Range(probes)
    BY <1>2, <1>3, <2>1, <2>2 DEF Range, Distinct
  <2>4. Range(d.probes) \union Cases(Range(ops)) \subseteq Range(probes)
    BY <1>2, <2>3, CasesAreFinite
  <2>5. /\ Cardinality(Range(d.probes) \union Cases(Range(ops))) <= Cardinality(Range(probes))
        /\ Cardinality(Range(d.probes) \union Cases(Range(ops))) \in Nat
    BY <1>4, <2>4, FS_Subset, FS_CardinalityType
  <2> QED
    BY <1>4, <2>1, <2>5, FloorAssumption DEF FewEvenSo, ops
<1>6. ASSUME Why(c, d) = "thin" PROVE ThinEvenSo(c, d)
  <2>1. PICK i \in DOMAIN ops : CountOf(probes, ops[i]) < Coverage
    <3>1. Wrong(Subject(c), whole).thin
      BY <1>1, <1>6, AuditedSays
    <3> QED
      BY <3>1 DEF Wrong, ops
  <2>2. Short(Subject(c), d.probes)
    BY <1>2, <2>1 DEF Short, ops
  <2> DEFINE drawn == {p \in Range(d.probes) : Starts(p, ops[i])}
             asked == {p \in Range(probes) : Starts(p, ops[i])}
             offered == drawn \union Cases({ops[i]})
  <2>3. \A k \in 1..Len(Battery) : <<ops[i]>> \o Battery[k].args \in Range(probes)
    BY <1>2, <1>3, <2>1, <2>2
  <2>4. offered \subseteq Range(probes)
    <3>1. drawn \subseteq Range(probes)
      BY <1>2
    <3>2. \A op \in {ops[i]}, k \in 1..Len(Battery) : <<op>> \o Battery[k].args \in Range(probes)
      BY <2>3
    <3> HIDE DEF drawn
    <3> QED
      BY <1>2, <3>1, <3>2, CasesAreFinite
  <2>5. ASSUME NEW p \in Cases({ops[i]}) PROVE Starts(p, ops[i])
    <3>1. PICK pair \in {ops[i]} \X DOMAIN Battery : p = <<pair[1]>> \o Battery[pair[2]].args
      BY DEF Cases
    <3>2. p = <<ops[i]>> \o Battery[pair[2]].args /\ pair[2] \in DOMAIN Battery
      BY <3>1
    <3>3. Battery[pair[2]].args \in Seq(Range(Battery[pair[2]].args))
      BY <3>2, BatteryAssumption
    <3> DEFINE args == Battery[pair[2]].args
    <3>4. ASSUME NEW X, NEW s \in Seq(X), NEW x PROVE <<x>> \o s # << >> /\ (<<x>> \o s)[1] = x
      <4>1. <<x>> \in Seq(X \union {x}) /\ s \in Seq(X \union {x})
        OBVIOUS
      <4> QED
        BY <4>1
    <3> QED
      BY <3>2, <3>3, <3>4 DEF Starts
  <2>6. offered \subseteq asked
    BY <2>4, <2>5
  <2>7. IsFiniteSet(asked)
    BY <1>4, FS_Subset
  <2> HIDE DEF offered, asked
  <2>8. /\ Cardinality(offered) <= Cardinality(asked)
        /\ Cardinality(offered) \in Nat /\ Cardinality(asked) \in Nat
    BY <2>6, <2>7, FS_Subset, FS_CardinalityType
  <2>9. Cardinality(asked) < Coverage
    BY <2>1 DEF asked, CountOf, Distinct
  <2>10. Cardinality(offered) < Coverage
    BY <2>8, <2>9, FloorAssumption
  <2>11. ops[i] \in Range(ops)
    BY DEF Range
  <2> QED
    BY <2>10, <2>11 DEF ThinEvenSo, offered, ops
<1> QED
  BY <1>5, <1>6

-----------------------------------------------------------------------------
(* From the candidate taken to the corpus frozen, worker by worker.        *)

PastAt == {"freeze", "bite", "emit", "describe", "replay"}

\* What a worker at a stage has in hand: candidates left, the one located, what was drawn of it,
\* the corpus, and what became of the candidates before it.
InOrder(stage, left, m, d, probes, gone) ==
    /\ left \in Seq(DOMAIN Candidates) /\ (stage # "find" => left # << >>)
    /\ stage \in LocatedAt \union BuiltAt => m \in DOMAIN Candidates
    /\ stage = "audit" => d \in Drawings(m)
    /\ stage \in PastAt /\ Subject(m).scale = "package" => Cleared(m, probes)
    /\ gone \in Seq(Range(gone))
    /\ stage = "find" /\ gone # << >> =>
          /\ Last(gone).how = "few" => FewEvenSo(m, d)
          /\ Last(gone).how = "thin" => ThinEvenSo(m, d)

CorpusInv ==
    /\ DOMAIN at = Jobs /\ DOMAIN queue = Jobs /\ DOMAIN material = Jobs
    /\ DOMAIN drawing = Jobs /\ DOMAIN corpus = Jobs /\ DOMAIN ended = Jobs
    /\ \A j \in Jobs : InOrder(at[j], queue[j], material[j], drawing[j], corpus[j], ended[j])

\* It is enough to look at the worker that moves.
LEMMA MovesInOrder ==
    ASSUME CorpusInv, NEW j \in Jobs, NEW stage, NEW left, NEW m, NEW d, NEW probes, NEW gone,
           at' = [at EXCEPT ![j] = stage] \/ (UNCHANGED at /\ stage = at[j]),
           queue' = [queue EXCEPT ![j] = left] \/ (UNCHANGED queue /\ left = queue[j]),
           material' = [material EXCEPT ![j] = m] \/ (UNCHANGED material /\ m = material[j]),
           drawing' = [drawing EXCEPT ![j] = d] \/ (UNCHANGED drawing /\ d = drawing[j]),
           corpus' = [corpus EXCEPT ![j] = probes] \/ (UNCHANGED corpus /\ probes = corpus[j]),
           ended' = [ended EXCEPT ![j] = gone] \/ (UNCHANGED ended /\ gone = ended[j]),
           InOrder(stage, left, m, d, probes, gone)
    PROVE  CorpusInv'
<1>1. /\ j \in DOMAIN at /\ j \in DOMAIN queue /\ j \in DOMAIN material
      /\ j \in DOMAIN drawing /\ j \in DOMAIN corpus /\ j \in DOMAIN ended
  BY DEF CorpusInv
<1>2. ASSUME NEW f, NEW g, NEW x, j \in DOMAIN f,
             g = [f EXCEPT ![j] = x] \/ (g = f /\ x = f[j])
      PROVE  DOMAIN g = DOMAIN f /\ g[j] = x /\ \A k \in DOMAIN f \ {j} : g[k] = f[k]
  BY <1>2
<1>3. /\ DOMAIN at' = Jobs /\ at'[j] = stage /\ \A k \in Jobs \ {j} : at'[k] = at[k]
      /\ DOMAIN queue' = Jobs /\ queue'[j] = left /\ \A k \in Jobs \ {j} : queue'[k] = queue[k]
  BY <1>1, <1>2 DEF CorpusInv
<1>4. /\ DOMAIN material' = Jobs /\ material'[j] = m
      /\ \A k \in Jobs \ {j} : material'[k] = material[k]
      /\ DOMAIN drawing' = Jobs /\ drawing'[j] = d
      /\ \A k \in Jobs \ {j} : drawing'[k] = drawing[k]
  BY <1>1, <1>2 DEF CorpusInv
<1>5. /\ DOMAIN corpus' = Jobs /\ corpus'[j] = probes
      /\ \A k \in Jobs \ {j} : corpus'[k] = corpus[k]
      /\ DOMAIN ended' = Jobs /\ ended'[j] = gone /\ \A k \in Jobs \ {j} : ended'[k] = ended[k]
  BY <1>1, <1>2 DEF CorpusInv
<1>6. ASSUME NEW k \in Jobs
      PROVE  InOrder(at'[k], queue'[k], material'[k], drawing'[k], corpus'[k], ended'[k])
  <2>1. CASE k = j
    BY <1>3, <1>4, <1>5, <2>1
  <2>2. CASE k # j
    BY <1>3, <1>4, <1>5, <2>2 DEF CorpusInv
  <2> QED
    BY <2>1, <2>2
<1> QED
  BY <1>3, <1>4, <1>5, <1>6 DEF CorpusInv

\* A worker that goes to another stage with what it had.
LEMMA GoesInOrder ==
    ASSUME CorpusInv, NEW j \in Jobs, NEW stage, Go(j, stage),
           UNCHANGED <<material, drawing, corpus>>, stage \notin {"find", "audit"},
           at[j] # "find" \/ queue[j] # << >>,
           stage \in LocatedAt \union BuiltAt => at[j] \in LocatedAt \union BuiltAt,
           stage \in PastAt => at[j] \in PastAt \/ Subject(material[j]).scale # "package"
    PROVE  CorpusInv'
<1>1. InOrder(at[j], queue[j], material[j], drawing[j], corpus[j], ended[j])
  BY DEF CorpusInv
<1>2. InOrder(stage, queue[j], material[j], drawing[j], corpus[j], ended[j])
  BY <1>1 DEF InOrder
<1>3. at' = [at EXCEPT ![j] = stage] /\ UNCHANGED <<queue, ended>>
  BY DEF Go
<1> QED
  BY <1>2, <1>3, MovesInOrder

\* A candidate that leaves, and why.
LEMMA EndsInOrder ==
    ASSUME CorpusInv, NEW j \in Jobs, NEW how, NEW whose, End(j, how, whose),
           UNCHANGED <<material, drawing, corpus>>,
           at[j] # "find" \/ queue[j] # << >>,
           how = "few" => FewEvenSo(material[j], drawing[j]),
           how = "thin" => ThinEvenSo(material[j], drawing[j])
    PROVE  CorpusInv'
<1> DEFINE outcome == [of |-> InHand(j), how |-> how, whose |-> whose]
           gone == Append(ended[j], outcome)
           left == Tail(queue[j])
<1>1. InOrder(at[j], queue[j], material[j], drawing[j], corpus[j], ended[j])
  BY DEF CorpusInv
<1>2. j \in DOMAIN ended /\ j \in DOMAIN queue
  BY DEF CorpusInv
<1>3. ended' = [ended EXCEPT ![j] = gone] /\ queue' = [queue EXCEPT ![j] = left]
      /\ at' = [at EXCEPT ![j] = "find"]
  BY <1>2 DEF End
<1>4. queue[j] \in Seq(DOMAIN Candidates) /\ queue[j] # << >>
  BY <1>1 DEF InOrder
<1>5. left \in Seq(DOMAIN Candidates)
  BY <1>4, HeadTailProperties
<1>6. gone \in Seq(Range(gone)) /\ Last(gone) = outcome
  <2>1. ended[j] \in Seq(Range(ended[j]))
    BY <1>1 DEF InOrder
  <2>2. ended[j] \in Seq(Range(ended[j]) \union {outcome})
    BY <2>1
  <2> HIDE DEF outcome
  <2>3. /\ gone \in Seq(Range(ended[j]) \union {outcome}) /\ Len(gone) = Len(ended[j]) + 1
        /\ Range(gone) = Range(ended[j]) \union {outcome} /\ gone[Len(ended[j]) + 1] = outcome
    BY <2>2, AppendSays
  <2> QED
    BY <2>3 DEF Last
<1>7. outcome.how = how
  OBVIOUS
<1> HIDE DEF outcome, gone, left
<1>8. "find" \notin LocatedAt \union BuiltAt /\ "find" \notin PastAt
  BY DEF LocatedAt, BuiltAt, PastAt
<1>9. InOrder("find", left, material[j], drawing[j], corpus[j], gone)
  BY <1>5, <1>6, <1>7, <1>8 DEF InOrder
<1> QED
  BY <1>3, <1>9, MovesInOrder

\* The next candidate is located: what was drawn of the last one is gone.
LEMMA LocatedInOrder ==
    ASSUME CorpusInv, NEW j \in Jobs, at[j] # "find", Located(j)
    PROVE  CorpusInv'
<1>1. InOrder(at[j], queue[j], material[j], drawing[j], corpus[j], ended[j])
  BY DEF CorpusInv
<1>2. CASE Refuse(j, "could not specify", "material") /\ UNCHANGED hand
  <2>1. End(j, "could not specify", "material") /\ UNCHANGED <<material, drawing, corpus>>
    BY <1>2 DEF Refuse, hand
  <2> QED
    BY <2>1, EndsInOrder
<1>3. CASE Fresh(j, InHand(j)) /\ Go(j, "name")
  <2>1. /\ at' = [at EXCEPT ![j] = "name"] /\ UNCHANGED <<queue, ended>>
        /\ material' = [material EXCEPT ![j] = InHand(j)]
        /\ drawing' = [drawing EXCEPT ![j] = NoDrawing] /\ corpus' = [corpus EXCEPT ![j] = << >>]
    BY <1>3 DEF Fresh, Go
  <2>2. InHand(j) \in DOMAIN Candidates
    <3>1. queue[j] \in Seq(DOMAIN Candidates) /\ queue[j] # << >>
      BY <1>1 DEF InOrder
    <3> QED
      BY <3>1, HeadTailProperties DEF InHand
  <2>3. InOrder("name", queue[j], InHand(j), NoDrawing, << >>, ended[j])
    BY <1>1, <2>2 DEF InOrder, PastAt
  <2> QED
    BY <2>1, <2>3, MovesInOrder
<1> QED
  BY <1>2, <1>3 DEF Located

\* A drawing goes to its audit.
LEMMA DrawnInOrder ==
    ASSUME CorpusInv, NEW j \in Jobs, at[j] \in BuiltAt, UNCHANGED <<material, corpus>>,
           NEW d \in Drawings(material[j]), Drawn(j, d)
    PROVE  CorpusInv'
<1>1. InOrder(at[j], queue[j], material[j], drawing[j], corpus[j], ended[j])
  BY DEF CorpusInv
<1>2. /\ at' = [at EXCEPT ![j] = "audit"] /\ UNCHANGED <<queue, ended>>
      /\ drawing' = [drawing EXCEPT ![j] = d]
  BY DEF Drawn, Go
<1>3. at[j] # "find" /\ "audit" \notin PastAt
  BY DEF BuiltAt, PastAt
<1>4. InOrder("audit", queue[j], material[j], d, corpus[j], ended[j])
  BY <1>1, <1>3 DEF InOrder
<1> QED
  BY <1>2, <1>4, MovesInOrder

\* What is no list of argument lists is refused as it is.
LEMMA MisshapenInOrder ==
    ASSUME CorpusInv, NEW j \in Jobs, at[j] # "find", UNCHANGED <<material, corpus>>, Misshapen(j)
    PROVE  CorpusInv'
<1>1. End(j, "no list of argument lists", "material") /\ UNCHANGED drawing
  BY DEF Misshapen, Refuse
<1> QED
  BY <1>1, EndsInOrder

\* What passes the audit clears the floors; what does not is refused for what it is.
LEMMA AuditInOrder ==
    ASSUME CorpusInv, NEW j \in Jobs, Audit(j)
    PROVE  CorpusInv'
<1> DEFINE c == material[j]
           d == drawing[j]
           judged == Judgements[c][d]
<1>1. InOrder(at[j], queue[j], c, d, corpus[j], ended[j])
  BY DEF CorpusInv
<1>2. at[j] = "audit" /\ UNCHANGED <<material, drawing>>
  BY DEF Audit
<1>3. c \in DOMAIN Candidates /\ d \in Drawings(c)
  BY <1>1, <1>2 DEF InOrder, BuiltAt
<1>4. judged = Judged(Subject(c), d)
  BY <1>3 DEF Judgements
<1>5. judged.why = Why(c, d) /\ judged.keeps = Keeps(c, d)
  BY <1>4 DEF Why, Keeps
<1>6. \/ (\E whose : Refuse(j, judged.why, whose)) /\ UNCHANGED corpus
      \/ judged.why = "clear" /\ Go(j, "freeze") /\ corpus' = [corpus EXCEPT ![j] = Source(judged.keeps)]
  BY DEF Audit
<1> HIDE DEF c, d, judged
<1>7. ASSUME NEW whose, Refuse(j, Why(c, d), whose), UNCHANGED corpus PROVE CorpusInv'
  <2>1. End(j, Why(c, d), whose)
    BY <1>7 DEF Refuse
  <2>2. (Why(c, d) = "few" => FewEvenSo(c, d)) /\ (Why(c, d) = "thin" => ThinEvenSo(c, d))
    BY <1>3, JudgedShort
  <2> QED
    BY <1>2, <1>7, <2>1, <2>2, EndsInOrder DEF c, d
<1>8. CASE Why(c, d) = "clear" /\ Go(j, "freeze") /\ corpus' = [corpus EXCEPT ![j] = Source(Keeps(c, d))]
  <2>1. Cleared(c, Source(Keeps(c, d)))
    BY <1>3, <1>8, JudgedClears
  <2>2. InOrder("freeze", queue[j], c, d, Source(Keeps(c, d)), ended[j])
    BY <1>1, <1>2, <1>3, <2>1 DEF InOrder
  <2>3. at' = [at EXCEPT ![j] = "freeze"] /\ UNCHANGED <<queue, ended>>
    BY <1>8 DEF Go
  <2> QED
    BY <1>2, <1>8, <2>2, <2>3, MovesInOrder DEF c, d
<1> QED
  BY <1>5, <1>6, <1>7, <1>8

LEMMA DrawInOrder ==
    ASSUME CorpusInv, NEW j \in Jobs, Draw(j)
    PROVE  CorpusInv'
<1>1. InOrder(at[j], queue[j], material[j], drawing[j], corpus[j], ended[j])
  BY DEF CorpusInv
<1>2. at[j] = "probes" /\ UNCHANGED material /\ at[j] \in BuiltAt /\ at[j] \in LocatedAt \union BuiltAt
  BY DEF Draw, BuiltAt
<1>3. CASE /\ Subject(material[j]).scale # "package" /\ UNCHANGED drawing /\ Go(j, "freeze")
           /\ corpus' = [corpus EXCEPT ![j] = Sampled[material[j]]]
  <2>1. at' = [at EXCEPT ![j] = "freeze"] /\ UNCHANGED <<queue, ended>>
    BY <1>3 DEF Go
  <2>2. InOrder("freeze", queue[j], material[j], drawing[j], Sampled[material[j]], ended[j])
    BY <1>1, <1>2, <1>3 DEF InOrder
  <2> QED
    BY <1>2, <1>3, <2>1, <2>2, MovesInOrder
<1>4. CASE UNCHANGED corpus /\ \E d \in Drawings(material[j]) : Drawn(j, d)
  BY <1>2, <1>4, DrawnInOrder
<1>6. CASE UNCHANGED corpus /\ Misshapen(j)
  BY <1>2, <1>6, MisshapenInOrder
<1>5. CASE Go(j, "repair") /\ UNCHANGED <<drawing, corpus>>
  <2>1. "repair" \notin PastAt
    BY DEF PastAt
  <2> QED
    BY <1>2, <1>5, <2>1, GoesInOrder
<1> QED
  BY <1>3, <1>4, <1>5, <1>6 DEF Draw

LEMMA RepairInOrder ==
    ASSUME CorpusInv, NEW j \in Jobs, Repair(j)
    PROVE  CorpusInv'
<1>1. at[j] = "repair" /\ UNCHANGED <<material, corpus>> /\ at[j] \in BuiltAt
  BY DEF Repair, BuiltAt
<1>2. \/ \E d \in Drawings(material[j]) : Drawn(j, d)
      \/ Misshapen(j)
      \/ (\E whose : Refuse(j, "no probes could be drawn", whose)) /\ UNCHANGED drawing
  BY Zenon DEF Repair
<1>3. CASE \E d \in Drawings(material[j]) : Drawn(j, d)
  BY <1>1, <1>3, DrawnInOrder
<1>4. ASSUME NEW whose, Refuse(j, "no probes could be drawn", whose), UNCHANGED drawing
      PROVE  CorpusInv'
  <2>1. End(j, "no probes could be drawn", whose)
    BY <1>4 DEF Refuse
  <2> QED
    BY <1>1, <1>4, <2>1, EndsInOrder
<1>5. CASE Misshapen(j)
  BY <1>1, <1>5, MisshapenInOrder
<1> QED
  BY <1>2, <1>3, <1>4, <1>5

\* A candidate that leaves for anything but a corpus too small.
Leaves(j) == \E how, whose : End(j, how, whose) /\ how \notin {"few", "thin"}

LEMMA LeavesFor ==
    ASSUME NEW j \in Jobs, NEW how, NEW whose, End(j, how, whose), how \notin {"few", "thin"}
    PROVE  Leaves(j)
BY DEF Leaves

\* A worker that asks, takes, freezes, bites or writes, and one that leaves for another reason.
LEMMA OthersInOrder ==
    ASSUME CorpusInv, NEW j \in Jobs, UNCHANGED <<material, drawing, corpus>>,
           at[j] # "find" \/ queue[j] # << >>,
           \/ Leaves(j)
           \/ UNCHANGED <<at, queue, ended>>
           \/ \E stage : /\ Go(j, stage) /\ stage \notin {"find", "audit"}
                         /\ stage \in LocatedAt \union BuiltAt => at[j] \in LocatedAt \union BuiltAt
                         /\ stage \in PastAt => at[j] \in PastAt
    PROVE  CorpusInv'
<1>1. CASE Leaves(j)
  BY <1>1, EndsInOrder DEF Leaves
<1>2. CASE UNCHANGED <<at, queue, ended>>
  BY <1>2 DEF CorpusInv
<1>3. ASSUME NEW stage, Go(j, stage), stage \notin {"find", "audit"},
             stage \in LocatedAt \union BuiltAt => at[j] \in LocatedAt \union BuiltAt,
             stage \in PastAt => at[j] \in PastAt
      PROVE  CorpusInv'
  BY <1>3, GoesInOrder
<1> QED
  BY <1>1, <1>2, <1>3

LEMMA CorpusStart == Init => CorpusInv
<1> SUFFICES ASSUME Init PROVE CorpusInv
  OBVIOUS
<1>1. /\ DOMAIN at = Jobs /\ DOMAIN queue = Jobs /\ DOMAIN material = Jobs
      /\ DOMAIN drawing = Jobs /\ DOMAIN corpus = Jobs /\ DOMAIN ended = Jobs
  <2>1. queue \in [Jobs -> Seq(DOMAIN Candidates)]
    BY BatchAssumption DEF Init
  <2> QED
    BY <2>1 DEF Init
<1>2. ASSUME NEW j \in Jobs
      PROVE  InOrder(at[j], queue[j], material[j], drawing[j], corpus[j], ended[j])
  <2>1. queue[j] \in Seq(DOMAIN Candidates)
    BY BatchAssumption DEF Init
  <2>2. at[j] = "find" /\ ended[j] = << >>
    BY DEF Init
  <2>3. << >> \in Seq(Range(<< >>))
    OBVIOUS
  <2> QED
    BY <2>1, <2>2, <2>3 DEF InOrder, LocatedAt, BuiltAt, PastAt
<1> QED
  BY <1>1, <1>2 DEF CorpusInv

LEMMA CorpusStep ==
    ASSUME CorpusInv, NEW j \in Jobs, Work(j)
    PROVE  CorpusInv'
<1> USE DEF LocatedAt, BuiltAt, PastAt
<1>1. CASE Find(j)
  <2>1. queue[j] # << >> /\ UNCHANGED <<material, drawing, corpus>>
    BY <1>1 DEF Find, hand
  <2>2. Leaves(j) \/ Go(j, "specify")
    BY <1>1, LeavesFor DEF Find, Refuse
  <2> QED
    BY <2>1, <2>2, OthersInOrder
<1>2. CASE Specify(j)
  <2>1. at[j] = "specify"
    BY <1>2 DEF Specify
  <2>2. \/ Located(j)
        \/ UNCHANGED hand /\ (End(j, "could not specify", "material") \/ Go(j, "generator"))
    BY <1>2 DEF Specify, Refuse
  <2>3. CASE Located(j)
    BY <2>1, <2>3, LocatedInOrder
  <2>4. CASE UNCHANGED hand /\ (End(j, "could not specify", "material") \/ Go(j, "generator"))
    <3>1. Leaves(j) \/ Go(j, "generator")
      BY <2>4, LeavesFor
    <3>2. UNCHANGED <<material, drawing, corpus>>
      BY <2>4 DEF hand
    <3> QED
      BY <2>1, <3>1, <3>2, OthersInOrder
  <2> QED
    BY <2>2, <2>3, <2>4
<1>3. CASE Generator(j)
  <2>1. at[j] = "generator"
    BY <1>3 DEF Generator
  <2>2. Located(j) \/ (UNCHANGED hand /\ \E whose : End(j, "could not specify", whose))
    BY <1>3 DEF Generator, Refuse
  <2>3. CASE Located(j)
    BY <2>1, <2>3, LocatedInOrder
  <2>4. CASE UNCHANGED hand /\ \E whose : End(j, "could not specify", whose)
    <3>1. Leaves(j)
      BY <2>4, LeavesFor
    <3>2. UNCHANGED <<material, drawing, corpus>>
      BY <2>4 DEF hand
    <3> QED
      BY <2>1, <3>1, <3>2, OthersInOrder
  <2> QED
    BY <2>2, <2>3, <2>4
<1>4. CASE NameIt(j)
  <2>1. at[j] = "name" /\ UNCHANGED <<material, drawing, corpus>>
    BY <1>4 DEF NameIt, Called, hand
  <2>2. UNCHANGED <<at, queue, ended>> \/ Go(j, "build")
    BY <1>4 DEF NameIt
  <2> QED
    BY <2>1, <2>2, OthersInOrder
<1>5. CASE Build(j)
  <2>1. at[j] = "build" /\ UNCHANGED <<material, drawing, corpus>>
    BY <1>5 DEF Build
  <2>2. \/ \E whose : End(j, "reference will not build", whose)
        \/ \E whose : End(j, "build execution unavailable", whose)
        \/ Go(j, "probes")
    BY <1>5, Zenon DEF Build, Refuse
  <2>3. Leaves(j) \/ Go(j, "probes")
    BY <2>2, LeavesFor
  <2> QED
    BY <2>1, <2>3, OthersInOrder
<1>6. CASE Draw(j)
  BY <1>6, DrawInOrder
<1>7. CASE Repair(j)
  BY <1>7, RepairInOrder
<1>8. CASE Audit(j)
  BY <1>8, AuditInOrder
<1>9. CASE Freeze(j)
  <2>1. at[j] = "freeze" /\ UNCHANGED <<material, drawing, corpus>>
    BY <1>9 DEF Freeze, hand
  <2>2. \/ \E whose : End(j, "freeze unavailable", whose)
        \/ \E whose : End(j, "refused every probe", whose)
        \/ Go(j, "bite")
    BY <1>9, Zenon DEF Freeze, Refuse
  <2>3. Leaves(j) \/ Go(j, "bite")
    BY <2>2, LeavesFor
  <2> QED
    BY <2>1, <2>3, OthersInOrder
<1>10. CASE Bite(j)
  <2>1. at[j] = "bite" /\ UNCHANGED <<material, drawing, corpus>>
    BY <1>10 DEF Bite
  <2>2. (\E whose : End(j, "inconclusive", whose)) \/ Go(j, "emit")
    BY <1>10, Zenon DEF Bite, Refuse
  <2>3. Leaves(j) \/ Go(j, "emit")
    BY <2>2, LeavesFor
  <2> QED
    BY <2>1, <2>3, OthersInOrder
<1>11. CASE Emit(j)
  BY <1>11, OthersInOrder DEF Emit
<1>12. CASE Describe(j)
  <2>1. at[j] = "describe" /\ UNCHANGED <<material, drawing, corpus>>
    BY <1>12 DEF Describe, Written, hand
  <2>2. UNCHANGED <<at, queue, ended>> \/ Go(j, "replay")
    BY <1>12 DEF Describe, Written
  <2> QED
    BY <2>1, <2>2, OthersInOrder
<1>13. CASE Replay(j)
  <2>1. at[j] = "replay" /\ UNCHANGED <<material, drawing, corpus>>
    BY <1>13 DEF Replay, hand
  <2>2. \/ End(j, "emitted", "nobody") \/ End(j, "replay unavailable", "factory")
        \/ End(j, "does not reproduce itself", "factory")
    BY <1>13, Zenon DEF Replay
  <2>3. Leaves(j)
    BY <2>2, LeavesFor
  <2> QED
    BY <2>1, <2>3, OthersInOrder
<1>14. CASE Asked(j)
  BY <1>14 DEF Asked, hand, CorpusInv
<1> QED
  BY <1>1, <1>2, <1>3, <1>4, <1>5, <1>6, <1>7, <1>8, <1>9, <1>10, <1>11, <1>12, <1>13, <1>14
     DEF Work

LEMMA CorpusInductive == CorpusInv /\ [Next]_vars => CorpusInv'
<1>1. ASSUME CorpusInv, Next PROVE CorpusInv'
  BY <1>1, CorpusStep DEF Next
<1>2. ASSUME CorpusInv, UNCHANGED vars PROVE CorpusInv'
  BY <1>2 DEF vars, hand, CorpusInv
<1> QED
  BY <1>1, <1>2

\* Whatever a generator prints, whoever repaired it, however much the battery had to add and wherever
\* the source cuts the list: what is frozen for a package repeats nothing, reaches the floor and asks
\* for operations of its contract only, and as long as nothing was cut it asks each of them as often
\* as the audit demands (src/frf/scales/package.py:655-702, the pairing at 461-473, ProbeSource 73-78).
THEOREM CorpusAlwaysClearsTheFloors == Spec => []CorpusClearsTheFloors
<1>1. CorpusInv => CorpusClearsTheFloors
  <2> SUFFICES ASSUME CorpusInv, NEW j \in Jobs, Past(j), Subject(material[j]).scale = "package"
               PROVE  Cleared(material[j], corpus[j])
    BY DEF CorpusClearsTheFloors, Cleared
  <2> QED
    BY DEF CorpusInv, InOrder, Past, PastAt
<1> QED
  BY <1>1, CorpusStart, CorpusInductive, PTL DEF Spec

\* The rescue tops up a corpus for the very number the audit condemns it by: one refused as too small
\* would have been so with the whole battery added to what was drawn
\* (src/frf/scales/package.py:391-396, 441-460).
THEOREM RescueAlwaysReadsTheAuditsNumber == Spec => []RescueReadsTheAuditsNumber
<1>1. CorpusInv => RescueReadsTheAuditsNumber
  <2> SUFFICES ASSUME CorpusInv, NEW j \in Jobs, at[j] = "find", ended[j] # << >>
               PROVE  /\ Last(ended[j]).how = "few" => FewEvenSo(material[j], drawing[j])
                      /\ Last(ended[j]).how = "thin" => ThinEvenSo(material[j], drawing[j])
    BY DEF RescueReadsTheAuditsNumber, FewEvenSo, ThinEvenSo
  <2> QED
    BY DEF CorpusInv, InOrder
<1> QED
  BY <1>1, CorpusStart, CorpusInductive, PTL DEF Spec

=============================================================================
