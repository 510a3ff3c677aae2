----------------------------- MODULE RollProofs -----------------------------
(***************************************************************************)
(* What TLAPS proves about rolls, for every number of jobs, candidates,    *)
(* workers and slots, every target, attempt limit and cap, and every       *)
(* number of failing set-ups.                                              *)
(***************************************************************************)
EXTENDS Roll, FiniteSetTheorems, SequenceTheorems, TLAPS

\* An index lists its candidates by number, and nobody lists one twice.
LEMMA SuppliesAreNumbered ==
    ASSUME NEW j \in Jobs
    PROVE  /\ Len(Supply[j]) \in Nat
           /\ DOMAIN Supply[j] = 1..Len(Supply[j])
           /\ \A i \in 1..Len(Supply[j]) :
                 Supply[j][i] \in Candidates /\ Supply[j][i] \in Listed(j)
           /\ \A k \in Jobs : \A a \in 1..Len(Supply[j]), b \in 1..Len(Supply[k]) :
                 Supply[j][a] = Supply[k][b] => j = k /\ a = b
           /\ \A c \in Listed(j) : \E i \in 1..Len(Supply[j]) : c = Supply[j][i]
           /\ Listed(j) \subseteq Candidates
           /\ ScaleOf[j] \in Scales
<1>1. Supply[j] \in Seq(Candidates)
  BY SupplyAssumption
<1>2. Len(Supply[j]) \in Nat /\ DOMAIN Supply[j] = 1..Len(Supply[j])
  BY <1>1, LenProperties
<1>3. \A k \in Jobs : DOMAIN Supply[k] = 1..Len(Supply[k])
  <2> TAKE k \in Jobs
  <2>1. Supply[k] \in Seq(Candidates)
    BY SupplyAssumption
  <2> QED
    BY <2>1, LenProperties
<1>4. \A i \in 1..Len(Supply[j]) : Supply[j][i] \in Candidates
  BY <1>1, ElementOfSeq
<1>5. ScaleOf[j] \in Scales
  BY SupplyAssumption
<1>6. \A k \in Jobs : \A a \in 1..Len(Supply[j]), b \in 1..Len(Supply[k]) :
         Supply[j][a] = Supply[k][b] => j = k /\ a = b
  BY <1>2, <1>3, SupplyAssumption
<1> QED
  BY <1>2, <1>4, <1>5, <1>6 DEF Listed, Candidates

\* Two jobs share no candidate.
LEMMA JobsShareNothing ==
    ASSUME NEW j \in Jobs, NEW k \in Jobs, NEW c \in Listed(j), c \in Listed(k)
    PROVE  j = k
BY SuppliesAreNumbered

-----------------------------------------------------------------------------
(* Where the candidates of a job stand in its supply. *)

\* TypeOK, but for the number of slots.
Typed ==
    /\ phase \in [Jobs -> {"find", "fill", "accept", "wave", "done"}]
    /\ served \in [Jobs -> Nat]
    /\ batch \in [Jobs -> Seq(Candidates)]
    /\ attempted \in [Jobs -> Nat]
    /\ short \in [Jobs -> BOOLEAN]
    /\ state \in [Candidates -> States]
    /\ count \in [Scales -> [Repositories -> Nat]]
    /\ free \in Nat
    /\ leaked \in Nat

\* What was not served is unsourced, and the batch is the end of what was.
Supplied(j) ==
    /\ served[j] <= Len(Supply[j])
    /\ \A i \in 1..Len(Supply[j]) : i > served[j] => state[Supply[j][i]] = "unsourced"
    /\ Len(batch[j]) <= served[j]
    /\ \A i \in 1..Len(batch[j]) :
          /\ batch[j][i] = Supply[j][served[j] - Len(batch[j]) + i]
          /\ state[batch[j][i]] = "sourced"
    /\ phase[j] = "accept" => batch[j] # << >>

SupplyInv == Typed /\ \A j \in Jobs : Supplied(j)

\* The candidates of a batch are the job's.
LEMMA BatchIsListed ==
    ASSUME SupplyInv, NEW j \in Jobs
    PROVE  /\ Len(batch[j]) \in Nat
           /\ DOMAIN batch[j] = 1..Len(batch[j])
           /\ \A i \in 1..Len(batch[j]) :
                 /\ served[j] - Len(batch[j]) + i \in 1..Len(Supply[j])
                 /\ batch[j][i] \in Listed(j)
<1>1. batch[j] \in Seq(Candidates) /\ served[j] \in Nat
  BY DEF SupplyInv, Typed
<1>2. Len(batch[j]) \in Nat /\ DOMAIN batch[j] = 1..Len(batch[j])
  BY <1>1, LenProperties
<1>3. Supplied(j)
  BY DEF SupplyInv
<1>4. \A i \in 1..Len(batch[j]) : served[j] - Len(batch[j]) + i \in 1..Len(Supply[j])
  <2>1. Len(batch[j]) <= served[j] /\ served[j] <= Len(Supply[j])
    BY <1>3 DEF Supplied
  <2>2. Len(Supply[j]) \in Nat
    BY SuppliesAreNumbered
  <2> QED
    BY <1>1, <1>2, <2>1, <2>2
<1>5. ASSUME NEW i \in 1..Len(batch[j]) PROVE batch[j][i] \in Listed(j)
  <2>1. batch[j][i] = Supply[j][served[j] - Len(batch[j]) + i]
    BY <1>3 DEF Supplied
  <2> QED
    BY <1>4, <2>1, SuppliesAreNumbered
<1> QED
  BY <1>2, <1>4, <1>5

\* The head of a batch, and what is left of it.
LEMMA BatchHead ==
    ASSUME SupplyInv, NEW j \in Jobs, batch[j] # << >>
    PROVE  /\ Head(batch[j]) \in Listed(j)
           /\ state[Head(batch[j])] = "sourced"
           /\ Tail(batch[j]) \in Seq(Candidates)
           /\ Len(batch[j]) \in Nat \ {0}
           /\ Len(Tail(batch[j])) = Len(batch[j]) - 1
           /\ \A i \in 1..Len(Tail(batch[j])) :
                 /\ Tail(batch[j])[i] = batch[j][i + 1]
                 /\ Tail(batch[j])[i] # Head(batch[j])
           /\ \A i \in 1..Len(Supply[j]) : i > served[j] => Supply[j][i] # Head(batch[j])
<1>1. batch[j] \in Seq(Candidates) /\ served[j] \in Nat /\ Supplied(j)
  BY DEF SupplyInv, Typed
<1>2. Len(batch[j]) \in Nat \ {0}
  BY <1>1, EmptySeq
<1>3. /\ Tail(batch[j]) \in Seq(Candidates)
      /\ Len(Tail(batch[j])) = Len(batch[j]) - 1
      /\ \A i \in 1..Len(Tail(batch[j])) : Tail(batch[j])[i] = batch[j][i + 1]
  BY <1>1, HeadTailProperties
<1>4. Head(batch[j]) = batch[j][1]
  BY <1>1
<1>5. 1 \in 1..Len(batch[j])
  BY <1>2
<1>6. Head(batch[j]) = Supply[j][served[j] - Len(batch[j]) + 1] /\ state[Head(batch[j])] = "sourced"
  BY <1>1, <1>4, <1>5 DEF Supplied
<1>7. \A i \in 1..Len(Tail(batch[j])) : Tail(batch[j])[i] # Head(batch[j])
  <2> SUFFICES ASSUME NEW i \in 1..Len(Tail(batch[j])), Tail(batch[j])[i] = Head(batch[j]) PROVE FALSE
    OBVIOUS
  <2>1. i + 1 \in 1..Len(batch[j]) /\ i \in Nat \ {0}
    BY <1>2, <1>3
  <2>2. batch[j][i + 1] = Supply[j][served[j] - Len(batch[j]) + (i + 1)]
    BY <1>1, <2>1 DEF Supplied
  <2>3. /\ served[j] - Len(batch[j]) + (i + 1) \in 1..Len(Supply[j])
        /\ served[j] - Len(batch[j]) + 1 \in 1..Len(Supply[j])
    BY <1>5, <2>1, BatchIsListed
  <2>4. served[j] - Len(batch[j]) + (i + 1) = served[j] - Len(batch[j]) + 1
    BY <1>3, <1>6, <2>2, <2>3, SuppliesAreNumbered
  <2> QED
    BY <1>1, <1>2, <2>1, <2>4
<1>8. \A i \in 1..Len(Supply[j]) : i > served[j] => Supply[j][i] # Head(batch[j])
  BY <1>1, <1>6 DEF Supplied
<1> QED
  BY <1>2, <1>3, <1>4, <1>5, <1>6, <1>7, <1>8, BatchIsListed

\* A supply is finite.
LEMMA ListedIsFinite ==
    ASSUME NEW j \in Jobs, NEW S \in SUBSET Listed(j)
    PROVE  IsFiniteSet(S) /\ Cardinality(S) \in Nat
<1>1. Supply[j] \in Seq(Candidates)
  BY SupplyAssumption
<1>2. Supply[j] \in [1..Len(Supply[j]) -> Candidates]
  BY <1>1, LenProperties
<1>3. Supply[j] \in Surjection(1..Len(Supply[j]), Listed(j))
  <2>1. Supply[j] \in [1..Len(Supply[j]) -> Listed(j)]
    BY <1>2, SuppliesAreNumbered
  <2>2. \A c \in Listed(j) : \E i \in 1..Len(Supply[j]) : Supply[j][i] = c
    BY SuppliesAreNumbered
  <2> QED
    BY <2>1, <2>2 DEF Surjection
<1>4. IsFiniteSet(1..Len(Supply[j]))
  <2>1. 1 \in Int /\ Len(Supply[j]) \in Int
    BY SuppliesAreNumbered
  <2> QED
    BY <2>1, FS_Interval
<1>5. IsFiniteSet(Listed(j))
  BY <1>3, <1>4, FS_Surjection
<1> QED
  BY <1>5, FS_Subset, FS_CardinalityType

\* A job whose own loop does not move, and whose waiting candidates stay as they are.
LEMMA KeepsItsSupply ==
    ASSUME SupplyInv, NEW j \in Jobs,
           served'[j] = served[j], batch'[j] = batch[j],
           phase'[j] = "accept" => phase[j] = "accept",
           \A c \in Listed(j) : state[c] \in {"unsourced", "sourced"} => state'[c] = state[c]
    PROVE  Supplied(j)'
<1>1. Supplied(j)
  BY DEF SupplyInv
<1>2. \A i \in 1..Len(Supply[j]) : i > served'[j] => state'[Supply[j][i]] = "unsourced"
  BY <1>1, SuppliesAreNumbered DEF Supplied
<1>3. \A i \in 1..Len(batch'[j]) :
          /\ batch'[j][i] = Supply[j][served'[j] - Len(batch'[j]) + i]
          /\ state'[batch'[j][i]] = "sourced"
  <2> SUFFICES ASSUME NEW i \in 1..Len(batch[j])
               PROVE  /\ batch[j][i] = Supply[j][served[j] - Len(batch[j]) + i]
                      /\ state'[batch[j][i]] = "sourced"
    OBVIOUS
  <2>1. /\ batch[j][i] = Supply[j][served[j] - Len(batch[j]) + i]
        /\ state[batch[j][i]] = "sourced"
    BY <1>1 DEF Supplied
  <2>2. batch[j][i] \in Listed(j)
    BY BatchIsListed
  <2> QED
    BY <2>1, <2>2
<1> QED
  BY <1>1, <1>2, <1>3 DEF Supplied

LEMMA InitSupply == Init => SupplyInv
<1> SUFFICES ASSUME Init PROVE SupplyInv
  OBVIOUS
<1>1. Typed
  <2>1. << >> \in Seq(Candidates)
    BY EmptySeq
  <2>2. free \in Nat /\ leaked \in Nat
    BY BoundsAssumption DEF Init
  <2> QED
    BY <2>1, <2>2 DEF Init, Typed, States
<1>2. ASSUME NEW j \in Jobs PROVE Supplied(j)
  BY SuppliesAreNumbered DEF Init, Supplied
<1> QED
  BY <1>1, <1>2 DEF SupplyInv

-----------------------------------------------------------------------------
(* The supply, step by step. *)

\* Find hands out the next of them, none of which was sourced before.
LEMMA Finds ==
    ASSUME SupplyInv, NEW j \in Jobs, Find(j)
    PROVE  /\ Typed' /\ Supplied(j)'
           /\ \A c \in Candidates :
                 \/ state'[c] = state[c]
                 \/ c \in Listed(j) /\ state[c] = "unsourced" /\ state'[c] = "sourced"
<1> DEFINE found(n) == SubSeq(Supply[j], served[j] + 1, served[j] + n)
<1>1. PICK n \in Yield(j) :
        /\ served' = [served EXCEPT ![j] = @ + n]
        /\ batch' = [batch EXCEPT ![j] = found(n)]
        /\ state' = [c \in Candidates |->
                       IF \E i \in DOMAIN found(n) : found(n)[i] = c THEN "sourced" ELSE state[c]]
        /\ short' = [short EXCEPT ![j] = (n = 0)]
        /\ phase' = [phase EXCEPT ![j] = IF n = 0 THEN "done" ELSE "fill"]
  BY DEF Find
<1>2. /\ n \in Nat /\ served[j] \in Nat /\ Len(Supply[j]) \in Nat
      /\ served[j] + n <= Len(Supply[j])
  BY SuppliesAreNumbered DEF Yield, SupplyInv, Typed
<1>3. \A i \in (served[j] + 1)..(served[j] + n) : Supply[j][i] \in Candidates /\ i \in 1..Len(Supply[j])
  BY <1>2, SuppliesAreNumbered
<1>4. /\ found(n) \in Seq(Candidates)
      /\ Len(found(n)) = n
      /\ \A i \in 1..n : found(n)[i] = Supply[j][served[j] + i]
  <2>1. /\ found(n) \in Seq(Candidates)
        /\ Len(found(n)) = IF served[j] + 1 <= served[j] + n
                           THEN (served[j] + n) - (served[j] + 1) + 1 ELSE 0
        /\ \A i \in 1..((served[j] + n) - (served[j] + 1) + 1) :
               found(n)[i] = Supply[j][(served[j] + 1) + i - 1]
    <3>1. served[j] + 1 \in Int /\ served[j] + n \in Int
      BY <1>2
    <3>2. \A i \in (served[j] + 1)..(served[j] + n) : Supply[j][i] \in Candidates
      BY <1>3
    <3> QED
      BY <3>1, <3>2, SubSeqProperties
  <2>2. (served[j] + n) - (served[j] + 1) + 1 = n
    BY <1>2
  <2>3. \A i \in 1..n : (served[j] + 1) + i - 1 = served[j] + i
    BY <1>2
  <2>4. Len(found(n)) = n
    BY <1>2, <2>1, <2>2
  <2> QED
    BY <2>1, <2>2, <2>3, <2>4
<1>5. DOMAIN found(n) = 1..n
  BY <1>4, LenProperties
<1> HIDE DEF found
<1>6. \A i \in 1..n : /\ found(n)[i] \in Listed(j)
                      /\ state[found(n)[i]] = "unsourced"
                      /\ served[j] + i \in 1..Len(Supply[j])
  <2> TAKE i \in 1..n
  <2>1. served[j] + i \in 1..Len(Supply[j]) /\ served[j] + i > served[j]
    BY <1>2
  <2> QED
    BY <1>4, <2>1, SuppliesAreNumbered DEF SupplyInv, Supplied
<1>7. \A c \in Candidates :
         \/ state'[c] = state[c]
         \/ c \in Listed(j) /\ state[c] = "unsourced" /\ state'[c] = "sourced"
  BY <1>1, <1>5, <1>6
<1>8. Typed'
  <2>1. served' \in [Jobs -> Nat]
    BY <1>1, <1>2 DEF SupplyInv, Typed
  <2>2. batch' \in [Jobs -> Seq(Candidates)]
    BY <1>1, <1>4 DEF SupplyInv, Typed
  <2>3. state' \in [Candidates -> States]
    BY <1>1 DEF SupplyInv, Typed, States
  <2>4. short' \in [Jobs -> BOOLEAN] /\ phase' \in [Jobs -> {"find", "fill", "accept", "wave", "done"}]
    BY <1>1 DEF SupplyInv, Typed
  <2>5. UNCHANGED <<attempted, count, free, leaked>>
    BY DEF Find
  <2> QED
    BY <2>1, <2>2, <2>3, <2>4, <2>5 DEF SupplyInv, Typed
<1>9. Supplied(j)'
  <2>1. served'[j] = served[j] + n /\ batch'[j] = found(n) /\ phase'[j] # "accept"
    BY <1>1 DEF SupplyInv, Typed
  <2>2. \A i \in 1..Len(Supply[j]) : i > served'[j] => state'[Supply[j][i]] = "unsourced"
    <3> SUFFICES ASSUME NEW i \in 1..Len(Supply[j]), i > served'[j]
                 PROVE  state'[Supply[j][i]] = "unsourced"
      OBVIOUS
    <3>1. i > served[j]
      BY <1>2, <2>1
    <3>2. \A h \in 1..n : found(n)[h] # Supply[j][i]
      <4> TAKE h \in 1..n
      <4>1. served[j] + h # i
        BY <1>2, <2>1
      <4>2. served[j] + h \in 1..Len(Supply[j]) /\ found(n)[h] = Supply[j][served[j] + h]
        BY <1>4, <1>6
      <4>3. Supply[j][served[j] + h] # Supply[j][i]
        BY <4>1, <4>2, SuppliesAreNumbered
      <4> QED
        BY <4>2, <4>3
    <3>3. Supply[j][i] \in Candidates /\ state[Supply[j][i]] = "unsourced"
      BY <3>1, SuppliesAreNumbered DEF SupplyInv, Supplied
    <3> QED
      BY <1>1, <1>5, <3>2, <3>3
  <2>3. Len(batch'[j]) <= served'[j] /\ served'[j] <= Len(Supply[j])
    BY <1>2, <1>4, <2>1
  <2>4. \A i \in 1..Len(batch'[j]) :
           /\ batch'[j][i] = Supply[j][served'[j] - Len(batch'[j]) + i]
           /\ state'[batch'[j][i]] = "sourced"
    <3> SUFFICES ASSUME NEW i \in 1..n
                 PROVE  /\ found(n)[i] = Supply[j][(served[j] + n) - n + i]
                        /\ state'[found(n)[i]] = "sourced"
      BY <1>4, <2>1
    <3>1. (served[j] + n) - n + i = served[j] + i
      BY <1>2
    <3>2. found(n)[i] \in Candidates
      BY <1>6, SuppliesAreNumbered
    <3> QED
      BY <1>1, <1>4, <1>5, <3>1, <3>2
  <2> QED
    BY <2>1, <2>2, <2>3, <2>4 DEF Supplied
<1> QED
  BY <1>7, <1>8, <1>9

\* Closing a wave drops the rest of the batch.
LEMMA ClosesWave ==
    ASSUME SupplyInv, NEW j \in Jobs, CloseWave(j)
    PROVE  /\ Typed' /\ Supplied(j)'
           /\ \A c \in Candidates :
                 \/ state'[c] = state[c]
                 \/ c \in Listed(j) /\ state[c] = "sourced" /\ state'[c] = "dropped"
<1>1. /\ state' = [c \in Candidates |->
                    IF \E i \in DOMAIN batch[j] : batch[j][i] = c THEN "dropped" ELSE state[c]]
      /\ batch' = [batch EXCEPT ![j] = << >>]
      /\ attempted' = [attempted EXCEPT ![j] = @ + Cardinality(Wave(j))]
      /\ phase' = [phase EXCEPT ![j] = IF Wave(j) = {} THEN "find" ELSE "wave"]
      /\ UNCHANGED <<served, short, count, free, leaked>>
  BY DEF CloseWave
<1>2. \A i \in DOMAIN batch[j] : batch[j][i] \in Listed(j) /\ state[batch[j][i]] = "sourced"
  BY BatchIsListed DEF SupplyInv, Supplied
<1>3. \A c \in Candidates :
         \/ state'[c] = state[c]
         \/ c \in Listed(j) /\ state[c] = "sourced" /\ state'[c] = "dropped"
  BY <1>1, <1>2
<1>4. << >> \in Seq(Candidates) /\ Len(<< >>) = 0
  BY EmptySeq
<1>5. Cardinality(Wave(j)) \in Nat
  BY ListedIsFinite DEF Wave, InState
<1>6. Typed'
  <2>1. batch' \in [Jobs -> Seq(Candidates)]
    BY <1>1, <1>4 DEF SupplyInv, Typed
  <2>2. state' \in [Candidates -> States]
    BY <1>1 DEF SupplyInv, Typed, States
  <2>3. attempted' \in [Jobs -> Nat]
    BY <1>1, <1>5 DEF SupplyInv, Typed
  <2> QED
    BY <1>1, <2>1, <2>2, <2>3 DEF SupplyInv, Typed
<1>7. Supplied(j)'
  <2>1. batch'[j] = << >> /\ served'[j] = served[j] /\ phase'[j] # "accept" /\ served[j] \in Nat
    BY <1>1 DEF SupplyInv, Typed
  <2>2. \A i \in 1..Len(Supply[j]) : i > served'[j] => state'[Supply[j][i]] = "unsourced"
    <3> SUFFICES ASSUME NEW i \in 1..Len(Supply[j]), i > served[j]
                 PROVE  state'[Supply[j][i]] = "unsourced"
      BY <2>1
    <3>1. state[Supply[j][i]] = "unsourced" /\ Supply[j][i] \in Candidates
      BY SuppliesAreNumbered DEF SupplyInv, Supplied
    <3> QED
      BY <1>3, <3>1
  <2>3. \A i \in 1..Len(batch'[j]) : FALSE
    BY <1>4, <2>1
  <2>4. Len(batch'[j]) <= served'[j] /\ served'[j] <= Len(Supply[j])
    BY <1>4, <2>1 DEF SupplyInv, Supplied
  <2> QED
    BY <2>1, <2>2, <2>3, <2>4 DEF Supplied
<1> QED
  BY <1>3, <1>6, <1>7

\* Considering a candidate leaves it for Accept, or turns it away.
LEMMA Considers ==
    ASSUME SupplyInv, NEW j \in Jobs, Consider(j) \/ Accept(j)
    PROVE  /\ Typed' /\ Supplied(j)'
           /\ \/ UNCHANGED state /\ Consider(j)
              \/ /\ state' = [state EXCEPT ![Head(batch[j])] =
                                IF Consider(j) THEN "capped" ELSE "queued"]
                 /\ Head(batch[j]) \in Listed(j) /\ state[Head(batch[j])] = "sourced"
<1>0. /\ Typed /\ Supplied(j) /\ batch[j] # << >> /\ served[j] \in Nat
      /\ Consider(j) => ~Accept(j)
  BY DEF SupplyInv, Consider, Accept, Supplied, Typed
<1>1. CASE UNCHANGED <<state, batch>> /\ Consider(j)
  <2>1. phase' = [phase EXCEPT ![j] = "accept"] /\ UNCHANGED <<served, attempted, short, count, free, leaked>>
    BY <1>0, <1>1, BatchHead DEF Consider, Typed
  <2>2. Typed'
    BY <1>0, <1>1, <2>1 DEF Typed
  <2>3. Supplied(j)'
    BY <1>0, <1>1, <2>1 DEF Supplied
  <2> QED
    BY <1>1, <2>2, <2>3
<1>2. CASE /\ state' = [state EXCEPT ![Head(batch[j])] = IF Consider(j) THEN "capped" ELSE "queued"]
           /\ batch' = [batch EXCEPT ![j] = Tail(@)]
           /\ phase' = [phase EXCEPT ![j] = "fill"]
  <2>1. phase' \in [Jobs -> {"find", "fill", "accept", "wave", "done"}] /\ phase'[j] # "accept"
    BY <1>0, <1>2 DEF Typed
  <2>2. UNCHANGED <<served, attempted, short, free, leaked>>
    BY DEF Consider, Accept
  <2>3. count' \in [Scales -> [Repositories -> Nat]]
    <3>1. CASE Consider(j)
      BY <1>0, <3>1 DEF Consider, Typed
    <3>2. CASE Accept(j)
      <4>1. ScaleOf[j] \in Scales /\ RepositoryOf[Head(batch[j])] \in Repositories
        BY <1>0, BatchHead, SuppliesAreNumbered, SupplyAssumption
      <4> QED
        BY <1>0, <3>2, <4>1 DEF Accept, Typed
    <3> QED
      BY <3>1, <3>2
  <2>4. batch' \in [Jobs -> Seq(Candidates)] /\ state' \in [Candidates -> States]
    BY <1>0, <1>2, BatchHead DEF Typed, States
  <2>5. Typed'
    BY <1>0, <2>1, <2>2, <2>3, <2>4 DEF Typed
  <2>6. batch'[j] = Tail(batch[j]) /\ served'[j] = served[j]
    BY <1>0, <1>2, <2>2 DEF Typed
  <2>7. \A i \in 1..Len(Supply[j]) : i > served'[j] => state'[Supply[j][i]] = "unsourced"
    <3> SUFFICES ASSUME NEW i \in 1..Len(Supply[j]), i > served[j]
                 PROVE  state'[Supply[j][i]] = "unsourced"
      BY <2>6
    <3>1. state[Supply[j][i]] = "unsourced" /\ Supply[j][i] \in Candidates
      BY <1>0, SuppliesAreNumbered DEF Supplied
    <3>2. Supply[j][i] # Head(batch[j])
      BY <1>0, BatchHead
    <3> QED
      BY <1>0, <1>2, <3>1, <3>2 DEF Typed
  <2>8. \A i \in 1..Len(batch'[j]) :
           /\ batch'[j][i] = Supply[j][served'[j] - Len(batch'[j]) + i]
           /\ state'[batch'[j][i]] = "sourced"
    <3> SUFFICES ASSUME NEW i \in 1..Len(Tail(batch[j]))
                 PROVE  /\ Tail(batch[j])[i] = Supply[j][served[j] - Len(Tail(batch[j])) + i]
                        /\ state'[Tail(batch[j])[i]] = "sourced"
      BY <2>6
    <3>1. Len(batch[j]) \in Nat \ {0} /\ Len(Tail(batch[j])) = Len(batch[j]) - 1
      BY <1>0, BatchHead
    <3>2. i + 1 \in 1..Len(batch[j])
      BY <3>1
    <3>3. served[j] - Len(Tail(batch[j])) + i = served[j] - Len(batch[j]) + (i + 1)
      BY <1>0, <3>1
    <3>4. Tail(batch[j])[i] = batch[j][i + 1] /\ Tail(batch[j])[i] # Head(batch[j])
      BY <1>0, BatchHead
    <3>5. /\ batch[j][i + 1] = Supply[j][served[j] - Len(batch[j]) + (i + 1)]
          /\ state[batch[j][i + 1]] = "sourced"
      BY <1>0, <3>2 DEF Supplied
    <3>6. batch[j][i + 1] \in Candidates
      BY <3>2, BatchIsListed, SuppliesAreNumbered
    <3> QED
      BY <1>0, <1>2, <3>3, <3>4, <3>5, <3>6 DEF Typed
  <2>9. Len(batch'[j]) <= served'[j] /\ served'[j] <= Len(Supply[j])
    <3>1. Len(batch[j]) \in Nat \ {0} /\ Len(Tail(batch[j])) = Len(batch[j]) - 1
      BY <1>0, BatchHead
    <3>2. Len(batch[j]) <= served[j] /\ served[j] <= Len(Supply[j])
      BY <1>0 DEF Supplied
    <3> QED
      BY <1>0, <2>6, <3>1, <3>2
  <2> QED
    BY <1>0, <1>2, <2>1, <2>5, <2>7, <2>8, <2>9, BatchHead DEF Supplied
<1>3. \/ UNCHANGED <<state, batch>> /\ Consider(j)
      \/ /\ state' = [state EXCEPT ![Head(batch[j])] = IF Consider(j) THEN "capped" ELSE "queued"]
         /\ batch' = [batch EXCEPT ![j] = Tail(@)]
         /\ phase' = [phase EXCEPT ![j] = "fill"]
  BY <1>0 DEF Consider, Accept, Typed
<1> QED
  BY <1>1, <1>2, <1>3

\* How a candidate may go on.
Onward(from) ==
    CASE from = "unsourced" -> {"sourced"}
      [] from = "sourced"   -> {"dropped", "capped", "queued"}
      [] from = "queued"    -> {"waiting", "lost"}
      [] from = "waiting"   -> {"opening"}
      [] from = "opening"   -> {"setup", "lost"}
      [] from = "setup"     -> {"building", "lost"}
      [] from = "building"  -> Settled
      [] OTHER              -> {}

\* A candidate's own steps, and those of its job that concern no other.
OneMoves(c) ==
    /\ UNCHANGED <<served, batch, attempted, short, count>>
    /\ \E next \in Onward(state[c]) : Become(c, next)
    /\ state[c] \in {"queued"} \union Running
    /\ UNCHANGED phase

LEMMA CandidateMoves ==
    ASSUME Typed, NEW j \in Jobs, NEW c \in Listed(j), Start(j, c) \/ CandidateStep(c)
    PROVE  /\ OneMoves(c)
           /\ state' \in [Candidates -> States]
<1>1. ASSUME NEW next \in States, Become(c, next)
      PROVE  state' \in [Candidates -> States] /\ state'[c] = next
  BY <1>1, SuppliesAreNumbered DEF Become, Typed
<1>2. CASE Start(j, c)
  <2>1. PICK next \in Admitted : Become(c, next)
    BY <1>2 DEF Start
  <2>2. next \in States
    BY <2>1 DEF Admitted, States, Running, Settled
  <2> QED
    BY <1>1, <1>2, <2>1, <2>2 DEF Admitted, Start, KeepJobs, OneMoves, Onward
<1>3. CASE Acquire(c)
  BY <1>1, <1>3 DEF Acquire, KeepJobs, OneMoves, Onward, Running, Settled, States
<1>4. CASE Open(c) \/ OpenFails(c)
  BY <1>1, <1>4 DEF Open, OpenFails, KeepJobs, OneMoves, Onward, Running, Settled, States
<1>5. CASE SetUp(c) \/ SetUpFails(c)
  BY <1>1, <1>5 DEF SetUp, SetUpFails, KeepJobs, OneMoves, Onward, Running, Settled, States
<1>6. CASE Build(c)
  <2>1. PICK end \in Settled : Become(c, end)
    BY <1>6 DEF Build, Close
  <2>2. end \in States /\ state[c] = "building"
    BY <1>6 DEF Build, States, Settled, Reported
  <2> QED
    BY <1>1, <1>6, <2>1, <2>2 DEF Build, KeepJobs, OneMoves, Onward, Running
<1> QED
  BY <1>2, <1>3, <1>4, <1>5, <1>6 DEF CandidateStep

\* Who makes a step.
LEMMA StepOfSomebody ==
    ASSUME [Next]_vars
    PROVE  \/ \E j \in Jobs : JobStep(j)
           \/ \E j \in Jobs : \E c \in Listed(j) : Start(j, c) \/ CandidateStep(c)
           \/ UNCHANGED vars
<1>1. ASSUME NEW c \in Candidates PROVE \E j \in Jobs : c \in Listed(j)
  BY DEF Candidates
<1> QED
  BY <1>1 DEF Next, AllDone

\* The steps of a job, by what they do to the state of the candidates.
LEMMA JobMoves ==
    ASSUME SupplyInv, NEW j \in Jobs, JobStep(j)
    PROVE  /\ Typed' /\ Supplied(j)'
           /\ \A c \in Candidates :
                 \/ state'[c] = state[c]
                 \/ c \in Listed(j) /\ state'[c] \in Onward(state[c])
                    /\ state[c] \in {"unsourced", "sourced"}
           /\ \A k \in Jobs \ {j} : /\ served'[k] = served[k] /\ batch'[k] = batch[k]
                                   /\ phase'[k] = phase[k] /\ attempted'[k] = attempted[k]
                                   /\ short'[k] = short[k]
           /\ UNCHANGED <<free, leaked>>
<1>0. Typed /\ Supplied(j)
  BY DEF SupplyInv
<1>1. /\ UNCHANGED <<free, leaked>>
      /\ \A k \in Jobs \ {j} : /\ served'[k] = served[k] /\ batch'[k] = batch[k]
                             /\ phase'[k] = phase[k] /\ attempted'[k] = attempted[k]
                             /\ short'[k] = short[k]
  BY <1>0 DEF JobStep, Find, Finish, CloseWave, Consider, Accept, JoinWave, Typed
<1>2. CASE Find(j)
  BY <1>1, <1>2, Finds DEF Onward
<1>3. CASE CloseWave(j)
  BY <1>1, <1>3, ClosesWave DEF Onward
<1>4. CASE Consider(j) \/ Accept(j)
  <2>1. \A c \in Candidates :
           \/ state'[c] = state[c]
           \/ c \in Listed(j) /\ state'[c] \in {"capped", "queued"} /\ state[c] = "sourced"
    BY <1>0, <1>4, Considers DEF Typed
  <2> QED
    BY <1>1, <1>4, <2>1, Considers DEF Onward
<1>5. CASE Finish(j) \/ JoinWave(j)
  <2>1. Typed'
    BY <1>0, <1>5 DEF Finish, JoinWave, AfterWave, Typed
  <2>2. Supplied(j)'
    BY <1>0, <1>5 DEF Finish, JoinWave, AfterWave, Typed, Supplied
  <2>3. UNCHANGED state
    BY <1>5 DEF Finish, JoinWave
  <2> QED
    BY <1>1, <2>1, <2>2, <2>3
<1> QED
  BY <1>2, <1>3, <1>4, <1>5 DEF JobStep

\* A job's supply is disturbed by no step of a candidate.
LEMMA CandidateKeepsSupply ==
    ASSUME SupplyInv, NEW j \in Jobs, NEW c \in Listed(j), Start(j, c) \/ CandidateStep(c)
    PROVE  SupplyInv'
<1>0. Typed /\ OneMoves(c) /\ state' \in [Candidates -> States]
  BY CandidateMoves DEF SupplyInv
<1>1. free' \in Nat /\ leaked' \in Nat
  BY <1>0 DEF Start, CandidateStep, Acquire, Open, OpenFails, SetUp, SetUpFails, Build, Close, KeepSlots,
              Typed
<1>2. Typed'
  BY <1>0, <1>1 DEF OneMoves, Typed
<1>3. ASSUME NEW k \in Jobs PROVE Supplied(k)'
  <2>1. \A d \in Listed(k) : state[d] \in {"unsourced", "sourced"} => state'[d] = state[d]
    BY <1>0, SuppliesAreNumbered DEF OneMoves, Become, Running, Typed
  <2> QED
    BY <1>0, <2>1, KeepsItsSupply DEF OneMoves
<1> QED
  BY <1>2, <1>3 DEF SupplyInv

LEMMA SupplyInductive == SupplyInv /\ [Next]_vars => SupplyInv'
<1> SUFFICES ASSUME SupplyInv, [Next]_vars PROVE SupplyInv'
  OBVIOUS
<1>1. ASSUME NEW j \in Jobs, JobStep(j) PROVE SupplyInv'
  <2>1. ASSUME NEW k \in Jobs \ {j} PROVE Supplied(k)'
    <3>1. \A d \in Listed(k) : state'[d] = state[d]
      <4> TAKE d \in Listed(k)
      <4>1. d \in Candidates /\ d \notin Listed(j)
        BY SuppliesAreNumbered, JobsShareNothing
      <4> QED
        BY <1>1, <4>1, JobMoves
    <3>2. served'[k] = served[k] /\ batch'[k] = batch[k] /\ phase'[k] = phase[k]
      BY <1>1, JobMoves
    <3> QED
      BY <3>1, <3>2, KeepsItsSupply
  <2> QED
    BY <1>1, <2>1, JobMoves DEF SupplyInv
<1>2. ASSUME NEW j \in Jobs, NEW c \in Listed(j), Start(j, c) \/ CandidateStep(c) PROVE SupplyInv'
  BY <1>2, CandidateKeepsSupply
<1>3. CASE UNCHANGED vars
  BY <1>3 DEF vars, SupplyInv, Typed, Supplied
<1> QED
  BY <1>1, <1>2, <1>3, StepOfSomebody

-----------------------------------------------------------------------------
(* Slots. *)

Holders == {c \in Candidates : state[c] \in Holding}

SlotsInv == SupplyInv /\ IsFiniteSet(Holders) /\ SlotsAreAccountedFor

LEMMA InitSlots == Init => SlotsInv
<1> SUFFICES ASSUME Init PROVE SlotsInv
  OBVIOUS
<1>1. Holders = {}
  BY DEF Init, Holders, Holding
<1>2. free = Slots /\ leaked = 0 /\ Slots \in Nat
  BY BoundsAssumption DEF Init
<1>3. IsFiniteSet(Holders) /\ Cardinality(Holders) = 0
  BY <1>1, FS_EmptySet
<1>4. free + leaked + Cardinality(Holders) = Slots
  BY <1>2, <1>3
<1> QED
  BY <1>3, <1>4, InitSupply DEF SlotsInv, SlotsAreAccountedFor, Holders

\* One candidate more holds a slot, or one less, or as many as before.
LEMMA HoldersMove ==
    ASSUME SlotsInv, NEW c \in Candidates, NEW next, Become(c, next)
    PROVE  /\ IsFiniteSet(Holders')
           /\ Cardinality(Holders) \in Nat
           /\ (state[c] \in Holding <=> next \in Holding) => Cardinality(Holders') = Cardinality(Holders)
           /\ state[c] \notin Holding /\ next \in Holding =>
                 Cardinality(Holders') = Cardinality(Holders) + 1
           /\ state[c] \in Holding /\ next \notin Holding =>
                 Cardinality(Holders') = Cardinality(Holders) - 1
<1>0. IsFiniteSet(Holders) /\ state \in [Candidates -> States]
  BY DEF SlotsInv, SupplyInv, Typed
<1>1. CASE state[c] \in Holding <=> next \in Holding
  <2>1. Holders' = Holders
    BY <1>0, <1>1 DEF Holders, Become
  <2> QED
    BY <1>0, <1>1, <2>1, FS_CardinalityType
<1>2. CASE state[c] \notin Holding /\ next \in Holding
  <2>1. Holders' = Holders \union {c} /\ c \notin Holders
    BY <1>0, <1>2 DEF Holders, Become
  <2> QED
    BY <1>0, <1>2, <2>1, FS_CardinalityType, FS_AddElement
<1>3. CASE state[c] \in Holding /\ next \notin Holding
  <2>1. Holders' = Holders \ {c} /\ c \in Holders
    BY <1>0, <1>3 DEF Holders, Become
  <2> QED
    BY <1>0, <1>3, <2>1, FS_CardinalityType, FS_RemoveElement
<1> QED
  BY <1>1, <1>2, <1>3

LEMMA SlotsInductive == SlotsInv /\ [Next]_vars => SlotsInv'
<1> SUFFICES ASSUME SlotsInv, [Next]_vars
             PROVE  IsFiniteSet(Holders') /\ free' + leaked' + Cardinality(Holders') = Slots
  BY SupplyInductive DEF SlotsInv, SlotsAreAccountedFor, Holders
<1>0. /\ SupplyInv /\ free \in Nat /\ leaked \in Nat /\ Slots \in Nat
      /\ IsFiniteSet(Holders) /\ free + leaked + Cardinality(Holders) = Slots
  BY BoundsAssumption DEF SlotsInv, SlotsAreAccountedFor, Holders, SupplyInv, Typed
<1>1. ASSUME NEW j \in Jobs, JobStep(j)
      PROVE  IsFiniteSet(Holders') /\ free' + leaked' + Cardinality(Holders') = Slots
  <2>1. \A c \in Candidates : state'[c] \in Holding <=> state[c] \in Holding
    BY <1>0, <1>1, JobMoves DEF Onward, Holding
  <2>2. Holders' = Holders
    BY <2>1 DEF Holders
  <2> QED
    BY <1>0, <1>1, <2>2, JobMoves
<1>2. ASSUME NEW j \in Jobs, NEW c \in Listed(j), Start(j, c) \/ CandidateStep(c)
      PROVE  IsFiniteSet(Holders') /\ free' + leaked' + Cardinality(Holders') = Slots
  <2>0. c \in Candidates
    BY SuppliesAreNumbered
  <2>1. CASE Start(j, c)
    BY <1>0, <2>0, <2>1, HoldersMove DEF Admitted, Start, KeepSlots, Holding
  <2>2. CASE Acquire(c)
    BY <1>0, <2>0, <2>2, HoldersMove DEF Acquire, Holding
  <2>3. CASE Open(c) \/ SetUp(c)
    BY <1>0, <2>0, <2>3, HoldersMove DEF Open, SetUp, KeepSlots, Holding
  <2>4. CASE OpenFails(c)
    BY <1>0, <2>0, <2>4, HoldersMove DEF OpenFails, Holding
  <2>5. CASE SetUpFails(c)
    BY <1>0, <2>0, <2>5, HoldersMove DEF SetUpFails, Holding
  <2>6. CASE Build(c)
    <3>1. PICK end \in Settled : Become(c, end) /\ free' = free + 1 /\ leaked' = leaked
      BY <2>6 DEF Build, Close
    <3>2. end \notin Holding /\ state[c] \in Holding
      BY <2>6 DEF Build, Settled, Reported, Holding
    <3> QED
      BY <1>0, <2>0, <3>1, <3>2, HoldersMove
  <2> QED
    BY <1>2, <2>1, <2>2, <2>3, <2>4, <2>5, <2>6 DEF CandidateStep
<1>3. CASE UNCHANGED vars
  <2>1. Holders' = Holders /\ free' = free /\ leaked' = leaked
    BY <1>3 DEF vars, Holders
  <2> QED
    BY <1>0, <2>1
<1> QED
  BY <1>1, <1>2, <1>3, StepOfSomebody

\* Every variable stays within its type, the free slots within the account's.
THEOREM TypeCorrect == Spec => []TypeOK
<1>1. SlotsInv => TypeOK
  <2> SUFFICES ASSUME SlotsInv PROVE TypeOK
    OBVIOUS
  <2>1. Typed
    BY DEF SlotsInv, SupplyInv
  <2>2. free \in Nat /\ leaked \in Nat /\ Slots \in Nat
    BY <2>1, BoundsAssumption DEF Typed
  <2>3. free + leaked + Cardinality(Holders) = Slots /\ Cardinality(Holders) \in Nat
    BY FS_CardinalityType DEF SlotsInv, SlotsAreAccountedFor, Holders
  <2>4. free \in 0..Slots
    BY <2>2, <2>3
  <2> QED
    BY <2>1, <2>4 DEF Typed, TypeOK
<1> QED
  BY <1>1, InitSlots, SlotsInductive, PTL DEF Spec

\* Every slot is free, held by a candidate under way, or was lost by a set-up that raised.
THEOREM SlotsAreAlwaysAccountedFor == Spec => []SlotsAreAccountedFor
<1>1. SlotsInv => SlotsAreAccountedFor
  BY DEF SlotsInv
<1> QED
  BY <1>1, InitSlots, SlotsInductive, PTL DEF Spec

-----------------------------------------------------------------------------
(* Targets, attempts and reasons. *)

\* What has become a task of the job, or still may.
Live(j) == InState(j, {"emitted", "queued"} \union Running)

\* The wave fits what is wanted and what may be tried, is filled while nothing of it runs,
\* and is empty when the loop looks back at it.
Bounded(j) ==
    /\ Cardinality(Live(j)) <= Target
    /\ attempted[j] <= AttemptLimit
    /\ phase[j] \in {"fill", "accept"} => attempted[j] + Cardinality(Wave(j)) <= AttemptLimit
    /\ phase[j] = "accept" => Cardinality(Wave(j)) < Room(j)
    /\ phase[j] \in {"find", "done"} => Wave(j) = {}
    /\ phase[j] # "wave" => InState(j, Running) = {}
    /\ phase[j] = "done" => short[j] \/ Emitted(j) >= Target \/ attempted[j] >= AttemptLimit

BoundsInv == SupplyInv /\ \A j \in Jobs : Bounded(j)

\* The candidates of a job are few enough to count.
LEMMA Countable ==
    ASSUME NEW j \in Jobs
    PROVE  /\ \A S : IsFiniteSet(InState(j, S)) /\ Cardinality(InState(j, S)) \in Nat
           /\ Emitted(j) \in Nat
           /\ Cardinality(Wave(j)) \in Nat /\ Cardinality(Live(j)) \in Nat
           /\ Cardinality(Live(j)) = Emitted(j) + Cardinality(Wave(j))
           /\ Target \in Nat /\ AttemptLimit \in Nat /\ Cap \in Nat
<1>1. \A S : IsFiniteSet(InState(j, S)) /\ Cardinality(InState(j, S)) \in Nat
  BY ListedIsFinite DEF InState
<1>2. Live(j) = InState(j, {"emitted"}) \union Wave(j)
  BY DEF Live, Wave, InState
<1>3. InState(j, {"emitted"}) \intersect Wave(j) = {}
  BY DEF Wave, InState, Running
<1>4. Cardinality(Live(j)) = Cardinality(InState(j, {"emitted"})) + Cardinality(Wave(j))
                             - Cardinality(InState(j, {"emitted"}) \intersect Wave(j))
  BY <1>1, <1>2, FS_Union DEF Wave
<1>5. Cardinality(InState(j, {"emitted"}) \intersect Wave(j)) = 0
  BY <1>3, FS_EmptySet
<1> QED
  BY <1>1, <1>4, <1>5, BoundsAssumption DEF Emitted, Wave, Live

\* Where nothing of a job moves, its bounds stay.
LEMMA StaysBounded ==
    ASSUME NEW k \in Jobs, Bounded(k),
           attempted'[k] = attempted[k], phase'[k] = phase[k], short'[k] = short[k],
           \A c \in Listed(k) : state'[c] = state[c]
    PROVE  Bounded(k)'
<1>1. \A S : {c \in Listed(k) : state'[c] \in S} = {c \in Listed(k) : state[c] \in S}
  OBVIOUS
<1>2. Live(k)' = Live(k) /\ Wave(k)' = Wave(k) /\ InState(k, Running)' = InState(k, Running)
      /\ InState(k, {"emitted"})' = InState(k, {"emitted"})
  BY <1>1 DEF Live, Wave, InState
<1>3. Emitted(k)' = Emitted(k)
  BY <1>2 DEF Emitted
<1>4. Room(k)' = Room(k)
  BY <1>3 DEF Room
<1> QED
  BY <1>2, <1>3, <1>4 DEF Bounded

LEMMA InitBounds == Init => BoundsInv
<1> SUFFICES ASSUME Init, NEW j \in Jobs PROVE Bounded(j)
  BY InitSupply DEF BoundsInv
<1>1. \A c \in Listed(j) : state[c] = "unsourced"
  BY SuppliesAreNumbered DEF Init
<1>2. Live(j) = {} /\ Wave(j) = {} /\ InState(j, Running) = {}
  BY <1>1 DEF Live, Wave, InState, Running
<1>3. Cardinality(Live(j)) = 0
  BY <1>2, FS_EmptySet
<1>4. attempted[j] = 0 /\ phase[j] = "find"
  BY DEF Init
<1> QED
  BY <1>2, <1>3, <1>4, Countable DEF Bounded

\* A step of a candidate is one of a wave under way, and makes no task out of nothing.
LEMMA CandidateStaysBounded ==
    ASSUME BoundsInv, NEW j \in Jobs, NEW c \in Listed(j), Start(j, c) \/ CandidateStep(c)
    PROVE  Bounded(j)'
<1>0. Typed /\ Bounded(j) /\ OneMoves(c) /\ c \in Candidates
  BY CandidateMoves, SuppliesAreNumbered DEF BoundsInv, SupplyInv
<1>1. phase[j] = "wave"
  <2>1. CASE Start(j, c)
    BY <2>1 DEF Start
  <2>2. CASE CandidateStep(c)
    <3>1. c \in InState(j, Running)
      BY <2>2 DEF CandidateStep, Acquire, Open, OpenFails, SetUp, SetUpFails, Build, InState, Running
    <3> QED
      BY <1>0, <3>1 DEF Bounded
  <2> QED
    BY <2>1, <2>2
<1>2. Live(j)' \subseteq Live(j)
  BY <1>0 DEF OneMoves, Become, Live, InState, Typed
<1>3. Cardinality(Live(j)') <= Cardinality(Live(j)) /\ Cardinality(Live(j)') \in Nat
  BY <1>2, Countable, FS_Subset, FS_CardinalityType DEF Live
<1>4. Cardinality(Live(j)') <= Target
  BY <1>0, <1>3, Countable DEF Bounded
<1>5. phase'[j] = "wave" /\ attempted'[j] = attempted[j]
  BY <1>0, <1>1 DEF OneMoves
<1> QED
  BY <1>0, <1>4, <1>5 DEF Bounded

\* The states a job's own loop moves candidates between are not those that are counted.
LEMMA JobKeepsCounts ==
    ASSUME SupplyInv, NEW j \in Jobs, JobStep(j), ~Accept(j)
    PROVE  /\ Live(j)' = Live(j) /\ Wave(j)' = Wave(j)
           /\ InState(j, Running)' = InState(j, Running)
           /\ Emitted(j)' = Emitted(j)
           /\ \A c \in Candidates : state'[c] = state[c] \/ state'[c] \in {"sourced", "dropped", "capped"}
<1>1. \A c \in Candidates :
         \/ state'[c] = state[c]
         \/ /\ state'[c] \in {"sourced", "dropped", "capped"}
            /\ state[c] \in {"unsourced", "sourced"}
  <2>1. CASE Find(j)
    BY <2>1, Finds
  <2>2. CASE CloseWave(j)
    BY <2>2, ClosesWave
  <2>3. CASE Consider(j)
    BY <2>3, Considers DEF SupplyInv, Typed
  <2>4. CASE Finish(j) \/ JoinWave(j)
    BY <2>4 DEF Finish, JoinWave
  <2> QED
    BY <2>1, <2>2, <2>3, <2>4 DEF JobStep
<1>2. \A c \in Listed(j) : c \in Candidates
  BY SuppliesAreNumbered
<1>3. InState(j, {"emitted"})' = InState(j, {"emitted"})
  BY <1>1, <1>2 DEF InState
<1>4. Live(j)' = Live(j) /\ Wave(j)' = Wave(j) /\ InState(j, Running)' = InState(j, Running)
  BY <1>1, <1>2 DEF Live, Wave, InState, Running
<1> QED
  BY <1>1, <1>3, <1>4 DEF Emitted

LEMMA JobStaysBounded ==
    ASSUME BoundsInv, NEW j \in Jobs, JobStep(j)
    PROVE  Bounded(j)'
<1>0. /\ SupplyInv /\ Typed /\ Bounded(j) /\ attempted[j] \in Nat
      /\ Emitted(j) \in Nat /\ Cardinality(Wave(j)) \in Nat /\ Cardinality(Live(j)) \in Nat
      /\ Target \in Nat /\ AttemptLimit \in Nat
  BY Countable DEF BoundsInv, SupplyInv, Typed
<1>1. CASE Find(j)
  <2>1. /\ attempted'[j] = attempted[j] /\ attempted[j] < AttemptLimit /\ Wave(j) = {}
        /\ InState(j, Running) = {}
        /\ phase'[j] \in {"done", "fill"} /\ (phase'[j] = "done" => short'[j])
    BY <1>0, <1>1 DEF Find, WantsMore, Bounded, Typed
  <2>2. Cardinality(Wave(j)) = 0
    BY <2>1, FS_EmptySet
  <2>3. Live(j)' = Live(j) /\ Wave(j)' = Wave(j) /\ InState(j, Running)' = InState(j, Running)
    BY <1>0, <1>1, JobKeepsCounts DEF JobStep, Find, Accept
  <2>4. attempted'[j] + Cardinality(Wave(j)') <= AttemptLimit
    BY <1>0, <2>1, <2>2, <2>3
  <2> QED
    BY <1>0, <2>1, <2>3, <2>4 DEF Bounded
<1>2. CASE Finish(j)
  <2>1. /\ attempted'[j] = attempted[j] /\ Wave(j) = {} /\ InState(j, Running) = {}
        /\ phase'[j] = "done" /\ (Emitted(j) >= Target \/ attempted[j] >= AttemptLimit)
    BY <1>0, <1>2 DEF Finish, WantsMore, Bounded, Typed
  <2>2. /\ Live(j)' = Live(j) /\ Wave(j)' = Wave(j) /\ InState(j, Running)' = InState(j, Running)
        /\ Emitted(j)' = Emitted(j)
    BY <1>0, <1>2, JobKeepsCounts DEF JobStep, Finish, Accept
  <2> QED
    BY <1>0, <2>1, <2>2 DEF Bounded
<1>3. CASE CloseWave(j)
  <2>1. /\ attempted'[j] = attempted[j] + Cardinality(Wave(j))
        /\ attempted[j] + Cardinality(Wave(j)) <= AttemptLimit
        /\ InState(j, Running) = {}
        /\ phase'[j] \in {"find", "wave"} /\ (phase'[j] = "find" => Wave(j) = {})
    BY <1>0, <1>3 DEF CloseWave, Bounded, Typed
  <2>2. Live(j)' = Live(j) /\ Wave(j)' = Wave(j) /\ InState(j, Running)' = InState(j, Running)
    BY <1>0, <1>3, JobKeepsCounts DEF JobStep, CloseWave, Accept
  <2> QED
    BY <1>0, <2>1, <2>2 DEF Bounded
<1>4. CASE Consider(j)
  <2>1. /\ attempted'[j] = attempted[j] /\ Cardinality(Wave(j)) < Room(j)
        /\ phase'[j] \in {"fill", "accept"} /\ phase[j] = "fill"
    BY <1>0, <1>4 DEF Consider, Typed
  <2>2. /\ Live(j)' = Live(j) /\ Wave(j)' = Wave(j) /\ InState(j, Running)' = InState(j, Running)
        /\ Emitted(j)' = Emitted(j)
    BY <1>0, <1>4, JobKeepsCounts DEF JobStep, Consider, Accept
  <2>3. Room(j)' = Room(j)
    BY <2>1, <2>2 DEF Room
  <2> QED
    BY <1>0, <2>1, <2>2, <2>3 DEF Bounded
<1>5. CASE Accept(j)
  <2> DEFINE head == Head(batch[j])
  <2>1. /\ attempted'[j] = attempted[j] /\ Cardinality(Wave(j)) < Room(j)
        /\ phase'[j] = "fill" /\ InState(j, Running) = {}
    BY <1>0, <1>5 DEF Accept, Bounded, Typed
  <2>2. head \in Listed(j) /\ state[head] = "sourced" /\ state' = [state EXCEPT ![head] = "queued"]
    <3>1. batch[j] # << >>
      BY <1>0, <1>5 DEF Accept, SupplyInv, Supplied
    <3> QED
      BY <1>0, <1>5, <3>1, BatchHead DEF Accept
  <2> HIDE DEF head
  <2>3. /\ \A c \in Listed(j) : state'[c] = IF c = head THEN "queued" ELSE state[c]
        /\ state'[head] = "queued"
    BY <1>0, <2>2, SuppliesAreNumbered DEF Typed
  <2>4. /\ Live(j)' = Live(j) \union {head} /\ head \notin Live(j)
        /\ Wave(j)' = Wave(j) \union {head} /\ head \notin Wave(j)
    BY <2>2, <2>3 DEF Live, Wave, InState, Running
  <2>5. /\ Cardinality(Live(j)') = Cardinality(Live(j)) + 1
        /\ Cardinality(Wave(j)') = Cardinality(Wave(j)) + 1
    BY <2>4, Countable, FS_AddElement DEF Live, Wave
  <2>6. InState(j, Running)' = {}
    BY <2>1, <2>2, <2>3 DEF InState, Running
  <2>7. Cardinality(Wave(j)) < Target - Emitted(j) /\ Cardinality(Wave(j)) < AttemptLimit - attempted[j]
    BY <1>0, <2>1 DEF Room
  <2>8. Cardinality(Live(j)) = Emitted(j) + Cardinality(Wave(j))
    BY Countable
  <2>9. Cardinality(Live(j)') <= Target /\ attempted'[j] + Cardinality(Wave(j)') <= AttemptLimit
    BY <1>0, <2>1, <2>5, <2>7, <2>8
  <2> QED
    BY <1>0, <2>1, <2>6, <2>9 DEF Bounded
<1>6. CASE JoinWave(j)
  <2>1. attempted'[j] = attempted[j] /\ Wave(j) = {} /\ phase'[j] = "find"
    BY <1>0, <1>6 DEF JoinWave, AfterWave, Typed
  <2>2. Live(j)' = Live(j) /\ Wave(j)' = Wave(j) /\ InState(j, Running)' = InState(j, Running)
    BY <1>0, <1>6, JobKeepsCounts DEF JobStep, JoinWave, Accept
  <2>3. InState(j, Running) = {}
    BY <2>1 DEF Wave, InState
  <2> QED
    BY <1>0, <2>1, <2>2, <2>3 DEF Bounded
<1> QED
  BY <1>1, <1>2, <1>3, <1>4, <1>5, <1>6 DEF JobStep

LEMMA BoundsInductive == BoundsInv /\ [Next]_vars => BoundsInv'
<1> SUFFICES ASSUME BoundsInv, [Next]_vars, NEW k \in Jobs PROVE Bounded(k)'
  BY SupplyInductive DEF BoundsInv
<1>0. SupplyInv /\ Typed /\ Bounded(k)
  BY DEF BoundsInv, SupplyInv
<1>1. ASSUME NEW j \in Jobs, JobStep(j) PROVE Bounded(k)'
  <2>1. CASE j = k
    BY <1>1, <2>1, JobStaysBounded
  <2>2. CASE j # k
    <3>1. \A c \in Listed(k) : state'[c] = state[c]
      <4> TAKE c \in Listed(k)
      <4>1. c \in Candidates /\ c \notin Listed(j)
        BY <2>2, SuppliesAreNumbered, JobsShareNothing
      <4> QED
        BY <1>0, <1>1, <4>1, JobMoves
    <3> QED
      BY <1>0, <1>1, <2>2, <3>1, JobMoves, StaysBounded
  <2> QED
    BY <2>1, <2>2
<1>2. ASSUME NEW j \in Jobs, NEW c \in Listed(j), Start(j, c) \/ CandidateStep(c) PROVE Bounded(k)'
  <2>1. CASE j = k
    BY <1>2, <2>1, CandidateStaysBounded
  <2>2. CASE j # k
    <3>1. OneMoves(c)
      BY <1>0, <1>2, CandidateMoves
    <3>2. \A d \in Listed(k) : state'[d] = state[d]
      <4> TAKE d \in Listed(k)
      <4>1. d \in Candidates /\ d # c
        BY <2>2, SuppliesAreNumbered, JobsShareNothing
      <4> QED
        BY <1>0, <3>1, <4>1 DEF OneMoves, Become, Typed
    <3> QED
      BY <1>0, <3>1, <3>2, StaysBounded DEF OneMoves
  <2> QED
    BY <2>1, <2>2
<1>3. CASE UNCHANGED vars
  BY <1>0, <1>3, StaysBounded DEF vars
<1> QED
  BY <1>1, <1>2, <1>3, StepOfSomebody

\* A roll emits no more than its target and tries no more than its limit.
THEOREM RollsStayInBounds == Spec => []RollStaysInBounds
<1>1. BoundsInv => RollStaysInBounds
  <2> SUFFICES ASSUME BoundsInv, NEW j \in Jobs
               PROVE  Emitted(j) <= Target /\ attempted[j] <= AttemptLimit
    BY DEF RollStaysInBounds
  <2>1. Cardinality(Live(j)) <= Target /\ attempted[j] <= AttemptLimit
    BY DEF BoundsInv, Bounded
  <2> QED
    BY <2>1, Countable
<1> QED
  BY <1>1, InitBounds, BoundsInductive, PTL DEF Spec

\* A roll that is over met its target, spent its attempts or was handed nothing more.
THEOREM RollsStopForAReason == Spec => []StopsOnlyForAReason
<1>1. BoundsInv => StopsOnlyForAReason
  BY DEF BoundsInv, Bounded, StopsOnlyForAReason
<1> QED
  BY <1>1, InitBounds, BoundsInductive, PTL DEF Spec

-----------------------------------------------------------------------------
(* The cap. *)

\* The candidates of a repository that were ever let into a wave.
Taken(j, r) == {c \in InState(j, {"queued"} \union Running \union Settled) : RepositoryOf[c] = r}

\* With nobody else rolling the scale, the policy's counter is their number, and what
\* accept() read of it still holds when it is incremented.
Capped(j) ==
    Alone(j) =>
        /\ \A r \in Repositories : /\ Cardinality(Taken(j, r)) = count[ScaleOf[j]][r]
                                   /\ count[ScaleOf[j]][r] <= Cap
        /\ phase[j] = "accept" => BelowCap(j, Head(batch[j]))

CapInv == SupplyInv /\ \A j \in Jobs : Capped(j)

LEMMA InitCap == Init => CapInv
<1> SUFFICES ASSUME Init, NEW j \in Jobs PROVE Capped(j)
  BY InitSupply DEF CapInv
<1>1. \A c \in Listed(j) : state[c] = "unsourced"
  BY SuppliesAreNumbered DEF Init
<1>2. ASSUME NEW r \in Repositories
      PROVE  Cardinality(Taken(j, r)) = 0 /\ count[ScaleOf[j]][r] = 0
  <2>1. Taken(j, r) = {}
    BY <1>1 DEF Taken, InState, Running, Settled, Reported
  <2> QED
    BY <2>1, FS_EmptySet, SuppliesAreNumbered DEF Init
<1>3. 0 <= Cap
  BY BoundsAssumption
<1> QED
  BY <1>2, <1>3 DEF Init, Capped

\* Where a job's counter, its batch and the number of its accepted candidates stay, so does the cap.
LEMMA StaysCapped ==
    ASSUME NEW k \in Jobs, Capped(k),
           \A r \in Repositories : Taken(k, r)' = Taken(k, r),
           Alone(k) => count'[ScaleOf[k]] = count[ScaleOf[k]],
           phase'[k] = "accept" => phase[k] = "accept" /\ batch'[k] = batch[k]
    PROVE  Capped(k)'
BY DEF Capped, BelowCap, Alone

LEMMA CapInductive == CapInv /\ [Next]_vars => CapInv'
<1> SUFFICES ASSUME CapInv, [Next]_vars, NEW k \in Jobs PROVE Capped(k)'
  BY SupplyInductive DEF CapInv
<1>0. SupplyInv /\ Typed /\ Capped(k) /\ Supplied(k)
  BY DEF CapInv, SupplyInv
<1>1. ASSUME NEW j \in Jobs, JobStep(j), j # k PROVE Capped(k)'
  <2>1. \A c \in Listed(k) : state'[c] = state[c]
    <3> TAKE c \in Listed(k)
    <3>1. c \in Candidates /\ c \notin Listed(j)
      BY <1>1, SuppliesAreNumbered, JobsShareNothing
    <3> QED
      BY <1>0, <1>1, <3>1, JobMoves
  <2>2. \A r \in Repositories : Taken(k, r)' = Taken(k, r)
    BY <2>1 DEF Taken, InState
  <2>3. Alone(k) => count'[ScaleOf[k]] = count[ScaleOf[k]]
    <3> SUFFICES ASSUME Alone(k) PROVE count'[ScaleOf[k]] = count[ScaleOf[k]]
      OBVIOUS
    <3>1. ScaleOf[j] # ScaleOf[k]
      BY <1>1 DEF Alone
    <3>2. CASE Accept(j)
      BY <1>0, <3>1, <3>2, SuppliesAreNumbered DEF Accept, Typed
    <3>3. CASE ~Accept(j)
      BY <1>1, <3>3 DEF JobStep, Find, Finish, CloseWave, Consider, JoinWave
    <3> QED
      BY <3>2, <3>3
  <2>4. phase'[k] = phase[k] /\ batch'[k] = batch[k]
    BY <1>0, <1>1, JobMoves
  <2> QED
    BY <1>0, <2>2, <2>3, <2>4, StaysCapped
<1>2. CASE JobStep(k) /\ ~Accept(k)
  <2>1. \A r \in Repositories : Taken(k, r)' = Taken(k, r)
    <3>1. \A c \in Candidates :
             \/ state'[c] = state[c]
             \/ c \in Listed(k) /\ state'[c] \in {"sourced", "dropped", "capped"}
                /\ state[c] \in {"unsourced", "sourced"}
      BY <1>0, <1>2, JobMoves, JobKeepsCounts
    <3>2. \A c \in Listed(k) : c \in Candidates
      BY SuppliesAreNumbered
    <3> QED
      BY <3>1, <3>2 DEF Taken, InState, Running, Settled, Reported
  <2>2. UNCHANGED count
    BY <1>2 DEF JobStep, Find, Finish, CloseWave, Consider, JoinWave
  <2>3. CASE phase'[k] # "accept"
    BY <1>0, <2>1, <2>2, <2>3, StaysCapped
  <2>4. CASE phase'[k] = "accept"
    <3>1. BelowCap(k, Head(batch[k])) /\ batch'[k] = batch[k]
      BY <1>0, <1>2, <2>4
         DEF JobStep, Find, Finish, CloseWave, Consider, JoinWave, AfterWave, Typed
    <3> QED
      BY <1>0, <2>1, <2>2, <3>1 DEF Capped, BelowCap, Alone
  <2> QED
    BY <2>3, <2>4
<1>3. CASE Accept(k)
  <2> DEFINE head == Head(batch[k])
             repository == RepositoryOf[head]
             scale == ScaleOf[k]
  <2>1. batch[k] # << >> /\ phase[k] = "accept"
    BY <1>0, <1>3 DEF Accept, Supplied
  <2>2. /\ head \in Listed(k) /\ state[head] = "sourced" /\ repository \in Repositories
        /\ scale \in Scales
    BY <1>0, <2>1, BatchHead, SuppliesAreNumbered, SupplyAssumption
  <2>3. \A c \in Listed(k) : state'[c] = IF c = head THEN "queued" ELSE state[c]
    BY <1>0, <1>3, SuppliesAreNumbered DEF Accept, Typed
  <2>4. \A r \in Repositories :
           count'[scale][r] = IF r = repository THEN count[scale][r] + 1 ELSE count[scale][r]
    BY <1>0, <1>3, <2>2 DEF Accept, Typed
  <2>5. phase'[k] # "accept"
    BY <1>0, <1>3 DEF Accept, Typed
  <2> SUFFICES ASSUME Alone(k), NEW r \in Repositories
               PROVE  /\ Cardinality(Taken(k, r)') = count'[scale][r]
                      /\ count'[scale][r] <= Cap
    BY <2>5 DEF Capped, Alone
  <2>6. /\ Cardinality(Taken(k, r)) = count[scale][r] /\ count[scale][r] <= Cap
        /\ count[scale][r] \in Nat /\ Cap \in Nat
        /\ count[scale][repository] < Cap
    BY <1>0, <2>1, <2>2, BoundsAssumption DEF Capped, BelowCap, Typed
  <2>7. IsFiniteSet(Taken(k, r))
    BY ListedIsFinite DEF Taken, InState
  <2> HIDE DEF head, scale
  <2>8. CASE r = repository
    <3>1. Taken(k, r)' = Taken(k, r) \union {head} /\ head \notin Taken(k, r)
      BY <2>2, <2>3, <2>8 DEF Taken, InState, Running, Settled, Reported
    <3>2. Cardinality(Taken(k, r)') = Cardinality(Taken(k, r)) + 1
      BY <2>7, <3>1, FS_AddElement
    <3> QED
      BY <2>4, <2>6, <2>8, <3>2
  <2>9. CASE r # repository
    <3>1. Taken(k, r)' = Taken(k, r)
      BY <2>2, <2>3, <2>9 DEF Taken, InState, Running, Settled, Reported
    <3> QED
      BY <2>4, <2>6, <2>9, <3>1
  <2> QED
    BY <2>8, <2>9
<1>4. ASSUME NEW j \in Jobs, NEW c \in Listed(j), Start(j, c) \/ CandidateStep(c) PROVE Capped(k)'
  <2>1. OneMoves(c) /\ c \in Candidates
    BY <1>0, <1>4, CandidateMoves, SuppliesAreNumbered
  <2>2. PICK next \in Onward(state[c]) : Become(c, next)
    BY <2>1 DEF OneMoves
  <2>3. next \in {"queued"} \union Running \union Settled
    BY <2>1, <2>2 DEF OneMoves, Onward, Running, Settled, Reported
  <2>4. \A r \in Repositories : Taken(k, r)' = Taken(k, r)
    <3>1. \A d \in Listed(k) : state'[d] = IF d = c THEN next ELSE state[d]
      BY <1>0, <2>2, SuppliesAreNumbered DEF Become, Typed
    <3> QED
      BY <2>1, <2>3, <3>1 DEF OneMoves, Taken, InState
  <2> QED
    BY <1>0, <2>1, <2>4, StaysCapped DEF OneMoves
<1>5. CASE UNCHANGED vars
  <2>1. \A r \in Repositories : Taken(k, r)' = Taken(k, r)
    BY <1>5 DEF vars, Taken, InState
  <2> QED
    BY <1>0, <1>5, <2>1, StaysCapped DEF vars
<1> QED
  BY <1>1, <1>2, <1>3, <1>4, <1>5, StepOfSomebody DEF JobStep

\* A scale that one job rolls takes no more than the cap from any repository.
THEOREM CapAlwaysHolds == Spec => []CapHolds
<1>1. CapInv => CapHolds
  BY DEF CapInv, Capped, CapHolds, Taken
<1> QED
  BY <1>1, InitCap, CapInductive, PTL DEF Spec

=============================================================================
