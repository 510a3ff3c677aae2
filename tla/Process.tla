------------------------------- MODULE Process -------------------------------
(***************************************************************************)
(* src/frf/observe/process: what a command leaves behind, how several runs *)
(* of it become an expectation, which scenarios are workloads, and what of *)
(* a corpus is graded and what is timed.  A step is one command; every     *)
(* scenario the program builds has one step.  A channel is a sequence of   *)
(* lines, the exit code a channel of one line.                             *)
(***************************************************************************)
EXTENDS Integers, Sequences, FiniteSets

CONSTANTS Line,       \* the lines programs leave behind
          Scenario,   \* the scenarios a repository can offer
          Script      \* what each says: its family, its kind, its input and the input's size

\* What is said in place of a program that was not found, did not start or did not end, and
\* how the tree lists the file a scenario comes with.
ASSUME LineAssumption == {"-1", "1", "127", "not found", "[timed out]", "given"} \subseteq Line

Kind == {"path", "stdin", "flag", "bare", "control", "wrapped"}

ASSUME ScriptAssumption ==
    /\ IsFiniteSet(Scenario)
    /\ \A s \in Scenario : Script[s].kind \in Kind /\ Script[s].bytes \in Nat

Channels == {"exit", "stdout", "stderr", "tree"}

\* What a run may leave behind.
Lines == Seq(Line)
Behaviour == [exit : Lines, stdout : Lines, stderr : Lines, tree : Lines]

Zero == <<"0">>
TimedOut == [exit |-> <<"-1">>, stdout |-> << >>, stderr |-> <<"[timed out]">>, tree |-> << >>]
NotFound == [exit |-> <<"127">>, stdout |-> << >>, stderr |-> <<"not found">>, tree |-> << >>]

(***************************************************************************)
(* The freeze of one channel: what every run repeats, position by position.*)
(***************************************************************************)
Hole == "hole"
Held(stream, masked) == [i \in DOMAIN stream |-> IF i \in masked THEN Hole ELSE stream[i]]

Ungraded == [graded |-> FALSE, masked |-> {}, lines |-> << >>]

FreezeStream(runs) ==
    LET masked == {i \in DOMAIN runs[1] : \E k \in DOMAIN runs : runs[k][i] # runs[1][i]}
    IN  IF \E k \in DOMAIN runs : Len(runs[k]) # Len(runs[1]) THEN Ungraded
        ELSE IF runs[1] # << >> /\ masked = DOMAIN runs[1] THEN Ungraded
        ELSE [graded |-> TRUE, masked |-> masked, lines |-> Held(runs[1], masked)]

FreezeStep(runs) == [c \in Channels |-> FreezeStream([k \in DOMAIN runs |-> runs[k][c]])]

Points(expected) == {c \in Channels : expected[c].graded}

\* Mutant of Matches: the masked lines are taken out, not held in place.
MatchesRemaining(expected, stream) ==
    LET Kept(s, out) == [k \in 1..Cardinality(DOMAIN s \ out) |->
            s[CHOOSE i \in DOMAIN s \ out :
                Cardinality({j \in DOMAIN s \ out : j < i}) = k - 1]]
    IN  Kept(stream, expected.masked) = Kept(expected.lines, expected.masked)

\* The count of lines first, then the lines with the masked ones held out.
Matches(expected, stream) ==
    /\ Len(stream) = Len(expected.lines)
    /\ Held(stream, expected.masked) = expected.lines

Passed(expected, actual) == {c \in Points(expected) : Matches(expected[c], actual[c])}

\* The frozen consensus shows the program doing something.
FrozeWork(expected) ==
    \/ expected.stdout.graded /\ expected.stdout.lines \notin {<< >>, <<"">>}
    \/ expected.exit.graded /\ expected.exit.lines = Zero

(***************************************************************************)
(* Workloads.                                                              *)
(***************************************************************************)
\* Steps that run the subject on something: not a query for help, not a bare command.
Timeable(s) == Script[s].kind \in {"path", "stdin", "flag"}

\* Scenarios whose input can be taken away to see whether it mattered.
Perturbable(s) == Script[s].kind \in {"path", "stdin"}

\* Mutant of Signature: an untouched input counts as something the program did.
SignatureWhole(s, seen, input) == seen

\* A fixture the program left alone is not evidence that it was read.
Signature(s, seen, input) ==
    IF Script[s].kind # "path" THEN seen
    ELSE [seen EXCEPT !.tree = [i \in DOMAIN seen.tree |->
            IF seen.tree[i] = input THEN "unchanged-input" ELSE seen.tree[i]]]

\* Help and version output, wherever it is stable.
OutputSignature(expected) == <<expected.exit.lines, expected.stdout.lines, expected.stderr.lines>>

Signed(expected) ==
    /\ \A c \in {"exit", "stdout", "stderr"} : expected[c].graded /\ expected[c].masked = {}
    /\ expected.stdout.lines # << >> \/ expected.stderr.lines # << >>

ControlOutputs(frozen) ==
    {OutputSignature(frozen[s]) : s \in {t \in DOMAIN frozen :
        Script[t].kind = "control" /\ Signed(frozen[t])}}

\* Worth timing: a stable success on an input, and not the help text in disguise.
Eligible(frozen) ==
    {s \in DOMAIN frozen :
        /\ Timeable(s)
        /\ ~(Signed(frozen[s]) /\ OutputSignature(frozen[s]) \in ControlOutputs(frozen))
        /\ frozen[s].exit.graded /\ frozen[s].exit.lines = Zero}

Family(s) == Script[s].family
Families(S) == {Family(s) : s \in S}

\* Mutant of Spare: the last workload of a family may be held out too.
SpareNone(working, picked) == working \ picked

\* Workloads that may still be held out: another of their family stays to be graded.
Spare(working, picked) ==
    {s \in working \ picked :
        Cardinality({t \in working : Family(t) = Family(s)})
            - Cardinality({t \in picked : Family(t) = Family(s)}) > 1}

\* What selection knows of a workload's input; of a scenario that it did not keep as one, nothing:
\* its input is taken for its own, and for empty.
Input(s, known) == IF s \in known THEN Script[s].input ELSE s
Bytes(s, known) == IF s \in known THEN Script[s].bytes ELSE 0

\* A fresh input before a fresh family, both before either, then the larger input.
Worth(s, picked, known) ==
    (IF \E t \in picked : Input(t, known) = Input(s, known) THEN 0 ELSE 2)
        + (IF Family(s) \in Families(picked) THEN 0 ELSE 1)

Better(s, t, picked, known) ==
    Worth(s, picked, known) > Worth(t, picked, known)
        \/ (Worth(s, picked, known) = Worth(t, picked, known) /\ Bytes(s, known) >= Bytes(t, known))

\* The next workload held out for timing, if one can be spared.
HoldOut(working, known, had) ==
    LET spare == Spare(working, had)
    IN  IF spare = {} THEN had
        ELSE had \union {CHOOSE s \in spare : \A t \in spare : Better(s, t, had, known)}

PickTimed(working, known, count) ==
    LET room == Cardinality(working) - 1
        Picked[k \in 0..count] ==
            IF k = 0 THEN {}
            ELSE IF k > room THEN Picked[k - 1] ELSE HoldOut(working, known, Picked[k - 1])
    IN  Picked[count]

(***************************************************************************)
(* The corpus a freeze ends in.  frozen maps the scenarios kept to their   *)
(* expectations; ran says whether any scenario was anything but not found. *)
(***************************************************************************)
Unusable(why) == [usable |-> FALSE, why |-> why, graded |-> << >>, timed |-> << >>]

Only(f, S) == [s \in DOMAIN f \cap S |-> f[s]]

Distil(drawn, known, frozen, ran) ==
    LET worked == {s \in DOMAIN frozen : FrozeWork(frozen[s])}
        timed == PickTimed(Eligible(frozen), known, 3)
        graded == DOMAIN frozen \ timed
        dropped == Cardinality(drawn) - Cardinality(DOMAIN frozen)
    IN  IF drawn # {} /\ ~ran THEN Unusable("never found")
        ELSE IF drawn # {} /\ worked = {} THEN Unusable("did no work")
        ELSE IF timed = {} THEN [Unusable("nothing to time") EXCEPT !.graded = frozen]
        ELSE IF graded # {} /\ worked \cap graded = {} THEN Unusable("only error paths graded")
        ELSE [usable |-> graded # {} /\ 4 * dropped <= Cardinality(drawn),
              why |-> "", graded |-> Only(frozen, graded), timed |-> Only(frozen, timed)]

(***************************************************************************)
(* Scoring.                                                                *)
(***************************************************************************)
\* Points passed and points there are, of answers to every graded scenario.
Score(graded, answers) ==
    LET places == (DOMAIN graded) \X Channels
    IN  [passed |-> Cardinality({p \in places : p[2] \in Passed(graded[p[1]], answers[p[1]])}),
         total |-> Cardinality({p \in places : p[2] \in Points(graded[p[1]])})]

\* What a submission that does nothing leaves behind.
Trivial == [
    zero |-> [exit |-> Zero, stdout |-> << >>, stderr |-> << >>, tree |-> << >>],
    one |-> [exit |-> <<"1">>, stdout |-> << >>, stderr |-> << >>, tree |-> << >>],
    print |-> [exit |-> Zero, stdout |-> <<"done">>, stderr |-> << >>, tree |-> << >>]]

\* The reference with one channel disturbed.
Disturbed(seen, c) ==
    [seen EXCEPT ![c] = CASE c = "exit" -> (IF seen.exit = Zero THEN <<"1">> ELSE Zero)
                          [] c = "tree" -> Append(seen.tree, "frf-mutant-file")
                          [] OTHER -> <<"frf-mutant">> \o seen[c]]

\* E3 on this seam: a disturbed channel that is graded somewhere is noticed there.
Bites(graded, answers, c) ==
    \E s \in DOMAIN graded : graded[s][c].graded /\ c \notin Passed(graded[s], Disturbed(answers[s], c))

\* E5: every graded step invokes the subject.
Touching(graded) ==
    \A s \in DOMAIN graded : Points(graded[s]) # {} => Script[s].kind # "wrapped"

(***************************************************************************)
(* The speed a score may use: of every shape what its interval establishes *)
(* against the noise, and of the shapes the worst.  In percent.            *)
(***************************************************************************)
Established(span) ==
    IF span.lower > span.noise THEN span.lower
    ELSE IF span.upper * span.noise < 10000 THEN span.upper ELSE 100

Speedup(spans) ==
    LET found == {Established(spans[s]) : s \in DOMAIN spans}
    IN  CHOOSE x \in found : \A y \in found : x <= y

=============================================================================
