------------------------------- MODULE Clients --------------------------------
(***************************************************************************)
(* src/frf/core/model.py and src/frf/core/rate_limiter.py: the questions   *)
(* that candidates built side by side put to one model gateway.            *)
(*                                                                         *)
(* A question first waits for one of the gate's slots, then for its turn:  *)
(* the turn is taken with the spacing lock held, and whoever holds it      *)
(* sleeps.  Only then does its own clock start.  The gateway may answer,   *)
(* refuse, or say nothing; what may pass is asked again within the clock,  *)
(* and a refusal of the temperature is asked once more without one.        *)
(***************************************************************************)
EXTENDS Integers, FiniteSets

CONSTANTS Jobs,          \* the workers
          Slots,         \* llm_max_concurrent
          Spaced,        \* is there an interval to keep between calls?
          MaxAttempts,   \* MAX_ATTEMPTS
          Patience,      \* the timeout of a question, in waits
          Gateway        \* what the gateway may do with one request

ASSUME GateAssumption == Slots \in Nat \ {0} /\ Spaced \in BOOLEAN
ASSUME ClockAssumption == MaxAttempts \in Nat \ {0} /\ Patience \in Nat \ {0}

\* An answer of use and one that is none; a body of another shape, and one that is not JSON;
\* a refusal for good, one that may pass, one of the temperature; and nothing at all.
ASSUME GatewayAssumption ==
    Gateway \subseteq {"good", "bad", "misshapen", "not json", "refused", "busy", "hot", "silent"}

VARIABLES call,   \* job -> its question: where it stands, and what became of it
          free,   \* slots nobody holds
          turn    \* who holds the spacing lock

clients == <<call, free, turn>>

Nobody == "nobody"
Quiet == [at |-> "idle", attempt |-> 0, left |-> 0, warm |-> FALSE, heard |-> "", said |-> ""]

ClientsInit == call = [j \in Jobs |-> Quiet] /\ free = Slots /\ turn = Nobody

Asking(j) == call[j].at \in {"slot", "turn", "spacing", "asking"}

\* A question of a job that waits for no other.
Ask(j) == call' = [call EXCEPT ![j] = [Quiet EXCEPT !.at = "slot", !.warm = TRUE]]

\* Its answer, taken notice of.
Heard(j, said) == call[j].at = "answered" /\ call[j].said = said

Move(j, at) == call' = [call EXCEPT ![j].at = at]

TakeSlot(j) ==
    /\ call[j].at = "slot" /\ free > 0
    /\ free' = free - 1
    /\ Move(j, IF Spaced THEN "turn" ELSE "spacing")
    /\ UNCHANGED turn

\* Whoever holds the lock sleeps with it until the interval is over.
TakeTurn(j) ==
    /\ call[j].at = "turn" /\ turn = Nobody
    /\ turn' = j /\ Move(j, "spacing")
    /\ UNCHANGED free

\* THE DEADLINE STARTS AFTER THE WAIT.
Start(j) ==
    /\ call[j].at = "spacing"
    /\ turn' = IF turn = j THEN Nobody ELSE turn
    /\ call' = [call EXCEPT ![j].at = "asking", ![j].left = Patience]
    /\ UNCHANGED free

\* Mutant of Returned: the slot is given back by a call that was answered.
ReturnedAnswered(said) == IF said \in {"good", "bad"} THEN 1 ELSE 0

\* Leaving the gate gives its slot back, whatever was said and whatever was raised.
Returned(said) == 1

Leave(j, said) ==
    /\ call' = [call EXCEPT ![j] = [Quiet EXCEPT !.at = "answered", !.said = said]]
    /\ free' = free + Returned(said)

Means(does) == IF does = "silent" THEN "no answer" ELSE "refused"

\* Another attempt, after a wait that fits into what is left; a refusal is what is remembered.
Again(j, heard) ==
    /\ call[j].attempt < MaxAttempts - 1
    /\ \E left \in 0..(call[j].left - 1) :
          call' = [call EXCEPT ![j].attempt = @ + 1, ![j].left = left,
                               ![j].heard = IF @ = "refused" THEN @ ELSE heard]
    /\ UNCHANGED free

\* The temperature refused: the same question without it, whatever is left of the clock.
Cooler(j) ==
    \E left \in 0..call[j].left :
        /\ call' = [call EXCEPT ![j].attempt = 0, ![j].left = left, ![j].warm = FALSE, ![j].heard = ""]
        /\ UNCHANGED free

\* "no answer" and "refused" are ModelErrors; "broken" is any other exception: a body that is not
\* JSON, or the message about the clock, which names a variable that is not there.
Try(j) ==
    /\ call[j].at = "asking" /\ UNCHANGED turn
    /\ \/ call[j].left = 0 /\ Leave(j, IF call[j].heard = "" THEN "broken" ELSE call[j].heard)
       \/ /\ call[j].left > 0
          /\ \E does \in Gateway :
                \/ does \in {"good", "bad"} /\ Leave(j, does)
                \/ does = "not json" /\ Leave(j, "broken")
                \/ does \in {"misshapen", "refused"} /\ Leave(j, "refused")
                \/ does = "hot" /\ call[j].warm /\ Cooler(j)
                \/ does = "hot" /\ ~call[j].warm /\ Leave(j, "refused")
                \/ does \in {"busy", "silent"} /\ (Again(j, Means(does)) \/ Leave(j, Means(does)))

Wait(j) == TakeSlot(j) \/ TakeTurn(j) \/ Start(j) \/ Try(j)

=============================================================================
