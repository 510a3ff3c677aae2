------------------------------- MODULE Remote -------------------------------
(***************************************************************************)
(* src/frf/core/containers.py: one sandbox behind a wire that times out.   *)
(* A command that is not answered is sent once more, although the first    *)
(* may not have begun, may have ended, or may still be running.  A sandbox *)
(* is known by what commands can leave in it.                              *)
(***************************************************************************)
EXTENDS Integers, Sequences, FiniteSets

CONSTANTS Subjects  \* tasks: whether they build, have a verifier image of their own, what they answer
VARIABLES subject   \* the task that is driven

Artifacts == {"solver", "verifier"}

\* The version of the task unpacked, the versions its images were built from, the
\* containers running, the anonymous tags and the archives saved.
Fresh == [unpacked |-> 0, image |-> [a \in Artifacts |-> 0], running |-> FALSE,
          tagged |-> {}, saved |-> {}]

Ends(world, exit, said) == [world |-> world, exit |-> exit, said |-> said, lost |-> 0]

(***************************************************************************)
(* What a command does to a sandbox and says when it is answered.          *)
(***************************************************************************)
\* The network inside the sandbox may fail a build of anything: that is a fault too.
Builds(w, artifact) ==
    {IF subject.builds THEN Ends([w EXCEPT !.image[artifact] = w.unpacked], 0, "done")
                       ELSE Ends(w, 1, "broken"),
     [Ends(w, 1, "wire") EXCEPT !.lost = 1]}

\* The container has a name: while one runs, another is refused and reports nothing.
Runs(w) ==
    {IF w.running THEN Ends(w, 1, "conflict")
     ELSE Ends(w, IF subject.answers = "full" THEN 0 ELSE 1, subject.answers)}

\* Forced removal of what is not there may be an error or not.
Removes(w, present, without) ==
    IF present THEN {Ends(without, 0, "done")} ELSE {Ends(w, 0, "done"), Ends(w, 1, "absent")}

\* The verb of a command, and the one thing of the task's that it is about.
Effect(verb, thing, w) ==
    CASE verb = "chmod" -> {Ends(w, 0, "done")}
      [] verb = "build" -> Builds(w, thing)
      [] verb = "identify" -> {Ends(w, IF w.image[thing] # 0 THEN 0 ELSE 1, "done")}
      [] verb = "inventory" -> {Ends(w, IF subject.complete THEN 0 ELSE 1, "done")}
      [] verb = "replay" -> Runs(w)
      [] verb = "tag" -> {Ends([w EXCEPT !.tagged = @ \union {thing}], 0, "done")}
      [] verb = "save" -> {Ends([w EXCEPT !.saved = @ \union {thing}], 0, "done")}
      [] verb = "drop" -> {Ends([w EXCEPT !.saved = @ \ {thing}], 0, "done")}
      [] verb = "untag" -> Removes(w, thing \in w.tagged, [w EXCEPT !.tagged = @ \ {thing}])
      [] verb = "rm" /\ thing = "container" -> Removes(w, w.running, [w EXCEPT !.running = FALSE])
      [] verb = "rm" /\ thing \in Artifacts -> Removes(w, w.image[thing] # 0, [w EXCEPT !.image[thing] = 0])
      [] verb = "rm" /\ thing = "task" -> {Ends([w EXCEPT !.unpacked = 0], 0, "done")}

(***************************************************************************)
(* Remote.run.                                                             *)
(***************************************************************************)
\* Where a command may have got to when its answer does not come.
Unanswered(verb, thing, w) ==
    {w} \union {o.world : o \in Effect(verb, thing, w)}
        \union (IF verb = "replay" THEN {[w EXCEPT !.running = TRUE]} ELSE {})

Also(o, lost) == [o EXCEPT !.lost = @ + lost]

\* It never raises: without an answer the result is exit 1, after a second try when the
\* first timed out and at once on any other failure of the wire; what it says then is not
\* what a build says whose network failed.
Sent(verb, thing, w) ==
    LET Reached(v) == Unanswered(verb, thing, v)
        NoAnswer(after, lost) == Also(Ends(after, 1, "silence"), lost)
    IN  Effect(verb, thing, w)
            \union {NoAnswer(after, 1) : after \in Reached(w)}
            \union (UNION {{Also(o, 1) : o \in Effect(verb, thing, after)} : after \in Reached(w)})
            \union (UNION {{NoAnswer(last, 2) : last \in Reached(after)} : after \in Reached(w)})

(***************************************************************************)
(* Transfers, by parts on the way in and as one archive on the way out.    *)
(***************************************************************************)
\* A transfer is tried three times, and again only after a failure that may pass; a
\* failure that does not read as one, an archive cut short among them, is final.
Transfers == {[ok |-> TRUE, lost |-> 0], [ok |-> TRUE, lost |-> 1], [ok |-> FALSE, lost |-> 1],
              [ok |-> TRUE, lost |-> 2], [ok |-> FALSE, lost |-> 3]}

\* push: the parts are sent, then unpacked by a command of their own.
Pushed(w, version) ==
    {IF t.ok THEN Also(Ends([w EXCEPT !.unpacked = version], 0, "done"), t.lost)
             ELSE Also(Ends(w, 1, "wire"), t.lost) : t \in Transfers}
        \union {[Ends([w EXCEPT !.unpacked = version], 1, "wire") EXCEPT !.lost = 1]}

\* pull: what was saved arrives whole or not at all.
Pulled(w, artifact) ==
    {IF t.ok /\ artifact \in w.saved THEN Also(Ends(w, 0, "done"), t.lost)
                                     ELSE Also(Ends(w, 1, "wire"), t.lost) : t \in Transfers}

\* A sandbox is asked for up to six times, while what is said of the failure may pass.
OpenAttempts == 6
Opens == {[ok |-> TRUE, lost |-> k] : k \in 0..(OpenAttempts - 1)}
             \union {[ok |-> FALSE, lost |-> 1], [ok |-> FALSE, lost |-> OpenAttempts]}

=============================================================================
