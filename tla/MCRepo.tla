------------------------------- MODULE MCRepo -------------------------------
(* A handful of repositories, each with one way to go right or wrong. *)
EXTENDS Repo

MCLine == {"-1", "0", "1", "127", "not found", "[timed out]",
           "convert a", "convert b", "check", "filter", "broken", "wrapped",
           "given", "changed", "noon", "dusk", "usage"}

MCScenario == {"convert a", "convert b", "check", "filter", "broken", "help", "bare", "wrapped"}

Says(family, kind, input, bytes) == [family |-> family, kind |-> kind, input |-> input, bytes |-> bytes]

MCScript == [s \in MCScenario |->
    CASE s = "convert a" -> Says("convert", "path", "a", 9)
      [] s = "convert b" -> Says("convert", "path", "a", 5)
      [] s = "check"     -> Says("check", "path", "c", 7)
      [] s = "filter"    -> Says("filter", "stdin", "d", 3)
      [] s = "broken"    -> Says("convert", "path", "e", 1)
      [] s = "help"      -> Says("help", "control", "", 0)
      [] s = "bare"      -> Says("bare", "bare", "", 0)
      [] s = "wrapped"   -> Says("wrapped", "wrapped", "", 0)]

Ends(exit, stdout, tree) == [exit |-> <<exit>>, stdout |-> stdout, stderr |-> << >>, tree |-> tree]

\* A file given is listed in the tree, whether it was read or not.
Left(s, input) == IF MCScript[s].kind = "path" THEN <<input>> ELSE << >>

Reads(s, input) == {Ends("0", <<s, input>>, Left(s, input))}
Ignores(s, input) == {Ends("0", <<s>>, Left(s, input))}
\* Writes what the repository holds already, over what it is given.
Overwrites(s, input) == {Ends("0", <<s>>, Left(s, "given"))}
Clock(s, input) == {Ends("0", <<s, input, now>>, Left(s, input)) : now \in {"noon", "dusk"}}
Fails(s, input) == {Ends("1", << >>, Left(s, input))}
Flaky(s, input) == Reads(s, input) \union Fails(s, input)
Helps(s, input) == {Ends("0", <<"usage">>, << >>)}

Works(How(_, _)) == [s \in MCScenario |-> [input \in {"given", "changed"} |->
    CASE s = "broken" -> Fails(s, input)
      [] s \in {"help", "bare"} -> Helps(s, input)
      [] s \in {"filter", "wrapped"} -> Reads(s, input)
      [] OTHER -> How(s, input)]]

Documented(room, calls, shows) ==
    [room |-> room, calls |-> calls, shell |-> FALSE, template |-> FALSE, shows |-> shows]

Tool == [declares |-> {"go.mod", "Makefile"}, steps |-> {{"entry", "test"}},
         lines |-> <<Documented("fence", "declared name", <<"convert a", "convert b">>),
                     Documented("script", "invocation", <<"check">>),
                     Documented("recipe", "wrapped", <<"filter">>),
                     Documented("prose", "declared name", <<"broken">>),
                     Documented("fence", "installer", <<"wrapped">>)>>,
         flaws |-> {}, invoked |-> FALSE, compiles |-> TRUE, leaves |-> "path",
         supplied |-> {}, guesses |-> {}, does |-> Works(Reads),
         restrictable |-> TRUE, covered |-> FALSE,
         reads |-> MCScenario \ {"help", "bare"}, writes |-> {}, random |-> {}, slow |-> {}]

MCProjects == {
    Tool,
    \* comes near the limit on some of its inputs
    [Tool EXCEPT !.slow = {"check", "broken"}, !.supplied = {"convert a", "convert b", "check", "broken"}],
    \* prints the time; its reach is measured
    [Tool EXCEPT !.declares = {"pyproject.toml"}, !.leaves = "output", !.covered = TRUE,
                 !.does = [Works(Clock) EXCEPT !["check"] = Works(Reads)["check"]],
                 !.lines = <<Documented("fence", "declared name", <<"convert a", "convert b">>),
                             Documented("fence", "declared name", <<"check", "broken">>)>>,
                 !.random = {"convert a", "convert b"}],
    \* never opens the file it is given
    [Tool EXCEPT !.does = Works(Ignores), !.reads = {"filter"}],
    \* writes over the file it is given
    [Tool EXCEPT !.does = Works(Overwrites), !.reads = {"filter", "broken"},
                 !.writes = {"convert a", "convert b", "check"}],
    \* four commands that work and one that fails now and then
    [Tool EXCEPT !.supplied = {"convert a", "convert b", "check", "filter", "broken"},
                 !.does = [Works(Reads) EXCEPT !["broken"] = [input \in {"given", "changed"} |-> Flaky("broken", input)]],
                 !.random = {"broken"}],
    \* nothing documented: its own files are guessed at
    [Tool EXCEPT !.declares = {"main.py"}, !.lines = << >>,
                 !.guesses = {"convert a", "convert b", "broken"}],
    \* a script that is not where its declaration says, and a file that is not built
    [Tool EXCEPT !.declares = {}, !.steps = {{"entry"}}, !.leaves = "nowhere"],
    [Tool EXCEPT !.leaves = "nowhere"],
    [Tool EXCEPT !.declares = {"package.json bin name", "setup.py"}, !.leaves = "nowhere"],
    [Tool EXCEPT !.compiles = FALSE],
    [Tool EXCEPT !.declares = {}],
    [Tool EXCEPT !.lines = << >>],
    \* its commands came with it, one of them under another program; not restrictable
    [Tool EXCEPT !.invoked = TRUE, !.supplied = {"convert a", "convert b", "wrapped", "check", "broken"}],
    [Tool EXCEPT !.restrictable = FALSE],
    [Tool EXCEPT !.flaws = {"library"}],
    [Tool EXCEPT !.flaws = {"large"}],
    [Tool EXCEPT !.flaws = {"typos"}]}

Other(lines) == Ends("0", lines, <<"given">>)

\* Nearly the reference: the clock left out, another order, nothing at all.
MCForeign == {Other(<<"convert b", "given">>), Other(<<"convert b", "given", "never">>),
              Other(<<"given", "check">>), Trivial.one}

MCSpans == {[lower |-> 120, upper |-> 150, noise |-> 105],
            [lower |-> 98, upper |-> 140, noise |-> 105],
            [lower |-> 60, upper |-> 80, noise |-> 105]}

=============================================================================
