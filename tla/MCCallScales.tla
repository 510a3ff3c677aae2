----------------------------- MODULE MCCallScales -----------------------------
(***************************************************************************)
(* Two workers over seventeen candidates in curated batches: two           *)
(* operations, three cases of the battery, and a floor one above what the  *)
(* battery can make of nothing.                                            *)
(***************************************************************************)
EXTENDS CallScales

Def(n, tags, kinds, result, accepts) ==
    [name |-> n, tags |-> tags, kinds |-> kinds, result |-> result, accepts |-> accepts]

AnyCase == {<< >>, <<"null">>, <<"zero">>, <<"one">>, <<"text">>}
Two(tags, kinds, result) == <<Def("f", tags, kinds, result, AnyCase), Def("g", tags, kinds, result, AnyCase)>>

Out(probes, labels) ==
    [probes |-> probes, labels |-> labels, labelled |-> IF labels = << >> THEN "none" ELSE "list"]

One(op) == <<op, "one">>
Txt(op) == <<op, "text">>
All(label) == [i \in 1..7 |-> label]
Mixed == <<"valid", "invalid", "boundary", "valid", "valid", "valid", "valid">>
Seven == <<One("f"), Txt("f"), <<"f">>, <<"f", "zero">>, One("g"), Txt("g"), <<"g">>>>

\* Enough and labelled; repeats of what the battery has; repeats the battery can make good; enough
\* for one operation only; an operation nobody knows; labels that do not align; one class; no list.
Full == Out(Seven, Mixed)
Repeats == Out([i \in 1..7 |-> <<"f">>], << >>)
Rescued == Out(<<One("f"), One("f"), Txt("f"), <<"f">>, One("g"), Txt("g"), <<"g">>>>, << >>)
Poor == Out(<<One("f"), Txt("f")>>, <<"valid", "error">>)
Stranger == Out(<<One("f"), One("h")>>, << >>)
Shifted == Out(Seven, <<"valid", "error", "boundary">>)
OneClass == Out(Seven, All("valid"))
Counted == [Repeats EXCEPT !.labelled = "number"]

\* More than the source hands on, in the order of the surface, and in another.
Longer == Out(<<One("f"), Txt("f"), <<"f">>, <<"f", "zero">>, <<"f", "null">>, <<"f", "one", "one">>,
                <<"f", "one", "text">>, One("g"), Txt("g")>>, << >>)
Spread == Out(<<One("g"), Txt("g")>> \o SubSeq(Longer.probes, 1, 7), << >>)

Pkg(language, stem, declares, drawings, facts) ==
    [scale |-> "package", language |-> language, stem |-> stem, described |-> FALSE,
     given |-> TRUE, declares |-> declares, drawings |-> drawings, shapeless |-> FALSE,
     facts |-> facts, lacks |-> {}]
Fun(scale, language, symbol, kinds, result, facts) ==
    [scale |-> scale, language |-> language, stem |-> <<"sort">>, described |-> TRUE, given |-> TRUE,
     declares |-> <<Def(symbol, {"owned"}, kinds, result, {<<"one">>, <<"empty">>})>>,
     drawings |-> {}, shapeless |-> FALSE, facts |-> facts, lacks |-> {}]

Plain == Two({}, << >>, "void")
Ints == Two({"owned"}, <<"int">>, "int")

MCCandidates ==
    [asks |-> [Pkg("python", <<"json">>, Plain, {Full}, {}) EXCEPT !.described = TRUE, !.given = FALSE],
     named |-> [Pkg("python", <<"json">>, Plain, {Full}, {}) EXCEPT !.described = TRUE],
     prefix |-> Pkg("python", <<"json", "parser">>, Plain, {Full}, {}),
     drawn |-> [Pkg("python", <<"draw">>, Plain \o <<Def("_h", {"private"}, << >>, "void", AnyCase)>>,
                    {Full, Repeats, Rescued, Poor, Stranger, Shifted, OneClass, Counted, Longer, Spread},
                    {}) EXCEPT !.shapeless = TRUE],
     goer |-> Pkg("go", <<"go">>, Ints \o <<Def("v", {}, << >>, "void", AnyCase)>>, {Full}, {}),
     rust |-> Pkg("rust", <<"rust">>, Ints, {Full}, {}),
     ruby |-> Pkg("ruby", <<"ruby">>, Plain, {Full}, {}),
     gem |-> Pkg("ruby", <<"gem">>, Two({"owned", "static"}, << >>, "void"), {Full}, {}),
     esm |-> Pkg("javascript", <<"esm">>, Plain, {Full}, {"esm"}),
     small |-> [Pkg("python", <<"small">>, <<Plain[1]>>, {Full}, {}) EXCEPT !.given = FALSE],
     unnamed |-> Pkg("go", <<"unnamed">>, Ints, {Full}, {"unnamed module"}),
     lacking |-> [Pkg("python", <<"lacking">>, Plain, {Full}, {}) EXCEPT !.lacks = {"entry_points"}],
     fun |-> Fun("module", "go", "run", <<"int">>, "int", {"package clause", "main"}),
     fragile |-> Fun("module", "java", "run", <<"int">>, "int", {"fragile"}),
     reserved |-> Fun("module", "rust", "entry", <<"int">>, "int", {}),
     scalar |-> Fun("kernel", "cpp", "dot", <<"int">>, "int", {}),
     kernel |-> Fun("kernel", "cpp", "axpy", <<"int_array">>, "void", {})]

MCSampled ==
    [c \in DOMAIN MCCandidates |->
        IF c = "kernel" THEN <<<<"entry", "empty">>, <<"entry", "one">>>>
                        ELSE <<<<"entry", "one">>, <<"entry", "text">>>>]

Give(a, b, supplied, remote) ==
    [queue |-> ("a" :> a @@ "b" :> b), supplied |-> supplied, remote |-> remote]

MCBatches ==
    {Give(<<"asks">>, <<"fun">>, FALSE, FALSE), Give(<<"asks">>, <<"named">>, FALSE, FALSE),
     Give(<<"named">>, <<"prefix">>, FALSE, FALSE),
     Give(<<"drawn", "prefix">>, << >>, FALSE, FALSE), Give(<<"goer">>, <<"fragile">>, FALSE, TRUE),
     Give(<<"rust">>, <<"ruby">>, FALSE, TRUE), Give(<<"esm">>, <<"fragile">>, FALSE, TRUE),
     Give(<<"gem">>, <<"scalar">>, TRUE, TRUE), Give(<<"small", "lacking">>, <<"reserved">>, FALSE, FALSE),
     Give(<<"scalar", "kernel">>, <<"unnamed", "goer">>, FALSE, FALSE)}

MCTitles == {<<"json", "reader">>, <<"parser", "faster">>}
MCBattery == <<[args |-> << >>, label |-> "boundary"], [args |-> <<"null">>, label |-> "error"],
               [args |-> <<"zero">>, label |-> "boundary"]>>

=============================================================================
