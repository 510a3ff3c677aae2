------------------------------- MODULE Serving --------------------------------
(***************************************************************************)
(* How a function or a package becomes something that answers requests:    *)
(* src/frf/source/package_adapters.py reads what a package shows,          *)
(* src/frf/observe/call/dispatch.py writes one entry in front of it,       *)
(* bridge.py binds a mined function of a compiled language, and            *)
(* shims/__init__.py says what has to be built before it runs.             *)
(*                                                                         *)
(* A subject is a record: scale and language; declares, what its tree      *)
(* declares, each with a name, tags, the kinds of its parameters, its      *)
(* result and the arguments it accepts; surface, what was discovered of    *)
(* it; and facts, what is true of the tree: "esm", "broken" (it does not   *)
(* compile), "fragile" (its mutants do not).                               *)
(***************************************************************************)
EXTENDS Integers, Sequences, SequencesExt

Interpreted == {"python", "javascript", "ruby"}
Native == {"go", "rust", "java", "cpp"}

-----------------------------------------------------------------------------
(* The surface of a package.                                               *)

\* Python: functions at the top of a module, neither of them begun with an underscore.
PythonShows(d) == d.tags \cap {"private", "private file"} = {}

\* JavaScript: what is exported, by any of four forms.
JavascriptShows(d) == "private" \notin d.tags

\* Rust: what is pub, when its parameter list comes to an end.
RustShows(d) == d.tags \cap {"private", "unclosed"} = {}

\* Go: what begins in upper case and gives a value back.
GoShows(d) == "private" \notin d.tags /\ d.result # "void"

\* Ruby: a class that says itself that it is made without arguments.
Newable(d) == "newable" \in d.tags

\* Ruby: a method of a class, static or of such an instance, or of nothing at all.
RubyShows(d) ==
    /\ "private" \notin d.tags
    /\ IF "owned" \in d.tags THEN "static" \in d.tags \/ Newable(d) ELSE "static" \notin d.tags

Shown(language, d) ==
    CASE language = "python" -> PythonShows(d)
      [] language \in {"javascript", "typescript"} -> JavascriptShows(d)
      [] language = "rust" -> RustShows(d)
      [] language = "go" -> GoShows(d)
      [] language = "ruby" -> RubyShows(d)
      [] language \in {"java", "cpp"} -> TRUE

\* Only the grammar gives types; the other adapters record a signature as text.
Typed(language, d) ==
    IF language \in {"go", "java", "cpp"} THEN d ELSE [d EXCEPT !.kinds = << >>, !.result = "void"]

\* Of what is shown, the first of a name is the operation of that name.
FirstOfItsName(declares, shown, k) ==
    \A i \in shown : i < k => declares[i].name # declares[k].name

Discovered(c) ==
    LET shown == {k \in DOMAIN c.declares : Shown(c.language, c.declares[k])}
        first == {k \in shown : FirstOfItsName(c.declares, shown, k)}
        At(i) == CHOOSE k \in first : Cardinality({m \in first : m < k}) = i - 1
    IN  [i \in 1..Cardinality(first) |-> Typed(c.language, c.declares[At(i)])]

\* A contract: enough operations, each with a module; a Go module is named by go.mod.
Contracted(c, minimum) == Len(c.surface) >= minimum /\ "unnamed module" \notin c.facts

-----------------------------------------------------------------------------
(* The entry written in front of it.                                       *)

Scalars == {"int", "float", "bool", "string"}
Arrays == {"int_array", "float_array"}

\* The kinds each language converts, and the results each encodes; void is something else.
GoKinds == Scalars \union Arrays \union {"bytes"}
RustKinds == Scalars \union Arrays
JavaKinds == Scalars \union Arrays
CppKinds == Scalars \union Arrays
RustResults == Scalars \union Arrays
JavaResults == Scalars \union Arrays
CppResults == Scalars \union Arrays

Convertible(kinds, known) == \A i \in DOMAIN kinds : kinds[i] \in known

\* A dispatcher is generated operation by operation, or the language is refused.
GoDispatches(op) == Convertible(op.kinds, GoKinds)
JavaDispatches(op) == "owned" \in op.tags /\ Convertible(op.kinds, JavaKinds)
RustDispatches(op) == Convertible(op.kinds, RustKinds) /\ op.result \in RustResults \union {"void"}
CppDispatches(op) == Convertible(op.kinds, CppKinds) /\ op.result \in CppResults \union {"void"}

Dispatches(c) ==
    \A i \in DOMAIN c.surface :
        CASE c.language = "go" -> GoDispatches(c.surface[i])
          [] c.language = "java" -> JavaDispatches(c.surface[i])
          [] c.language = "rust" -> RustDispatches(c.surface[i])
          [] c.language = "cpp" -> CppDispatches(c.surface[i])
          [] c.language \notin Native -> TRUE

\* Rust and C++ are called by their plain name in a file that does not hold them.
InScope(c) == c.language \notin {"rust", "cpp"}

\* Which arguments stand for a value of a kind.
Fits(kind, arg) ==
    \/ kind \in {"int", "float"} /\ arg \in {"zero", "one"}
    \/ kind \in {"string", "bytes"} /\ arg = "text"
    \/ kind = "bool" /\ arg = "true"
    \/ kind \in Arrays /\ arg = "empty"

Arguments(kinds, args) == Len(args) = Len(kinds) /\ \A i \in DOMAIN args : Fits(kinds[i], args[i])

\* A compiled language answers with its arguments converted, each to the kind it was read as.
Typedly(op, args) == Arguments(op.kinds, args)

\* Ruby takes the empty class of an operation without one for a class, and finds none.
RubyReaches(op) == "owned" \in op.tags

\* What the dispatcher makes of a probe: it finds the operation and calls it.
Dispatched(c, probe) ==
    \E i \in DOMAIN c.surface :
        LET op == c.surface[i]
            args == Tail(probe)
        IN  /\ op.name = Head(probe)
            /\ c.language \in Native => Typedly(op, args)
            /\ c.language = "ruby" => RubyReaches(op)
            /\ args \in op.accepts

-----------------------------------------------------------------------------
(* A mined function behind its shim.                                       *)

Function(c) == c.declares[1]

\* What the shim's own entry is called cannot be bound to it.
Reserved == [go |-> "Entry", rust |-> "entry", java |-> "entry", cpp |-> "entry"]

\* A void function is observed through the array it writes.
Carries(kinds) == \E i \in DOMAIN kinds : kinds[i] \in Arrays

\* A bridge per compiled language, which calls the function with its arguments converted.
GoBinds(f) == Convertible(f.kinds, GoKinds) /\ (f.result = "void" => Carries(f.kinds))
RustBinds(f) ==
    Convertible(f.kinds, RustKinds) /\ IF f.result = "void" THEN Carries(f.kinds) ELSE f.result \in RustResults
JavaBinds(f) ==
    /\ "owned" \in f.tags /\ Convertible(f.kinds, JavaKinds)
    /\ IF f.result = "void" THEN Carries(f.kinds) ELSE f.result \in JavaResults
CppBinds(f) ==
    Convertible(f.kinds, CppKinds) /\ IF f.result = "void" THEN Carries(f.kinds) ELSE f.result \in CppResults

Bridges(c) ==
    c.language \in Native =>
        LET f == Function(c)
        IN  /\ f.name # Reserved[c.language]
            /\ CASE c.language = "go" -> GoBinds(f)
                 [] c.language = "rust" -> RustBinds(f)
                 [] c.language = "java" -> JavaBinds(f)
                 [] c.language = "cpp" -> CppBinds(f)

\* What keeps a mined file from being compiled beside its shim: another package, a second main, a
\* public class of another name, headers its includer would have had.  Each is reconciled.
GoReconciled == {"package clause", "main"}
JavaReconciled == {"package clause", "public class"}
CppReconciled == {"headers", "main"}

Reconciled(language) ==
    CASE language = "go" -> GoReconciled
      [] language = "java" -> JavaReconciled
      [] language = "cpp" -> CppReconciled
      [] language \notin {"go", "java", "cpp"} -> {}

Conflicts == {"package clause", "main", "public class", "headers"}

Served(c, probe) ==
    /\ c.language \in Native => Arguments(Function(c).kinds, Tail(probe))
    /\ Tail(probe) \in Function(c).accepts

-----------------------------------------------------------------------------
(* Both.                                                                   *)

\* What the source of the subject can be written for.
Generates(c) == IF c.scale = "package" THEN Dispatches(c) ELSE Bridges(c)

\* What has to be compiled, and what has dependencies to fetch.
Compiled(c) == c.language \notin Interpreted
Installs(c) == c.scale = "package" /\ c.language \in {"javascript", "typescript", "ruby"}

\* A tree is compiled as it is; a mined file is reconciled first.
Builds(c) ==
    Compiled(c) =>
        /\ "broken" \notin c.facts
        /\ IF c.scale = "package" THEN InScope(c)
           ELSE c.facts \cap Conflicts \subseteq Reconciled(c.language)

Answers(c, probe) == IF c.scale = "package" THEN Dispatched(c, probe) ELSE Served(c, probe)

\* The mutant of a package is written into a copy of what was built, and what would compile it is
\* dropped: a compiled language finds nothing to start.
PackageMutant(c) == IF Compiled(c) THEN "nothing" ELSE "mutant"

\* The mutant of a function is built; one that does not build leaves the reference to be served.
FunctionMutant(c) == IF "fragile" \in c.facts THEN "reference" ELSE "mutant"

MutantServes(c) == IF c.scale = "package" THEN PackageMutant(c) ELSE FunctionMutant(c)

\* A package is delivered under the shim's own name for the subject, which the tree may read as
\* the other kind of JavaScript; it was observed under a name that says which kind it is.
DeliveredServes(c) ==
    ~(c.scale = "package" /\ c.language \in {"javascript", "typescript"} /\ "esm" \in c.facts)

=============================================================================
