------------------------------- MODULE Driver -------------------------------
(***************************************************************************)
(* The commands that build: tide emit, build and run (cmd/tide/main.go) and*)
(* a turn of the REPL.  A command goes through steps, each of which can    *)
(* fail, on the way to a temporary Go module that the go command builds.   *)
(* What the phases of the compiler accept is the subject of other modules: *)
(* here a phase may refuse whatever it is given.                           *)
(*                                                                        *)
(* Imports are told apart by how they resolve: a namespace of the standard *)
(* library that the program uses or that is idle, and nested, an idle one  *)
(* of a path of several segments; reflect, the runtime's own; lib, a       *)
(* package of the project; extra, listed under [bindings]; and other, that *)
(* nothing knows.  Externs may name a third-party package.                 *)
(***************************************************************************)
EXTENDS Naturals, FiniteSets

CONSTANT MaxImports  \* imports of one program

VARIABLES
  verb,     \* "emit", "build", "run", or "turn" of the REPL
  program,  \* the entry package: [parses, imports, third, mains]
  place,    \* what is around it: [manifest, lib, bindings]
  stage,    \* the next step, "ended" or "killed"
  units,    \* the packages merged into the program
  imports,  \* the import block of the Go text
  required, \* third-party packages that go.mod requires
  temp,     \* the temporary directory, "dir", and the files in it
  done,     \* "none", "printed", "built" (the output is replaced), "ran"
  exit,     \* the exit code; of a turn, 1 for an error
  faulty    \* a phase refused the program or the system failed a call

found == <<verb, program, place>>
vars == <<found, stage, units, imports, required, temp, done, exit, faulty>>

Imports == {"used", "idle", "nested", "reflect", "lib", "extra", "other"}
Programs == [parses : BOOLEAN,
             imports : {s \in SUBSET Imports : Cardinality(s) <= MaxImports},
             third : BOOLEAN, mains : 0..2]
Places ==
  {p \in [manifest : {"none", "bad", "good"},
          lib : {"absent", "plain", "main", "cyclic"},
          bindings : {"none", "bad", "lists"}] :
     p.manifest # "good" => p.lib = "absent"}

Init ==
  /\ verb \in {"emit", "build", "run", "turn"}
  /\ program \in Programs /\ place \in Places
  /\ stage = IF verb = "turn" THEN "compile" ELSE "args"
  /\ units = {"entry"} /\ imports = {} /\ required = {}
  /\ temp = {} /\ done = "none" /\ exit = 0 /\ faulty = FALSE

-----------------------------------------------------------------------------
(* Steps.  A failed one ends the command.                                  *)

\* The command has the directory and has deferred RemoveAll.
Deferred == stage \in {"go", "execute"}

Go(s) == stage' = s /\ UNCHANGED <<found, done, exit, faulty>>
Return(result, code) ==
  /\ stage' = "ended" /\ done' = result /\ exit' = code
  /\ UNCHANGED <<found, units, imports, required>>
End(result, code) == Return(result, code) /\ temp' = IF Deferred THEN {} ELSE temp
Refuse == End("none", 1) /\ UNCHANGED faulty
Fault  == End("none", 1) /\ faulty' = TRUE

Usage == stage = "args" /\ End("none", 2) /\ faulty' = TRUE

\* gatherSources: no such path, or a directory that has no .td file.
Gather ==
  /\ stage = "args"
  /\ Fault \/ (Go("manifest") /\ UNCHANGED <<units, imports, required, temp>>)

\* Nothing is resolved without a tide.toml.
FindManifest ==
  /\ stage = "manifest"
  /\ \/ place.manifest = "bad" /\ Refuse
     \/ /\ place.manifest # "bad"
        /\ Go(IF place.manifest = "none" THEN "compile" ELSE "resolve")
        /\ UNCHANGED <<units, imports, required, temp>>

\* classifyImport: reflect is on none of its lists.
Resolvable(i) == IF i = "lib" THEN place.lib \in {"plain", "main"}
                              ELSE i \in {"used", "idle", "nested", "extra"}

\* A file that does not parse is skipped; compilePackage will report it.
ResolvePackages ==
  LET seen == IF program.parses THEN program.imports ELSE {} IN
  /\ stage = "resolve"
  /\ \/ (\E i \in seen : ~Resolvable(i)) /\ Refuse
     \/ /\ \A i \in seen : Resolvable(i)
        /\ Go("compile")
        /\ units' = units \cup (seen \cap {"lib"})
        /\ UNCHANGED <<imports, required, temp>>

\* Read, lex and parse every file; imports that units satisfy are dropped.
ParseFiles ==
  /\ stage = "compile"
  /\ \/ ~program.parses /\ Refuse
     \/ Fault
     \/ /\ program.parses
        /\ Go("check")
        /\ imports' = program.imports \ units
        /\ UNCHANGED <<units, required, temp>>

Check ==
  /\ stage = "check"
  /\ Fault \/ (Go(IF verb \in {"build", "run"} THEN "main" ELSE "lower")
               /\ UNCHANGED <<units, imports, required, temp>>)

\* Mutant: only the entry package is searched.
MainsOfEntry == program.mains
Mains == program.mains + IF "lib" \in units /\ place.lib = "main" THEN 1 ELSE 0

CheckPackageMain ==
  /\ stage = "main"
  /\ \/ Mains # 1 /\ Refuse
     \/ Mains = 1 /\ Go("lower") /\ UNCHANGED <<units, imports, required, temp>>

\* writeHeader: an idle namespace is dropped if it is a single name, any other
\* path is kept, and the packages of the externs are added.
Header == (imports \ {"idle"}) \cup IF program.third THEN {"third"} ELSE {}

Lower ==
  /\ stage = "lower"
  /\ \/ Fault
     \/ verb = "emit" /\ End("printed", 0) /\ UNCHANGED faulty
     \/ /\ verb # "emit" /\ Go("require")
        /\ imports' = Header /\ UNCHANGED <<units, required, temp>>

\* thirdPartyGoMod: an unreadable list fails, a missing one lists nothing.
Require ==
  /\ stage = "require"
  /\ \/ place.bindings = "bad" /\ Refuse
     \/ /\ place.bindings # "bad" /\ Go("temp")
        /\ required' = IF place.bindings = "lists" THEN imports \cap {"third"} ELSE {}
        /\ UNCHANGED <<units, imports, temp>>

MakeTemp ==
  /\ stage = "temp"
  /\ Fault \/ (Go("main.go") /\ temp' = {"dir"} /\ UNCHANGED <<units, imports, required>>)

\* Mutant: a failed write leaves the directory.
WriteFileOrLeave(name, next) ==
  /\ stage = name
  /\ \/ Fault
     \/ Go(next) /\ temp' = temp \cup {name} /\ UNCHANGED <<units, imports, required>>
\* writeTempModule removes the directory itself if it cannot fill it.
WriteFile(name, next) ==
  /\ stage = name
  /\ \/ Return("none", 1) /\ faulty' = TRUE /\ temp' = {}
     \/ Go(next) /\ temp' = temp \cup {name} /\ UNCHANGED <<units, imports, required>>
WriteMain == WriteFile("main.go", "go.mod")
WriteMod  == WriteFile("go.mod", "go")

\* What the go command resolves, its standard library and what go.mod requires,
\* and the program uses: Go refuses an import that is idle.
GoBuilds == {"main.go", "go.mod"} \subseteq temp
            /\ imports \subseteq {"used", "reflect"} \cup required

\* go build -o, go run, and the REPL's go build into the directory.
GoBuild ==
  /\ stage = "go"
  /\ \/ Fault
     \/ ~GoBuilds /\ Refuse
     \/ GoBuilds /\ verb = "build" /\ End("built", 0) /\ UNCHANGED faulty
     \/ /\ GoBuilds /\ verb # "build" /\ Go("execute")
        /\ temp' = IF verb = "turn" THEN temp \cup {"repl.bin"} ELSE temp
        /\ UNCHANGED <<units, imports, required>>

\* The program ends with a code of its own.  go run ends with 1 unless that is
\* 0; the REPL takes any code for a turn that was executed.
Execute(code) ==
  /\ stage = "execute"
  /\ End("ran", IF verb = "turn" \/ code = 0 THEN 0 ELSE 1) /\ UNCHANGED faulty

\* A signal ends the command where it is: nothing deferred runs.
Kill == /\ stage \notin {"ended", "killed"} /\ stage' = "killed"
        /\ UNCHANGED <<found, units, imports, required, temp, done, exit, faulty>>

Over == stage \in {"ended", "killed"} /\ UNCHANGED vars

Next ==
  \/ Usage \/ Gather \/ FindManifest \/ ResolvePackages
  \/ ParseFiles \/ Check \/ CheckPackageMain \/ Lower
  \/ Require \/ MakeTemp \/ WriteMain \/ WriteMod \/ GoBuild
  \/ (\E c \in 0..3 : Execute(c)) \/ Kill \/ Over

Spec == Init /\ [][Next]_vars

-----------------------------------------------------------------------------
(* Properties.                                                             *)

TypeOK ==
  /\ units \subseteq {"entry", "lib"} /\ imports \subseteq Imports \cup {"third"}
  /\ required \subseteq {"third"}
  /\ temp \subseteq {"dir", "main.go", "go.mod", "repl.bin"}
  /\ done \in {"none", "printed", "built", "ran"} /\ exit \in 0..2

\* What a command asks of a program: that its imports resolve, and to be built
\* and not just printed, a single main among the packages merged, no import but
\* the standard library's and the project's, and externs that are listed.  In a
\* project with a tide.toml reflect does not resolve; [bindings] extra does, and
\* the Go text then imports its last segment, which no Go build finds.  An idle
\* namespace is no harm, but Go refuses a nested one, which is not dropped.
Accepted ==
  LET project == verb # "turn" /\ place.manifest = "good"
      lib     == "lib" \in program.imports
      mains   == program.mains + IF project /\ lib /\ place.lib = "main" THEN 1 ELSE 0
  IN
  /\ program.parses
  /\ verb # "turn" => place.manifest # "bad"
  /\ project => program.imports \cap {"reflect", "other"} = {}
  /\ project /\ lib => place.lib \notin {"absent", "cyclic"}
  /\ verb \in {"build", "run"} => mains = 1
  /\ verb # "emit" =>
       /\ program.imports \cap {"nested", "extra", "other"} = {}
       /\ lib => project
       /\ place.bindings # "bad"
       /\ program.third => place.bindings = "lists"

\* A command does its work exactly if the program is accepted and no call to the
\* system fails, says so with its exit code, and however it ends leaves no
\* temporary module behind, unless it is killed.
CommandsEndClean ==
  stage = "ended" =>
    /\ done # "none" <=> Accepted /\ ~faulty
    /\ exit = 0 => done # "none"
    /\ done \in {"printed", "built"} => exit = 0
    /\ temp = {}

=============================================================================
