# Tide in TLA+

Tide (`heni/tide-lang`) is a compiler, written in Go, from a TypeScript-like
language to Go source, with an interactive prompt, a package resolver and a
small runtime that is emitted into every program. This directory holds TLA+
models of the parts of it that are hard to test, TLC configurations that check
them on small instances, and TLAPS proofs that generalise the results. Paths
are relative to the repository, line numbers are those of the modelled commit.

Run a check with `tlc -config MCCompiler.cfg MCCompiler`, a proof with
`tlapm LoweringProofs.tla`. The community modules are needed for both.

## The system

A build goes through `cmd/tide` (target and packages), `internal/lexer`,
`internal/parser`, `internal/sema`, `internal/codegen` and finally `go build`
in a temporary module; the program then runs with helpers that codegen wrote
into it. The compiler is sequential; concurrency is in the programs it emits.

| Part | Code | State | Operations | What is hard | Status |
|---|---|---|---|---|---|
| Structured concurrency | `codegen/concurrency.go`, `codegen.go` `writePredeclaredGroup` | per scope a WaitGroup, a Once, an error, a context; per goroutine its place | open, spawn, wait, fail, cancel, yield | every interleaving of failures and joins; early returns; late spawns | `TideGroup`, `StructuredScope` |
| Channels, fan-out | `codegen/call.go`, `codegen.go` `tideTryRecv`, `parser.go` `parseValueBlock`, the documented fan-out program | buffer, closed flag, who waits | send, recv, tryRecv, close, range | a close before a send; a full buffer with no reader; what is before the join | `Channels`, `FanOut`; select, unbuffered channels and timers are left out |
| Containers | `codegen.go` 779-1000, `control_flow.go` | a Go map and a slice of keys over a shared array | set, get, delete, keys, for | aliasing of slices during loops and after `append` | `OrderedMap`, `OrderedDict`; Stack is left out |
| Loops, values | `control_flow.go`, `codegen.go` `emitTypeDecl` | the counter and the bound; structs and pointers | a round, a write to the bound; make, copy, compare | a bound that is evaluated again; the greatest int; pointers behind values | `Loops`, `Equality` |
| Match | `sema/exhaust.go`, `codegen/match.go` | arms, verdict, clauses | check, lower, build, run | two phases that decide the same question with different tables | `Match`; payload structure, records and floats are abstracted |
| Prompt | `cmd/tide/repl.go` | three slots of forms, an undo record, rejected texts | add, roll back, run, reset | a turn that fails half-way; state kept from rejected inputs | `ReplSession`; line editing and inputs of several forms are left out |
| Package resolution | `cmd/tide/resolve.go`, `main.go` | visited, on-stack, gathered files | visit, import, gather, strip | cycles against diamonds, self-imports, unknown paths | `PackageResolver` |
| Manifest, third-party modules | `cmd/tide/manifest.go`, `thirdparty.go` | the section being read | read a line, write a go.mod | a closed schema read line by line | `ProjectManifest`, `Driver`; versions are left out |
| Build driver | `cmd/tide/main.go` | a temporary module | create, write, build, run, remove | each step may fail and the directory must go; what one step lets through another must take | `Driver`; default output names are left out |
| Lexer | `internal/lexer` | position | next token | maximal munch, numbers before `..` and methods, escapes | `Lexer` |
| Parser | `internal/parser` | token position, the no-brace-literal flag | recursive descent | precedence, literals, brace literals against blocks | `Operators` (levels, compound assignment), `Lexer` (literals), the promotion of a block's last expression (`FanOut`) and the forms of arms (`Match`); the rest is left out |
| Name resolution | `sema/resolve.go`, `env.go`, `index.go`, `construct.go`, `alias.go` | a stack of scopes, the package's declarations | declare, look up | shadowing; Go resolves the names again on scopes of its own | `Names`; imports, types and type parameters are left out |
| Type checking | `sema/infer.go`, `body.go`, `types.go`, `collections.go`, `generics.go`, ... | types of expressions, the contexts of loops, scopes and returns | infer, narrow, assign, call, jump | narrowing written back to nodes; contexts put back; Go checks again | `Fits`, `Dispatch`, `Equality`, `Jumps`, `Operators`; interfaces and branch types are left out |
| `try` lowering | `codegen/try.go` | whether the walk has met an effect, the temporaries | hoist, refuse | order of evaluation, frames within frames | `TryHoist`, `Jumps` |
| Other lowering | `codegen.go`, `call.go`, `control_flow.go`, `tail.go`, `json.go` | output text, which helpers are needed | emit | text that Go parses, resolves and types again | `Operators`, `Names`, `Jumps`, `Dispatch`, `Fits`; JSON and brace literals of maps are left out |
| Foreign bindings | `codegen/extern.go`, `reflect_prelude.go`, `internal/bindgen` | none | translate Go signatures | needs Go's type system | handles as receivers in `Dispatch`; the rest is out of reach |
| AST, bindings tables | `internal/ast`, `sema/bindings.go`, `builtins.go`, `dynamic.go` | none | data and tables | nothing stateful | not modelled, but for the types of module functions in `Dispatch` |
| Corpus runner | `std/vendor/corpusexec`, `tools/corpus-status` | a process and its deadline | run, time out | a deadline racing the end of a process | not modelled |

How they interact: the parser hands arms and blocks to sema and codegen, which
never talk to each other but must agree, with each other and with Go, which
parses, resolves and types the text once more. That agreement is what `Match`,
`Operators`, `Names`, `Jumps`, `Dispatch` and `Fits` are about, each for one
kind of decision; the resolver decides which files the other phases see; the
prompt calls the whole chain once per turn; codegen emits the group, the channel
helpers and the containers, which meet in a running program (`FanOut` composes
the scope's join with channels).

## The modules

| Module | What it is |
|---|---|
| `StructuredScope` | what `scope` and `spawn` promise, with no mechanism |
| `TideGroup` | the emitted group and the code around it, one action per Go statement that matters |
| `Channels`, `FanOut` | Go's buffered channel as operators; a scope whose blocks send to a collector |
| `OrderedDict` | a dictionary as the list of its entries in the order of first insertion |
| `OrderedMap` | the emitted `Map`/`Set`: a map, a slice over an array in a small heap, loops and key slices that share arrays |
| `Match` | a match from the parser to the clause that runs |
| `ReplSession` | the prompt's session and its turns |
| `PackageResolver` | the depth-first visit, gathering, stripping and the one-main rule |
| `TryHoist` | a statement with tries, from its expressions to the events of the running program |
| `Operators` | an expression of operators from its tokens to what Go reads |
| `Lexer` | a text from its characters to tokens, and its literals to the Go text |
| `Names` | the checker's scopes and Go's, and what a use of a name means on each |
| `Jumps` | break, continue, return, try and spawn in a nest of constructs |
| `Dispatch` | chains of method calls, and the Go expression each becomes |
| `Fits` | literals, variables and lists where a type is expected |
| `Loops` | ranges and slices under a loop whose body may move the bound |
| `Equality` | values of declared types as Go structs and pointers, and `==` |
| `Driver` | a command from its arguments to its exit code |
| `ProjectManifest` | a tide.toml line by line |
| `Lowering`, `Phases`, `Values` | the modules of `LoweringProofs` and `CompilerProofs` side by side, so that the runs and the theorems are about the same thing |
| `MC*` | instances for TLC; `MCCompiler` and `MCValues` run several modules |
| `*Proofs`, `IndexLemmas` | theorems, and lemmas about sequences and indices; `CompilerProofs` has those about `Phases` and `Values`, `LoweringProofs` those about `Match` and, through `Lowering`, `Dispatch` and `TryHoist` |

Operators named `...Early`, `...Anyway` and the like under a comment "Mutant:"
are plausible mistakes; none is part of a specification. Each shows that the
property paired with it in `PROJECT.json` can fail.

### TideGroup

`phase[s]` follows the function literal that `emitScopeExpr` emits: `body`,
`waiting` (inside `Wait`), `joined`, `cancelled`, `trailing`, `returned`.
`pc[t]` follows the goroutine that `Go` starts: `running` user code, `failed`
(about to enter `once.Do`), `storing`, `cancelling`, `leaving` (only the
deferred `Done` is left), `ended`. `frames[th]` is the stack of scopes a thread
is evaluating, so that scopes nest within bodies, blocks and trailing
expressions. User code is not modelled: between two runtime steps a thread may
open scopes, spawn, end or fail, as the grammar and sema allow (E0405 keeps
spawns inside scopes). Two classes of programs the compiler accepts are
switched by constants: `ReturnsInScope`, a `return` or a failing `try` among a
scope's statements, and `LateSpawns`, a spawn within the trailing expression.
Contexts are only observed through the group's own cancel: the derived context
is discarded by the emitted code (`g, _ :=`), so a cancelled parent reaches
nobody, and `CancelParent` shows that nothing depends on it. Panics and
`os.exit` in user code end the process and are left out.

### FanOut

One owner and a number of blocks, each of which sends one result or fails. What
the program is written like is a constant: whether the collector's `close` and
loop stand before or behind the join, whether it ranges or polls with
`tryRecv`, whether it closes. Behind the join is only the block's last
expression (`parser.go` 1408), not what a reader takes for it.

### OrderedMap

`order` is a slice: an array and a length, whose capacity is the length of the
array in `heap`. `append` writes in place while there is room and moves to a
free array, of any larger size, when there is none; `delete` shifts within the
array. A loop holds the header it began with; `keys()` and `toSlice()` copy.
Arrays nothing refers to are emptied, so that TLC's heap stays finite.

### Match

The parser appends arms; `Check` is `checkExhaustive`; `Lower` is the emission
of clauses, with the constants each tests each component against; `GoCompile`
is the Go compiler's opinion (types of case constants, one default, duplicate
constants, temporaries that no clause reads); `Run` picks a value and the clause
a Go switch would take.
`Matches` is the language's meaning of a pattern and independent of all this.
`Verdict`, `Lowerable`, `Clauses` and the rest are operators over a subject and
its arms, so that they can be reasoned about apart from the steps.

### ReplSession

An input is a record of what classification and compilation see of a text. A
turn adds it to one of three slots or overwrites a declaration, compiles and
runs the whole source, prints the body's trailing expression, and rolls back and
remembers the text if it fails. `ToolchainFails` lets a build fail for reasons
that are not the session's.

### PackageResolver

The call stack of the recursive visit is explicit. A package's contents are its
imports in order, whether it parses and how many mains it has; the project is
chosen at the start, with or without a manifest. Files are gathered as packages
are left; what is built is what was gathered, without duplicates and sorted by
path (`DedupeSorted`), whatever the order of the imports.

### TryHoist

The parser finishes expressions one by one, so that a statement is a numbered
list of nodes, each over earlier ones; `hoistableTries` (`walk`) and the preambles (`hoist`) are
functions over that list. `plan` is the order of the preambles. `Source` is what
the text says and `Lowered` what the Go text says, preambles first, then the
statement with temporaries, each from left to right. Go keeps to that order for
calls, receives, `&&` and `||` only: a panic over an index or a divisor may come
before or behind a call next to it (`Floats`), and the index of an assignment's
target comes last (`Target`). `Run` takes the program to one more event of
`Lowered`, in any order Go allows (`InOrder`); the event may end the function, by
a panic or a try that failed, and `Complete` ends the statement when all are over.
Whether the right side of `&&` runs, and what a value-position `if` chooses, is
`taken`, chosen when the program starts. Signs, fields and parentheses pass one
operand through and are left out; every conditional expression that the walks do
not enter is one kind, `branch`.

### Operators

Tokens of one operator per level, a sign, parentheses, an int and a bool. The
levels are data, so that the same descent parses for Tide and for Go, whose
levels differ: Go has one level for `==` and `<`, and lets comparisons follow
each other. A tree is written as `emitExpr` writes it (blanks around operators,
none behind a sign, so that two signs meet as `--`), and read again.

### Lexer

An author writes a text over one of four small alphabets (numbers; quotes and
escapes; words; operators, comments and line ends), and `next` takes one token,
or an error, at a time. Then the literals are decoded as `parsePrimary` does it,
which leaves floats and runes to Go's `strconv`, and written as `emitExpr`
writes them: ints in decimal, strings and runes quoted, floats as they stood.
The reference (`IsInt`, `IsFloat`, `IsChars`, `IsComment`, ...) is the lexical
grammar, as predicates on texts, and Go's reading of a literal.

### Names

A program declares its package's names, then the members of one class, then the
parameters of one function, and its body is walked: declarations, inline blocks,
blocks that Go has in braces (of an if, in value position, of a closure),
clauses of a match, loops. `scopes` is the checker's chain and `blocks` is Go's;
an inline block opens a scope but no Go block (`emitBlockBody`), a method's Go
function has a receiver `t`. `Use` records what the checker means by a name, called
or as a value, and what Go takes for what is written: a method that is called is
asked for before a variant, a variant before a field, and a method as a value is
written bare. Types are left out: where Go finds a declaration of another type, it
may also refuse to build.

### Jumps

The walk enters constructs, and changes the contexts of the checker
(`loopDepth`, `scopeDepth`, `curReturn`, whether a try is forbidden) and of the
generator (`curFuncReturn`, `inSpawnBody`, `groupVars`) as the code does, and puts
back what the code puts back. A jump is judged by the first, written by the
second, and resolved by `GoLands`, Go's nest of functions, loops and switches.
Blocks and ifs in statement position are transparent to all of it.

### Dispatch

A root operand (variable, call, literal, of a class, container, channel, slice,
handle, duration or string) and a chain of method calls and parentheses.
`SemaType` is what the checker says, the type the language gives goes along, and
`Lower` is `emitCall` with its questions in its order: module bindings, channel
operations, handles, slice shortcuts, selectors. The text is kept as a core
under an open prefix (`<-`, `&`), so that a later selector regroups it as Go's
grammar does, and goes along with its Go type, its effects so far and the value
it computes: `GoSelect`, `GoReceive`, `GoBuiltin` and `GoCopy` say what Go makes of
the text of a call, and what it refuses has the type `NoGo`: a selector that is not
exported on a handle of another package, or a send as an operand, for two.

### Fits

Literals and variables of primitive, class, interface, generic and container
types in lists and parentheses, then one question: may it stand where a type is
wanted (`fits`), be converted (`convOK`), or be the argument of a generic call
(`unifyArg`, `substitute`)? Narrowing is written back to nodes, and `GoAssigns`
asks Go's rules about the nodes as they then are, with the element types that
`goTypeFromSema` can spell.

### Loops, Equality

A loop takes a round at a time, the body may write the bound in between, and
ints wrap at `Width` bits. `Equality` makes values of a recursive and a plain sum,
records of an int, a slice, a map and a class, a class and tuples of them, each
with its meaning (a term) and its Go representation (addresses for what codegen
makes a pointer), copies them, and compares.

### Driver, ProjectManifest

`stage` is the next call of `cmdEmit`, `cmdBuild`, `cmdRun` or of a turn of the
prompt; each may fail, for the program's sake or the system's (`faulty`).
`temp` is what lies in the temporary directory, `done` what was achieved. Imports
are told apart by who knows them: the standard library, with packages of one and of
more segments (an idle import of the latter is kept, and Go refuses it), the
runtime's own, the project, `[bindings]`, nobody. A signal ends a command where it
stands. In `ProjectManifest` a line is a header, a pair, blank or malformed; keys,
sections and forms of values are those of the schema, and one of each that is not.
Texts of a list that differ only in empty parts are one line.

## The runs

The phases of the compiler do not share state but the tree, and each of their
modules starts from every small input of its own. They are therefore checked in
one run, `compiler`: `MCCompiler` extends `Match`, `Phases` and `Lowering`, gives
its own two parts the variables `s1` to `s6`, and chooses a part, the others staying
as they are. What would be an interaction of two
phases (the checker's and the generator's contexts, the checker's scopes and
Go's) is inside one module. `values` does the same with the four modules about
the values of a program.

| Run | Question | Bounds |
|---|---|---|
| `group_safety` | Do the join and the failure contract hold, and is `StructuredScope` implemented, for programs without early returns and late spawns? | 2 scopes, 3 tasks |
| `group_any_program` | What holds for every program, with early returns and late spawns, what may run behind a join, and does a scope return? | 2 scopes, 2 tasks |
| `group_return` | Does the join contract hold with early returns? **No.** | 1 scope, 2 tasks |
| `fanout` | Is every form of collector behind the join safe, complete and live? | 4 blocks, a slot for each |
| `values` | Is the emitted map the ordered dictionary, what do loops see, what is equal, what is admitted where? | 3 keys, 3 arrays, capacity 3, 1 loop over a map; ints of 3 bits, 2 writes to the bound; 4 values; two lists or parentheses around the leaves |
| `sum_equality` | Are sums equal by their components? **No.** | 4 values |
| `compiler` | Do the phases agree with the language, with each other and with Go, and does every command end clean? | see below |
| `match_default_first` | Does the switch always run the first match? **No.** | 10 subjects, up to 3 arms out of at most 25, cell limit 4 |
| `compound_assign` | Is a compound assignment grouped as written? **No.** | up to 5 tokens |
| `break_in_match` | Does a break leave its loop? **No.** | 3 constructs |
| `repl_session` | Is the source what the user would expect after any turns? | 10 inputs, up to 3 forms |
| `resolver` | Is a build accepted exactly if it should be, and complete? | 3 packages, 23 contents each, one missing directory |

The bounds of `compiler`: matches as in `match_default_first`; texts of up to
five characters (four for words and operators) with one digit in `\x` and two in
`\u`; statements of up to seven tokens, an expression alone or behind `n -=` and
`n *=`; three declarations of one name, or two in programs of two names, with two
constructs around a use; statements of up to six nodes, their events in every
order Go allows; jumps under three constructs; chains of four calls or
parentheses; programs of two imports; manifests of four lines.

Why the bounds are enough. *Group*: three tasks allow two to fail while the
third still runs; two scopes nest, follow each other, or belong to a block.
*Fan-out*: four blocks may have failed, be waiting, be sending and have
returned. *Containers*: with three keys the middle one can be deleted, the order
can outgrow its array, and an array can be shared by the order and a loop. A
second concurrent loop touches nothing the first does. *Match*: three arms are
needed for a default between two others, and for a sum of two and a bool to be
covered piecemeal; the subjects are a sum with a payload, one in lower case, a
predeclared sum, bool, int, and tuples of them, one above the cell limit, which
is scaled from 4096 to 4. *Prompt*: three forms are the least in which something
stands before and behind a redefinition. *Resolver*: three packages give
self-imports, two-cycles, three-cycles and diamonds. *Try*: six nodes hold a
call before a try with a call in its operand, a try in a try, an assignment with
effects on both sides, and an effect behind a condition with a try after it
(five do not). *Operators*: seven tokens are four operands and the three
operators between them, or three operands with a parenthesis or with two signs;
two operators decide every question of grouping, the third has something to
disturb. *Lexer*: five characters hold a number with a separator, a point, an
exponent and its sign, a number before `..`, and a quoted escape with its
digits; four hold a comment with its end, or the longest operator with a
character behind it. *Names*: three declarations of a name are one of the package,
one that shadows it and one that shadows that; a class member and a variable, or a
name and a variant, are the pairs that can fall together in Go. `t` is also what a
method's receiver is called; one set of two has a name Go reserves and what it is
spelled, another a name spelled like another's variant. *Jumps*: three constructs put a second one
between a loop, scope or spawn and the jump; a walker's state after leaving one
is seen by the next. *Dispatch*: a call that is lowered specially, parentheses
around it, a call on the result, and a fourth for `(C{..}).fromBytes().bytes().copy()`,
which evaluates a constructor twice. *Fits*: a list of lists. *Loops*: three
bits leave ranges that are empty, of one value, ordinary, and up to the greatest
int; two writes shrink a bound and extend it again. *Equality*: four values are
two pairs of equal parts. *Driver*: two imports, so that one that is accepted
stands beside one that is not. *Manifest*: four lines are a header, a key,
another header and a key of either. The theorems do not depend on any of these.

### Properties

*Group.* `JoinContract`: no scope is past its join while a block of it runs.
`FailureContract`: a scope that is through has failed exactly if a block did,
and with the error of one of them. `NothingOutlives`: a scope that is over has
released its context, and the process does not exit over a running block.
`FirstFailureWins`, `FailureCancels` (a context that is done has a reason, and
a failure that has been processed has been felt), `ScopeReturns`.
`OnlyLateBlocksRemain`, for every program: a block that runs behind its scope's
join was spawned behind it, in a scope that had not failed, and whatever it
returns, the scope's value is Ok and its context is done.
*Fan-out.* `NeverStuckOrCrashed`: no send on, or second close of, a closed
channel by a collector behind the join (`CollectingIsSafe`), and no block waits
for room, though a sibling failed (`SiblingNeverBlocks`). `CollectsWhatWasSent`:
an Ok result holds every value once; only polling a closed channel collects what
nobody sent, behind everything that was sent, and such a loop has not ended
(`OnlySentIsCollected`). `FanOutEnds`.
*Containers.* `ImplementsDict`; `AliasingIsSafe`: what `keys()` returned never
changes, a loop goes through what it began with unless something was deleted,
and no loop meets a cell that was not written.
*Loops and values.* `VisitsRange`: a loop visits what its range stands for, in
order, once, and all of it before it ends, unless its body writes the bound; a range
up to and with the greatest int (`Endless`) is visited in order too, but has more
rounds behind it and no end, and no other loop has either. `EqualByComponents`: what is `==` is equal and the reverse,
but for sums with payloads of their own type and records with containers, which
are compared by pointer; and what sema admits builds, but for records of slices and
operands of different types. That classes are not compared at all (E0401) is part of
the property: it states what the checker does, which one of two documents says and
the other contradicts (see "What was found").
*Match.* `RejectsRightly`: E0303 and E0304 are never wrong. `RunsRightArm`: what
is accepted has an arm for every value, if the checker claims to check the
subject (`CheckedNeverPanics`), and the arm that runs is the first that matches, if
no clause stands behind a default (`RunsFirstMatchOfOrdered`); and there is a
trailing panic exactly if there is no default (`GuardOrDefault`).
*Prompt.* `SessionIsSound`: a session with a body compiles as it stands
(`BodyCompiles`), and no declaration is there twice (`LastDeclWins`).
`TurnsKeepSource`: a turn that fails restores the source (`FailedTurnRestores`),
one that succeeds changes nothing else (`NothingLost`), and a session that compiles
goes on to, until an import or a declaration that does not stand on its own is kept
without a build (`StaysSound`). `StaysUsable`: an input that stands on its own
compiles in every session that does; in one that does not, for what was kept
without a build, every statement fails. `NewestExprPrints`.
*Resolver.* `VerdictIsExact`: what is accepted has no cycle, and a refusal points at
a cycle or at an unknown import that the target leads to. `BuildIsExact`: what is
built is what the target leads to, each once, and generated files keep exactly
their registry imports. `BuildEnds`.
*Try.* `HoistsExactly`: as far as the program got, it has gone through events of the
source in an order Go could have taken, each once, and through all of them when it
completes, unless an effect stands in the right operand of `&&` or `||` with a try
behind it (`KeepsOrderOfSeen`); and what is refused would have overtaken an effect
or dropped a condition (`RefusesOnlyReorderings`). The reference, `Source`, knows
nothing of frames or purity.
*Operators.* `ReadAlike`: `E0112` exactly for what `grammar.ebnf` does not derive,
and trees that it does (`ParsesByGrammar`); Go's grouping is the program's but for
compound assignments of a looser right side, and what does not build has one of
three shapes (`GoAgrees`).
*Lexer.* `LexesByGrammar`: every token is the longest element of the grammar at its
place, an error only where there is none. `LiteralsSurvive`: what Go reads is the
value the text means.
*Names.* `BindsAsResolved`: Go takes the declaration the checker means, the
closest one that is not over, with eight exceptions that the property lists.
*Jumps.* `JumpsWork`: a jump that builds lands where it means to or, as listed,
in a nearer switch or function literal; a jump with nothing in between is
accepted and works, which fails if any context is not put back; a spawn joins the
group of the scope around it.
*Dispatch.* `CallsRunAsTyped`: the Go call runs the method the checker typed, once,
or Go refuses it, and it refuses exactly for six causes (`RefusedFor`); three
lowerings pass Go and do something else.
*Fits.* `AdmittedBuilds`: where the checker admits an expression, Go admits what is
written for it, with five causes of a refusal.
*Driver.* `CommandsEndClean`: a command does its work exactly if the program is one
it accepts and nothing failed, its exit code says so, and however it ends no
temporary module is left, unless it is killed. *Manifest.* `ReadsSchema`: accepted
exactly if every line is of the schema, and then the last line for a key counts.

A property with exceptions names them as causes in the state, and is violated by
any other deviation; the exceptions are what "What was found" lists.

### Fairness

Liveness is checked for three modules. In `TideGroup` and `FanOut` each step of
the emitted runtime, and the return of a block, is weakly fair by itself: the
Go scheduler runs every runnable goroutine, and the assumption that user code
ends is stated by the fairness of `FuncReturns`. Nothing is assumed about
opening scopes, spawning or cancelling, and no strong fairness is needed since
nothing that is enabled is taken away by another thread for good. The resolver
is one thread that runs until it ends: weak fairness of `Next`.

Deadlock is checked in the runs of the concurrent programs, the resolver and the
prompt, where ends are explicit stuttering steps, so that a state without another
successor is an error. It is not in `compiler`, `values` and the runs of their
modules: there a sequential walk stops at its bound, or when its last question
is answered.

## The proofs

All theorems are for arbitrary constants under the named assumptions of the
modules.

* `TideGroupProofs`. The core invariant says where each thread is: a scope in
  evaluation occurs exactly once in the frames of its owner, and the counter of
  a group is the number of its goroutines that have not called `Done`. `OnceInv`
  says that at most one goroutine is inside `once.Do`, and that the error and the
  cancellation go with its place. From both follow `TypeOK`, `FailureCancels` and
  `FirstFailureWins` for every program. So does `OnlyLateBlocksRemain`, by `LateInv`:
  a counter of 0 leaves no block behind, and behind the join only a trailing
  expression, or a block that is late itself, spawns one. For programs without early returns and
  late spawns `JoinInv` (no block runs behind its scope's join, and what a scope
  yields is what its error says) and `RootInv` (among running blocks there is
  always one whose scope's owner is none of them, so that the chain of owners
  ends at main) give `JoinContract`, `FailureContract`, `NothingOutlives`, and
  `NoAddAfterWait` (a WaitGroup is not raised again once its Wait returned). The
  invariants are needed because none of the contracts is inductive: that nobody
  runs follows from the counter, which follows from who has been spawned where.
  Last, every step of the group is a step of `StructuredScope` or a stutter, under the mapping that calls a scope open
  until its result is decided and a failure reported once its error is stored.
* `FanOutProofs`. Phases of the owner, what is behind the join, and a tally: what
  was sent is what is buffered and what was collected, until a closed and empty
  channel is polled. Safety of collecting, room for every sibling, completeness and
  `OnlySentIsCollected`, for every number of blocks and capacity.
* `OrderedMapProofs`. `Listed` (the order's cells are the keys of the map, each
  once), `Own` (what `keys()` returned is over an array nobody writes), and for
  loops `Sees` and `Steady` (an undisturbed loop's cells are as they were, since
  append only writes behind its length). They give the three parts of
  `AliasingIsSafe` and the refinement of `OrderedDict`.
* `LoweringProofs`, of `Match`. The invariant `History` is only a record: each stage vouches for
  what the phases before it computed. The substance is in lemmas about the
  operators: a missing constructor, or a cell outside all rectangles, is a value
  no arm matches; a constant compares equal to a value exactly if it was made
  from the value's constructor, because variants have one owner and tags are
  positions; and so a clause passes exactly when its arm matches. All the
  properties of `Match` are proved, for any types, subjects and arms.

  Of `Dispatch`, through `Lowering`: `CallInv`, for chains of every length. What
  makes it inductive is `TextOK`, which says of the text written so far what may
  still be open in front of it: an address only before a constructor without calls,
  a receive only behind the recv of a known variable, and that a text Go refuses is
  refused for good; and that what Go accepts has, as Go types it, the type the
  language gives it. `SemaOK` says where the checker may not know a type. A call
  either fails or works (`Outcome`), exactly as `RefusedFor` has it (`Refuses`), which
  is shown question by question in `emitCall`'s order: to the text that is written,
  and on to what Go says of it. The bounded runs suggested the cause `CopiesEffects`; a chain of four calls
  showed that it needs the constructor, too.

  Of `TryHoist`, through `Lowering`: `HoistsExactly`, for statements of every size.
  The nodes of a statement are numbered as the parser finishes them, so that an
  expression is an interval of them (`Forest`: two expressions are apart or one is
  within the other). Recursion over the tree is then a function of numbers, which
  the lemma `Recursion` gives its equation, and induction over the tree is one over
  numbers, for a set instead of a predicate (`Induction`). Four facts come of it.
  Where the walk stays pure there is no effect but in the right operand of `&&` or
  `||`, or in a try (`PureEvents`). Preambles are for tries within the expression
  (`HoistWithin`). Where the walk does not end unsafe, every try has a preamble and
  `Unseen` is false, the events of the preambles and then those of what is left are
  those of the text in its order (`AllAgree`): of two operands, what is left of the
  first has to change places with the preambles of the second, which it may because
  one of the two is empty (`PairAgrees`). And without a reason (`Excused`) the walk
  never ends unsafe and every try has its preamble (`AllHoisted`). The invariant,
  `Inv`, is then small: the statement is well formed, which each step of the parser
  keeps (`FinishedWell`); its Go text has the events of the source, in the order of
  the text, unless `Unseen`; and what the program has gone through is an order that Go
  may give to the Go text. Hence it is one Go may give to the source.
* `ReplSessionProofs`. Rolling back is the inverse of adding, for each way of
  adding; with it `FailedTurnRestores`, and `BodyCompiles` and `LastDeclWins` as
  invariants. `NothingLost` rests on what adding keeps: appending makes the old
  slot a prefix of the new one, replacing changes the one place that `SameDecl`
  finds, and a failed turn returns to what the turn before it left. For `StaysUsable`
  and `StaysSound`, `Compiles` is taken apart slot by slot: a form with a fresh name
  and no uses leaves every slot as sound as it was, to drop a slot leaves the others
  so, and a statement adds nothing that a declaration could have missed. For
  `NewestExprPrints` the expression just stored is the last of the body, and
  nothing in front of it ends the program.
* `PackageResolverProofs`. The invariant of the visit: the stack is a path of
  imports from the target, what has been left has its imports gathered before
  it, and what is gathered is reachable. Acceptance, refusal and completeness
  follow, and sorting neither adds, drops nor repeats a file. `IndexLemmas` serves
  it and others.

* `CompilerProofs`. Six modules of one walk or loop each, composed by `Phases` and
  `Values`: every one has its invariant, about its own variables, and a step of the
  composition is a step of one of them.
  - *Jumps.* `SemaKnows` and `GenKnows` say, for every prefix of the nest, what the
    contexts of the checker and of codegen know of it: that `loopDepth` is 0 exactly
    if no loop is around, that an open `scopeDepth` means a scope with no closure
    in between, which construct gave `curReturn`, whether the nearest function
    literal is a spawn's, and which scope `groupVars` ends with. The saved contexts
    on the stack need it too, since leaving a construct restores one; that is why
    the invariant is about all prefixes and not about the top. Where Go takes a
    jump is read off the nest (`Nearest`), and three lemmas, one for each part of
    `JumpsWork`, compare the two.
  - *Names.* `Levels` gives each construct on the stack the height the two chains
    had when it was entered, so that the checker's scopes and Go's blocks, which do
    not correspond one to one, drop to matching heights when it is left.
    `Placed` says in which block a declaration of a scope is, `Spelled` that what a
    block holds is in a scope, or is over, or a variant's, or the receiver;
    `Rising` that further in is later, and a lemma of `Lookup` that it finds the
    entry of the last frame that has one. What is over is in no scope (`Live`).
    The assumption `SpellingsDiffer` is about strings, which the provers
    take for opaque constants: a prefix makes another string. It is an assumption of
    `Phases`, so TLC evaluates it for the instance.
  - *ProjectManifest.* Reading line by line amounts to three functions of all the
    lines: the table a line is in is that of the last header above it, a key has the
    value of the last pair that sets it, and a line is refused exactly if it is not
    in the schema. Each step extends them by a line.
  - *Driver.* `DriverPast`: what a command has established by the time it gets to a
    stage, from the arguments on, so that getting to the last one means that the
    program and the project are acceptable. `DriverTemp`: which files of the
    temporary module there are at each stage.
  - *Loops.* What has been visited is a run of consecutive numbers from the first
    bound, the counter is the next one, and an undisturbed bound is the one that was
    read first. Up to the greatest int this holds until the counter has come to it
    (`UnendingInv`), and no test ever fails. For every width of int that is positive.
  - *Equality.* There is a function from the addresses handed out to the terms
    written there, and for each type the term of a value and what Go compares
    correspond by it (`Single`; `Value` for tuples). That function is no variable of
    the program, so the invariant asserts that there is one.

tlapm 1.4.5 hands its SMT backend two CASE expressions as if they were equal when
their first arm and their OTHER are. Proofs about definitions with CASE are
therefore laid out so that a step evaluates each of them in a known case; the only
CASE expressions that are equated are one and the same text, in one state or in two
that agree on its variables.

Only model-checked: the liveness properties (`ScopeReturns`, `FanOutEnds`,
`BuildEnds`), which need fairness; `ReadAlike`, `LiteralsSurvive`,
`LexesByGrammar` and `AdmittedBuilds`, whose modules are
recursion over tokens, characters and types; and the type invariants of the modules above,
as parts of `TypesOK`, the facts they need of it being in the invariants.

## What was found

Five runs are expected to fail, each against a sentence of the repository:

1. `group_return`: a `return` or a failing `try` among a scope's statements
   leaves without `Wait` (codegen.go:1892); language-spec.md:792 promises that a
   scope does not return before its blocks.
2. `match_default_first`: a tuple arm that matches everything loses to later
   arms (match.go:158), as `(_, _)` before `(x, true)`; lowering-go.md:512 says the
   order is preserved.
3. `compound_assign`: `x -= a - b` is built as `x = x - a - b`, and `x *= a + b`
   as `x = x * a + b`, since the parser puts no `ParenExpr` around the right side
   (parser.go:1585); codegen.go:2664 reproduces "the author's grouping".
4. `break_in_match`: a `break` in a match arm or a select case ends the Go switch
   or select, and the loop goes on (codegen.go:1911); language-spec.md:469-474
   says that it refers to the enclosing loop.
5. `sum_equality`: equal values of a recursive sum are not `==`, for their
   payloads of the same sum are pointers (codegen.go:2342); language-spec.md:332
   says that sums are equal component by component.

Three more deviations are what properties of the passing runs say of the code, with
nothing else allowed:

* `OnlyLateBlocksRemain`: a spawn within a scope's trailing expression is started
  behind `Wait` and outlives the scope (concurrency.go:90), against
  language-spec.md:792 again.
* `OnlySentIsCollected`: `tryRecv` on a closed channel yields `Some` of the zero
  value (codegen.go:741); builtins.md:284 says None when the buffer is empty.
* `VisitsRange`: `lo..=hi` is written `i <= hi; i++` (control_flow.go:411), which
  ends for no `hi` that is the greatest int: the counter wraps and the loop goes on
  below `lo`; language-spec.md:457 says `[a, b]`.

Seven more have a definition that TLC refutes when it is added to the named
configuration:

* `ClassesEqualByReference`, as the INVARIANT of `MCEqualitySums.cfg`: `==` on class
  instances is E0401 (types.go:309), as type-system.md:1074 has it;
  language-spec.md:334 compares them by reference. One of the two documents is out
  of date.
* `EverySessionCompiles`, as an INVARIANT of `MCReplSession.cfg`: a declaration
  before the first statement is kept without being compiled (repl.go:159), and
  fails every later turn; RFC 0003:163 says it is discarded.
* `AlwaysSafe`, as an INVARIANT of `MCFanOut.cfg`: the documented fan-out closes
  the channel before the join (parser.go:1408), where a block may still send;
  language-spec.md:779 says the close is behind it.
* `VisitedIsKnown`, as a PROPERTY of `MCValues.cfg` (without its SYMMETRY): a loop whose body
  deletes visits keys that are gone (codegen.go:833); lowering-go.md:714 says
  "always Some".
* `KeepsOrder`, as an INVARIANT of `MCCompiler.cfg`: hoisting does not see calls
  in the right operand of `&&` and `||` (try.go:69), so in
  `combine(ok && g(), try h())` h runs, and may return, before g;
  lowering-go.md:299 says a try is hoisted only when everything before it is
  pure.
* `BlockEndsScope`, as an INVARIANT of `MCCompiler.cfg`: names declared in an
  inline block are still taken behind it (codegen.go:1929), a `let` of the same
  name in the function then declares it twice; name-resolution.md:19-21 ends them
  with the block.
* `OnlyMalformedEscapes`, as an INVARIANT of `MCCompiler.cfg`: the runes `'\0'`
  and `'\"'` are E0110 (parser.go:3027), though diagnostics.md:61 and grammar.ebnf
  list their escapes.

Met on the way, visible in the models or their assumptions, without a run of
their own:

* A second `let` of a name does not compile at the prompt, although RFC 0003:99
  says that it shadows; a form that follows a bare expression prints that
  expression again (repl.go:551, RFC 0003:130); a statement that panics silences
  everything behind it (repl.go:743).
* A match on Result or Option that misses an arm is accepted
  (exhaust.go:36-55), against type-system.md:549.
* Lower-case variants parse as names. Outside of tuples the checker takes them
  for catch-alls, and codegen for variants: E0304 for a complete match, or a
  panic (`Misread` in `Match`); name-resolution.md:209 has the resolver decide.
* A constructor of another type in a match of one subject lowers to its tag
  (match.go:910), which may be another constructor's; tuples check this.
* A fresh name on an Option or Result component that is also some sum's variant
  becomes a test (match.go:207), against lowering-go.md:505.
* Two arms without a test, or a repeated constructor, are accepted and do not
  build in Go; architecture.md:160 says that generated Go always builds.
* The two select loops of the rate limiter example share a one-shot timer
  (rate_limited.td:26); examples/STATUS.md:121 records the timeout.
* `- -x` is written `--x`, `b == x < y` groups as `(b == x) < y` in Go, and sema
  accepts `<` on bools: none of them builds (`BrokenOnlyBy` in `Operators`).
* A compound assignment evaluates its target twice; desugaring.md:149 leaves it
  to sema to forbid targets with effects, which sema does not. keywords.md:144
  says that there is no compound assignment.
* The emitted map literal has a local `m`, which captures a user's `m`
  (codegen.go:2135).
* A `try` in a spawned block never works: its preamble returns the result of the
  function around (try.go:204), from a function literal that returns an `error`;
  language-spec.md:745 says that it returns early with `Err`. A `return` or `try`
  in a value block, a value match or a scope leaves only its function literal.
* A local called `t` captures a method's receiver (codegen.go:1573); a local with
  a variant's name becomes the variant (codegen.go:2577); `map` and `tide_map` are one
  Go name; a static method called by its bare name is not found, nor is a method taken as
  a value (codegen.go:2565), unless the package has something by that name; the head
  of a loop may take the loop's own binder.
* A range's upper bound is evaluated in every round (control_flow.go:415), so that
  a body that writes it changes the loop.
* `.copy()` writes its receiver twice, calls in it included; a user's variable
  `strings` is taken for the module; a division by `time.seconds(n)` divides by n and
  multiplies by a second; a user's method called `len`, `push`, `copy` or `bytes` is taken for
  a slice's, and a channel that is not a plain variable is not seen (call.go:213,
  315). A handle whose type the checker does not know keeps the lower-case names of
  its methods (call.go:423), which Go does not find, and `(ch.send(v))` is written
  `(ch <- v)` (codegen.go:2663), which is no Go expression.
* `[1, b]` for a `[]byte` and `[c, d]` for a list of an interface are refused
  though each element fits alone: the list is typed by its first element before it
  narrows (collections.go:22). In parentheses, a list that narrows keeps the type it had;
  a list of `Any` has no Go spelling (match.go:662).
* In a project with a tide.toml `import reflect` is E0117 (resolve.go:106 does not
  know it); what `[bindings] extra` lists is accepted, but the Go text imports
  only its last segment, which no build finds. Without a tide.toml an import
  nobody knows is first refused by Go.
* `tide run` ends with the code of `go run`, which is 1 whatever the program's
  is, and main.go:8-9 says that the exit code is propagated. A signal leaves the
  temporary module behind.
* A `#` within a string of a tide.toml starts a comment, and the line is
  malformed; a carriage return alone is not a line end; the least int cannot be
  written.

## Not modelled, and why

The values user code computes, panics and `os.exit`; unbuffered channels,
`select` as a choice of communications, and timers; NaN as a key; in `Match` the
structure of payloads, record and float patterns, the inferred type of the
result and unused bindings; at the prompt, editing, history and inputs of several
forms; of the parser, the grammar of declarations, types and postfix forms, error
recovery, and brace literals against blocks; of names, imports, types, aliases
and type parameters; of types, conformance to interfaces beyond one fixed
hierarchy, arguments of ordinary calls, and the join of branches; default names
of outputs, and a directory that stands where the output should be. A user
variant called `Ok` or `Some` replaces codegen's own entry; `Match` assumes that
there is none.

Text emission, the AST and its printer, and the tables have no behaviour that a
model would add to. Foreign bindings need Go's type system. The corpus runner's
timeout is one look at a context behind `Wait` in the standard library's exec, and
a model of it would restate it; the key-value binding is a mutex around a map.

## What could follow

`select` in `Channels`, with unbuffered channels, and the rate limiter as a
program; match arms with one level of payload patterns; brace literals against
blocks, with the flag that the parser passes down; the join of branch types.

Theorems worth proving: `AdmittedBuilds`, by the numbering of expressions that the
proof about `TryHoist` uses.
