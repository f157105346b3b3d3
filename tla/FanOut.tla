------------------------------ MODULE FanOut ------------------------------
(***************************************************************************)
(* The fan-out idiom of docs/language-spec.md "Structured concurrency" and *)
(* of examples/concurrency/parallel_fetcher, as it is emitted: a scope     *)
(* that spawns a block per item, each sending its result on one buffered   *)
(* channel, and a collector that closes the channel and drains it.         *)
(*                                                                         *)
(* parser.go parseValueBlock makes only the LAST expression of the scope's *)
(* block its trailing expression, and concurrency.go emitScopeExpr puts    *)
(* only that behind the call of Wait.  So programs differ in               *)
(*   afterJoin  FALSE: close and loop are statements of the scope's block, *)
(*              as the documentation writes it; TRUE: they are one block   *)
(*              expression at its end, or come after the scope             *)
(*              (examples/concurrency/worker_pool)                         *)
(*   polls      the loop calls tryRecv until it yields None, it does not   *)
(*              range over the channel                                     *)
(*   closes     the channel is closed before the loop                      *)
(*                                                                         *)
(* The scope itself is the abstract one of StructuredScope, which          *)
(* TideGroup implements for programs like these.                           *)
(***************************************************************************)
EXTENDS Channels, FiniteSets, SequencesExt

CONSTANTS
  Worker,             \* the spawned blocks, one per item
  Cap,                \* the channel's capacity; the idiom: one per item
  Programs,           \* the forms of the program that are looked at
  NoWorker, NoScope

ASSUME WorkerAssumption ==
  /\ IsFiniteSet(Worker)
  /\ NoWorker \notin Worker /\ Zero \notin Worker /\ None \notin Worker /\ Zero # None
\* One scope; its name is immaterial.
TheScope == "scope"

ASSUME ScopeAssumption == NoScope # TheScope
ASSUME CapAssumption == Cap \in Nat \ {0}
\* A loop that ranges over a channel nobody closes never ends; one that polls
\* an open channel has to come after the join.
ASSUME ProgramAssumption ==
  \A p \in Programs : /\ p \in [afterJoin : BOOLEAN, polls : BOOLEAN, closes : BOOLEAN]
                      /\ p.closes \/ (p.polls /\ p.afterJoin)

VARIABLES
  stage, block, member, winner, value,  \* the scope, see StructuredScope
  program,    \* the form of the program
  place,      \* place[w]: how far the user code of w's block is
  chan,       \* the result channel
  out,        \* what the collector has appended
  drained,    \* the collector's loop has ended
  crashed     \* a goroutine panicked: the process is gone

scopeVars == <<stage, block, member, winner, value>>
userVars  == <<program, place, chan, out, drained, crashed>>
vars      == <<scopeVars, userVars>>

S == INSTANCE StructuredScope WITH Scope <- {TheScope}, Task <- Worker, NoTask <- NoWorker

Init ==
  /\ S!Init
  /\ program \in Programs
  /\ place   = [w \in Worker |-> "fetch"]
  /\ chan    = MakeChannel(Cap)
  /\ out     = <<>>
  /\ drained = FALSE
  /\ crashed = FALSE

Spawned == \A w \in Worker : block[w] # "idle"

-----------------------------------------------------------------------------
(* The spawned blocks: let p = try fetch(...); ch.send(p); return Ok(()).  *)

\* The failing try returns from the block.
FetchFails(w) ==
  /\ ~crashed
  /\ place[w] = "fetch"
  /\ S!Finish(w, "err")
  /\ UNCHANGED userVars

Fetched(w) ==
  /\ ~crashed
  /\ block[w] = "running" /\ place[w] = "fetch"
  /\ place' = [place EXCEPT ![w] = "send"]
  /\ UNCHANGED <<scopeVars, program, chan, out, drained, crashed>>

Send(w) ==
  /\ ~crashed
  /\ block[w] = "running" /\ place[w] = "send"
  /\ CanSend(chan)
  /\ chan'  = Sent(chan, w)
  /\ place' = [place EXCEPT ![w] = "return"]
  /\ UNCHANGED <<scopeVars, program, out, drained, crashed>>

\* No recover anywhere in emitted code.
SendPanic(w) ==
  /\ ~crashed
  /\ block[w] = "running" /\ place[w] = "send"
  /\ SendPanics(chan)
  /\ crashed' = TRUE
  /\ UNCHANGED <<scopeVars, program, place, chan, out, drained>>

ReturnOk(w) ==
  /\ ~crashed
  /\ place[w] = "return"
  /\ S!Finish(w, "ok")
  /\ UNCHANGED userVars

\* The group notes the first failure.
Report(w) == ~crashed /\ S!Report(TheScope, w) /\ UNCHANGED userVars

-----------------------------------------------------------------------------
(* The goroutine that evaluates the scope.                                 *)

\* let results = makeChannel<T>(n) is the first statement of the block.
Open == ~crashed /\ S!Open(TheScope) /\ UNCHANGED userVars

Spawn(w) ==
  /\ ~crashed
  /\ S!Spawn(TheScope, w)
  /\ UNCHANGED userVars

\* Mutant: only the drained value is behind Wait, never the loop.
CollectingAsWritten == stage[TheScope] = "open" /\ Spawned

\* Where the collector stands: behind Wait only if it is the block's last
\* expression.
Collecting ==
  IF program.afterJoin THEN stage[TheScope] = "trailing"
                       ELSE stage[TheScope] = "open" /\ Spawned

\* The loop stands behind the close, if there is one.
Looping == Collecting /\ ~drained /\ (program.closes => chan.closed)

Close ==
  /\ ~crashed
  /\ Collecting /\ program.closes
  /\ ~ClosePanics(chan)
  /\ chan' = Closed(chan)
  /\ UNCHANGED <<scopeVars, program, place, out, drained, crashed>>

\* for p in results { out = out.push(p) }
RangeNext ==
  /\ ~crashed /\ ~program.polls
  /\ Looping
  /\ chan.buf # <<>>
  /\ out'  = Append(out, Recv(chan))
  /\ chan' = AfterRecv(chan)
  /\ UNCHANGED <<scopeVars, program, place, drained, crashed>>

RangeEnd ==
  /\ ~crashed /\ ~program.polls
  /\ Looping /\ Drained(chan)
  /\ drained' = TRUE
  /\ UNCHANGED <<scopeVars, program, place, chan, out, crashed>>

\* Once a Zero is collected the loop goes on for ever; the bound OneZero keeps
\* no more than the first.
OneZero == Zero \in Range(out)

\* Mutant: the tag of the Option is not looked at.
PollUntagged ==
  /\ ~crashed /\ program.polls
  /\ Looping
  /\ ~OneZero /\ None \notin Range(out)
  /\ out'  = Append(out, TryRecv(chan))
  /\ chan' = AfterRecv(chan)
  /\ UNCHANGED <<scopeVars, program, place, drained, crashed>>

\* match results.tryRecv() { Some(p) => out = out.push(p), None => the end }.
PollSome ==
  /\ ~crashed /\ program.polls
  /\ Looping
  /\ TryRecv(chan) # None
  /\ out'  = IF OneZero THEN out ELSE Append(out, TryRecv(chan))
  /\ chan' = AfterRecv(chan)
  /\ UNCHANGED <<scopeVars, program, place, drained, crashed>>

PollNone ==
  /\ ~crashed /\ program.polls
  /\ Looping
  /\ TryRecv(chan) = None
  /\ drained' = TRUE
  /\ UNCHANGED <<scopeVars, program, place, chan, out, crashed>>

\* Wait returns: with the first failure, or to the trailing expression.
Joined == IF program.afterJoin THEN Spawned ELSE drained

WaitFails == ~crashed /\ Joined /\ S!Fail(TheScope) /\ UNCHANGED userVars

WaitDone == ~crashed /\ Joined /\ S!BeginTrailing(TheScope) /\ UNCHANGED userVars

\* Mutant: the value is built before the channel is drained.
SucceedEarly == ~crashed /\ (program.closes => chan.closed) /\ S!Succeed(TheScope) /\ UNCHANGED userVars

Succeed == ~crashed /\ drained /\ S!Succeed(TheScope) /\ UNCHANGED userVars

Ended == (crashed \/ stage[TheScope] = "returned") /\ UNCHANGED vars

Body(w) == FetchFails(w) \/ Fetched(w) \/ Send(w) \/ SendPanic(w) \/ ReturnOk(w) \/ Report(w)

Owner ==
  \/ Open \/ Close \/ RangeNext \/ RangeEnd \/ PollSome \/ PollNone
  \/ WaitFails \/ WaitDone \/ Succeed
  \/ \E w \in Worker : Spawn(w)

Next == Owner \/ Ended \/ \E w \in Worker : Body(w)

Spec == Init /\ [][Next]_vars

\* The Go scheduler runs every goroutine that can go on, and a fetch ends.
FairSpec == Spec /\ WF_vars(Owner) /\ \A w \in Worker : WF_vars(Body(w))

-----------------------------------------------------------------------------
(* Properties.                                                             *)

\* Types; the buffer keeps its capacity.
TypeOK ==
  /\ stage \in [{TheScope} -> {"unopened", "open", "trailing", "returned"}]
  /\ block \in [Worker -> {"idle", "running", "ok", "err"}]
  /\ member \in [Worker -> {TheScope, NoScope}]
  /\ winner \in [{TheScope} -> Worker \cup {NoWorker}]
  /\ value \in [{TheScope} -> [tag : {"none", "ok", "err"}, err : Worker \cup {NoWorker}]]
  /\ program \in Programs
  /\ place \in [Worker -> {"fetch", "send", "return"}]
  /\ chan \in [cap : {Cap}, buf : Seq(Worker), closed : BOOLEAN]
  /\ Len(chan.buf) =< Cap
  /\ out \in Seq(Worker \cup {Zero})
  /\ drained \in BOOLEAN
  /\ crashed \in BOOLEAN

\* "drain channels, close resources, accumulate results, all safe": behind the
\* join no block meets a closed channel.
CollectingIsSafe == program.afterJoin => ~crashed

\* The documentation says so of the idiom as it writes it.
AlwaysSafe == ~crashed

\* An Ok result holds the result of every block exactly once.
OkIsComplete ==
  value[TheScope].tag = "ok" =>
    /\ Range(out) = Worker
    /\ Len(out) = Cardinality(Worker)

\* "a successful sibling never blocks on send", even if the scope fails.
SiblingNeverBlocks ==
  Cap >= Cardinality(Worker) /\ program.afterJoin =>
    \A w \in Worker : place[w] = "send" => CanSend(chan)

\* Behind the join, and with room for everyone, nobody meets a closed channel
\* and nobody waits for one that is full.
NeverStuckOrCrashed == CollectingIsSafe /\ SiblingNeverBlocks

\* Nothing is collected that no block sent, unless a closed channel is polled:
\* there tryRecv yields Some of the zero value where None is documented.  Then all
\* that was sent has been collected before, and the loop does not end.
OnlySentIsCollected ==
  Zero \in Range(out) =>
    /\ program.polls /\ program.closes /\ ~drained
    /\ chan.closed /\ chan.buf = <<>>
    /\ \A w \in Worker : place[w] = "return" => w \in Range(Front(out))

\* What is collected is what was sent: nothing else, and all of it if it is Ok.
CollectsWhatWasSent == OkIsComplete /\ OnlySentIsCollected

\* Behind the join the scope returns, with room for every result: no
\* interleaving of blocks that fail or send makes anyone wait for ever.
FanOutEnds ==
  program.afterJoin /\ (program.polls => ~program.closes) ~> stage[TheScope] = "returned"
=============================================================================
